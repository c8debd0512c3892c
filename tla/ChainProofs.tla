---------------------------- MODULE ChainProofs ----------------------------
(***************************************************************************)
(* Proofs about the block chain, for every tree of blocks, every choice of *)
(* difficulties, times, states, transactions and invalid blocks, and every *)
(* size of batches: however imports, sealed blocks, side chains, the queue *)
(* of future blocks and reorganisations mix, the canonical index and the   *)
(* transaction lookups are those of one chain, which only a preferred      *)
(* chain replaces.  The recursions over the tree and the index come first, *)
(* then the trie cache, then every part of an import from the inside out.  *)
(***************************************************************************)
EXTENDS BlockChain, FiniteSetTheorems, TLAPS

(***************************************************************************)
(* Recursions over the tree of blocks.                                     *)
(***************************************************************************)

\* f is a recursion's solution on a part of the tree.
Attempt(V, base, step, S, f) ==
  /\ S \in SUBSET Blocks /\ Genesis \in S /\ f \in [S -> V]
  /\ f[Genesis] = base
  /\ \A b \in S \ {Genesis} : Parent[b] \in S /\ f[b] = step[b][f[Parent[b]]]

\* The same on the whole tree.
Solution(V, base, step, f) ==
  /\ f \in [Blocks -> V] /\ f[Genesis] = base
  /\ \A b \in Blocks \ {Genesis} : Parent[b] \in Blocks /\ f[b] = step[b][f[Parent[b]]]

\* A recursion that makes the value of a block from that of its parent has a
\* solution, and its values are in the set that every step stays in.
LEMMA TreeRecursion ==
    ASSUME NEW V, NEW base \in V, NEW step \in [Blocks -> [V -> V]]
    PROVE  \E f : Solution(V, base, step, f)
<1> DEFINE A(S, f) == Attempt(V, base, step, S, f)
<1>0. Genesis \in Blocks
  BY ChainAssumption
<1>1. ASSUME NEW S, NEW f, A(S, f), NEW T, NEW g, A(T, g), NEW b \in S \cap T
      PROVE  f[b] = g[b]
  <2> DEFINE D == {x \in S \cap T : f[x] # g[x]}
  <2>1. D \in SUBSET (Blocks \ {Genesis})
    BY <1>1 DEF Attempt
  <2>2. SUFFICES ASSUME D # {} PROVE FALSE
    OBVIOUS
  <2>3. PICK x \in D : Parent[x] \in Blocks \ D
    BY <2>1, <2>2, TreeAssumption
  <2>4. Parent[x] \in S \cap T /\ x # Genesis
    BY <1>1, <2>1 DEF Attempt
  <2>5. f[Parent[x]] = g[Parent[x]]
    BY <2>3, <2>4
  <2>6. f[x] = g[x]
    BY <1>1, <2>4, <2>5 DEF Attempt
  <2>7. QED
    BY <2>6
<1>2. ASSUME NEW b \in Blocks PROVE \E S, f : A(S, f) /\ b \in S
  <2> DEFINE D == {x \in Blocks : ~ \E S, f : A(S, f) /\ x \in S}
  <2>1. Genesis \notin D
    <3> DEFINE f == [x \in {Genesis} |-> base]
    <3>1. A({Genesis}, f)
      BY <1>0 DEF Attempt
    <3>2. QED
      BY <3>1
  <2>2. SUFFICES ASSUME D # {} PROVE FALSE
    OBVIOUS
  <2>3. D \in SUBSET (Blocks \ {Genesis})
    BY <2>1
  <2>4. PICK x \in D : Parent[x] \in Blocks \ D
    BY <2>2, <2>3, TreeAssumption
  <2>5. PICK S, f : A(S, f) /\ Parent[x] \in S
    BY <2>4
  <2> DEFINE v == step[x][f[Parent[x]]]
             T == S \cup {x}
             g == [y \in T |-> IF y \in S THEN f[y] ELSE v]
  <2>6. v \in V
    BY <2>5 DEF Attempt
  <2>7. x \notin S
    BY <2>4, <2>5
  <2> HIDE DEF v
  <2>8. g \in [T -> V]
    BY <2>5, <2>6 DEF Attempt
  <2>9. g[Genesis] = base
    BY <2>5 DEF Attempt
  <2>10. \A y \in T \ {Genesis} : Parent[y] \in T /\ g[y] = step[y][g[Parent[y]]]
    <3> SUFFICES ASSUME NEW y \in T \ {Genesis}
                 PROVE  Parent[y] \in T /\ g[y] = step[y][g[Parent[y]]]
      OBVIOUS
    <3>1. CASE y \in S
      BY <2>5, <3>1 DEF Attempt
    <3>2. CASE y = x
      BY <2>5, <2>7, <3>2 DEF v
    <3>3. QED
      BY <3>1, <3>2
  <2>11. A(T, g) /\ x \in T
    <3> HIDE DEF g
    <3>1. QED
      BY <2>5, <2>8, <2>9, <2>10 DEF Attempt
  <2>12. QED
    BY <2>11
<1> DEFINE F == [b \in Blocks |-> CHOOSE v : \E S, f : A(S, f) /\ b \in S /\ v = f[b]]
<1>3. ASSUME NEW S, NEW f, A(S, f), NEW b \in S PROVE F[b] = f[b]
  <2>1. b \in Blocks
    BY <1>3 DEF Attempt
  <2>2. \E v : \E T, g : A(T, g) /\ b \in T /\ v = g[b]
    BY <1>3
  <2>3. \E T, g : A(T, g) /\ b \in T /\ F[b] = g[b]
    BY <2>1, <2>2
  <2> HIDE DEF F
  <2>4. QED
    BY <1>1, <1>3, <2>3
<1>4. F = [b \in Blocks |-> F[b]]
  OBVIOUS
<1> HIDE DEF F
<1>5. F[Genesis] = base
  <2>1. PICK S, f : A(S, f) /\ Genesis \in S
    BY <1>0, <1>2
  <2>2. F[Genesis] = f[Genesis]
    <3> HIDE DEF A
    <3>1. QED
      BY <1>3, <2>1
  <2>3. QED
    BY <2>1, <2>2 DEF Attempt
<1>6. ASSUME NEW b \in Blocks
      PROVE  F[b] \in V /\ (b # Genesis => Parent[b] \in Blocks /\ F[b] = step[b][F[Parent[b]]])
  <2>1. PICK S, f : A(S, f) /\ b \in S
    BY <1>2
  <2>4. b # Genesis => Parent[b] \in S
    BY <2>1 DEF Attempt
  <2>2. F[b] = f[b] /\ (b # Genesis => Parent[b] \in S /\ F[Parent[b]] = f[Parent[b]])
    <3> HIDE DEF A
    <3>1. QED
      BY <1>3, <2>1, <2>4
  <2>3. QED
    BY <2>1, <2>2 DEF Attempt
<1>7. F \in [Blocks -> V]
  BY <1>4, <1>6
<1>8. QED
  BY <1>5, <1>6, <1>7 DEF Solution

\* Path satisfies its recursion.
LEMMA PathDef ==
    /\ \A b \in Blocks : b # Genesis => Parent[b] \in Blocks
    /\ Path = [b \in Blocks |-> IF b = Genesis THEN <<b>> ELSE Append(Path[Parent[b]], b)]
    /\ Path \in [Blocks -> Seq(Blocks)]
<1> DEFINE V == Seq(Blocks)
           step == [b \in Blocks |-> [s \in V |-> Append(s, b)]]
           Eq(f) == f = [b \in Blocks |-> IF b = Genesis THEN <<b>> ELSE Append(f[Parent[b]], b)]
<1>0. Genesis \in Blocks
  BY ChainAssumption
<1>1. step \in [Blocks -> [V -> V]] /\ <<Genesis>> \in V
  BY <1>0
<1>2. \A b \in Blocks : \A s \in V : step[b][s] = Append(s, b)
  OBVIOUS
<1> HIDE DEF step
<1>3. PICK f : Solution(V, <<Genesis>>, step, f)
  <2> HIDE DEF V
  <2>1. QED
    BY <1>1, TreeRecursion
<1>4. \A b \in Blocks : f[b] = IF b = Genesis THEN <<b>> ELSE Append(f[Parent[b]], b)
  BY <1>2, <1>3 DEF Solution
<1>5. Eq(f)
  BY <1>3, <1>4 DEF Solution
<1>6. Eq(Path)
  <2>1. Path = CHOOSE g : Eq(g)
    BY DEF Path
  <2> HIDE DEF Eq
  <2>2. QED
    BY <1>5, <2>1
<1>7. \A b \in Blocks : b # Genesis => Parent[b] \in Blocks
  BY <1>3 DEF Solution
<1>8. \A b \in Blocks : Path[b] \in V
  <2> DEFINE D == {b \in Blocks : Path[b] \notin V}
  <2>1. SUFFICES ASSUME D # {} PROVE FALSE
    OBVIOUS
  <2>2. Genesis \notin D
    BY <1>0, <1>6
  <2>6. D \in SUBSET (Blocks \ {Genesis})
    BY <2>2
  <2>3. PICK b \in D : Parent[b] \in Blocks \ D
    <3> HIDE DEF D
    <3>1. QED
      BY <2>1, <2>6, TreeAssumption
  <2>4. Path[b] = Append(Path[Parent[b]], b) /\ Path[Parent[b]] \in V
    BY <1>6, <2>2, <2>3
  <2>5. Path[b] \in V
    BY <2>4
  <2>7. QED
    BY <2>5
<1>9. QED
  BY <1>6, <1>7, <1>8

\* Weight satisfies its recursion.
LEMMA WeightLemma ==
    /\ \A b \in Blocks : Weight[b] \in Nat \ {0}
    /\ Weight[Genesis] = Difficulty[Genesis]
    /\ \A b \in Blocks \ {Genesis} : Weight[b] = Weight[Parent[b]] + Difficulty[b]
<1> DEFINE V == Nat \ {0}
           step == [b \in Blocks |-> [s \in V |-> Difficulty[b] + s]]
           Eq(f) == f = [b \in Blocks |-> Difficulty[b] + IF b = Genesis THEN 0 ELSE f[Parent[b]]]
<1>0. Genesis \in Blocks /\ \A b \in Blocks : Difficulty[b] \in V
  BY ChainAssumption
<1>1. step \in [Blocks -> [V -> V]] /\ Difficulty[Genesis] \in V
  BY <1>0
<1>2. \A b \in Blocks : \A s \in V : step[b][s] = Difficulty[b] + s
  OBVIOUS
<1> HIDE DEF step
<1>3. PICK f : Solution(V, Difficulty[Genesis], step, f)
  <2> HIDE DEF V
  <2>1. QED
    BY <1>1, TreeRecursion
<1>4. \A b \in Blocks : f[b] = Difficulty[b] + IF b = Genesis THEN 0 ELSE f[Parent[b]]
  <2> SUFFICES ASSUME NEW b \in Blocks
               PROVE  f[b] = Difficulty[b] + IF b = Genesis THEN 0 ELSE f[Parent[b]]
    OBVIOUS
  <2>1. CASE b = Genesis
    BY <1>0, <1>3, <2>1 DEF Solution
  <2>2. CASE b # Genesis
    <3>1. Parent[b] \in Blocks /\ f[b] = step[b][f[Parent[b]]]
      BY <1>3, <2>2 DEF Solution
    <3>2. f[Parent[b]] \in V
      BY <1>3, <3>1 DEF Solution
    <3>3. f[b] = Difficulty[b] + f[Parent[b]]
      BY <1>2, <3>1, <3>2
    <3>4. QED
      BY <2>2, <3>3
  <2>3. QED
    BY <2>1, <2>2
<1>5. Eq(f)
  BY <1>3, <1>4 DEF Solution
<1>6. Eq(Weight)
  <2>1. Weight = CHOOSE g : Eq(g)
    BY DEF Weight
  <2> HIDE DEF Eq
  <2>2. QED
    BY <1>5, <2>1
<1>7. \A b \in Blocks : Weight[b] = Difficulty[b] + IF b = Genesis THEN 0 ELSE Weight[Parent[b]]
  BY <1>6
<1>8. \A b \in Blocks : Weight[b] \in V
  <2> DEFINE D == {b \in Blocks : Weight[b] \notin V}
  <2>1. SUFFICES ASSUME D # {} PROVE FALSE
    OBVIOUS
  <2>2. Genesis \notin D
    BY <1>0, <1>7
  <2>6. D \in SUBSET (Blocks \ {Genesis})
    BY <2>2
  <2>3. PICK b \in D : Parent[b] \in Blocks \ D
    <3> HIDE DEF D
    <3>1. QED
      BY <2>1, <2>6, TreeAssumption
  <2>4. Weight[b] = Difficulty[b] + Weight[Parent[b]] /\ Weight[Parent[b]] \in V
    BY <1>7, <2>2, <2>3
  <2>5. QED
    BY <1>0, <2>4
<1>9. \A b \in Blocks \ {Genesis} : Weight[b] = Weight[Parent[b]] + Difficulty[b]
  <2> SUFFICES ASSUME NEW b \in Blocks \ {Genesis}
               PROVE  Weight[b] = Weight[Parent[b]] + Difficulty[b]
    OBVIOUS
  <2>1. Weight[b] = Difficulty[b] + Weight[Parent[b]] /\ Weight[Parent[b]] \in Nat /\ Difficulty[b] \in Nat
    BY <1>0, <1>3, <1>7, <1>8 DEF Solution
  <2>2. QED
    BY <2>1
<1>10. Weight[Genesis] = Difficulty[Genesis]
  BY <1>0, <1>7
<1>11. QED
  BY <1>8, <1>9, <1>10

\* Where a path leads: from the genesis to b, each block with its own path
\* before it and on its parent.
Traced(b) ==
  LET s == Path[b]
  IN /\ s \in Seq(Blocks) /\ Len(s) \in Nat \ {0}
     /\ s[Len(s)] = b /\ s[1] = Genesis
     /\ \A i \in 1 .. Len(s) :
          /\ s[i] \in Blocks /\ Len(Path[s[i]]) = i
          /\ \A j \in 1 .. i : Path[s[i]][j] = s[j]
     /\ \A i \in 1 .. Len(s) - 1 : s[i + 1] # Genesis /\ Parent[s[i + 1]] = s[i]

\* Every block is at the end of its path.
LEMMA PathLemma == \A b \in Blocks : Traced(b)
<1> DEFINE D == {b \in Blocks : ~Traced(b)}
<1>0. Genesis \in Blocks
  BY ChainAssumption
<1>1. Traced(Genesis)
  <2> DEFINE s == <<Genesis>>
  <2>1. Path[Genesis] = s
    BY <1>0, PathDef
  <2>2. s \in Seq(Blocks) /\ Len(s) = 1 /\ s[1] = Genesis /\ 1 .. 1 = {1}
    BY <1>0
  <2> HIDE DEF s
  <2>3. QED
    BY <1>0, <2>1, <2>2 DEF Traced
<1>2. ASSUME NEW b \in Blocks, b # Genesis, Traced(Parent[b]) PROVE Traced(b)
  <2> DEFINE p == Parent[b]
             s == Path[p]
             t == Path[b]
             n == Len(s)
  <2>1. p \in Blocks /\ t = Append(s, b)
    BY <1>2, PathDef
  <2>2. /\ s \in Seq(Blocks) /\ n \in Nat \ {0}
        /\ s[n] = p /\ s[1] = Genesis
        /\ \A i \in 1 .. n : /\ s[i] \in Blocks /\ Len(Path[s[i]]) = i
                            /\ \A j \in 1 .. i : Path[s[i]][j] = s[j]
        /\ \A i \in 1 .. n - 1 : s[i + 1] # Genesis /\ Parent[s[i + 1]] = s[i]
    BY <1>2 DEF Traced
  <2> HIDE DEF s, p, n
  <2>3. /\ t \in Seq(Blocks) /\ Len(t) = n + 1 /\ t[n + 1] = b
        /\ \A i \in 1 .. n : t[i] = s[i]
    BY <2>1, <2>2 DEF n
  <2> HIDE DEF t
  <2>4. t[1] = Genesis
    BY <2>2, <2>3
  <2>5. ASSUME NEW i \in 1 .. n + 1
        PROVE  t[i] \in Blocks /\ Len(Path[t[i]]) = i /\ \A j \in 1 .. i : Path[t[i]][j] = t[j]
    <3>1. CASE i = n + 1
      <4>1. t[i] = b /\ Path[t[i]] = t
        BY <2>3, <3>1 DEF t
      <4>2. QED
        BY <2>3, <3>1, <4>1
    <3>2. CASE i # n + 1
      <4>1. i \in 1 .. n /\ \A j \in 1 .. i : j \in 1 .. n
        BY <2>2, <3>2
      <4>2. t[i] = s[i] /\ \A j \in 1 .. i : t[j] = s[j]
        BY <2>3, <4>1
      <4>3. QED
        BY <2>2, <4>1, <4>2
    <3>3. QED
      BY <3>1, <3>2
  <2>6. ASSUME NEW i \in 1 .. n PROVE t[i + 1] # Genesis /\ Parent[t[i + 1]] = t[i]
    <3>1. CASE i = n
      <4>1. t[i + 1] = b /\ t[i] = p
        BY <2>2, <2>3, <3>1
      <4>2. QED
        BY <1>2, <4>1 DEF p
    <3>2. CASE i # n
      <4>1. i \in 1 .. n - 1 /\ i + 1 \in 1 .. n
        BY <2>2, <3>2
      <4>2. QED
        BY <2>2, <2>3, <4>1
    <3>3. QED
      BY <3>1, <3>2
  <2>7. QED
    <3>1. Len(t) \in Nat \ {0} /\ (n + 1) - 1 = n
      BY <2>2, <2>3
    <3>2. t = Path[b]
      BY DEF t
    <3>3. QED
      BY <2>2, <2>3, <2>4, <2>5, <2>6, <3>1, <3>2 DEF Traced
<1>3. SUFFICES ASSUME D # {} PROVE FALSE
  OBVIOUS
<1>4. D \in SUBSET (Blocks \ {Genesis})
  BY <1>1
<1>5. PICK b \in D : Parent[b] \in Blocks \ D
  <2> HIDE DEF D
  <2>1. QED
    BY <1>3, <1>4, TreeAssumption
<1>6. QED
  BY <1>2, <1>4, <1>5

(***************************************************************************)
(* Finite sets of numbers and folds.                                       *)
(***************************************************************************)
Inserts == INSTANCE FoldTheorems WITH
  Op <- LAMBDA p, q, r, d, e : IF e \in p THEN insert(d, e) ELSE d

\* A finite set of numbers has a highest and a lowest one.
LEMMA MaxMinLemma ==
    ASSUME NEW S \in SUBSET Int, IsFiniteSet(S), S # {}
    PROVE  /\ Max(S) \in S /\ \A i \in S : i <= Max(S)
           /\ Min(S) \in S /\ \A i \in S : Min(S) <= i
<1> DEFINE P(T) == /\ \E m \in T : \A i \in T : m >= i
                   /\ \E m \in T : \A i \in T : m <= i
           K == {k \in Nat : \A T \in SUBSET S : Cardinality(T) = k + 1 => P(T)}
<1>1. \A T \in SUBSET S : IsFiniteSet(T)
  BY FS_Subset
<1>2. ASSUME NEW T \in SUBSET S, Cardinality(T) = 1 PROVE P(T)
  <2>1. PICK x : T = {x}
    BY <1>1, <1>2, FS_Singleton
  <2>2. x \in Int
    BY <2>1
  <2>3. QED
    BY <2>1, <2>2
<1>3. ASSUME NEW k \in Nat, k \in K PROVE k + 1 \in K
  <2> SUFFICES ASSUME NEW T \in SUBSET S, Cardinality(T) = (k + 1) + 1 PROVE P(T)
    <3> HIDE DEF P
    <3>1. QED
      OBVIOUS
  <2>1. T # {}
    BY FS_EmptySet
  <2>2. PICK x \in T : TRUE
    BY <2>1
  <2>3. Cardinality(T \ {x}) = Cardinality(T) - 1
    BY <1>1, FS_RemoveElement
  <2>4. Cardinality(T \ {x}) = k + 1 /\ T \ {x} \in SUBSET S
    BY <2>3
  <2>5. P(T \ {x})
    BY <1>3, <2>4
  <2>6. PICK hi \in T \ {x} : \A i \in T \ {x} : hi >= i
    BY <2>5
  <2>7. PICK lo \in T \ {x} : \A i \in T \ {x} : lo <= i
    BY <2>5
  <2>8. x \in Int /\ hi \in Int /\ lo \in Int /\ \A i \in T : i \in Int
    OBVIOUS
  <2>9. \E m \in T : \A i \in T : m >= i
    <3>1. CASE x >= hi
      BY <2>6, <2>8, <3>1
    <3>2. CASE ~(x >= hi)
      BY <2>6, <2>8, <3>2
    <3>3. QED
      BY <3>1, <3>2
  <2>10. \E m \in T : \A i \in T : m <= i
    <3>1. CASE x <= lo
      BY <2>7, <2>8, <3>1
    <3>2. CASE ~(x <= lo)
      BY <2>7, <2>8, <3>2
    <3>3. QED
      BY <3>1, <3>2
  <2>11. QED
    BY <2>9, <2>10
<1>4. 0 \in K
  <2> HIDE DEF P
  <2>1. QED
    BY <1>2
<1>5. Cardinality(S) \in Nat /\ Cardinality(S) # 0
  BY FS_CardinalityType, FS_EmptySet
<1> DEFINE n == Cardinality(S) - 1
<1>6. n \in Nat /\ Cardinality(S) = n + 1
  BY <1>5
<1>7. n \in K
  <2> HIDE DEF K, n
  <2>1. QED
    BY <1>3, <1>4, <1>6, Inserts!SetInduction
<1>8. P(S)
  <2> HIDE DEF P
  <2>1. QED
    BY <1>6, <1>7
<1>9. (\E x \in S : \A y \in S : x >= y) => Max(S) \in S /\ \A y \in S : Max(S) >= y
  BY DEF Max
<1>10. (\E x \in S : \A y \in S : x =< y) => Min(S) \in S /\ \A y \in S : Min(S) =< y
  BY DEF Min
<1>11. QED
  BY <1>8, <1>9, <1>10

\* The same for some of the numbers up to n.
LEMMA RangeLemma ==
    ASSUME NEW n \in Nat, NEW S \in SUBSET (0 .. n), S # {}
    PROVE  /\ Max(S) \in S /\ \A i \in S : i <= Max(S)
           /\ Min(S) \in S /\ \A i \in S : Min(S) <= i
<1>1. IsFiniteSet(S) /\ S \in SUBSET Int
  <2>1. IsFiniteSet(0 .. n)
    BY FS_Interval
  <2>2. IsFiniteSet(S)
    BY <2>1, FS_Subset
  <2>3. QED
    BY <2>2
<1>2. QED
  BY <1>1, MaxMinLemma

\* Numbers of blocks.
LEMMA NumberLemma ==
    /\ MaxNumber \in Nat
    /\ \A b \in Blocks : Number[b] \in 0 .. MaxNumber /\ Len(Path[b]) = Number[b] + 1
    /\ Number[Genesis] = 0
    /\ \A b \in Blocks \ {Genesis} : Number[b] = Number[Parent[b]] + 1
<1> DEFINE S == {Number[b] : b \in Blocks}
<1>0. Genesis \in Blocks /\ IsFiniteSet(Blocks)
  BY ChainAssumption
<1>1. \A b \in Blocks : Len(Path[b]) \in Nat \ {0} /\ Number[b] = Len(Path[b]) - 1
  BY PathLemma DEF Traced, Number
<1>2. \A b \in Blocks : Number[b] \in Nat /\ Len(Path[b]) = Number[b] + 1
  BY <1>1
<1>3. IsFiniteSet(S)
  <2>1. Number \in Surjection(Blocks, S)
    BY DEF Surjection, Number
  <2> HIDE DEF S
  <2>2. QED
    BY <1>0, <2>1, FS_Surjection
<1>4. S \in SUBSET Int /\ S # {}
  BY <1>0, <1>2
<1>5. Max(S) \in S /\ \A i \in S : i <= Max(S)
  <2> HIDE DEF S
  <2>1. QED
    BY <1>3, <1>4, MaxMinLemma
<1>6. MaxNumber \in Nat /\ \A b \in Blocks : Number[b] \in 0 .. MaxNumber
  BY <1>2, <1>5 DEF MaxNumber
<1>7. Number[Genesis] = 0
  <2>1. Path[Genesis] = <<Genesis>>
    BY <1>0, PathDef
  <2>2. Len(Path[Genesis]) = 1
    BY <2>1
  <2>3. Number[Genesis] = Len(Path[Genesis]) - 1
    BY <1>0, <1>1
  <2>4. QED
    BY <2>2, <2>3
<1>8. \A b \in Blocks \ {Genesis} : Number[b] = Number[Parent[b]] + 1
  <2> SUFFICES ASSUME NEW b \in Blocks \ {Genesis} PROVE Number[b] = Number[Parent[b]] + 1
    OBVIOUS
  <2>1. Parent[b] \in Blocks /\ Path[b] = Append(Path[Parent[b]], b) /\ Path[Parent[b]] \in Seq(Blocks)
    BY PathDef
  <2>2. Len(Path[b]) = Len(Path[Parent[b]]) + 1
    BY <2>1
  <2>3. QED
    BY <1>1, <2>1, <2>2
<1>9. QED
  BY <1>2, <1>6, <1>7, <1>8

(***************************************************************************)
(* The canonical index and the transaction lookups in a reorganisation.    *)
(***************************************************************************)

\* Two paths have a longest common beginning.
LEMMA PrefixLemma ==
    ASSUME NEW a \in Blocks, NEW b \in Blocks
    PROVE  LET k == CommonPrefix(Path[a], Path[b])
           IN  k \in Nat /\ k <= Len(Path[a]) /\ k <= Len(Path[b])
               /\ \A i \in 1 .. k : Path[a][i] = Path[b][i]
<1> DEFINE p == Path[a]
           q == Path[b]
           Good(k) == k <= Len(q) /\ SubSeq(p, 1, k) = SubSeq(q, 1, k)
           Ends(k) == k = Len(p) \/ k = Len(q) \/ p[k + 1] # q[k + 1]
           S == {k \in 0 .. Len(p) : Good(k)}
           k0 == CommonPrefix(p, q)
<1>1. p \in Seq(Blocks) /\ q \in Seq(Blocks)
  BY PathDef
<1> HIDE DEF p, q
<1>2. Len(p) \in Nat /\ Len(q) \in Nat
  BY <1>1
<1>3. ASSUME NEW k \in 0 .. Len(p), k <= Len(q)
      PROVE  SubSeq(p, 1, k) = SubSeq(q, 1, k) <=> \A i \in 1 .. k : p[i] = q[i]
  BY <1>1, <1>2, <1>3
<1>4. 0 \in S
  BY <1>2, <1>3
<1>5. S \in SUBSET (0 .. Len(p))
  OBVIOUS
<1> DEFINE m == Max(S)
<1>6. m \in S /\ \A i \in S : i <= m
  <2> HIDE DEF S
  <2>1. QED
    BY <1>2, <1>4, <1>5, RangeLemma
<1> HIDE DEF m
<1>7. Ends(m)
  <2> SUFFICES ASSUME m # Len(p), m # Len(q), p[m + 1] = q[m + 1] PROVE FALSE
    OBVIOUS
  <2>1. m + 1 \in 0 .. Len(p) /\ m + 1 <= Len(q) /\ m \in 0 .. Len(p) /\ m <= Len(q)
    BY <1>2, <1>6
  <2>2. \A i \in 1 .. m : p[i] = q[i]
    BY <1>3, <1>6, <2>1
  <2>3. \A i \in 1 .. m + 1 : p[i] = q[i]
    BY <2>1, <2>2
  <2>4. m + 1 \in S
    BY <1>3, <2>1, <2>3
  <2>5. QED
    BY <1>6, <2>1, <2>4
<1>8. \E k \in 0 .. Len(p) : Good(k) /\ Ends(k)
  BY <1>6, <1>7
<1>9. k0 \in 0 .. Len(p) /\ Good(k0) /\ Ends(k0)
  BY <1>8 DEF CommonPrefix
<1> HIDE DEF k0
<1>10. k0 \in Nat /\ k0 <= Len(p) /\ k0 <= Len(q) /\ \A i \in 1 .. k0 : p[i] = q[i]
  BY <1>2, <1>3, <1>9
<1>11. QED
  BY <1>10 DEF k0, p, q

ChainFields == {"td", "bodies", "canon", "trie", "lookup", "head", "header", "fast",
                "future", "gc", "fed"}

\* An operation on the index leaves the blocks and the tries alone.
Beside(d, e) ==
  /\ DOMAIN d = ChainFields
  /\ d.td = e.td /\ d.bodies = e.bodies /\ d.trie = e.trie /\ d.gc = e.gc
  /\ d.future = e.future /\ d.fed = e.fed

\* The types of the index.
IndexType(e) ==
  /\ e.header \in Blocks /\ e.fast \in Blocks
  /\ e.canon \in [0 .. MaxNumber -> Blocks \cup {NoBlock}]

\* One block becomes canonical, with its transactions.
Enter(d, x) == WriteTxLookupEntries(insertHead(d, x), x)

\* What entering a block changes.
LEMMA EnterLemma ==
    ASSUME NEW d, DOMAIN d = ChainFields, IndexType(d), NEW x \in Blocks
    PROVE  /\ Beside(Enter(d, x), d) /\ IndexType(Enter(d, x)) /\ Enter(d, x).head = x
           /\ \A n \in 0 .. MaxNumber :
                Enter(d, x).canon[n] = IF n = Number[x] THEN x ELSE d.canon[n]
           /\ Enter(d, x).lookup = [t \in Txs |-> IF t \in Content[x] THEN x ELSE d.lookup[t]]
<1> DEFINE e == insertHead(d, x)
<1>1. Number[x] \in 0 .. MaxNumber
  BY NumberLemma
<1>2. /\ Beside(e, d) /\ e.head = x /\ e.lookup = d.lookup
      /\ e.header \in Blocks /\ e.fast \in Blocks
      /\ e.canon = [d.canon EXCEPT ![Number[x]] = x]
  BY DEF insertHead, Beside, IndexType, ChainFields
<1> HIDE DEF e
<1>3. IndexType(e)
  BY <1>1, <1>2 DEF IndexType
<1>4. \A n \in 0 .. MaxNumber : e.canon[n] = IF n = Number[x] THEN x ELSE d.canon[n]
  BY <1>2 DEF IndexType
<1> DEFINE f == WriteTxLookupEntries(e, x)
<1>5. /\ Beside(f, e) /\ f.head = e.head /\ f.header = e.header /\ f.fast = e.fast /\ f.canon = e.canon
      /\ f.lookup = [t \in Txs |-> IF t \in Content[x] THEN x ELSE e.lookup[t]]
  BY <1>2 DEF WriteTxLookupEntries, Beside, ChainFields
<1>6. f = Enter(d, x)
  BY DEF Enter, e
<1> HIDE DEF f
<1>7. QED
  BY <1>2, <1>3, <1>4, <1>5, <1>6 DEF Beside, IndexType

Enters == INSTANCE FoldTheorems WITH Op <- LAMBDA p, q, r, d, e : Enter(d, e)

\* What entering the blocks of the path s, from place k + 1 to place m, makes of
\* the index.
Entered(d, e, s, k, m) ==
  /\ Beside(d, e) /\ IndexType(d)
  /\ \A n \in 0 .. MaxNumber : d.canon[n] = IF k <= n /\ n < m THEN s[n + 1] ELSE e.canon[n]
  /\ d.lookup = [t \in Txs |-> d.lookup[t]]
  /\ \A t \in Txs :
       /\ \A i \in k + 1 .. m : t \in Content[s[i]] => d.lookup[t] = s[i]
       /\ (\A i \in k + 1 .. m : t \notin Content[s[i]]) => d.lookup[t] = e.lookup[t]

\* The loop of a reorganisation.
LEMMA EnteredLemma ==
    ASSUME NEW e, DOMAIN e = ChainFields, IndexType(e), e.lookup = [t \in Txs |-> e.lookup[t]],
           NEW b \in Blocks, NEW k \in 0 .. Len(Path[b])
    PROVE  Entered(Fold(LAMBDA d, x : WriteTxLookupEntries(insertHead(d, x), x), e,
                        SubSeq(Path[b], k + 1, Len(Path[b]))),
                   e, Path[b], k, Len(Path[b]))
<1> DEFINE s == Path[b]
           a == SubSeq(s, k + 1, Len(s))
           N == Len(a)
           fold == Fold(LAMBDA d, x : WriteTxLookupEntries(insertHead(d, x), x), e, a)
<1>1. /\ s \in Seq(Blocks) /\ Len(s) \in Nat
      /\ \A i \in 1 .. Len(s) : s[i] \in Blocks /\ Number[s[i]] = i - 1
      /\ \A i, j \in 1 .. Len(s) : i # j => Content[s[i]] \cap Content[s[j]] = {}
  <2>1. /\ s \in Seq(Blocks) /\ \A i \in 1 .. Len(s) : s[i] \in Blocks /\ Len(Path[s[i]]) = i
    BY PathLemma DEF Traced
  <2>2. \A i \in 1 .. Len(s) : Number[s[i]] = i - 1
    BY <2>1 DEF Number
  <2>3. DOMAIN s = 1 .. Len(s) /\ Len(s) \in Nat
    BY <2>1
  <2>4. QED
    BY <2>1, <2>2, <2>3, ContentAssumption
<1> HIDE DEF s
<1>2. a \in Seq(Blocks) /\ N = Len(s) - k /\ N \in Nat /\ \A i \in 1 .. N : a[i] = s[k + i]
  <2>1. k \in 0 .. Len(s)
    BY DEF s
  <2>2. QED
    BY <1>1, <2>1
<1>3. fold = Enters!Running(0, 0, 0, e, a, N)
  BY DEF Fold, Enters!Running, Enter
<1> HIDE DEF a, N, fold
<1>4. PICK f : /\ fold = f[N] /\ f[0] = e
               /\ \A i \in 1 .. N : f[i] = Enter(f[i - 1], a[i])
  BY <1>2, <1>3, Enters!RunningSteps
<1> DEFINE I(i) == Entered(f[i], e, s, k, k + i)
           S == {i \in 0 .. N : I(i)}
<1>5. I(0)
  <2>1. Entered(e, e, s, k, k)
    BY DEF Entered, Beside
  <2>2. k + 0 = k
    OBVIOUS
  <2>3. QED
    BY <1>4, <2>1, <2>2
<1>6. ASSUME NEW i \in 0 .. N - 1, I(i) PROVE I(i + 1)
  <2> DEFINE d == f[i]
             j == k + i + 1
             x == s[j]
             g == f[i + 1]
  <2>1. i + 1 \in 1 .. N /\ (i + 1) - 1 = i /\ j \in 1 .. Len(s) /\ k + (i + 1) = j
    BY <1>1, <1>2
  <2>2. x \in Blocks /\ Number[x] = j - 1 /\ g = Enter(d, x)
    <3>1. a[i + 1] = s[k + (i + 1)]
      BY <1>2, <2>1
    <3>2. QED
      BY <1>1, <1>4, <2>1, <3>1
  <2>3. Entered(d, e, s, k, j - 1)
    <3>1. j - 1 = k + i
      OBVIOUS
    <3>2. QED
      BY <1>6, <3>1
  <2> HIDE DEF d, g, x, j
  <2>4. /\ Beside(g, d) /\ IndexType(g)
        /\ \A n \in 0 .. MaxNumber : g.canon[n] = IF n = j - 1 THEN x ELSE d.canon[n]
        /\ g.lookup = [t \in Txs |-> IF t \in Content[x] THEN x ELSE d.lookup[t]]
    <3>1. DOMAIN d = ChainFields /\ IndexType(d)
      BY <2>3 DEF Entered, Beside
    <3>2. QED
      BY <2>2, <3>1, EnterLemma
  <2>5. Beside(g, e)
    BY <2>3, <2>4 DEF Entered, Beside
  <2>6. ASSUME NEW n \in 0 .. MaxNumber
        PROVE  g.canon[n] = IF k <= n /\ n < j THEN s[n + 1] ELSE e.canon[n]
    <3>1. d.canon[n] = IF k <= n /\ n < j - 1 THEN s[n + 1] ELSE e.canon[n]
      BY <2>3 DEF Entered
    <3>2. j \in Nat /\ k <= j - 1
      BY <1>1, <2>1 DEF j
    <3>3. n = j - 1 => x = s[n + 1]
      BY <3>2 DEF x
    <3>4. QED
      BY <2>4, <3>1, <3>2, <3>3
  <2>7. ASSUME NEW t \in Txs
        PROVE  /\ \A m \in k + 1 .. j : t \in Content[s[m]] => g.lookup[t] = s[m]
               /\ (\A m \in k + 1 .. j : t \notin Content[s[m]]) => g.lookup[t] = e.lookup[t]
    <3>0. /\ \A m \in k + 1 .. j - 1 : t \in Content[s[m]] => d.lookup[t] = s[m]
          /\ (\A m \in k + 1 .. j - 1 : t \notin Content[s[m]]) => d.lookup[t] = e.lookup[t]
      BY <2>3 DEF Entered
    <3>1. /\ \A m \in k + 1 .. j : m = j \/ m \in k + 1 .. j - 1
          /\ \A m \in k + 1 .. j - 1 : m \in k + 1 .. j
          /\ j \in k + 1 .. j
          /\ \A m \in k + 1 .. j : m \in 1 .. Len(s)
      BY <1>1, <2>1 DEF j
    <3>2. CASE t \in Content[x]
      <4>1. g.lookup[t] = s[j]
        BY <2>4, <3>2 DEF x
      <4>2. \A m \in k + 1 .. j : m # j => t \notin Content[s[m]]
        BY <1>1, <2>1, <3>1, <3>2 DEF x
      <4>3. t \in Content[s[j]]
        BY <3>2 DEF x
      <4> HIDE DEF x
      <4>4. QED
        BY <3>1, <4>1, <4>2, <4>3
    <3>3. CASE t \notin Content[x]
      <4>1. g.lookup[t] = d.lookup[t]
        BY <2>4, <3>3
      <4>2. t \notin Content[s[j]]
        BY <3>3 DEF x
      <4>3. QED
        BY <3>0, <3>1, <4>1, <4>2
    <3>4. QED
      BY <3>2, <3>3
  <2>8. g.lookup = [t \in Txs |-> g.lookup[t]]
    BY <2>4
  <2>9. Entered(g, e, s, k, j)
    BY <2>4, <2>5, <2>6, <2>7, <2>8 DEF Entered
  <2>10. QED
    BY <2>1, <2>9 DEF g
<1>7. I(N)
  <2>1. 0 \in S /\ \A i \in 0 .. N - 1 : i \in S => i + 1 \in S
    <3> HIDE DEF I
    <3>1. \A i \in 0 .. N - 1 : i \in 0 .. N /\ i + 1 \in 0 .. N
      BY <1>2
    <3>2. QED
      BY <1>2, <1>5, <1>6, <3>1
  <2> HIDE DEF S, I
  <2>2. N \in S
    BY <1>2, <2>1, Enters!Reaches
  <2>3. QED
    BY <2>2 DEF S
<1>8. k + N = Len(s)
  BY <1>1, <1>2
<1>9. QED
  BY <1>4, <1>7, <1>8 DEF fold, a, s

Holder(s, t) == Abstract!Holder(s, t)

\* A chain has a transaction in one block at most, which the lookup names.
LEMMA HolderLemma ==
    ASSUME NEW b \in Blocks, NEW t
    PROVE  /\ \A i \in 1 .. Len(Path[b]) : t \in Content[Path[b][i]] => Holder(Path[b], t) = Path[b][i]
           /\ (\A i \in 1 .. Len(Path[b]) : t \notin Content[Path[b][i]]) => Holder(Path[b], t) = NoBlock
<1> DEFINE s == Path[b]
<1>0. s \in Seq(Blocks)
  BY PathDef
<1>1. DOMAIN s = 1 .. Len(s)
  <2> HIDE DEF s
  <2>1. QED
    BY <1>0
<1>2. \A i, j \in 1 .. Len(s) : i # j => Content[s[i]] \cap Content[s[j]] = {}
  BY <1>1, ContentAssumption
<1> HIDE DEF s
<1>3. ASSUME NEW i \in 1 .. Len(s), t \in Content[s[i]] PROVE Holder(s, t) = s[i]
  <2> DEFINE j == CHOOSE j \in DOMAIN s : t \in Content[s[j]]
  <2>1. j \in 1 .. Len(s) /\ t \in Content[s[j]]
    BY <1>1, <1>3
  <2>2. Holder(s, t) = s[j]
    BY <1>1, <1>3 DEF Holder, Abstract!Holder
  <2> HIDE DEF j
  <2>3. j = i
    BY <1>2, <1>3, <2>1
  <2>4. QED
    BY <2>2, <2>3
<1>4. (\A i \in 1 .. Len(s) : t \notin Content[s[i]]) => Holder(s, t) = NoBlock
  BY <1>1 DEF Holder, Abstract!Holder
<1>5. QED
  BY <1>3, <1>4 DEF s

\* The index up to the head, and the lookups, are those of the head's path.
Canonical(e) ==
  /\ \A n \in 0 .. Number[e.head] : e.canon[n] = Path[e.head][n + 1]
  /\ e.lookup = [t \in Txs |-> Holder(Path[e.head], t)]

\* A reorganisation to b leads the index and the lookups along b's path.
LEMMA ReorgLemma ==
    ASSUME NEW e, DOMAIN e = ChainFields, IndexType(e), e.lookup = [t \in Txs |-> e.lookup[t]],
           e.head \in Blocks, NEW b \in Blocks
    PROVE  LET d == reorg(e, e.head, b)
           IN  /\ Beside(d, e) /\ IndexType(d) /\ d.lookup = [t \in Txs |-> d.lookup[t]]
               /\ Canonical(e) =>
                    /\ \A n \in 0 .. Number[b] : d.canon[n] = Path[b][n + 1]
                    /\ d.lookup = [t \in Txs |-> Holder(Path[b], t)]
<1> DEFINE a == e.head
           p == Path[a]
           q == Path[b]
           k == CommonPrefix(p, q)
           drop == SubSeq(p, k + 1, Len(p))
           add == SubSeq(q, k + 1, Len(q))
           gone == (UNION {Content[x] : x \in ToSet(drop)}) \ (UNION {Content[x] : x \in ToSet(add)})
           added == Fold(LAMBDA d, x : WriteTxLookupEntries(insertHead(d, x), x), e, add)
           d == reorg(e, a, b)
<1>1. a \in Blocks /\ p \in Seq(Blocks) /\ q \in Seq(Blocks)
  BY PathDef
<1>2. /\ k \in Nat /\ k <= Len(p) /\ k <= Len(q) /\ Len(p) \in Nat /\ Len(q) \in Nat
      /\ \A i \in 1 .. k : p[i] = q[i]
  <2>1. k \in Nat /\ k <= Len(p) /\ k <= Len(q) /\ \A i \in 1 .. k : p[i] = q[i]
    <3> HIDE DEF a
    <3>1. QED
      BY <1>1, PrefixLemma
  <2> HIDE DEF p, q, k, a
  <2>2. QED
    BY <1>1, <2>1
<1>3. Entered(added, e, q, k, Len(q))
  <2>1. k \in 0 .. Len(q)
    BY <1>2
  <2> HIDE DEF k
  <2>2. QED
    BY <2>1, EnteredLemma
<1>4. /\ Len(p) = Number[a] + 1 /\ Len(q) = Number[b] + 1
      /\ Number[a] \in 0 .. MaxNumber /\ Number[b] \in 0 .. MaxNumber /\ MaxNumber \in Nat
  BY <1>1, NumberLemma
<1>5. d = [added EXCEPT !.lookup = [t \in Txs |-> IF t \in gone THEN NoBlock ELSE @[t]]]
  BY DEF reorg
<1>6. /\ \A t : t \in gone <=> /\ \E i \in k + 1 .. Len(p) : t \in Content[p[i]]
                               /\ \A i \in k + 1 .. Len(q) : t \notin Content[q[i]]
  <2>1. ASSUME NEW s \in Seq(Blocks), k <= Len(s), NEW t
        PROVE  t \in UNION {Content[x] : x \in ToSet(SubSeq(s, k + 1, Len(s)))}
                 <=> \E i \in k + 1 .. Len(s) : t \in Content[s[i]]
    <3> DEFINE u == SubSeq(s, k + 1, Len(s))
    <3>1. Len(s) \in Nat
      BY <2>1
    <3> HIDE DEF k
    <3>2. /\ DOMAIN u = 1 .. Len(s) - k
          /\ \A i \in 1 .. Len(s) - k : u[i] = s[k + i]
      BY <1>2, <2>1, <3>1
    <3> HIDE DEF u
    <3>3. ASSUME NEW i \in 1 .. Len(s) - k PROVE u[i] = s[k + i] /\ k + i \in k + 1 .. Len(s)
      BY <1>2, <3>1, <3>2
    <3>4. ASSUME NEW i \in k + 1 .. Len(s) PROVE i - k \in DOMAIN u /\ u[i - k] = s[i]
      <4>1. i - k \in 1 .. Len(s) - k /\ k + (i - k) = i
        BY <1>2, <3>1
      <4>2. QED
        BY <3>2, <4>1
    <3>5. ToSet(u) = {s[i] : i \in k + 1 .. Len(s)}
      BY <3>2, <3>3, <3>4 DEF ToSet
    <3>6. QED
      BY <3>5 DEF u
  <2>2. ASSUME NEW t
        PROVE  /\ t \in UNION {Content[x] : x \in ToSet(drop)}
                    <=> \E i \in k + 1 .. Len(p) : t \in Content[p[i]]
               /\ t \in UNION {Content[x] : x \in ToSet(add)}
                    <=> \E i \in k + 1 .. Len(q) : t \in Content[q[i]]
    <3> HIDE DEF p, q, k, a
    <3>1. QED
      BY <1>1, <1>2, <2>1
  <2> SUFFICES ASSUME NEW t
               PROVE  t \in gone <=> /\ \E i \in k + 1 .. Len(p) : t \in Content[p[i]]
                                     /\ \A i \in k + 1 .. Len(q) : t \notin Content[q[i]]
    OBVIOUS
  <2> DEFINE D == UNION {Content[x] : x \in ToSet(drop)}
             A == UNION {Content[x] : x \in ToSet(add)}
  <2> HIDE DEF p, q, k, a, drop, add
  <2>3. gone = D \ A
    OBVIOUS
  <2>4. /\ t \in D <=> \E i \in k + 1 .. Len(p) : t \in Content[p[i]]
        /\ t \in A <=> \E i \in k + 1 .. Len(q) : t \in Content[q[i]]
    BY <2>2
  <2> HIDE DEF D, A, gone
  <2>5. QED
    BY <2>3, <2>4
<1> HIDE DEF gone, added, d, drop, add
<1>7. DOMAIN added = ChainFields /\ added.lookup = [t \in Txs |-> added.lookup[t]]
  BY <1>3 DEF Entered, Beside
<1>8. /\ Beside(d, added) /\ d.header = added.header /\ d.fast = added.fast /\ d.canon = added.canon
      /\ d.lookup = [t \in Txs |-> IF t \in gone THEN NoBlock ELSE added.lookup[t]]
  BY <1>5, <1>7 DEF Beside, ChainFields
<1>9. Beside(d, e) /\ IndexType(d)
  BY <1>3, <1>8 DEF Entered, Beside, IndexType
<1>10. d.lookup = [t \in Txs |-> d.lookup[t]]
  BY <1>8
<1>11. ASSUME Canonical(e), NEW n \in 0 .. Number[b] PROVE d.canon[n] = q[n + 1]
  <2> HIDE DEF k, p, q, a
  <2>1. n \in 0 .. MaxNumber /\ n < Len(q)
    BY <1>4
  <2>2. d.canon[n] = IF k <= n /\ n < Len(q) THEN q[n + 1] ELSE e.canon[n]
    BY <1>3, <1>8, <2>1 DEF Entered
  <2>3. CASE k <= n
    BY <2>1, <2>2, <2>3
  <2>4. CASE ~(k <= n)
    <3>1. n + 1 \in 1 .. k /\ n \in 0 .. Number[a]
      BY <1>2, <1>4, <2>4
    <3>2. e.canon[n] = p[n + 1]
      BY <1>11, <3>1 DEF Canonical, a, p
    <3>3. QED
      BY <1>2, <2>2, <2>4, <3>1, <3>2
  <2>5. QED
    BY <2>3, <2>4
<1>12. ASSUME Canonical(e), NEW t \in Txs PROVE d.lookup[t] = Holder(q, t)
  <2> DEFINE hp == Holder(p, t)
             hq == Holder(q, t)
  <2>1. /\ \A i \in 1 .. Len(p) : t \in Content[p[i]] => hp = p[i]
        /\ (\A i \in 1 .. Len(p) : t \notin Content[p[i]]) => hp = NoBlock
        /\ \A i \in 1 .. Len(q) : t \in Content[q[i]] => hq = q[i]
        /\ (\A i \in 1 .. Len(q) : t \notin Content[q[i]]) => hq = NoBlock
    BY <1>1, HolderLemma
  <2>2. e.lookup[t] = hp
    BY <1>12 DEF Canonical
  <2>3. /\ \A i \in k + 1 .. Len(q) : t \in Content[q[i]] => added.lookup[t] = q[i]
        /\ (\A i \in k + 1 .. Len(q) : t \notin Content[q[i]]) => added.lookup[t] = e.lookup[t]
    BY <1>3 DEF Entered
  <2>4. d.lookup[t] = IF t \in gone THEN NoBlock ELSE added.lookup[t]
    BY <1>8
  <2>5. \A i, j \in 1 .. Len(p) : i # j => Content[p[i]] \cap Content[p[j]] = {}
    <3>1. DOMAIN p = 1 .. Len(p)
      BY <1>1
    <3>2. QED
      BY <1>1, <3>1, ContentAssumption
  <2> HIDE DEF p, q, k, a, hp, hq
  <2>6. /\ \A i \in 1 .. Len(q) : i \in 1 .. k \/ i \in k + 1 .. Len(q)
        /\ \A i \in 1 .. Len(p) : i \in 1 .. k \/ i \in k + 1 .. Len(p)
        /\ \A i \in k + 1 .. Len(q) : i \in 1 .. Len(q)
        /\ \A i \in k + 1 .. Len(p) : i \in 1 .. Len(p) /\ i \notin 1 .. k
        /\ \A i \in 1 .. k : i \in 1 .. Len(p) /\ i \in 1 .. Len(q)
    BY <1>2
  <2>7. CASE \E i \in k + 1 .. Len(q) : t \in Content[q[i]]
    <3>1. PICK i \in k + 1 .. Len(q) : t \in Content[q[i]]
      BY <2>7
    <3>2. t \notin gone
      BY <1>6, <3>1
    <3>3. QED
      BY <2>1, <2>3, <2>4, <2>6, <3>1, <3>2 DEF hq
  <2>8. CASE ~ \E i \in k + 1 .. Len(q) : t \in Content[q[i]]
    <3>1. added.lookup[t] = hp
      BY <2>2, <2>3, <2>8
    <3>2. CASE \E i \in 1 .. k : t \in Content[q[i]]
      <4>1. PICK i \in 1 .. k : t \in Content[q[i]]
        BY <3>2
      <4>2. t \in Content[p[i]] /\ hp = p[i] /\ hq = q[i] /\ p[i] = q[i]
        BY <1>2, <2>1, <2>6, <4>1
      <4>3. \A j \in k + 1 .. Len(p) : t \notin Content[p[j]]
        BY <2>5, <2>6, <4>1, <4>2
      <4>4. t \notin gone
        BY <1>6, <4>3
      <4>5. QED
        BY <2>4, <3>1, <4>2, <4>4 DEF hq
    <3>3. CASE ~ \E i \in 1 .. k : t \in Content[q[i]]
      <4>1. hq = NoBlock
        BY <2>1, <2>6, <2>8, <3>3
      <4>2. CASE t \in gone
        BY <2>4, <4>1, <4>2 DEF hq
      <4>3. CASE t \notin gone
        <5>1. \A i \in k + 1 .. Len(p) : t \notin Content[p[i]]
          BY <1>6, <2>8, <4>3
        <5>2. \A i \in 1 .. k : t \notin Content[p[i]]
          BY <1>2, <3>3
        <5>3. hp = NoBlock
          BY <2>1, <2>6, <5>1, <5>2
        <5>4. QED
          BY <2>4, <3>1, <4>1, <4>3, <5>3 DEF hq
      <4>4. QED
        BY <4>2, <4>3
    <3>4. QED
      BY <3>2, <3>3
  <2>9. QED
    BY <2>7, <2>8
<1>13. Canonical(e) => d.lookup = [t \in Txs |-> Holder(q, t)]
  <2> HIDE DEF q, Canonical
  <2>1. ASSUME Canonical(e) PROVE d.lookup = [t \in Txs |-> Holder(q, t)]
    <3>1. \A t \in Txs : d.lookup[t] = Holder(q, t)
      BY <1>12, <2>1
    <3>2. QED
      BY <1>10, <3>1
  <2>2. QED
    BY <2>1
<1>14. QED
  BY <1>9, <1>10, <1>11, <1>13 DEF d

\* The index and the lookups are those of the head's path.
Indexed(e) == DOMAIN e = ChainFields /\ IndexType(e) /\ e.head \in Blocks /\ Canonical(e)

\* Before the new head is written: the branch was switched, or there is none.
Moved(e, b) == IF Parent[b] = e.head THEN e ELSE reorg(e, e.head, b)

\* A block becomes the head, after a reorganisation if it is on another branch.
LEMMA MoveLemma ==
    ASSUME NEW e, Indexed(e), NEW b \in Blocks \ {Genesis}
    PROVE  LET d == insertHead(WriteTxLookupEntries(Moved(e, b), b), b)
           IN  Beside(d, e) /\ Indexed(d) /\ d.head = b
<1> DEFINE m == Moved(e, b)
           w == WriteTxLookupEntries(m, b)
           d == insertHead(w, b)
           q == Path[b]
           N == Number[b]
<1>1. /\ N \in 0 .. MaxNumber /\ N \in Nat /\ MaxNumber \in Nat /\ q \in Seq(Blocks)
      /\ Len(q) = N + 1 /\ q[N + 1] = b
  <2>1. N \in 0 .. MaxNumber /\ MaxNumber \in Nat /\ Len(q) = N + 1
    BY NumberLemma
  <2>2. q \in Seq(Blocks) /\ q[Len(q)] = b
    BY PathLemma DEF Traced
  <2> HIDE DEF q, N
  <2>3. QED
    BY <2>1, <2>2
<1>2. /\ Beside(m, e) /\ IndexType(m) /\ m.lookup = [t \in Txs |-> m.lookup[t]]
      /\ \A n \in 0 .. N - 1 : m.canon[n] = q[n + 1]
      /\ \A t \in Txs : t \notin Content[b] => m.lookup[t] = Holder(q, t)
  <2>1. CASE Parent[b] = e.head
    <3> DEFINE p == Path[e.head]
    <3>1. m = e
      BY <2>1 DEF Moved
    <3>2. p \in Seq(Blocks) /\ q = Append(p, b) /\ N = Number[e.head] + 1 /\ Len(p) = N
      BY <2>1, NumberLemma, PathDef
    <3>3. Beside(m, e) /\ IndexType(m) /\ m.lookup = [t \in Txs |-> m.lookup[t]]
      BY <3>1 DEF Indexed, Beside, Canonical
    <3>4. ASSUME NEW n \in 0 .. N - 1 PROVE m.canon[n] = q[n + 1]
      <4>1. n \in 0 .. Number[e.head] /\ n + 1 \in 1 .. Len(p)
        <5>1. Number[e.head] \in Nat
          BY NumberLemma DEF Indexed
        <5> HIDE DEF N, p
        <5>2. QED
          BY <3>2, <5>1
      <4>2. m.canon[n] = p[n + 1]
        BY <3>1, <4>1 DEF Indexed, Canonical
      <4> HIDE DEF p, q
      <4>3. QED
        BY <3>2, <4>1, <4>2
    <3>5. ASSUME NEW t \in Txs, t \notin Content[b] PROVE m.lookup[t] = Holder(q, t)
      <4> DEFINE hp == Holder(p, t)
                 hq == Holder(q, t)
      <4>1. m.lookup[t] = hp
        BY <3>1 DEF Indexed, Canonical
      <4>2. /\ \A i \in 1 .. Len(p) : t \in Content[p[i]] => hp = p[i]
            /\ (\A i \in 1 .. Len(p) : t \notin Content[p[i]]) => hp = NoBlock
            /\ \A i \in 1 .. Len(q) : t \in Content[q[i]] => hq = q[i]
            /\ (\A i \in 1 .. Len(q) : t \notin Content[q[i]]) => hq = NoBlock
        BY HolderLemma DEF Indexed
      <4> HIDE DEF p, q, N, hp, hq
      <4>3. /\ \A i \in 1 .. Len(p) : q[i] = p[i] /\ i \in 1 .. Len(q)
            /\ \A i \in 1 .. Len(q) : i \in 1 .. Len(p) \/ q[i] = b
        BY <1>1, <3>2
      <4>4. hp = hq
        <5>1. CASE \E i \in 1 .. Len(p) : t \in Content[p[i]]
          <6>1. PICK i \in 1 .. Len(p) : t \in Content[p[i]]
            BY <5>1
          <6>2. QED
            BY <4>2, <4>3, <6>1
        <5>2. CASE ~ \E i \in 1 .. Len(p) : t \in Content[p[i]]
          <6>1. \A i \in 1 .. Len(q) : t \notin Content[q[i]]
            BY <3>5, <4>3, <5>2
          <6>2. QED
            BY <4>2, <5>2, <6>1
        <5>3. QED
          BY <5>1, <5>2
      <4>5. QED
        BY <4>1, <4>4 DEF hq
    <3>6. QED
      BY <3>3, <3>4, <3>5
  <2>2. CASE Parent[b] # e.head
    <3>1. m = reorg(e, e.head, b)
      BY <2>2 DEF Moved
    <3>2. e.lookup = [t \in Txs |-> e.lookup[t]]
      BY DEF Indexed, Canonical
    <3>3. /\ Beside(m, e) /\ IndexType(m) /\ m.lookup = [t \in Txs |-> m.lookup[t]]
          /\ \A n \in 0 .. N : m.canon[n] = q[n + 1]
          /\ m.lookup = [t \in Txs |-> Holder(q, t)]
      BY <3>1, <3>2, ReorgLemma DEF Indexed
    <3> HIDE DEF m, q, N
    <3>4. \A n \in 0 .. N - 1 : n \in 0 .. N
      BY <1>1
    <3>5. \A t \in Txs : m.lookup[t] = Holder(q, t)
      BY <3>3
    <3>6. QED
      BY <3>3, <3>4, <3>5
  <2>3. QED
    BY <2>1, <2>2
<1> HIDE DEF m
<1>3. /\ Beside(w, e) /\ IndexType(w)
      /\ w.canon = m.canon
      /\ w.lookup = [t \in Txs |-> IF t \in Content[b] THEN b ELSE m.lookup[t]]
  <2>1. DOMAIN m = ChainFields
    BY <1>2 DEF Beside
  <2>2. /\ DOMAIN w = ChainFields /\ w.canon = m.canon
        /\ w.header = m.header /\ w.fast = m.fast
        /\ w.td = m.td /\ w.bodies = m.bodies /\ w.trie = m.trie /\ w.gc = m.gc
        /\ w.future = m.future /\ w.fed = m.fed
        /\ w.lookup = [t \in Txs |-> IF t \in Content[b] THEN b ELSE m.lookup[t]]
    BY <2>1 DEF WriteTxLookupEntries, ChainFields
  <2> HIDE DEF w
  <2>3. QED
    BY <1>2, <2>2 DEF Beside, IndexType
<1> HIDE DEF w
<1>4. /\ Beside(d, w) /\ d.head = b /\ d.lookup = w.lookup
      /\ d.header \in Blocks /\ d.fast \in Blocks
      /\ d.canon = [w.canon EXCEPT ![N] = b]
  BY <1>3 DEF insertHead, Beside, IndexType, ChainFields
<1> HIDE DEF d
<1>5. IndexType(d) /\ \A n \in 0 .. MaxNumber : d.canon[n] = IF n = N THEN b ELSE w.canon[n]
  <2> HIDE DEF N
  <2>1. QED
    BY <1>1, <1>3, <1>4 DEF IndexType
<1>6. Beside(d, e)
  BY <1>3, <1>4 DEF Beside
<1>7. \A n \in 0 .. N : d.canon[n] = q[n + 1]
  <2> HIDE DEF N, q
  <2>1. \A n \in 0 .. N : n \in 0 .. MaxNumber /\ (n = N \/ n \in 0 .. N - 1)
    BY <1>1
  <2>2. QED
    BY <1>1, <1>2, <1>3, <1>5, <2>1
<1>8. \A t \in Txs : d.lookup[t] = Holder(q, t)
  <2> SUFFICES ASSUME NEW t \in Txs PROVE d.lookup[t] = Holder(q, t)
    OBVIOUS
  <2> DEFINE hq == Holder(q, t)
  <2>1. \A i \in 1 .. Len(q) : t \in Content[q[i]] => hq = q[i]
    BY HolderLemma
  <2> HIDE DEF q, N, hq
  <2>2. t \in Content[b] => hq = b
    <3>1. N + 1 \in 1 .. Len(q)
      BY <1>1
    <3>2. QED
      BY <1>1, <2>1, <3>1
  <2>3. d.lookup[t] = IF t \in Content[b] THEN b ELSE m.lookup[t]
    BY <1>3, <1>4
  <2>4. QED
    BY <1>2, <2>2, <2>3 DEF hq
<1>9. Canonical(d)
  <2>1. d.lookup = [t \in Txs |-> Holder(q, t)]
    <3>1. d.lookup = [t \in Txs |-> d.lookup[t]]
      BY <1>3, <1>4
    <3> HIDE DEF q
    <3>2. QED
      BY <1>8, <3>1
  <2>2. QED
    BY <1>4, <1>7, <2>1 DEF Canonical
<1>10. QED
  <2>1. DOMAIN d = ChainFields /\ d.head \in Blocks
    BY <1>4 DEF Beside
  <2>2. Indexed(d)
    BY <1>5, <1>9, <2>1 DEF Indexed
  <2>3. QED
    BY <1>4, <1>6, <2>2 DEF d, w, m

(***************************************************************************)
(* The trie cache: the reference counts are exact for what is only in the  *)
(* cache, so that nothing is collected that a root in the queue needs, and *)
(* nothing else is kept.                                                   *)
(***************************************************************************)
TrieFields == {"flush", "parents", "meta", "disk"}

\* The fields of a database.
TrieTyped(db) ==
  /\ DOMAIN db = TrieFields /\ db.flush \in Seq(Nodes) /\ db.disk \in SUBSET Nodes
  /\ db.parents \in [Nodes -> Nat] /\ db.meta \in [Nodes -> Nat]

\* What is on disk is complete.
Whole(disk) == \A n \in disk : Children[n] \subseteq disk

\* Nodes are cached after their children, unless these are on disk.
Ordered(flush, disk) ==
  \A j \in 1 .. Len(flush) : \A m \in Children[flush[j]] :
    m \in disk \/ \E i \in 1 .. j - 1 : flush[i] = m

\* The cached nodes that refer to n.
Referrers(db, n) == {p \in Dirty(db) : n \in Children[p]}

\* What the collector's queue holds of the root r.
Queued(g, r) == {h \in Blocks \X Nat : Root[h[1]] = r /\ h[2] \in 1 .. g[h[1]]}

\* The counts of a node that is cached and not on disk are exact; owed[n] is what
\* a cascade has still to take from n.
Exact(db, owed) ==
  \A n \in Dirty(db) \ db.disk :
    db.parents[n] = Cardinality(Referrers(db, n)) + db.meta[n] + owed[n]

\* The references of the meta root are those of the queue.
Metas(db, g) ==
  \A n \in Nodes \ db.disk : /\ db.meta[n] = Cardinality(Queued(g, n))
                             /\ n \notin Dirty(db) => db.meta[n] = 0

\* Every cached node that is not on disk is referred to.
NoOrphan(db) == \A n \in Dirty(db) \ db.disk : db.parents[n] > 0

Unowed == [n \in Nodes |-> 0]

\* The blocks of the queue.
Queues(g) == g \in [Blocks -> Nat] /\ \A r \in Nodes : IsFiniteSet(Queued(g, r))

\* The database with all that the proofs need; g is the collector's queue.
Sound(db, g) ==
  /\ TrieTyped(db) /\ Root[Genesis] \in db.disk
  /\ Whole(db.disk) /\ Ordered(db.flush, db.disk)
  /\ Queues(g) /\ Metas(db, g) /\ Exact(db, Unowed)
Cached(db, g) == Sound(db, g) /\ NoOrphan(db)

\* A node that is seen shows its children, those in p.
See(p, d, n) == IF n \in d THEN d \cup (Children[n] \cap p) ELSE d
SeeAll(d, n) == IF n \in d THEN d \cup Children[n] ELSE d
Sees == INSTANCE FoldTheorems WITH Op <- LAMBDA p, q, r, d, e : See(p, d, e)
SeesAll == INSTANCE FoldTheorems WITH Op <- LAMBDA p, q, r, d, e : SeeAll(d, e)

\* The trie nodes are finitely many, and each has its place in TopDown.
LEMMA NodesLemma ==
    /\ Len(TopDown) \in Nat /\ IsFiniteSet(Nodes)
    /\ \A i \in 1 .. Len(TopDown) : TopDown[i] \in Nodes
    /\ \A n \in Nodes : \E i \in 1 .. Len(TopDown) : TopDown[i] = n
    /\ \A i, j \in 1 .. Len(TopDown) : TopDown[i] = TopDown[j] => i = j
    /\ \A i, j \in 1 .. Len(TopDown) : TopDown[i] \in Children[TopDown[j]] => j < i
<1>1. TopDown \in Seq(Nodes) /\ Len(TopDown) \in Nat /\ DOMAIN TopDown = 1 .. Len(TopDown)
  BY TrieAssumption
<1>2. \A n \in Nodes : \E i \in 1 .. Len(TopDown) : TopDown[i] = n
  BY <1>1, TrieAssumption DEF ToSet
<1>3. IsFiniteSet(Nodes)
  <2> DEFINE f == [i \in 1 .. Len(TopDown) |-> TopDown[i]]
  <2>1. f \in Surjection(1 .. Len(TopDown), Nodes)
    BY <1>1, <1>2 DEF Surjection
  <2>2. IsFiniteSet(1 .. Len(TopDown))
    BY <1>1, FS_Interval
  <2> HIDE DEF f
  <2>3. QED
    BY <2>1, <2>2, FS_Surjection
<1>4. \A i, j \in 1 .. Len(TopDown) : TopDown[i] = TopDown[j] => i = j
  <2>1. \A i, j \in DOMAIN TopDown : TopDown[i] = TopDown[j] => i = j
    BY TrieAssumption DEF IsInjective
  <2>2. QED
    BY <1>1, <2>1
<1>5. \A i, j \in 1 .. Len(TopDown) : TopDown[i] \in Children[TopDown[j]] => j < i
  <2>1. \A i, j \in DOMAIN TopDown : TopDown[i] \in Children[TopDown[j]] => j < i
    BY TrieAssumption
  <2>2. QED
    BY <1>1, <2>1
<1>6. \A i \in 1 .. Len(TopDown) : TopDown[i] \in Nodes
  BY <1>1
<1>7. QED
  BY <1>1, <1>2, <1>3, <1>4, <1>5, <1>6

\* Induction from the roots down: what holds of a node when it holds of all that
\* refer to it holds of every node.
LEMMA DownInduction ==
    ASSUME NEW S,
           \A n \in Nodes : (\A p \in Nodes : n \in Children[p] => p \in S) => n \in S
    PROVE  Nodes \subseteq S
<1> DEFINE N == Len(TopDown)
           K == {k \in 0 .. N : \A i \in 1 .. k : TopDown[i] \in S}
<1>1. N \in Nat
  BY NodesLemma
<1> HIDE DEF N
<1>2. 0 \in K
  BY <1>1
<1>3. ASSUME NEW k \in 0 .. N - 1, k \in K PROVE k + 1 \in K
  <2>1. k + 1 \in 1 .. N /\ \A i \in 1 .. k : i \in 1 .. N
    BY <1>1
  <2>2. TopDown[k + 1] \in Nodes
    BY <2>1, NodesLemma DEF N
  <2>3. ASSUME NEW p \in Nodes, TopDown[k + 1] \in Children[p] PROVE p \in S
    <3>1. PICK j \in 1 .. N : TopDown[j] = p
      BY NodesLemma DEF N
    <3>2. j < k + 1
      BY <2>1, <2>3, <3>1, NodesLemma DEF N
    <3>3. j \in 1 .. k
      BY <1>1, <3>2
    <3>4. QED
      BY <1>3, <3>1, <3>3
  <2>4. TopDown[k + 1] \in S
    BY <2>2, <2>3
  <2>5. \A i \in 1 .. k + 1 : i \in 1 .. k \/ i = k + 1
    BY <1>1
  <2>6. k + 1 \in 0 .. N
    BY <1>1
  <2>7. QED
    BY <1>3, <2>4, <2>5, <2>6
<1> HIDE DEF K
<1>4. N \in K
  BY <1>1, <1>2, <1>3, Sees!Reaches
<1>5. QED
  BY <1>4, NodesLemma DEF K, N

\* f[i] is what has been seen after i nodes of TopDown, from first on, when n shows C[n].
Spread(f, first, C) ==
  /\ f[0] = first
  /\ \A i \in 1 .. Len(TopDown) :
       f[i] = IF TopDown[i] \in f[i - 1] THEN f[i - 1] \cup C[TopDown[i]] ELSE f[i - 1]

\* What a node is shown by comes before it.
Shows(C) == C \in [Nodes -> SUBSET Nodes] /\ \A n \in Nodes : C[n] \subseteq Children[n]

\* F has all of first, what a member shows, and no more.
Least(F, first, C) ==
  /\ F \in SUBSET Nodes /\ first \subseteq F
  /\ \A p \in F : C[p] \subseteq F
  /\ \A S : first \subseteq S /\ (\A p \in S \cap Nodes : C[p] \subseteq S) => F \subseteq S

\* All of first is seen, and what a seen node shows, and no more.
LEMMA SpreadLemma ==
    ASSUME NEW f, NEW first \in SUBSET Nodes, NEW C, Shows(C), Spread(f, first, C)
    PROVE  Least(f[Len(TopDown)], first, C)
<1> DEFINE N == Len(TopDown)
           Closed(i) == /\ f[i] \in SUBSET Nodes /\ first \subseteq f[i]
                        /\ \A k \in 1 .. i : TopDown[k] \in f[i] => C[TopDown[k]] \subseteq f[i]
           K == {i \in 0 .. N : Closed(i)}
<1>1. N \in Nat
  BY NodesLemma
<1>2. /\ \A i \in 1 .. N : TopDown[i] \in Nodes
      /\ \A n \in Nodes : \E i \in 1 .. N : TopDown[i] = n
      /\ \A i, j \in 1 .. N : TopDown[i] \in C[TopDown[j]] => j < i
  BY NodesLemma DEF Shows
<1>3. f[0] = first /\ \A i \in 1 .. N :
        f[i] = IF TopDown[i] \in f[i - 1] THEN f[i - 1] \cup C[TopDown[i]] ELSE f[i - 1]
  BY DEF Spread
<1> HIDE DEF N
<1>4. 0 \in K
  BY <1>1, <1>3
<1>5. ASSUME NEW i \in 0 .. N - 1, i \in K PROVE i + 1 \in K
  <2> DEFINE n == TopDown[i + 1]
             a == f[i]
             b == f[i + 1]
  <2>1. i + 1 \in 1 .. N /\ i + 1 \in 0 .. N /\ (i + 1) - 1 = i
    BY <1>1
  <2>2. b = IF n \in a THEN a \cup C[n] ELSE a
    BY <1>3, <2>1
  <2>3. n \in Nodes /\ C[n] \in SUBSET Nodes
    BY <1>2, <2>1 DEF Shows
  <2>4. a \in SUBSET Nodes /\ first \subseteq a
        /\ \A k \in 1 .. i : TopDown[k] \in a => C[TopDown[k]] \subseteq a
    BY <1>5
  <2>5. \A k \in 1 .. i + 1 : k \in 1 .. N /\ (k \in 1 .. i \/ k = i + 1)
    BY <1>1
  <2>6. \A k \in 1 .. i + 1 : TopDown[k] \notin C[n]
    <3> SUFFICES ASSUME NEW k \in 1 .. i + 1, TopDown[k] \in C[n] PROVE FALSE
      OBVIOUS
    <3>1. i + 1 < k
      BY <1>2, <2>1, <2>5
    <3>2. QED
      BY <1>1, <3>1
  <2> HIDE DEF n, a, b
  <2>7. \A k \in 1 .. i + 1 : TopDown[k] \in b => C[TopDown[k]] \subseteq b
    <3> SUFFICES ASSUME NEW k \in 1 .. i + 1, TopDown[k] \in b PROVE C[TopDown[k]] \subseteq b
      OBVIOUS
    <3>1. TopDown[k] \in a
      BY <2>2, <2>6
    <3>2. k = i + 1 => TopDown[k] = n
      BY DEF n
    <3>3. QED
      BY <2>2, <2>4, <2>5, <3>1, <3>2
  <2>8. b \in SUBSET Nodes /\ first \subseteq b
    BY <2>2, <2>3, <2>4
  <2>9. QED
    BY <2>1, <2>7, <2>8 DEF b
<1> HIDE DEF K
<1>6. N \in K
  BY <1>1, <1>4, <1>5, Sees!Reaches
<1>7. Closed(N)
  BY <1>6 DEF K
<1>8. \A p \in f[N] : C[p] \subseteq f[N]
  BY <1>2, <1>7
<1>9. ASSUME NEW S, first \subseteq S, \A p \in S \cap Nodes : C[p] \subseteq S
      PROVE  f[N] \subseteq S
  <2> DEFINE L == {i \in 0 .. N : f[i] \subseteq S}
  <2>1. 0 \in L
    BY <1>1, <1>3, <1>9
  <2>2. ASSUME NEW i \in 0 .. N - 1, i \in L PROVE i + 1 \in L
    <3>1. i + 1 \in 1 .. N /\ i + 1 \in 0 .. N /\ (i + 1) - 1 = i
      BY <1>1
    <3>2. f[i + 1] = IF TopDown[i + 1] \in f[i] THEN f[i] \cup C[TopDown[i + 1]] ELSE f[i]
      BY <1>3, <3>1
    <3>3. TopDown[i + 1] \in Nodes
      BY <1>2, <3>1
    <3>4. f[i + 1] \subseteq S
      BY <1>9, <2>2, <3>2, <3>3
    <3>5. QED
      BY <3>1, <3>4
  <2> HIDE DEF L
  <2>3. N \in L
    BY <1>1, <2>1, <2>2, Sees!Reaches
  <2>4. QED
    BY <2>3 DEF L
<1>10. QED
  BY <1>7, <1>8, <1>9 DEF N, Least

\* A node at the end of a list is in it, and in order when its children come before.
LEMMA AppendLemma ==
    ASSUME NEW s \in Seq(Nodes), NEW n \in Nodes
    PROVE  /\ Append(s, n) \in Seq(Nodes) /\ ToSet(Append(s, n)) = ToSet(s) \cup {n}
           /\ \A disk : Ordered(s, disk) /\ Children[n] \subseteq disk \cup ToSet(s)
                          => Ordered(Append(s, n), disk)
<1> DEFINE t == Append(s, n)
           N == Len(s)
<1>1. /\ N \in Nat /\ t \in Seq(Nodes) /\ Len(t) = N + 1 /\ DOMAIN s = 1 .. N /\ DOMAIN t = 1 .. N + 1
      /\ t[N + 1] = n /\ \A i \in 1 .. N : t[i] = s[i]
  OBVIOUS
<1> HIDE DEF t, N
<1>2. \A i \in 1 .. N + 1 : i \in 1 .. N \/ i = N + 1
  BY <1>1
<1>3. N + 1 \in 1 .. N + 1 /\ \A i \in 1 .. N : i \in 1 .. N + 1
  BY <1>1
<1>4. ToSet(t) = ToSet(s) \cup {n}
  BY <1>1, <1>2, <1>3 DEF ToSet
<1>5. ASSUME NEW disk, Ordered(s, disk), Children[n] \subseteq disk \cup ToSet(s)
      PROVE  Ordered(t, disk)
  <2>1. ASSUME NEW j \in 1 .. N + 1, NEW m \in Children[t[j]], m \notin disk
        PROVE  \E i \in 1 .. j - 1 : t[i] = m
    <3>1. CASE j = N + 1
      <4>1. PICK i \in 1 .. N : s[i] = m
        BY <1>1, <1>5, <2>1, <3>1 DEF ToSet
      <4>2. i \in 1 .. j - 1
        BY <1>1, <3>1
      <4>3. QED
        BY <1>1, <4>1, <4>2
    <3>2. CASE j \in 1 .. N
      <4>1. m \in Children[s[j]]
        BY <1>1, <2>1, <3>2
      <4>2. PICK i \in 1 .. j - 1 : s[i] = m
        BY <1>5, <2>1, <3>2, <4>1 DEF Ordered, N
      <4>3. i \in 1 .. N
        BY <1>1, <3>2
      <4>4. QED
        BY <1>1, <4>2, <4>3
    <3>3. QED
      BY <1>2, <3>1, <3>2
  <2>2. QED
    BY <1>1, <2>1 DEF Ordered
<1>6. QED
  BY <1>1, <1>4, <1>5 DEF t

\* A node of the list stays unless it is one of out.
Keep(out, s, n) == IF n \in out THEN s ELSE Append(s, n)
Keeps == INSTANCE FoldTheorems WITH Op <- LAMBDA p, q, r, d, e : Keep(p, d, e)

\* The other nodes keep their order, when all that leave are on disk or have no
\* parent that stays.
LEMMA UnlinkLemma ==
    ASSUME NEW flush \in Seq(Nodes), NEW out
    PROVE  /\ Unlink(flush, out) \in Seq(Nodes) /\ ToSet(Unlink(flush, out)) = ToSet(flush) \ out
           /\ \A disk, new :
                /\ Ordered(flush, disk) /\ disk \subseteq new
                /\ \A m \in out \ new : \A p \in ToSet(flush) \ out : m \notin Children[p]
                => Ordered(Unlink(flush, out), new)
<1> DEFINE N == Len(flush)
           Before(i) == {flush[k] : k \in 1 .. i}
           none == << >>
<1>1. N \in Nat /\ DOMAIN flush = 1 .. N /\ \A i \in 1 .. N : flush[i] \in Nodes
  OBVIOUS
<1>2. Unlink(flush, out) = Keeps!Running(out, 0, 0, none, flush, N)
  BY DEF Unlink, Fold, Keeps!Running, Keep
<1>12. none \in Seq(Nodes) /\ ToSet(none) = {} /\ Before(0) = {} /\ \A new : Ordered(none, new)
  BY 1 .. 0 = {} DEF ToSet, Ordered
<1> HIDE DEF N, none
<1>3. PICK f : /\ Unlink(flush, out) = f[N] /\ f[0] = none
               /\ \A i \in 1 .. N : f[i] = Keep(out, f[i - 1], flush[i])
  BY <1>1, <1>2, Keeps!RunningSteps
<1> DEFINE S == {i \in 0 .. N : f[i] \in Seq(Nodes) /\ ToSet(f[i]) = Before(i) \ out}
<1>4. 0 \in S
  <2> HIDE DEF Before
  <2>1. 0 \in 0 .. N
    BY <1>1
  <2>2. QED
    BY <1>3, <1>12, <2>1
<1>5. ASSUME NEW i \in 0 .. N - 1
      PROVE  /\ i + 1 \in 1 .. N /\ i + 1 \in 0 .. N /\ (i + 1) - 1 = i /\ flush[i + 1] \in Nodes
             /\ f[i + 1] = Keep(out, f[i], flush[i + 1])
             /\ Before(i + 1) = Before(i) \cup {flush[i + 1]}
  <2>1. i + 1 \in 1 .. N /\ i + 1 \in 0 .. N /\ (i + 1) - 1 = i
    BY <1>1
  <2>2. \A k : k \in 1 .. i + 1 <=> k \in 1 .. i \/ k = i + 1
    BY <1>1
  <2>3. QED
    BY <1>1, <1>3, <2>1, <2>2
<1>6. ASSUME NEW i \in 0 .. N - 1, i \in S PROVE i + 1 \in S
  <2>1. f[i] \in Seq(Nodes) /\ ToSet(f[i]) = Before(i) \ out
    BY <1>6
  <2> DEFINE n == flush[i + 1]
  <2>3. /\ n \in Nodes /\ f[i + 1] = (IF n \in out THEN f[i] ELSE Append(f[i], n))
        /\ Before(i + 1) = Before(i) \cup {n}
    BY <1>5 DEF Keep
  <2>4. Append(f[i], n) \in Seq(Nodes) /\ ToSet(Append(f[i], n)) = ToSet(f[i]) \cup {n}
    BY <2>1, <2>3, AppendLemma
  <2> HIDE DEF Before, n
  <2>5. f[i + 1] \in Seq(Nodes) /\ ToSet(f[i + 1]) = Before(i + 1) \ out
    BY <2>1, <2>3, <2>4
  <2>6. QED
    BY <1>5, <2>5
<1>7. N \in S
  <2> HIDE DEF S
  <2>1. QED
    BY <1>1, <1>4, <1>6, Keeps!Reaches
<1>8. \A i \in 0 .. N : i \in S
  <2> DEFINE T == {i \in 0 .. N : \A k \in 0 .. i : k \in S}
  <2> HIDE DEF S
  <2>1. 0 \in T
    <3>1. \A k \in 0 .. 0 : k = 0
      OBVIOUS
    <3>2. QED
      BY <1>1, <1>4, <3>1
  <2>2. ASSUME NEW i \in 0 .. N - 1, i \in T PROVE i + 1 \in T
    <3>1. \A k \in 0 .. i + 1 : k \in 0 .. i \/ k = i + 1
      BY <1>1
    <3>2. i \in 0 .. i
      BY <1>1
    <3>3. QED
      BY <1>5, <1>6, <2>2, <3>1, <3>2
  <2> HIDE DEF T
  <2>3. N \in T
    BY <1>1, <2>1, <2>2, Keeps!Reaches
  <2>4. QED
    BY <2>3 DEF T
<1>9. ASSUME NEW disk, NEW new, Ordered(flush, disk), disk \subseteq new,
             \A m \in out \ new : \A p \in ToSet(flush) \ out : m \notin Children[p]
      PROVE  Ordered(f[N], new)
  <2> DEFINE T == {i \in 0 .. N : Ordered(f[i], new)}
  <2>1. 0 \in T
    <3>1. 0 \in 0 .. N
      BY <1>1
    <3>2. QED
      BY <1>3, <1>12, <3>1
  <2>2. ASSUME NEW i \in 0 .. N - 1, i \in T PROVE i + 1 \in T
    <3> DEFINE n == flush[i + 1]
    <3>1. i \in 0 .. N
      BY <1>1
    <3>2. f[i] \in Seq(Nodes) /\ ToSet(f[i]) = Before(i) \ out
      BY <1>8, <3>1
    <3>3. n \in Nodes /\ n \in ToSet(flush)
      BY <1>1, <1>5 DEF ToSet
    <3>4. ASSUME n \notin out, NEW m \in Children[n], m \notin new PROVE m \in ToSet(f[i])
      <4>1. PICK k \in 1 .. (i + 1) - 1 : flush[k] = m
        BY <1>5, <1>9, <3>4 DEF Ordered, N
      <4>2. k \in 1 .. i
        BY <1>5
      <4>3. m \notin out
        BY <1>9, <3>3, <3>4
      <4>4. QED
        BY <3>2, <4>1, <4>2, <4>3
    <3>5. Ordered(f[i], new)
      BY <2>2
    <3> HIDE DEF n
    <3>6. n \notin out => Ordered(Append(f[i], n), new)
      BY <3>2, <3>3, <3>4, <3>5, AppendLemma
    <3>7. Ordered(f[i + 1], new)
      BY <1>5, <3>5, <3>6 DEF n, Keep
    <3>8. QED
      BY <1>5, <3>7
  <2> HIDE DEF T
  <2>3. N \in T
    BY <1>1, <2>1, <2>2, Keeps!Reaches
  <2>4. QED
    BY <2>3 DEF T
<1>10. f[N] \in Seq(Nodes) /\ ToSet(f[N]) = ToSet(flush) \ out
  BY <1>1, <1>7 DEF ToSet
<1> HIDE DEF S
<1>11. QED
  BY <1>2, <1>3, <1>9, <1>10

\* A trie holds its root and with a node its children, and no more: every other
\* node of it has a parent in it.
LEMMA TrieNodesLemma ==
    ASSUME NEW root \in Nodes
    PROVE  /\ Trie[root] \in SUBSET Nodes /\ root \in Trie[root]
           /\ \A p \in Trie[root] : Children[p] \subseteq Trie[root]
           /\ \A S : root \in S /\ (\A p \in S \cap Nodes : Children[p] \subseteq S)
                       => Trie[root] \subseteq S
           /\ \A n \in Trie[root] \ {root} : \E p \in Trie[root] : n \in Children[p]
<1> DEFINE N == Len(TopDown)
           first == {root}
<1>1. N \in Nat
  BY NodesLemma
<1>2. Trie[root] = SeesAll!Running(0, 0, 0, first, TopDown, N)
  BY DEF Trie, Fold, SeesAll!Running, SeeAll
<1> HIDE DEF N, first
<1>3. PICK f : /\ Trie[root] = f[N] /\ f[0] = first
               /\ \A i \in 1 .. N : f[i] = SeeAll(f[i - 1], TopDown[i])
  BY <1>1, <1>2, SeesAll!RunningSteps
<1>4. Spread(f, first, Children)
  BY <1>3 DEF Spread, SeeAll, N
<1>5. Shows(Children) /\ first \in SUBSET Nodes
  BY TrieAssumption DEF Shows, first
<1> DEFINE T == f[N]
<1>6. /\ T \in SUBSET Nodes /\ first \subseteq T /\ \A p \in T : Children[p] \subseteq T
      /\ \A S : first \subseteq S /\ (\A p \in S \cap Nodes : Children[p] \subseteq S) => T \subseteq S
  <2>1. Least(T, first, Children)
    BY <1>4, <1>5, SpreadLemma DEF N
  <2>2. QED
    BY <2>1 DEF Least
<1> HIDE DEF T
<1>7. root \in T /\ \A S : first \subseteq S <=> root \in S
  BY <1>6 DEF first
<1>8. \A n \in T \ {root} : \E p \in T : n \in Children[p]
  <2> DEFINE S == {n \in T : n = root \/ \E p \in T : n \in Children[p]}
  <2>1. root \in S /\ \A p \in S \cap Nodes : Children[p] \subseteq S
    BY <1>6, <1>7
  <2>2. T \subseteq S
    <3> HIDE DEF S
    <3>1. QED
      BY <1>6, <1>7, <2>1
  <2>3. QED
    BY <2>2
<1>9. QED
  BY <1>3, <1>6, <1>7, <1>8 DEF T

\* The nodes that go to disk take their children along or find them there.
LEMMA UncacheLemma ==
    ASSUME NEW db, NEW g, Sound(db, g), NEW out \in SUBSET Dirty(db),
           \A p \in out : Children[p] \subseteq out \cup db.disk
    PROVE  LET d == Uncache(db, out)
           IN  /\ Sound(d, g) /\ d.disk = db.disk \cup out /\ Dirty(d) = Dirty(db) \ out
               /\ \A n \in Nodes \ out : d.parents[n] = db.parents[n]
<1> DEFINE d == Uncache(db, out)
           new == db.disk \cup out
<1>1. /\ DOMAIN db = TrieFields /\ db.flush \in Seq(Nodes) /\ db.disk \in SUBSET Nodes
      /\ db.parents \in [Nodes -> Nat] /\ db.meta \in [Nodes -> Nat]
  BY DEF Sound, TrieTyped
<1>2. /\ DOMAIN d = TrieFields /\ d.flush = Unlink(db.flush, out) /\ d.disk = new /\ d.meta = db.meta
      /\ d.parents = [n \in Nodes |-> IF n \in out THEN 0 ELSE db.parents[n]]
  BY <1>1 DEF Uncache, TrieFields
<1> HIDE DEF d
<1>3. Dirty(db) = ToSet(db.flush) /\ Dirty(d) = ToSet(d.flush)
  BY DEF Dirty
<1>4. Dirty(db) \in SUBSET Nodes
  BY <1>1 DEF Dirty, ToSet
<1>5. /\ d.flush \in Seq(Nodes) /\ Dirty(d) = Dirty(db) \ out /\ Ordered(d.flush, new)
  <2>1. /\ Unlink(db.flush, out) \in Seq(Nodes) /\ ToSet(Unlink(db.flush, out)) = ToSet(db.flush) \ out
        /\ \A disk, to :
             /\ Ordered(db.flush, disk) /\ disk \subseteq to
             /\ \A m \in out \ to : \A p \in ToSet(db.flush) \ out : m \notin Children[p]
             => Ordered(Unlink(db.flush, out), to)
    BY <1>1, UnlinkLemma
  <2>2. Ordered(db.flush, db.disk) /\ db.disk \subseteq new /\ out \ new = {}
    BY DEF Sound
  <2> HIDE DEF new
  <2>3. QED
    BY <1>2, <1>3, <2>1, <2>2
<1>6. TrieTyped(d)
  BY <1>1, <1>2, <1>4, <1>5 DEF TrieTyped
<1>7. Root[Genesis] \in new /\ Whole(new)
  BY DEF Sound, Whole
<1>8. \A n \in Nodes \ out : d.parents[n] = db.parents[n]
  BY <1>2
<1>9. Metas(d, g)
  BY <1>2, <1>5 DEF Sound, Metas
<1>10. Exact(d, Unowed)
  <2>1. ASSUME NEW n \in Dirty(d) \ d.disk PROVE Referrers(d, n) = Referrers(db, n)
    BY <1>2, <1>5, <2>1 DEF Referrers
  <2>2. \A n \in Dirty(d) \ d.disk : n \in Dirty(db) \ db.disk /\ n \in Nodes \ out
    BY <1>2, <1>4, <1>5
  <2>3. QED
    BY <1>2, <1>8, <2>1, <2>2 DEF Sound, Exact
<1>11. QED
  BY <1>2, <1>5, <1>6, <1>7, <1>8, <1>9, <1>10 DEF Sound, d

\* The oldest nodes go to disk.
LEMMA CapLemma ==
    ASSUME NEW db, NEW g, Cached(db, g), NEW k \in Nat
    PROVE  Cached(Cap(db, k), g) /\ db.disk \subseteq Cap(db, k).disk
<1> DEFINE n == Len(db.flush)
           last == IF k > n THEN n ELSE k
           head == SubSeq(db.flush, 1, last)
           out == ToSet(head)
<1>1. db.flush \in Seq(Nodes) /\ n \in Nat /\ Ordered(db.flush, db.disk) /\ Sound(db, g)
  BY DEF Cached, Sound, TrieTyped
<1>2. last \in 0 .. n
  BY <1>1
<1>3. Len(head) = last /\ DOMAIN head = 1 .. last /\ \A i \in 1 .. last : head[i] = db.flush[i]
  <2> HIDE DEF last
  <2>1. QED
    BY <1>1, <1>2
<1>4. Cap(db, k) = Uncache(db, out)
  BY DEF Cap
<1> HIDE DEF last, head, n
<1>5. \A x : x \in out <=> \E i \in 1 .. last : db.flush[i] = x
  BY <1>3 DEF ToSet
<1>6. out \in SUBSET Dirty(db)
  <2>1. \A i \in 1 .. last : i \in DOMAIN db.flush
    BY <1>1, <1>2 DEF n
  <2>2. QED
    BY <1>5, <2>1 DEF Dirty, ToSet
<1> HIDE DEF out
<1>7. \A p \in out : Children[p] \subseteq out \cup db.disk
  <2> SUFFICES ASSUME NEW p \in out, NEW m \in Children[p], m \notin db.disk PROVE m \in out
    OBVIOUS
  <2>1. PICK j \in 1 .. last : db.flush[j] = p
    BY <1>5
  <2>2. j \in 1 .. n
    BY <1>1, <1>2
  <2>3. PICK i \in 1 .. j - 1 : db.flush[i] = m
    BY <1>1, <2>1, <2>2 DEF Ordered, n
  <2>4. i \in 1 .. last
    BY <1>1, <1>2, <2>2
  <2>5. QED
    BY <1>5, <2>3, <2>4
<1> DEFINE d == Uncache(db, out)
<1>8. /\ Sound(d, g) /\ d.disk = db.disk \cup out /\ Dirty(d) = Dirty(db) \ out
      /\ \A x \in Nodes \ out : d.parents[x] = db.parents[x]
  BY <1>1, <1>6, <1>7, UncacheLemma
<1> HIDE DEF d
<1>9. NoOrphan(d)
  <2>1. NoOrphan(db) /\ Dirty(db) \in SUBSET Nodes
    BY <1>1 DEF Cached, Dirty, ToSet
  <2>2. QED
    BY <1>8, <2>1 DEF NoOrphan
<1>10. QED
  BY <1>4, <1>8, <1>9 DEF Cached, d

\* The cached part of a trie goes to disk; its root may be the only node that nothing
\* refers to.
LEMMA CommitLemma ==
    ASSUME NEW db, NEW g, Sound(db, g), NEW root \in Nodes, Available(db, root),
           \A n \in Dirty(db) \ db.disk : db.parents[n] > 0 \/ n = root
    PROVE  /\ Cached(Commit(db, root), g) /\ db.disk \subseteq Commit(db, root).disk
           /\ root \in Commit(db, root).disk
<1> DEFINE N == Len(TopDown)
           p == Dirty(db)
           first == {root} \cap p
           C == [n \in Nodes |-> Children[n] \cap p]
<1>1. N \in Nat /\ \A i \in 1 .. N : TopDown[i] \in Nodes
  BY NodesLemma
<1>2. Commit(db, root) = Uncache(db, Sees!Running(p, 0, 0, first, TopDown, N))
  BY DEF Commit, Fold, Sees!Running, See
<1>3. p \in SUBSET Nodes /\ first \subseteq p /\ (root \notin first => root \in db.disk)
  BY DEF Sound, TrieTyped, Dirty, ToSet, Available
<1>0. root \in p => root \in first
  OBVIOUS
<1>4. Shows(C) /\ \A n \in Nodes : C[n] = Children[n] \cap p
  BY TrieAssumption DEF Shows
<1> HIDE DEF N, p, first, C
<1>5. PICK f : /\ Sees!Running(p, 0, 0, first, TopDown, N) = f[N] /\ f[0] = first
               /\ \A i \in 1 .. N : f[i] = See(p, f[i - 1], TopDown[i])
  BY <1>1, <1>2, Sees!RunningSteps
<1>6. Spread(f, first, C)
  BY <1>1, <1>4, <1>5 DEF Spread, See, N
<1> DEFINE out == f[N]
<1>7. /\ out \in SUBSET Nodes /\ first \subseteq out /\ \A n \in out : C[n] \subseteq out
      /\ \A S : first \subseteq S /\ (\A n \in S \cap Nodes : C[n] \subseteq S) => out \subseteq S
  <2>1. first \in SUBSET Nodes
    BY <1>3
  <2>2. Least(out, first, C)
    BY <1>4, <1>6, <2>1, SpreadLemma DEF N
  <2>3. QED
    BY <2>2 DEF Least
<1> HIDE DEF out
<1>8. out \in SUBSET p
  <2>1. \A n \in p \cap Nodes : C[n] \subseteq p
    BY <1>4
  <2>2. QED
    BY <1>3, <1>7, <2>1
<1>9. \A n \in out : Children[n] \subseteq out \cup db.disk
  <2>1. \A n \in p : Children[n] \subseteq p \cup db.disk
    <3>1. Ordered(db.flush, db.disk) /\ db.flush \in Seq(Nodes)
      BY DEF Sound, TrieTyped
    <3>2. \A j \in 1 .. Len(db.flush) : \A m \in Children[db.flush[j]] :
            m \in db.disk \/ \E i \in 1 .. Len(db.flush) : db.flush[i] = m
      BY <3>1 DEF Ordered
    <3>3. QED
      BY <3>1, <3>2 DEF p, Dirty, ToSet
  <2>2. QED
    BY <1>4, <1>7, <1>8, <2>1
<1> DEFINE d == Uncache(db, out)
<1>10. /\ Sound(d, g) /\ d.disk = db.disk \cup out /\ Dirty(d) = Dirty(db) \ out
       /\ \A x \in Nodes \ out : d.parents[x] = db.parents[x]
  BY <1>8, <1>9, UncacheLemma DEF p
<1> HIDE DEF d
<1>11. root \in d.disk
  BY <1>3, <1>7, <1>10
<1>12. NoOrphan(d)
  <2>1. \A n \in Dirty(d) \ d.disk : n \in Dirty(db) \ db.disk /\ n \in Nodes \ out /\ n # root
    BY <1>3, <1>10, <1>11 DEF p
  <2>2. QED
    BY <1>10, <2>1 DEF NoOrphan
<1>13. QED
  BY <1>2, <1>5, <1>10, <1>11, <1>12 DEF Cached, out, d

\* A node does not refer to itself; what a cached node refers to can be read.
LEMMA CompleteLemma ==
    ASSUME NEW db, TrieTyped(db), Ordered(db.flush, db.disk)
    PROVE  /\ Dirty(db) \in SUBSET Nodes /\ IsFiniteSet(Dirty(db))
           /\ \A p \in Dirty(db) : Children[p] \subseteq Dirty(db) \cup db.disk
           /\ \A n \in Nodes : n \notin Children[n]
<1>1. db.flush \in Seq(Nodes)
  BY DEF TrieTyped
<1>2. \A j \in 1 .. Len(db.flush) : \A m \in Children[db.flush[j]] :
        m \in db.disk \/ \E i \in 1 .. Len(db.flush) : db.flush[i] = m
  BY <1>1 DEF Ordered
<1>3. \A p \in Dirty(db) : Children[p] \subseteq Dirty(db) \cup db.disk
  BY <1>1, <1>2 DEF Dirty, ToSet
<1>4. Dirty(db) \in SUBSET Nodes
  BY <1>1 DEF Dirty, ToSet
<1>5. IsFiniteSet(Dirty(db))
  BY <1>4, NodesLemma, FS_Subset
<1>6. ASSUME NEW n \in Nodes PROVE n \notin Children[n]
  <2>1. PICK i \in 1 .. Len(TopDown) : TopDown[i] = n
    BY NodesLemma
  <2>2. TopDown[i] \in Children[TopDown[i]] => i < i
    BY NodesLemma
  <2>3. QED
    BY <2>1, <2>2
<1>7. QED
  BY <1>3, <1>4, <1>5, <1>6

\* d is db with more nodes in the cache; no count of a cached node has become less.
Fuller(db, d, g) ==
  /\ Sound(d, g) /\ d.disk = db.disk
  /\ \A m \in Dirty(db) : d.parents[m] >= db.parents[m]

\* A node is inserted whose children can be read.
LEMMA InsertLemma ==
    ASSUME NEW db, NEW g, Sound(db, g), NEW n \in Nodes, Children[n] \subseteq Dirty(db) \cup db.disk
    PROVE  Fuller(db, insert(db, n), g) /\ Dirty(insert(db, n)) = Dirty(db) \cup {n}
<1> DEFINE d == insert(db, n)
<1>1. /\ DOMAIN db = TrieFields /\ db.flush \in Seq(Nodes) /\ db.disk \in SUBSET Nodes
      /\ db.parents \in [Nodes -> Nat] /\ db.meta \in [Nodes -> Nat] /\ TrieTyped(db)
      /\ Ordered(db.flush, db.disk)
  BY DEF Sound, TrieTyped
<1>2. /\ Dirty(db) \in SUBSET Nodes /\ IsFiniteSet(Dirty(db)) /\ n \notin Children[n]
      /\ \A p \in Dirty(db) : Children[p] \subseteq Dirty(db) \cup db.disk
  BY <1>1, CompleteLemma
<1>3. CASE n \in Dirty(db)
  <2>1. d = db
    BY <1>3 DEF insert
  <2>2. \A m \in Dirty(db) : db.parents[m] >= db.parents[m]
    BY <1>1, <1>2
  <2>3. QED
    BY <1>3, <2>1, <2>2 DEF Fuller
<1>4. CASE n \notin Dirty(db)
  <2>1. /\ DOMAIN d = TrieFields /\ d.flush = Append(db.flush, n) /\ d.disk = db.disk /\ d.meta = db.meta
        /\ d.parents = [m \in Nodes |-> IF m = n THEN 0
                          ELSE IF m \in Children[n] /\ m \in Dirty(db) THEN db.parents[m] + 1
                          ELSE db.parents[m]]
    BY <1>1, <1>4 DEF insert, TrieFields
  <2> HIDE DEF d
  <2>2. d.flush \in Seq(Nodes) /\ Dirty(d) = Dirty(db) \cup {n} /\ Ordered(d.flush, d.disk)
    <3>1. /\ Append(db.flush, n) \in Seq(Nodes) /\ ToSet(Append(db.flush, n)) = ToSet(db.flush) \cup {n}
          /\ \A disk : Ordered(db.flush, disk) /\ Children[n] \subseteq disk \cup ToSet(db.flush)
                         => Ordered(Append(db.flush, n), disk)
      BY <1>1, AppendLemma
    <3>2. Dirty(db) = ToSet(db.flush) /\ Dirty(d) = ToSet(d.flush)
      BY DEF Dirty
    <3>3. QED
      BY <1>1, <2>1, <3>1, <3>2
  <2>3. /\ \A m \in Dirty(db) : m \in Nodes /\ m # n
        /\ \A m \in Dirty(db) \ Children[n] : d.parents[m] = db.parents[m]
        /\ \A m \in Dirty(db) \cap Children[n] : d.parents[m] = db.parents[m] + 1
        /\ d.parents \in [Nodes -> Nat] /\ d.parents[n] = 0
    BY <1>1, <1>2, <1>4, <2>1
  <2>4. TrieTyped(d)
    BY <1>1, <2>1, <2>2, <2>3 DEF TrieTyped
  <2>5. Metas(d, g)
    BY <2>1, <2>2 DEF Sound, Metas
  <2>6. \A m \in Dirty(db) : d.parents[m] >= db.parents[m]
    <3>1. \A m \in Dirty(db) : db.parents[m] \in Nat
      BY <1>1, <2>3
    <3>2. QED
      BY <2>3, <3>1
  <2>7. ASSUME NEW m \in Dirty(d) \ d.disk
        PROVE  d.parents[m] = Cardinality(Referrers(d, m)) + d.meta[m] + Unowed[m]
    <3>0. m \in Nodes /\ Unowed[m] = 0 /\ d.meta[m] = db.meta[m] /\ d.meta[m] \in Nat
      BY <1>1, <1>2, <2>1, <2>2, <2>7 DEF Unowed
    <3>1. CASE m = n
      <4>1. Referrers(d, n) = {}
        BY <1>2, <1>4, <2>1, <2>2, <2>7, <3>1 DEF Referrers
      <4>2. d.meta[n] = 0
        BY <1>4, <2>1, <2>7, <3>1 DEF Sound, Metas
      <4>3. QED
        BY <2>3, <3>0, <3>1, <4>1, <4>2, FS_EmptySet
    <3>2. CASE m # n
      <4>1. m \in Dirty(db) \ db.disk
        BY <2>1, <2>2, <2>7, <3>2
      <4>2. db.parents[m] = Cardinality(Referrers(db, m)) + db.meta[m]
        <5>1. db.parents[m] = Cardinality(Referrers(db, m)) + db.meta[m] + Unowed[m]
          BY <4>1 DEF Sound, Exact
        <5>2. IsFiniteSet(Referrers(db, m))
          BY <1>2, FS_Subset DEF Referrers
        <5>3. Cardinality(Referrers(db, m)) \in Nat
          BY <5>2, FS_CardinalityType
        <5>4. QED
          BY <3>0, <5>1, <5>3
      <4>3. IsFiniteSet(Referrers(db, m)) /\ n \notin Referrers(db, m)
        BY <1>2, <1>4, FS_Subset DEF Referrers
      <4>4. CASE m \in Children[n]
        <5>1. Referrers(d, m) = Referrers(db, m) \cup {n}
          BY <2>2, <4>4 DEF Referrers
        <5>2. Cardinality(Referrers(d, m)) = Cardinality(Referrers(db, m)) + 1
              /\ Cardinality(Referrers(db, m)) \in Nat
          BY <4>3, <5>1, FS_AddElement, FS_CardinalityType
        <5>3. d.parents[m] = db.parents[m] + 1
          BY <2>3, <4>1, <4>4
        <5>4. QED
          BY <3>0, <4>2, <5>2, <5>3
      <4>5. CASE m \notin Children[n]
        <5>1. Referrers(d, m) = Referrers(db, m)
          BY <2>2, <4>5 DEF Referrers
        <5>2. Cardinality(Referrers(db, m)) \in Nat
          BY <4>3, FS_CardinalityType
        <5>3. d.parents[m] = db.parents[m]
          BY <2>3, <4>1, <4>5
        <5>4. QED
          BY <3>0, <4>2, <5>1, <5>2, <5>3
      <4>6. QED
        BY <4>4, <4>5
    <3>3. QED
      BY <3>1, <3>2
  <2>8. Sound(d, g)
    BY <2>1, <2>2, <2>4, <2>5, <2>7 DEF Sound, Exact
  <2>9. QED
    BY <2>1, <2>2, <2>6, <2>8 DEF Fuller, d
<1>5. QED
  BY <1>3, <1>4

\* The changed nodes of a trie are inserted, children first: each finds its children.
LEMMA InsertTrieLemma ==
    ASSUME NEW db, NEW g, Sound(db, g), NEW nodes \in SUBSET Nodes,
           \A n \in nodes : Children[n] \subseteq nodes \cup Dirty(db) \cup db.disk
    PROVE  Fuller(db, InsertTrie(db, nodes), g) /\ Dirty(InsertTrie(db, nodes)) = Dirty(db) \cup nodes
<1> DEFINE s == Reverse(TopDown)
           N == Len(s)
           Done(i) == {n \in nodes : \E k \in 1 .. i : s[k] = n}
           M == Len(TopDown)
<1>1. /\ N = M /\ M \in Nat
      /\ \A i \in 1 .. N : s[i] = TopDown[M - i + 1] /\ M - i + 1 \in 1 .. M
  <2>1. M \in Nat
    BY NodesLemma
  <2>2. \A i \in 1 .. M : M - i + 1 \in 1 .. M
    BY <2>1
  <2>3. QED
    BY <2>1, <2>2 DEF Reverse
<1>2. InsertTrie(db, nodes) = Inserts!Running(nodes, 0, 0, db, s, N)
  BY DEF InsertTrie, Fold, Inserts!Running
<1> HIDE DEF s, N, M
<1>3. PICK f : /\ InsertTrie(db, nodes) = f[N] /\ f[0] = db
               /\ \A i \in 1 .. N : f[i] = IF s[i] \in nodes THEN insert(f[i - 1], s[i]) ELSE f[i - 1]
  BY <1>1, <1>2, Inserts!RunningSteps
<1>4. \A n \in Nodes : \E k \in 1 .. N : s[k] = n
  <2> SUFFICES ASSUME NEW n \in Nodes PROVE \E k \in 1 .. N : s[k] = n
    OBVIOUS
  <2>1. PICK j \in 1 .. M : TopDown[j] = n
    BY NodesLemma DEF M
  <2>2. M - j + 1 \in 1 .. N /\ M - (M - j + 1) + 1 = j
    BY <1>1
  <2>3. QED
    BY <1>1, <2>1, <2>2
<1>5. ASSUME NEW i \in 1 .. N, NEW k \in 1 .. N, s[k] \in Children[s[i]] PROVE k < i
  <2> DEFINE a == M - k + 1
             b == M - i + 1
  <2>1. a \in 1 .. M /\ b \in 1 .. M /\ TopDown[a] \in Children[TopDown[b]]
    BY <1>1, <1>5
  <2>2. a = M - k + 1 /\ b = M - i + 1
    OBVIOUS
  <2> HIDE DEF a, b
  <2>3. b < a
    BY <2>1, NodesLemma DEF M
  <2>4. M \in Nat /\ i \in Nat /\ k \in Nat
    BY <1>1
  <2>5. QED
    BY <2>2, <2>3, <2>4
<1> DEFINE I(i) == Fuller(db, f[i], g) /\ Dirty(f[i]) = Dirty(db) \cup Done(i)
           S == {i \in 0 .. N : I(i)}
<1>6. TrieTyped(db) /\ \A m \in Dirty(db) : db.parents[m] \in Nat
  <2>1. TrieTyped(db) /\ Dirty(db) \in SUBSET Nodes
    BY CompleteLemma DEF Sound
  <2>2. QED
    BY <2>1 DEF TrieTyped
<1>7. 0 \in S
  <2>1. Done(0) = {}
    BY 1 .. 0 = {}
  <2>2. Fuller(db, db, g)
    BY <1>6 DEF Fuller
  <2>3. 0 \in 0 .. N
    BY <1>1
  <2> HIDE DEF Done
  <2>4. QED
    BY <1>3, <2>1, <2>2, <2>3
<1>8. ASSUME NEW i \in 0 .. N - 1, i \in S PROVE i + 1 \in S
  <2> DEFINE n == s[i + 1]
             d == f[i]
  <2>1. i + 1 \in 1 .. N /\ i + 1 \in 0 .. N /\ (i + 1) - 1 = i /\ \A k : k \in 1 .. i + 1 <=> k \in 1 .. i \/ k = i + 1
    BY <1>1
  <2>2. n \in Nodes
    BY <1>1, <2>1, NodesLemma DEF M
  <2>3. Done(i + 1) = Done(i) \cup ({n} \cap nodes)
    BY <2>1
  <2>4. Fuller(db, d, g) /\ Dirty(d) = Dirty(db) \cup Done(i)
    BY <1>8
  <2>5. f[i + 1] = IF n \in nodes THEN insert(d, n) ELSE d
    BY <1>3, <2>1
  <2>6. CASE n \in nodes
    <3>1. ASSUME NEW m \in Children[n] PROVE m \in Dirty(d) \cup d.disk
      <4>1. CASE m \in nodes
        <5>1. PICK k \in 1 .. N : s[k] = m
          BY <1>4, <4>1
        <5>2. k < i + 1
          BY <1>5, <2>1, <3>1, <5>1
        <5>3. k \in 1 .. i
          BY <1>1, <5>2
        <5>4. QED
          BY <2>4, <4>1, <5>1, <5>3
      <4>2. CASE m \notin nodes
        <5>1. m \in Dirty(db) \cup db.disk
          BY <2>6, <3>1, <4>2
        <5>2. QED
          BY <2>4, <5>1 DEF Fuller
      <4>3. QED
        BY <4>1, <4>2
    <3> HIDE DEF n, d, Done
    <3>2. Fuller(d, insert(d, n), g) /\ Dirty(insert(d, n)) = Dirty(d) \cup {n}
      BY <2>2, <2>4, <3>1, InsertLemma DEF Fuller
    <3>3. ASSUME NEW m \in Dirty(db) PROVE insert(d, n).parents[m] >= db.parents[m]
      <4>1. m \in Dirty(d) /\ m \in Dirty(insert(d, n))
        BY <2>4, <3>2
      <4>2. TrieTyped(d) /\ TrieTyped(insert(d, n)) /\ m \in Nodes
        BY <2>4, <3>2, <4>1, CompleteLemma DEF Fuller, Sound
      <4>3. /\ d.parents[m] \in Nat /\ insert(d, n).parents[m] \in Nat /\ db.parents[m] \in Nat
        BY <1>6, <4>2 DEF TrieTyped
      <4>4. d.parents[m] >= db.parents[m] /\ insert(d, n).parents[m] >= d.parents[m]
        BY <2>4, <3>2, <4>1 DEF Fuller
      <4>5. QED
        BY <4>3, <4>4
    <3>4. Fuller(db, insert(d, n), g)
      BY <2>4, <3>2, <3>3 DEF Fuller
    <3>5. Dirty(insert(d, n)) = Dirty(db) \cup Done(i + 1)
      BY <2>3, <2>4, <2>6, <3>2
    <3>6. QED
      BY <2>1, <2>5, <2>6, <3>4, <3>5
  <2>7. CASE n \notin nodes
    <3> HIDE DEF n, d, Done
    <3>1. Done(i + 1) = Done(i) /\ f[i + 1] = d
      BY <2>3, <2>5, <2>7
    <3>2. I(i + 1)
      BY <2>4, <3>1
    <3>3. QED
      BY <2>1, <3>2
  <2>8. QED
    BY <2>6, <2>7
<1> HIDE DEF S
<1>9. N \in S
  BY <1>1, <1>7, <1>8, Inserts!Reaches
<1>10. Done(N) = nodes
  BY <1>4
<1> HIDE DEF Done
<1>11. QED
  BY <1>3, <1>9, <1>10 DEF S

\* The queue h holds one root more than g, that of b.
OneMore(g, h, b) ==
  /\ Queues(g) /\ Queues(h)
  /\ Cardinality(Queued(g, Root[b])) \in Nat
  /\ Cardinality(Queued(h, Root[b])) = Cardinality(Queued(g, Root[b])) + 1
  /\ \A r \in Nodes : r # Root[b] => Queued(h, r) = Queued(g, r)

\* The queue with one entry more.
LEMMA QueuedLemma ==
    ASSUME NEW g \in [Blocks -> Nat], NEW h \in [Blocks -> Nat], NEW b \in Blocks,
           h = [g EXCEPT ![b] = g[b] + 1], Queues(g) \/ Queues(h)
    PROVE  OneMore(g, h, b)
<1> DEFINE new == <<b, g[b] + 1>>
<1>1. /\ g[b] \in Nat /\ h[b] = g[b] + 1 /\ \A x \in Blocks : x # b => h[x] = g[x]
      /\ \A k \in Nat : k \in 1 .. g[b] + 1 <=> k \in 1 .. g[b] \/ k = g[b] + 1
      /\ g[b] + 1 \notin 1 .. g[b] /\ g[b] + 1 \in Nat
  OBVIOUS
<1>2. Root[b] \in Nodes
  BY ChainAssumption
<1>3. Queued(h, Root[b]) = Queued(g, Root[b]) \cup {new} /\ new \notin Queued(g, Root[b])
  <2>1. new \notin Queued(g, Root[b])
    BY <1>1 DEF Queued
  <2>2. ASSUME NEW x \in Blocks \X Nat
        PROVE  x \in Queued(h, Root[b]) <=> x \in Queued(g, Root[b]) \/ x = new
    <3>1. PICK y \in Blocks, k \in Nat : x = <<y, k>>
      BY <2>2
    <3>2. x[1] = y /\ x[2] = k /\ (x = new <=> y = b /\ k = g[b] + 1)
      BY <3>1
    <3>3. CASE y = b
      BY <1>1, <3>2, <3>3 DEF Queued
    <3>4. CASE y # b
      BY <1>1, <3>2, <3>4 DEF Queued
    <3>5. QED
      BY <3>3, <3>4
  <2>3. new \in Blocks \X Nat /\ Queued(h, Root[b]) \subseteq Blocks \X Nat /\ Queued(g, Root[b]) \subseteq Blocks \X Nat
    BY <1>1 DEF Queued
  <2> HIDE DEF new
  <2>4. QED
    BY <2>1, <2>2, <2>3
<1>4. ASSUME NEW r \in Nodes, r # Root[b] PROVE Queued(h, r) = Queued(g, r)
  <2>1. \A x \in Blocks \X Nat : Root[x[1]] = r => h[x[1]] = g[x[1]]
    BY <1>1, <1>4
  <2>2. QED
    BY <2>1 DEF Queued
<1> HIDE DEF new
<1>5. \A r \in Nodes : IsFiniteSet(Queued(g, r)) /\ IsFiniteSet(Queued(h, r))
  <2> SUFFICES ASSUME NEW r \in Nodes PROVE IsFiniteSet(Queued(g, r)) /\ IsFiniteSet(Queued(h, r))
    OBVIOUS
  <2>0. IsFiniteSet(Queued(g, r)) \/ IsFiniteSet(Queued(h, r))
    BY DEF Queues
  <2>1. CASE r = Root[b]
    <3>1. ASSUME IsFiniteSet(Queued(g, Root[b])) PROVE IsFiniteSet(Queued(h, Root[b]))
      <4> DEFINE Q == Queued(g, Root[b])
      <4> HIDE DEF Q
      <4>1. IsFiniteSet(Q \cup {new})
        BY <3>1, FS_AddElement DEF Q
      <4>2. QED
        BY <1>3, <4>1 DEF Q
    <3>2. ASSUME IsFiniteSet(Queued(h, Root[b])) PROVE IsFiniteSet(Queued(g, Root[b]))
      BY <1>3, <3>2, FS_Subset
    <3>3. QED
      BY <2>0, <2>1, <3>1, <3>2
  <2>2. CASE r # Root[b]
    BY <1>4, <2>0, <2>2
  <2>3. QED
    BY <2>1, <2>2
<1>6. Cardinality(Queued(h, Root[b])) = Cardinality(Queued(g, Root[b])) + 1
      /\ Cardinality(Queued(g, Root[b])) \in Nat
  BY <1>2, <1>3, <1>5, FS_AddElement, FS_CardinalityType
<1>7. QED
  BY <1>4, <1>5, <1>6 DEF Queues, OneMore

\* The root of a block is referred to, and the queue holds it; it may have been the only
\* node that nothing referred to.
LEMMA ReferenceLemma ==
    ASSUME NEW db, NEW g, Sound(db, g), NEW b \in Blocks, Available(db, Root[b]),
           \A n \in Dirty(db) \ db.disk : db.parents[n] > 0 \/ n = Root[b]
    PROVE  /\ Cached(Reference(db, Root[b]), [g EXCEPT ![b] = @ + 1])
           /\ Reference(db, Root[b]).disk = db.disk
<1> DEFINE root == Root[b]
           h == [g EXCEPT ![b] = @ + 1]
           d == Reference(db, root)
<1>1. g \in [Blocks -> Nat] /\ Queues(g) /\ h \in [Blocks -> Nat] /\ h = [g EXCEPT ![b] = g[b] + 1]
  BY DEF Sound, Queues
<1>2. /\ DOMAIN db = TrieFields /\ db.flush \in Seq(Nodes) /\ db.disk \in SUBSET Nodes
      /\ db.parents \in [Nodes -> Nat] /\ db.meta \in [Nodes -> Nat] /\ root \in Nodes
  BY ChainAssumption DEF Sound, TrieTyped
<1> HIDE DEF h
<1>3. /\ Queues(h) /\ Cardinality(Queued(g, root)) \in Nat
      /\ Cardinality(Queued(h, root)) = Cardinality(Queued(g, root)) + 1
      /\ \A r \in Nodes : r # root => Queued(h, r) = Queued(g, r)
  <2>1. OneMore(g, h, b)
    BY <1>1, QueuedLemma
  <2>2. QED
    BY <2>1 DEF OneMore
<1>4. CASE root \notin Dirty(db)
  <2>1. d = db /\ root \in db.disk
    BY <1>4 DEF Reference, Available
  <2>2. Metas(db, h)
    <3>1. \A n \in Nodes \ db.disk : Queued(h, n) = Queued(g, n)
      BY <1>3, <2>1
    <3>2. QED
      BY <3>1 DEF Sound, Metas
  <2>3. Cached(db, h)
    BY <1>3, <1>4, <2>2 DEF Cached, Sound, NoOrphan
  <2>4. QED
    BY <2>1, <2>3 DEF h
<1>5. CASE root \in Dirty(db)
  <2> DEFINE ps == [db.parents EXCEPT ![root] = @ + 1]
             ms == [db.meta EXCEPT ![root] = @ + 1]
  <2>1. /\ DOMAIN d = TrieFields /\ d.flush = db.flush /\ d.disk = db.disk /\ d.parents = ps /\ d.meta = ms
    BY <1>2, <1>5 DEF Reference, TrieFields
  <2>2. /\ ps \in [Nodes -> Nat] /\ ms \in [Nodes -> Nat] /\ db.parents[root] \in Nat /\ db.meta[root] \in Nat
        /\ ps[root] = db.parents[root] + 1 /\ ms[root] = db.meta[root] + 1
        /\ \A n \in Nodes \ {root} : ps[n] = db.parents[n] /\ ms[n] = db.meta[n]
    BY <1>2
  <2> HIDE DEF d, ps, ms
  <2>3. Dirty(d) = Dirty(db) /\ Dirty(db) \in SUBSET Nodes
    BY <1>2, <2>1 DEF Dirty, ToSet
  <2>4. TrieTyped(d)
    BY <1>2, <2>1, <2>2 DEF TrieTyped
  <2>5. Metas(d, h)
    <3> SUFFICES ASSUME NEW n \in Nodes \ d.disk
                 PROVE  d.meta[n] = Cardinality(Queued(h, n)) /\ (n \notin Dirty(d) => d.meta[n] = 0)
      BY DEF Metas
    <3>1. db.meta[n] = Cardinality(Queued(g, n)) /\ (n \notin Dirty(db) => db.meta[n] = 0)
      BY <2>1 DEF Sound, Metas
    <3>2. CASE n = root
      BY <1>3, <1>5, <2>1, <2>2, <2>3, <3>1, <3>2
    <3>3. CASE n # root
      BY <1>3, <2>1, <2>2, <2>3, <3>1, <3>3
    <3>4. QED
      BY <3>2, <3>3
  <2>6. Exact(d, Unowed) /\ NoOrphan(d)
    <3> SUFFICES ASSUME NEW n \in Dirty(d) \ d.disk
                 PROVE  /\ d.parents[n] = Cardinality(Referrers(d, n)) + d.meta[n] + Unowed[n]
                        /\ d.parents[n] > 0
      BY DEF Exact, NoOrphan
    <3>1. /\ n \in Dirty(db) \ db.disk /\ n \in Nodes /\ Unowed[n] = 0
          /\ Referrers(d, n) = Referrers(db, n)
      BY <2>1, <2>3 DEF Referrers, Unowed
    <3>2. db.parents[n] = Cardinality(Referrers(db, n)) + db.meta[n] + Unowed[n]
      BY <3>1 DEF Sound, Exact
    <3>3. Cardinality(Referrers(db, n)) \in Nat
      BY <2>3, NodesLemma, FS_Subset, FS_CardinalityType DEF Referrers
    <3> DEFINE k == Cardinality(Referrers(db, n))
    <3> HIDE DEF k
    <3>4. CASE n = root
      BY <2>1, <2>2, <3>1, <3>2, <3>3, <3>4 DEF k
    <3>5. CASE n # root
      BY <2>1, <2>2, <3>1, <3>2, <3>3, <3>5 DEF k
    <3>6. QED
      BY <3>4, <3>5
  <2>7. Cached(d, h)
    BY <1>3, <2>1, <2>4, <2>5, <2>6 DEF Cached, Sound
  <2>8. QED
    BY <2>1, <2>7 DEF h, d
<1>6. QED
  BY <1>4, <1>5

\* A database in the middle of a cascade, which has still to take owed[n] references
\* from n.
Falling(db, g, owed) ==
  /\ TrieTyped(db) /\ Root[Genesis] \in db.disk
  /\ Whole(db.disk) /\ Ordered(db.flush, db.disk)
  /\ Queues(g) /\ Metas(db, g) /\ Exact(db, owed) /\ NoOrphan(db)

\* One step of Dereference's cascade.
Drop(acc, n) ==
  IF acc.owed[n] = 0 \/ n \notin Dirty(acc.db) THEN acc
  ELSE LET p == acc.db.parents[n]
           left == IF p > acc.owed[n] THEN p - acc.owed[n] ELSE 0
       IN IF left > 0
          THEN [acc EXCEPT !.db.parents[n] = left]
          ELSE [db |-> [acc.db EXCEPT !.parents[n] = 0,
                          !.flush = Unlink(@, {n})],
                owed |-> [m \in Nodes |->
                   IF m \in Children[n] THEN acc.owed[m] + 1
                   ELSE acc.owed[m]]]

\* The step takes the last reference to n.
Lost(acc, n) ==
  acc.owed[n] # 0 /\ n \in Dirty(acc.db) /\ ~(acc.db.parents[n] > acc.owed[n])

\* The last reference to a node goes, and the node with it.
LEMMA LoseLemma ==
    ASSUME NEW db, NEW g, NEW left \in [Nodes -> Nat], NEW after \in [Nodes -> Nat],
           Falling(db, g, left), NEW n \in Dirty(db), ~(db.parents[n] > left[n]), after[n] = 0,
           \A m \in Nodes \ {n} : after[m] = left[m] + (IF m \in Children[n] THEN 1 ELSE 0)
    PROVE  Falling([db EXCEPT !.parents[n] = 0, !.flush = Unlink(@, {n})], g, after)
<1> DEFINE d == [db EXCEPT !.parents[n] = 0, !.flush = Unlink(@, {n})]
           flat == Unlink(db.flush, {n})
<1>1. /\ DOMAIN db = TrieFields /\ db.flush \in Seq(Nodes) /\ db.disk \in SUBSET Nodes
      /\ db.parents \in [Nodes -> Nat] /\ db.meta \in [Nodes -> Nat] /\ TrieTyped(db)
      /\ Ordered(db.flush, db.disk) /\ Whole(db.disk)
  BY DEF Falling, TrieTyped
<1>2. /\ Dirty(db) \in SUBSET Nodes /\ IsFiniteSet(Dirty(db)) /\ n \in Nodes
      /\ Dirty(db) = ToSet(db.flush)
  BY <1>1, CompleteLemma DEF Dirty
<1>3. /\ DOMAIN d = TrieFields /\ d.flush = flat /\ d.disk = db.disk /\ d.meta = db.meta
      /\ d.parents = [db.parents EXCEPT ![n] = 0]
  BY <1>1 DEF TrieFields
<1>4. n \notin db.disk => Referrers(db, n) = {} /\ db.meta[n] = 0
  <2> SUFFICES ASSUME n \notin db.disk PROVE Referrers(db, n) = {} /\ db.meta[n] = 0
    OBVIOUS
  <2>1. db.parents[n] = Cardinality(Referrers(db, n)) + db.meta[n] + left[n]
    BY DEF Falling, Exact
  <2>2. IsFiniteSet(Referrers(db, n))
    BY <1>2, FS_Subset DEF Referrers
  <2>3. Cardinality(Referrers(db, n)) \in Nat /\ (Cardinality(Referrers(db, n)) = 0 <=> Referrers(db, n) = {})
    BY <2>2, FS_CardinalityType, FS_EmptySet
  <2> DEFINE k == Cardinality(Referrers(db, n))
  <2> HIDE DEF k
  <2>4. k \in Nat /\ db.meta[n] \in Nat /\ left[n] \in Nat /\ db.parents[n] = k + db.meta[n] + left[n]
    BY <1>1, <1>2, <2>1, <2>3 DEF k
  <2>5. k = 0 /\ db.meta[n] = 0
    BY <2>4
  <2>6. QED
    BY <2>3, <2>5 DEF k
<1>5. flat \in Seq(Nodes) /\ ToSet(flat) = Dirty(db) \ {n} /\ Ordered(flat, db.disk)
  <2>1. /\ Unlink(db.flush, {n}) \in Seq(Nodes)
        /\ ToSet(Unlink(db.flush, {n})) = ToSet(db.flush) \ {n}
        /\ \A disk, new :
             /\ Ordered(db.flush, disk) /\ disk \subseteq new
             /\ \A m \in {n} \ new : \A p \in ToSet(db.flush) \ {n} : m \notin Children[p]
             => Ordered(Unlink(db.flush, {n}), new)
    BY <1>1, UnlinkLemma
  <2>2. \A m \in {n} \ db.disk : \A p \in ToSet(db.flush) \ {n} : m \notin Children[p]
    BY <1>2, <1>4 DEF Referrers
  <2>3. QED
    BY <1>1, <1>2, <2>1, <2>2
<1> HIDE DEF d, flat
<1>6. Dirty(d) = Dirty(db) \ {n}
  BY <1>3, <1>5 DEF Dirty
<1>7. /\ d.parents \in [Nodes -> Nat] /\ \A m \in Nodes \ {n} : d.parents[m] = db.parents[m]
  BY <1>1, <1>3
<1>8. TrieTyped(d)
  BY <1>1, <1>3, <1>5, <1>7 DEF TrieTyped
<1>9. Metas(d, g)
  <2> SUFFICES ASSUME NEW m \in Nodes \ d.disk
               PROVE  d.meta[m] = Cardinality(Queued(g, m)) /\ (m \notin Dirty(d) => d.meta[m] = 0)
    BY DEF Metas
  <2>1. db.meta[m] = Cardinality(Queued(g, m)) /\ (m \notin Dirty(db) => db.meta[m] = 0)
    BY <1>3 DEF Falling, Metas
  <2>2. QED
    BY <1>3, <1>4, <1>6, <2>1
<1>10. Exact(d, after) /\ NoOrphan(d)
  <2> SUFFICES ASSUME NEW m \in Dirty(d) \ d.disk
               PROVE  /\ d.parents[m] = Cardinality(Referrers(d, m)) + d.meta[m] + after[m]
                      /\ d.parents[m] > 0
    BY DEF Exact, NoOrphan
  <2>1. m \in Dirty(db) \ db.disk /\ m \in Nodes \ {n} /\ d.parents[m] = db.parents[m]
    BY <1>2, <1>3, <1>6, <1>7
  <2>2. /\ db.parents[m] = Cardinality(Referrers(db, m)) + db.meta[m] + left[m]
        /\ db.parents[m] > 0
    BY <2>1 DEF Falling, Exact, NoOrphan
  <2>3. IsFiniteSet(Referrers(db, m))
    BY <1>2, FS_Subset DEF Referrers
  <2>4. Referrers(d, m) = Referrers(db, m) \ {n}
    BY <1>6 DEF Referrers
  <2> DEFINE k == Cardinality(Referrers(db, m))
             l == Cardinality(Referrers(d, m))
  <2>5. k \in Nat /\ l = k - (IF m \in Children[n] THEN 1 ELSE 0)
    <3>1. k \in Nat
      BY <2>3, FS_CardinalityType
    <3>2. CASE m \in Children[n]
      <4>1. n \in Referrers(db, m)
        BY <3>2 DEF Referrers
      <4>2. l = k - 1
        BY <2>3, <2>4, <4>1, FS_RemoveElement
      <4>3. QED
        BY <3>1, <3>2, <4>2
    <3>3. CASE m \notin Children[n]
      <4>1. Referrers(d, m) = Referrers(db, m)
        BY <2>4, <3>3 DEF Referrers
      <4>2. l = k
        BY <4>1
      <4> HIDE DEF k, l
      <4>3. QED
        BY <3>1, <3>3, <4>2
    <3>4. QED
      BY <3>2, <3>3
  <2>6. d.meta[m] = db.meta[m] /\ db.meta[m] \in Nat /\ left[m] \in Nat
    BY <1>1, <1>3, <2>1
  <2>7. after[m] = left[m] + (IF m \in Children[n] THEN 1 ELSE 0)
    BY <2>1
  <2> HIDE DEF k, l
  <2>8. db.parents[m] = k + db.meta[m] + left[m]
    BY <2>2 DEF k
  <2>9. d.parents[m] = l + d.meta[m] + after[m]
    BY <2>1, <2>5, <2>6, <2>7, <2>8
  <2>10. QED
    BY <2>1, <2>2, <2>9 DEF l
<1>11. QED
  BY <1>3, <1>5, <1>8, <1>9, <1>10 DEF Falling, d

\* A node loses some references, not all.
LEMMA LessenLemma ==
    ASSUME NEW db, NEW g, NEW left \in [Nodes -> Nat], NEW after \in [Nodes -> Nat],
           Falling(db, g, left), NEW n \in Dirty(db), db.parents[n] > left[n], after[n] = 0,
           \A m \in Nodes \ {n} : after[m] = left[m],
           NEW d, d = [db EXCEPT !.parents[n] = db.parents[n] - left[n]]
    PROVE  Falling(d, g, after) /\ d.disk = db.disk
<1>1. /\ DOMAIN db = TrieFields /\ db.flush \in Seq(Nodes) /\ db.disk \in SUBSET Nodes
      /\ db.parents \in [Nodes -> Nat] /\ db.meta \in [Nodes -> Nat] /\ n \in Nodes
  <2>1. TrieTyped(db) /\ Ordered(db.flush, db.disk)
    BY DEF Falling
  <2>2. Dirty(db) \in SUBSET Nodes
    BY <2>1, CompleteLemma
  <2>3. QED
    BY <2>1, <2>2 DEF TrieTyped
<1>2. /\ DOMAIN d = TrieFields /\ d.flush = db.flush /\ d.disk = db.disk /\ d.meta = db.meta
      /\ d.parents = [db.parents EXCEPT ![n] = db.parents[n] - left[n]]
  BY <1>1 DEF TrieFields
<1>3. Dirty(d) = Dirty(db) /\ Dirty(db) \in SUBSET Nodes
  BY <1>1, <1>2 DEF Dirty, ToSet
<1>4. db.parents[n] - left[n] \in Nat /\ db.parents[n] - left[n] > 0
  BY <1>1
<1>5. /\ d.parents \in [Nodes -> Nat] /\ d.parents[n] = db.parents[n] - left[n]
      /\ \A m \in Nodes \ {n} : d.parents[m] = db.parents[m]
  BY <1>1, <1>2, <1>4
<1>6. TrieTyped(d) /\ Metas(d, g)
  BY <1>1, <1>2, <1>3, <1>5 DEF TrieTyped, Falling, Metas
<1>7. Exact(d, after) /\ NoOrphan(d)
  <2> SUFFICES ASSUME NEW m \in Dirty(d) \ d.disk
               PROVE  /\ d.parents[m] = Cardinality(Referrers(d, m)) + d.meta[m] + after[m]
                      /\ d.parents[m] > 0
    BY DEF Exact, NoOrphan
  <2>1. /\ m \in Dirty(db) \ db.disk /\ m \in Nodes /\ Referrers(d, m) = Referrers(db, m)
        /\ d.meta[m] = db.meta[m]
    BY <1>2, <1>3 DEF Referrers
  <2>2. /\ db.parents[m] = Cardinality(Referrers(db, m)) + db.meta[m] + left[m]
        /\ db.parents[m] > 0
    BY <2>1 DEF Falling, Exact, NoOrphan
  <2>3. Cardinality(Referrers(db, m)) \in Nat
    BY <1>3, NodesLemma, FS_Subset, FS_CardinalityType DEF Referrers
  <2> DEFINE k == Cardinality(Referrers(db, m))
  <2> HIDE DEF k
  <2>4. k \in Nat /\ db.parents[m] = k + db.meta[m] + left[m] /\ db.meta[m] \in Nat /\ left[m] \in Nat
    BY <1>1, <2>1, <2>2, <2>3 DEF k
  <2>5. CASE m = n
    BY <1>4, <1>5, <2>1, <2>4, <2>5 DEF k
  <2>6. CASE m # n
    BY <1>5, <2>1, <2>2, <2>4, <2>6 DEF k
  <2>7. QED
    BY <2>5, <2>6
<1>8. QED
  BY <1>2, <1>6, <1>7 DEF Falling

\* What a cascade has left to take does not matter for the nodes that are not cached.
LEMMA OwedLemma ==
    ASSUME NEW db, NEW g, NEW left, NEW after, Falling(db, g, left),
           \A m \in Dirty(db) : after[m] = left[m]
    PROVE  Falling(db, g, after)
  BY DEF Falling, Exact

\* What is left to take before and after a step of the cascade at n.
Takes(acc, n, left, after) ==
  /\ left \in [Nodes -> Nat] /\ after \in [Nodes -> Nat] /\ left[n] = acc.owed[n] /\ after[n] = 0
  /\ \A m \in Nodes \ {n} :
       after[m] = left[m] + (IF Lost(acc, n) /\ m \in Children[n] THEN 1 ELSE 0)

\* What the children of n are owed after that step.
Owes(acc, n) ==
  IF Lost(acc, n)
  THEN [m \in Nodes |-> IF m \in Children[n] THEN acc.owed[m] + 1 ELSE acc.owed[m]]
  ELSE acc.owed

\* The fields of a cascade.
Cascade(acc) == DOMAIN acc = {"db", "owed"}

\* A step of the cascade.
LEMMA DropLemma ==
    ASSUME NEW acc, Cascade(acc), NEW g, NEW left, NEW after,
           Falling(acc.db, g, left), NEW n \in Nodes, Takes(acc, n, left, after)
    PROVE  /\ Cascade(Drop(acc, n))
           /\ Falling(Drop(acc, n).db, g, after) /\ Drop(acc, n).db.disk = acc.db.disk
           /\ Drop(acc, n).owed = Owes(acc, n)
<1>7. DOMAIN acc = {"db", "owed"}
  BY DEF Cascade
<1>0. /\ left \in [Nodes -> Nat] /\ after \in [Nodes -> Nat] /\ left[n] = acc.owed[n] /\ after[n] = 0
      /\ \A m \in Nodes \ {n} :
           after[m] = left[m] + (IF Lost(acc, n) /\ m \in Children[n] THEN 1 ELSE 0)
  BY DEF Takes
<1> DEFINE p == acc.db.parents[n]
           rest == p - acc.owed[n]
           d1 == [acc.db EXCEPT !.parents[n] = rest]
           a1 == [acc EXCEPT !.db.parents[n] = rest]
           d2 == [acc.db EXCEPT !.parents[n] = 0, !.flush = Unlink(@, {n})]
           o2 == [m \in Nodes |-> IF m \in Children[n] THEN acc.owed[m] + 1 ELSE acc.owed[m]]
           a2 == [db |-> d2, owed |-> o2]
<1>1. /\ DOMAIN acc.db = TrieFields /\ acc.db.parents \in [Nodes -> Nat] /\ p \in Nat
      /\ acc.owed[n] \in Nat /\ Dirty(acc.db) \in SUBSET Nodes
  BY <1>0 DEF Falling, TrieTyped, Dirty, ToSet
<1>2. Drop(acc, n) = IF acc.owed[n] = 0 \/ n \notin Dirty(acc.db) THEN acc
                     ELSE IF p > acc.owed[n] THEN a1 ELSE a2
  <2>1. p > acc.owed[n] => rest > 0
    BY <1>1
  <2> HIDE DEF p
  <2>2. QED
    BY <2>1 DEF Drop, p
<1>3. CASE acc.owed[n] = 0 \/ n \notin Dirty(acc.db)
  <2>1. ~Lost(acc, n) /\ Drop(acc, n) = acc
    BY <1>2, <1>3 DEF Lost
  <2>2. \A m \in Dirty(acc.db) : after[m] = left[m]
    BY <1>0, <1>1, <1>3, <2>1
  <2>3. QED
    BY <2>1, <2>2, OwedLemma DEF Owes
<1>4. CASE acc.owed[n] # 0 /\ n \in Dirty(acc.db) /\ p > acc.owed[n]
  <2>1. ~Lost(acc, n) /\ Drop(acc, n) = a1
    BY <1>2, <1>4 DEF Lost
  <2>2. DOMAIN a1 = {"db", "owed"} /\ a1.db = d1 /\ a1.owed = acc.owed
    BY <1>7
  <2>3. \A m \in Nodes \ {n} : after[m] = left[m]
    BY <1>0, <2>1
  <2>4. d1 = [acc.db EXCEPT !.parents[n] = acc.db.parents[n] - left[n]]
    BY <1>0
  <2> HIDE DEF a1, d1
  <2>5. Falling(d1, g, after) /\ d1.disk = acc.db.disk
    BY <1>0, <1>4, <2>3, <2>4, LessenLemma DEF p
  <2>6. QED
    BY <2>1, <2>2, <2>5 DEF Owes, Cascade
<1>5. CASE acc.owed[n] # 0 /\ n \in Dirty(acc.db) /\ ~(p > acc.owed[n])
  <2>1. Lost(acc, n) /\ Drop(acc, n) = a2
    BY <1>2, <1>5 DEF Lost
  <2>2. DOMAIN a2 = {"db", "owed"} /\ a2.db = d2 /\ a2.owed = o2
    OBVIOUS
  <2>3. d2.disk = acc.db.disk
    BY <1>1 DEF TrieFields
  <2>4. Falling(d2, g, after)
    BY <1>0, <1>5, <2>1, LoseLemma DEF p
  <2> HIDE DEF a2, d2, o2
  <2>5. QED
    BY <2>1, <2>2, <2>3, <2>4 DEF o2, Owes, Cascade
<1>6. QED
  BY <1>3, <1>4, <1>5

Drops == INSTANCE FoldTheorems WITH Op <- LAMBDA p, q, r, d, e : Drop(d, e)

\* What the cascade has left to take when it has come to place i.
Left(owed, i) == [m \in Nodes |-> IF \E k \in 1 .. i : TopDown[k] = m THEN 0 ELSE owed[m]]

\* The meta root's reference goes: what was exact is so but for the root's count.
LEMMA UnrootLemma ==
    ASSUME NEW db, NEW g, Cached(db, g), NEW b \in Blocks, NEW h, OneMore(h, g, b),
           NEW d, d = [db EXCEPT !.meta[Root[b]] = IF @ > 0 THEN @ - 1 ELSE 0]
    PROVE  Falling(d, h, [n \in Nodes |-> IF n = Root[b] THEN 1 ELSE 0]) /\ d.disk = db.disk
<1> DEFINE root == Root[b]
           owed == [n \in Nodes |-> IF n = root THEN 1 ELSE 0]
<1>1. /\ DOMAIN db = TrieFields /\ db.flush \in Seq(Nodes) /\ db.disk \in SUBSET Nodes
      /\ db.parents \in [Nodes -> Nat] /\ db.meta \in [Nodes -> Nat] /\ root \in Nodes
      /\ TrieTyped(db) /\ Ordered(db.flush, db.disk)
  BY ChainAssumption DEF Cached, Sound, TrieTyped
<1>2. /\ DOMAIN d = TrieFields /\ d.flush = db.flush /\ d.disk = db.disk /\ d.parents = db.parents
      /\ d.meta = [db.meta EXCEPT ![root] = IF db.meta[root] > 0 THEN db.meta[root] - 1 ELSE 0]
  BY <1>1 DEF TrieFields
<1>3. Dirty(d) = Dirty(db) /\ Dirty(db) \in SUBSET Nodes
  BY <1>1, <1>2, CompleteLemma DEF Dirty
<1>4. /\ d.meta \in [Nodes -> Nat] /\ \A n \in Nodes \ {root} : d.meta[n] = db.meta[n]
      /\ db.meta[root] > 0 => d.meta[root] = db.meta[root] - 1
  BY <1>1, <1>2
<1>5. /\ Queues(h) /\ Cardinality(Queued(h, root)) \in Nat
      /\ Cardinality(Queued(g, root)) = Cardinality(Queued(h, root)) + 1
      /\ \A r \in Nodes : r # root => Queued(g, r) = Queued(h, r)
  BY DEF OneMore
<1>6. root \notin db.disk => /\ db.meta[root] = Cardinality(Queued(h, root)) + 1
                             /\ db.meta[root] > 0 /\ root \in Dirty(db)
  <2> SUFFICES ASSUME root \notin db.disk
               PROVE  /\ db.meta[root] = Cardinality(Queued(h, root)) + 1
                      /\ db.meta[root] > 0 /\ root \in Dirty(db)
    OBVIOUS
  <2>1. db.meta[root] = Cardinality(Queued(g, root)) /\ (root \notin Dirty(db) => db.meta[root] = 0)
    BY <1>1 DEF Cached, Sound, Metas
  <2>2. QED
    BY <1>5, <2>1
<1>7. TrieTyped(d)
  BY <1>1, <1>2, <1>4 DEF TrieTyped
<1>8. Metas(d, h)
  <2> SUFFICES ASSUME NEW n \in Nodes \ d.disk
               PROVE  d.meta[n] = Cardinality(Queued(h, n)) /\ (n \notin Dirty(d) => d.meta[n] = 0)
    BY DEF Metas
  <2>1. CASE n = root
    BY <1>2, <1>3, <1>4, <1>5, <1>6, <2>1
  <2>2. CASE n # root
    <3>1. db.meta[n] = Cardinality(Queued(g, n)) /\ (n \notin Dirty(db) => db.meta[n] = 0)
      BY <1>2 DEF Cached, Sound, Metas
    <3>2. QED
      BY <1>3, <1>4, <1>5, <2>2, <3>1
  <2>3. QED
    BY <2>1, <2>2
<1>9. Exact(d, owed)
  <2> SUFFICES ASSUME NEW n \in Dirty(d) \ d.disk
               PROVE  d.parents[n] = Cardinality(Referrers(d, n)) + d.meta[n] + owed[n]
    BY DEF Exact
  <2>1. n \in Dirty(db) \ db.disk /\ n \in Nodes /\ Referrers(d, n) = Referrers(db, n)
    BY <1>2, <1>3 DEF Referrers
  <2>2. db.parents[n] = Cardinality(Referrers(db, n)) + db.meta[n] + Unowed[n] /\ Unowed[n] = 0
    BY <2>1 DEF Cached, Sound, Exact, Unowed
  <2>3. Cardinality(Referrers(db, n)) \in Nat
    BY <1>3, NodesLemma, FS_Subset, FS_CardinalityType DEF Referrers
  <2> DEFINE k == Cardinality(Referrers(db, n))
  <2>4. /\ k \in Nat /\ d.parents[n] = k + db.meta[n] + 0 /\ db.meta[n] \in Nat
        /\ Cardinality(Referrers(d, n)) = k
    BY <1>1, <1>2, <2>1, <2>2, <2>3
  <2> HIDE DEF k
  <2>5. CASE n = root
    <3>1. d.meta[n] = db.meta[n] - 1 /\ owed[n] = 1
      BY <1>4, <1>6, <2>1, <2>5
    <3> HIDE DEF owed
    <3>2. QED
      BY <2>4, <3>1
  <2>6. CASE n # root
    <3>1. d.meta[n] = db.meta[n] /\ owed[n] = 0
      BY <1>4, <2>1, <2>6
    <3> HIDE DEF owed
    <3>2. QED
      BY <2>4, <3>1
  <2>7. QED
    BY <2>5, <2>6
<1>10. NoOrphan(d)
  BY <1>2, <1>3 DEF Cached, NoOrphan
<1> HIDE DEF owed
<1>11. Falling(d, h, owed)
  BY <1>2, <1>5, <1>7, <1>8, <1>9, <1>10 DEF Cached, Sound, Falling
<1>12. QED
  BY <1>2, <1>11 DEF owed

\* A root is referred to no more, and the queue holds it once less.
LEMMA DereferenceLemma ==
    ASSUME NEW db, NEW g, Cached(db, g), NEW b \in Blocks, NEW h, OneMore(h, g, b)
    PROVE  Cached(Dereference(db, Root[b]), h) /\ Dereference(db, Root[b]).disk = db.disk
<1> DEFINE root == Root[b]
           start == [db EXCEPT !.meta[root] = IF @ > 0 THEN @ - 1 ELSE 0]
           owed == [n \in Nodes |-> IF n = root THEN 1 ELSE 0]
           first == [db |-> start, owed |-> owed]
           N == Len(TopDown)
<1>1. N \in Nat
  BY NodesLemma
<1>2. Dereference(db, root) = Drops!Running(0, 0, 0, first, TopDown, N).db
  BY DEF Dereference, Fold, Drops!Running, Drop
<1>3. Falling(start, h, owed) /\ start.disk = db.disk
  BY UnrootLemma
<1>4. owed \in [Nodes -> Nat]
  OBVIOUS
<1> HIDE DEF start, owed
<1>5. Cascade(first) /\ first.db = start /\ first.owed = owed
  BY DEF Cascade
<1> HIDE DEF first, N
<1>6. PICK f : /\ Drops!Running(0, 0, 0, first, TopDown, N) = f[N] /\ f[0] = first
               /\ \A i \in 1 .. N : f[i] = Drop(f[i - 1], TopDown[i])
  BY <1>1, Drops!RunningSteps
<1> DEFINE I(acc, i) == /\ Cascade(acc) /\ acc.owed \in [Nodes -> Nat]
                        /\ Falling(acc.db, h, Left(acc.owed, i)) /\ acc.db.disk = db.disk
           S == {i \in 0 .. N : I(f[i], i)}
<1>7. 0 \in S
  <2>1. \A m \in Nodes : Left(owed, 0)[m] = owed[m]
    BY 1 .. 0 = {} DEF Left
  <2>2. Falling(start, h, Left(owed, 0))
    <3>1. Dirty(start) \in SUBSET Nodes
      BY <1>3, CompleteLemma DEF Falling
    <3>2. \A m \in Dirty(start) : Left(owed, 0)[m] = owed[m]
      BY <2>1, <3>1
    <3>3. QED
      BY <1>3, <3>2, OwedLemma
  <2>3. QED
    BY <1>1, <1>3, <1>4, <1>5, <1>6, <2>2
<1>8. ASSUME NEW i \in 0 .. N - 1, i \in S PROVE i + 1 \in S
  <2> DEFINE n == TopDown[i + 1]
             acc == f[i]
             new == Drop(acc, n)
             left == Left(acc.owed, i)
             after == Left(new.owed, i + 1)
  <2>1. /\ i + 1 \in 1 .. N /\ i + 1 \in 0 .. N /\ (i + 1) - 1 = i
        /\ \A k : k \in 1 .. i + 1 <=> k \in 1 .. i \/ k = i + 1
        /\ \A k \in 1 .. i : k \in 1 .. N /\ k # i + 1 /\ ~(i + 1 < k)
    BY <1>1
  <2>2. n \in Nodes /\ f[i + 1] = new
    BY <1>6, <2>1, NodesLemma DEF N
  <2>3. /\ Cascade(acc) /\ acc.owed \in [Nodes -> Nat]
        /\ Falling(acc.db, h, left) /\ acc.db.disk = db.disk
    BY <1>8
  <2>4. \A k \in 1 .. i : TopDown[k] # n /\ TopDown[k] \notin Children[n]
    BY <2>1, NodesLemma DEF N
  <2>5. left \in [Nodes -> Nat] /\ left[n] = acc.owed[n]
    BY <2>2, <2>3, <2>4 DEF Left
  <2> DEFINE more == [m \in Nodes |-> IF m \in Children[n] THEN acc.owed[m] + 1 ELSE acc.owed[m]]
             owes == IF Lost(acc, n) THEN more ELSE acc.owed
             then == Left(owes, i + 1)
  <2>6. owes \in [Nodes -> Nat] /\ \A m \in Nodes :
          owes[m] = acc.owed[m] + (IF Lost(acc, n) /\ m \in Children[n] THEN 1 ELSE 0)
    BY <2>3
  <2>7. then \in [Nodes -> Nat] /\ then[n] = 0
    <3>1. i + 1 \in 1 .. i + 1
      BY <2>1
    <3> HIDE DEF owes
    <3>2. QED
      BY <2>2, <2>6, <3>1 DEF Left
  <2>8. ASSUME NEW m \in Nodes \ {n}
        PROVE  then[m] = left[m] + (IF Lost(acc, n) /\ m \in Children[n] THEN 1 ELSE 0)
    <3> HIDE DEF owes
    <3>1. CASE \E k \in 1 .. i : TopDown[k] = m
      <4>1. then[m] = 0 /\ left[m] = 0 /\ m \notin Children[n]
        BY <2>1, <2>4, <3>1 DEF Left
      <4> HIDE DEF then, left
      <4>2. QED
        BY <4>1
    <3>2. CASE ~ \E k \in 1 .. i : TopDown[k] = m
      <4>1. then[m] = owes[m] /\ left[m] = acc.owed[m]
        BY <2>1, <3>2 DEF Left
      <4> HIDE DEF then, left
      <4>2. QED
        BY <2>6, <4>1
    <3>3. QED
      BY <3>1, <3>2
  <2>12. owes = Owes(acc, n)
    BY DEF Owes
  <2> HIDE DEF n, acc, left, more, owes, then
  <2>9. /\ Cascade(new) /\ Falling(new.db, h, then) /\ new.db.disk = acc.db.disk
        /\ new.owed = owes
    <3>1. Takes(acc, n, left, then)
      BY <2>5, <2>7, <2>8 DEF Takes
    <3>2. Cascade(acc) /\ Falling(acc.db, h, left) /\ n \in Nodes
      BY <2>2, <2>3
    <3>3. /\ Cascade(Drop(acc, n))
          /\ Falling(Drop(acc, n).db, h, then) /\ Drop(acc, n).db.disk = acc.db.disk
          /\ Drop(acc, n).owed = Owes(acc, n)
      BY <3>1, <3>2, DropLemma
    <3>4. QED
      BY <2>12, <3>3
  <2>10. I(new, i + 1)
    BY <2>3, <2>6, <2>9 DEF then
  <2> HIDE DEF new, I
  <2>11. QED
    BY <2>1, <2>2, <2>10
<1>9. N \in S
  <2> HIDE DEF S
  <2>1. QED
    BY <1>1, <1>7, <1>8, Drops!Reaches
<1> DEFINE d == f[N].db
<1>10. Falling(d, h, Left(f[N].owed, N)) /\ d.disk = db.disk
  BY <1>9
<1> HIDE DEF d
<1>11. Falling(d, h, Unowed)
  <2>1. Dirty(d) \in SUBSET Nodes
    BY <1>10, CompleteLemma DEF Falling
  <2>2. \A m \in Nodes : Unowed[m] = 0 /\ Left(f[N].owed, N)[m] = 0
    BY NodesLemma DEF Left, Unowed, N
  <2>3. QED
    BY <1>10, <2>1, <2>2, OwedLemma
<1>12. Cached(d, h)
  BY <1>11 DEF Falling, Cached, Sound
<1>13. QED
  BY <1>2, <1>6, <1>10, <1>12 DEF d

Derefs == INSTANCE FoldTheorems WITH Op <- LAMBDA p, q, r, d, e : Dereference(d, p)

\* A root is dereferenced as often as the collector's queue holds it.
Collected(db, root, k) == Fold(LAMBDA d, i : Dereference(d, root), db, [i \in 1..k |-> i])

\* The queue no longer holds the block.
LEMMA CollectedLemma ==
    ASSUME NEW db, NEW g, Cached(db, g), NEW x \in Blocks
    PROVE  /\ Cached(Collected(db, Root[x], g[x]), [g EXCEPT ![x] = 0])
           /\ Collected(db, Root[x], g[x]).disk = db.disk
<1> DEFINE k == g[x]
           s == [i \in 1..k |-> i]
           G(i) == [g EXCEPT ![x] = k - i]
<1>1. g \in [Blocks -> Nat] /\ k \in Nat
  BY DEF Cached, Sound, Queues
<1>2. G(0) = g /\ G(k) = [g EXCEPT ![x] = 0]
  <2>1. k - 0 = k /\ k - k = 0
    BY <1>1
  <2>2. [g EXCEPT ![x] = k] = g
    BY <1>1
  <2> HIDE DEF k
  <2>3. QED
    BY <2>1, <2>2
<1>3. ASSUME NEW i \in 0 .. k - 1, Queues(G(i)) PROVE OneMore(G(i + 1), G(i), x)
  <2>1. k - i \in Nat /\ k - (i + 1) \in Nat /\ k - i = (k - (i + 1)) + 1
    BY <1>1
  <2>2. G(i) \in [Blocks -> Nat] /\ G(i + 1) \in [Blocks -> Nat] /\ G(i + 1)[x] = k - (i + 1)
    BY <1>1, <2>1
  <2>3. G(i) = [G(i + 1) EXCEPT ![x] = G(i + 1)[x] + 1]
    BY <1>1, <2>1, <2>2
  <2> HIDE DEF G
  <2>4. QED
    BY <1>3, <2>2, <2>3, QueuedLemma
<1> HIDE DEF G, k
<1>4. Len(s) = k
  BY <1>1
<1>5. Collected(db, Root[x], k) = Derefs!Running(Root[x], 0, 0, db, s, Len(s))
  BY DEF Collected, Fold, Derefs!Running
<1> HIDE DEF s
<1>6. PICK f : /\ Derefs!Running(Root[x], 0, 0, db, s, k) = f[k] /\ f[0] = db
               /\ \A i \in 1 .. k : f[i] = Dereference(f[i - 1], Root[x])
  BY <1>1, Derefs!RunningSteps
<1> DEFINE S == {i \in 0 .. k : Cached(f[i], G(i)) /\ f[i].disk = db.disk}
<1>7. 0 \in S
  BY <1>1, <1>2, <1>6
<1>8. ASSUME NEW i \in 0 .. k - 1, i \in S PROVE i + 1 \in S
  <2>1. i + 1 \in 1 .. k /\ i + 1 \in 0 .. k /\ (i + 1) - 1 = i
    BY <1>1
  <2>2. f[i + 1] = Dereference(f[i], Root[x])
    BY <1>6, <2>1
  <2>3. OneMore(G(i + 1), G(i), x)
    BY <1>3, <1>8 DEF Cached, Sound
  <2>4. Cached(f[i], G(i)) /\ f[i].disk = db.disk
    BY <1>8
  <2>5. Cached(f[i + 1], G(i + 1)) /\ f[i + 1].disk = db.disk
    BY <2>2, <2>3, <2>4, DereferenceLemma
  <2>6. QED
    BY <2>1, <2>5
<1> HIDE DEF S
<1>9. k \in S
  BY <1>1, <1>7, <1>8, Derefs!Reaches
<1>10. QED
  BY <1>2, <1>4, <1>5, <1>6, <1>9 DEF S, k

Collects == INSTANCE FoldTheorems WITH Op <- LAMBDA p, q, r, d, e : Collected(d, Root[e], p[e])

\* The queue without some blocks.
Dequeued(gc, T) == [x \in Blocks |-> IF x \in T THEN 0 ELSE gc[x]]

\* The roots of some blocks are dereferenced, in whatever order.
LEMMA CollectsLemma ==
    ASSUME NEW db, NEW gc, Cached(db, gc), NEW U \in SUBSET Blocks
    PROVE  /\ Cached(Collects!SetFold(gc, 0, 0, db, U), Dequeued(gc, U))
           /\ Collects!SetFold(gc, 0, 0, db, U).disk = db.disk
<1>0. gc \in [Blocks -> Nat]
  BY DEF Cached, Sound, Queues
<1>1. IsFiniteSet(U)
  BY ChainAssumption, FS_Subset
<1>2. PICK f, ch : Collects!Follows(gc, 0, 0, f, db, U, ch)
  BY <1>1, Collects!SetFoldPicks DEF IsFiniteSet, Collects!IsFiniteSet
<1>3. /\ Collects!SetFold(gc, 0, 0, db, U) = f[U] /\ Collects!Chooses(ch, U) /\ f[{}] = db
      /\ \A T \in SUBSET U : T # {} => f[T] = Collected(f[T \ {ch[T]}], Root[ch[T]], gc[ch[T]])
  BY <1>2 DEF Collects!Follows
<1> DEFINE S == {T \in SUBSET U : Cached(f[T], Dequeued(gc, T)) /\ f[T].disk = db.disk}
<1>4. {} \in S
  <2>1. Dequeued(gc, {}) = gc
    BY <1>0 DEF Dequeued
  <2>2. QED
    BY <1>3, <2>1
<1>5. ASSUME NEW T \in SUBSET U, T # {}, T \ {ch[T]} \in S PROVE T \in S
  <2> DEFINE x == ch[T]
             V == T \ {x}
             d == f[V]
  <2>1. x \in T /\ x \in Blocks
    BY <1>3, <1>5 DEF Collects!Chooses
  <2>2. Cached(d, Dequeued(gc, V)) /\ d.disk = db.disk
    BY <1>5
  <2>3. f[T] = Collected(d, Root[x], gc[x])
    BY <1>3, <1>5
  <2> HIDE DEF d, x
  <2>4. Dequeued(gc, V)[x] = gc[x] /\ [Dequeued(gc, V) EXCEPT ![x] = 0] = Dequeued(gc, T)
    BY <2>1 DEF Dequeued
  <2> HIDE DEF V
  <2>5. Cached(f[T], Dequeued(gc, T)) /\ f[T].disk = db.disk
    BY <2>1, <2>2, <2>3, <2>4, CollectedLemma
  <2>6. QED
    BY <2>5
<1> HIDE DEF S
<1>6. U \in S
  BY <1>1, <1>3, <1>4, <1>5, Collects!SubsetsReached DEF IsFiniteSet, Collects!IsFiniteSet
<1>7. QED
  BY <1>3, <1>6 DEF S

\* The fields that hold blocks, and the index, are the same.
SameBlocks(d, e) ==
  /\ DOMAIN d = ChainFields /\ DOMAIN e = ChainFields
  /\ d.td = e.td /\ d.bodies = e.bodies /\ d.future = e.future /\ d.fed = e.fed
  /\ d.head = e.head /\ d.header = e.header /\ d.fast = e.fast
  /\ d.canon = e.canon /\ d.lookup = e.lookup

\* The trie cache counts what the collector's queue holds.
Counted(e) == Cached(e.trie, e.gc)

\* The state of x is on disk or in the queue, unless a block is stored that is so far
\* above it that the collector may have taken it.
Lives(e, x) ==
  \/ Root[x] \in e.trie.disk
  \/ e.gc[x] > 0
  \/ \E y \in e.bodies : Number[y] >= Number[x] + TriesInMemory

\* A state that lives in e lives in d.
Outlives(d, e) == \A x \in Blocks : Lives(e, x) => Lives(d, x)

\* The oldest roots are dereferenced.
LEMMA CollectGarbageLemma ==
    ASSUME NEW e, DOMAIN e = ChainFields, Counted(e), NEW b \in Blocks, b \in e.bodies,
           NEW cap \in Nat
    PROVE  /\ SameBlocks(CollectGarbage(e, b, cap), e) /\ Counted(CollectGarbage(e, b, cap))
           /\ Outlives(CollectGarbage(e, b, cap), e)
<1> DEFINE old == {x \in Blocks : /\ e.gc[x] > 0
                                  /\ Number[x] <= Number[b] - TriesInMemory}
           drop(x, db) == Fold(LAMBDA d, i : Dereference(d, Root[x]), db, [i \in 1..e.gc[x] |-> i])
           start == Cap(e.trie, cap)
           end == FoldSet(drop, start, old)
           d == [e EXCEPT !.trie = end, !.gc = [x \in Blocks |-> IF x \in old THEN 0 ELSE @[x]]]
<1>1. CASE Number[b] <= TriesInMemory
  BY <1>1 DEF CollectGarbage, SameBlocks, Outlives
<1>2. CASE ~(Number[b] <= TriesInMemory)
  <2>1. CollectGarbage(e, b, cap) = d
    BY <1>2 DEF CollectGarbage
  <2>2. end = Collects!SetFold(e.gc, 0, 0, start, old)
    BY DEF FoldSet, MapThenFoldSet, Collects!SetFold, Collects!Taken, Collected
  <2>3. Cached(start, e.gc) /\ e.trie.disk \subseteq start.disk
    BY CapLemma DEF Counted
  <2>4. old \in SUBSET Blocks
    OBVIOUS
  <2>5. \A x \in old : Number[b] >= Number[x] + TriesInMemory
    <3> SUFFICES ASSUME NEW x \in old PROVE Number[b] >= Number[x] + TriesInMemory
      OBVIOUS
    <3>1. Number[x] \in Nat /\ Number[b] \in Nat /\ TriesInMemory \in Nat
      BY NumberLemma, ChainAssumption
    <3>2. Number[x] <= Number[b] - TriesInMemory
      OBVIOUS
    <3>3. QED
      BY <3>1, <3>2
  <2> HIDE DEF end, start, old
  <2>6. Cached(end, Dequeued(e.gc, old)) /\ e.trie.disk \subseteq end.disk
    BY <2>2, <2>3, <2>4, CollectsLemma
  <2>7. SameBlocks(d, e) /\ d.trie = end /\ d.gc = Dequeued(e.gc, old) /\ d.bodies = e.bodies
    BY DEF SameBlocks, ChainFields, Dequeued
  <2> HIDE DEF d
  <2>8. ASSUME NEW x \in Blocks, Lives(e, x) PROVE Lives(d, x)
    <3>1. x \in old => Number[b] >= Number[x] + TriesInMemory
      BY <2>5
    <3>2. x \notin old => d.gc[x] = e.gc[x]
      BY <2>7 DEF Dequeued
    <3>3. QED
      BY <2>6, <2>7, <2>8, <3>1, <3>2 DEF Lives
  <2>9. QED
    BY <2>1, <2>6, <2>7, <2>8 DEF Counted, Outlives
<1>3. QED
  BY <1>1, <1>2

\* What a block changes of its parent's state is inserted whole: all of its trie can then
\* be read, and only the root may have nothing that refers to it.
LEMMA FillLemma ==
    ASSUME NEW db, NEW g, Cached(db, g), NEW b \in Blocks, Parent[b] \in Blocks,
           Available(db, Root[Parent[b]])
    PROVE  LET d == InsertTrie(db, Fresh(b))
           IN  /\ Fuller(db, d, g) /\ Available(d, Root[b])
               /\ \A n \in Dirty(d) \ d.disk : d.parents[n] > 0 \/ n = Root[b]
<1> DEFINE root == Root[b]
           base == Root[Parent[b]]
           new == Fresh(b)
           d == InsertTrie(db, new)
           can == Dirty(db) \cup db.disk
<1>1. root \in Nodes /\ base \in Nodes /\ new = Trie[root] \ Trie[base]
  BY ChainAssumption DEF Fresh
<1>2. /\ TrieTyped(db) /\ Ordered(db.flush, db.disk) /\ Whole(db.disk) /\ Sound(db, g) /\ NoOrphan(db)
  BY DEF Cached, Sound
<1>3. /\ Dirty(db) \in SUBSET Nodes /\ \A p \in Dirty(db) : Children[p] \subseteq can
  BY <1>2, CompleteLemma
<1>4. /\ Trie[root] \in SUBSET Nodes /\ root \in Trie[root]
      /\ \A p \in Trie[root] : Children[p] \subseteq Trie[root]
      /\ \A n \in Trie[root] \ {root} : \E p \in Trie[root] : n \in Children[p]
  BY <1>1, TrieNodesLemma
<1>5. /\ \A p \in Trie[base] : Children[p] \subseteq Trie[base]
      /\ \A S : base \in S /\ (\A p \in S \cap Nodes : Children[p] \subseteq S) => Trie[base] \subseteq S
  BY <1>1, TrieNodesLemma
<1>6. Trie[base] \subseteq can
  <2>1. base \in can /\ \A p \in can \cap Nodes : Children[p] \subseteq can
    BY <1>2, <1>3 DEF Whole, Available
  <2> HIDE DEF can, base
  <2>2. QED
    BY <1>5, <2>1
<1> HIDE DEF root, base, new
<1>7. new \in SUBSET Nodes /\ \A n \in new : Children[n] \subseteq new \cup Dirty(db) \cup db.disk
  BY <1>1, <1>4, <1>6
<1>8. Fuller(db, d, g) /\ Dirty(d) = Dirty(db) \cup new
  BY <1>2, <1>7, InsertTrieLemma
<1> HIDE DEF d
<1>9. root \in Dirty(d) \cup d.disk
  BY <1>1, <1>4, <1>6, <1>8 DEF Fuller
<1>10. ASSUME NEW n \in Dirty(d) \ d.disk, n # root PROVE d.parents[n] > 0
  <2>1. /\ TrieTyped(d) /\ Ordered(d.flush, d.disk) /\ Exact(d, Unowed) /\ d.disk = db.disk
    BY <1>8 DEF Fuller, Sound
  <2>2. Dirty(d) \in SUBSET Nodes /\ IsFiniteSet(Dirty(d))
    BY <2>1, CompleteLemma
  <2>3. CASE n \in Dirty(db)
    <3>1. d.parents[n] >= db.parents[n] /\ db.parents[n] > 0
      BY <1>2, <1>8, <1>10, <2>1, <2>3 DEF Fuller, NoOrphan
    <3>2. d.parents[n] \in Nat /\ db.parents[n] \in Nat
      BY <1>2, <2>1, <2>2, <1>10 DEF TrieTyped
    <3>3. QED
      BY <3>1, <3>2
  <2>4. CASE n \notin Dirty(db)
    <3>1. n \in Trie[root] /\ n \notin Trie[base]
      BY <1>1, <1>8, <2>4
    <3>2. PICK p \in Trie[root] : n \in Children[p]
      BY <1>4, <1>10, <3>1
    <3>3. p \notin Trie[base]
      BY <1>5, <3>1, <3>2
    <3>4. p \in Referrers(d, n)
      BY <1>1, <1>8, <3>2, <3>3 DEF Referrers
    <3>5. IsFiniteSet(Referrers(d, n))
      BY <2>2, FS_Subset DEF Referrers
    <3> DEFINE k == Cardinality(Referrers(d, n))
    <3>6. k \in Nat /\ k # 0
      BY <3>4, <3>5, FS_CardinalityType, FS_EmptySet
    <3>7. d.parents[n] = k + d.meta[n] + Unowed[n] /\ Unowed[n] = 0 /\ d.meta[n] \in Nat
      BY <2>1, <2>2, <1>10 DEF Exact, TrieTyped, Unowed
    <3> HIDE DEF k
    <3>8. QED
      BY <3>6, <3>7
  <2>5. QED
    BY <2>3, <2>4
<1>11. QED
  BY <1>8, <1>9, <1>10 DEF d, root, new, Available

\* How many nodes a Cap may flush.
Capped(how) == how.cap \in Nat

\* The state of a block is committed, on that of its parent.
LEMMA CommitStateLemma ==
    ASSUME NEW e, DOMAIN e = ChainFields, Counted(e), NEW b \in Blocks, b \in e.bodies,
           Parent[b] \in Blocks, HasState(e, Root[Parent[b]]), NEW how, Capped(how)
    PROVE  /\ SameBlocks(CommitState(e, b, how), e) /\ Counted(CommitState(e, b, how))
           /\ Outlives(CommitState(e, b, how), e) /\ Lives(CommitState(e, b, how), b)
<1> DEFINE db == InsertTrie(e.trie, Fresh(b))
           filled == [e EXCEPT !.trie = InsertTrie(@, Fresh(b))]
           flat == [filled EXCEPT !.trie = Commit(@, Root[b])]
           held == [filled EXCEPT !.trie = Reference(@, Root[b]), !.gc[b] = @ + 1]
<1>1. CommitState(e, b, how) = IF how.archive THEN flat ELSE CollectGarbage(held, b, how.cap)
  BY DEF CommitState
<1>2. /\ Fuller(e.trie, db, e.gc) /\ Available(db, Root[b])
      /\ \A n \in Dirty(db) \ db.disk : db.parents[n] > 0 \/ n = Root[b]
  BY FillLemma DEF Counted, HasState
<1>3. SameBlocks(filled, e) /\ filled.trie = db /\ filled.gc = e.gc
  BY DEF SameBlocks, ChainFields
<1>4. Root[b] \in Nodes /\ Sound(db, e.gc) /\ db.disk = e.trie.disk /\ e.gc \in [Blocks -> Nat]
  BY <1>2, ChainAssumption DEF Fuller, Sound, Queues
<1> HIDE DEF db, filled
<1>5. SameBlocks(flat, e) /\ Counted(flat) /\ Outlives(flat, e) /\ Lives(flat, b)
  <2>1. /\ Cached(Commit(db, Root[b]), e.gc) /\ db.disk \subseteq Commit(db, Root[b]).disk
        /\ Root[b] \in Commit(db, Root[b]).disk
    BY <1>2, <1>4, CommitLemma
  <2>2. SameBlocks(flat, filled) /\ flat.trie = Commit(db, Root[b]) /\ flat.gc = e.gc
    BY <1>3 DEF SameBlocks, ChainFields
  <2> HIDE DEF flat
  <2>3. SameBlocks(flat, e)
    BY <1>3, <2>2 DEF SameBlocks
  <2>4. QED
    BY <1>4, <2>1, <2>2, <2>3 DEF SameBlocks, Counted, Outlives, Lives
<1>6. SameBlocks(held, e) /\ Counted(held) /\ Outlives(held, e) /\ Lives(held, b)
  <2>1. /\ Cached(Reference(db, Root[b]), [e.gc EXCEPT ![b] = @ + 1])
        /\ Reference(db, Root[b]).disk = db.disk
    BY <1>2, <1>4, ReferenceLemma
  <2>2. /\ SameBlocks(held, filled) /\ held.trie = Reference(db, Root[b])
        /\ held.gc = [e.gc EXCEPT ![b] = @ + 1]
    BY <1>3 DEF SameBlocks, ChainFields
  <2> HIDE DEF held
  <2>3. SameBlocks(held, e)
    BY <1>3, <2>2 DEF SameBlocks
  <2>4. held.gc[b] > 0 /\ \A x \in Blocks : e.gc[x] > 0 => held.gc[x] > 0
    BY <1>4, <2>2
  <2>5. QED
    BY <1>4, <2>1, <2>2, <2>3, <2>4 DEF SameBlocks, Counted, Outlives, Lives
<1> HIDE DEF flat, held
<1> DEFINE d == CollectGarbage(held, b, how.cap)
<1>7. SameBlocks(d, held) /\ Counted(d) /\ Outlives(d, held)
  <2>1. DOMAIN held = ChainFields /\ b \in held.bodies
    BY <1>6 DEF SameBlocks
  <2>2. QED
    BY <1>6, <2>1, CollectGarbageLemma DEF Capped
<1> HIDE DEF d
<1>8. SameBlocks(d, e) /\ Counted(d) /\ Outlives(d, e) /\ Lives(d, b)
  <2>1. SameBlocks(d, e)
    BY <1>6, <1>7 DEF SameBlocks
  <2>2. QED
    BY <1>6, <1>7, <2>1 DEF Outlives
<1>9. QED
  BY <1>1, <1>5, <1>8 DEF d

(***************************************************************************)
(* Imports: the blocks stay linked, the index is the head's, and the head  *)
(* is only replaced by a block that is preferred to it.                    *)
(***************************************************************************)

\* The stored blocks are linked and weighed.
Linked(e) ==
  /\ DOMAIN e.td \subseteq Blocks /\ e.td = [b \in DOMAIN e.td |-> Weight[b]]
  /\ \A b \in DOMAIN e.td \ {Genesis} : Parent[b] \in DOMAIN e.td
  /\ e.bodies \subseteq DOMAIN e.td /\ \A b \in e.bodies \ {Genesis} : Parent[b] \in e.bodies
  /\ Genesis \in e.bodies /\ e.head \in e.bodies
  /\ e.future \subseteq Blocks \ {Genesis} /\ e.fed \in Blocks

\* What every operation keeps of a chain.
Good(e) == Indexed(e) /\ Counted(e) /\ Linked(e) /\ Lives(e, e.head)

\* More weight is preferred, and a lower number for the same weight.
Improves(d, e) ==
  \/ Weight[e.head] > Weight[d.head]
  \/ Weight[e.head] = Weight[d.head] /\ Number[e.head] <= Number[d.head]

\* e is what an import may have made of d.
Grown(d, e) == Good(e) /\ Improves(d, e)

\* Nothing happened.
LEMMA GrownRefl == ASSUME NEW e, Good(e) PROVE Grown(e, e)
<1>1. Weight[e.head] \in Nat /\ Number[e.head] \in Nat
  BY WeightLemma, NumberLemma DEF Good, Indexed
<1>2. QED
  BY <1>1 DEF Grown, Improves

\* One import after another.
LEMMA GrownTrans ==
    ASSUME NEW u, Good(u), NEW v, NEW w, Grown(u, v), Grown(v, w)
    PROVE  Grown(u, w)
<1>1. ASSUME NEW e, Good(e) PROVE Weight[e.head] \in Nat /\ Number[e.head] \in Nat
  BY <1>1, WeightLemma, NumberLemma DEF Good, Indexed
<1>2. Good(v) /\ Good(w) /\ Improves(u, v) /\ Improves(v, w)
  BY DEF Grown
<1> DEFINE a == Weight[u.head]
           b == Weight[v.head]
           d == Weight[w.head]
           x == Number[u.head]
           y == Number[v.head]
           z == Number[w.head]
<1>3. {a, b, d, x, y, z} \subseteq Nat
  BY <1>1, <1>2
<1>4. (b > a \/ (b = a /\ y <= x)) /\ (d > b \/ (d = b /\ z <= y))
  BY <1>2 DEF Improves
<1> HIDE DEF a, b, d, x, y, z
<1>5. d > a \/ (d = a /\ z <= x)
  BY <1>3, <1>4
<1>6. QED
  BY <1>2, <1>5 DEF Grown, Improves, a, d, x, z

\* A block is written.
LEMMA WriteBlockLemma ==
    ASSUME NEW e, Good(e), NEW b \in Blocks \ {Genesis}, Parent[b] \in e.bodies
    PROVE  LET d == WriteBlock(e, b, Weight[b])
           IN  Good(d) /\ d.head = e.head /\ b \in d.bodies
<1> DEFINE t == [x \in DOMAIN e.td \cup {b} |-> IF x = b THEN Weight[b] ELSE e.td[x]]
           d == WriteBlock(e, b, Weight[b])
<1>1. /\ DOMAIN d = ChainFields
      /\ d.td = t /\ d.bodies = e.bodies \cup {b} /\ d.trie = e.trie /\ d.gc = e.gc
      /\ d.head = e.head /\ d.header = e.header /\ d.fast = e.fast
      /\ d.canon = e.canon /\ d.lookup = e.lookup /\ d.future = e.future /\ d.fed = e.fed
  BY DEF WriteBlock, WriteHeaderTd, ChainFields, Good, Indexed
<1> HIDE DEF d
<1>2. t = [x \in DOMAIN t |-> Weight[x]] /\ DOMAIN t = DOMAIN e.td \cup {b}
  BY DEF Good, Linked
<1> HIDE DEF t
<1>3. Linked(d)
  BY <1>1, <1>2 DEF Good, Linked
<1>4. Indexed(d) /\ Counted(d) /\ Lives(d, d.head)
  BY <1>1 DEF Good, Indexed, Counted, IndexType, Canonical, Lives
<1>5. QED
  BY <1>1, <1>3, <1>4 DEF Good, d

\* A block becomes the head, or does not.
LEMMA PlaceLemma ==
    ASSUME NEW e, Good(e), NEW b \in e.bodies \ {Genesis}, Lives(e, b), NEW coin
    PROVE  LET w == Place(e, b, coin)
           IN  /\ Grown(e, w.c) /\ w.canonical \in BOOLEAN
               /\ w.c.head = IF w.canonical THEN b ELSE e.head
               /\ w.c.fed = e.fed
<1> DEFINE up == Overtakes(e, b, coin)
           done == IF up THEN insertHead(WriteTxLookupEntries(Moved(e, b), b), b) ELSE e
           d == [done EXCEPT !.future = @ \ {b}]
<1>1. Place(e, b, coin) = [c |-> d, canonical |-> up]
  BY DEF Place, Moved
<1>2. up \in BOOLEAN
  BY DEF Overtakes
<1>3. b \in Blocks \ {Genesis} /\ e.head \in Blocks /\ DOMAIN e = ChainFields
  BY DEF Good, Linked, Indexed
<1>4. /\ DOMAIN done = ChainFields
      /\ Beside(done, e) /\ Indexed(done) /\ done.head = IF up THEN b ELSE e.head
  <2>1. Indexed(e)
    BY DEF Good
  <2>2. CASE up
    BY <1>3, <2>1, <2>2, MoveLemma DEF Beside
  <2>3. CASE ~up
    BY <1>3, <2>1, <2>3 DEF Beside
  <2>4. QED
    BY <2>2, <2>3
<1>5. up => \/ Weight[b] > Weight[e.head]
            \/ Weight[b] = Weight[e.head] /\ Number[b] <= Number[e.head]
  <2>1. e.td[b] = Weight[b] /\ e.td[e.head] = Weight[e.head]
    BY DEF Good, Linked
  <2>2. Number[b] \in Nat /\ Number[e.head] \in Nat
    BY <1>3, NumberLemma
  <2>3. QED
    BY <2>1, <2>2 DEF Overtakes
<1> HIDE DEF up, done
<1>6. /\ DOMAIN d = ChainFields
      /\ d.td = done.td /\ d.bodies = done.bodies /\ d.trie = done.trie /\ d.gc = done.gc
      /\ d.head = done.head /\ d.header = done.header /\ d.fast = done.fast
      /\ d.canon = done.canon /\ d.lookup = done.lookup /\ d.future = done.future \ {b}
      /\ d.fed = done.fed
  BY <1>4 DEF ChainFields
<1> HIDE DEF d
<1>7. Indexed(d)
  BY <1>4, <1>6 DEF Indexed, IndexType, Canonical
<1>8. Counted(d) /\ Linked(d)
  BY <1>4, <1>6 DEF Good, Counted, Linked, Beside
<1>9. Improves(e, d)
  <2>1. CASE up
    BY <1>4, <1>5, <1>6, <2>1 DEF Improves
  <2>2. CASE ~up
    <3>1. Number[e.head] \in Nat
      BY <1>3, NumberLemma
    <3>2. d.head = e.head
      BY <1>4, <1>6, <2>2
    <3>3. QED
      BY <3>1, <3>2 DEF Improves
  <2>3. QED
    BY <2>1, <2>2
<1>10. d.head = (IF up THEN b ELSE e.head) /\ d.fed = e.fed
  BY <1>4, <1>6 DEF Beside
<1>11. Lives(d, d.head)
  <2>1. d.trie = e.trie /\ d.gc = e.gc /\ d.bodies = e.bodies
    BY <1>4, <1>6 DEF Beside
  <2>2. Lives(e, d.head)
    BY <1>10 DEF Good
  <2>3. QED
    BY <2>1, <2>2 DEF Lives
<1>12. QED
  BY <1>1, <1>2, <1>7, <1>8, <1>9, <1>10, <1>11 DEF Grown, Good

\* writeBlockWithState, on a parent that is stored and has its state.
LEMMA WriteLemma ==
    ASSUME NEW e, Good(e), NEW b \in Blocks \ {Genesis}, Parent[b] \in e.bodies,
           HasState(e, Root[Parent[b]]), NEW how, Capped(how)
    PROVE  LET w == writeBlockWithState(e, b, how)
           IN  /\ Grown(e, w.c) /\ w.canonical \in BOOLEAN
               /\ w.c.head = IF w.canonical THEN b ELSE e.head
               /\ w.c.fed = e.fed
<1> DEFINE v == WriteBlock(e, b, Weight[b])
           s == CommitState(v, b, how)
           w == Place(s, b, how.coin)
<1>1. e.td[Parent[b]] + Difficulty[b] = Weight[b]
  <2>1. e.td[Parent[b]] = Weight[Parent[b]]
    BY DEF Good, Linked
  <2>2. QED
    BY <2>1, WeightLemma
<1>2. writeBlockWithState(e, b, how) = w
  BY <1>1 DEF writeBlockWithState
<1>3. Good(v) /\ v.head = e.head /\ b \in v.bodies /\ v.fed = e.fed /\ HasState(v, Root[Parent[b]])
  <2>1. Good(v) /\ v.head = e.head /\ b \in v.bodies
    BY WriteBlockLemma
  <2>2. v.fed = e.fed /\ v.trie = e.trie
    BY DEF WriteBlock, WriteHeaderTd, Good, Indexed, ChainFields
  <2>3. QED
    BY <2>1, <2>2 DEF HasState
<1> HIDE DEF v
<1>4. SameBlocks(s, v) /\ Counted(s) /\ Outlives(s, v) /\ Lives(s, b)
  <2>1. DOMAIN v = ChainFields /\ Counted(v) /\ Parent[b] \in Blocks
    BY <1>3 DEF Good, Indexed, Linked
  <2>2. QED
    BY <1>3, <2>1, CommitStateLemma
<1> HIDE DEF s
<1>5. Good(s) /\ s.head = e.head /\ b \in s.bodies /\ s.fed = e.fed
  <2>1. Indexed(s) /\ Linked(s) /\ s.head = v.head /\ s.bodies = v.bodies /\ s.fed = v.fed
    BY <1>3, <1>4 DEF Good, SameBlocks, Indexed, IndexType, Canonical, Linked
  <2>2. Lives(s, s.head)
    BY <1>3, <1>4, <2>1 DEF Good, Indexed, Outlives
  <2>3. QED
    BY <1>3, <1>4, <2>1, <2>2 DEF Good
<1>6. /\ Grown(s, w.c) /\ w.canonical \in BOOLEAN
      /\ w.c.head = IF w.canonical THEN b ELSE s.head
      /\ w.c.fed = s.fed
  BY <1>4, <1>5, PlaceLemma
<1> HIDE DEF w
<1>7. Grown(e, w.c)
  BY <1>5, <1>6 DEF Grown, Improves
<1>8. QED
  BY <1>2, <1>5, <1>6, <1>7

\* The verdicts that let a block be written.
LEMMA VerdictLemma ==
    ASSUME NEW c0, NEW e, NEW t, NEW batch, NEW j,
           Verdict(c0, e, t, batch, j) \in {"ok", "pruned"}
    PROVE  /\ ~(j > Len(batch)) /\ Parent[batch[j]] \in e.bodies
           /\ Verdict(c0, e, t, batch, j) = "ok" => HasState(e, Root[Parent[batch[j]]])
  BY DEF Verdict, HeaderVerdict, ValidateBody, HasBlockAndState, HasBlock

\* What an import may be given.
Imports(batch) == batch \in Seq(Blocks \ {Genesis})

\* One pass of the loop over the blocks that verify.
Pass(c0, how, batch, acc, j) ==
  LET v == Verdict(c0, acc.c, how.now, batch, j)
  IN IF acc.err # "ok" THEN acc
     ELSE IF v # "ok" THEN [acc EXCEPT !.err = v, !.at = j]
     ELSE IF batch[j] \in Bad THEN [acc EXCEPT !.err = "bad", !.at = j]
     ELSE Written(acc, batch[j], writeBlockWithState(acc.c, batch[j], how))
Passes == INSTANCE FoldTheorems WITH Op <- LAMBDA p, q, r, d, e : Pass(p, q, r, d, e)

\* The loop's state, when it began with the chain e.
Looped(e, batch, acc) ==
  /\ DOMAIN acc = {"c", "err", "at", "last"} /\ Grown(e, acc.c)
  /\ acc.err # "ok" => acc.at \in 1 .. Len(batch)

\* A pass keeps it.
LEMMA PassLemma ==
    ASSUME NEW c0, NEW e, Good(e), NEW how, Capped(how), NEW batch, Imports(batch), NEW acc,
           Looped(e, batch, acc), NEW j \in 1 .. Len(batch)
    PROVE  Looped(e, batch, Pass(c0, how, batch, acc, j))
<1> DEFINE v == Verdict(c0, acc.c, how.now, batch, j)
           b == batch[j]
           w == writeBlockWithState(acc.c, b, how)
           a1 == [acc EXCEPT !.err = v, !.at = j]
           a2 == [acc EXCEPT !.err = "bad", !.at = j]
           a3 == Written(acc, b, w)
           pass == Pass(c0, how, batch, acc, j)
<1>1. CASE acc.err # "ok"
  BY <1>1 DEF Pass
<1>2. CASE acc.err = "ok" /\ v # "ok"
  <2>1. pass = a1
    BY <1>2 DEF Pass
  <2> HIDE DEF v, pass
  <2>2. DOMAIN a1 = {"c", "err", "at", "last"} /\ a1.c = acc.c /\ a1.at = j
    BY DEF Looped
  <2> HIDE DEF a1
  <2>3. QED
    BY <2>1, <2>2 DEF Looped, pass
<1>3. CASE acc.err = "ok" /\ v = "ok" /\ b \in Bad
  <2>1. pass = a2
    BY <1>3 DEF Pass
  <2> HIDE DEF v, pass
  <2>2. DOMAIN a2 = {"c", "err", "at", "last"} /\ a2.c = acc.c /\ a2.at = j
    BY DEF Looped
  <2> HIDE DEF a2
  <2>3. QED
    BY <2>1, <2>2 DEF Looped, pass
<1>4. CASE acc.err = "ok" /\ v = "ok" /\ b \notin Bad
  <2>1. pass = a3
    BY <1>4 DEF Pass
  <2>2. Parent[b] \in acc.c.bodies /\ HasState(acc.c, Root[Parent[b]])
    BY <1>4, VerdictLemma
  <2>3. b \in Blocks \ {Genesis}
    BY DEF Imports
  <2>4. Good(acc.c)
    BY DEF Looped, Grown
  <2> HIDE DEF v, pass, b
  <2>5. Grown(acc.c, w.c)
    BY <2>2, <2>3, <2>4, WriteLemma
  <2> HIDE DEF w
  <2>6. Grown(e, w.c)
    BY <2>5, GrownTrans DEF Looped
  <2>7. DOMAIN a3 = {"c", "err", "at", "last"} /\ a3.c = w.c /\ a3.err = acc.err
    BY DEF Looped, Written
  <2> HIDE DEF a3
  <2>8. QED
    BY <1>4, <2>1, <2>6, <2>7 DEF Looped, pass
<1>5. QED
  BY <1>1, <1>2, <1>3, <1>4

\* The places of a batch from i on.
LEMMA PlacesLemma ==
    ASSUME NEW n \in Nat, NEW i \in 1 .. n + 1
    PROVE  LET s == [j \in 1..(n - i + 1) |-> i + j - 1]
           IN  /\ Len(s) = n - i + 1 /\ Len(s) \in Nat
               /\ \A j \in 1 .. Len(s) : s[j] = i + j - 1 /\ s[j] \in 1 .. n
  OBVIOUS

\* The loop over the blocks that verify.
LEMMA WriteLoopLemma ==
    ASSUME NEW c0, NEW e, Good(e), NEW how, Capped(how), NEW batch, Imports(batch),
           NEW i \in 1 .. Len(batch) + 1
    PROVE  Looped(e, batch, WriteLoop(c0, e, how, batch, i))
<1> DEFINE s == [j \in 1..(Len(batch) - i + 1) |-> i + j - 1]
           first == [c |-> e, err |-> "ok", at |-> Len(batch) + 1, last |-> NoBlock]
           N == Len(s)
<1>1. Len(batch) \in Nat
  BY DEF Imports
<1>2. N \in Nat /\ \A j \in 1 .. N : s[j] \in 1 .. Len(batch)
  <2> DEFINE n == Len(batch)
  <2>1. n \in Nat /\ i \in 1 .. n + 1
    BY <1>1
  <2> HIDE DEF n
  <2>2. QED
    BY <2>1, PlacesLemma DEF n
<1>3. WriteLoop(c0, e, how, batch, i) = Passes!Running(c0, how, batch, first, s, N)
  BY DEF WriteLoop, Fold, Passes!Running, Pass
<1>4. Looped(e, batch, first)
  BY GrownRefl DEF Looped
<1> HIDE DEF s, first, N
<1>5. PICK f : /\ Passes!Running(c0, how, batch, first, s, N) = f[N] /\ f[0] = first
               /\ \A j \in 1 .. N : f[j] = Pass(c0, how, batch, f[j - 1], s[j])
  BY <1>2, Passes!RunningSteps
<1> DEFINE S == {j \in 0 .. N : Looped(e, batch, f[j])}
<1>6. 0 \in S
  BY <1>2, <1>4, <1>5
<1>7. ASSUME NEW j \in 0 .. N - 1, j \in S PROVE j + 1 \in S
  <2>1. j + 1 \in 1 .. N /\ j + 1 \in 0 .. N /\ (j + 1) - 1 = j
    BY <1>2
  <2>2. f[j + 1] = Pass(c0, how, batch, f[j], s[j + 1]) /\ s[j + 1] \in 1 .. Len(batch)
    BY <1>2, <1>5, <2>1
  <2>3. QED
    BY <1>7, <2>1, <2>2, PassLemma
<1> HIDE DEF S
<1>8. N \in S
  BY <1>2, <1>6, <1>7, Passes!Reaches
<1>9. QED
  BY <1>3, <1>5, <1>8 DEF S

\* The result of an import into the chain e.
Outcome(e, r) == DOMAIN r = {"c", "err", "panic"} /\ Grown(e, r.c)

\* A chain that has grown is an outcome.
LEMMA ResultLemma ==
    ASSUME NEW e, NEW d, Grown(e, d), NEW err
    PROVE  Outcome(e, Result(d, err))
  BY DEF Outcome, Result

\* Blocks are queued.
LEMMA QueueFutureLemma ==
    ASSUME NEW c0, NEW e, NEW d, Grown(e, d), NEW how, NEW batch, Imports(batch),
           NEW i \in 1 .. Len(batch)
    PROVE  Outcome(e, QueueFuture(c0, d, how, batch, i))
<1> DEFINE orphan(j) == Verdict(c0, d, how.now, batch, j) = "unknown"
           run == {j \in i..Len(batch) : \A m \in (i + 1)..j : orphan(m)}
           far == {j \in run : Time[batch[j]] > how.now + MaxTimeFuture}
           stop == IF far = {} THEN Max(run) + 1 ELSE Min(far)
           queued == {batch[j] : j \in i..(stop - 1)}
           d1 == [d EXCEPT !.future = @ \cup queued]
           err == IF far # {} THEN "far" ELSE Verdict(c0, d, how.now, batch, stop)
<1>1. QueueFuture(c0, d, how, batch, i) = Result(d1, err)
  BY DEF QueueFuture
<1>2. Len(batch) \in Nat /\ \A j \in 1 .. Len(batch) : batch[j] \in Blocks \ {Genesis}
  BY DEF Imports
<1>3. stop - 1 \in 0 .. Len(batch)
  <2> DEFINE n == Len(batch)
  <2>1. n \in Nat /\ i \in 1 .. n
    BY <1>2
  <2>2. i \in run
    <3> HIDE DEF orphan
    <3>1. (i + 1) .. i = {}
      BY <2>1
    <3>2. i \in i .. Len(batch)
      BY <1>2
    <3>3. QED
      BY <3>1, <3>2
  <2>3. run \in SUBSET (i .. n) /\ far \in SUBSET run
    OBVIOUS
  <2> HIDE DEF run, far, n
  <2>4. run \in SUBSET (0 .. n) /\ far \in SUBSET (0 .. n)
    BY <2>1, <2>3
  <2>5. Max(run) \in run
    BY <2>1, <2>2, <2>4, RangeLemma
  <2>6. far # {} => Min(far) \in far
    BY <2>1, <2>4, RangeLemma
  <2> DEFINE hi == Max(run)
             lo == Min(far)
  <2>7. hi \in i .. n /\ (far # {} => lo \in i .. n)
    BY <2>3, <2>5, <2>6
  <2> HIDE DEF hi, lo
  <2>8. (IF far = {} THEN hi + 1 ELSE lo) - 1 \in 0 .. n
    BY <2>1, <2>7
  <2>9. QED
    BY <2>8 DEF hi, lo, n
<1> HIDE DEF stop, far
<1>4. queued \subseteq Blocks \ {Genesis}
  <2>1. \A j \in i .. (stop - 1) : j \in 1 .. Len(batch)
    BY <1>2, <1>3
  <2>2. QED
    BY <1>2, <2>1
<1> HIDE DEF queued, err
<1>5. /\ DOMAIN d1 = ChainFields
      /\ d1.td = d.td /\ d1.bodies = d.bodies /\ d1.trie = d.trie /\ d1.gc = d.gc
      /\ d1.head = d.head /\ d1.header = d.header /\ d1.fast = d.fast
      /\ d1.canon = d.canon /\ d1.lookup = d.lookup /\ d1.future = d.future \cup queued
      /\ d1.fed = d.fed
  BY DEF Grown, Good, Indexed, ChainFields
<1> HIDE DEF d1
<1>6. Grown(e, d1)
  BY <1>4, <1>5 DEF Grown, Good, Indexed, IndexType, Canonical, Linked, Counted, Lives, Improves
<1>7. QED
  BY <1>1, <1>6, ResultLemma

\* A new head is announced.
LEMMA HeadEventLemma ==
    ASSUME NEW e, NEW r, Outcome(e, r), NEW last, NEW batch
    PROVE  Outcome(e, HeadEvent(r, last, batch))
<1> DEFINE d == [r EXCEPT !.c.fed = last]
<1>1. CASE r.err # "far" /\ last = r.c.head
  <2>1. HeadEvent(r, last, batch) = d
    BY <1>1 DEF HeadEvent
  <2>2. DOMAIN d = {"c", "err", "panic"} /\ d.c = [r.c EXCEPT !.fed = last]
    BY DEF Outcome
  <2> HIDE DEF d
  <2>3. /\ DOMAIN d.c = ChainFields
        /\ d.c.td = r.c.td /\ d.c.bodies = r.c.bodies /\ d.c.trie = r.c.trie /\ d.c.gc = r.c.gc
        /\ d.c.head = r.c.head /\ d.c.header = r.c.header /\ d.c.fast = r.c.fast
        /\ d.c.canon = r.c.canon /\ d.c.lookup = r.c.lookup /\ d.c.future = r.c.future
        /\ d.c.fed = last
    BY <2>2 DEF Outcome, Grown, Good, Indexed, ChainFields
  <2> DEFINE dc == d.c
             rc == r.c
  <2> HIDE DEF dc, rc
  <2>4. Grown(e, dc)
    <3>1. Grown(e, rc) /\ last = rc.head
      BY <1>1 DEF Outcome, rc
    <3>2. QED
      BY <2>3, <3>1 DEF Grown, Good, Indexed, IndexType, Canonical, Linked, Counted, Lives, Improves,
                        dc, rc
  <2>5. QED
    BY <2>1, <2>2, <2>4 DEF Outcome, dc
<1>2. CASE ~(r.err # "far" /\ last = r.c.head)
  BY <1>2 DEF HeadEvent
<1>3. QED
  BY <1>1, <1>2

\* The blocks that verify are written.
LEMMA WriteBlocksLemma ==
    ASSUME NEW c0, NEW e, Good(e), NEW how, Capped(how), NEW batch, Imports(batch),
           NEW i \in 1 .. Len(batch) + 1
    PROVE  Outcome(e, WriteBlocks(c0, e, how, batch, i))
<1> DEFINE loop == WriteLoop(c0, e, how, batch, i)
           q == QueueFuture(c0, loop.c, how, batch, loop.at)
           r == Result(loop.c, IF loop.err = "ok" THEN "end" ELSE loop.err)
           x == IF loop.err = "future" THEN q ELSE r
<1>1. Looped(e, batch, loop)
  BY WriteLoopLemma
<1>2. WriteBlocks(c0, e, how, batch, i) =
        IF loop.err = "bad" THEN Result(loop.c, "bad") ELSE HeadEvent(x, loop.last, batch)
  BY DEF WriteBlocks, EndImport
<1> HIDE DEF loop
<1>3. Grown(e, loop.c)
  BY <1>1 DEF Looped
<1>4. Outcome(e, r) /\ Outcome(e, Result(loop.c, "bad"))
  BY <1>3, ResultLemma
<1>5. loop.err = "future" => Outcome(e, q)
  <2>1. loop.err = "future" => loop.at \in 1 .. Len(batch)
    BY <1>1 DEF Looped
  <2>2. QED
    BY <1>3, <2>1, QueueFutureLemma
<1> HIDE DEF q, r
<1>6. Outcome(e, x)
  BY <1>4, <1>5
<1> HIDE DEF x
<1>7. Outcome(e, HeadEvent(x, loop.last, batch))
  BY <1>6, HeadEventLemma
<1>8. QED
  BY <1>2, <1>4, <1>7

\* The blocks of the head's path are stored.
LEMMA PathStored ==
    ASSUME NEW e, Good(e)
    PROVE  \A i \in 1 .. Len(Path[e.head]) : Path[e.head][i] \in e.bodies
<1> DEFINE s == Path[e.head]
           N == Len(s) - 1
           S == {k \in 0 .. N : s[Len(s) - k] \in e.bodies}
<1>1. /\ s \in Seq(Blocks) /\ Len(s) \in Nat \ {0} /\ s[Len(s)] = e.head
      /\ \A i \in 1 .. Len(s) - 1 : s[i + 1] # Genesis /\ Parent[s[i + 1]] = s[i]
  BY PathLemma DEF Traced, Good, Indexed
<1>2. e.head \in e.bodies /\ \A b \in e.bodies \ {Genesis} : Parent[b] \in e.bodies
  BY DEF Good, Linked
<1> HIDE DEF s
<1>3. N \in Nat
  BY <1>1
<1>4. 0 \in S
  BY <1>1, <1>2, Len(s) - 0 = Len(s)
<1>5. ASSUME NEW k \in 0 .. N - 1, k \in S PROVE k + 1 \in S
  <2>1. Len(s) - (k + 1) \in 1 .. Len(s) - 1 /\ (Len(s) - (k + 1)) + 1 = Len(s) - k /\ k + 1 \in 0 .. N
    BY <1>1
  <2>2. s[Len(s) - k] # Genesis /\ Parent[s[Len(s) - k]] = s[Len(s) - (k + 1)]
    BY <1>1, <2>1
  <2>3. QED
    BY <1>2, <1>5, <2>1, <2>2
<1>6. ASSUME NEW n \in 0 .. N PROVE n \in S
  <2>1. \A k \in 0 .. n - 1 : k \in 0 .. N - 1
    BY <1>3
  <2> HIDE DEF S, N
  <2>2. QED
    BY <1>4, <1>5, <2>1, Passes!Reaches
<1>7. \A i \in 1 .. Len(s) : Len(s) - i \in 0 .. N /\ Len(s) - (Len(s) - i) = i
  BY <1>1
<1>8. \A i \in 1 .. Len(s) : s[i] \in e.bodies
  BY <1>6, <1>7
<1>9. QED
  BY <1>8 DEF s

\* A block that is not on the canonical chain.
Beneath(e, b) == ~(Number[b] <= Number[e.head] /\ e.canon[Number[b]] = b)

\* A child of such a block is no canonical one either.
LEMMA BeneathLemma ==
    ASSUME NEW e, Good(e), NEW b \in Blocks \ {Genesis}, Beneath(e, Parent[b])
    PROVE  Beneath(e, b)
<1> SUFFICES ASSUME Number[b] <= Number[e.head], e.canon[Number[b]] = b
             PROVE  FALSE
  BY DEF Beneath
<1> DEFINE s == Path[e.head]
           n == Number[b]
           N == Number[e.head]
<1>1. /\ n \in Nat /\ N \in Nat /\ n = Number[Parent[b]] + 1 /\ Number[Parent[b]] \in Nat
      /\ Len(s) = N + 1
  <2>1. Parent[b] \in Blocks /\ e.head \in Blocks
    BY PathDef DEF Good, Indexed
  <2>2. QED
    BY <2>1, NumberLemma
<1>2. /\ \A i \in 0 .. N : e.canon[i] = s[i + 1]
      /\ \A i \in 1 .. Len(s) - 1 : Parent[s[i + 1]] = s[i]
  BY PathLemma DEF Good, Indexed, Canonical, Traced
<1> HIDE DEF s
<1>3. n \in 0 .. N /\ n - 1 \in 0 .. N /\ n \in 1 .. Len(s) - 1 /\ (n - 1) + 1 = n
  BY <1>1
<1>4. e.canon[n - 1] = Parent[b]
  BY <1>2, <1>3
<1>5. n - 1 = Number[Parent[b]] /\ n - 1 <= N
  BY <1>1
<1>6. QED
  BY <1>4, <1>5 DEF Beneath

\* One pass of the loop over the blocks whose parent's state is pruned.
SidePass(e, how, batch, acc, j) ==
  LET b == batch[j]
      x == CanonicalAt(e, Number[b])
      canonical == IF Number[b] <= Number[e.head] /\ x # NoBlock
                      /\ HasBlock(e, x) THEN x ELSE NoBlock
      v == Verdict(e, acc.c, how.now, batch, j)
      td == SideTd(acc.c, acc.td, b)
  IN IF acc.err # "pruned" THEN acc
     ELSE IF v # "pruned" THEN [acc EXCEPT !.err = v, !.at = j]
     ELSE IF canonical = b THEN acc
     ELSE IF canonical # NoBlock /\ Root[canonical] = Root[b]
          THEN [acc EXCEPT !.err = "ghost"]
     ELSE [acc EXCEPT !.td = td,
             !.c = IF HasBlock(@, b) THEN @ ELSE WriteBlock(@, b, td)]
SidePasses == INSTANCE FoldTheorems WITH
  Op <- LAMBDA p, q, r, d, e : SidePass(p, q, r, d, e)

\* The loop's state after the block at k: the head stays, and externTd is nil or the
\* weight of that block.
Sided(e, batch, k, acc) ==
  /\ DOMAIN acc = {"c", "err", "td", "at"} /\ Good(acc.c) /\ acc.c.head = e.head
  /\ acc.err = "pruned" =>
       /\ acc.at = Len(batch) + 1
       /\ acc.td # 0 => k >= 1 /\ acc.td = Weight[batch[k]] /\ Beneath(e, batch[k])
  /\ acc.td # 0 => acc.at \in 2 .. Len(batch) + 1

\* A pass leads from one place to the next.
LEMMA SidePassLemma ==
    ASSUME NEW e, Good(e), NEW how, NEW batch, Imports(batch), Contiguous(batch),
           NEW j \in 1 .. Len(batch), NEW acc, Sided(e, batch, j - 1, acc)
    PROVE  Sided(e, batch, j, SidePass(e, how, batch, acc, j))
<1> DEFINE b == batch[j]
           x == CanonicalAt(e, Number[b])
           canonical == IF Number[b] <= Number[e.head] /\ x # NoBlock
                           /\ HasBlock(e, x) THEN x ELSE NoBlock
           v == Verdict(e, acc.c, how.now, batch, j)
           td == SideTd(acc.c, acc.td, b)
           w == IF HasBlock(acc.c, b) THEN acc.c ELSE WriteBlock(acc.c, b, td)
           a1 == [acc EXCEPT !.err = v, !.at = j]
           a2 == [acc EXCEPT !.err = "ghost"]
           a3 == [acc EXCEPT !.td = td, !.c = w]
           pass == SidePass(e, how, batch, acc, j)
<1>0. /\ Len(batch) \in Nat /\ b \in Blocks \ {Genesis} /\ b # NoBlock
      /\ j - 1 >= 1 => Parent[b] = batch[j - 1]
  <2>1. batch \in Seq(Blocks \ {Genesis})
    BY DEF Imports
  <2>2. b \in Blocks \ {Genesis} /\ Len(batch) \in Nat
    BY <2>1
  <2>3. j - 1 >= 1 => j \in 2 .. Len(batch)
    OBVIOUS
  <2>4. QED
    BY <2>2, <2>3, ChainAssumption DEF Contiguous
<1>1. canonical = b <=> ~Beneath(e, b)
  <2>1. x = e.canon[Number[b]] /\ Number[b] \in Nat /\ Number[e.head] \in Nat
    BY <1>0, NumberLemma DEF CanonicalAt, Good, Indexed
  <2>2. ~Beneath(e, b) => HasBlock(e, b)
    <3> SUFFICES ASSUME Number[b] <= Number[e.head], e.canon[Number[b]] = b
                 PROVE  b \in e.bodies
      BY DEF Beneath, HasBlock
    <3>1. e.canon[Number[b]] = Path[e.head][Number[b] + 1]
      BY <2>1 DEF Good, Indexed, Canonical
    <3>2. Number[b] + 1 \in 1 .. Len(Path[e.head])
      <4>1. Len(Path[e.head]) = Number[e.head] + 1
        BY NumberLemma DEF Good, Indexed
      <4>2. QED
        BY <2>1, <4>1
    <3>3. QED
      BY <3>1, <3>2, PathStored
  <2> HIDE DEF b, x
  <2>3. QED
    BY <1>0, <2>1, <2>2 DEF Beneath
<1> HIDE DEF b, x, canonical, v
<1>2. CASE acc.err # "pruned"
  <2>1. pass = acc
    BY <1>2 DEF SidePass
  <2> HIDE DEF pass
  <2>2. QED
    BY <1>2, <2>1 DEF Sided, pass
<1>3. CASE acc.err = "pruned" /\ v # "pruned"
  <2>1. pass = a1
    BY <1>3 DEF SidePass, v
  <2> HIDE DEF pass
  <2>2. DOMAIN a1 = DOMAIN acc /\ a1.c = acc.c /\ a1.err = v /\ a1.td = acc.td /\ a1.at = j
    BY DEF Sided
  <2> HIDE DEF a1
  <2>3. acc.td # 0 => j - 1 >= 1
    BY <1>3 DEF Sided
  <2>4. acc.td # 0 => j \in 2 .. Len(batch) + 1
    BY <1>0, <2>3
  <2>5. QED
    BY <1>3, <2>1, <2>2, <2>4 DEF Sided, pass
<1>4. CASE acc.err = "pruned" /\ v = "pruned" /\ canonical = b
  <2>1. pass = acc
    BY <1>4 DEF SidePass, v, b, x, canonical
  <2>2. acc.td = 0
    <3> SUFFICES ASSUME acc.td # 0 PROVE FALSE
      OBVIOUS
    <3>1. j - 1 >= 1 /\ Beneath(e, batch[j - 1])
      BY <1>4 DEF Sided
    <3>2. Beneath(e, b)
      BY <1>0, <3>1, BeneathLemma
    <3>3. QED
      BY <1>1, <1>4, <3>2
  <2> HIDE DEF pass
  <2>3. QED
    BY <2>1, <2>2 DEF Sided, pass
<1>5. CASE acc.err = "pruned" /\ v = "pruned" /\ canonical # b
           /\ canonical # NoBlock /\ Root[canonical] = Root[b]
  <2>1. pass = a2
    BY <1>5 DEF SidePass, v, b, x, canonical
  <2> HIDE DEF pass
  <2>2. DOMAIN a2 = DOMAIN acc /\ a2.c = acc.c /\ a2.err = "ghost" /\ a2.td = acc.td /\ a2.at = acc.at
    BY DEF Sided
  <2> HIDE DEF a2
  <2>3. QED
    BY <2>1, <2>2 DEF Sided, pass
<1>6. CASE acc.err = "pruned" /\ v = "pruned" /\ canonical # b
           /\ ~(canonical # NoBlock /\ Root[canonical] = Root[b])
  <2>1. pass = a3
    BY <1>6 DEF SidePass, v, b, x, canonical, w
  <2>2. Parent[b] \in acc.c.bodies
    BY <1>6, VerdictLemma DEF v, b
  <2>3. td = Weight[b]
    <3>1. acc.c.td[Parent[b]] = Weight[Parent[b]]
      BY <2>2 DEF Sided, Good, Linked
    <3>2. acc.td # 0 => acc.td = Weight[Parent[b]]
      BY <1>0, <1>6 DEF Sided
    <3>3. td = Difficulty[b] + Weight[Parent[b]]
      BY <3>1, <3>2 DEF SideTd
    <3>4. Parent[b] \in Blocks
      BY <1>0, PathDef
    <3>5. Weight[b] = Weight[Parent[b]] + Difficulty[b] /\ Weight[Parent[b]] \in Nat /\ Difficulty[b] \in Nat
      BY <1>0, <3>4, WeightLemma, ChainAssumption
    <3> HIDE DEF td
    <3>6. QED
      BY <3>3, <3>5
  <2> HIDE DEF td, pass
  <2>4. Good(w) /\ w.head = e.head
    <3>1. Good(acc.c) /\ acc.c.head = e.head
      BY DEF Sided
    <3>2. QED
      BY <1>0, <2>2, <2>3, <3>1, WriteBlockLemma
  <2> HIDE DEF w
  <2>5. DOMAIN a3 = DOMAIN acc /\ a3.c = w /\ a3.err = "pruned" /\ a3.td = td /\ a3.at = acc.at
    BY <1>6 DEF Sided
  <2> HIDE DEF a3
  <2>6. acc.at = Len(batch) + 1 /\ acc.at \in 2 .. Len(batch) + 1
    BY <1>0, <1>6 DEF Sided
  <2>7. j >= 1 /\ Beneath(e, b)
    BY <1>1, <1>6
  <2>8. QED
    BY <2>1, <2>3, <2>4, <2>5, <2>6, <2>7 DEF Sided, pass, b
<1>7. QED
  BY <1>2, <1>3, <1>4, <1>5, <1>6

\* The loop over the blocks whose parent's state is pruned.
LEMMA StoreSideLemma ==
    ASSUME NEW e, Good(e), NEW how, NEW batch, Imports(batch), Contiguous(batch),
           NEW i \in 1 .. Len(batch) + 1
    PROVE  Sided(e, batch, Len(batch), StoreSide(e, e, how, batch, i))
<1> DEFINE s == [j \in 1..(Len(batch) - i + 1) |-> i + j - 1]
           first == [c |-> e, err |-> "pruned", td |-> 0, at |-> Len(batch) + 1]
           N == Len(s)
           n == Len(batch)
<1>1. n \in Nat
  BY DEF Imports
<1>2. N \in Nat /\ N = n - i + 1 /\ \A j \in 1 .. N : s[j] = i + j - 1 /\ s[j] \in 1 .. n
  <2>1. n \in Nat /\ i \in 1 .. n + 1
    BY <1>1
  <2> HIDE DEF n
  <2>2. QED
    BY <2>1, PlacesLemma DEF n
<1>3. StoreSide(e, e, how, batch, i) = SidePasses!Running(e, how, batch, first, s, N)
  BY DEF StoreSide, Fold, SidePasses!Running, SidePass
<1>4. Sided(e, batch, i - 1, first)
  BY DEF Sided
<1> HIDE DEF s, first, N
<1> DEFINE stored == StoreSide(e, e, how, batch, i)
<1> HIDE DEF stored
<1>5. PICK f : /\ stored = f[N] /\ f[0] = first
               /\ \A j \in 1 .. N : f[j] = SidePass(e, how, batch, f[j - 1], s[j])
  <2>1. N \in Nat
    BY <1>2
  <2>2. stored = SidePasses!Running(e, how, batch, first, s, N)
    BY <1>3 DEF stored
  <2>3. QED
    BY <2>1, <2>2, SidePasses!RunningSteps
<1> DEFINE S == {j \in 0 .. N : Sided(e, batch, i + j - 1, f[j])}
<1>6. 0 \in S
  <2>1. 0 \in 0 .. N /\ i + 0 - 1 = i - 1
    BY <1>2
  <2>2. QED
    BY <1>4, <1>5, <2>1
<1>7. ASSUME NEW j \in 0 .. N - 1, j \in S PROVE j + 1 \in S
  <2>1. /\ j + 1 \in 1 .. N /\ j + 1 \in 0 .. N /\ (j + 1) - 1 = j
        /\ i + (j + 1) - 1 = i + j /\ (i + j) - 1 = i + j - 1
    BY <1>2
  <2>2. f[j + 1] = SidePass(e, how, batch, f[j], i + j) /\ i + j \in 1 .. Len(batch)
    BY <1>2, <1>5, <2>1
  <2>3. Sided(e, batch, (i + j) - 1, f[j])
    BY <1>7, <2>1
  <2>4. Sided(e, batch, i + j, f[j + 1])
    BY <2>2, <2>3, SidePassLemma
  <2>5. QED
    BY <2>1, <2>4
<1> HIDE DEF S
<1>8. N \in S
  BY <1>2, <1>6, <1>7, SidePasses!Reaches
<1>9. i + N - 1 = Len(batch)
  BY <1>1, <1>2
<1>10. QED
  BY <1>5, <1>8, <1>9 DEF S, stored

\* The blocks of a path that are imported again.
LEMMA StatelessLemma ==
    ASSUME NEW e, Good(e), NEW b \in Blocks
    PROVE  Imports(Stateless(e, Path[b]))
<1> DEFINE s == Path[b]
           T == {j \in DOMAIN s : HasState(e, Root[s[j]])}
           from == Max(T)
<1>1. /\ s \in Seq(Blocks) /\ Len(s) \in Nat \ {0} /\ s[1] = Genesis
      /\ \A i \in 1 .. Len(s) - 1 : s[i + 1] # Genesis
  BY PathLemma DEF Traced
<1>2. Stateless(e, s) = SubSeq(s, from + 1, Len(s))
  BY DEF Stateless
<1>3. HasState(e, Root[Genesis])
  BY DEF HasState, Available, Good, Counted, Cached, Sound
<1> HIDE DEF s
<1>4. DOMAIN s = 1 .. Len(s)
  BY <1>1
<1>5. 1 \in T
  BY <1>1, <1>3, <1>4
<1>6. T \in SUBSET (0 .. Len(s))
  BY <1>1, <1>4
<1>7. from \in T
  <2> HIDE DEF T
  <2>1. QED
    BY <1>1, <1>5, <1>6, RangeLemma
<1>8. from \in 1 .. Len(s)
  BY <1>4, <1>7
<1> HIDE DEF from
<1> DEFINE u == SubSeq(s, from + 1, Len(s))
<1>9. u \in Seq(Blocks) /\ Len(u) = Len(s) - from /\ \A k \in 1 .. Len(u) : u[k] = s[from + k]
  BY <1>1, <1>8
<1>10. \A k \in 1 .. Len(u) : u[k] \in Blocks \ {Genesis}
  <2> SUFFICES ASSUME NEW k \in 1 .. Len(u) PROVE u[k] \in Blocks \ {Genesis}
    OBVIOUS
  <2> DEFINE i == from + k - 1
  <2>1. i \in 1 .. Len(s) - 1 /\ i + 1 = from + k /\ from + k \in 1 .. Len(s)
    BY <1>1, <1>8, <1>9
  <2>2. u[k] = s[i + 1] /\ s[from + k] \in Blocks
    BY <1>1, <1>9, <2>1
  <2>3. QED
    BY <1>1, <2>1, <2>2
<1> HIDE DEF u
<1>11. u \in Seq(Blocks \ {Genesis})
  BY <1>9, <1>10
<1>12. QED
  BY <1>2, <1>11 DEF Imports, s, u

\* The branch is imported again, or not.
LEMMA SidechainLemma ==
    ASSUME NEW e, Good(e), NEW how, Capped(how), NEW batch, Imports(batch), Contiguous(batch),
           NEW i \in 1 .. Len(batch) + 1
    PROVE  Outcome(e, insertSidechain(e, e, how, batch, i))
<1> DEFINE side == StoreSide(e, e, how, batch, i)
           td == e.td[e.head]
           err == IF side.err \in {"pruned", "ok"} THEN "end" ELSE side.err
           nil == [Result(side.c, err) EXCEPT !.panic = TRUE]
           b == batch[side.at - 1]
           again == Stateless(side.c, Path[b])
           r == Reimport(side.c, how, again)
<1>1. insertSidechain(e, e, how, batch, i) \in
        {Result(side.c, "ghost"), Result(side.c, err)}
          \cup {y \in {nil} : side.td = 0} \cup {y \in {r} : side.td # 0}
  BY DEF insertSidechain, EndSide
<1>2. Sided(e, batch, Len(batch), side)
  BY StoreSideLemma
<1> HIDE DEF side
<1>3. Good(side.c) /\ Grown(e, side.c)
  <2>1. Good(side.c) /\ side.c.head = e.head
    BY <1>2 DEF Sided
  <2>2. Grown(e, e)
    BY GrownRefl
  <2>3. QED
    BY <2>1, <2>2 DEF Grown, Improves
<1> HIDE DEF err
<1>4. Outcome(e, Result(side.c, "ghost")) /\ Outcome(e, Result(side.c, err))
  BY <1>3, ResultLemma
<1>5. Outcome(e, nil)
  BY <1>3 DEF Outcome, Result
<1>6. side.td # 0 => Outcome(e, r)
  <2> SUFFICES ASSUME side.td # 0 PROVE Outcome(e, r)
    OBVIOUS
  <2>1. batch \in Seq(Blocks \ {Genesis}) /\ side.at \in 2 .. Len(batch) + 1
    BY <1>2 DEF Sided, Imports
  <2>2. side.at - 1 \in 1 .. Len(batch)
    BY <2>1
  <2>3. b \in Blocks
    BY <2>1, <2>2
  <2> HIDE DEF b
  <2>4. Imports(again)
    BY <1>3, <2>3, StatelessLemma
  <2> HIDE DEF again
  <2>5. 1 \in 1 .. Len(again) + 1
    BY <2>4 DEF Imports
  <2> DEFINE x == WriteBlocks(side.c, side.c, how, again, 1)
  <2>6. Outcome(side.c, x)
    BY <1>3, <2>4, <2>5, WriteBlocksLemma
  <2>7. r = IF again = << >> THEN Result(side.c, "end") ELSE x
    BY DEF Reimport
  <2> HIDE DEF x
  <2>8. Outcome(e, x)
    BY <1>3, <2>6, GrownTrans DEF Outcome
  <2>9. Outcome(e, Result(side.c, "end"))
    BY <1>3, ResultLemma
  <2> HIDE DEF r
  <2>10. QED
    BY <2>7, <2>8, <2>9
<1> HIDE DEF nil, r
<1>7. QED
  BY <1>1, <1>4, <1>5, <1>6

\* InsertChain.
LEMMA InsertChainLemma ==
    ASSUME NEW e, Good(e), NEW how, Capped(how), NEW batch, Imports(batch), Contiguous(batch)
    PROVE  Outcome(e, InsertChain(e, how, batch))
<1> DEFINE known(j) == /\ Verdict(e, e, how.now, batch, j) = "known"
                       /\ Number[batch[j]] <= Number[e.head]
           T == {j \in 1..(Len(batch) + 1) : j = Len(batch) + 1 \/ ~known(j)}
           i == Min(T)
           v == Verdict(e, e, how.now, batch, i)
<1>1. Len(batch) \in Nat
  BY DEF Imports
<1>2. i \in 1 .. Len(batch) + 1
  <2>1. Len(batch) + 1 \in T /\ T \in SUBSET (0 .. Len(batch) + 1) /\ Len(batch) + 1 \in Nat
    BY <1>1
  <2> HIDE DEF known
  <2>2. T \subseteq 1 .. Len(batch) + 1
    OBVIOUS
  <2> HIDE DEF T
  <2>3. i \in T
    BY <2>1, RangeLemma
  <2>4. QED
    BY <2>2, <2>3
<1>3. InsertChain(e, how, batch) = IF how.stopped THEN Result(e, "end")
                                   ELSE ImportFrom(e, how, batch, i, v)
  BY DEF InsertChain
<1>4. v # "end" => i \in 1 .. Len(batch)
  <2>1. v # "end" => ~(i > Len(batch))
    BY DEF Verdict
  <2> HIDE DEF v, i
  <2>2. QED
    BY <1>1, <1>2, <2>1
<1> HIDE DEF v, i
<1>5. Grown(e, e)
  BY GrownRefl
<1>6. Outcome(e, Result(e, "end")) /\ Outcome(e, Result(e, v))
  BY <1>5, ResultLemma
<1>7. Outcome(e, insertSidechain(e, e, how, batch, i))
  BY <1>2, SidechainLemma
<1>8. Outcome(e, WriteBlocks(e, e, how, batch, i))
  BY <1>2, WriteBlocksLemma
<1>9. v # "end" => Outcome(e, QueueFuture(e, e, how, batch, i))
  BY <1>4, <1>5, QueueFutureLemma
<1>10. Outcome(e, ImportFrom(e, how, batch, i, v))
  BY <1>6, <1>7, <1>8, <1>9 DEF ImportFrom
<1>11. QED
  BY <1>3, <1>6, <1>10

\* InsertChain again, as one step of the runner's loop over the queue.
Ripen(how, r, b) == IF r.panic THEN r ELSE Following(r, InsertChain(r.c, how, <<b>>))
Ripens == INSTANCE FoldTheorems WITH Op <- LAMBDA p, q, r, d, e : Ripen(p, d, e)

\* The queued block that the runner's loop comes to last.
Highest(T) == CHOOSE x \in T : \A y \in T : Number[x] >= Number[y]

\* A queue that is not empty has such a block.
LEMMA HighestLemma ==
    ASSUME NEW T \in SUBSET Blocks, T # {}
    PROVE  Highest(T) \in T
<1> DEFINE K == {Number[x] : x \in T}
<1>1. \A x \in T : Number[x] \in 0 .. MaxNumber
  BY NumberLemma
<1>2. K \in SUBSET (0 .. MaxNumber) /\ K # {} /\ MaxNumber \in Nat
  BY <1>1, NumberLemma
<1>3. Max(K) \in K /\ \A k \in K : k <= Max(K)
  <2> HIDE DEF K
  <2>1. QED
    BY <1>2, RangeLemma
<1>4. PICK x \in T : Number[x] = Max(K)
  BY <1>3
<1>5. \A y \in T : Number[y] \in K
  OBVIOUS
<1>6. \A y \in T : Number[x] >= Number[y]
  <2> HIDE DEF K
  <2>1. QED
    BY <1>1, <1>3, <1>4, <1>5
<1>7. \E z \in T : \A y \in T : Number[z] >= Number[y]
  BY <1>6
<1>8. QED
  BY <1>7 DEF Highest

\* One queued block is a batch.
LEMMA SingleLemma ==
    ASSUME NEW b \in Blocks \ {Genesis}
    PROVE  Imports(<<b>>) /\ Contiguous(<<b>>)
<1>1. <<b>> \in Seq(Blocks \ {Genesis}) /\ Len(<<b>>) = 1
  OBVIOUS
<1>2. 2 .. 1 = {} /\ 1 .. 0 = {}
  OBVIOUS
<1>3. QED
  BY <1>1, <1>2 DEF Imports, Contiguous

\* The runner's loop over the queue.
LEMMA FutureImportLemma ==
    ASSUME Good(c), NEW how, Capped(how)
    PROVE  Outcome(c, FutureImport(how))
<1> DEFINE U == c.future
           base == Result(c, "end")
           ch == [T \in SUBSET U |-> Highest(T)]
           Fix(f) == f = [T \in SUBSET U |-> IF T = {} THEN base
                            ELSE Ripen(how, f[T \ {Highest(T)}], Highest(T))]
           h == CHOOSE f : Fix(f)
<1>1. U \in SUBSET (Blocks \ {Genesis}) /\ IsFiniteSet(U)
  BY ChainAssumption, FS_Subset DEF Good, Linked
<1>2. FutureImport(how) = h[U]
  BY DEF FutureImport, MapThenFoldSet, Ripen, Highest
<1>3. Outcome(c, base)
  BY GrownRefl, ResultLemma
<1>4. \A T \in SUBSET U : ch[T] = Highest(T) /\ (T # {} => Highest(T) \in T)
  BY <1>1, HighestLemma
<1> HIDE DEF U, base, ch
<1>5. Ripens!Chooses(ch, U)
  BY <1>4 DEF Ripens!Chooses
<1>6. PICK f : Ripens!Picks(how, 0, 0, f, base, U, ch)
  BY <1>1, <1>5, Ripens!PicksExist DEF IsFiniteSet, Ripens!IsFiniteSet
<1>7. Fix(f)
  BY <1>4, <1>6 DEF Ripens!Picks
<1>8. Fix(h)
  <2> HIDE DEF Fix
  <2>1. QED
    BY <1>7
<1> HIDE DEF h
<1>9. \A T \in SUBSET U : h[T] = IF T = {} THEN base
                                 ELSE Ripen(how, h[T \ {ch[T]}], ch[T])
  BY <1>4, <1>8
<1> HIDE DEF Fix
<1> DEFINE S == {T \in SUBSET U : Outcome(c, h[T])}
<1>10. {} \in S
  BY <1>3, <1>9
<1>11. ASSUME NEW T \in SUBSET U, T # {}, T \ {ch[T]} \in S PROVE T \in S
  <2> DEFINE r == h[T \ {ch[T]}]
             b == ch[T]
  <2>1. Outcome(c, r) /\ h[T] = Ripen(how, r, b)
    BY <1>9, <1>11
  <2>2. b \in Blocks \ {Genesis}
    BY <1>1, <1>4, <1>11
  <2> HIDE DEF r, b
  <2>3. Good(r.c) /\ Grown(c, r.c)
    BY <2>1 DEF Outcome, Grown
  <2> DEFINE x == InsertChain(r.c, how, <<b>>)
  <2>4. Outcome(r.c, x)
    BY <2>2, <2>3, SingleLemma, InsertChainLemma
  <2>5. Ripen(how, r, b) = IF r.panic THEN r ELSE Following(r, x)
    BY DEF Ripen
  <2> HIDE DEF x
  <2>6. Outcome(c, x)
    BY <2>3, <2>4, GrownTrans DEF Outcome
  <2>7. Following(r, x).c = x.c /\ DOMAIN Following(r, x) = DOMAIN x
    BY <2>6 DEF Following, Outcome
  <2>8. Outcome(c, Following(r, x))
    BY <2>6, <2>7 DEF Outcome
  <2>9. Outcome(c, h[T])
    BY <2>1, <2>5, <2>8
  <2>10. QED
    BY <2>9
<1> HIDE DEF S
<1>12. U \in S
  BY <1>1, <1>5, <1>10, <1>11, Ripens!SubsetsReached DEF IsFiniteSet, Ripens!IsFiniteSet
<1>13. QED
  BY <1>2, <1>12 DEF S

(***************************************************************************)
(* The steps of the chain.                                                 *)
(***************************************************************************)

\* What a peer may send is a batch of that kind.
LEMMA BatchesLemma ==
    ASSUME NEW batch \in Batches
    PROVE  Imports(batch) /\ Contiguous(batch)
<1>1. PICK b \in Blocks, k \in 2..(MaxNumber + 1) : batch = SubSeq(Path[b], k, Len(Path[b]))
  BY DEF Batches
<1> DEFINE s == Path[b]
<1>2. /\ s \in Seq(Blocks) /\ Len(s) \in Nat
      /\ \A i \in 1 .. Len(s) : s[i] \in Blocks
      /\ \A i \in 1 .. Len(s) - 1 : s[i + 1] # Genesis /\ Parent[s[i + 1]] = s[i]
  BY PathLemma DEF Traced
<1>3. k \in Nat /\ k >= 2
  BY NumberLemma
<1>4. batch # << >>
  BY DEF Batches
<1> HIDE DEF s
<1>5. k <= Len(s)
  BY <1>1, <1>2, <1>3, <1>4 DEF s
<1>6. batch \in Seq(Blocks) /\ Len(batch) = Len(s) - k + 1
      /\ \A i \in 1 .. Len(batch) : batch[i] = s[k + i - 1]
  <2>1. batch = SubSeq(s, k, Len(s))
    BY <1>1 DEF s
  <2>2. QED
    BY <1>2, <1>3, <1>5, <2>1
<1>7. \A i \in 1 .. Len(batch) : batch[i] \in Blocks \ {Genesis}
  <2> SUFFICES ASSUME NEW i \in 1 .. Len(batch) PROVE batch[i] \in Blocks \ {Genesis}
    OBVIOUS
  <2> DEFINE m == k + i - 2
  <2>1. m \in 1 .. Len(s) - 1 /\ m + 1 = k + i - 1 /\ m + 1 \in 1 .. Len(s)
    BY <1>2, <1>3, <1>5, <1>6
  <2>2. batch[i] = s[m + 1]
    BY <1>6, <2>1
  <2> HIDE DEF m
  <2>3. QED
    BY <1>2, <2>1, <2>2
<1>8. \A i \in 2 .. Len(batch) : Parent[batch[i]] = batch[i - 1]
  <2> SUFFICES ASSUME NEW i \in 2 .. Len(batch) PROVE Parent[batch[i]] = batch[i - 1]
    OBVIOUS
  <2> DEFINE m == k + i - 2
  <2>1. /\ m \in 1 .. Len(s) - 1 /\ m + 1 = k + i - 1 /\ m = k + (i - 1) - 1
        /\ i \in 1 .. Len(batch) /\ i - 1 \in 1 .. Len(batch)
    BY <1>2, <1>3, <1>5, <1>6
  <2>2. batch[i] = s[m + 1] /\ batch[i - 1] = s[m]
    BY <1>6, <2>1
  <2> HIDE DEF m
  <2>3. QED
    BY <1>2, <2>1, <2>2
<1>9. batch \in Seq(Blocks \ {Genesis})
  BY <1>6, <1>7
<1>10. QED
  BY <1>8, <1>9 DEF Imports, Contiguous

\* The outcomes of chance.
LEMMA CappedLemma == \A how \in Outcomes : Capped(how)
  BY DEF Outcomes, Capped

\* An outcome takes effect.
LEMMA ApplyLemma ==
    ASSUME NEW r, Outcome(c, r), Apply(r)
    PROVE  Grown(c, c')
  BY DEF Outcome, Apply

\* A block the node sealed is written and announced.
LEMMA WriteSealedLemma ==
    ASSUME Good(c), NEW b \in Blocks, WriteSealed(b)
    PROVE  Grown(c, c')
<1>1. PICK how \in Outcomes :
        LET w == writeBlockWithState(c, b, how)
        IN  Apply(Result(IF w.canonical THEN [w.c EXCEPT !.fed = b] ELSE w.c, "end"))
  BY DEF WriteSealed
<1> DEFINE w == writeBlockWithState(c, b, how)
           v == w.c
           d == [v EXCEPT !.fed = b]
           r == Result(IF w.canonical THEN d ELSE v, "end")
<1>2. Apply(r)
  BY <1>1
<1>3. /\ b \in Blocks \ {Genesis} /\ Parent[b] \in c.bodies /\ HasState(c, Root[Parent[b]])
      /\ Capped(how)
  BY CappedLemma DEF WriteSealed, HasBlock, HasBlockAndState, Good, Linked
<1>4. Grown(c, v)
  BY <1>3, WriteLemma
<1> HIDE DEF v
<1>5. /\ DOMAIN d = ChainFields
      /\ d.td = v.td /\ d.bodies = v.bodies /\ d.trie = v.trie /\ d.gc = v.gc
      /\ d.head = v.head /\ d.header = v.header /\ d.fast = v.fast
      /\ d.canon = v.canon /\ d.lookup = v.lookup /\ d.future = v.future
      /\ d.fed = b
  BY <1>4 DEF Grown, Good, Indexed, ChainFields
<1> HIDE DEF d
<1>6. Grown(c, d)
  BY <1>4, <1>5 DEF Grown, Good, Indexed, IndexType, Canonical, Linked, Counted, Lives, Improves
<1>7. Outcome(c, r)
  <2>1. Outcome(c, Result(d, "end")) /\ Outcome(c, Result(v, "end"))
    BY <1>4, <1>6, ResultLemma
  <2>2. QED
    BY <2>1
<1> HIDE DEF r
<1>8. QED
  BY <1>2, <1>7, ApplyLemma

\* A step keeps the chain good, and its head gives way to a preferred one only.
LEMMA StepLemma ==
    ASSUME Good(c), [Next]_vars
    PROVE  Grown(c, c')
<1>1. ASSUME NEW batch \in Batches, Import(batch) PROVE Grown(c, c')
  <2>1. PICK how \in Outcomes : Apply(InsertChain(c, how, batch))
    BY <1>1 DEF Import
  <2>2. Outcome(c, InsertChain(c, how, batch))
    BY CappedLemma, BatchesLemma, InsertChainLemma
  <2>3. QED
    BY <2>1, <2>2, ApplyLemma
<1>2. ASSUME ProcFutureBlocks PROVE Grown(c, c')
  <2>1. PICK how \in Outcomes : Apply(FutureImport(how))
    BY <1>2 DEF ProcFutureBlocks
  <2>2. Outcome(c, FutureImport(how))
    BY CappedLemma, FutureImportLemma
  <2>3. QED
    BY <2>1, <2>2, ApplyLemma
<1>3. CASE Tick \/ Stop \/ Start \/ UNCHANGED vars
  <2>1. c' = c
    BY <1>3 DEF Tick, Stop, Start, vars
  <2>2. QED
    BY <2>1, GrownRefl
<1>4. QED
  BY <1>1, <1>2, <1>3, WriteSealedLemma DEF Next

\* The chain of the genesis block.
LEMMA NewChainLemma == Good(NewChain) /\ NewChain.head = Genesis
<1> DEFINE d == NewChain
<1>0. Genesis \in Blocks /\ Root[Genesis] \in Nodes /\ Content[Genesis] = {} /\ Parent[Genesis] = NoBlock
  BY ChainAssumption, ContentAssumption
<1>1. /\ DOMAIN d = ChainFields
      /\ d.td = [b \in {Genesis} |-> Difficulty[Genesis]] /\ d.bodies = {Genesis}
      /\ d.canon = [n \in 0..MaxNumber |-> IF n = 0 THEN Genesis ELSE NoBlock]
      /\ d.trie = NewDatabase(Trie[Root[Genesis]]) /\ d.lookup = [t \in Txs |-> NoBlock]
      /\ d.head = Genesis /\ d.header = Genesis /\ d.fast = Genesis
      /\ d.future = {} /\ d.gc = [b \in Blocks |-> 0] /\ d.fed = Genesis
  BY DEF NewChain, genesisStore, ChainFields
<1> HIDE DEF d
<1>2. Counted(d) /\ Lives(d, d.head)
  <2> DEFINE db == d.trie
             zero == [b \in Blocks |-> 0]
  <2>1. /\ DOMAIN db = TrieFields /\ db.disk = Trie[Root[Genesis]] /\ db.flush = << >>
        /\ db.parents = [n \in Nodes |-> 0] /\ db.meta = [n \in Nodes |-> 0]
    BY <1>1 DEF NewDatabase, TrieFields
  <2> HIDE DEF db
  <2>2. /\ db.disk \in SUBSET Nodes /\ Root[Genesis] \in db.disk /\ Whole(db.disk)
    BY <1>0, <2>1, TrieNodesLemma DEF Whole
  <2>3. Dirty(db) = {} /\ Ordered(db.flush, db.disk) /\ db.flush \in Seq(Nodes)
    BY <2>1, 1 .. 0 = {} DEF Dirty, ToSet, Ordered
  <2>4. TrieTyped(db)
    BY <2>1, <2>2, <2>3 DEF TrieTyped
  <2>5. \A r \in Nodes : Queued(zero, r) = {}
    BY 1 .. 0 = {} DEF Queued
  <2>6. Queues(zero)
    BY <2>5, FS_EmptySet DEF Queues
  <2>7. Metas(db, zero)
    BY <2>1, <2>5, FS_EmptySet DEF Metas
  <2>8. Exact(db, Unowed) /\ NoOrphan(db)
    BY <2>3 DEF Exact, NoOrphan
  <2> HIDE DEF zero
  <2>9. Cached(db, zero)
    BY <2>2, <2>3, <2>4, <2>6, <2>7, <2>8 DEF Cached, Sound
  <2>10. QED
    BY <1>1, <2>2, <2>9 DEF Counted, Lives, db, zero
<1>3. Linked(d)
  BY <1>0, <1>1, WeightLemma DEF Linked
<1>4. Canonical(d)
  <2>1. Path[Genesis] = <<Genesis>>
    BY <1>0, PathDef
  <2>2. \A n \in 0 .. Number[d.head] : d.canon[n] = Path[d.head][n + 1]
    BY <1>1, <2>1, NumberLemma
  <2>3. \A t \in Txs : Holder(Path[Genesis], t) = NoBlock
    <3>1. \A i \in 1 .. Len(Path[Genesis]) : Content[Path[Genesis][i]] = {}
      BY <1>0, <2>1
    <3>2. QED
      BY <1>0, <3>1, HolderLemma
  <2>4. d.lookup = [t \in Txs |-> Holder(Path[Genesis], t)]
    BY <1>1, <2>3
  <2>5. QED
    BY <1>1, <2>2, <2>4 DEF Canonical
<1>5. Indexed(d)
  BY <1>0, <1>1, <1>4 DEF Indexed, IndexType
<1>6. QED
  BY <1>1, <1>2, <1>3, <1>5 DEF Good, d

(***************************************************************************)
(* The theorems.                                                           *)
(***************************************************************************)

\* The inductive invariant holds from the start.
LEMMA InitGood == Init => Good(c)
  BY NewChainLemma DEF Init

\* The inductive invariant of the block chain: the index and the lookups follow
\* the head's path, the stored blocks are linked and weighed, the trie cache
\* counts exactly what the collector's queue and the cached nodes refer to, and
\* the head's state is on disk or in the queue unless a longer chain took it.
THEOREM ChainInvariance == Spec => []Good(c)
<1>1. Good(c) /\ [Next]_vars => Good(c)'
  BY StepLemma DEF Grown
<1>2. QED
  BY <1>1, InitGood, PTL DEF Spec

\* Every stored block has its parent stored, with the weight of its path, whether
\* it was written with its state, without it, or sealed.
THEOREM StoreStaysLinked == Spec => []StoreLinked
<1>1. Good(c) => StoreLinked
  BY DEF Good, Linked, StoreLinked
<1>2. QED
  BY <1>1, ChainInvariance, PTL

\* The state of the head can be opened, or was given up to a longer chain.
LEMMA HeadStateLemma == ASSUME Good(c) PROVE HeadStateKept
<1> DEFINE x == c.head
           db == c.trie
           n == Root[x]
           have == Dirty(db) \cup db.disk
<1>1. x \in Blocks /\ n \in Nodes /\ Sound(db, c.gc) /\ Lives(c, x)
  BY ChainAssumption DEF Good, Indexed, Counted, Cached
<1>2. /\ TrieTyped(db) /\ Ordered(db.flush, db.disk) /\ Whole(db.disk)
      /\ Metas(db, c.gc) /\ Queues(c.gc)
  BY <1>1 DEF Sound
<1>3. ASSUME c.gc[x] > 0, n \notin db.disk PROVE n \in Dirty(db)
  <2> DEFINE q == Queued(c.gc, n)
  <2>1. IsFiniteSet(q) /\ c.gc \in [Blocks -> Nat]
    BY <1>1, <1>2 DEF Queues
  <2>2. <<x, 1>> \in q
    BY <1>1, <1>3, <2>1 DEF Queued
  <2> HIDE DEF q
  <2>3. Cardinality(q) # 0
    BY <2>1, <2>2, FS_EmptySet
  <2>4. db.meta[n] = Cardinality(q) /\ (n \notin Dirty(db) => db.meta[n] = 0)
    BY <1>1, <1>2, <1>3 DEF Metas, q
  <2>5. QED
    BY <2>3, <2>4
<1>4. ASSUME n \in have PROVE Trie[n] \subseteq have
  <2>1. \A p \in have : Children[p] \subseteq have
    <3>1. \A p \in Dirty(db) : Children[p] \subseteq have
      BY <1>2, CompleteLemma
    <3>2. \A p \in db.disk : Children[p] \subseteq have
      BY <1>2 DEF Whole
    <3>3. QED
      BY <3>1, <3>2
  <2> HIDE DEF have, n
  <2>2. QED
    BY <1>1, <1>4, <2>1, TrieNodesLemma
<1>5. n \in have \/ \E y \in c.bodies : Number[y] >= Number[x] + TriesInMemory
  BY <1>1, <1>3 DEF Lives
<1>6. QED
  BY <1>4, <1>5 DEF HeadStateKept, Available

\* A cached node that is not on disk is reached from a referenced root: something
\* refers to it, and what does is not on disk either.
LEMMA ReachedLemma ==
    ASSUME NEW db, NEW g, Cached(db, g)
    PROVE  Dirty(db) \ Reachable(db) \subseteq db.disk
<1> DEFINE N == Len(TopDown)
           p == Dirty(db)
           first == {n \in p : db.meta[n] > 0}
           C == [n \in Nodes |-> Children[n] \cap p]
<1>1. N \in Nat
  BY NodesLemma
<1>2. Reachable(db) = Sees!Running(p, 0, 0, first, TopDown, N)
  BY DEF Reachable, Fold, Sees!Running, See
<1>3. /\ p \in SUBSET Nodes /\ IsFiniteSet(p) /\ first \in SUBSET Nodes
      /\ db.meta \in [Nodes -> Nat] /\ Whole(db.disk) /\ Exact(db, Unowed) /\ NoOrphan(db)
  BY CompleteLemma DEF Cached, Sound, TrieTyped
<1>4. /\ Shows(C) /\ \A n \in Nodes : C[n] = Children[n] \cap p
      /\ \A n \in p : db.meta[n] > 0 => n \in first
  BY TrieAssumption DEF Shows
<1> HIDE DEF N, p, first, C
<1>5. PICK f : /\ Sees!Running(p, 0, 0, first, TopDown, N) = f[N] /\ f[0] = first
               /\ \A i \in 1 .. N : f[i] = See(p, f[i - 1], TopDown[i])
  BY <1>1, <1>2, Sees!RunningSteps
<1>6. Spread(f, first, C)
  <2>1. \A i \in 1 .. N : TopDown[i] \in Nodes
    BY NodesLemma DEF N
  <2>2. QED
    BY <1>4, <1>5, <2>1 DEF Spread, See, N
<1> DEFINE out == f[N]
<1>7. first \subseteq out /\ \A n \in out : C[n] \subseteq out
  BY <1>3, <1>4, <1>6, SpreadLemma DEF Least, N
<1> HIDE DEF out
<1> DEFINE S == {n \in Nodes : n \in p \ db.disk => n \in out}
<1>8. ASSUME NEW n \in Nodes, \A m \in Nodes : n \in Children[m] => m \in S PROVE n \in S
  <2> SUFFICES ASSUME n \in p, n \notin db.disk PROVE n \in out
    OBVIOUS
  <2> DEFINE R == Referrers(db, n)
  <2>1. R \in SUBSET p /\ \A m \in R : n \in Children[m]
    BY DEF Referrers, p
  <2>2. db.parents[n] = Cardinality(R) + db.meta[n] + 0 /\ db.parents[n] > 0
    BY <1>3 DEF Exact, NoOrphan, Unowed, p
  <2>3. IsFiniteSet(R) /\ db.meta[n] \in Nat
    BY <1>3, <2>1, FS_Subset
  <2> HIDE DEF R
  <2>4. CASE R = {}
    <3>1. Cardinality(R) = 0
      BY <2>4, FS_EmptySet
    <3>2. db.meta[n] > 0
      BY <2>2, <2>3, <3>1
    <3>3. QED
      BY <1>4, <1>7, <3>2
  <2>5. CASE R # {}
    <3>1. PICK m \in R : TRUE
      BY <2>5
    <3>2. m \in p /\ m \in Nodes /\ n \in Children[m]
      BY <1>3, <2>1
    <3>3. m \notin db.disk
      BY <1>3, <3>2 DEF Whole
    <3>4. m \in out
      BY <1>8, <3>2, <3>3
    <3>5. QED
      BY <1>4, <1>7, <3>2, <3>4
  <2>6. QED
    BY <2>4, <2>5
<1> HIDE DEF S
<1>9. Nodes \subseteq S
  BY <1>8, DownInduction
<1>10. QED
  BY <1>2, <1>3, <1>5, <1>9 DEF S, out, p

\* No state is lost or leaked: the head's can be opened unless a longer chain took
\* it, a node that can be read has its children, what is on disk is complete by
\* itself, and what is only in the cache will be collected.
THEOREM StatesStaySound == Spec => []StatesSound
<1>1. ASSUME Good(c) PROVE StatesSound
  <2>1. Cached(c.trie, c.gc) /\ TrieTyped(c.trie) /\ Whole(c.trie.disk)
        /\ Ordered(c.trie.flush, c.trie.disk)
    BY <1>1 DEF Good, Counted, Cached, Sound
  <2>2. HeadStateKept
    BY <1>1, HeadStateLemma
  <2>3. TriesComplete
    <3>1. \A n \in Dirty(c.trie) : Children[n] \subseteq Dirty(c.trie) \cup c.trie.disk
      BY <2>1, CompleteLemma
    <3>2. QED
      BY <2>1, <3>1 DEF TriesComplete, Available, Whole
  <2>4. DiskClosed
    BY <2>1 DEF DiskClosed, Whole
  <2>5. NoLeak
    BY <2>1, ReachedLemma DEF NoLeak
  <2>6. QED
    BY <2>2, <2>3, <2>4, <2>5 DEF StatesSound
<1>2. QED
  BY <1>1, ChainInvariance, PTL

\* What the readers are shown: the path of the head.
LEMMA ShownLemma ==
    ASSUME NEW e, Good(e)
    PROVE  [i \in 1..(Number[e.head] + 1) |-> e.canon[i - 1]] = Path[e.head]
<1> DEFINE s == Path[e.head]
           n == Number[e.head]
<1>1. s \in Seq(Blocks) /\ Len(s) = n + 1 /\ n \in Nat
  BY PathDef, NumberLemma DEF Good, Indexed
<1>2. \A k \in 0 .. n : e.canon[k] = s[k + 1]
  BY DEF Good, Indexed, Canonical
<1> HIDE DEF s, n
<1>3. s = [i \in 1 .. n + 1 |-> s[i]]
  BY <1>1
<1>4. \A i \in 1 .. n + 1 : i - 1 \in 0 .. n /\ (i - 1) + 1 = i
  BY <1>1
<1>5. \A i \in 1 .. n + 1 : e.canon[i - 1] = s[i]
  BY <1>2, <1>4
<1>6. QED
  BY <1>3, <1>5 DEF s, n

\* The abstract chain begins with the genesis block.
LEMMA InitShown == Init => Abstract!Init
<1> SUFFICES ASSUME Init PROVE Abstract!Init
  OBVIOUS
<1>1. Good(c) /\ c.head = Genesis /\ c = NewChain
  BY NewChainLemma DEF Init
<1>2. [i \in 1..(Number[c.head] + 1) |-> c.canon[i - 1]] = <<Genesis>>
  <2>1. Path[Genesis] = <<Genesis>>
    BY ChainAssumption, PathDef
  <2>2. QED
    BY <1>1, <2>1, ShownLemma
<1>3. c.lookup = [t \in Txs |-> NoBlock]
  BY <1>1 DEF NewChain, genesisStore
<1>4. QED
  BY <1>2, <1>3 DEF Abstract!Init

\* A chain that has grown has been replaced by a preferred one, or by itself.
LEMMA AdoptLemma ==
    ASSUME Good(c), Grown(c, c')
    PROVE  \E b \in Blocks : Abstract!Adopt(b)
<1> PICK b \in Blocks : b = c'.head
  BY DEF Grown, Good, Indexed
<1> DEFINE a == c.head
           old == [i \in 1..(Number[c.head] + 1) |-> c.canon[i - 1]]
           new == [i \in 1..(Number[c'.head] + 1) |-> c'.canon[i - 1]]
<1>1. old = Path[a] /\ new = Path[b]
  BY ShownLemma DEF Grown
<1>2. /\ a \in Blocks
      /\ c'.lookup = [t \in Txs |-> Holder(Path[b], t)]
  BY DEF Grown, Good, Indexed, Canonical
<1>3. \A x \in Blocks : Last(Path[x]) = x /\ Len(Path[x]) = Number[x] + 1 /\ Number[x] \in Nat
  BY PathLemma, NumberLemma DEF Traced, Last
<1>4. Improves(c, c')
  BY DEF Grown
<1>5. Abstract!Preferred(Path[b], old)
  <2>1. \/ Weight[b] > Weight[a]
        \/ Weight[b] = Weight[a] /\ Len(Path[b]) <= Len(Path[a])
    BY <1>2, <1>3, <1>4 DEF Improves
  <2>2. /\ Path[b][Len(Path[b])] = b /\ old[Len(old)] = a
        /\ Len(old) = Len(Path[a])
    BY <1>1, <1>2, <1>3 DEF Last
  <2> HIDE DEF old
  <2>3. QED
    BY <2>1, <2>2 DEF Abstract!Preferred, Abstract!Last
<1>6. Abstract!Adopt(b)
  BY <1>1, <1>2, <1>5 DEF Abstract!Adopt, Holder
<1>7. QED
  BY <1>2, <1>6

\* The block chain implements CanonicalChain: every import, however it ends, leaves
\* the readers the path of one head with its lookups, and replaces it by that of
\* a head of more weight only, or of the same weight and no higher number.
THEOREM CanonicalChainImplemented == Spec => ImplementsCanonicalChain
<1>1. Init => Abstract!Init
  BY InitShown
<1>2. Good(c) /\ [Next]_vars => [Abstract!Next]_(Abstract!vars)
  BY StepLemma, AdoptLemma DEF Abstract!Next
<1>3. QED
  BY <1>1, <1>2, ChainInvariance, PTL DEF Spec, ImplementsCanonicalChain, Abstract!Spec
=============================================================================
