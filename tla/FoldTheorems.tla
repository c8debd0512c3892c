---------------------------- MODULE FoldTheorems ----------------------------
(***************************************************************************)
(* What the folds of the code's loops keep: over a list, over a set in     *)
(* whatever order, and along a chain.  The operator that is folded is a    *)
(* constant of this module, so the theorems are used through an INSTANCE   *)
(* with the operator of the model in its place.  Its first three arguments *)
(* are parameters that stay the same for the whole fold (the node, the     *)
(* block it sends), the last two what is folded so far and the member.     *)
(* LeftFold and SetFold are FoldLeft and FoldSet with their definitions    *)
(* expanded, so that an INSTANCE brings in no more than they need.         *)
(***************************************************************************)
EXTENDS Integers, Sequences, FiniteSetTheorems, TLAPS
CONSTANT Op(_, _, _, _, _)

(***************************************************************************)
(* Induction over the naturals for a set: the successor map on the members *)
(* below a missing n would be an injection of a finite set into itself     *)
(* that never takes the value 0.                                           *)
(***************************************************************************)
LEMMA SetInduction ==
    ASSUME NEW S, 0 \in S, \A n \in Nat : n \in S => n + 1 \in S
    PROVE  \A n \in Nat : n \in S
  <1> SUFFICES ASSUME NEW n \in Nat, n \notin S PROVE FALSE
    OBVIOUS
  <1> DEFINE U == {u \in 0 .. n : u \in S}
             f == [u \in U |-> u + 1]
  <1>1. IsFiniteSet(U)
    <2>1. IsFiniteSet(0 .. n)
      BY FS_Interval
    <2>2. QED
      BY <2>1, FS_Subset
  <1>2. f \in Injection(U, U)
    BY DEF Injection, IsInjective
  <1>3. f \in Surjection(U, U)
    BY <1>1, <1>2, FS_Injection
  <1>4. 0 \in U
    OBVIOUS
  <1>5. PICK u \in U : f[u] = 0
    <2> HIDE DEF U, f
    <2>1. QED
      BY <1>3, <1>4 DEF Surjection
  <1>6. QED
    BY <1>5

\* The last of a set of places of a list.
Max(S) == CHOOSE x \in S : \A y \in S : x >= y

\* A set of places of a list has a last one.
LEMMA MaxLemma ==
    ASSUME NEW n \in Nat, NEW T \in SUBSET (1 .. n), T # {}
    PROVE  Max(T) \in T /\ \A i \in T : i <= Max(T)
  <1> DEFINE P(k) == \A V \in SUBSET (1 .. k) : V # {} => \E m \in V : \A i \in V : i <= m
             S == {k \in Nat : P(k)}
  <1>1. 0 \in S
    BY 1 .. 0 = {}
  <1>2. ASSUME NEW k \in Nat, k \in S PROVE k + 1 \in S
    <2> SUFFICES ASSUME NEW V \in SUBSET (1 .. k + 1), V # {} PROVE \E m \in V : \A i \in V : i <= m
      OBVIOUS
    <2>1. CASE k + 1 \in V
      BY <2>1
    <2>2. CASE k + 1 \notin V
      <3>1. V \in SUBSET (1 .. k)
        BY <2>2
      <3>2. QED
        BY <1>2, <3>1
    <2>3. QED
      BY <2>1, <2>2
  <1> HIDE DEF S
  <1>3. n \in S
    BY <1>1, <1>2, SetInduction
  <1>4. \E m \in T : \A i \in T : m >= i
    BY <1>3 DEF S
  <1>5. QED
    BY <1>4 DEF Max

\* A loop over the list s, from the value b on.
LeftFold(p, q, r, b, s) ==
  LET iter[T \in SUBSET DOMAIN s] ==
        IF T = {} THEN b ELSE LET x == Max(T) IN Op(p, q, r, iter[T \ {x}], s[x])
  IN  iter[DOMAIN s]

\* The member that a loop over a set takes next.
Taken(T) == CHOOSE x \in T : TRUE

\* A loop over the set S, from the value b on.
SetFold(p, q, r, b, S) ==
  LET iter[T \in SUBSET S] ==
        IF T = {} THEN b ELSE LET x == Taken(T) IN Op(p, q, r, iter[T \ {x}], x)
  IN  iter[S]

(***************************************************************************)
(* What holds after k members of a list, D[k], holds at the end of a fold  *)
(* when every application leads from one to the next.  FoldLeft picks a    *)
(* function on the sets of places that satisfies its recursion; the first  *)
(* induction shows that there is one, the second what its values are.      *)
(***************************************************************************)
THEOREM LeftFoldSteps ==
    ASSUME NEW p, NEW q, NEW r, NEW D, NEW E, NEW b \in D[0], NEW s \in Seq(E),
           \A k \in 1 .. Len(s) : \A d \in D[k - 1] : Op(p, q, r, d, s[k]) \in D[k]
    PROVE  LeftFold(p, q, r, b, s) \in D[Len(s)]
  <1> DEFINE N       == Len(s)
             F(f, T) == IF T = {} THEN b ELSE Op(p, q, r, f[T \ {Max(T)}], s[Max(T)])
             Fix(f)  == f = [T \in SUBSET DOMAIN s |-> F(f, T)]
             h       == CHOOSE f : Fix(f)
  <1>1. N \in Nat /\ DOMAIN s = 1 .. N /\ \A i \in 1 .. N : s[i] \in E
    OBVIOUS
  <1>2. LeftFold(p, q, r, b, s) = h[DOMAIN s]
    BY DEF LeftFold
  <1>3. \A T \in SUBSET (1 .. N) : T # {} => Max(T) \in T /\ Max(T) \in 1 .. N /\ \A i \in T : i <= Max(T)
    BY <1>1, MaxLemma
  <1> HIDE DEF N, F
  <1>4. ASSUME NEW k \in Nat, k + 1 <= N, NEW T \in SUBSET (1 .. k + 1), T # {}
        PROVE  T \ {Max(T)} \in SUBSET (1 .. k) /\ Max(T) \in 1 .. N
    <2>1. T \in SUBSET (1 .. N)
      BY <1>1, <1>4
    <2>2. Max(T) \in T /\ \A i \in T : i <= Max(T)
      BY <1>3, <1>4, <2>1
    <2>3. \A i \in T : i \in 1 .. k + 1 /\ i <= Max(T) /\ (i # Max(T) => i \in 1 .. k)
      <3> SUFFICES ASSUME NEW i \in T PROVE i \in 1 .. k + 1 /\ i <= Max(T) /\ (i # Max(T) => i \in 1 .. k)
        OBVIOUS
      <3>1. i \in 1 .. k + 1 /\ Max(T) \in 1 .. k + 1 /\ i <= Max(T)
        BY <2>2
      <3> DEFINE m == Max(T)
      <3> HIDE DEF m
      <3>2. i \in 1 .. k + 1 /\ m \in 1 .. k + 1 /\ i <= m => (i # m => i \in 1 .. k)
        OBVIOUS
      <3>3. QED
        BY <3>1, <3>2 DEF m
    <2>4. T \ {Max(T)} \subseteq 1 .. k
      BY <2>3
    <2>5. Max(T) \in 1 .. N
      BY <1>3, <1>4, <2>1
    <2>6. QED
      BY <2>4, <2>5
  <1> DEFINE P(k, f) == \A T \in SUBSET (1 .. k) : f[T] = F(f, T)
             R(k) == \E f : f = [T \in SUBSET (1 .. N) |-> f[T]] /\ P(k, f)
             S == {k \in Nat : k <= N => R(k)}
  <1>5. 0 \in S
    <2> DEFINE f == [T \in SUBSET (1 .. N) |-> b]
    <2>1. f = [T \in SUBSET (1 .. N) |-> f[T]]
      OBVIOUS
    <2>2. P(0, f)
      BY <1>1, 1 .. 0 = {} DEF F
    <2> HIDE DEF f, P
    <2>3. QED
      BY <2>1, <2>2
  <1>6. ASSUME NEW k \in Nat, k \in S PROVE k + 1 \in S
    <2> SUFFICES ASSUME k + 1 <= N PROVE R(k + 1)
      <3> HIDE DEF R
      <3>1. QED
        OBVIOUS
    <2>0. R(k)
      <3> HIDE DEF R
      <3>1. QED
        BY <1>1, <1>6
    <2>1. PICK g : P(k, g)
      BY <2>0
    <2> DEFINE f == [T \in SUBSET (1 .. N) |-> IF T \subseteq 1 .. k THEN g[T] ELSE F(g, T)]
    <2>2. f = [T \in SUBSET (1 .. N) |-> f[T]]
      OBVIOUS
    <2>3. \A T \in SUBSET (1 .. N) : f[T] = IF T \subseteq 1 .. k THEN g[T] ELSE F(g, T)
      OBVIOUS
    <2> HIDE DEF f
    <2>4. ASSUME NEW T \in SUBSET (1 .. k + 1) PROVE f[T] = F(f, T)
      <3>1. T \in SUBSET (1 .. N)
        BY <1>1
      <3>2. f[T] = F(g, T)
        BY <2>1, <2>3, <3>1
      <3>3. CASE T = {}
        BY <3>2, <3>3 DEF F
      <3>4. CASE T # {}
        <4>1. T \ {Max(T)} \in SUBSET (1 .. k)
          BY <1>4, <3>4
        <4>4. T \ {Max(T)} \in SUBSET (1 .. N)
          BY <3>1
        <4>2. f[T \ {Max(T)}] = g[T \ {Max(T)}]
          BY <2>3, <4>1, <4>4
        <4>3. QED
          BY <3>2, <3>4, <4>2 DEF F
      <3>5. QED
        BY <3>3, <3>4
    <2>5. QED
      BY <2>2, <2>4
  <1>7. R(N)
    <2> HIDE DEF R
    <2>1. \A k \in Nat : k \in S
      <3> HIDE DEF S
      <3>1. QED
        BY <1>5, <1>6, SetInduction
    <2>2. QED
      BY <1>1, <2>1
  <1>8. \E f : Fix(f)
    <2>1. PICK f : f = [T \in SUBSET (1 .. N) |-> f[T]] /\ P(N, f)
      BY <1>7
    <2>2. f = [T \in SUBSET (1 .. N) |-> F(f, T)]
      BY <2>1
    <2>3. QED
      BY <1>1, <2>2
  <1>9. Fix(h)
    <2> HIDE DEF Fix
    <2>1. QED
      BY <1>8
  <1> HIDE DEF h
  <1>10. \A T \in SUBSET (1 .. N) : h[T] = F(h, T)
    BY <1>1, <1>9
  <1> DEFINE Q == {k \in Nat : k <= N => h[1 .. k] \in D[k]}
  <1>11. 0 \in Q
    BY <1>1, <1>10, 1 .. 0 = {} DEF F
  <1>12. ASSUME NEW k \in Nat, k \in Q PROVE k + 1 \in Q
    <2> SUFFICES ASSUME k + 1 <= N PROVE h[1 .. k + 1] \in D[k + 1]
      OBVIOUS
    <2> DEFINE T == 1 .. k + 1
    <2>1. T \in SUBSET (1 .. N) /\ k <= N /\ k + 1 \in 1 .. N /\ T # {} /\ (k + 1) - 1 = k
      BY <1>1
    <2>2. Max(T) = k + 1
      <3>1. Max(T) \in T /\ \A i \in T : i <= Max(T)
        BY <1>3, <2>1
      <3> DEFINE m == Max(T)
      <3> HIDE DEF m
      <3>2. m \in 1 .. k + 1 /\ k + 1 <= m
        BY <3>1 DEF m
      <3>3. m = k + 1
        BY <3>2
      <3>4. QED
        BY <3>3 DEF m
    <2>3. T \ {Max(T)} = 1 .. k
      BY <2>2
    <2> HIDE DEF T
    <2>4. h[T] = Op(p, q, r, h[1 .. k], s[k + 1])
      BY <1>10, <2>1, <2>2, <2>3 DEF F
    <2>5. h[1 .. k] \in D[k]
      BY <1>12, <2>1
    <2>6. Op(p, q, r, h[1 .. k], s[k + 1]) \in D[k + 1]
      BY <2>1, <2>5 DEF N
    <2>7. QED
      BY <2>4, <2>6 DEF T
  <1> HIDE DEF Q
  <1>13. N \in Q
    BY <1>1, <1>11, <1>12, SetInduction
  <1>14. h[DOMAIN s] \in D[N]
    BY <1>1, <1>13 DEF Q
  <1>15. QED
    BY <1>2, <1>14 DEF N

(***************************************************************************)
(* A set that every application of the operator leaves only for itself is  *)
(* not left by a fold.                                                     *)
(***************************************************************************)
THEOREM FoldLeftInvariant ==
    ASSUME NEW p, NEW q, NEW r, NEW D, NEW E, NEW b \in D, NEW s \in Seq(E),
           \A d \in D, e \in E : Op(p, q, r, d, e) \in D
    PROVE  LeftFold(p, q, r, b, s) \in D
  <1> DEFINE C == [k \in 0 .. Len(s) |-> D]
  <1>1. Len(s) \in Nat /\ \A k \in 1 .. Len(s) : s[k] \in E /\ k - 1 \in 0 .. Len(s)
    OBVIOUS
  <1>2. \A k \in 0 .. Len(s) : C[k] = D
    OBVIOUS
  <1> HIDE DEF C
  <1>3. \A k \in 1 .. Len(s) : \A d \in C[k - 1] : Op(p, q, r, d, s[k]) \in C[k]
    BY <1>1, <1>2
  <1>4. b \in C[0] /\ Len(s) \in 0 .. Len(s)
    BY <1>1, <1>2
  <1>5. LeftFold(p, q, r, b, s) \in C[Len(s)]
    BY <1>3, <1>4, LeftFoldSteps
  <1>6. QED
    BY <1>2, <1>4, <1>5

(***************************************************************************)
(* Loops over a finite set that take the members by a rule: ch[T] is the   *)
(* member of T that is taken last of those in T.                           *)
(***************************************************************************)
Chooses(ch, U) == \A T \in SUBSET U : T # {} => ch[T] \in T

\* f[T] is what the loop has made of b when it has taken the members of T.
Picks(p, q, r, f, b, U, ch) ==
  f = [T \in SUBSET U |-> IF T = {} THEN b ELSE Op(p, q, r, f[T \ {ch[T]}], ch[T])]

\* Subsets of a finite set are counted, with one fewer when a member goes.
LEMMA Counted ==
    ASSUME NEW U, IsFiniteSet(U), NEW T \in SUBSET U
    PROVE  /\ Cardinality(U) \in Nat /\ Cardinality(T) \in 0 .. Cardinality(U)
           /\ Cardinality(T) = 0 <=> T = {}
           /\ \A x \in T : T \ {x} \in SUBSET U /\ Cardinality(T \ {x}) = Cardinality(T) - 1
  <1>1. IsFiniteSet(T) /\ Cardinality(T) <= Cardinality(U)
    BY FS_Subset
  <1>2. /\ Cardinality(U) \in Nat /\ Cardinality(T) \in Nat /\ (Cardinality(T) = 0 <=> T = {})
    BY <1>1, FS_CardinalityType, FS_EmptySet
  <1>3. \A x \in T : T \ {x} \in SUBSET U /\ Cardinality(T \ {x}) = Cardinality(T) - 1
    BY <1>1, FS_RemoveElement
  <1>4. QED
    BY <1>1, <1>2, <1>3

\* What holds of the empty set and of a set when it held before its last member was
\* taken holds of the whole set.
LEMMA SubsetsReached ==
    ASSUME NEW U, IsFiniteSet(U), NEW ch, Chooses(ch, U), NEW S, {} \in S,
           \A T \in SUBSET U : T # {} /\ T \ {ch[T]} \in S => T \in S
    PROVE  U \in S
  <1> DEFINE N == Cardinality(U)
             Q == {k \in Nat : \A T \in SUBSET U : Cardinality(T) = k => T \in S}
  <1>1. 0 \in Q
    BY Counted
  <1>2. ASSUME NEW k \in Nat, k \in Q PROVE k + 1 \in Q
    <2> SUFFICES ASSUME NEW T \in SUBSET U, Cardinality(T) = k + 1 PROVE T \in S
      OBVIOUS
    <2>1. T # {}
      <3>1. k + 1 # 0
        OBVIOUS
      <3>2. QED
        BY <3>1, Counted
    <2>2. ch[T] \in T
      BY <2>1 DEF Chooses
    <2>3. T \ {ch[T]} \in SUBSET U /\ Cardinality(T \ {ch[T]}) = Cardinality(T) - 1
      BY <2>2, Counted
    <2>4. (k + 1) - 1 = k
      OBVIOUS
    <2>5. T \ {ch[T]} \in S
      BY <1>2, <2>3, <2>4
    <2>6. QED
      BY <2>1, <2>5
  <1>3. N \in Nat
    BY FS_CardinalityType
  <1> HIDE DEF Q, N
  <1>4. N \in Q
    BY <1>1, <1>2, <1>3, SetInduction
  <1>5. QED
    BY <1>4 DEF Q, N

\* There is a function that follows the loop.
LEMMA PicksExist ==
    ASSUME NEW p, NEW q, NEW r, NEW b, NEW U, IsFiniteSet(U), NEW ch, Chooses(ch, U)
    PROVE  \E f : Picks(p, q, r, f, b, U, ch)
  <1> DEFINE N       == Cardinality(U)
             F(f, T) == IF T = {} THEN b ELSE Op(p, q, r, f[T \ {ch[T]}], ch[T])
  <1>3. ASSUME NEW T \in SUBSET U
        PROVE  N \in Nat /\ Cardinality(T) \in 0 .. N /\ (Cardinality(T) = 0 <=> T = {})
    BY Counted
  <1>1. N \in Nat
    BY FS_CardinalityType
  <1> HIDE DEF N, F
  <1>4. ASSUME NEW T \in SUBSET U, T # {}
        PROVE  T \ {ch[T]} \in SUBSET U /\ Cardinality(T \ {ch[T]}) = Cardinality(T) - 1
    <2>1. ch[T] \in T
      BY <1>4 DEF Chooses
    <2>2. QED
      BY <2>1, Counted
  <1> DEFINE P(k, f) == \A T \in SUBSET U : Cardinality(T) <= k => f[T] = F(f, T)
             S == {k \in Nat : \E f : f = [T \in SUBSET U |-> f[T]] /\ P(k, f)}
  <1>5. 0 \in S
    <2> DEFINE f == [T \in SUBSET U |-> b]
    <2>1. f = [T \in SUBSET U |-> f[T]] /\ \A T \in SUBSET U : f[T] = b
      OBVIOUS
    <2> HIDE DEF f
    <2>2. ASSUME NEW T \in SUBSET U, Cardinality(T) <= 0 PROVE f[T] = F(f, T)
      <3>1. Cardinality(T) = 0
        BY <1>1, <1>3, <2>2
      <3>2. T = {}
        BY <1>3, <3>1
      <3>3. QED
        BY <2>1, <3>2 DEF F
    <2>3. P(0, f)
      BY <2>2
    <2>4. QED
      BY <2>1, <2>3
  <1>6. ASSUME NEW k \in Nat, k \in S PROVE k + 1 \in S
    <2>1. PICK g : P(k, g)
      BY <1>6
    <2> DEFINE f == [T \in SUBSET U |-> IF Cardinality(T) <= k THEN g[T] ELSE F(g, T)]
    <2>2. /\ f = [T \in SUBSET U |-> f[T]]
          /\ \A T \in SUBSET U : f[T] = IF Cardinality(T) <= k THEN g[T] ELSE F(g, T)
      OBVIOUS
    <2> HIDE DEF f
    <2>3. ASSUME NEW T \in SUBSET U, Cardinality(T) <= k + 1 PROVE f[T] = F(f, T)
      <3>1. f[T] = F(g, T)
        BY <2>1, <2>2
      <3>2. CASE T = {}
        BY <3>1, <3>2 DEF F
      <3>3. CASE T # {}
        <4>1. T \ {ch[T]} \in SUBSET U /\ Cardinality(T \ {ch[T]}) = Cardinality(T) - 1
          BY <1>4, <3>3
        <4>2. Cardinality(T) - 1 <= k
          <5>1. Cardinality(T) \in Int
            BY <1>1, <1>3
          <5> DEFINE n == Cardinality(T)
          <5> HIDE DEF n
          <5>2. n \in Int /\ n <= k + 1
            BY <2>3, <5>1 DEF n
          <5>3. n - 1 <= k
            BY <5>2
          <5>4. QED
            BY <5>3 DEF n
        <4>3. f[T \ {ch[T]}] = g[T \ {ch[T]}]
          BY <2>2, <4>1, <4>2
        <4>4. QED
          BY <3>1, <3>3, <4>3 DEF F
      <3>4. QED
        BY <3>2, <3>3
    <2>4. P(k + 1, f)
      BY <2>3
    <2>5. \E e : e = [T \in SUBSET U |-> e[T]] /\ P(k + 1, e)
      <3> HIDE DEF P
      <3>1. QED
        BY <2>2, <2>4
    <2>6. k + 1 \in Nat
      OBVIOUS
    <2>7. QED
      <3> HIDE DEF P
      <3>1. QED
        BY <2>5, <2>6
  <1> HIDE DEF S
  <1>7. N \in S
    BY <1>1, <1>5, <1>6, SetInduction
  <1>8. PICK f : f = [T \in SUBSET U |-> f[T]] /\ P(N, f)
    BY <1>7 DEF S
  <1>9. ASSUME NEW T \in SUBSET U PROVE f[T] = F(f, T)
    <2>1. Cardinality(T) \in 0 .. N
      BY <1>3
    <2>2. Cardinality(T) <= N
      BY <1>1, <2>1
    <2>3. QED
      BY <1>8, <2>2
  <1>10. f = [T \in SUBSET U |-> F(f, T)]
    BY <1>8, <1>9
  <1>11. QED
    BY <1>10 DEF Picks, F

\* The fold over U from b on goes through the values of f in the order of ch.
Follows(p, q, r, f, b, U, ch) ==
  /\ SetFold(p, q, r, b, U) = f[U] /\ Chooses(ch, U) /\ f[{}] = b
  /\ \A T \in SUBSET U : T # {} => f[T] = Op(p, q, r, f[T \ {ch[T]}], ch[T])

\* A fold over a set follows such a loop.
LEMMA SetFoldPicks ==
    ASSUME NEW p, NEW q, NEW r, NEW b, NEW U, IsFiniteSet(U)
    PROVE  \E f, ch : Follows(p, q, r, f, b, U, ch)
  <1> DEFINE ch == [T \in SUBSET U |-> Taken(T)]
             Fix(f) == f = [T \in SUBSET U |-> IF T = {} THEN b
                              ELSE Op(p, q, r, f[T \ {Taken(T)}], Taken(T))]
             h == CHOOSE f : Fix(f)
  <1>1. \A T \in SUBSET U : ch[T] = Taken(T)
    OBVIOUS
  <1>2. Chooses(ch, U)
    BY DEF Chooses, Taken
  <1> HIDE DEF ch
  <1>3. PICK f : Picks(p, q, r, f, b, U, ch)
    BY <1>2, PicksExist
  <1>4. Fix(f)
    BY <1>1, <1>3 DEF Picks
  <1>5. Fix(h)
    <2> HIDE DEF Fix
    <2>1. QED
      BY <1>4
  <1>6. SetFold(p, q, r, b, U) = h[U]
    BY DEF SetFold
  <1> HIDE DEF h
  <1>7. \A T \in SUBSET U : h[T] = IF T = {} THEN b ELSE Op(p, q, r, h[T \ {ch[T]}], ch[T])
    BY <1>1, <1>5
  <1> HIDE DEF Fix
  <1>8. h[{}] = b /\ \A T \in SUBSET U : T # {} => h[T] = Op(p, q, r, h[T \ {ch[T]}], ch[T])
    BY <1>7
  <1>9. QED
    BY <1>2, <1>6, <1>8 DEF Follows

\* Every application of the operator leads from what holds without a member to
\* what holds with it.
SetSteps(p, q, r, U, D) ==
  \A T \in SUBSET U : \A x \in T : \A d \in D[T \ {x}] : Op(p, q, r, d, x) \in D[T]

(***************************************************************************)
(* What holds after the members of T, D[T], holds at the end of a fold     *)
(* over a finite set, whatever the order in which it takes the members.    *)
(***************************************************************************)
THEOREM SetFoldSteps ==
    ASSUME NEW p, NEW q, NEW r, NEW U, IsFiniteSet(U), NEW D, NEW b \in D[{}],
           SetSteps(p, q, r, U, D)
    PROVE  SetFold(p, q, r, b, U) \in D[U]
  <1>0. PICK f, ch : Follows(p, q, r, f, b, U, ch)
    BY SetFoldPicks
  <1>1. /\ SetFold(p, q, r, b, U) = f[U] /\ Chooses(ch, U) /\ f[{}] = b
        /\ \A T \in SUBSET U : T # {} => f[T] = Op(p, q, r, f[T \ {ch[T]}], ch[T])
    BY <1>0 DEF Follows
  <1> DEFINE S == {T \in SUBSET U : f[T] \in D[T]}
  <1>2. {} \in S
    BY <1>1
  <1>3. ASSUME NEW T \in SUBSET U, T # {}, T \ {ch[T]} \in S PROVE T \in S
    <2>1. ch[T] \in T /\ f[T \ {ch[T]}] \in D[T \ {ch[T]}]
      BY <1>1, <1>3 DEF Chooses
    <2>2. QED
      BY <1>1, <1>3, <2>1 DEF SetSteps
  <1> HIDE DEF S
  <1>4. U \in S
    BY <1>1, <1>2, <1>3, SubsetsReached
  <1>5. QED
    BY <1>1, <1>4 DEF S

(***************************************************************************)
(* The value of a recursion along a chain: what the last of N members      *)
(* makes of the value before it.  It is defined for every chain, and only  *)
(* the members up to N matter.                                             *)
(***************************************************************************)
Running(p, q, r, a, s, N) ==
    LET f[i \in 0 .. N] == IF i = 0 THEN a ELSE Op(p, q, r, f[i - 1], s[i])
    IN  f[N]

\* f satisfies the recursion.
Solves(p, q, r, f, a, s, N) == f = [i \in 0 .. N |-> IF i = 0 THEN a ELSE Op(p, q, r, f[i - 1], s[i])]

\* There is a function that satisfies the recursion.
LEMMA RunningExists ==
    ASSUME NEW p, NEW q, NEW r, NEW a, NEW s, NEW N \in Nat
    PROVE  \E f : Solves(p, q, r, f, a, s, N)
  <1> DEFINE F(f, i) == IF i = 0 THEN a ELSE Op(p, q, r, f[i - 1], s[i])
             P(k, f) == \A i \in 0 .. k : f[i] = F(f, i)
             S == {k \in Nat : k <= N => \E f : f = [i \in 0 .. N |-> f[i]] /\ P(k, f)}
  <1>1. 0 \in S
    <2> DEFINE f == [i \in 0 .. N |-> a]
    <2>1. f = [i \in 0 .. N |-> f[i]] /\ f[0] = a
      OBVIOUS
    <2>2. P(0, f)
      BY <2>1
    <2> HIDE DEF f, P
    <2>3. QED
      BY <2>1, <2>2
  <1>2. ASSUME NEW k \in Nat, k \in S PROVE k + 1 \in S
    <2> SUFFICES ASSUME k + 1 <= N PROVE \E f : f = [i \in 0 .. N |-> f[i]] /\ P(k + 1, f)
      <3> HIDE DEF P
      <3>1. QED
        OBVIOUS
    <2>1. PICK g : P(k, g)
      BY <1>2
    <2> DEFINE f == [i \in 0 .. N |-> IF i <= k THEN g[i] ELSE F(g, i)]
    <2>2. f = [i \in 0 .. N |-> f[i]]
      OBVIOUS
    <2>3. \A i \in 0 .. N : f[i] = IF i <= k THEN g[i] ELSE F(g, i)
      OBVIOUS
    <2> HIDE DEF f
    <2>4. ASSUME NEW i \in 0 .. k + 1 PROVE f[i] = F(f, i)
      <3>1. i \in 0 .. N /\ (i # 0 => i - 1 \in 0 .. N /\ i - 1 <= k)
        OBVIOUS
      <3>2. f[i] = F(g, i)
        BY <2>1, <2>3, <3>1
      <3>3. i # 0 => f[i - 1] = g[i - 1]
        BY <2>3, <3>1
      <3>4. QED
        BY <3>2, <3>3
    <2>5. QED
      BY <2>2, <2>4
  <1> HIDE DEF S
  <1>3. N \in S
    BY <1>1, <1>2, SetInduction
  <1>4. PICK f : f = [i \in 0 .. N |-> f[i]] /\ P(N, f)
    BY <1>3 DEF S
  <1>5. f = [i \in 0 .. N |-> F(f, i)]
    BY <1>4
  <1>6. QED
    BY <1>5 DEF Solves

\* Two functions that satisfy the recursion for chains that agree, agree.
LEMMA RunningUnique ==
    ASSUME NEW p, NEW q, NEW r, NEW a, NEW s, NEW t, NEW N \in Nat, NEW M \in Nat, M <= N,
           \A i \in 1 .. M : s[i] = t[i],
           NEW f, Solves(p, q, r, f, a, s, N),
           NEW g, Solves(p, q, r, g, a, t, M)
    PROVE  f[M] = g[M]
  <1> DEFINE S == {k \in Nat : k <= M => f[k] = g[k]}
  <1>0. /\ \A i \in 0 .. N : f[i] = IF i = 0 THEN a ELSE Op(p, q, r, f[i - 1], s[i])
        /\ \A i \in 0 .. M : g[i] = IF i = 0 THEN a ELSE Op(p, q, r, g[i - 1], t[i])
    BY DEF Solves
  <1>1. 0 \in S
    BY <1>0
  <1>2. ASSUME NEW k \in Nat, k \in S PROVE k + 1 \in S
    <2> SUFFICES ASSUME k + 1 <= M PROVE f[k + 1] = g[k + 1]
      OBVIOUS
    <2>1. k + 1 \in 0 .. N /\ k + 1 \in 0 .. M /\ k + 1 \in 1 .. M /\ (k + 1) - 1 = k /\ k + 1 # 0
      OBVIOUS
    <2>2. f[k] = g[k] /\ s[k + 1] = t[k + 1]
      BY <1>2, <2>1
    <2>3. f[k + 1] = Op(p, q, r, f[k], s[k + 1]) /\ g[k + 1] = Op(p, q, r, g[k], t[k + 1])
      BY <1>0, <2>1
    <2>4. QED
      BY <2>2, <2>3
  <1> HIDE DEF S
  <1>3. M \in S
    BY <1>1, <1>2, SetInduction
  <1>4. QED
    BY <1>3 DEF S

(***************************************************************************)
(* A chain with one more member: the operator is applied to the value of   *)
(* the shorter chain.                                                      *)
(***************************************************************************)
THEOREM RunningStep ==
    ASSUME NEW p, NEW q, NEW r, NEW a, NEW s, NEW t, NEW N \in Nat, \A i \in 1 .. N : s[i] = t[i]
    PROVE  /\ Running(p, q, r, a, s, 0) = a
           /\ Running(p, q, r, a, s, N + 1) = Op(p, q, r, Running(p, q, r, a, t, N), s[N + 1])
  <1> DEFINE z == CHOOSE h : Solves(p, q, r, h, a, s, 0)
             f == CHOOSE h : Solves(p, q, r, h, a, s, N + 1)
             g == CHOOSE h : Solves(p, q, r, h, a, t, N)
  <1>1. Running(p, q, r, a, s, 0) = z[0] /\ Running(p, q, r, a, s, N + 1) = f[N + 1] /\ Running(p, q, r, a, t, N) = g[N]
    BY DEF Running, Solves
  <1>2. /\ \E h : Solves(p, q, r, h, a, s, 0)
        /\ \E h : Solves(p, q, r, h, a, s, N + 1)
        /\ \E h : Solves(p, q, r, h, a, t, N)
    BY RunningExists
  <1>3. Solves(p, q, r, z, a, s, 0) /\ Solves(p, q, r, f, a, s, N + 1) /\ Solves(p, q, r, g, a, t, N)
    BY <1>2
  <1> HIDE DEF z, f, g
  <1>4. f[N] = g[N]
    BY <1>3, RunningUnique, N <= N + 1
  <1>5. z[0] = a
    BY <1>3 DEF Solves
  <1>6. f[N + 1] = Op(p, q, r, f[N], s[N + 1])
    <2>1. N + 1 \in 0 .. N + 1 /\ N + 1 # 0 /\ (N + 1) - 1 = N
      OBVIOUS
    <2>2. QED
      BY <1>3, <2>1 DEF Solves
  <1>7. QED
    BY <1>1, <1>4, <1>5, <1>6

\* What holds for 0 and goes from each number to the next holds for N.
LEMMA Reaches ==
    ASSUME NEW N \in Nat, NEW S, 0 \in S, \A k \in 0 .. N - 1 : k \in S => k + 1 \in S
    PROVE  N \in S
  <1> DEFINE T == {k \in Nat : k <= N => k \in S}
  <1>1. 0 \in T
    OBVIOUS
  <1>2. \A k \in Nat : k \in T => k + 1 \in T
    OBVIOUS
  <1> HIDE DEF T
  <1>3. N \in T
    BY <1>1, <1>2, SetInduction
  <1>4. QED
    BY <1>3 DEF T

\* The values that the recursion goes through.
THEOREM RunningSteps ==
    ASSUME NEW p, NEW q, NEW r, NEW a, NEW s, NEW N \in Nat
    PROVE  \E f : /\ Running(p, q, r, a, s, N) = f[N] /\ f[0] = a
                  /\ \A i \in 1 .. N : f[i] = Op(p, q, r, f[i - 1], s[i])
  <1> DEFINE f == CHOOSE h : Solves(p, q, r, h, a, s, N)
  <1>1. Running(p, q, r, a, s, N) = f[N]
    BY DEF Running, Solves
  <1>2. Solves(p, q, r, f, a, s, N)
    <2>1. \E h : Solves(p, q, r, h, a, s, N)
      BY RunningExists
    <2>2. QED
      BY <2>1
  <1> HIDE DEF f
  <1>3. f[0] = a /\ \A i \in 1 .. N : f[i] = Op(p, q, r, f[i - 1], s[i])
    BY <1>2 DEF Solves
  <1>4. QED
    BY <1>1, <1>3

=============================================================================
