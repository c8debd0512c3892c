---------------------------- MODULE SealingProofs ---------------------------
(***************************************************************************)
(* When a node seals.  The rules of the Aura engine, for every period and  *)
(* every list of authorities: inTurn serves them in turn, what nodes seal  *)
(* is what nodes accept, and on no chain does an authority sign twice      *)
(* within a round.  And, at the end, the gate of the miner that asks the   *)
(* engine to seal, across synchronisations and restarts.                   *)
(***************************************************************************)
EXTENDS Aura, Miner, SequenceTheorems, TLAPS

(***************************************************************************)
(* Integer division: the quotient and the remainder are unique, distance n *)
(* separates quotients, and numbers with equal remainders are n apart.     *)
(***************************************************************************)
LEMMA DivModLemma ==
    ASSUME NEW a \in Int, NEW n \in Nat \ {0}
    PROVE  /\ a \div n \in Int
           /\ a % n \in 0 .. n - 1
           /\ a = n * (a \div n) + (a % n)
  OBVIOUS

LEMMA DivModUnique ==
    ASSUME NEW n \in Nat \ {0}, NEW q \in Int, NEW r \in 0 .. n - 1
    PROVE  (n * q + r) \div n = q /\ (n * q + r) % n = r
  OBVIOUS

LEMMA DivMonotone ==
    ASSUME NEW n \in Nat \ {0}, NEW a \in Int, NEW b \in Int, a + n <= b
    PROVE  a \div n + 1 <= b \div n
  OBVIOUS

LEMMA SameRemainder ==
    ASSUME NEW n \in Nat \ {0}, NEW a \in Int, NEW b \in Int, a < b, a % n = b % n
    PROVE  a + n <= b
  <1>1. PICK q \in Int, p \in Int, r \in 0 .. n - 1 : a = n * q + r /\ b = n * p + r
    BY DivModLemma
  <1>2. n * (p - q) = b - a
    BY <1>1
  <1>3. p - q >= 1
    <2>1. CASE p - q <= 0
      <3>1. n * (p - q) <= 0
        BY <1>1, <2>1
      <3>2. QED
        BY <1>2, <3>1
    <2>2. QED
      BY <1>1, <2>1
  <1>4. n * (p - q) >= n
    BY <1>1, <1>3
  <1>5. QED
    BY <1>2, <1>4

(***************************************************************************)
(* inTurn: at every time the turn is the period's number modulo the number *)
(* of authorities, the boundary second counted to the period it ends.      *)
(***************************************************************************)
LEMMA TurnLemma ==
    ASSUME NEW t \in Nat
    PROVE  /\ slot(t) \in Int
           /\ turn(t) = slot(t) % authNum
           /\ turn(t) \in 0 .. authNum - 1
  <1> DEFINE s == t \div Period
  <1>0. Period \in Nat \ {0} /\ authNum \in Nat \ {0}
    BY AuraAssumption DEF authNum
  <1>1. s \in Int /\ t = Period * s + (t % Period) /\ t % Period \in 0 .. Period - 1
    BY <1>0, DivModLemma
  <1>2. s % authNum \in 0 .. authNum - 1 /\ s = authNum * (s \div authNum) + (s % authNum)
        /\ s \div authNum \in Int
    BY <1>0, <1>1, DivModLemma
  <1>3. CASE t % Period # 0
    <2>1. slot(t) = s
      <3>1. t - 1 = Period * s + ((t % Period) - 1) /\ (t % Period) - 1 \in 0 .. Period - 1
        BY <1>0, <1>1, <1>3
      <3>2. QED
        BY <1>0, <1>1, <3>1, DivModUnique DEF slot
    <2>2. turn(t) = s % authNum
      BY <1>3 DEF turn
    <2>3. QED
      BY <1>1, <1>2, <2>1, <2>2
  <1>4. CASE t % Period = 0
    <2>1. slot(t) = s - 1
      <3>1. t - 1 = Period * (s - 1) + (Period - 1) /\ s - 1 \in Int /\ Period - 1 \in 0 .. Period - 1
        BY <1>0, <1>1, <1>4
      <3>2. QED
        BY <1>0, <3>1, DivModUnique DEF slot
    <2>2. turn(t) = (IF s % authNum = 0 THEN authNum ELSE s % authNum) - 1
      BY <1>4 DEF turn
    <2> HIDE DEF s
    <2>3. CASE s % authNum = 0
      <3>1. s - 1 = authNum * (s \div authNum - 1) + (authNum - 1)
        BY <1>0, <1>2, <2>3
      <3>2. (s - 1) % authNum = authNum - 1
        <4>1. s \div authNum - 1 \in Int /\ authNum - 1 \in 0 .. authNum - 1
          BY <1>0, <1>2
        <4>2. QED
          BY <1>0, <3>1, <4>1, DivModUnique
      <3>3. QED
        BY <1>0, <1>1, <2>1, <2>2, <2>3, <3>2
    <2>4. CASE s % authNum # 0
      <3>1. s - 1 = authNum * (s \div authNum) + ((s % authNum) - 1) /\ (s % authNum) - 1 \in 0 .. authNum - 1
        BY <1>0, <1>2, <2>4
      <3>2. (s - 1) % authNum = (s % authNum) - 1
        BY <1>0, <1>2, <3>1, DivModUnique
      <3>3. QED
        BY <1>0, <1>1, <1>2, <2>1, <2>2, <2>4, <3>2
    <2>5. QED
      BY <2>3, <2>4
  <1>5. QED
    BY <1>3, <1>4

----------------------------------------------------------------------------
(***************************************************************************)
(* Every block of the chain is in turn, and a period after all before it.  *)
(***************************************************************************)
Valid(chain) ==
    /\ chain \in Seq(Header)
    /\ \A i \in DOMAIN chain :
        /\ inTurn(chain[i].signer, chain[i].time)
        /\ Period <= chain[i].time
    /\ \A i, j \in DOMAIN chain : i < j => chain[i].time + Period <= chain[j].time

ChainsValid ==
    \A n \in Nodes :
        /\ Valid(head[n])
        /\ Valid(task[n])
        /\ \A chain \in known[n] : Valid(chain) /\ chain # <<>> /\ TimeOf(chain) <= now

IInv == TypeOK /\ ChainsValid

(***************************************************************************)
(* The time of a chain, and what its last block is to the one before.      *)
(***************************************************************************)
LEMMA TimeOfLemma ==
    ASSUME NEW chain \in Seq(Header)
    PROVE  TimeOf(chain) \in Nat
  <1>1. CASE chain = <<>>
    BY <1>1 DEF TimeOf
  <1>2. CASE chain # <<>>
    <2>1. Last(chain) \in Header
      BY <1>2 DEF Last
    <2>2. Last(chain).time \in Nat
      BY <2>1 DEF Header
    <2>3. QED
      BY <1>2, <2>2 DEF TimeOf
  <1>3. QED
    BY <1>1, <1>2

LEMMA LastLemma ==
    ASSUME NEW chain, Valid(chain), chain # <<>>
    PROVE  /\ TimeOf(chain) = Last(chain).time
           /\ TimeOf(Front(chain)) + Period <= Last(chain).time
           /\ inTurn(Last(chain).signer, Last(chain).time)
  <1>0. Period \in Nat \ {0} /\ chain \in Seq(Header) /\ Len(chain) \in Nat \ {0}
    BY AuraAssumption DEF Valid
  <1>1. Last(chain) = chain[Len(chain)] /\ Len(chain) \in DOMAIN chain
    BY <1>0 DEF Last
  <1>2. CASE Len(chain) = 1
    <2>1. Front(chain) = <<>>
      BY <1>0, <1>2 DEF Front
    <2>2. QED
      BY <1>0, <1>1, <2>1 DEF TimeOf, Valid
  <1>3. CASE Len(chain) # 1
    <2>1. /\ Front(chain) \in Seq(Header) /\ Front(chain) # <<>>
          /\ Last(Front(chain)) = chain[Len(chain) - 1] /\ Len(chain) - 1 \in DOMAIN chain
      <3> DEFINE f == SubSeq(chain, 1, Len(chain) - 1)
      <3>1. Front(chain) = f
        BY DEF Front
      <3>2. f \in Seq(Header) /\ Len(f) = Len(chain) - 1 /\ Len(f) >= 1
        BY <1>0, <1>3
      <3>3. f[Len(chain) - 1] = chain[Len(chain) - 1] /\ Len(chain) - 1 \in DOMAIN chain
        <4> DEFINE k == Len(chain) - 1
        <4>1. k \in Int /\ k >= 1 /\ k \in DOMAIN chain /\ \A i \in 1 .. k : chain[i] \in Header
          <5>1. DOMAIN chain = 1 .. Len(chain) /\ \A i \in 1 .. Len(chain) : chain[i] \in Header
            BY <1>0
          <5>2. k \in Int /\ k >= 1 /\ k \in 1 .. Len(chain)
            BY <1>0, <1>3
          <5>3. 1 .. k \subseteq 1 .. Len(chain)
            BY <1>0
          <5> HIDE DEF k
          <5>4. QED
            BY <5>1, <5>2, <5>3
        <4> HIDE DEF k
        <4>2. \A i \in 1 .. k - 1 + 1 : SubSeq(chain, 1, k)[i] = chain[1 + i - 1]
          BY <4>1, SubSeqProperties
        <4>3. SubSeq(chain, 1, k)[k] = chain[k]
          <5>1. k \in 1 .. k - 1 + 1 /\ 1 + k - 1 = k
            BY <4>1
          <5>2. QED
            BY <4>2, <5>1
        <4>4. QED
          BY <4>1, <4>3 DEF k
      <3> HIDE DEF f
      <3>4. f # <<>> /\ Last(f) = f[Len(chain) - 1]
        BY <3>2 DEF Last
      <3>5. Front(chain) \in Seq(Header) /\ Front(chain) # <<>>
        BY <3>1, <3>2, <3>4
      <3>6. QED
        BY <3>1, <3>3, <3>4, <3>5
    <2>2. QED
      BY <1>0, <1>1, <2>1 DEF TimeOf, Valid
  <1>4. QED
    BY <1>2, <1>3

(***************************************************************************)
(* Prepare and Seal extend a valid chain to a valid one.                   *)
(***************************************************************************)
LEMMA AppendLemma ==
    ASSUME NEW chain, Valid(chain), NEW h \in Header,
           TimeOf(chain) + Period <= h.time, inTurn(h.signer, h.time)
    PROVE  Valid(Append(chain, h))
  <1> DEFINE new == Append(chain, h)
             k   == Len(chain)
  <1>0. Period \in Nat \ {0} /\ chain \in Seq(Header) /\ k \in Nat /\ TimeOf(chain) \in Nat /\ h.time \in Nat
    <2>1. chain \in Seq(Header)
      BY DEF Valid
    <2>2. h.time \in Nat
      BY DEF Header
    <2>3. QED
      BY <2>1, <2>2, AuraAssumption, TimeOfLemma
  <1>1. /\ new \in Seq(Header) /\ DOMAIN new = 1 .. k + 1 /\ new[k + 1] = h
        /\ \A i \in 1 .. k : new[i] = chain[i]
    BY <1>0
  <1>2. \A i \in 1 .. k : chain[i].time \in Nat /\ chain[i].time + Period <= h.time
    <2> SUFFICES ASSUME NEW i \in 1 .. k
                 PROVE  chain[i].time \in Nat /\ chain[i].time + Period <= h.time
      OBVIOUS
    <2>1. chain[i] \in Header /\ chain[k] \in Header /\ chain # <<>> /\ k \in DOMAIN chain /\ i \in DOMAIN chain
      BY <1>0
    <2>2. TimeOf(chain) = chain[k].time
      BY <2>1 DEF TimeOf, Last
    <2>3. chain[i].time <= chain[k].time
      <3>1. CASE i = k
        BY <2>1, <3>1 DEF Header
      <3>2. CASE i < k
        BY <1>0, <2>1, <3>2 DEF Valid, Header
      <3>3. QED
        BY <1>0, <3>1, <3>2
    <2>4. QED
      BY <1>0, <2>1, <2>2, <2>3 DEF Header
  <1> HIDE DEF new
  <1>3. \A i \in DOMAIN new : inTurn(new[i].signer, new[i].time) /\ Period <= new[i].time
    <2> SUFFICES ASSUME NEW i \in DOMAIN new
                 PROVE  inTurn(new[i].signer, new[i].time) /\ Period <= new[i].time
      OBVIOUS
    <2>1. CASE i = k + 1
      BY <1>0, <1>1, <2>1
    <2>2. CASE i \in 1 .. k
      BY <1>0, <1>1, <2>2 DEF Valid
    <2>3. QED
      BY <1>0, <1>1, <2>1, <2>2
  <1>4. \A i, j \in DOMAIN new : i < j => new[i].time + Period <= new[j].time
    <2> SUFFICES ASSUME NEW i \in DOMAIN new, NEW j \in DOMAIN new, i < j
                 PROVE  new[i].time + Period <= new[j].time
      OBVIOUS
    <2>1. i \in 1 .. k
      BY <1>0, <1>1
    <2>2. CASE j = k + 1
      BY <1>1, <1>2, <2>1, <2>2
    <2>3. CASE j \in 1 .. k
      BY <1>0, <1>1, <2>1, <2>3 DEF Valid
    <2>4. QED
      BY <1>0, <1>1, <2>2, <2>3
  <1>5. Valid(new)
    BY <1>1, <1>3, <1>4 DEF Valid
  <1>6. QED
    BY <1>5 DEF new

(***************************************************************************)
(* A write adds a valid chain whose time has come.                         *)
(***************************************************************************)
LEMMA WriteLemma ==
    ASSUME IInv, NEW n \in Nodes, NEW chain, Valid(chain), chain # <<>>, TimeOf(chain) <= now,
           WriteBlock(n, chain), now' = now, smooth' = smooth,
           task' \in [Nodes -> Seq(Header)], \A m \in Nodes : Valid(task'[m])
    PROVE  IInv'
  <1>0. chain \in Seq(Header)
    BY DEF Valid
  <1>1. known' \in [Nodes -> SUBSET Seq(Header)] /\ \A m \in Nodes : known'[m] \subseteq known[m] \cup {chain}
    BY <1>0 DEF WriteBlock, IInv, TypeOK
  <1>2. PICK reorg \in BOOLEAN :
          /\ head' = [head EXCEPT ![n] = IF reorg THEN chain ELSE @]
          /\ request' = [request EXCEPT ![n] = @ \/ reorg]
    BY DEF WriteBlock, Reorgs
  <1>3. head' \in [Nodes -> Seq(Header)] /\ \A m \in Nodes : head'[m] \in {head[m], chain}
    BY <1>0, <1>2 DEF IInv, TypeOK
  <1>4. request' \in [Nodes -> BOOLEAN]
    BY <1>2 DEF IInv, TypeOK
  <1>5. TypeOK'
    BY <1>1, <1>3, <1>4 DEF IInv, TypeOK
  <1>6. ChainsValid'
    <2> SUFFICES ASSUME NEW m \in Nodes
                 PROVE  /\ Valid(head'[m]) /\ Valid(task'[m])
                        /\ \A c \in known'[m] : Valid(c) /\ c # <<>> /\ TimeOf(c) <= now
      BY DEF ChainsValid
    <2>1. Valid(head'[m])
      BY <1>3 DEF IInv, ChainsValid
    <2>2. \A c \in known'[m] : Valid(c) /\ c # <<>> /\ TimeOf(c) <= now
      BY <1>1 DEF IInv, ChainsValid
    <2>3. QED
      BY <2>1, <2>2
  <1>7. QED
    BY <1>5, <1>6 DEF IInv

LEMMA InitLemma == Init => IInv
  <1> SUFFICES ASSUME Init PROVE IInv
    OBVIOUS
  <1>1. authNum * Period \in Nat
    BY AuraAssumption DEF authNum
  <1>2. TypeOK
    BY <1>1 DEF Init, TypeOK
  <1>3. Valid(<<>>)
    BY DEF Valid
  <1>4. ChainsValid
    BY <1>3 DEF Init, ChainsValid
  <1>5. QED
    BY <1>2, <1>4 DEF IInv

LEMMA StepLemma == IInv /\ [Next]_vars => IInv'
  <1> SUFFICES ASSUME IInv, [Next]_vars PROVE IInv'
    OBVIOUS
  <1>0. Period \in Nat \ {0} /\ now \in Nat
    BY AuraAssumption DEF IInv, TypeOK
  <1>1. ASSUME NEW n \in Nodes, commitNewWork(n) PROVE IInv'
    <2> DEFINE t == PrepareTime(TimeOf(head[n]), now)
               h == [time |-> t, signer |-> n]
               w == IF inTurn(n, t) THEN Append(head[n], h) ELSE <<>>
    <2>1. Valid(head[n]) /\ TimeOf(head[n]) \in Nat
      BY TimeOfLemma DEF IInv, TypeOK, ChainsValid
    <2>2. t \in Nat /\ TimeOf(head[n]) + Period <= t
      BY <1>0, <2>1 DEF PrepareTime
    <2>3. Valid(<<>>)
      BY DEF Valid
    <2>4. Valid(w)
      <3>1. CASE inTurn(n, t)
        <4>1. h \in Header /\ h.time = t /\ h.signer = n
          BY <2>2, NetAssumption DEF Header
        <4>2. QED
          BY <2>1, <2>2, <3>1, <4>1, AppendLemma
      <3>2. QED
        BY <2>3, <3>1
    <2>5. task' = [task EXCEPT ![n] = w]
      BY <1>1 DEF commitNewWork
    <2> HIDE DEF w
    <2>6. w \in Seq(Header)
      BY <2>4 DEF Valid
    <2>7. TypeOK'
      BY <1>1, <2>5, <2>6 DEF commitNewWork, IInv, TypeOK
    <2>8. ChainsValid'
      BY <1>1, <2>4, <2>5 DEF commitNewWork, IInv, TypeOK, ChainsValid
    <2>9. QED
      BY <2>7, <2>8 DEF IInv
  <1>2. ASSUME NEW n \in Nodes, Seal(n) PROVE IInv'
    <2>1. Valid(task[n]) /\ task[n] # <<>> /\ TimeOf(task[n]) <= now
      BY <1>2 DEF Seal, IInv, ChainsValid
    <2>2. task' \in [Nodes -> Seq(Header)] /\ \A m \in Nodes : task'[m] \in {task[m], <<>>}
      BY <1>2 DEF Seal, IInv, TypeOK
    <2>3. Valid(<<>>)
      BY DEF Valid
    <2>4. \A m \in Nodes : Valid(task'[m])
      BY <2>2, <2>3 DEF IInv, ChainsValid
    <2>5. WriteBlock(n, task[n]) /\ now' = now /\ smooth' = smooth
      BY <1>2 DEF Seal
    <2>6. QED
      BY <2>1, <2>2, <2>4, <2>5, WriteLemma
  <1>3. ASSUME NEW n \in Nodes, NEW chain \in Sealed, Import(n, chain) PROVE IInv'
    <2>1. Valid(chain) /\ chain # <<>> /\ TimeOf(chain) <= now
      BY <1>3 DEF Sealed, IInv, ChainsValid
    <2>2. task' \in [Nodes -> Seq(Header)] /\ \A m \in Nodes : Valid(task'[m])
      BY <1>3 DEF Import, IInv, TypeOK, ChainsValid
    <2>3. WriteBlock(n, chain) /\ now' = now /\ smooth' = smooth
      BY <1>3 DEF Import
    <2>4. QED
      BY <2>1, <2>2, <2>3, WriteLemma
  <1>4. ASSUME NEW n \in Nodes, Recommit(n) PROVE IInv'
    BY <1>4 DEF Recommit, IInv, TypeOK, ChainsValid
  <1>5. CASE Tick
    <2>1. TypeOK'
      BY <1>5 DEF Tick, IInv, TypeOK
    <2>2. \A n \in Nodes : \A chain \in known[n] : TimeOf(chain) <= now + 1
      <3> SUFFICES ASSUME NEW n \in Nodes, NEW chain \in known[n] PROVE TimeOf(chain) <= now + 1
        OBVIOUS
      <3>1. chain \in Seq(Header) /\ TimeOf(chain) <= now
        BY DEF IInv, TypeOK, ChainsValid
      <3>2. QED
        BY <1>0, <3>1, TimeOfLemma
    <2>3. ChainsValid'
      BY <1>5, <2>2 DEF Tick, IInv, ChainsValid
    <2>4. QED
      BY <2>1, <2>3 DEF IInv
  <1>6. CASE UNCHANGED vars
    BY <1>6 DEF vars, IInv, TypeOK, ChainsValid
  <1>7. QED
    BY <1>1, <1>2, <1>3, <1>4, <1>5, <1>6 DEF Next

\* The inductive invariant holds in every reachable state.
THEOREM Invariance == Spec => []IInv
  BY InitLemma, StepLemma, PTL DEF Spec

(***************************************************************************)
(* Type correctness of the nodes under the Aura engine.                    *)
(***************************************************************************)
THEOREM TypeCorrect == Spec => []TypeOK
  <1>1. IInv => TypeOK
    BY DEF IInv
  <1>2. QED
    BY <1>1, Invariance, PTL

(***************************************************************************)
(* Aura.inTurn gives the periods to the authorities one after the other.   *)
(***************************************************************************)
THEOREM TurnCorrect == Spec => []TurnIsSlot
  <1>1. IInv => TurnIsSlot
    BY TurnLemma DEF IInv, TypeOK, TurnIsSlot
  <1>2. QED
    BY <1>1, Invariance, PTL

(***************************************************************************)
(* What Prepare and Seal produce, verifyHeader of every node accepts.      *)
(***************************************************************************)
THEOREM SealedVerifies == Spec => []SealsVerify
  <1>1. IInv => SealsVerify
    <2> SUFFICES ASSUME IInv, NEW chain \in Sealed
                 PROVE  verifyHeader(Last(chain), TimeOf(Front(chain)), now)
      BY DEF SealsVerify
    <2>1. Valid(chain) /\ chain # <<>> /\ TimeOf(chain) <= now
      BY DEF Sealed, IInv, ChainsValid
    <2>2. QED
      BY <2>1, LastLemma DEF verifyHeader
  <1>2. QED
    BY <1>1, Invariance, PTL

(***************************************************************************)
(* On every chain the blocks of one authority are at least a round apart.  *)
(***************************************************************************)
THEOREM RoundsKept == Spec => []OneBlockPerRound
  <1>1. IInv => OneBlockPerRound
    <2> SUFFICES ASSUME IInv, NEW chain \in Sealed, NEW i \in DOMAIN chain, NEW j \in DOMAIN chain,
                        i < j, chain[i].signer = chain[j].signer
                 PROVE  slot(chain[i].time) + authNum <= slot(chain[j].time)
      BY DEF OneBlockPerRound
    <2>0. Period \in Nat \ {0} /\ authNum \in Nat \ {0} /\ DOMAIN Authorities = 1 .. authNum
      BY AuraAssumption DEF authNum
    <2>1. Valid(chain)
      BY DEF Sealed, IInv, ChainsValid
    <2>2. chain[i].time \in Nat /\ chain[j].time \in Nat
      <3>1. chain[i] \in Header /\ chain[j] \in Header
        BY <2>1 DEF Valid
      <3>2. QED
        BY <3>1 DEF Header
    <2> DEFINE t == chain[i].time
               u == chain[j].time
    <2>3. t + Period <= u
      BY <2>1 DEF Valid
    <2>4. Authorities[turn(t) + 1] = Authorities[turn(u) + 1]
      BY <2>1 DEF Valid, inTurn
    <2>5. t \in Nat /\ u \in Nat
      BY <2>2
    <2> HIDE DEF t, u
    <2>6. /\ slot(t) \in Int /\ slot(u) \in Int
          /\ turn(t) = slot(t) % authNum /\ turn(u) = slot(u) % authNum
          /\ turn(t) \in 0 .. authNum - 1 /\ turn(u) \in 0 .. authNum - 1
      BY <2>5, TurnLemma
    <2>7. turn(t) = turn(u)
      <3>1. turn(t) + 1 \in DOMAIN Authorities /\ turn(u) + 1 \in DOMAIN Authorities
        BY <2>0, <2>6
      <3>2. turn(t) + 1 = turn(u) + 1
        BY <2>4, <3>1, AuraAssumption
      <3>3. QED
        BY <2>0, <2>6, <3>2
    <2>8. slot(t) < slot(u)
      <3>1. t - 1 \in Int /\ u - 1 \in Int /\ (t - 1) + Period <= u - 1
        BY <2>0, <2>3, <2>5
      <3>2. slot(t) + 1 <= slot(u)
        BY <2>0, <3>1, DivMonotone DEF slot
      <3>3. QED
        BY <2>6, <3>2
    <2>9. slot(t) + authNum <= slot(u)
      BY <2>0, <2>6, <2>7, <2>8, SameRemainder
    <2>10. QED
      BY <2>9 DEF t, u
  <1>2. QED
    BY <1>1, Invariance, PTL

(***************************************************************************)
(* What Prepare and Seal make of the turns of inTurn is sound on every     *)
(* chain of every node (aura.go).                                          *)
(***************************************************************************)
THEOREM ChainsCorrect == Spec => []ChainsSound
  <1>1. TypeOK /\ TurnIsSlot /\ SealsVerify /\ OneBlockPerRound => ChainsSound
    BY DEF ChainsSound
  <1>2. QED
    BY <1>1, TypeCorrect, TurnCorrect, SealedVerifies, RoundsKept, PTL

----------------------------------------------------------------------------
(***************************************************************************)
(* As long as blocks arrive within a period and nothing is recommitted,    *)
(* there is one chain C: every node has a part of it, the block after each *)
(* part has one possible time, and the authority in turn at that time is   *)
(* about to import, to prepare or to seal.  t is the time of block 1.      *)
(***************************************************************************)
Pre(C, k) == [i \in 1 .. k |-> C[i]]

NextTime(C, t, k) == IF k = 0 THEN t ELSE C[k].time + Period

\* The blocks follow each other period by period, and their authors have them.
StraightChain(C, t) ==
    \A i \in 1 .. Len(C) :
        /\ C[i].time = NextTime(C, t, i - 1)
        /\ inTurn(C[i].signer, C[i].time)
        /\ C[i].signer \in Nodes
        /\ i <= Len(head[C[i].signer])

\* What a node has of the chain, and the work it does on it.
StraightNode(n, C, t) ==
    /\ Len(head[n]) <= Len(C) /\ head[n] = Pre(C, Len(head[n]))
    /\ known[n] = {Pre(C, k) : k \in 1 .. Len(head[n])}
    /\ request[n] => PrepareTime(TimeOf(head[n]), now) = NextTime(C, t, Len(head[n]))
    /\ task[n] # <<>> =>
        /\ Len(head[n]) = Len(C)
        /\ task[n] = Append(C, [time |-> NextTime(C, t, Len(C)), signer |-> n])
        /\ inTurn(n, NextTime(C, t, Len(C)))
        /\ now <= NextTime(C, t, Len(C))
    /\ Len(head[n]) = Len(C) /\ inTurn(n, NextTime(C, t, Len(C))) => request[n] \/ task[n] # <<>>
    /\ Len(head[n]) < Len(C) => now <= C[Len(head[n]) + 1].time + Period

Straight(C, t) == StraightChain(C, t) /\ \A n \in Nodes : StraightNode(n, C, t)

SmoothIsStraight == smooth => \E C \in Seq(Header), t \in Nat : Straight(C, t)

LEMMA PreLemma ==
    ASSUME NEW C \in Seq(Header), NEW k \in 0 .. Len(C)
    PROVE  /\ Pre(C, k) \in Seq(Header) /\ Len(Pre(C, k)) = k
           /\ k = 0 <=> Pre(C, k) = <<>>
           /\ k = 0 => TimeOf(Pre(C, k)) = 0
           /\ k > 0 => /\ C[k] \in Header /\ C[k].time \in Nat
                       /\ Last(Pre(C, k)) = C[k] /\ TimeOf(Pre(C, k)) = C[k].time
                       /\ Front(Pre(C, k)) = Pre(C, k - 1)
  <1>1. Pre(C, k) \in Seq(Header) /\ Len(Pre(C, k)) = k
    BY DEF Pre
  <1>2. k = 0 <=> Pre(C, k) = <<>>
    BY <1>1
  <1>3. ASSUME k > 0
        PROVE  /\ C[k] \in Header /\ C[k].time \in Nat
               /\ Last(Pre(C, k)) = C[k] /\ TimeOf(Pre(C, k)) = C[k].time
    <2>1. C[k] \in Header /\ C[k].time \in Nat
      <3>1. k \in 1 .. Len(C)
        BY <1>3
      <3>2. C[k] \in Header
        BY <3>1
      <3>3. QED
        BY <3>2 DEF Header
    <2>2. Last(Pre(C, k)) = Pre(C, k)[k]
      BY <1>1 DEF Last
    <2>3. Pre(C, k)[k] = C[k]
      BY <1>3 DEF Pre
    <2>4. QED
      BY <1>2, <1>3, <2>1, <2>2, <2>3 DEF TimeOf
  <1>4. ASSUME k > 0 PROVE Front(Pre(C, k)) = Pre(C, k - 1)
    <2> DEFINE s == Pre(C, k)
               f == SubSeq(s, 1, k - 1)
               g == Pre(C, k - 1)
    <2>1. Front(s) = f
      BY <1>1 DEF Front
    <2>2. k - 1 \in Nat /\ k \in Nat /\ DOMAIN s = 1 .. k
      BY <1>3, <1>4 DEF Pre
    <2>3. \A i \in 1 .. k - 1 : s[i] = C[i] /\ C[i] \in Header
      BY <2>2 DEF Pre
    <2>4. g \in Seq(Header) /\ Len(g) = k - 1 /\ \A i \in 1 .. k - 1 : g[i] = C[i]
      BY <2>2 DEF Pre
    <2> HIDE DEF g, s
    <2>5. /\ f \in Seq(Header) /\ Len(f) = k - 1
          /\ \A i \in 1 .. k - 1 : f[i] = s[i]
      <3> DEFINE j == k - 1
      <3>1. j \in Nat /\ \A i \in 1 .. j : s[i] \in Header
        BY <2>2, <2>3
      <3> HIDE DEF j
      <3>2. /\ SubSeq(s, 1, j) \in Seq(Header)
            /\ Len(SubSeq(s, 1, j)) = IF 1 <= j THEN j - 1 + 1 ELSE 0
            /\ \A i \in 1 .. j - 1 + 1 : SubSeq(s, 1, j)[i] = s[1 + i - 1]
        BY <3>1, SubSeqProperties
      <3>3. \A i \in 1 .. j : 1 + i - 1 = i
        BY <3>1
      <3>4. j - 1 + 1 = j
        BY <3>1
      <3>5. Len(SubSeq(s, 1, j)) = j
        BY <3>1, <3>2
      <3>6. QED
        BY <3>2, <3>3, <3>4, <3>5 DEF j
    <2> HIDE DEF f
    <2>6. f = g
      BY <2>3, <2>4, <2>5, SeqEqual
    <2>7. QED
      BY <2>1, <2>6 DEF f, g, s
  <1>5. TimeOf(<<>>) = 0
    BY DEF TimeOf
  <1>6. QED
    BY <1>1, <1>2, <1>3, <1>4, <1>5

LEMMA PreWhole ==
    ASSUME NEW C \in Seq(Header)
    PROVE  Pre(C, Len(C)) = C
  BY DEF Pre

LEMMA PreAppend ==
    ASSUME NEW C \in Seq(Header), NEW h \in Header, NEW k \in 0 .. Len(C)
    PROVE  Pre(Append(C, h), k) = Pre(C, k)
  BY DEF Pre

LEMMA NextTimeType ==
    ASSUME NEW C \in Seq(Header), NEW t \in Nat, NEW k \in 0 .. Len(C)
    PROVE  NextTime(C, t, k) \in Nat
  BY PreLemma, AuraAssumption DEF NextTime

\* One authority is in turn at a time.
LEMMA OneInTurn ==
    ASSUME NEW m, NEW n, NEW time, inTurn(m, time), inTurn(n, time)
    PROVE  m = n
  BY DEF inTurn

\* The chain starts empty, with everybody asked to work at the same moment.
LEMMA InitStraight == Init => SmoothIsStraight
  <1> SUFFICES ASSUME Init PROVE \E C \in Seq(Header), t \in Nat : Straight(C, t)
    BY DEF SmoothIsStraight
  <1> DEFINE t == PrepareTime(0, now)
  <1>1. now \in Nat /\ t \in Nat
    BY AuraAssumption DEF Init, authNum, PrepareTime
  <1>2. <<>> \in Seq(Header) /\ Len(<<>>) = 0 /\ TimeOf(<<>>) = 0 /\ Pre(<<>>, 0) = <<>>
    <2>1. <<>> \in Seq(Header) /\ Len(<<>>) = 0 /\ 0 \in 0 .. Len(<<>>)
      OBVIOUS
    <2>2. Pre(<<>>, 0) = <<>>
      BY <2>1, PreLemma
    <2>3. QED
      BY <2>1, <2>2 DEF TimeOf
  <1>3. StraightChain(<<>>, t)
    BY <1>2 DEF StraightChain
  <1>4. {Pre(<<>>, k) : k \in 1 .. 0} = {}
    OBVIOUS
  <1>5. \A n \in Nodes : StraightNode(n, <<>>, t)
    BY <1>2, <1>4 DEF Init, StraightNode, NextTime
  <1>6. QED
    BY <1>1, <1>2, <1>3, <1>5 DEF Straight

(***************************************************************************)
(* commitNewWork: on the end of the chain it prepares the next block if it *)
(* is in turn; on a shorter part it is not, since the author of the block  *)
(* after that part is in turn then and has the block.                      *)
(***************************************************************************)
LEMMA CommitStraight ==
    ASSUME IInv, NEW C \in Seq(Header), NEW t \in Nat, Straight(C, t),
           NEW n \in Nodes, commitNewWork(n)
    PROVE  Straight(C, t)'
  <1> DEFINE k == Len(head[n])
             T == PrepareTime(TimeOf(head[n]), now)
             w == IF inTurn(n, T) THEN Append(head[n], [time |-> T, signer |-> n]) ELSE <<>>
  <1>1. /\ request[n] /\ request' = [request EXCEPT ![n] = FALSE]
        /\ task' = [task EXCEPT ![n] = w] /\ UNCHANGED <<now, head, known>>
    BY DEF commitNewWork
  <1>2. StraightNode(n, C, t) /\ StraightChain(C, t)
    BY DEF Straight
  <1>3. T = NextTime(C, t, k) /\ k \in 0 .. Len(C) /\ head[n] = Pre(C, k)
    BY <1>1, <1>2 DEF StraightNode, IInv, TypeOK
  <1>4. T \in Nat /\ now <= T
    BY AuraAssumption, TimeOfLemma DEF PrepareTime, IInv, TypeOK
  <1>5. StraightChain(C, t)'
    BY <1>1, <1>2 DEF StraightChain, NextTime
  <1>6. ASSUME NEW m \in Nodes, m # n PROVE StraightNode(m, C, t)'
    BY <1>1, <1>6 DEF Straight, StraightNode, IInv, TypeOK, NextTime
  <1> HIDE DEF T
  <1>7. StraightNode(n, C, t)'
    <2>1. task'[n] = w /\ ~request'[n]
      BY <1>1 DEF IInv, TypeOK
    <2>2. CASE k = Len(C)
      <3>1. head[n] = C
        BY <1>3, <2>2, PreWhole
      <3>2. inTurn(n, T) => w # <<>>
        BY <3>1
      <3>3. QED
        BY <1>1, <1>2, <1>3, <1>4, <2>1, <2>2, <3>1, <3>2 DEF StraightNode
    <2>3. CASE k < Len(C)
      <3>1. k + 1 \in 1 .. Len(C) /\ (k + 1) - 1 = k
        BY <1>3, <2>3
      <3>2. C[k + 1].time = T /\ inTurn(C[k + 1].signer, T) /\ k + 1 <= Len(head[C[k + 1].signer])
        BY <1>2, <1>3, <3>1 DEF StraightChain
      <3>3. ~inTurn(n, T)
        BY <1>3, <3>2, OneInTurn
      <3>4. w = <<>>
        BY <3>3
      <3>5. QED
        BY <1>1, <1>2, <2>1, <2>3, <3>4 DEF StraightNode
    <2>4. QED
      BY <1>3, <2>2, <2>3
  <1>8. QED
    BY <1>5, <1>6, <1>7 DEF Straight

\* A longer chain replaces the head and asks for work.
LEMMA LongerLemma ==
    ASSUME TypeOK, NEW n \in Nodes, NEW chain \in Seq(Header), Len(head[n]) < Len(chain),
           WriteBlock(n, chain)
    PROVE  /\ known' = [known EXCEPT ![n] = @ \cup {chain}]
           /\ head' = [head EXCEPT ![n] = chain]
           /\ request' = [request EXCEPT ![n] = TRUE]
  <1>1. Len(head[n]) \in Nat /\ Len(chain) \in Nat
    BY DEF TypeOK
  <1>2. Len(chain) # Len(head[n]) /\ (Len(chain) > Len(head[n])) = TRUE
    BY <1>1
  <1>3. Reorgs(n, chain) = {TRUE}
    BY <1>2, Zenon DEF Reorgs
  <1>4. QED
    BY <1>3 DEF WriteBlock

(***************************************************************************)
(* Seal: the one task there is adds the next block to the chain, at its    *)
(* time, and its author turns to the block after it.                       *)
(***************************************************************************)
LEMMA SealStraight ==
    ASSUME IInv, NEW C \in Seq(Header), NEW t \in Nat, Straight(C, t),
           NEW n \in Nodes, Seal(n)
    PROVE  \E D \in Seq(Header) : Straight(D, t)'
  <1> DEFINE T == NextTime(C, t, Len(C))
             h == [time |-> T, signer |-> n]
             D == Append(C, h)
             l == Len(C)
  <1>0. l \in Nat /\ T \in Nat /\ Period \in Nat \ {0} /\ now \in Nat
    BY NextTimeType, AuraAssumption DEF IInv, TypeOK
  <1>1. h \in Header /\ h.time = T /\ h.signer = n
    BY <1>0, NetAssumption DEF Header
  <1>2. StraightChain(C, t) /\ \A m \in Nodes : StraightNode(m, C, t)
    BY DEF Straight
  <1>3. /\ task[n] = D /\ task[n] # <<>> /\ TimeOf(task[n]) <= now /\ now <= T
        /\ inTurn(n, T) /\ Len(head[n]) = l /\ head[n] = C
    BY <1>2, PreWhole DEF Seal, StraightNode
  <1> HIDE DEF h
  <1>4. /\ D \in Seq(Header) /\ Len(D) = l + 1 /\ D[l + 1] = h
        /\ \A i \in 1 .. l : D[i] = C[i]
    BY <1>1
  <1> HIDE DEF D
  <1>5. T = now
    <2>1. Last(D) = h
      BY <1>4 DEF Last
    <2>2. TimeOf(D) = T
      BY <1>1, <1>3, <2>1 DEF TimeOf
    <2>3. QED
      BY <1>0, <1>3, <2>2
  <1>6. /\ known' = [known EXCEPT ![n] = @ \cup {D}] /\ head' = [head EXCEPT ![n] = D]
        /\ request' = [request EXCEPT ![n] = TRUE] /\ task' = [task EXCEPT ![n] = <<>>]
        /\ now' = now
    <2>1. WriteBlock(n, D) /\ task' = [task EXCEPT ![n] = <<>>] /\ now' = now
      BY <1>3 DEF Seal
    <2>2. Len(head[n]) < Len(D) /\ TypeOK
      BY <1>0, <1>3, <1>4 DEF IInv
    <2>3. QED
      BY <1>4, <2>1, <2>2, LongerLemma
  <1>7. /\ \A k \in 0 .. l : Pre(D, k) = Pre(C, k) /\ NextTime(D, t, k) = NextTime(C, t, k)
        /\ Pre(D, l + 1) = D /\ NextTime(D, t, l + 1) = T + Period
    <2>1. \A k \in 0 .. l : Pre(D, k) = Pre(C, k)
      BY <1>1, PreAppend DEF D
    <2>2. \A k \in 0 .. l : NextTime(D, t, k) = NextTime(C, t, k)
      BY <1>0, <1>4 DEF NextTime
    <2>3. Pre(D, l + 1) = D
      BY <1>4, PreWhole
    <2>4. NextTime(D, t, l + 1) = T + Period
      BY <1>0, <1>1, <1>4 DEF NextTime
    <2>5. QED
      BY <2>1, <2>2, <2>3, <2>4
  <1>8. \A m \in Nodes : head[m] \in Seq(Header) /\ Len(head[m]) \in 0 .. l
    <2> SUFFICES ASSUME NEW m \in Nodes PROVE head[m] \in Seq(Header) /\ Len(head[m]) \in 0 .. l
      OBVIOUS
    <2>1. head[m] \in Seq(Header) /\ Len(head[m]) <= Len(C)
      BY <1>2 DEF StraightNode, IInv, TypeOK
    <2>2. QED
      BY <1>0, <2>1
  <1>9. StraightChain(D, t)'
    <2> SUFFICES ASSUME NEW i \in 1 .. l + 1
                 PROVE  /\ D[i].time = NextTime(D, t, i - 1)
                        /\ inTurn(D[i].signer, D[i].time)
                        /\ D[i].signer \in Nodes
                        /\ i <= Len(head'[D[i].signer])
      BY <1>4 DEF StraightChain, NextTime
    <2>1. CASE i = l + 1
      <3>1. D[i] = h /\ i - 1 = l /\ head'[n] = D
        BY <1>0, <1>4, <1>6, <2>1 DEF IInv, TypeOK
      <3>2. QED
        BY <1>0, <1>1, <1>3, <1>4, <1>7, <2>1, <3>1
    <2>2. CASE i \in 1 .. l
      <3>1. i - 1 \in 0 .. l /\ D[i] = C[i]
        BY <1>0, <1>4, <2>2
      <3>2. /\ C[i].time = NextTime(C, t, i - 1) /\ inTurn(C[i].signer, C[i].time)
            /\ C[i].signer \in Nodes /\ i <= Len(head[C[i].signer])
        BY <1>2, <2>2 DEF StraightChain
      <3>3. head'[C[i].signer] = IF C[i].signer = n THEN D ELSE head[C[i].signer]
        BY <1>6, <3>2 DEF IInv, TypeOK
      <3>4. i <= Len(head'[C[i].signer])
        BY <1>0, <1>4, <2>2, <3>2, <3>3
      <3>5. QED
        BY <1>7, <3>1, <3>2, <3>4
    <2>3. QED
      BY <1>0, <2>1, <2>2
  <1>10. ASSUME NEW m \in Nodes, m # n PROVE StraightNode(m, D, t)'
    <2> DEFINE k == Len(head[m])
    <2>1. head'[m] = head[m] /\ known'[m] = known[m] /\ request'[m] = request[m] /\ task'[m] = task[m]
      BY <1>6, <1>10 DEF IInv, TypeOK
    <2>2. task[m] = <<>>
      BY <1>2, <1>3, <1>10, OneInTurn DEF StraightNode
    <2>3. k \in 0 .. l /\ k + 1 \in 1 .. l + 1
      BY <1>0, <1>8
    <2>4. head[m] = Pre(D, k) /\ known[m] = {Pre(D, j) : j \in 1 .. k}
      <3>1. head[m] = Pre(C, k) /\ known[m] = {Pre(C, j) : j \in 1 .. k}
        BY <1>2 DEF StraightNode
      <3>2. \A j \in 1 .. k : j \in 0 .. l
        BY <1>0, <2>3
      <3>3. QED
        BY <1>7, <2>3, <3>1, <3>2
    <2>5. request[m] => PrepareTime(TimeOf(head[m]), now) = NextTime(D, t, k)
      BY <1>2, <1>7, <2>3 DEF StraightNode
    <2>6. now <= D[k + 1].time + Period
      <3>1. CASE k = l
        BY <1>0, <1>1, <1>4, <1>5, <3>1
      <3>2. CASE k < l
        <4>1. k + 1 \in 1 .. l
          BY <1>0, <2>3, <3>2
        <4>2. QED
          BY <1>2, <1>4, <3>2, <4>1 DEF StraightNode
      <3>3. QED
        BY <1>0, <2>3, <3>1, <3>2
    <2>7. k < Len(D) /\ k <= Len(D) /\ k # Len(D)
      BY <1>0, <1>4, <2>3
    <2>8. /\ Len(head'[m]) <= Len(D) /\ Len(head'[m]) # Len(D)
          /\ head'[m] = Pre(D, Len(head'[m]))
          /\ known'[m] = {Pre(D, j) : j \in 1 .. Len(head'[m])}
      BY <2>1, <2>4, <2>7
    <2>9. request'[m] => PrepareTime(TimeOf(head'[m]), now') = NextTime(D, t, Len(head'[m]))
      BY <1>6, <2>1, <2>5
    <2>10. now' <= D[Len(head'[m]) + 1].time + Period
      BY <1>6, <2>1, <2>6
    <2>11. task'[m] = <<>>
      BY <2>1, <2>2
    <2>12. QED
      BY <2>8, <2>9, <2>10, <2>11 DEF StraightNode
  <1>11. StraightNode(n, D, t)'
    <2>1. head'[n] = D /\ known'[n] = known[n] \cup {D} /\ request'[n] /\ task'[n] = <<>>
      BY <1>6 DEF IInv, TypeOK
    <2>2. known'[n] = {Pre(D, j) : j \in 1 .. l + 1}
      <3>1. known[n] = {Pre(C, j) : j \in 1 .. l}
        BY <1>2, <1>3 DEF StraightNode
      <3>2. \A j \in 1 .. l : Pre(C, j) = Pre(D, j)
        BY <1>0, <1>7
      <3>3. known[n] = {Pre(D, j) : j \in 1 .. l}
        BY <3>1, <3>2
      <3>4. \A j : j \in 1 .. l + 1 <=> j \in 1 .. l \/ j = l + 1
        BY <1>0
      <3>5. QED
        BY <1>7, <2>1, <3>3, <3>4
    <2>3. PrepareTime(TimeOf(D), now) = NextTime(D, t, l + 1)
      <3>1. TimeOf(D) = T
        BY <1>1, <1>3, <1>4 DEF TimeOf, Last
      <3>2. QED
        BY <1>0, <1>5, <1>7, <3>1 DEF PrepareTime
    <2>4. QED
      BY <1>0, <1>4, <1>6, <1>7, <2>1, <2>2, <2>3 DEF StraightNode, NextTime
  <1>12. QED
    BY <1>4, <1>9, <1>10, <1>11 DEF Straight

(***************************************************************************)
(* Import: a node takes the blocks of the chain in order, each no later    *)
(* than the time of the one after it.                                      *)
(***************************************************************************)
LEMMA ImportStraight ==
    ASSUME IInv, NEW C \in Seq(Header), NEW t \in Nat, Straight(C, t),
           NEW n \in Nodes, NEW chain \in Sealed, Import(n, chain)
    PROVE  Straight(C, t)'
  <1> DEFINE k == Len(head[n])
             l == Len(C)
  <1>0. Period \in Nat \ {0} /\ now \in Nat /\ l \in Nat /\ TypeOK
    BY AuraAssumption DEF IInv, TypeOK
  <1>1. StraightChain(C, t) /\ \A m \in Nodes : StraightNode(m, C, t)
    BY DEF Straight
  <1>2. \A m \in Nodes : head[m] \in Seq(Header) /\ Len(head[m]) \in 0 .. l
    <2> SUFFICES ASSUME NEW m \in Nodes PROVE head[m] \in Seq(Header) /\ Len(head[m]) \in 0 .. l
      OBVIOUS
    <2>1. head[m] \in Seq(Header) /\ Len(head[m]) <= Len(C)
      BY <1>0, <1>1 DEF StraightNode, TypeOK
    <2>2. QED
      BY <1>0, <2>1
  <1>3. k \in 0 .. l /\ known[n] = {Pre(C, j) : j \in 1 .. k}
    BY <1>1, <1>2 DEF StraightNode
  <1>4. PICK j \in 1 .. l : chain = Pre(C, j)
    <2>1. PICK m \in Nodes : chain \in known[m]
      BY DEF Sealed
    <2>2. PICK j \in 1 .. Len(head[m]) : chain = Pre(C, j)
      <3>1. known[m] = {Pre(C, j) : j \in 1 .. Len(head[m])}
        BY <1>1 DEF StraightNode
      <3>2. QED
        BY <2>1, <3>1
    <2>3. j \in 1 .. l
      BY <1>0, <1>2, <2>2
    <2>4. QED
      BY <2>2, <2>3
  <1>5. /\ chain \in Seq(Header) /\ Len(chain) = j /\ C[j].time \in Nat
        /\ TimeOf(chain) = C[j].time /\ Front(chain) = Pre(C, j - 1)
    <2>1. j \in 0 .. Len(C) /\ j > 0
      BY <1>0, <1>4
    <2>2. QED
      BY <1>4, <2>1, PreLemma
  <1>6. j = k + 1
    <2>1. ~(j <= k)
      <3> SUFFICES ASSUME j <= k PROVE FALSE
        OBVIOUS
      <3>1. j \in 1 .. k
        BY <1>3, <1>4
      <3>2. chain \in known[n]
        BY <1>3, <1>4, <3>1
      <3>3. QED
        BY <3>2 DEF Import
    <2>2. CASE j = 1
      BY <1>3, <2>1, <2>2
    <2>3. CASE j > 1
      <3>1. Pre(C, j - 1) \in known[n]
        BY <1>5, <2>3 DEF Import
      <3>2. PICK i \in 1 .. k : Pre(C, j - 1) = Pre(C, i)
        BY <1>3, <3>1
      <3>3. j - 1 \in 0 .. Len(C) /\ i \in 0 .. Len(C)
        BY <1>0, <1>3, <1>4, <3>2
      <3>4. Len(Pre(C, j - 1)) = j - 1 /\ Len(Pre(C, i)) = i
        BY <3>3, PreLemma
      <3>5. QED
        BY <1>3, <1>4, <2>1, <3>2, <3>4
    <2>4. QED
      BY <1>4, <2>2, <2>3
  <1>7. /\ known' = [known EXCEPT ![n] = @ \cup {chain}] /\ head' = [head EXCEPT ![n] = chain]
        /\ request' = [request EXCEPT ![n] = TRUE] /\ task' = task /\ now' = now
    <2>1. WriteBlock(n, chain) /\ task' = task /\ now' = now
      BY DEF Import
    <2>2. Len(head[n]) < Len(chain)
      BY <1>3, <1>5, <1>6
    <2>3. QED
      BY <1>0, <1>5, <2>1, <2>2, LongerLemma
  <1>8. StraightChain(C, t)'
    <2> SUFFICES ASSUME NEW i \in 1 .. l
                 PROVE  /\ C[i].time = NextTime(C, t, i - 1)
                        /\ inTurn(C[i].signer, C[i].time)
                        /\ C[i].signer \in Nodes
                        /\ i <= Len(head'[C[i].signer])
      BY DEF StraightChain, NextTime
    <2>1. /\ C[i].time = NextTime(C, t, i - 1) /\ inTurn(C[i].signer, C[i].time)
          /\ C[i].signer \in Nodes /\ i <= Len(head[C[i].signer])
      BY <1>1 DEF StraightChain
    <2>2. head'[C[i].signer] = IF C[i].signer = n THEN chain ELSE head[C[i].signer]
      BY <1>0, <1>7, <2>1 DEF TypeOK
    <2>3. i <= Len(head'[C[i].signer])
      BY <1>3, <1>5, <1>6, <2>1, <2>2
    <2>4. QED
      BY <2>1, <2>3
  <1>9. ASSUME NEW m \in Nodes, m # n PROVE StraightNode(m, C, t)'
    <2>1. /\ head'[m] = head[m] /\ known'[m] = known[m] /\ request'[m] = request[m]
          /\ task'[m] = task[m] /\ now' = now
      BY <1>0, <1>7, <1>9 DEF TypeOK
    <2>2. StraightNode(m, C, t)
      BY <1>1
    <2>3. QED
      BY <2>1, <2>2 DEF StraightNode, NextTime
  <1>10. StraightNode(n, C, t)'
    <2>1. /\ head'[n] = chain /\ known'[n] = known[n] \cup {chain} /\ request'[n]
          /\ task'[n] = task[n] /\ now' = now
      BY <1>0, <1>7 DEF TypeOK
    <2>0. StraightNode(n, C, t) /\ k < Len(C) /\ k # Len(C)
      BY <1>0, <1>1, <1>3, <1>4, <1>6
    <2>2. task[n] = <<>>
      BY <2>0 DEF StraightNode
    <2>3. known'[n] = {Pre(C, i) : i \in 1 .. j}
      <3>1. \A i : i \in 1 .. j <=> i \in 1 .. k \/ i = j
        BY <1>3, <1>4, <1>6
      <3>2. QED
        BY <1>3, <1>4, <2>1, <3>1
    <2>4. now <= C[j].time + Period
      BY <1>6, <2>0 DEF StraightNode
    <2>5. PrepareTime(TimeOf(chain), now) = NextTime(C, t, j)
      BY <1>0, <1>4, <1>5, <2>4 DEF PrepareTime, NextTime
    <2>6. ASSUME j < l PROVE now <= C[j + 1].time + Period
      <3>1. j + 1 \in 1 .. l /\ (j + 1) - 1 = j /\ j # 0
        BY <1>0, <1>4, <2>6
      <3>2. C[j + 1].time = C[j].time + Period
        BY <1>1, <3>1 DEF StraightChain, NextTime
      <3>3. QED
        BY <1>0, <1>5, <2>4, <3>2
    <2>7. /\ Len(head'[n]) <= Len(C) /\ head'[n] = Pre(C, Len(head'[n]))
          /\ known'[n] = {Pre(C, i) : i \in 1 .. Len(head'[n])}
      BY <1>4, <1>5, <2>1, <2>3
    <2>8. PrepareTime(TimeOf(head'[n]), now') = NextTime(C, t, Len(head'[n]))
      BY <1>5, <2>1, <2>5
    <2>9. Len(head'[n]) < Len(C) => now' <= C[Len(head'[n]) + 1].time + Period
      BY <1>5, <2>1, <2>6
    <2>10. task'[n] = <<>> /\ request'[n]
      BY <2>1, <2>2
    <2>11. QED
      BY <2>7, <2>8, <2>9, <2>10 DEF StraightNode
  <1>11. QED
    BY <1>8, <1>9, <1>10 DEF Straight

(***************************************************************************)
(* Tick: nobody has work to commit, tasks wait for later, and what is      *)
(* under way is less than a period old.                                    *)
(***************************************************************************)
LEMMA TickStraight ==
    ASSUME IInv, NEW C \in Seq(Header), NEW t \in Nat, Straight(C, t), Tick, smooth'
    PROVE  Straight(C, t)'
  <1>0. Period \in Nat \ {0} /\ now \in Nat /\ Len(C) \in Nat
    BY AuraAssumption DEF IInv, TypeOK
  <1>1. StraightChain(C, t) /\ \A m \in Nodes : StraightNode(m, C, t)
    BY DEF Straight
  <1>2. /\ Timely /\ now' = now + 1 /\ UNCHANGED <<head, known, request, task>>
        /\ \A n \in Nodes : ~request[n] /\ (task[n] # <<>> => TimeOf(task[n]) > now)
    BY DEF Tick
  <1>3. StraightChain(C, t)'
    BY <1>1, <1>2 DEF StraightChain, NextTime
  <1>4. ASSUME NEW n \in Nodes PROVE StraightNode(n, C, t)'
    <2> DEFINE k == Len(head[n])
               T == NextTime(C, t, Len(C))
    <2>1. StraightNode(n, C, t) /\ k \in 0 .. Len(C)
      <3>1. head[n] \in Seq(Header) /\ Len(head[n]) <= Len(C) /\ StraightNode(n, C, t)
        BY <1>1 DEF StraightNode, IInv, TypeOK
      <3>2. QED
        BY <1>0, <3>1
    <2>2. ASSUME task[n] # <<>> PROVE now + 1 <= T
      <3>0. Len(C) \in 0 .. Len(C)
        BY <1>0
      <3>1. T \in Nat /\ [time |-> T, signer |-> n] \in Header
        BY <3>0, NextTimeType, NetAssumption DEF Header
      <3> DEFINE h == [time |-> T, signer |-> n]
                 D == Append(C, h)
      <3>2. task[n] = D
        BY <2>1, <2>2 DEF StraightNode
      <3>3. h \in Header /\ h.time = T
        BY <3>1
      <3> HIDE DEF h, T
      <3>4. Len(D) = Len(C) + 1 /\ D[Len(C) + 1] = h /\ D # <<>>
        BY <1>0, <3>3
      <3> HIDE DEF D
      <3>5. TimeOf(D) = T
        BY <3>3, <3>4 DEF TimeOf, Last
      <3>6. QED
        BY <1>0, <1>2, <2>2, <3>1, <3>2, <3>5
    <2>3. ASSUME k < Len(C) PROVE now + 1 <= C[k + 1].time + Period
      <3> DEFINE c == Pre(C, k + 1)
      <3>1. k + 1 \in 1 .. Len(C) /\ k + 1 \in 0 .. Len(C) /\ k + 1 > 0 /\ k + 1 \notin 1 .. k
        BY <1>0, <2>1, <2>3
      <3>2. Len(c) = k + 1 /\ TimeOf(c) = C[k + 1].time /\ C[k + 1].time \in Nat
        BY <3>1, PreLemma
      <3>3. c \in Sealed
        <4> DEFINE m == C[k + 1].signer
        <4>1. m \in Nodes /\ k + 1 <= Len(head[m]) /\ StraightNode(m, C, t)
          BY <1>1, <3>1 DEF StraightChain
        <4>2. Len(head[m]) \in Nat
          BY <4>1 DEF IInv, TypeOK
        <4>3. k + 1 \in 1 .. Len(head[m])
          BY <3>1, <4>1, <4>2
        <4>4. c \in known[m]
          BY <4>1, <4>3 DEF StraightNode
        <4>5. QED
          BY <4>1, <4>4 DEF Sealed
      <3>4. c \notin known[n]
        <4> SUFFICES ASSUME c \in known[n] PROVE FALSE
          OBVIOUS
        <4>1. PICK i \in 1 .. k : c = Pre(C, i)
          BY <2>1 DEF StraightNode
        <4>2. i \in 0 .. Len(C)
          BY <1>0, <2>1, <4>1
        <4>3. Len(Pre(C, i)) = i
          BY <4>2, PreLemma
        <4>4. QED
          BY <3>1, <3>2, <4>1, <4>3
      <3>5. now < TimeOf(c) + Period
        BY <1>2, <3>3, <3>4 DEF Timely
      <3>6. QED
        BY <1>0, <3>2, <3>5
    <2>4. /\ head'[n] = head[n] /\ known'[n] = known[n] /\ request'[n] = request[n]
          /\ task'[n] = task[n] /\ now' = now + 1 /\ ~request[n]
      BY <1>2
    <2>5. QED
      BY <2>1, <2>2, <2>3, <2>4 DEF StraightNode, NextTime
  <1>5. QED
    BY <1>3, <1>4 DEF Straight

LEMMA StepStraight == IInv /\ SmoothIsStraight /\ [Next]_vars => SmoothIsStraight'
  <1> SUFFICES ASSUME IInv, SmoothIsStraight, [Next]_vars, smooth'
               PROVE  \E C \in Seq(Header), t \in Nat : Straight(C, t)'
    BY DEF SmoothIsStraight
  <1>1. smooth
    BY DEF Next, commitNewWork, Seal, Recommit, Import, Tick, vars
  <1>2. PICK C \in Seq(Header), t \in Nat : Straight(C, t)
    BY <1>1 DEF SmoothIsStraight
  <1>3. ASSUME NEW n \in Nodes, commitNewWork(n) \/ Seal(n) \/ Recommit(n)
        PROVE  \E D \in Seq(Header) : Straight(D, t)'
    BY <1>2, <1>3, CommitStraight, SealStraight DEF Recommit
  <1>4. ASSUME NEW n \in Nodes, NEW chain \in Sealed, Import(n, chain)
        PROVE  Straight(C, t)'
    BY <1>2, <1>4, ImportStraight
  <1>5. CASE Tick
    BY <1>2, <1>5, TickStraight
  <1>6. CASE UNCHANGED vars
    BY <1>2, <1>6 DEF vars, Straight, StraightChain, StraightNode, NextTime
  <1>7. QED
    BY <1>2, <1>3, <1>4, <1>5, <1>6 DEF Next

(***************************************************************************)
(* With every authority online the chain goes on without a retry: while    *)
(* blocks arrive within a period and no transactions ask for work twice,   *)
(* some node prepares, seals or is about to receive the next block, for    *)
(* every period and every number of authorities (aura.go, worker.go).      *)
(***************************************************************************)
THEOREM ChainGoesOn ==
    ASSUME \A i \in DOMAIN Authorities : Authorities[i] \in Nodes
    PROVE  Spec => []NeverStalls
  <1>1. IInv /\ SmoothIsStraight => NeverStalls
    <2> SUFFICES ASSUME IInv, SmoothIsStraight, smooth
                 PROVE  \/ \E n \in Nodes : request[n] \/ task[n] # <<>>
                        \/ \E n \in Nodes : \E chain \in Sealed \ known[n] :
                              Len(chain) > Len(head[n])
      BY DEF NeverStalls
    <2>1. PICK C \in Seq(Header), t \in Nat : Straight(C, t)
      BY DEF SmoothIsStraight
    <2> DEFINE T == NextTime(C, t, Len(C))
               a == Authorities[turn(T) + 1]
               l == Len(C)
    <2>2. T \in Nat /\ l \in Nat
      <3>1. l \in Nat /\ l \in 0 .. Len(C)
        OBVIOUS
      <3>2. QED
        BY <3>1, NextTimeType
    <2>3. a \in Nodes /\ inTurn(a, T)
      <3>1. turn(T) \in 0 .. authNum - 1
        BY <2>2, TurnLemma
      <3>2. turn(T) + 1 \in DOMAIN Authorities
        BY <3>1, AuraAssumption DEF authNum
      <3>3. QED
        BY <3>2 DEF inTurn
    <2> HIDE DEF a, T
    <2>4. StraightNode(a, C, t) /\ StraightChain(C, t)
      BY <2>1, <2>3 DEF Straight
    <2>5. Len(head[a]) \in 0 .. l
      <3>1. head[a] \in Seq(Header) /\ Len(head[a]) <= Len(C)
        BY <2>3, <2>4 DEF StraightNode, IInv, TypeOK
      <3>2. QED
        BY <2>2, <3>1
    <2>6. CASE Len(head[a]) = l
      BY <2>3, <2>4, <2>6 DEF StraightNode, T
    <2>7. CASE Len(head[a]) < l
      <3>1. l \in 1 .. l
        BY <2>2, <2>5, <2>7
      <3> DEFINE m == C[l].signer
      <3>2. m \in Nodes /\ l <= Len(head[m]) /\ StraightNode(m, C, t)
        BY <2>1, <2>4, <3>1 DEF StraightChain, Straight
      <3>3. Len(head[m]) \in Nat
        BY <3>2 DEF IInv, TypeOK
      <3>4. Pre(C, l) \in known[m]
        <4>1. l \in 1 .. Len(head[m])
          BY <3>1, <3>2, <3>3
        <4>2. QED
          BY <3>2, <4>1 DEF StraightNode
      <3>5. C \in Sealed
        BY <3>2, <3>4, PreWhole DEF Sealed
      <3>6. C \notin known[a]
        <4> SUFFICES ASSUME C \in known[a] PROVE FALSE
          OBVIOUS
        <4>1. PICK i \in 1 .. Len(head[a]) : C = Pre(C, i)
          BY <2>4 DEF StraightNode
        <4>2. i \in 0 .. Len(C) /\ i < l
          BY <2>2, <2>5, <2>7, <4>1
        <4>3. Len(Pre(C, i)) = i
          BY <4>2, PreLemma
        <4>4. QED
          BY <2>2, <4>1, <4>2, <4>3
      <3>7. Len(C) > Len(head[a])
        BY <2>2, <2>5, <2>7
      <3>8. QED
        BY <2>3, <3>5, <3>6, <3>7
    <2>8. QED
      BY <2>2, <2>5, <2>6, <2>7
  <1>2. QED
    BY <1>1, Invariance, InitStraight, StepStraight, PTL DEF Spec

----------------------------------------------------------------------------

(***************************************************************************)
(* The miner of one node: whatever the synchronisations do and however     *)
(* often the node stops, a request to mine is kept, and the downloader     *)
(* halts a miner at most once.                                             *)
(***************************************************************************)
\* While the gate is closed the miner still listens: it was closed by an event,
\* and the event that ends the subscription opens it.
GateListens == ~miner.canStart => miner.subscribed

\* After an end of a synchronisation reached the miner it listens no more.
EndedIsDeaf == ended => ~miner.subscribed

MinerInv == MinerTypeOK /\ OneSyncer /\ MiningRequestKept /\ GateListens /\ EndedIsDeaf

\* Events leave a miner whose request was kept with the request kept.
Kept(m) == m.running \/ (m.shouldStart /\ ~m.canStart /\ m.subscribed)

(***************************************************************************)
(* Miner.update on a StartEvent, received by a miner that listens.         *)
(***************************************************************************)
LEMMA StartEventLemma ==
    ASSUME NEW m \in MinerState, m.subscribed
    PROVE  /\ update_StartEvent(m) \in MinerState
           /\ update_StartEvent(m).subscribed
           /\ Kept(m) => Kept(update_StartEvent(m))
  BY DEF update_StartEvent, Stop, MinerState, Kept

(***************************************************************************)
(* Miner.Start, with the gate open or closed.                              *)
(***************************************************************************)
LEMMA StartLemma ==
    ASSUME NEW m \in MinerState
    PROVE  /\ Start(m) \in MinerState
           /\ Start(m).canStart = m.canStart
           /\ Start(m).subscribed = m.subscribed
           /\ m.running => Start(m).running
           /\ m.canStart => Start(m).running
           /\ ~m.canStart => Start(m).shouldStart
  <1> DEFINE s == [m EXCEPT !.shouldStart = TRUE]
  <1>1. /\ s \in MinerState /\ s.shouldStart /\ s.canStart = m.canStart
        /\ s.subscribed = m.subscribed /\ s.running = m.running
    BY DEF MinerState
  <1>2. CASE s.canStart
    <2>1. Start(m) = start(s)
      BY <1>2 DEF Start
    <2>2. QED
      BY <1>1, <1>2, <2>1 DEF start, commitWork, MinerState
  <1>3. CASE ~s.canStart
    BY <1>1, <1>3 DEF Start
  <1>4. QED
    BY <1>2, <1>3

(***************************************************************************)
(* Miner.update on a DoneEvent or FailedEvent.                             *)
(***************************************************************************)
LEMMA EndEventLemma ==
    ASSUME NEW m \in MinerState
    PROVE  /\ update_EndEvent(m) \in MinerState
           /\ update_EndEvent(m).canStart
           /\ ~update_EndEvent(m).subscribed
           /\ Kept(m) => Kept(update_EndEvent(m))
  <1> DEFINE s == [m EXCEPT !.canStart = TRUE, !.shouldStart = FALSE]
             t == IF m.shouldStart THEN Start(s) ELSE s
  <1>1. s \in MinerState /\ s.canStart /\ s.running = m.running
    BY DEF MinerState
  <1>2. /\ t \in MinerState /\ t.canStart
        /\ m.running => t.running
        /\ m.shouldStart => t.running
    BY <1>1, StartLemma
  <1>3. update_EndEvent(m) = [t EXCEPT !.subscribed = FALSE]
    BY DEF update_EndEvent
  <1> HIDE DEF t
  <1>4. QED
    BY <1>2, <1>3 DEF MinerState, Kept

(***************************************************************************)
(* commitWork leaves the gate, the subscription and running alone.         *)
(***************************************************************************)
LEMMA CommitWorkLemma ==
    ASSUME NEW m \in MinerState
    PROVE  /\ commitWork(m) \in MinerState
           /\ commitWork(m).canStart = m.canStart
           /\ commitWork(m).shouldStart = m.shouldStart
           /\ commitWork(m).subscribed = m.subscribed
           /\ commitWork(m).running = m.running
  BY DEF commitWork, MinerState

\* What the steps of the worker share: they touch none of the miner's own fields.
SameGate(m) ==
    /\ m \in MinerState
    /\ m.canStart = miner.canStart
    /\ m.shouldStart = miner.shouldStart
    /\ m.subscribed = miner.subscribed
    /\ m.running = miner.running

LEMMA WorkLemma ==
    ASSUME MinerInv, NEW m, SameGate(m), Work(m)
    PROVE  MinerInv'
  BY DEF MinerInv, MinerTypeOK, OneSyncer, MiningRequestKept, GateListens, EndedIsDeaf, SameGate, Work

LEMMA PostTaskLemma ==
    ASSUME NEW m0 \in MinerState, NEW m \in PostTask(m0)
    PROVE  /\ m \in MinerState
           /\ m.canStart = m0.canStart
           /\ m.shouldStart = m0.shouldStart
           /\ m.subscribed = m0.subscribed
           /\ m.running = m0.running
  BY DEF PostTask, MinerState

(***************************************************************************)
(* A synchronisation that begins: busy, or a StartEvent that is delivered  *)
(* or dropped by the stopped feed.                                         *)
(***************************************************************************)
LEMMA SynchroniseLemma ==
    ASSUME MinerInv, NEW r \in {"cycle", "message"}, synchronise(r), blockRunner' \in BOOLEAN
    PROVE  MinerInv'
  <1>1. CASE miner' = miner
    BY <1>1 DEF MinerInv, MinerTypeOK, OneSyncer, MiningRequestKept, GateListens, EndedIsDeaf, synchronise
  <1>2. CASE Delivered /\ miner' = update_StartEvent(miner) /\ synchronising' = TRUE /\ syncer' = r
    <2>1. /\ miner' \in MinerState /\ miner'.subscribed
          /\ Kept(miner) => Kept(miner')
      BY <1>2, StartEventLemma DEF MinerInv, MinerTypeOK, Delivered
    <2>2. MinerTypeOK'
      BY <1>2, <2>1 DEF MinerInv, MinerTypeOK, synchronise
    <2>3. OneSyncer' /\ MiningRequestKept' /\ GateListens' /\ EndedIsDeaf'
      BY <1>2, <2>1 DEF MinerInv, OneSyncer, MiningRequestKept, GateListens, EndedIsDeaf, Kept, Delivered, synchronise
    <2>4. QED
      BY <2>2, <2>3 DEF MinerInv
  <1>3. QED
    BY <1>1, <1>2 DEF synchronise

(***************************************************************************)
(* The invariant holds initially and every step preserves it.              *)
(***************************************************************************)
LEMMA MinerInitLemma == MinerInit => MinerInv
  <1> SUFFICES ASSUME MinerInit PROVE MinerInv
    OBVIOUS
  <1>1. stops \in 0 .. MaxStops
    BY MinerAssumption DEF MinerInit
  <1>2. miner \in MinerState /\ miner.canStart /\ ~asked /\ ~ended /\ syncer = "none"
    BY DEF MinerInit, MinerState
  <1>3. MinerTypeOK
    BY <1>1, <1>2 DEF MinerInit, MinerTypeOK
  <1>4. QED
    BY <1>2, <1>3 DEF MinerInv, OneSyncer, MiningRequestKept, GateListens, EndedIsDeaf

LEMMA MinerStepLemma == MinerInv /\ [MinerNext]_minerVars => MinerInv'
  <1> SUFFICES ASSUME MinerInv, [MinerNext]_minerVars PROVE MinerInv'
    OBVIOUS
  <1>0. miner \in MinerState
    BY DEF MinerInv, MinerTypeOK
  <1>1. CASE StartMining
    <2>1. /\ miner' \in MinerState /\ Kept(miner')
          /\ miner'.canStart = miner.canStart /\ miner'.subscribed = miner.subscribed
      BY <1>0, <1>1, StartLemma DEF StartMining, MinerInv, GateListens, Kept
    <2>2. QED
      BY <1>1, <2>1 DEF StartMining, MinerInv, MinerTypeOK, OneSyncer, MiningRequestKept, GateListens, EndedIsDeaf, Kept
  <1>2. CASE HandleNewBlockMsg
    BY <1>2 DEF HandleNewBlockMsg, MinerInv, MinerTypeOK, OneSyncer, MiningRequestKept, GateListens, EndedIsDeaf
  <1>3. CASE ForceSync
    BY <1>3, SynchroniseLemma DEF ForceSync, MinerInv, MinerTypeOK
  <1>4. CASE BlockSync
    BY <1>4, SynchroniseLemma DEF BlockSync
  <1>5. CASE synchroniseNewPeer
    BY <1>5, SynchroniseLemma DEF synchroniseNewPeer, MinerInv, MinerTypeOK
  <1>6. CASE SyncEnds
    <2>1. PICK m \in {miner, commitWork(miner)} :
            miner' = IF Delivered THEN update_EndEvent(m) ELSE m
      BY <1>6 DEF SyncEnds
    <2>2. SameGate(m)
      BY <1>0, <2>1, CommitWorkLemma DEF SameGate
    <2>3. CASE Delivered
      <3>1. /\ miner' \in MinerState /\ miner'.canStart /\ ~miner'.subscribed
            /\ Kept(m) => Kept(miner')
        BY <2>1, <2>2, <2>3, EndEventLemma DEF SameGate
      <3>2. QED
        BY <1>6, <2>2, <3>1
        DEF SyncEnds, MinerInv, MinerTypeOK, OneSyncer, MiningRequestKept, GateListens, EndedIsDeaf, Kept, SameGate
    <2>4. CASE ~Delivered
      <3>1. miner' = m /\ ended' = ended
        BY <1>6, <2>1, <2>4 DEF SyncEnds, MinerInv, MinerTypeOK
      <3>2. MinerTypeOK'
        BY <1>6, <2>2, <3>1 DEF SyncEnds, MinerInv, MinerTypeOK, SameGate
      <3>3. OneSyncer' /\ MiningRequestKept' /\ GateListens' /\ EndedIsDeaf'
        BY <1>6, <2>2, <3>1 DEF SyncEnds, MinerInv, OneSyncer, MiningRequestKept, GateListens, EndedIsDeaf, SameGate
      <3>4. QED
        BY <3>2, <3>3 DEF MinerInv
    <2>5. QED
      BY <2>3, <2>4
  <1>7. CASE handleTxEvent
    <2>1. SameGate([miner EXCEPT !.newTxs = TRUE])
      BY <1>0 DEF SameGate, MinerState
    <2>2. QED
      BY <1>7, <2>1, WorkLemma DEF handleTxEvent
  <1>8. CASE handleChainHeadEvent \/ Run
    <2>1. SameGate(commitWork(miner))
      BY <1>0, CommitWorkLemma DEF SameGate
    <2>2. QED
      BY <1>8, <2>1, WorkLemma DEF handleChainHeadEvent, Run
  <1>9. CASE handleChainSideEvent
    <2>1. PICK m \in PostTask(miner) : Work(m)
      BY <1>9 DEF handleChainSideEvent
    <2>2. SameGate(m)
      BY <1>0, PostTaskLemma DEF SameGate
    <2>3. QED
      BY <2>1, <2>2, WorkLemma
  <1>10. CASE worker_commitNewWork
    <2>1. PICK m \in PostTask(miner) : Work([m EXCEPT !.request = FALSE])
      BY <1>10 DEF worker_commitNewWork
    <2>2. SameGate(m)
      BY <1>0, PostTaskLemma DEF SameGate
    <2>3. SameGate([m EXCEPT !.request = FALSE])
      BY <2>2 DEF SameGate, MinerState
    <2>4. QED
      BY <2>1, <2>3, WorkLemma
  <1>11. CASE handleResult
    <2> DEFINE sealed == [miner EXCEPT !.sealing = FALSE]
    <2>1. PICK m \in {commitWork(sealed)} \cup PostTask(sealed) : Work(m)
      BY <1>11 DEF handleResult
    <2>2. sealed \in MinerState /\ SameGate(sealed)
      BY <1>0 DEF SameGate, MinerState
    <2> HIDE DEF sealed
    <2>3. SameGate(m)
      BY <2>1, <2>2, PostTaskLemma, CommitWorkLemma DEF SameGate
    <2>4. QED
      BY <2>1, <2>3, WorkLemma
  <1>12. CASE EthStop
    <2>1. SameGate(close(miner))
      BY <1>0 DEF SameGate, close, MinerState
    <2>2. stops' \in 0 .. MaxStops
      BY <1>12, MinerAssumption DEF EthStop, MinerInv, MinerTypeOK
    <2>3. MinerTypeOK'
      BY <1>12, <2>1, <2>2 DEF EthStop, MinerInv, MinerTypeOK, SameGate
    <2>4. OneSyncer' /\ MiningRequestKept' /\ GateListens' /\ EndedIsDeaf'
      BY <1>12, <2>1 DEF EthStop, MinerInv, OneSyncer, MiningRequestKept, GateListens, EndedIsDeaf, SameGate
    <2>5. QED
      BY <2>3, <2>4 DEF MinerInv
  <1>13. CASE EthStart
    BY <1>13 DEF EthStart, MinerInv, MinerTypeOK, OneSyncer, MiningRequestKept, GateListens, EndedIsDeaf
  <1>14. CASE UNCHANGED minerVars
    BY <1>14 DEF minerVars, MinerInv, MinerTypeOK, OneSyncer, MiningRequestKept, GateListens, EndedIsDeaf
  <1>15. QED
    BY <1>1, <1>2, <1>3, <1>4, <1>5, <1>6, <1>7, <1>8, <1>9, <1>10, <1>11, <1>12, <1>13, <1>14
    DEF MinerNext

\* The inductive invariant holds in every reachable state.
THEOREM MinerInvariance == MinerSpec => []MinerInv
  BY MinerInitLemma, MinerStepLemma, PTL DEF MinerSpec

(***************************************************************************)
(* Type correctness of the miner, the downloader flag and the service.     *)
(***************************************************************************)
THEOREM MinerTypes == MinerSpec => []MinerTypeOK
  <1>1. MinerInv => MinerTypeOK
    BY DEF MinerInv
  <1>2. QED
    BY <1>1, MinerInvariance, PTL

(***************************************************************************)
(* StartMining's request survives every synchronisation, busy downloader,  *)
(* dropped event and restart: the miner runs or will start (miner.go).     *)
(***************************************************************************)
THEOREM RequestKept == MinerSpec => []MiningRequestKept
  <1>1. MinerInv => MiningRequestKept
    BY DEF MinerInv
  <1>2. QED
    BY <1>1, MinerInvariance, PTL

(***************************************************************************)
(* Downloader.synchronising keeps a second runner out of syncWithPeer,     *)
(* whatever runner is inside and however the service is restarted.         *)
(***************************************************************************)
THEOREM SyncerHoldsFlag == MinerSpec => []OneSyncer
  <1>1. MinerInv => OneSyncer
    BY DEF MinerInv
  <1>2. QED
    BY <1>1, MinerInvariance, PTL

\* A step that does not take a running miner off its work.
KeepsMining == ended /\ miner.running => miner'.running

(***************************************************************************)
(* The subscription of Miner.update is one shot: after its end no download *)
(* stops the miner again.                                                  *)
(***************************************************************************)
THEOREM HaltedOnce == MinerSpec => DownloadsHaltMinerOnce
  <1>1. MinerInv /\ [MinerNext]_minerVars => [KeepsMining]_minerVars
    <2> SUFFICES ASSUME MinerInv, MinerNext, ended, miner.running PROVE miner'.running
      BY DEF KeepsMining
    <2>0. miner \in MinerState /\ ~Delivered
      BY DEF MinerInv, MinerTypeOK, EndedIsDeaf, Delivered
    <2>1. CASE StartMining \/ HandleNewBlockMsg \/ EthStart
      BY <2>1 DEF StartMining, HandleNewBlockMsg, EthStart
    <2>2. CASE ForceSync \/ BlockSync \/ synchroniseNewPeer
      BY <2>0, <2>2 DEF ForceSync, BlockSync, synchroniseNewPeer, synchronise
    <2>3. CASE SyncEnds
      BY <2>0, <2>3, CommitWorkLemma DEF SyncEnds
    <2>4. CASE handleTxEvent \/ handleChainHeadEvent \/ Run
      BY <2>0, <2>4, CommitWorkLemma DEF handleTxEvent, handleChainHeadEvent, Run, Work, MinerState
    <2>5. CASE handleChainSideEvent
      BY <2>0, <2>5, PostTaskLemma DEF handleChainSideEvent, Work
    <2>6. CASE worker_commitNewWork
      <3>1. PICK m \in PostTask(miner) : miner' = [m EXCEPT !.request = FALSE]
        BY <2>6 DEF worker_commitNewWork, Work
      <3>2. m \in MinerState /\ m.running = miner.running
        BY <2>0, PostTaskLemma
      <3>3. QED
        BY <3>1, <3>2 DEF MinerState
    <2>7. CASE handleResult
      <3> DEFINE sealed == [miner EXCEPT !.sealing = FALSE]
      <3>1. PICK m \in {commitWork(sealed)} \cup PostTask(sealed) : miner' = m
        BY <2>7 DEF handleResult, Work
      <3>2. sealed \in MinerState /\ sealed.running = miner.running
        BY <2>0 DEF MinerState
      <3> HIDE DEF sealed
      <3>3. QED
        BY <3>1, <3>2, PostTaskLemma, CommitWorkLemma
    <2>8. CASE EthStop
      BY <2>0, <2>8 DEF EthStop, close, MinerState
    <2>9. QED
      BY <2>1, <2>2, <2>3, <2>4, <2>5, <2>6, <2>7, <2>8 DEF MinerNext
  <1>2. QED
    BY <1>1, MinerInvariance, PTL DEF MinerSpec, DownloadsHaltMinerOnce, KeepsMining

(***************************************************************************)
(* Miner.update, Downloader.synchronise and the restarts of the service    *)
(* keep their flags in step (miner.go, downloader.go, ethereum.go).        *)
(***************************************************************************)
THEOREM MinerCorrect == MinerSpec => []MinerSafe
  <1>1. MinerTypeOK /\ OneSyncer /\ MiningRequestKept => MinerSafe
    BY DEF MinerSafe
  <1>2. QED
    BY <1>1, MinerTypes, SyncerHoldsFlag, RequestKept, PTL

----------------------------------------------------------------------------
\* Until the first stop: the flag of the downloader is set exactly while a runner
\* is inside a synchronisation, and the gate of the miner is closed only then.
Steady ==
    stops = 0 => /\ online
                 /\ synchronising => syncer # "none"
                 /\ ~miner.canStart => syncer # "none"

LEMMA SteadyWorkLemma ==
    ASSUME MinerInv, Steady, NEW m, SameGate(m), Work(m)
    PROVE  Steady'
  BY DEF Steady, SameGate, Work

(***************************************************************************)
(* A step keeps the flag, the runner and the gate together: the events of  *)
(* a started service are delivered to a miner that listens, and a miner    *)
(* that does not listen has its gate open.                                 *)
(***************************************************************************)
LEMMA SteadyStep == MinerInv /\ Steady /\ [MinerNext]_minerVars => Steady'
  <1> SUFFICES ASSUME MinerInv, Steady, [MinerNext]_minerVars PROVE Steady'
    OBVIOUS
  <1>0. miner \in MinerState /\ stops \in Nat
    BY MinerAssumption DEF MinerInv, MinerTypeOK
  <1>1. CASE StartMining
    BY <1>0, <1>1, StartLemma DEF StartMining, Steady
  <1>2. CASE HandleNewBlockMsg \/ EthStart
    BY <1>2 DEF HandleNewBlockMsg, EthStart, Steady
  <1>3. CASE ForceSync \/ BlockSync \/ synchroniseNewPeer
    BY <1>3 DEF ForceSync, BlockSync, synchroniseNewPeer, synchronise, Steady
  <1>4. CASE SyncEnds
    <2>1. PICK m \in {miner, commitWork(miner)} :
            miner' = IF Delivered THEN update_EndEvent(m) ELSE m
      BY <1>4 DEF SyncEnds
    <2>2. SameGate(m)
      BY <1>0, <2>1, CommitWorkLemma DEF SameGate
    <2>3. stops = 0 => miner'.canStart
      <3>1. CASE Delivered
        BY <2>1, <2>2, <3>1, EndEventLemma DEF SameGate
      <3>2. CASE ~Delivered
        BY <2>1, <2>2, <3>2 DEF SameGate, Delivered, MinerInv, GateListens, Steady
      <3>3. QED
        BY <3>1, <3>2
    <2>4. QED
      BY <1>4, <2>3 DEF SyncEnds, Steady
  <1>5. CASE handleTxEvent
    <2>1. SameGate([miner EXCEPT !.newTxs = TRUE])
      BY <1>0 DEF SameGate, MinerState
    <2>2. QED
      BY <1>5, <2>1, SteadyWorkLemma DEF handleTxEvent
  <1>6. CASE handleChainHeadEvent \/ Run
    BY <1>0, <1>6, CommitWorkLemma, SteadyWorkLemma DEF handleChainHeadEvent, Run, SameGate
  <1>7. CASE handleChainSideEvent
    BY <1>0, <1>7, PostTaskLemma, SteadyWorkLemma DEF handleChainSideEvent, SameGate
  <1>8. CASE worker_commitNewWork
    <2>1. PICK m \in PostTask(miner) : Work([m EXCEPT !.request = FALSE])
      BY <1>8 DEF worker_commitNewWork
    <2>2. SameGate(m)
      BY <1>0, PostTaskLemma DEF SameGate
    <2>3. SameGate([m EXCEPT !.request = FALSE])
      BY <2>2 DEF SameGate, MinerState
    <2>4. QED
      BY <2>1, <2>3, SteadyWorkLemma
  <1>9. CASE handleResult
    <2> DEFINE sealed == [miner EXCEPT !.sealing = FALSE]
    <2>1. PICK m \in {commitWork(sealed)} \cup PostTask(sealed) : Work(m)
      BY <1>9 DEF handleResult
    <2>2. sealed \in MinerState /\ SameGate(sealed)
      BY <1>0 DEF SameGate, MinerState
    <2> HIDE DEF sealed
    <2>3. SameGate(m)
      BY <2>1, <2>2, PostTaskLemma, CommitWorkLemma DEF SameGate
    <2>4. QED
      BY <2>1, <2>3, SteadyWorkLemma
  <1>10. CASE EthStop
    BY <1>0, <1>10 DEF EthStop, Steady
  <1>11. CASE UNCHANGED minerVars
    BY <1>11 DEF minerVars, Steady
  <1>12. QED
    BY <1>1, <1>2, <1>3, <1>4, <1>5, <1>6, <1>7, <1>8, <1>9, <1>10, <1>11 DEF MinerNext

(***************************************************************************)
(* Until the service is stopped a busy downloader has a runner inside its  *)
(* synchronisation, and a miner that was asked to mine and does not has a  *)
(* synchronisation under way, after which it starts (downloader.go,        *)
(* miner.go): no order of cycles, blocks, handshakes and events leaves the *)
(* flag set or the gate closed behind it.                                  *)
(***************************************************************************)
THEOREM SteadyCorrect == MinerSpec => []SteadySync
  <1>1. MinerInit => Steady
    BY DEF MinerInit, Steady
  <1>2. MinerInv /\ Steady => SteadySync
    BY DEF MinerInv, MiningRequestKept, Steady, SteadySync, SteadySyncHasRunner, SteadyStartsAfterSync
  <1>3. QED
    BY <1>1, <1>2, SteadyStep, MinerInvariance, PTL DEF MinerSpec

=============================================================================
