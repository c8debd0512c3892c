---------------------------- MODULE LookupProofs ----------------------------
(***************************************************************************)
(* For any number of nodes, alpha and size of the result: a lookup never   *)
(* has more than alpha queries open, never idles while somebody is left to *)
(* be asked, and returns only what is final.                               *)
(***************************************************************************)
EXTENDS Lookup, FiniteSetTheorems, FunctionTheorems, SequenceTheorems, TLAPS

----------------------------------------------------------------------------
LEMMA NodesFinite ==
    ASSUME NEW T \in SUBSET Nodes
    PROVE  IsFiniteSet(T) /\ Cardinality(T) \in Nat /\ Nodes \subseteq Nat
  <1>1. IsFiniteSet(Nodes) /\ Nodes \subseteq Nat
    BY LookupAssumption, FS_Interval DEF Nodes
  <1>2. QED
    BY <1>1, FS_Subset, FS_CardinalityType

(***************************************************************************)
(* The nodes of C that have fewer than k closer ones in C are k nodes, or  *)
(* all of C if it has fewer: the number of closer nodes numbers C from 0.  *)
(***************************************************************************)
LEMMA ClosestLemma ==
    ASSUME NEW C \in SUBSET Nodes, NEW k \in Nat
    PROVE  LET new == {n \in C : Cardinality({m \in C : m < n}) < k}
           IN  Cardinality(new) \in 0 .. k /\ (new # C => Cardinality(new) = k)
  <1> DEFINE closer(n) == {m \in C : m < n}
             r   == [n \in C |-> Cardinality(closer(n))]
             N   == Cardinality(C)
             new == {n \in C : r[n] < k}
  <1>1. IsFiniteSet(C) /\ N \in Nat /\ C \subseteq Nat
    BY NodesFinite
  <1>2. \A n \in C : closer(n) \subseteq C /\ IsFiniteSet(closer(n)) /\ r[n] = Cardinality(closer(n)) /\ r[n] \in Nat
    <2> SUFFICES ASSUME NEW n \in C
                 PROVE closer(n) \subseteq C /\ IsFiniteSet(closer(n)) /\ r[n] = Cardinality(closer(n)) /\ r[n] \in Nat
      OBVIOUS
    <2>1. closer(n) \subseteq C /\ r[n] = Cardinality(closer(n))
      OBVIOUS
    <2>2. IsFiniteSet(closer(n)) /\ Cardinality(closer(n)) \in Nat
      BY <1>1, <2>1, FS_Subset, FS_CardinalityType
    <2>3. QED
      BY <2>1, <2>2
  <1>3. ASSUME NEW n \in C PROVE r[n] \in 0 .. N - 1
    <2>1. n \notin closer(n) /\ closer(n) \subseteq C \ {n}
      BY <1>1
    <2>2. IsFiniteSet(C \ {n}) /\ Cardinality(C \ {n}) = N - 1
      BY <1>1, FS_RemoveElement
    <2>3. Cardinality(closer(n)) <= N - 1
      BY <2>1, <2>2, FS_Subset
    <2>4. QED
      BY <1>1, <1>2, <2>3
  <1>4. ASSUME NEW n \in C, NEW m \in C, m < n PROVE r[m] < r[n]
    <2>1. m \notin closer(m) /\ closer(m) \cup {m} \subseteq closer(n)
      <3>1. \A x \in C : x < m => x < n
        BY <1>1, <1>4
      <3>2. ~(m < m)
        BY <1>1
      <3>3. QED
        BY <1>4, <3>1, <3>2
    <2>2. Cardinality(closer(m) \cup {m}) = Cardinality(closer(m)) + 1
      BY <1>2, <2>1, FS_AddElement
    <2>3. Cardinality(closer(m) \cup {m}) <= Cardinality(closer(n))
      BY <1>2, <2>1, FS_Subset
    <2>4. QED
      <3>1. /\ r[m] \in Nat /\ r[n] \in Nat /\ r[m] = Cardinality(closer(m))
            /\ r[n] = Cardinality(closer(n))
        BY <1>2
      <3> HIDE DEF r, closer
      <3>2. QED
        BY <2>2, <2>3, <3>1
  <1>0. new = {n \in C : Cardinality({m \in C : m < n}) < k}
    OBVIOUS
  <1> HIDE DEF r, N, closer
  <1>5. \A n, m \in C : r[n] = r[m] => n = m
    <2> SUFFICES ASSUME NEW n \in C, NEW m \in C, r[n] = r[m], n # m PROVE FALSE
      OBVIOUS
    <2>1. n < m \/ m < n
      BY <1>1
    <2>2. QED
      BY <1>2, <1>4, <2>1
  <1>6. r \in [C -> 0 .. N - 1] /\ r \in Injection(C, 0 .. N - 1)
    <2>1. r \in [C -> 0 .. N - 1]
      BY <1>3 DEF r
    <2>2. QED
      BY <1>5, <2>1 DEF Injection, IsInjective
  <1>7. \A i \in 0 .. N - 1 : \E n \in C : r[n] = i
    <2>1. IsFiniteSet(0 .. N - 1) /\ Cardinality(0 .. N - 1) = N
      BY <1>1, FS_Interval
    <2>2. r \in Surjection(C, 0 .. N - 1)
      BY <1>6, <2>1, FS_Injection DEF N
    <2>3. QED
      BY <2>2 DEF Surjection
  <1>8. CASE new = C
    <2>1. N <= k
      <3>1. CASE N = 0
        BY <3>1
      <3>2. CASE N # 0
        <4>1. N - 1 \in 0 .. N - 1
          BY <1>1, <3>2
        <4>2. PICK n \in C : r[n] = N - 1
          BY <1>7, <4>1
        <4>3. r[n] < k
          BY <1>8
        <4>4. QED
          BY <1>1, <4>2, <4>3
      <3>3. QED
        BY <3>1, <3>2
    <2>2. QED
      <3>1. Cardinality(new) = N
        BY <1>8 DEF N
      <3> HIDE DEF new
      <3>2. QED
        BY <1>0, <1>1, <1>8, <2>1, <3>1
  <1>9. CASE new # C
    <2>1. PICK c \in C : ~(r[c] < k)
      BY <1>9
    <2>2. k <= N - 1 /\ 0 .. k - 1 \subseteq 0 .. N - 1
      BY <1>1, <1>3, <2>1
    <2> DEFINE g == [n \in new |-> r[n]]
    <2>3. g \in [new -> 0 .. k - 1]
      BY <1>2
    <2>4. g \in Bijection(new, 0 .. k - 1)
      <3>1. g \in Injection(new, 0 .. k - 1)
        BY <1>5, <2>3 DEF Injection, IsInjective
      <3>2. ASSUME NEW i \in 0 .. k - 1 PROVE \E n \in new : g[n] = i
        <4>1. PICK n \in C : r[n] = i
          BY <1>7, <2>2
        <4>2. n \in new
          BY <4>1
        <4>3. QED
          BY <4>1, <4>2
      <3>3. g \in Surjection(new, 0 .. k - 1)
        BY <2>3, <3>2 DEF Surjection
      <3>4. QED
        BY <3>1, <3>3 DEF Bijection
    <2>5. IsFiniteSet(0 .. k - 1) /\ Cardinality(0 .. k - 1) = k
      BY FS_Interval
    <2>6. IsFiniteSet(new)
      BY <1>1, FS_Subset
    <2> HIDE DEF new, g
    <2>7. ExistsBijection(new, 0 .. k - 1)
      BY <2>4 DEF ExistsBijection
    <2>8. Cardinality(new) = k
      BY <2>5, <2>6, <2>7, FS_Bijection
    <2>9. QED
      BY <1>0, <2>8
  <1>10. QED
    BY <1>8, <1>9

----------------------------------------------------------------------------
\* What nodesByDistance may hold.
Results == {s \in Seq(Nodes) : Len(s) <= bucketSize}

LEMMA PushLemma ==
    ASSUME NEW s \in Results, NEW n \in Nodes
    PROVE  push(s, n) \in Results
  <1> DEFINE S    == {i \in DOMAIN s : s[i] <= n}
             ix   == 1 + Cardinality(S)
             long == InsertAt(s, ix, n)
  <1>1. s \in Seq(Nodes) /\ Len(s) \in Nat /\ Len(s) <= bucketSize /\ DOMAIN s = 1 .. Len(s)
    BY DEF Results
  <1>2. bucketSize \in Nat \ {0}
    BY LookupAssumption
  <1>3. Cardinality(S) \in 0 .. Len(s)
    <2>1. IsFiniteSet(1 .. Len(s)) /\ Cardinality(1 .. Len(s)) = Len(s)
      <3> DEFINE k == Len(s)
      <3> HIDE DEF k
      <3>1. k \in Nat => IsFiniteSet(1 .. k) /\ Cardinality(1 .. k) = k
        BY FS_Interval
      <3>2. QED
        BY <1>1, <3>1 DEF k
    <2>2. S \subseteq 1 .. Len(s)
      BY <1>1
    <2> HIDE DEF S
    <2>3. IsFiniteSet(S) /\ Cardinality(S) <= Len(s)
      BY <2>1, <2>2, FS_Subset
    <2>4. Cardinality(S) \in Nat
      BY <2>3, FS_CardinalityType
    <2>5. QED
      BY <1>1, <2>3, <2>4
  <1>4. ix \in 1 .. Len(s) + 1
    <2> HIDE DEF S
    <2>1. QED
      BY <1>1, <1>3
  <1> HIDE DEF ix
  <1> DEFINE a == SubSeq(s, 1, ix - 1)
             c == SubSeq(s, ix, Len(s))
  <1>5. a \in Seq(Nodes) /\ Len(a) = ix - 1
    BY <1>1, <1>4
  <1>6. c \in Seq(Nodes) /\ Len(c) = Len(s) - ix + 1
    BY <1>1, <1>4
  <1>7. long = (a \o <<n>>) \o c
    BY DEF InsertAt
  <1> HIDE DEF a, c, long
  <1>8. long \in Seq(Nodes) /\ Len(long) = Len(s) + 1
    <2>1. a \o <<n>> \in Seq(Nodes) /\ Len(a \o <<n>>) = ix
      BY <1>4, <1>5
    <2> DEFINE d == a \o <<n>>
    <2> HIDE DEF d
    <2>2. long = d \o c /\ d \in Seq(Nodes) /\ Len(d) = ix
      BY <1>7, <2>1 DEF d
    <2>3. long \in Seq(Nodes) /\ Len(long) = Len(d) + Len(c)
      <3>1. c \in Seq(Nodes) /\ d \in Seq(Nodes)
        BY <1>6, <2>2
      <3>2. d \o c \in Seq(Nodes) /\ Len(d \o c) = Len(d) + Len(c)
        BY <3>1
      <3>3. QED
        BY <2>2, <3>2
    <2>4. QED
      BY <1>1, <1>4, <1>6, <2>2, <2>3
  <1>9. Front(long) \in Seq(Nodes) /\ Len(Front(long)) = Len(s)
    <2>1. Front(long) = SubSeq(long, 1, Len(s))
      <3>1. Len(long) - 1 = Len(s)
        BY <1>1, <1>8
      <3>2. QED
        BY <3>1 DEF Front
    <2> DEFINE k == Len(s)
    <2>2. long \in Seq(Nodes) /\ k \in Nat /\ k <= Len(long) /\ Front(long) = SubSeq(long, 1, k)
      BY <1>1, <1>8, <2>1
    <2> HIDE DEF k
    <2>3. Front(long) \in Seq(Nodes) /\ Len(Front(long)) = k
      BY <2>2
    <2>4. QED
      BY <2>3 DEF k
  <1>10. push(s, n) = IF Len(s) < bucketSize THEN long ELSE Front(long)
    BY DEF push, long, ix
  <1>11. QED
    BY <1>1, <1>2, <1>8, <1>9, <1>10 DEF Results

\* pushUnseen, folded over the nodes of an answer.
Pushed == INSTANCE FoldTheorems WITH
  Op <- LAMBDA p, q, r, d, e : pushUnseen(d, e)

LEMMA PushedLemma ==
    ASSUME NEW s \in Results, NEW nodes \in Seq(Nodes)
    PROVE  FoldLeft(pushUnseen, s, nodes) \in Results
  <1>1. FoldLeft(pushUnseen, s, nodes) = Pushed!LeftFold(0, 0, 0, s, nodes)
    BY DEF FoldLeft, MapThenFoldSet, Max, Pushed!LeftFold, Pushed!Max
  <1>2. \A t \in Results, n \in Nodes : pushUnseen(t, n) \in Results
    BY PushLemma DEF pushUnseen
  <1>3. Pushed!LeftFold(0, 0, 0, s, nodes) \in Results
    BY <1>2, Pushed!FoldLeftInvariant
  <1>4. QED
    BY <1>1, <1>3

\* A sorted answer, or the start from the own table.
LEMMA SortedLemma ==
    ASSUME NEW S \in SUBSET Nodes, NEW s \in SortedSeqs(S)
    PROVE  s \in Results /\ ToSet(s) \subseteq S
  <1>1. PICK m \in 0 .. bucketSize : s \in [1 .. m -> S]
    BY DEF SortedSeqs, BoundedSeq, SeqOf
  <1>2. m \in Nat /\ m <= bucketSize /\ s \in [1 .. m -> Nodes]
    BY <1>1, LookupAssumption
  <1>3. s \in Seq(Nodes) /\ Len(s) = m
    BY <1>2
  <1>4. QED
    BY <1>1, <1>2, <1>3 DEF Results, ToSet

LEMMA ResultNodes ==
    ASSUME NEW s \in Results
    PROVE  ToSet(s) \subseteq Nodes /\ s \in BoundedSeq(Nodes, bucketSize)
  <1>1. s \in [1 .. Len(s) -> Nodes] /\ Len(s) \in Nat /\ Len(s) <= bucketSize
    BY DEF Results
  <1>2. Len(s) \in 0 .. bucketSize
    BY <1>1, LookupAssumption
  <1>3. QED
    BY <1>1, <1>2 DEF ToSet, BoundedSeq, SeqOf

----------------------------------------------------------------------------
\* The queries of q that have not ended.
OpenIn(q) == {n \in Nodes : q[n] \notin {"none", "ended"}}

\* findnode opens a query to each of the nodes.
LEMMA FindnodeLemma ==
    ASSUME online \in BOOLEAN, NEW new \in SUBSET Nodes, NEW pinged \in SUBSET new,
           NEW q \in [Nodes -> Stage]
    PROVE  LET f == findnode(new, pinged, q)
           IN  /\ f \in [Nodes -> Stage] /\ OpenIn(f) = OpenIn(q) \cup new
               /\ \A n \in Nodes \ new : f[n] = q[n]
  <1> DEFINE f == findnode(new, pinged, q)
  <1>1. \A n \in Nodes : f[n] = IF n \notin new THEN q[n]
                                ELSE IF n \in pinged THEN IF online THEN "ping" ELSE "unsentPing"
                                ELSE IF online THEN "findnode" ELSE "unsent"
    BY DEF findnode
  <1>2. f = [n \in Nodes |-> f[n]]
    BY DEF findnode
  <1> HIDE DEF f
  <1>3. \A n \in new : f[n] \in {"ping", "unsentPing", "findnode", "unsent"}
    BY <1>1
  <1>4. \A n \in Nodes \ new : f[n] = q[n]
    BY <1>1
  <1>5. \A n \in Nodes : f[n] \in Stage
    BY <1>3, <1>4 DEF Stage
  <1>6. f \in [Nodes -> Stage]
    BY <1>2, <1>5
  <1>7. OpenIn(f) = OpenIn(q) \cup new
    BY <1>3, <1>4 DEF OpenIn
  <1>8. QED
    BY <1>4, <1>6, <1>7 DEF f

----------------------------------------------------------------------------
(***************************************************************************)
(* The inductive invariant.  pendingQueries, which decides when a lookup   *)
(* returns, counts the queries that have not ended, and every one of them  *)
(* is to a node that was asked; a node that never stopped is online.       *)
(***************************************************************************)
Shape ==
    /\ online \in BOOLEAN
    /\ result \in Results
    /\ asked \subseteq Nodes
    /\ seen \subseteq Nodes
    /\ lookupDone \in BOOLEAN
    /\ query \in [Nodes -> Stage]
    /\ stops \in 0 .. MaxStops

PendingCounts == pendingQueries = Cardinality(Open) /\ pendingQueries <= alpha

OpenAsked == \A n \in Nodes : query[n] # "none" => n \in asked

NeverStopped == stops = 0 => online

IInv == Shape /\ PendingCounts /\ OpenAsked /\ NeverStopped /\ ReturnsFinal /\ AllPlacesTaken

LEMMA InvIsSound == IInv => LookupSound /\ AllPlacesTaken
  <1> SUFFICES ASSUME IInv PROVE LookupSound /\ AllPlacesTaken
    OBVIOUS
  <1>1. Cardinality(Open) \in Nat
    BY NodesFinite DEF Open
  <1>2. pendingQueries \in 0 .. alpha
    BY <1>1, LookupAssumption DEF IInv, PendingCounts
  <1>3. result \in BoundedSeq(Nodes, bucketSize)
    BY ResultNodes DEF IInv, Shape
  <1>4. QED
    BY <1>2, <1>3 DEF IInv, Shape, LookupSound, TypeOK

\* The cardinality of two sets of nodes that have nothing in common.
LEMMA DisjointCount ==
    ASSUME NEW A \in SUBSET Nodes, NEW B \in SUBSET Nodes, A \cap B = {}
    PROVE  Cardinality(A \cup B) = Cardinality(A) + Cardinality(B)
  <1>1. IsFiniteSet(A) /\ IsFiniteSet(B) /\ Cardinality(A) \in Nat /\ Cardinality(B) \in Nat
    BY NodesFinite
  <1>2. Cardinality(A \cap B) = 0
    BY FS_EmptySet
  <1>3. Cardinality(A \cup B) = Cardinality(A) + Cardinality(B) - Cardinality(A \cap B)
    BY <1>1, FS_Union
  <1>4. QED
    BY <1>1, <1>2, <1>3

\* lookup starts.
LEMMA InitInv == Init => IInv
  <1> SUFFICES ASSUME Init PROVE IInv
    OBVIOUS
  <1> DEFINE C    == ToSet(result)
             new  == {n \in C : Cardinality({m \in C : m < n}) < alpha}
             q0   == [n \in Nodes |-> "none"]
  <1>1. /\ online = TRUE /\ result \in SortedSeqs(Nodes \ {Self}) /\ seen = {} /\ stops = 0
        /\ asked = new \cup {Self} /\ pendingQueries = Cardinality(new) /\ lookupDone = (new = {})
        /\ \E pinged \in SUBSET new : query = findnode(new, pinged, q0)
    BY DEF Init
  <1>2. result \in Results /\ C \subseteq Nodes \ {Self} /\ alpha \in Nat \ {0}
    BY <1>1, SortedLemma, LookupAssumption
  <1>3. Cardinality(new) \in 0 .. alpha /\ (new # C => Cardinality(new) = alpha)
    BY <1>2, ClosestLemma
  <1>4. new \subseteq C /\ new \subseteq Nodes
    BY <1>2
  <1> HIDE DEF new, C
  <1>5. q0 \in [Nodes -> Stage] /\ OpenIn(q0) = {}
    BY DEF Stage, OpenIn
  <1>6. query \in [Nodes -> Stage] /\ Open = new /\ \A n \in Nodes \ new : query[n] = "none"
    <2>1. PICK pinged \in SUBSET new : query = findnode(new, pinged, q0)
      BY <1>1
    <2>2. \A n \in Nodes : q0[n] = "none"
      OBVIOUS
    <2> HIDE DEF q0
    <2>0. online \in BOOLEAN /\ new \in SUBSET Nodes
      BY <1>1, <1>4
    <2>3. /\ query \in [Nodes -> Stage] /\ OpenIn(query) = OpenIn(q0) \cup new
          /\ \A n \in Nodes \ new : query[n] = q0[n]
      <3>1. q0 \in [Nodes -> Stage]
        BY <1>5
      <3>2. LET f == findnode(new, pinged, q0)
            IN  /\ f \in [Nodes -> Stage] /\ OpenIn(f) = OpenIn(q0) \cup new
                /\ \A n \in Nodes \ new : f[n] = q0[n]
        BY <2>0, <3>1, FindnodeLemma
      <3>3. QED
        BY <2>1, <3>2
    <2>4. QED
      BY <1>5, <2>2, <2>3 DEF Open, OpenIn
  <1>7. Shape
    BY <1>1, <1>2, <1>4, <1>6, LookupAssumption DEF Shape
  <1>8. PendingCounts /\ OpenAsked /\ NeverStopped
    BY <1>1, <1>2, <1>3, <1>6 DEF PendingCounts, OpenAsked, NeverStopped
  <1>9. ReturnsFinal
    <2> SUFFICES ASSUME lookupDone PROVE Open = {} /\ C \subseteq asked
      BY DEF ReturnsFinal, C
    <2>1. new = {} /\ Cardinality(new) = 0
      BY <1>1, FS_EmptySet
    <2>2. C = {}
      BY <1>2, <1>3, <2>1
    <2>3. QED
      BY <1>6, <2>1, <2>2
  <1>10. AllPlacesTaken
    <2>1. Candidates(result) # {} => new # C
      BY <1>1 DEF Candidates, C
    <2>2. QED
      BY <1>3, <1>6, <2>1 DEF AllPlacesTaken
  <1>11. QED
    BY <1>7, <1>8, <1>9, <1>10 DEF IInv

(***************************************************************************)
(* lookupNode asks as many as there are places for, or everybody that is   *)
(* left.  It is called when a query has ended, so the lookup has not       *)
(* returned yet.                                                           *)
(***************************************************************************)
LEMMA AskNextInv ==
    ASSUME Shape, NeverStopped, ~lookupDone,
           NEW res \in Results, NEW pending \in Nat, pending <= alpha,
           NEW q \in [Nodes -> Stage], pending = Cardinality(OpenIn(q)),
           \A n \in Nodes : q[n] # "none" => n \in asked,
           AskNext(res, pending, q),
           result' = res, online' = online, stops' = stops, seen' \subseteq Nodes
    PROVE  IInv'
  <1> DEFINE C    == Candidates(res)
             room == IF online THEN alpha - pending ELSE IF pending < alpha THEN 1 ELSE 0
             new  == lookupNode(res, pending)
  <1>1. /\ asked' = asked \cup new /\ pendingQueries' = pending + Cardinality(new)
        /\ \E pinged \in SUBSET new : query' = findnode(new, pinged, q)
        /\ lookupDone' = (lookupDone \/ pending + Cardinality(new) = 0)
    BY DEF AskNext
  <1>2. alpha \in Nat \ {0} /\ online \in BOOLEAN /\ asked \subseteq Nodes
    BY LookupAssumption DEF Shape
  <1>3. /\ room \in Nat /\ pending + room <= alpha /\ (pending = 0 => room > 0)
        /\ (online => pending + room = alpha)
    BY <1>2
  <1>4. new = {n \in C : Cardinality({m \in C : m < n}) < room}
    BY DEF lookupNode
  <1>5. C \subseteq Nodes /\ C \cap asked = {} /\ C = ToSet(res) \ asked
    BY ResultNodes DEF Candidates
  <1> HIDE DEF room, C, new
  <1>6. Cardinality(new) \in 0 .. room /\ (new # C => Cardinality(new) = room)
    <2>1. LET s == {n \in C : Cardinality({m \in C : m < n}) < room}
          IN  Cardinality(s) \in 0 .. room /\ (s # C => Cardinality(s) = room)
      <3>1. C \in SUBSET Nodes /\ room \in Nat
        BY <1>3, <1>5
      <3>2. QED
        BY <3>1, ClosestLemma
    <2>2. QED
      BY <1>4, <2>1
  <1>7. new \subseteq C /\ new \subseteq Nodes
    BY <1>4, <1>5
  <1>8. /\ query' \in [Nodes -> Stage] /\ OpenIn(query') = OpenIn(q) \cup new
        /\ \A n \in Nodes \ new : query'[n] = q[n]
    <2>1. PICK pinged \in SUBSET new : query' = findnode(new, pinged, q)
      BY <1>1
    <2>2. QED
      BY <1>2, <1>7, <2>1, FindnodeLemma
  <1>9. Open' = OpenIn(q) \cup new /\ Cardinality(Open') = pending + Cardinality(new)
    <2>1. OpenIn(q) \subseteq asked /\ OpenIn(q) \subseteq Nodes
      BY DEF OpenIn
    <2>2. OpenIn(q) \cap new = {}
      BY <1>5, <1>7, <2>1
    <2>3. Open' = OpenIn(q) \cup new
      BY <1>8 DEF Open, OpenIn
    <2>4. QED
      BY <1>7, <2>1, <2>2, <2>3, DisjointCount
  <1>10. Shape'
    BY <1>1, <1>7, <1>8 DEF Shape
  <1>11. PendingCounts'
    BY <1>1, <1>2, <1>3, <1>6, <1>9 DEF PendingCounts
  <1>12. OpenAsked' /\ NeverStopped'
    BY <1>1, <1>8 DEF OpenAsked, NeverStopped
  <1>13. ReturnsFinal'
    <2> SUFFICES ASSUME lookupDone' PROVE Open' = {} /\ ToSet(res) \subseteq asked'
      BY DEF ReturnsFinal
    <2>1. pending = 0 /\ Cardinality(new) = 0
      <3>1. pending + Cardinality(new) = 0
        BY <1>1, Zenon
      <3>2. QED
        BY <1>3, <1>6, <3>1
    <2>2. new = C
      BY <1>3, <1>6, <2>1
    <2>3. IsFiniteSet(new) /\ IsFiniteSet(OpenIn(q))
      BY <1>7, NodesFinite DEF OpenIn
    <2>4. new = {} /\ OpenIn(q) = {}
      BY <2>1, <2>3, FS_EmptySet
    <2>5. QED
      BY <1>1, <1>5, <1>9, <2>2, <2>4
  <1>14. AllPlacesTaken'
    <2> SUFFICES ASSUME stops' = 0, Candidates(result)' # {} PROVE Cardinality(Open') = alpha
      BY DEF AllPlacesTaken
    <2>1. online /\ ToSet(res) \ asked' # {}
      BY DEF NeverStopped, Candidates
    <2>2. new # C
      BY <1>1, <1>5, <2>1
    <2>3. QED
      BY <1>3, <1>6, <1>9, <2>1, <2>2
  <1>15. QED
    BY <1>10, <1>11, <1>12, <1>13, <1>14 DEF IInv

\* A query ends with its callback.
LEMMA CallbackInv ==
    ASSUME IInv, NEW n \in Nodes, query[n] \in {"neighbors", "timeout", "unsent"},
           NEW nodes \in Seq(Nodes), Callback(n, nodes)
    PROVE  IInv'
  <1> DEFINE q == [query EXCEPT ![n] = "ended"]
             p == pendingQueries - 1
  <1>1. /\ seen' = seen \cup ToSet(nodes) /\ result' = FoldLeft(pushUnseen, result, nodes)
        /\ AskNext(result', p, q) /\ online' = online /\ stops' = stops
    BY DEF Callback
  <1>2. Shape /\ NeverStopped /\ query \in [Nodes -> Stage]
    BY DEF IInv, Shape
  <1>3. n \in Open /\ Open \subseteq Nodes /\ IsFiniteSet(Open) /\ Cardinality(Open) \in Nat
    BY NodesFinite DEF Open
  <1>4. ~lookupDone
    BY <1>3 DEF IInv, ReturnsFinal
  <1>5. result' \in Results /\ seen' \subseteq Nodes
    <2>1. ToSet(nodes) \subseteq Nodes
      BY DEF ToSet
    <2>2. result \in Results /\ seen \subseteq Nodes
      BY <1>2 DEF Shape
    <2>3. FoldLeft(pushUnseen, result, nodes) \in Results
      BY <2>2, PushedLemma
    <2>4. QED
      BY <1>1, <2>1, <2>2, <2>3
  <1>6. q \in [Nodes -> Stage] /\ OpenIn(q) = Open \ {n}
    BY <1>2 DEF Stage, OpenIn, Open
  <1>7. \A m \in Nodes : q[m] # "none" => m \in asked
    BY <1>2 DEF IInv, OpenAsked
  <1> HIDE DEF q
  <1>8. Cardinality(Open \ {n}) = Cardinality(Open) - 1 /\ Cardinality(Open \ {n}) \in Nat
    BY <1>3, FS_RemoveElement, FS_CardinalityType
  <1>9. p \in Nat /\ p <= alpha /\ p = Cardinality(OpenIn(q))
    BY <1>6, <1>8, <1>3, LookupAssumption DEF IInv, PendingCounts
  <1> HIDE DEF p
  <1>10. QED
    BY <1>1, <1>2, <1>4, <1>5, <1>6, <1>7, <1>9, AskNextInv

\* A message of a query moves on; the query stays open.
LEMMA MoveInv ==
    ASSUME IInv, NEW n \in Nodes, NEW from \in Stage \ {"none", "ended"},
           NEW to \in Stage \ {"none", "ended"}, Move(n, from, to)
    PROVE  IInv'
  <1>1. /\ query[n] = from /\ query' = [query EXCEPT ![n] = to]
        /\ online' = online /\ result' = result /\ asked' = asked /\ seen' = seen
        /\ pendingQueries' = pendingQueries /\ lookupDone' = lookupDone /\ stops' = stops
    BY DEF Move
  <1>2. query \in [Nodes -> Stage]
    BY DEF IInv, Shape
  <1>3. query' \in [Nodes -> Stage] /\ Open' = Open
    BY <1>1, <1>2 DEF Open
  <1>4. Shape'
    BY <1>1, <1>3 DEF IInv, Shape
  <1>5. OpenAsked'
    BY <1>1, <1>2 DEF IInv, OpenAsked
  <1>6. PendingCounts' /\ NeverStopped' /\ ReturnsFinal' /\ AllPlacesTaken'
    BY <1>1, <1>3 DEF IInv, PendingCounts, NeverStopped, ReturnsFinal, AllPlacesTaken, Candidates
  <1>7. QED
    BY <1>4, <1>5, <1>6 DEF IInv

LEMMA StepInv == IInv /\ [Next]_vars => IInv'
  <1> SUFFICES ASSUME IInv, [Next]_vars PROVE IInv'
    OBVIOUS
  <1>0. {"ping", "unsentPing", "wait", "findnode", "unsent", "neighbors", "timeout", "lost"}
          \subseteq Stage \ {"none", "ended"}
    BY DEF Stage
  <1>1. CASE GoOffline
    <2>1. Open' = Open /\ stops' # 0 /\ stops' \in 0 .. MaxStops
      BY <1>1, LookupAssumption DEF GoOffline, IInv, Shape, Open
    <2>2. QED
      BY <1>1, <2>1 DEF GoOffline, IInv, Shape, PendingCounts, OpenAsked, NeverStopped,
                        ReturnsFinal, AllPlacesTaken
  <1>2. CASE GoOnline
    <2>1. Open' = Open
      BY <1>2 DEF GoOnline, Open
    <2>2. QED
      BY <1>2, <2>1 DEF GoOnline, IInv, Shape, PendingCounts, OpenAsked, NeverStopped,
                        ReturnsFinal, AllPlacesTaken, Candidates
  <1>3. ASSUME NEW n \in Nodes, PingAnswered(n) PROVE IInv'
    BY <1>0, <1>3, MoveInv DEF PingAnswered
  <1>4. ASSUME NEW n \in Nodes, PingFails(n) PROVE IInv'
    BY <1>0, <1>4, MoveInv DEF PingFails
  <1>5. ASSUME NEW n \in Nodes, WaitEnds(n) PROVE IInv'
    BY <1>0, <1>5, MoveInv DEF WaitEnds
  <1>6. ASSUME NEW n \in Nodes, FindnodeArrives(n) PROVE IInv'
    BY <1>0, <1>6, MoveInv DEF FindnodeArrives
  <1>7. ASSUME NEW n \in Nodes, Answered(n) PROVE IInv'
    <2>1. PICK nodes \in SortedSeqs(Nodes \ {n}) : Callback(n, nodes)
      BY <1>7 DEF Answered
    <2>2. nodes \in Seq(Nodes)
      BY SortedLemma DEF Results
    <2>3. QED
      BY <1>7, <2>1, <2>2, CallbackInv DEF Answered
  <1>8. ASSUME NEW n \in Nodes, AnswerLost(n) PROVE IInv'
    BY <1>0, <1>8, MoveInv DEF AnswerLost
  <1>9. ASSUME NEW n \in Nodes, Failed(n) PROVE IInv'
    <2>1. <<>> \in Seq(Nodes)
      OBVIOUS
    <2>2. QED
      BY <1>9, <2>1, CallbackInv DEF Failed
  <1>10. CASE UNCHANGED vars
    <2>1. Open' = Open
      BY <1>10 DEF vars, Open
    <2>2. QED
      BY <1>10, <2>1 DEF vars, IInv, Shape, PendingCounts, OpenAsked, NeverStopped,
                        ReturnsFinal, AllPlacesTaken, Candidates
  <1>11. QED
    BY <1>1, <1>2, <1>3, <1>4, <1>5, <1>6, <1>7, <1>8, <1>9, <1>10 DEF Next, Step

LEMMA LookupInvariant == Spec => []IInv
  <1>1. Init => IInv
    BY InitInv
  <1>2. IInv /\ [Next]_vars => IInv'
    BY StepInv
  <1>3. QED
    BY <1>1, <1>2, PTL DEF Spec

(***************************************************************************)
(* lookup of table.go: at most alpha queries are pending and at most       *)
(* bucketSize nodes kept, and a lookup that returns has asked everybody    *)
(* whom it returns, with no answer still to come, whatever is answered,    *)
(* fails or is lost and however often the node goes offline.               *)
(***************************************************************************)
THEOREM LookupIsSound == Spec => []LookupSound
  BY LookupInvariant, InvIsSound, PTL

(***************************************************************************)
(* lookupNode of table.go: "the goal is to ask all the closest nodes with  *)
(* maximum of alpha pending requests".  While a node that stays online has *)
(* somebody left to ask, alpha queries are open.                           *)
(***************************************************************************)
THEOREM LookupNeverIdles == Spec => []AllPlacesTaken
  BY LookupInvariant, InvIsSound, PTL

=============================================================================
