---------------------------- MODULE ServerProofs ----------------------------
(***************************************************************************)
(* For every set of nodes, limit on peers, dial ratio and number of active *)
(* tasks: a server keeps its count of inbound peers and its limits, and    *)
(* its dial loop never stops while dials are needed.                       *)
(***************************************************************************)
EXTENDS Server, FiniteSetTheorems, SequenceTheorems, TLAPS

\* The tasks of one dial loop.
DialState == [running : SUBSET Tasks, queued : Seq(Tasks)]

DialOK(d) == d \in DialState /\ Cardinality(d.running) <= maxActiveDialTasks

IInv == PeersBounded /\ dial \in [Nodes -> DialState] /\ DialLoopTicks

LEMMA TasksFinite ==
    ASSUME NEW T \in SUBSET Tasks
    PROVE  IsFiniteSet(T) /\ Cardinality(T) \in Nat
  <1>1. IsFiniteSet(Nodes \cup {"discover"})
    BY ServerAssumption, FS_AddElement
  <1>2. IsFiniteSet((Nodes \cup {"discover"}) \cup {"wait"})
    BY <1>1, FS_AddElement
  <1>3. Tasks = (Nodes \cup {"discover"}) \cup {"wait"}
    BY DEF Tasks
  <1>4. QED
    BY <1>2, <1>3, FS_Subset, FS_CardinalityType

\* A sequence has at most as many elements as places.
LEMMA ToSetLemma ==
    ASSUME NEW S, NEW s \in Seq(S)
    PROVE  /\ ToSet(s) \subseteq S
           /\ IsFiniteSet(ToSet(s)) /\ Cardinality(ToSet(s)) <= Len(s)
           /\ ToSet(s) = {} => s = <<>>
  <1>1. DOMAIN s = 1 .. Len(s) /\ Len(s) \in Nat /\ ToSet(s) = {s[i] : i \in 1 .. Len(s)}
    BY DEF ToSet
  <1> DEFINE f == [i \in 1 .. Len(s) |-> s[i]]
  <1>2. f \in Surjection(1 .. Len(s), ToSet(s))
    BY <1>1 DEF Surjection
  <1>3. IsFiniteSet(1 .. Len(s)) /\ Cardinality(1 .. Len(s)) = Len(s)
    BY <1>1, FS_Interval
  <1>4. IsFiniteSet(ToSet(s)) /\ Cardinality(ToSet(s)) <= Len(s)
    BY <1>2, <1>3, FS_Surjection
  <1>5. ToSet(s) \subseteq S
    BY <1>1
  <1>6. ToSet(s) = {} => s = <<>>
    BY <1>1
  <1>7. QED
    BY <1>4, <1>5, <1>6

LEMMA ConcatToSet ==
    ASSUME NEW S, NEW s \in Seq(S), NEW t \in Seq(S)
    PROVE  s \o t \in Seq(S) /\ ToSet(s \o t) = ToSet(s) \cup ToSet(t)
  <1> DEFINE c == s \o t
  <1>1. /\ c \in Seq(S) /\ Len(c) = Len(s) + Len(t) /\ Len(s) \in Nat /\ Len(t) \in Nat
        /\ \A i \in 1 .. Len(c) : c[i] = IF i <= Len(s) THEN s[i] ELSE t[i - Len(s)]
    OBVIOUS
  <1>2. /\ ToSet(c) = {c[i] : i \in 1 .. Len(c)} /\ ToSet(s) = {s[i] : i \in 1 .. Len(s)}
        /\ ToSet(t) = {t[i] : i \in 1 .. Len(t)}
    BY <1>1 DEF ToSet
  <1> HIDE DEF c
  <1>3. ASSUME NEW x \in ToSet(c) PROVE x \in ToSet(s) \cup ToSet(t)
    <2>1. PICK i \in 1 .. Len(c) : x = c[i]
      BY <1>2
    <2>2. CASE i <= Len(s)
      <3>1. i \in 1 .. Len(s) /\ x = s[i]
        BY <1>1, <2>1, <2>2
      <3>2. QED
        BY <1>2, <3>1
    <2>3. CASE ~(i <= Len(s))
      <3>1. i - Len(s) \in 1 .. Len(t) /\ x = t[i - Len(s)]
        BY <1>1, <2>1, <2>3
      <3>2. QED
        BY <1>2, <3>1
    <2>4. QED
      BY <2>2, <2>3
  <1>4. ASSUME NEW x \in ToSet(s) PROVE x \in ToSet(c)
    <2>1. PICK i \in 1 .. Len(s) : x = s[i]
      BY <1>2
    <2>2. i \in 1 .. Len(c) /\ x = c[i]
      BY <1>1, <2>1
    <2>3. QED
      BY <1>2, <2>2
  <1>5. ASSUME NEW x \in ToSet(t) PROVE x \in ToSet(c)
    <2>1. PICK i \in 1 .. Len(t) : x = t[i]
      BY <1>2
    <2>2. Len(s) + i \in 1 .. Len(c) /\ ~(Len(s) + i <= Len(s)) /\ (Len(s) + i) - Len(s) = i
      BY <1>1, <2>1
    <2>3. x = c[Len(s) + i]
      BY <1>1, <2>1, <2>2
    <2>4. QED
      BY <1>2, <2>2, <2>3
  <1>6. QED
    BY <1>1, <1>3, <1>4, <1>5 DEF c

\* A sequence cut in two has the elements of its parts.
LEMMA CutLemma ==
    ASSUME NEW S, NEW s \in Seq(S), NEW k \in 0 .. Len(s)
    PROVE  /\ SubSeq(s, 1, k) \in Seq(S) /\ Len(SubSeq(s, 1, k)) = k
           /\ SubSeq(s, k + 1, Len(s)) \in Seq(S)
           /\ ToSet(s) = ToSet(SubSeq(s, 1, k)) \cup ToSet(SubSeq(s, k + 1, Len(s)))
  <1> DEFINE l == Len(s)
             a == SubSeq(s, 1, k)
             b == SubSeq(s, k + 1, l)
  <1>0. l \in Nat /\ k \in Nat /\ k <= l /\ \A i \in 1 .. l : s[i] \in S
    OBVIOUS
  <1>1. a \in Seq(S) /\ Len(a) = k /\ \A i \in 1 .. k : a[i] = s[i]
    <2>1. \A i \in 1 .. k : s[i] \in S
      BY <1>0
    <2>2. /\ a \in Seq(S) /\ Len(a) = (IF 1 <= k THEN k - 1 + 1 ELSE 0)
          /\ \A i \in 1 .. k - 1 + 1 : a[i] = s[1 + i - 1]
      BY <1>0, <2>1, SubSeqProperties
    <2>3. Len(a) = k /\ k - 1 + 1 = k /\ \A i \in 1 .. k : 1 + i - 1 = i
      BY <1>0, <2>2
    <2>4. QED
      BY <2>2, <2>3
  <1>2. b \in Seq(S) /\ Len(b) = l - k /\ \A i \in 1 .. l - k : b[i] = s[k + i]
    <2>1. \A i \in k + 1 .. l : s[i] \in S
      BY <1>0
    <2>2. /\ b \in Seq(S) /\ Len(b) = (IF k + 1 <= l THEN l - (k + 1) + 1 ELSE 0)
          /\ \A i \in 1 .. l - (k + 1) + 1 : b[i] = s[(k + 1) + i - 1]
      BY <1>0, <2>1, SubSeqProperties
    <2>3. Len(b) = l - k /\ l - (k + 1) + 1 = l - k /\ \A i \in 1 .. l - k : (k + 1) + i - 1 = k + i
      BY <1>0, <2>2
    <2>4. QED
      BY <2>2, <2>3
  <1> HIDE DEF a, b
  <1>3. /\ ToSet(s) = {s[i] : i \in 1 .. l} /\ ToSet(a) = {a[i] : i \in 1 .. k}
        /\ ToSet(b) = {b[i] : i \in 1 .. l - k}
    <2>1. DOMAIN s = 1 .. l /\ DOMAIN a = 1 .. k /\ DOMAIN b = 1 .. l - k
      BY <1>0, <1>1, <1>2
    <2>2. QED
      BY <2>1 DEF ToSet
  <1> HIDE DEF l
  <1>4. ASSUME NEW x \in ToSet(s) PROVE x \in ToSet(a) \cup ToSet(b)
    <2>1. PICK i \in 1 .. l : x = s[i]
      BY <1>3
    <2>2. CASE i <= k
      <3>1. i \in 1 .. k /\ x = a[i]
        BY <1>0, <1>1, <2>1, <2>2
      <3>2. QED
        BY <1>3, <3>1
    <2>3. CASE ~(i <= k)
      <3>1. i - k \in 1 .. l - k /\ k + (i - k) = i
        BY <1>0, <2>1, <2>3
      <3>2. x = b[i - k]
        BY <1>2, <2>1, <3>1
      <3>3. QED
        BY <1>3, <3>1, <3>2
    <2>4. QED
      BY <2>2, <2>3
  <1>5. ASSUME NEW x \in ToSet(a) PROVE x \in ToSet(s)
    <2>1. PICK i \in 1 .. k : x = s[i]
      BY <1>1, <1>3
    <2>2. i \in 1 .. l
      BY <1>0, <2>1
    <2>3. QED
      BY <1>3, <2>1, <2>2
  <1>6. ASSUME NEW x \in ToSet(b) PROVE x \in ToSet(s)
    <2>1. PICK i \in 1 .. l - k : x = s[k + i]
      BY <1>2, <1>3
    <2>2. k + i \in 1 .. l
      BY <1>0, <2>1
    <2>3. QED
      BY <1>3, <2>1, <2>2
  <1>7. QED
    BY <1>1, <1>2, <1>4, <1>5, <1>6 DEF a, b, l

----------------------------------------------------------------------------
(***************************************************************************)
(* startTasks keeps the number of active tasks within its limit and loses  *)
(* no task.                                                                *)
(***************************************************************************)
LEMMA StartTasksLemma ==
    ASSUME NEW d, DialOK(d), NEW ts \in Seq(Tasks)
    PROVE  /\ DialOK(startTasks(d, ts))
           /\ AllTasks(startTasks(d, ts)) = AllTasks(d) \cup ToSet(ts)
  <1> DEFINE room == maxActiveDialTasks - Cardinality(d.running)
             k    == IF room < Len(ts) THEN room ELSE Len(ts)
             a    == SubSeq(ts, 1, k)
             b    == SubSeq(ts, k + 1, Len(ts))
             e    == startTasks(d, ts)
  <1>1. /\ d \in DialState /\ d.running \subseteq Tasks /\ d.queued \in Seq(Tasks)
        /\ IsFiniteSet(d.running) /\ Cardinality(d.running) \in Nat
        /\ Cardinality(d.running) <= maxActiveDialTasks /\ maxActiveDialTasks \in Nat
    BY TasksFinite, ServerAssumption DEF DialOK, DialState
  <1>2. room \in Nat /\ k \in 0 .. Len(ts) /\ k <= room
    BY <1>1
  <1>3. e = [d EXCEPT !.running = @ \cup ToSet(a), !.queued = @ \o b]
    BY DEF startTasks
  <1> HIDE DEF k
  <1>4. /\ a \in Seq(Tasks) /\ Len(a) = k /\ b \in Seq(Tasks)
        /\ ToSet(ts) = ToSet(a) \cup ToSet(b)
    BY <1>2, CutLemma
  <1> HIDE DEF a, b, e
  <1>5. ToSet(a) \subseteq Tasks /\ IsFiniteSet(ToSet(a)) /\ Cardinality(ToSet(a)) <= k
    BY <1>4, ToSetLemma
  <1>6. d.queued \o b \in Seq(Tasks) /\ ToSet(d.queued \o b) = ToSet(d.queued) \cup ToSet(b)
    BY <1>1, <1>4, ConcatToSet
  <1>7. e.running = d.running \cup ToSet(a) /\ e.queued = d.queued \o b /\ e \in DialState
    BY <1>1, <1>3, <1>5, <1>6 DEF DialState
  <1>8. Cardinality(e.running) <= maxActiveDialTasks
    <2>1. Cardinality(e.running) =
            Cardinality(d.running) + Cardinality(ToSet(a)) - Cardinality(d.running \cap ToSet(a))
      BY <1>1, <1>5, <1>7, FS_Union
    <2>2. Cardinality(d.running \cap ToSet(a)) \in Nat /\ Cardinality(ToSet(a)) \in Nat
      BY <1>1, <1>5, FS_Intersection, FS_CardinalityType
    <2>3. QED
      BY <1>1, <1>2, <1>5, <2>1, <2>2
  <1>9. AllTasks(e) = AllTasks(d) \cup ToSet(ts)
    BY <1>4, <1>6, <1>7 DEF AllTasks
  <1>10. QED
    BY <1>7, <1>8, <1>9 DEF DialOK, e

(***************************************************************************)
(* newTasks offers sequences of tasks, and an empty one only if the loop   *)
(* has something to tick it or needs no dial.                              *)
(***************************************************************************)
LEMMA NewTasksLemma ==
    ASSUME NEW n \in Nodes, NEW d, DialOK(d), NEW conns, NEW hs,
           NEW ts \in newTasks(n, d, conns, hs)
    PROVE  /\ ts \in Seq(Tasks)
           /\ AllTasks(d) = {} /\ ToSet(ts) = {} => ~(needDynDials(n, d, conns) > 0)
  <1> DEFINE look(ds)   == Lookup(n, d, conns, ds)
             timers(ds) == {<<>>} \cup IF AllTasks(d) = {} /\ ds = {} /\ look(ds) = <<>>
                                      THEN {<<"wait">>} ELSE {}
             seqs(ds)   == {s \o look(ds) \o timer : s \in SetToSeqs(ds), timer \in timers(ds)}
  <1>1. PICK dials \in NewDials(n, d, conns, hs) : ts \in seqs(dials)
    <2>1. newTasks(n, d, conns, hs) = UNION {seqs(ds) : ds \in NewDials(n, d, conns, hs)}
      BY DEF newTasks
    <2> HIDE DEF seqs
    <2>2. QED
      BY <2>1
  <1> DEFINE lookup == look(dials)
  <1>0. /\ <<>> \in Seq(Tasks) /\ <<"wait">> \in Seq(Tasks) /\ <<"discover">> \in Seq(Tasks)
    <2>1. "wait" \in Tasks /\ "discover" \in Tasks
      BY DEF Tasks
    <2>2. QED
      BY <2>1
  <1>2. PICK s \in SetToSeqs(dials), timer \in timers(dials) : ts = (s \o lookup) \o timer
    <2> HIDE DEF look, timers
    <2>1. QED
      BY <1>1
  <1>3. dials \subseteq Nodes /\ IsFiniteSet(dials) /\ Cardinality(dials) \in Nat
    BY ServerAssumption, FS_Subset, FS_CardinalityType DEF NewDials
  <1>4. s \in Seq(Tasks) /\ Len(s) = Cardinality(dials)
    BY <1>3 DEF SetToSeqs, Tasks
  <1>5. lookup \in Seq(Tasks) /\ timer \in Seq(Tasks)
    BY <1>0, <1>2 DEF Lookup
  <1>6. lookup = <<>> => ~(needDynDials(n, d, conns) > Cardinality(dials)) \/ "discover" \in AllTasks(d)
    BY DEF Lookup
  <1> HIDE DEF look, lookup, timers
  <1>7. s \o lookup \in Seq(Tasks) /\ ToSet(s \o lookup) = ToSet(s) \cup ToSet(lookup)
    BY <1>4, <1>5, ConcatToSet
  <1>8. ts \in Seq(Tasks) /\ ToSet(ts) = ToSet(s) \cup ToSet(lookup) \cup ToSet(timer)
    <2> DEFINE sl == s \o lookup
    <2>1. sl \in Seq(Tasks) /\ ToSet(sl) = ToSet(s) \cup ToSet(lookup) /\ ts = sl \o timer
      BY <1>2, <1>7
    <2> HIDE DEF sl
    <2>2. QED
      BY <1>5, <2>1, ConcatToSet
  <1>9. ASSUME AllTasks(d) = {}, ToSet(ts) = {} PROVE ~(needDynDials(n, d, conns) > 0)
    <2>1. s = <<>> /\ lookup = <<>>
      BY <1>4, <1>5, <1>8, <1>9, ToSetLemma
    <2>2. Cardinality(dials) = 0
      BY <1>4, <2>1
    <2>3. QED
      BY <1>6, <1>9, <2>1, <2>2
  <1>10. QED
    BY <1>8, <1>9

(***************************************************************************)
(* scheduleTasks leaves a loop within its limit, and one that is ticked    *)
(* again if dials are needed.                                              *)
(***************************************************************************)
LEMMA ScheduleLemma ==
    ASSUME NEW n \in Nodes, NEW d, DialOK(d), NEW conns, NEW hs,
           NEW e \in scheduleTasks(n, d, conns, hs)
    PROVE  DialOK(e) /\ (needDynDials(n, e, conns) > 0 => AllTasks(e) # {})
  <1> DEFINE c == [d EXCEPT !.queued = <<>>]
             q == startTasks(c, d.queued)
  <1>1. DialOK(c) /\ d.queued \in Seq(Tasks)
    <2>1. <<>> \in Seq(Tasks)
      OBVIOUS
    <2>2. c \in DialState /\ c.running = d.running /\ d.queued \in Seq(Tasks)
      BY <2>1 DEF DialOK, DialState
    <2>3. QED
      BY <2>2 DEF DialOK
  <1>2. DialOK(q)
    BY <1>1, StartTasksLemma
  <1>3. scheduleTasks(n, d, conns, hs) =
          IF Cardinality(q.running) >= maxActiveDialTasks
          THEN {q}
          ELSE {startTasks(q, ts) : ts \in newTasks(n, q, conns, hs)}
    BY DEF scheduleTasks
  <1> HIDE DEF q
  <1>4. CASE Cardinality(q.running) >= maxActiveDialTasks
    <2>1. e = q
      BY <1>3, <1>4
    <2>2. q.running # {}
      <3> SUFFICES ASSUME q.running = {} PROVE FALSE
        OBVIOUS
      <3>1. Cardinality(q.running) = 0
        BY FS_EmptySet
      <3>2. QED
        BY <1>4, <3>1, ServerAssumption
    <2>3. QED
      BY <1>2, <2>1, <2>2 DEF AllTasks
  <1>5. CASE ~(Cardinality(q.running) >= maxActiveDialTasks)
    <2>1. PICK ts \in newTasks(n, q, conns, hs) : e = startTasks(q, ts)
      BY <1>3, <1>5
    <2>2. /\ ts \in Seq(Tasks)
          /\ AllTasks(q) = {} /\ ToSet(ts) = {} => ~(needDynDials(n, q, conns) > 0)
      BY <1>2, <2>1, NewTasksLemma
    <2>3. DialOK(e) /\ AllTasks(e) = AllTasks(q) \cup ToSet(ts)
      BY <1>2, <2>1, <2>2, StartTasksLemma
    <2>4. ASSUME AllTasks(e) = {} PROVE ~(needDynDials(n, e, conns) > 0)
      <3>1. AllTasks(q) = {} /\ ToSet(ts) = {} /\ AllTasks(q) = AllTasks(e)
        BY <2>3, <2>4
      <3>2. needDynDials(n, e, conns) = needDynDials(n, q, conns)
        BY <3>1 DEF needDynDials, dialing
      <3>3. QED
        BY <2>2, <3>1, <3>2
    <2>5. QED
      BY <2>3, <2>4
  <1>6. QED
    BY <1>4, <1>5

----------------------------------------------------------------------------
\* The parts of the invariant: the books of the peers of one server, and its loop.
Flags == {"nil", "dynDialedConn", "inboundConn"}

BooksOK(n, conns, count) ==
    /\ conns \in [Nodes -> Flags]
    /\ count \in Int /\ count = Cardinality(Connected(conns, "inboundConn"))
    /\ Cardinality(Occupied(conns)) <= MaxPeers
    /\ Cardinality(Connected(conns, "inboundConn")) <= maxInboundConns(n)

LoopOK(n) ==
    /\ DialOK(dial[n])
    /\ server[n] # "running" => dial[n] = NoTasks
    /\ server[n] = "running" => online[n]
    /\ server[n] = "running" /\ needDynDials(n, dial[n], peers[n]) > 0 => AllTasks(dial[n]) # {}

Shape ==
    /\ online \in [Nodes -> BOOLEAN]
    /\ server \in [Nodes -> {"nil", "running", "stopped"}]
    /\ DOMAIN peers = Nodes /\ peers = [n \in Nodes |-> peers[n]]
    /\ DOMAIN inboundCount = Nodes /\ inboundCount = [n \in Nodes |-> inboundCount[n]]
    /\ DOMAIN dial = Nodes /\ dial = [n \in Nodes |-> dial[n]]
    /\ handshakes \subseteq Handshake
    /\ stops \in 0 .. MaxStops

Parts == Shape /\ \A n \in Nodes : BooksOK(n, peers[n], inboundCount[n]) /\ LoopOK(n)

LEMMA PartsLemma == IInv <=> Parts
  <1>1. ASSUME IInv PROVE Parts
    <2>1. TypeOK /\ InboundCountMatches /\ PeerLimits /\ DialLoopTicks /\ dial \in [Nodes -> DialState]
      BY <1>1 DEF IInv, PeersBounded
    <2>2. Shape
      BY <2>1 DEF Shape, TypeOK
    <2>3. \A n \in Nodes : BooksOK(n, peers[n], inboundCount[n])
      BY <2>1 DEF BooksOK, TypeOK, InboundCountMatches, PeerLimits, Flags
    <2>4. \A n \in Nodes : LoopOK(n)
      BY <2>1 DEF LoopOK, DialOK, TypeOK, DialLoopTicks
    <2>5. QED
      BY <2>2, <2>3, <2>4 DEF Parts
  <1>2. ASSUME Parts PROVE IInv
    <2>1. Shape /\ \A n \in Nodes : BooksOK(n, peers[n], inboundCount[n]) /\ LoopOK(n)
      BY <1>2 DEF Parts
    <2>2. peers \in [Nodes -> [Nodes -> Flags]] /\ inboundCount \in [Nodes -> Int]
      BY <2>1 DEF Shape, BooksOK
    <2>3. dial \in [Nodes -> DialState]
      BY <2>1 DEF Shape, LoopOK, DialOK
    <2>4. InboundCountMatches /\ PeerLimits
      BY <2>1 DEF BooksOK, InboundCountMatches, PeerLimits
    <2>5. DialLoopTicks
      BY <2>1 DEF LoopOK, DialLoopTicks
    <2>6. TypeOK
      BY <2>1, <2>2, <2>3 DEF Shape, LoopOK, DialOK, DialState, TypeOK, Flags
    <2>7. QED
      BY <2>3, <2>4, <2>5, <2>6 DEF IInv, PeersBounded
  <1>3. QED
    BY <1>1, <1>2

LEMMA LimitsLemma ==
    ASSUME NEW n \in Nodes
    PROVE  MaxPeers \in Nat /\ maxInboundConns(n) \in Nat
  <1> DEFINE r == IF DialRatio = 0 THEN defaultDialRatio ELSE DialRatio
  <1>1. MaxPeers \in Nat /\ r \in Nat \ {0}
    BY ServerAssumption DEF defaultDialRatio
  <1> HIDE DEF r
  <1>2. MaxPeers \div r \in 0 .. MaxPeers
    BY <1>1
  <1>3. maxDialedConns(n) \in 0 .. MaxPeers
    BY <1>1, <1>2 DEF maxDialedConns, r
  <1>4. QED
    BY <1>1, <1>3 DEF maxInboundConns

\* No peers at all.
LEMMA NoPeersLemma ==
    ASSUME NEW n \in Nodes
    PROVE  BooksOK(n, [b \in Nodes |-> "nil"], 0)
  <1> DEFINE c == [b \in Nodes |-> "nil"]
  <1>1. Connected(c, "inboundConn") = {} /\ Occupied(c) = {} /\ c \in [Nodes -> Flags]
    BY DEF Connected, Occupied, Flags
  <1>2. Cardinality({}) = 0
    BY FS_EmptySet
  <1>3. QED
    BY <1>1, <1>2, LimitsLemma DEF BooksOK

(***************************************************************************)
(* A peer is added once the checks of the handshake pass: the counts of    *)
(* that moment decide, not those of the moment the handshake was sent.     *)
(***************************************************************************)
LEMMA AddedLemma ==
    ASSUME NEW n \in Nodes, NEW b \in Nodes, NEW flag \in {"dynDialedConn", "inboundConn"},
           NEW conns, NEW count, BooksOK(n, conns, count),
           conns[b] = "nil", Cardinality(Occupied(conns)) < MaxPeers,
           flag = "inboundConn" => count < maxInboundConns(n)
    PROVE  BooksOK(n, [conns EXCEPT ![b] = flag],
                   IF flag = "inboundConn" THEN count + 1 ELSE count)
  <1> DEFINE new == [conns EXCEPT ![b] = flag]
             inb == Connected(conns, "inboundConn")
             occ == Occupied(conns)
  <1>1. IsFiniteSet(Nodes) /\ inb \subseteq Nodes /\ occ \subseteq Nodes /\ b \notin inb /\ b \notin occ
    BY ServerAssumption DEF Connected, Occupied
  <1>2. IsFiniteSet(inb) /\ IsFiniteSet(occ) /\ Cardinality(inb) \in Nat /\ Cardinality(occ) \in Nat
    BY <1>1, FS_Subset, FS_CardinalityType
  <1>3. new \in [Nodes -> Flags] /\ Occupied(new) = occ \cup {b}
        /\ Connected(new, "inboundConn") = IF flag = "inboundConn" THEN inb \cup {b} ELSE inb
    BY DEF BooksOK, Flags, Occupied, Connected
  <1>4. Cardinality(occ \cup {b}) = Cardinality(occ) + 1 /\ Cardinality(inb \cup {b}) = Cardinality(inb) + 1
    BY <1>1, <1>2, FS_AddElement
  <1>5. MaxPeers \in Nat /\ maxInboundConns(n) \in Nat
    BY LimitsLemma
  <1>6. count = Cardinality(inb) /\ Cardinality(inb) <= maxInboundConns(n) /\ Cardinality(occ) < MaxPeers
    BY DEF BooksOK
  <1> DEFINE c == IF flag = "inboundConn" THEN count + 1 ELSE count
  <1> HIDE DEF new, inb, occ
  <1>7. c = Cardinality(Connected(new, "inboundConn")) /\ c <= maxInboundConns(n) /\ c \in Int
    <2>1. CASE flag = "inboundConn"
      <3>1. count < maxInboundConns(n) /\ count \in Nat /\ c = count + 1
        BY <1>2, <1>6, <2>1
      <3>2. Cardinality(Connected(new, "inboundConn")) = Cardinality(inb) + 1
        BY <1>3, <1>4, <2>1
      <3>3. QED
        BY <1>5, <1>6, <3>1, <3>2
    <2>2. CASE flag # "inboundConn"
      BY <1>2, <1>3, <1>6, <2>2
    <2>3. QED
      BY <2>1, <2>2
  <1>8. Cardinality(Occupied(new)) <= MaxPeers
    BY <1>2, <1>3, <1>4, <1>5, <1>6
  <1> HIDE DEF c
  <1>9. BooksOK(n, new, c)
    BY <1>3, <1>7, <1>8 DEF BooksOK
  <1>10. QED
    BY <1>9 DEF new, c

\* A peer that is deleted leaves the counts exact.
LEMMA DeletedLemma ==
    ASSUME NEW n \in Nodes, NEW b \in Nodes, NEW conns, NEW count, BooksOK(n, conns, count),
           conns[b] # "nil"
    PROVE  BooksOK(n, [conns EXCEPT ![b] = "nil"],
                   IF conns[b] = "inboundConn" THEN count - 1 ELSE count)
  <1> DEFINE new == [conns EXCEPT ![b] = "nil"]
             inb == Connected(conns, "inboundConn")
             occ == Occupied(conns)
  <1>1. IsFiniteSet(Nodes) /\ inb \subseteq Nodes /\ occ \subseteq Nodes
    BY ServerAssumption DEF Connected, Occupied
  <1>2. IsFiniteSet(inb) /\ IsFiniteSet(occ) /\ Cardinality(inb) \in Nat /\ Cardinality(occ) \in Nat
    BY <1>1, FS_Subset, FS_CardinalityType
  <1>3. new \in [Nodes -> Flags] /\ Occupied(new) = occ \ {b}
        /\ Connected(new, "inboundConn") = inb \ {b}
        /\ (b \in inb <=> conns[b] = "inboundConn") /\ b \in occ
    BY DEF BooksOK, Flags, Occupied, Connected
  <1>4. /\ Cardinality(occ \ {b}) = Cardinality(occ) - 1
        /\ Cardinality(inb \ {b}) = IF b \in inb THEN Cardinality(inb) - 1 ELSE Cardinality(inb)
    BY <1>2, <1>3, FS_RemoveElement
  <1>5. MaxPeers \in Nat /\ maxInboundConns(n) \in Nat
    BY LimitsLemma
  <1>6. count = Cardinality(inb) /\ Cardinality(inb) <= maxInboundConns(n) /\ Cardinality(occ) <= MaxPeers
    BY DEF BooksOK
  <1> DEFINE c == IF conns[b] = "inboundConn" THEN count - 1 ELSE count
  <1> HIDE DEF new, inb, occ
  <1>7. c = Cardinality(Connected(new, "inboundConn")) /\ c <= maxInboundConns(n) /\ c \in Int
    <2>1. CASE conns[b] = "inboundConn"
      BY <1>2, <1>3, <1>4, <1>5, <1>6, <2>1
    <2>2. CASE conns[b] # "inboundConn"
      BY <1>2, <1>3, <1>4, <1>6, <2>2
    <2>3. QED
      BY <2>1, <2>2
  <1>8. Cardinality(Occupied(new)) <= MaxPeers
    BY <1>2, <1>3, <1>4, <1>5, <1>6
  <1> HIDE DEF c
  <1>9. BooksOK(n, new, c)
    BY <1>3, <1>7, <1>8 DEF BooksOK
  <1>10. QED
    BY <1>9 DEF new, c

(***************************************************************************)
(* refreshFunc: a loop that runs is scheduled again with the peers it then *)
(* has, one that does not run has no tasks and gets none.                  *)
(***************************************************************************)
LEMMA RefreshLemma ==
    ASSUME Parts, NEW n \in Nodes, NEW d, DialOK(d), Refresh(n, d, peers'[n]),
           server' = server, online' = online
    PROVE  /\ DOMAIN dial' = Nodes /\ dial' = [m \in Nodes |-> dial'[m]]
           /\ \A m \in Nodes \ {n} : dial'[m] = dial[m]
           /\ LoopOK(n)'
  <1>0. DOMAIN dial = Nodes /\ dial = [m \in Nodes |-> dial[m]] /\ LoopOK(n)
    BY DEF Parts, Shape
  <1>1. CASE server[n] = "running"
    <2>1. PICK e \in scheduleTasks(n, d, peers'[n], handshakes') : dial' = [dial EXCEPT ![n] = e]
      BY <1>1 DEF Refresh
    <2>2. DialOK(e) /\ (needDynDials(n, e, peers'[n]) > 0 => AllTasks(e) # {})
      BY <2>1, ScheduleLemma
    <2>3. /\ DOMAIN dial' = Nodes /\ dial' = [m \in Nodes |-> dial'[m]] /\ dial'[n] = e
          /\ \A m \in Nodes \ {n} : dial'[m] = dial[m]
      BY <1>0, <2>1
    <2>4. LoopOK(n)'
      BY <1>0, <1>1, <2>2, <2>3 DEF LoopOK, DialOK, needDynDials, dialing, AllTasks
    <2>5. QED
      BY <2>3, <2>4
  <1>2. CASE server[n] # "running"
    <2>1. dial' = dial
      BY <1>2 DEF Refresh
    <2>2. LoopOK(n)'
      BY <1>0, <1>2, <2>1 DEF LoopOK, DialOK
    <2>3. QED
      BY <1>0, <2>1, <2>2
  <1>3. QED
    BY <1>1, <1>2

----------------------------------------------------------------------------
\* The tasks of a loop without one that is done.
LEMMA TaskDoneLemma ==
    ASSUME NEW d, DialOK(d), NEW x
    PROVE  DialOK([d EXCEPT !.running = @ \ {x}])
  <1> DEFINE e == [d EXCEPT !.running = @ \ {x}]
  <1>1. e \in DialState /\ e.running = d.running \ {x}
    BY DEF DialOK, DialState
  <1>2. IsFiniteSet(d.running) /\ Cardinality(d.running) \in Nat /\ Cardinality(d.running) <= maxActiveDialTasks
    BY TasksFinite DEF DialOK, DialState
  <1>3. Cardinality(d.running \ {x}) \in Nat /\ Cardinality(d.running \ {x}) <= Cardinality(d.running)
    BY <1>2, FS_Subset, FS_CardinalityType
  <1>4. Cardinality(e.running) <= maxActiveDialTasks
    <2> HIDE DEF e
    <2>1. QED
      BY <1>1, <1>2, <1>3, ServerAssumption
  <1> HIDE DEF e
  <1>5. DialOK(e)
    BY <1>1, <1>4 DEF DialOK
  <1>6. QED
    BY <1>5 DEF e

\* What is sent when a connection is set up are handshakes.
LEMMA SetupConnLemma ==
    ASSUME NEW n \in Nodes, NEW b \in Nodes
    PROVE  SetupConn(n, b) \subseteq Handshake
  BY DEF SetupConn, setupConn, Handshake

(***************************************************************************)
(* A step of one server n that runs on or stays down: its books must be    *)
(* right, and the tasks that its dial loop is refreshed with.              *)
(***************************************************************************)
LEMMA OneServerLemma ==
    ASSUME Parts, NEW n \in Nodes, NEW d, DialOK(d), Refresh(n, d, peers'[n]),
           server' = server, online' = online, stops' = stops,
           handshakes' \subseteq Handshake,
           NEW conns, NEW count, BooksOK(n, conns, count),
           peers' = [peers EXCEPT ![n] = conns], inboundCount' = [inboundCount EXCEPT ![n] = count]
    PROVE  Parts'
  <1>1. Shape /\ \A m \in Nodes : BooksOK(m, peers[m], inboundCount[m]) /\ LoopOK(m)
    BY DEF Parts
  <1>2. /\ DOMAIN dial' = Nodes /\ dial' = [m \in Nodes |-> dial'[m]]
        /\ \A m \in Nodes \ {n} : dial'[m] = dial[m]
        /\ LoopOK(n)'
    BY RefreshLemma
  <1>3. /\ DOMAIN peers' = Nodes /\ peers' = [m \in Nodes |-> peers'[m]] /\ peers'[n] = conns
        /\ DOMAIN inboundCount' = Nodes /\ inboundCount' = [m \in Nodes |-> inboundCount'[m]]
        /\ inboundCount'[n] = count
        /\ \A m \in Nodes \ {n} : peers'[m] = peers[m] /\ inboundCount'[m] = inboundCount[m]
    BY <1>1 DEF Shape
  <1>4. Shape'
    BY <1>1, <1>2, <1>3 DEF Shape
  <1>5. \A m \in Nodes : BooksOK(m, peers'[m], inboundCount'[m])
    BY <1>1, <1>3
  <1>6. \A m \in Nodes : LoopOK(m)'
    <2> SUFFICES ASSUME NEW m \in Nodes \ {n} PROVE LoopOK(m)'
      BY <1>2
    <2>1. LoopOK(m) /\ dial'[m] = dial[m] /\ peers'[m] = peers[m]
      BY <1>1, <1>2, <1>3
    <2>2. QED
      BY <2>1 DEF LoopOK, DialOK
  <1>7. QED
    BY <1>4, <1>5, <1>6 DEF Parts, BooksOK

\* A step that changes neither peers nor counts.
LEMMA TickLemma ==
    ASSUME Parts, NEW n \in Nodes, NEW d, DialOK(d), Refresh(n, d, peers[n]),
           server' = server, online' = online, stops' = stops,
           handshakes' \subseteq Handshake, peers' = peers, inboundCount' = inboundCount
    PROVE  Parts'
  <1>1. BooksOK(n, peers[n], inboundCount[n])
    BY DEF Parts
  <1>2. peers = [peers EXCEPT ![n] = peers[n]] /\ inboundCount = [inboundCount EXCEPT ![n] = inboundCount[n]]
    BY DEF Parts, Shape
  <1>3. QED
    BY <1>1, <1>2, OneServerLemma

\* No tasks at all.
LEMMA NoTasksLemma == DialOK(NoTasks) /\ AllTasks(NoTasks) = {}
  <1>1. Cardinality({}) = 0
    BY FS_EmptySet
  <1>2. NoTasks.running = {} /\ NoTasks.queued = <<>> /\ <<>> \in Seq(Tasks)
    BY DEF NoTasks
  <1>3. ToSet(<<>>) = {}
    BY DEF ToSet
  <1>4. NoTasks \in DialState
    BY <1>2 DEF NoTasks, DialState
  <1>5. QED
    BY <1>1, <1>2, <1>3, <1>4, ServerAssumption DEF DialOK, AllTasks

LEMMA InitParts == Init => Parts
  <1> SUFFICES ASSUME Init PROVE Parts
    OBVIOUS
  <1>1. Shape
    BY ServerAssumption DEF Init, Shape
  <1>2. ASSUME NEW n \in Nodes PROVE BooksOK(n, peers[n], inboundCount[n])
    <2>1. peers[n] = [b \in Nodes |-> "nil"] /\ inboundCount[n] = 0
      BY DEF Init
    <2>2. QED
      BY <2>1, NoPeersLemma
  <1>3. ASSUME NEW n \in Nodes PROVE LoopOK(n)
    BY NoTasksLemma DEF Init, LoopOK
  <1>4. QED
    BY <1>1, <1>2, <1>3 DEF Parts

\* A new loop of a server that starts or starts again.
LEMMA StartParts ==
    ASSUME Parts, NEW n \in Nodes, Start(n)
    PROVE  Parts'
  <1>1. Shape /\ \A m \in Nodes : BooksOK(m, peers[m], inboundCount[m]) /\ LoopOK(m)
    BY DEF Parts
  <1>2. PICK e \in scheduleTasks(n, NoTasks, peers[n], handshakes) : dial' = [dial EXCEPT ![n] = e]
    BY DEF Start
  <1>3. DialOK(e) /\ (needDynDials(n, e, peers[n]) > 0 => AllTasks(e) # {})
    BY <1>2, NoTasksLemma, ScheduleLemma
  <1>4. /\ DOMAIN dial' = Nodes /\ dial' = [m \in Nodes |-> dial'[m]] /\ dial'[n] = e
        /\ \A m \in Nodes \ {n} : dial'[m] = dial[m]
    BY <1>1, <1>2 DEF Shape
  <1>5. /\ online' = online /\ online[n] /\ peers' = peers /\ inboundCount' = inboundCount
        /\ handshakes' = handshakes /\ stops' = stops /\ server' = [server EXCEPT ![n] = "running"]
    BY DEF Start
  <1>6. Shape'
    BY <1>1, <1>4, <1>5 DEF Shape
  <1>7. \A m \in Nodes : BooksOK(m, peers'[m], inboundCount'[m])
    BY <1>1, <1>5
  <1>8. LoopOK(n)'
    <2>1. server'[n] = "running"
      BY <1>1, <1>5 DEF Shape
    <2>2. QED
      BY <1>3, <1>4, <1>5, <2>1 DEF LoopOK, DialOK
  <1>9. ASSUME NEW m \in Nodes \ {n} PROVE LoopOK(m)'
    <2>1. LoopOK(m) /\ dial'[m] = dial[m] /\ server'[m] = server[m]
      BY <1>1, <1>4, <1>5 DEF Shape
    <2>2. QED
      BY <1>5, <2>1 DEF LoopOK, DialOK
  <1>10. QED
    BY <1>6, <1>7, <1>8, <1>9 DEF Parts, BooksOK

\* A server that stops has neither peers nor tasks, and counts none.
LEMMA StopParts ==
    ASSUME Parts, NEW n \in Nodes, Stop(n)
    PROVE  Parts'
  <1>1. Shape /\ \A m \in Nodes : BooksOK(m, peers[m], inboundCount[m]) /\ LoopOK(m)
    BY DEF Parts
  <1>2. /\ online' = [online EXCEPT ![n] = FALSE] /\ server' = [server EXCEPT ![n] = "stopped"]
        /\ peers' = [peers EXCEPT ![n] = [b \in Nodes |-> "nil"]]
        /\ inboundCount' = [inboundCount EXCEPT ![n] =
                               @ - Cardinality(Connected(peers[n], "inboundConn"))]
        /\ dial' = [dial EXCEPT ![n] = NoTasks] /\ stops' = stops + 1 /\ stops < MaxStops
        /\ handshakes' = handshakes
    BY DEF Stop
  <1>3. /\ peers'[n] = [b \in Nodes |-> "nil"] /\ inboundCount'[n] = 0
        /\ \A m \in Nodes \ {n} : peers'[m] = peers[m] /\ inboundCount'[m] = inboundCount[m]
    BY <1>1, <1>2 DEF Shape, BooksOK
  <1>4. Shape'
    <2>1. /\ DOMAIN peers' = Nodes /\ peers' = [m \in Nodes |-> peers'[m]]
          /\ DOMAIN inboundCount' = Nodes /\ inboundCount' = [m \in Nodes |-> inboundCount'[m]]
          /\ DOMAIN dial' = Nodes /\ dial' = [m \in Nodes |-> dial'[m]]
      BY <1>1, <1>2 DEF Shape
    <2>2. online' \in [Nodes -> BOOLEAN] /\ server' \in [Nodes -> {"nil", "running", "stopped"}]
      BY <1>1, <1>2 DEF Shape
    <2>3. stops' \in 0 .. MaxStops /\ handshakes' \subseteq Handshake
      BY <1>1, <1>2, ServerAssumption DEF Shape
    <2>4. QED
      BY <2>1, <2>2, <2>3 DEF Shape
  <1>5. BooksOK(n, peers'[n], inboundCount'[n])
    BY <1>3, NoPeersLemma
  <1>6. \A m \in Nodes : BooksOK(m, peers'[m], inboundCount'[m])
    BY <1>1, <1>3, <1>5
  <1>7. LoopOK(n)'
    <2>1. server'[n] = "stopped" /\ dial'[n] = NoTasks
      BY <1>1, <1>2 DEF Shape
    <2>2. QED
      BY <2>1, NoTasksLemma DEF LoopOK, DialOK
  <1>8. ASSUME NEW m \in Nodes \ {n} PROVE LoopOK(m)'
    <2>1. /\ LoopOK(m) /\ dial'[m] = dial[m] /\ server'[m] = server[m]
          /\ online'[m] = online[m] /\ peers'[m] = peers[m]
      BY <1>1, <1>2 DEF Shape
    <2>2. QED
      BY <2>1 DEF LoopOK, DialOK
  <1>9. QED
    BY <1>4, <1>6, <1>7, <1>8 DEF Parts, BooksOK

\* The end of a handshake: the checks are made once more, then the peer is added.
LEMMA HandshakeParts ==
    ASSUME Parts, NEW m \in handshakes, HandshakeDone(m)
    PROVE  Parts'
  <1> DEFINE n     == m.from
             ok    == protoHandshakeChecks(n, m.to, m.flags)
             conns == IF ok THEN [peers[n] EXCEPT ![m.to] = m.flags] ELSE peers[n]
             count == IF ok /\ m.flags = "inboundConn" THEN inboundCount[n] + 1 ELSE inboundCount[n]
  <1>1. Shape /\ \A b \in Nodes : BooksOK(b, peers[b], inboundCount[b]) /\ LoopOK(b)
    BY DEF Parts
  <1>2. /\ n \in Nodes /\ m.to \in Nodes /\ m.flags \in {"dynDialedConn", "inboundConn"}
        /\ handshakes' \subseteq Handshake /\ server' = server /\ online' = online /\ stops' = stops
    BY <1>1 DEF Shape, Handshake, HandshakeDone
  <1>3. /\ peers' = IF ok THEN [peers EXCEPT ![n][m.to] = m.flags] ELSE peers
        /\ inboundCount' = IF ok /\ m.flags = "inboundConn"
                           THEN [inboundCount EXCEPT ![n] = @ + 1] ELSE inboundCount
        /\ Refresh(n, dial[n], peers'[n])
    BY DEF HandshakeDone, addPeer
  <1>4. BooksOK(n, conns, count)
    <2>1. CASE ok
      <3>1. /\ peers[n][m.to] = "nil" /\ Cardinality(Occupied(peers[n])) < MaxPeers
            /\ m.flags = "inboundConn" => inboundCount[n] < maxInboundConns(n)
        BY <2>1 DEF protoHandshakeChecks, encHandshakeChecks
      <3>2. BooksOK(n, [peers[n] EXCEPT ![m.to] = m.flags],
                    IF m.flags = "inboundConn" THEN inboundCount[n] + 1 ELSE inboundCount[n])
        BY <1>1, <1>2, <3>1, AddedLemma
      <3>3. QED
        BY <2>1, <3>2
    <2>2. CASE ~ok
      BY <1>1, <1>2, <2>2
    <2>3. QED
      BY <2>1, <2>2
  <1>5. peers' = [peers EXCEPT ![n] = conns] /\ inboundCount' = [inboundCount EXCEPT ![n] = count]
    <2> HIDE DEF ok
    <2>1. QED
      BY <1>1, <1>2, <1>3 DEF Shape
  <1>6. DialOK(dial[n])
    BY <1>1, <1>2 DEF LoopOK
  <1> HIDE DEF conns, count, ok, n
  <1>7. QED
    BY <1>2, <1>3, <1>4, <1>5, <1>6, OneServerLemma

\* A ping that fails: the peer is deleted.
LEMMA PingParts ==
    ASSUME Parts, NEW n \in Nodes, NEW b \in Nodes, Ping(n, b)
    PROVE  Parts'
  <1> DEFINE conns == [peers[n] EXCEPT ![b] = "nil"]
             count == IF peers[n][b] = "inboundConn" THEN inboundCount[n] - 1 ELSE inboundCount[n]
  <1>1. Shape /\ BooksOK(n, peers[n], inboundCount[n]) /\ LoopOK(n)
    BY DEF Parts
  <1>2. /\ peers[n][b] # "nil" /\ server' = server /\ online' = online /\ stops' = stops
        /\ handshakes' = handshakes
        /\ peers' = [peers EXCEPT ![n][b] = "nil"]
        /\ inboundCount' = IF peers[n][b] = "inboundConn"
                           THEN [inboundCount EXCEPT ![n] = @ - 1] ELSE inboundCount
        /\ Refresh(n, dial[n], peers'[n])
    BY DEF Ping, DeletePeer
  <1>3. BooksOK(n, conns, count)
    BY <1>1, <1>2, DeletedLemma
  <1>4. peers' = [peers EXCEPT ![n] = conns] /\ inboundCount' = [inboundCount EXCEPT ![n] = count]
    BY <1>1, <1>2 DEF Shape
  <1>5. DialOK(dial[n]) /\ handshakes' \subseteq Handshake
    BY <1>1, <1>2 DEF LoopOK, Shape
  <1> HIDE DEF conns, count
  <1>6. QED
    BY <1>2, <1>3, <1>4, <1>5, OneServerLemma

\* Every step of the servers keeps the parts.
LEMMA StepParts == Parts /\ [Next]_vars => Parts'
  <1> SUFFICES ASSUME Parts, [Next]_vars PROVE Parts'
    OBVIOUS
  <1>0. Shape /\ \A m \in Nodes : BooksOK(m, peers[m], inboundCount[m]) /\ LoopOK(m)
    BY DEF Parts
  <1>1. ASSUME NEW n \in Nodes, Start(n) PROVE Parts'
    BY <1>1, StartParts
  <1>2. ASSUME NEW n \in Nodes, GoOnline(n) PROVE Parts'
    <2>1. /\ online' = [online EXCEPT ![n] = TRUE] /\ server' = server /\ peers' = peers
          /\ inboundCount' = inboundCount /\ handshakes' = handshakes /\ dial' = dial
          /\ stops' = stops
      BY <1>2 DEF GoOnline
    <2>2. Shape' /\ \A m \in Nodes : online[m] => online'[m]
      BY <1>0, <2>1 DEF Shape
    <2>3. \A m \in Nodes : LoopOK(m)'
      BY <1>0, <2>1, <2>2 DEF LoopOK, DialOK
    <2>4. QED
      BY <1>0, <2>1, <2>2, <2>3 DEF Parts, BooksOK
  <1>3. ASSUME NEW n \in Nodes, Stop(n) PROVE Parts'
    BY <1>3, StopParts
  <1>4. ASSUME NEW n \in Nodes, NEW b \in Nodes, DialTaskDone(n, b) PROVE Parts'
    <2> DEFINE d == [dial[n] EXCEPT !.running = @ \ {b}]
    <2>1. DialOK(d)
      BY <1>0, TaskDoneLemma DEF LoopOK
    <2>2. handshakes' \subseteq Handshake
      BY <1>0, <1>4, SetupConnLemma DEF DialTaskDone, Shape
    <2>3. /\ Refresh(n, d, peers[n]) /\ server' = server /\ online' = online /\ stops' = stops
          /\ peers' = peers /\ inboundCount' = inboundCount
      BY <1>4 DEF DialTaskDone
    <2> HIDE DEF d
    <2>4. QED
      BY <2>1, <2>2, <2>3, TickLemma
  <1>5. ASSUME NEW n \in Nodes, DiscoverTaskDone(n) PROVE Parts'
    <2> DEFINE d == [dial[n] EXCEPT !.running = @ \ {"discover"}]
    <2>1. DialOK(d)
      BY <1>0, TaskDoneLemma DEF LoopOK
    <2>2. /\ Refresh(n, d, peers[n]) /\ server' = server /\ online' = online /\ stops' = stops
          /\ peers' = peers /\ inboundCount' = inboundCount /\ handshakes' \subseteq Handshake
      BY <1>0, <1>5 DEF DiscoverTaskDone, Shape
    <2> HIDE DEF d
    <2>3. QED
      BY <2>1, <2>2, TickLemma
  <1>6. ASSUME NEW n \in Nodes, WaitExpireTaskDone(n) PROVE Parts'
    <2> DEFINE d == [dial[n] EXCEPT !.running = @ \ {"wait"}]
    <2>1. DialOK(d)
      BY <1>0, TaskDoneLemma DEF LoopOK
    <2>2. /\ Refresh(n, d, peers[n]) /\ server' = server /\ online' = online /\ stops' = stops
          /\ peers' = peers /\ inboundCount' = inboundCount /\ handshakes' \subseteq Handshake
      BY <1>0, <1>6 DEF WaitExpireTaskDone, Shape
    <2> HIDE DEF d
    <2>3. QED
      BY <2>1, <2>2, TickLemma
  <1>7. ASSUME NEW m \in handshakes, HandshakeDone(m) PROVE Parts'
    BY <1>7, HandshakeParts
  <1>8. ASSUME NEW m \in handshakes, HandshakeTimeout(m) PROVE Parts'
    <2>1. /\ online' = online /\ server' = server /\ peers' = peers
          /\ inboundCount' = inboundCount /\ handshakes' \subseteq handshakes /\ dial' = dial
          /\ stops' = stops
      BY <1>8 DEF HandshakeTimeout
    <2>2. Shape'
      BY <1>0, <2>1 DEF Shape
    <2>3. \A n \in Nodes : LoopOK(n)'
      BY <1>0, <2>1 DEF LoopOK, DialOK
    <2>4. QED
      BY <1>0, <2>1, <2>2, <2>3 DEF Parts, BooksOK
  <1>9. ASSUME NEW n \in Nodes, NEW b \in Nodes, Ping(n, b) PROVE Parts'
    BY <1>9, PingParts
  <1>10. CASE UNCHANGED vars
    <2>1. Shape'
      BY <1>0, <1>10 DEF Shape, vars
    <2>2. \A n \in Nodes : LoopOK(n)' /\ BooksOK(n, peers'[n], inboundCount'[n])
      BY <1>0, <1>10 DEF LoopOK, DialOK, vars
    <2>3. QED
      BY <2>1, <2>2 DEF Parts, BooksOK
  <1>11. QED
    BY <1>1, <1>2, <1>3, <1>4, <1>5, <1>6, <1>7, <1>8, <1>9, <1>10 DEF Next

(***************************************************************************)
(* The inductive invariant holds in every state of every network.          *)
(***************************************************************************)
LEMMA ServerInvariant == Spec => []IInv
  <1>1. Parts /\ [Next]_vars => Parts'
    BY StepParts
  <1>2. Init => Parts
    BY InitParts
  <1>3. Parts <=> IInv
    BY PartsLemma
  <1>4. QED
    BY <1>1, <1>2, <1>3, PTL DEF Spec

(***************************************************************************)
(* server.go, for any number of nodes, any MaxPeers, DialRatio and set of  *)
(* NoDial nodes: a server never has more peers than MaxPeers nor more      *)
(* inbound ones than its limit, inboundCount is exact and at most          *)
(* maxActiveDialTasks tasks run, although the checks that admit a peer are *)
(* passed by several handshakes at a time and servers stop and start       *)
(* between them.                                                           *)
(***************************************************************************)
THEOREM PeersStayBounded == Spec => []PeersBounded
  <1>1. IInv => PeersBounded
    BY DEF IInv
  <1>2. QED
    BY <1>1, ServerInvariant, PTL

(***************************************************************************)
(* dial.go and refreshFunc: a running server that needs more dialled peers *)
(* has a task, running or queued, whose end makes it look for them again,  *)
(* whatever order the tasks, handshakes, pings and restarts come in.       *)
(***************************************************************************)
THEOREM DialLoopNeverSleeps == Spec => []DialLoopTicks
  <1>1. IInv => DialLoopTicks
    BY DEF IInv
  <1>2. QED
    BY <1>1, ServerInvariant, PTL

=============================================================================
