----------------------------- MODULE EthProofs -----------------------------
(***************************************************************************)
(* What the Ethereum protocol of EthPeers.tla keeps, for every number of   *)
(* nodes, connections, transactions and blocks: a mark of a peer is true   *)
(* or the message that makes it true is under way, a manager has one pack  *)
(* under way and sends the next one, handshakes leave one of two nodes in  *)
(* use for each other with a peer, and pools agree once everything has     *)
(* arrived.                                                                *)
(*                                                                         *)
(* The operators of the model lead from a world to a world.  Sound is the  *)
(* invariant of a world; it has a parameter for the message that was taken *)
(* from the network and is being handled, because the marks in a world may *)
(* depend on it until the handler has put its content into the pool or the *)
(* chain.  Each operator has a lemma of its own, and each action composes  *)
(* them.                                                                   *)
(***************************************************************************)
EXTENDS EthPeers, FiniteSetTheorems, SequenceTheorems, TLAPS

\* The ends of connections.
AllEnds == {e \in Nodes \X DOMAIN conns : e[1] \in conns[e[2]]}

\* A connection joins two nodes.
ConnsOK == conns \in Seq(SUBSET Nodes)
           /\ \A c \in DOMAIN conns : \E n, m \in Nodes : n # m /\ conns[c] = {n, m}

\* The types of the parts of a world.
Marks == [txs : SUBSET Txs, blocks : SUBSET Blocks]
Queues == {q \in [txs : Seq(SUBSET Txs), props : Seq(Blocks), anns : Seq(Blocks)] :
             /\ Len(q.txs) <= maxQueuedTxs
             /\ Len(q.props) <= maxQueuedProps
             /\ Len(q.anns) <= maxQueuedAnns}
Waiting == [c : DOMAIN conns, txs : SUBSET Txs]
Manager == [pending : SUBSET Waiting, sending : BOOLEAN, pack : Nat]
Message == [from : Nodes, c : DOMAIN conns, type : {"status", "txs", "block", "hash"},
            content : (SUBSET Txs) \cup Blocks, mgr : Nat, dead : BOOLEAN]
Fetches == {f \in [node : Nodes, c : DOMAIN conns, block : Blocks] : f.node \in conns[f.c]}

\* The worlds: the values of the variables that a handler reads and changes.
Worlds ==
  [open : SUBSET AllEnds, peers : [Nodes -> SUBSET DOMAIN conns],
   handshakePeers : [Nodes -> SUBSET DOMAIN conns],
   known : [AllEnds -> Marks], queue : [AllEnds -> Queues],
   pool : [Nodes -> SUBSET Txs], chain : [Nodes -> SUBSET Blocks],
   mgrs : [Nodes -> Seq(Manager)], forgotten : SUBSET DOMAIN conns,
   msgs : SUBSET Message]

\* What a node has registered, and what a manager is to send, are ends of its own.
EndsOwn(w) ==
  \A n \in Nodes :
    /\ \A c \in w.peers[n] \cup w.handshakePeers[n] : n \in conns[c]
    /\ w.mgrs[n] # << >>
    /\ \A g \in DOMAIN w.mgrs[n] : \A s \in w.mgrs[n][g].pending : n \in conns[s.c]

\* A set of peers has one for a node.
OneEach(w) ==
  \A n \in Nodes :
    /\ \A c, d \in w.peers[n] : conns[c] = conns[d] => c = d
    /\ \A c, d \in w.handshakePeers[n] : conns[c] = conns[d] => c = d

\* A node has one end in use for another, whose handshake is over.
OneOpen(w, pd) ==
  /\ w.open \cap pd = {}
  /\ \A e, f \in w.open : e[1] = f[1] /\ conns[e[2]] = conns[f[2]] => e[2] = f[2]

\* An end that was registered once: if it is open it still is.
Settled(w, pd, n, c) == <<n, c>> \notin pd /\ (<<n, c>> \in w.open => c \in w.peers[n])

\* Marks, queued items and lists to send are at such ends, and queued items at
\* closed ones.
UsedSettled(w, pd) ==
  /\ \A e \in AllEnds :
       /\ w.known[e] # NoMarks => Settled(w, pd, e[1], e[2])
       /\ w.queue[e] # EmptyQueue => e \notin pd /\ e \notin w.open
  /\ \A n \in Nodes :
       /\ \A c \in w.peers[n] \cup w.handshakePeers[n] : <<n, c>> \notin pd
       /\ \A g \in DOMAIN w.mgrs[n] : \A s \in w.mgrs[n][g].pending : Settled(w, pd, n, s.c)

\* The registered ends of a node that is offline are closed.
OfflineClosed(w) ==
  \A n \in Nodes : ~online[n] => \A c \in w.peers[n] : <<n, c>> \notin w.open

\* What is sent, or is to be, is in the sender's pool or chain.
ContentsOwn(w, ch) ==
  /\ \A x \in w.msgs :
       /\ x.from \in conns[x.c]
       /\ x.type = "txs" => x.content \subseteq w.pool[x.from]
       /\ x.type \in {"block", "hash"} => x.content \in ch[x.from]
       /\ x.mgr # 0 => x.type = "txs" /\ x.mgr \in DOMAIN w.mgrs[x.from]
  /\ \A n \in Nodes : \A g \in DOMAIN w.mgrs[n] : \A s \in w.mgrs[n][g].pending :
       s.txs \subseteq w.pool[n]

\* The marks of a registered end in use are true; X are messages that were taken
\* and are being handled, fs the fetches.
TxOnWay(w, X, n, c, t) ==
  \E x \in w.msgs \cup X : x.from = n /\ x.c = c /\ x.type = "txs" /\ t \in x.content
\* A message with the block, or its announcement, is under way from n.
BlockOnWay(w, X, n, c, b) ==
  \E x \in w.msgs \cup X :
    x.from = n /\ x.c = c /\ x.type \in {"block", "hash"} /\ x.content = b
\* m announced it got the block and is fetching it from its peer.
Fetched(fs, m, c, b) ==
  \E f \in fs : f.node = m /\ f.block = b /\ conns[f.c] = conns[c]
\* What is marked at an end, the other node has or will get.
TxMarksTrue(w, X) ==
  \A n \in Nodes : \A c \in w.peers[n] : <<n, c>> \in w.open =>
    \A t \in w.known[<<n, c>>].txs : t \in w.pool[Remote(n, c)] \/ TxOnWay(w, X, n, c, t)
BlockMarksTrue(w, X, fs) ==
  \A n \in Nodes : \A c \in w.peers[n] : <<n, c>> \in w.open =>
    \A b \in w.known[<<n, c>>].blocks :
      b \in w.chain[Remote(n, c)] \/ BlockOnWay(w, X, n, c, b)
        \/ Fetched(fs, Remote(n, c), c, b)

\* The status of an end is under way.
StatusOnWay(w, X, n, c) ==
  \E x \in w.msgs \cup X : x.from = n /\ x.c = c /\ x.type = "status"
\* The node has a peer for the other node of the connection.
HasPeer(w, n, c) == \E d \in w.peers[n] : conns[d] = conns[c]
\* Two ends are for each other's nodes, of one connection or of two.
Facing(e, f) ==
  conns[e[2]] = conns[f[2]] /\ f[1] = Remote(e[1], e[2]) /\ e[1] = Remote(f[1], f[2])
\* Of two such ends in use, the one that opened last sent a status that is under way
\* or left a peer at the other, or a peer is to come the other way.
Shaking(w, X) ==
  \A e, f \in w.open : Facing(e, f) =>
    \/ HasPeer(w, e[1], e[2]) \/ StatusOnWay(w, X, e[1], e[2])
    \/ HasPeer(w, f[1], f[2]) \/ StatusOnWay(w, X, f[1], f[2])

\* The invariant of a world: pd are the ends without a handshake yet, X the messages
\* being handled, ch the chains that contents are taken from, fs the fetches.
Sound(w, pd, X, ch, fs) ==
  /\ w \in Worlds /\ EndsOwn(w) /\ OneEach(w) /\ OneOpen(w, pd) /\ UsedSettled(w, pd)
  /\ OfflineClosed(w) /\ ContentsOwn(w, ch)
  /\ TxMarksTrue(w, X) /\ BlockMarksTrue(w, X, fs) /\ Shaking(w, X)

\* A manager's pack under way.
PackSent(w, X) ==
  /\ \A x \in w.msgs \cup X : x.mgr # 0 =>
       /\ w.mgrs[x.from][x.mgr].sending /\ x.c = w.mgrs[x.from][x.mgr].pack
       /\ \A y \in w.msgs \cup X : y.from = x.from /\ y.mgr = x.mgr => y = x
  /\ \A n \in Nodes : \A g \in DOMAIN w.mgrs[n] :
       /\ w.mgrs[n][g].pending # {} => w.mgrs[n][g].sending
       /\ w.mgrs[n][g].sending => \E x \in w.msgs \cup X : x.from = n /\ x.mgr = g

\* A registered end in use was sent, or is to be sent, everything in the pool.
ToSend(w, n, c, t) ==
  \E g \in DOMAIN w.mgrs[n] : \E s \in w.mgrs[n][g].pending : s.c = c /\ t \in s.txs
\* Everything in the pools pl is marked or waits in a manager, at every end that was
\* not forgotten.
PoolOffered(w, pl) ==
  \A n \in Nodes : \A c \in w.peers[n] \ w.forgotten : <<n, c>> \in w.open =>
    \A t \in pl[n] : t \in w.known[<<n, c>>].txs \/ ToSend(w, n, c, t)

\* The inductive invariant: the world is sound, the managers have one pack each, and
\* the pools are offered.
IInv ==
  /\ ConnsOK /\ pend \subseteq AllEnds /\ online \in [Nodes -> BOOLEAN]
  /\ fetches \subseteq Fetches
  /\ Sound(World, pend, {}, chain, fetches)
  /\ PackSent(World, {})
  /\ PoolOffered(World, pool)

--------------------------------------------------------------------------

\* The other node of a connection.
LEMMA RemoteLemma ==
    ASSUME ConnsOK, NEW c \in DOMAIN conns, NEW n \in conns[c]
    PROVE  /\ n \in Nodes /\ Remote(n, c) \in conns[c] /\ Remote(n, c) \in Nodes
           /\ Remote(n, c) # n /\ conns[c] = {n, Remote(n, c)}
           /\ Remote(Remote(n, c), c) = n
  <1>1. PICK k, m \in Nodes : k # m /\ conns[c] = {k, m}
    BY DEF ConnsOK
  <1>2. \E x \in conns[c] : x # n
    BY <1>1
  <1>3. Remote(n, c) \in conns[c] /\ Remote(n, c) # n
    BY <1>2 DEF Remote
  <1>4. \A x \in conns[c] : x # Remote(n, c) => x = n
    BY <1>1, <1>3
  <1>5. Remote(Remote(n, c), c) \in conns[c] /\ Remote(Remote(n, c), c) # Remote(n, c)
    BY <1>3 DEF Remote
  <1>6. QED
    BY <1>1, <1>3, <1>4, <1>5

\* Peers are looked up by the node, and a node is the other one of a connection.
LEMMA PeerOfLemma ==
    ASSUME ConnsOK, NEW n, NEW S \in SUBSET DOMAIN conns, \A d \in S : n \in conns[d],
           NEW c \in DOMAIN conns, n \in conns[c]
    PROVE  PeerOf(S, n, Remote(n, c)) = {d \in S : conns[d] = conns[c]}
  <1>1. \A d \in S : Remote(n, d) = Remote(n, c) <=> conns[d] = conns[c]
    <2> SUFFICES ASSUME NEW d \in S PROVE Remote(n, d) = Remote(n, c) <=> conns[d] = conns[c]
      OBVIOUS
    <2>1. /\ conns[c] = {n, Remote(n, c)} /\ Remote(n, c) # n
          /\ conns[d] = {n, Remote(n, d)} /\ Remote(n, d) # n
      BY RemoteLemma
    <2>2. QED
      BY <2>1
  <1>2. QED
    BY <1>1 DEF PeerOf

\* What closing ends does to the open ends and the registered peers.
Shrinks(w, v) ==
  /\ v.open \subseteq w.open
  /\ \A k \in Nodes :
       /\ v.peers[k] \subseteq w.peers[k]
       /\ \A d \in w.peers[k] \ v.peers[k] :
            /\ <<k, d>> \notin v.open
            /\ \E f \in w.open \ v.open : f[1] = k /\ conns[f[2]] = conns[d]

\* The waiting peers, pools, chains and managers stay.
SameLists(w, v) ==
  /\ v.handshakePeers = w.handshakePeers /\ v.pool = w.pool /\ v.chain = w.chain
  /\ v.mgrs = w.mgrs /\ v.forgotten = w.forgotten

\* The marks, queues and messages stay.
SameTraffic(w, v) == v.known = w.known /\ v.queue = w.queue /\ v.msgs = w.msgs

\* Closing an end shrinks the open ends and the registered peers and no more.
LEMMA CloseLemma ==
    ASSUME ConnsOK, NEW w \in Worlds, EndsOwn(w), NEW n, NEW c, <<n, c>> \in AllEnds
    PROVE  /\ Close(w, n, c) \in Worlds
           /\ Shrinks(w, Close(w, n, c)) /\ SameLists(w, Close(w, n, c))
           /\ SameTraffic(w, Close(w, n, c))
           /\ <<n, c>> \notin Close(w, n, c).open
  <1> DEFINE gone == PeerOf(w.peers[n], n, Remote(n, c))
             v == Close(w, n, c)
  <1>0. n \in Nodes /\ c \in DOMAIN conns /\ n \in conns[c]
    BY DEF AllEnds
  <1>1. CASE <<n, c>> \notin w.open
    <2>1. v = w
      BY <1>1 DEF Close
    <2>2. QED
      BY <1>1, <2>1 DEF Shrinks, SameLists, SameTraffic
  <1>2. CASE <<n, c>> \in w.open
    <2>1. v = [w EXCEPT !.open = @ \ ({<<n, c>>} \cup {<<n, d>> : d \in gone}),
                        !.peers[n] = @ \ gone]
      BY <1>2 DEF Close
    <2>2. gone = {d \in w.peers[n] : conns[d] = conns[c]}
      <3>1. w.peers[n] \in SUBSET DOMAIN conns /\ \A d \in w.peers[n] : n \in conns[d]
        BY <1>0 DEF Worlds, EndsOwn
      <3>2. QED
        BY <1>0, <3>1, PeerOfLemma
    <2> HIDE DEF gone, v
    <2>3. /\ v.open = w.open \ ({<<n, c>>} \cup {<<n, d>> : d \in gone})
          /\ v.peers = [w.peers EXCEPT ![n] = @ \ gone]
          /\ SameLists(w, v) /\ SameTraffic(w, v)
      BY <2>1 DEF Worlds, SameLists, SameTraffic
    <2>4. v \in Worlds
      BY <1>0, <2>1 DEF Worlds
    <2>5. Shrinks(w, v)
      <3>1. v.open \subseteq w.open
        BY <2>3
      <3>2. ASSUME NEW k \in Nodes PROVE v.peers[k] = IF k = n THEN w.peers[n] \ gone ELSE w.peers[k]
        BY <2>3 DEF Worlds
      <3>3. ASSUME NEW k \in Nodes, NEW d \in w.peers[k] \ v.peers[k]
            PROVE  /\ <<k, d>> \notin v.open
                   /\ \E f \in w.open \ v.open : f[1] = k /\ conns[f[2]] = conns[d]
        <4>1. k = n /\ d \in gone
          BY <3>2, <3>3
        <4>2. <<k, d>> \notin v.open /\ conns[d] = conns[c]
          BY <2>2, <2>3, <4>1
        <4>3. <<n, c>> \in w.open \ v.open
          BY <1>2, <2>3
        <4>4. QED
          BY <4>1, <4>2, <4>3
      <3>4. QED
        BY <3>1, <3>2, <3>3 DEF Shrinks
    <2>6. QED
      BY <2>3, <2>4, <2>5 DEF v
  <1>3. QED
    BY <1>1, <1>2

(***************************************************************************)
(* Closing ends keeps what holds of the world: what is marked or under way *)
(* stays, and a peer that is removed leaves no end of its own open.        *)
(***************************************************************************)
LEMMA ClosingLemma ==
    ASSUME ConnsOK, NEW pd, NEW X, NEW ch, NEW fs, NEW w, Sound(w, pd, X, ch, fs),
           NEW v \in Worlds, Shrinks(w, v), SameLists(w, v), SameTraffic(w, v)
    PROVE  Sound(v, pd, X, ch, fs)
  <1>0. w \in Worlds
    BY DEF Sound
  <1>1. EndsOwn(v)
    BY DEF Sound, EndsOwn, Shrinks, SameLists
  <1>2. OneEach(v)
    BY DEF Sound, OneEach, Shrinks, SameLists
  <1>3. OneOpen(v, pd)
    BY DEF Sound, OneOpen, Shrinks
  <1>4. ASSUME NEW n \in Nodes, NEW c, Settled(w, pd, n, c) PROVE Settled(v, pd, n, c)
    BY <1>4 DEF Settled, Shrinks
  <1>5. UsedSettled(v, pd)
    <2>1. ASSUME NEW e \in AllEnds
          PROVE  /\ v.known[e] # NoMarks => Settled(v, pd, e[1], e[2])
                 /\ v.queue[e] # EmptyQueue => e \notin pd /\ e \notin v.open
      <3>1. e[1] \in Nodes
        BY DEF AllEnds
      <3>2. v.known[e] = w.known[e] /\ v.queue[e] = w.queue[e] /\ v.open \subseteq w.open
        BY DEF SameTraffic, Shrinks
      <3>3. /\ w.known[e] # NoMarks => Settled(w, pd, e[1], e[2])
            /\ w.queue[e] # EmptyQueue => e \notin pd /\ e \notin w.open
        BY DEF Sound, UsedSettled
      <3>4. QED
        BY <1>4, <3>1, <3>2, <3>3
    <2>2. ASSUME NEW n \in Nodes
          PROVE  /\ \A c \in v.peers[n] \cup v.handshakePeers[n] : <<n, c>> \notin pd
                 /\ \A g \in DOMAIN v.mgrs[n] : \A s \in v.mgrs[n][g].pending : Settled(v, pd, n, s.c)
      <3>1. v.peers[n] \subseteq w.peers[n] /\ v.handshakePeers = w.handshakePeers /\ v.mgrs = w.mgrs
        BY DEF Shrinks, SameLists
      <3>2. /\ \A c \in w.peers[n] \cup w.handshakePeers[n] : <<n, c>> \notin pd
            /\ \A g \in DOMAIN w.mgrs[n] : \A s \in w.mgrs[n][g].pending : Settled(w, pd, n, s.c)
        BY DEF Sound, UsedSettled
      <3>3. QED
        BY <1>4, <3>1, <3>2
    <2>3. QED
      BY <2>1, <2>2 DEF UsedSettled
  <1>6. OfflineClosed(v)
    BY DEF Sound, OfflineClosed, Shrinks
  <1>7. ContentsOwn(v, ch)
    BY DEF Sound, ContentsOwn, SameLists, SameTraffic
  <1>8. TxMarksTrue(v, X)
    BY DEF Sound, TxMarksTrue, TxOnWay, Shrinks, SameLists, SameTraffic
  <1>9. BlockMarksTrue(v, X, fs)
    BY DEF Sound, BlockMarksTrue, BlockOnWay, Shrinks, SameLists, SameTraffic
  <1>10. Shaking(v, X)
    <2>1. ASSUME NEW e \in v.open, HasPeer(w, e[1], e[2]) PROVE HasPeer(v, e[1], e[2])
      <3>1. e \in w.open /\ e[1] \in Nodes
        BY <1>0 DEF Shrinks, Worlds, AllEnds
      <3>2. PICK d \in w.peers[e[1]] : conns[d] = conns[e[2]]
        BY <2>1 DEF HasPeer
      <3>3. CASE d \in v.peers[e[1]]
        BY <3>2, <3>3 DEF HasPeer
      <3>4. CASE d \notin v.peers[e[1]]
        <4>1. \A k \in Nodes : \A x \in w.peers[k] \ v.peers[k] :
                \E f \in w.open \ v.open : f[1] = k /\ conns[f[2]] = conns[x]
          BY DEF Shrinks
        <4>2. PICK f \in w.open \ v.open : f[1] = e[1] /\ conns[f[2]] = conns[d]
          BY <3>1, <3>4, <4>1
        <4>3. f[2] = e[2]
          BY <3>1, <3>2, <4>2 DEF Sound, OneOpen
        <4>4. f = e
          <5>1. e \in Nodes \X DOMAIN conns /\ f \in Nodes \X DOMAIN conns
            BY <1>0, <3>1 DEF Worlds, AllEnds
          <5>2. QED
            BY <4>2, <4>3, <5>1
        <4>5. QED
          BY <4>2, <4>4
      <3>5. QED
        BY <3>3, <3>4
    <2>2. \A e \in v.open : HasPeer(w, e[1], e[2]) => HasPeer(v, e[1], e[2])
      BY <2>1
    <2>3. /\ v.open \subseteq w.open
          /\ \A e : StatusOnWay(w, X, e[1], e[2]) => StatusOnWay(v, X, e[1], e[2])
      BY DEF Shrinks, StatusOnWay, SameTraffic
    <2>4. QED
      BY <2>2, <2>3 DEF Sound, Shaking
  <1>11. QED
    BY <1>1, <1>2, <1>3, <1>5, <1>6, <1>7, <1>8, <1>9, <1>10 DEF Sound

\* What sending does besides: marks and messages are added, none of them a pack.
Grows(w, v) ==
  /\ Shrinks(w, v) /\ SameLists(w, v)
  /\ \A e \in AllEnds : /\ w.known[e].txs \subseteq v.known[e].txs
                        /\ w.known[e].blocks \subseteq v.known[e].blocks
  /\ w.msgs \subseteq v.msgs
  /\ \A x \in v.msgs \ w.msgs : x.mgr = 0

\* Steps that shrink the ends compose.
LEMMA ShrinksTrans ==
    ASSUME NEW u, NEW v, NEW w, Shrinks(u, v), Shrinks(v, w)
    PROVE  Shrinks(u, w)
  <1>1. w.open \subseteq u.open
    BY DEF Shrinks
  <1>2. ASSUME NEW k \in Nodes PROVE w.peers[k] \subseteq u.peers[k]
    BY DEF Shrinks
  <1>3. ASSUME NEW k \in Nodes, NEW d \in u.peers[k] \ w.peers[k]
        PROVE  /\ <<k, d>> \notin w.open
               /\ \E f \in u.open \ w.open : f[1] = k /\ conns[f[2]] = conns[d]
    <2>1. CASE d \in v.peers[k]
      <3>1. <<k, d>> \notin w.open /\ \E f \in v.open \ w.open : f[1] = k /\ conns[f[2]] = conns[d]
        BY <1>3, <2>1 DEF Shrinks
      <3>2. v.open \subseteq u.open
        BY DEF Shrinks
      <3>3. QED
        BY <3>1, <3>2
    <2>2. CASE d \notin v.peers[k]
      <3>1. <<k, d>> \notin v.open /\ \E f \in u.open \ v.open : f[1] = k /\ conns[f[2]] = conns[d]
        BY <1>3, <2>2 DEF Shrinks
      <3>2. w.open \subseteq v.open
        BY DEF Shrinks
      <3>3. QED
        BY <3>1, <3>2
    <2>3. QED
      BY <2>1, <2>2
  <1>4. QED
    BY <1>1, <1>2, <1>3 DEF Shrinks

\* Steps that send compose.
LEMMA GrowsTrans ==
    ASSUME NEW u, NEW v, NEW w, Grows(u, v), Grows(v, w)
    PROVE  Grows(u, w)
  <1>1. Shrinks(u, w)
    BY ShrinksTrans DEF Grows
  <1>2. SameLists(u, w)
    BY DEF Grows, SameLists
  <1>3. QED
    BY <1>1, <1>2 DEF Grows

\* To do nothing is such a step.
LEMMA GrowsRefl ==
    ASSUME NEW w
    PROVE  Grows(w, w)
  BY DEF Grows, Shrinks, SameLists

\* To close ends is a step that sends nothing.
LEMMA CloseGrows ==
    ASSUME NEW w, NEW v, Shrinks(w, v), SameLists(w, v), SameTraffic(w, v)
    PROVE  Grows(w, v)
  BY DEF Grows, SameTraffic

\* A peer that was registered at first is settled however the world grew.
LEMMA SettledGrows ==
    ASSUME NEW w, NEW v, NEW pd, NEW n \in Nodes, NEW c, Grows(w, v), Settled(w, pd, n, c)
    PROVE  Settled(v, pd, n, c)
  BY DEF Grows, Shrinks, Settled

(***************************************************************************)
(* Items are queued, and marked, at an end that is closed.                 *)
(***************************************************************************)
LEMMA QueuedLemma ==
    ASSUME ConnsOK, NEW pd, NEW X, NEW ch, NEW fs, NEW w, Sound(w, pd, X, ch, fs),
           NEW n, NEW c, <<n, c>> \in AllEnds, <<n, c>> \notin pd, <<n, c>> \notin w.open,
           NEW v \in Worlds, SameLists(w, v), v.open = w.open, v.peers = w.peers,
           v.msgs = w.msgs,
           \A f \in AllEnds : f # <<n, c>> => v.known[f] = w.known[f] /\ v.queue[f] = w.queue[f]
    PROVE  Sound(v, pd, X, ch, fs)
  <1>0. /\ \A k \in Nodes, d \in DOMAIN conns :
             k \in conns[d] => <<k, d>> \in AllEnds
        /\ \A k \in Nodes : \A d \in w.peers[k] : d \in DOMAIN conns /\ k \in conns[d]
    BY DEF AllEnds, Sound, Worlds, EndsOwn
  <1>1. EndsOwn(v) /\ OneEach(v) /\ OneOpen(v, pd) /\ OfflineClosed(v) /\ ContentsOwn(v, ch)
    BY DEF Sound, EndsOwn, OneEach, OneOpen, OfflineClosed, ContentsOwn, SameLists
  <1>2. UsedSettled(v, pd)
    BY DEF Sound, UsedSettled, SameLists, Settled
  <1>3. \A k \in Nodes : \A d \in v.peers[k] : <<k, d>> \in v.open =>
          <<k, d>> # <<n, c>> /\ <<k, d>> \in AllEnds /\ v.known[<<k, d>>] = w.known[<<k, d>>]
    BY <1>0
  <1>4. TxMarksTrue(v, X)
    BY <1>3 DEF Sound, TxMarksTrue, TxOnWay, SameLists
  <1>5. BlockMarksTrue(v, X, fs)
    BY <1>3 DEF Sound, BlockMarksTrue, BlockOnWay, SameLists
  <1>6. Shaking(v, X)
    BY DEF Sound, Shaking, HasPeer, StatusOnWay
  <1>7. QED
    BY <1>1, <1>2, <1>4, <1>5, <1>6 DEF Sound

\* A message with what its sender has, and the marks of its content.
MaySend(w, ch, n, c, x) ==
  /\ x.from = n /\ x.c = c /\ x.type \in {"txs", "block", "hash"}
  /\ x.type = "txs" => x.content \subseteq w.pool[n]
  /\ x.type # "txs" => x.content \in ch[n]
  /\ x.mgr # 0 => x.type = "txs" /\ x.mgr \in DOMAIN w.mgrs[n]
\* Only the content of the message x is newly marked, at its own end.
SentMarked(w, v, n, c, x) ==
  /\ \A f \in AllEnds : f # <<n, c>> => v.known[f] = w.known[f]
  /\ \A t \in v.known[<<n, c>>].txs \ w.known[<<n, c>>].txs :
       x.type = "txs" /\ t \in x.content
  /\ \A b \in v.known[<<n, c>>].blocks \ w.known[<<n, c>>].blocks :
       x.type # "txs" /\ b = x.content

(***************************************************************************)
(* A message leaves an end, and what it carries is marked there.           *)
(***************************************************************************)
LEMMA SentLemma ==
    ASSUME ConnsOK, NEW pd, NEW X, NEW ch, NEW fs, NEW w, Sound(w, pd, X, ch, fs),
           NEW n, NEW c, <<n, c>> \in AllEnds, Settled(w, pd, n, c),
           NEW x, MaySend(w, ch, n, c, x),
           NEW v \in Worlds, SameLists(w, v), v.open = w.open, v.peers = w.peers,
           v.queue = w.queue, v.msgs = w.msgs \cup {x}, SentMarked(w, v, n, c, x)
    PROVE  Sound(v, pd, X, ch, fs)
  <1> USE DEF MaySend, SentMarked
  <1>0. /\ \A k \in Nodes, d \in DOMAIN conns :
             k \in conns[d] => <<k, d>> \in AllEnds
        /\ \A k \in Nodes : \A d \in w.peers[k] : d \in DOMAIN conns /\ k \in conns[d]
        /\ n \in Nodes /\ c \in DOMAIN conns /\ n \in conns[c]
    BY DEF AllEnds, Sound, Worlds, EndsOwn
  <1>1. EndsOwn(v) /\ OneEach(v) /\ OneOpen(v, pd) /\ OfflineClosed(v)
    BY DEF Sound, EndsOwn, OneEach, OneOpen, OfflineClosed, SameLists
  <1>2. ContentsOwn(v, ch)
    <2>1. \A y \in v.msgs : y \in w.msgs \/ y = x
      OBVIOUS
    <2>2. QED
      BY <1>0, <2>1 DEF Sound, ContentsOwn, SameLists
  <1>3. UsedSettled(v, pd)
    <2>1. ASSUME NEW e \in AllEnds, v.known[e] # NoMarks PROVE Settled(v, pd, e[1], e[2])
      <3>1. CASE e = <<n, c>>
        BY <3>1 DEF Settled
      <3>2. CASE e # <<n, c>>
        BY <2>1, <3>2 DEF Sound, UsedSettled, Settled
      <3>3. QED
        BY <3>1, <3>2
    <2>2. QED
      BY <2>1 DEF Sound, UsedSettled, SameLists, Settled
  <1>4. TxMarksTrue(v, X)
    <2> SUFFICES ASSUME NEW k \in Nodes, NEW d \in v.peers[k], <<k, d>> \in v.open,
                        NEW t \in v.known[<<k, d>>].txs
                 PROVE  t \in v.pool[Remote(k, d)] \/ TxOnWay(v, X, k, d, t)
      BY DEF TxMarksTrue
    <2>1. CASE t \in w.known[<<k, d>>].txs
      <3>1. t \in w.pool[Remote(k, d)] \/ TxOnWay(w, X, k, d, t)
        BY <2>1 DEF Sound, TxMarksTrue
      <3>2. QED
        BY <3>1 DEF TxOnWay, SameLists
    <2>2. CASE t \notin w.known[<<k, d>>].txs
      <3>1. <<k, d>> = <<n, c>>
        BY <1>0, <2>2
      <3>2. x.type = "txs" /\ t \in x.content /\ k = n /\ d = c
        BY <2>2, <3>1
      <3>3. QED
        BY <3>2 DEF TxOnWay
    <2>3. QED
      BY <2>1, <2>2
  <1>5. BlockMarksTrue(v, X, fs)
    <2> SUFFICES ASSUME NEW k \in Nodes, NEW d \in v.peers[k], <<k, d>> \in v.open,
                        NEW b \in v.known[<<k, d>>].blocks
                 PROVE  \/ b \in v.chain[Remote(k, d)] \/ BlockOnWay(v, X, k, d, b)
                        \/ Fetched(fs, Remote(k, d), d, b)
      BY DEF BlockMarksTrue
    <2>1. CASE b \in w.known[<<k, d>>].blocks
      <3>1. \/ b \in w.chain[Remote(k, d)] \/ BlockOnWay(w, X, k, d, b)
            \/ Fetched(fs, Remote(k, d), d, b)
        BY <2>1 DEF Sound, BlockMarksTrue
      <3>2. QED
        BY <3>1 DEF BlockOnWay, SameLists
    <2>2. CASE b \notin w.known[<<k, d>>].blocks
      <3>1. <<k, d>> = <<n, c>>
        BY <1>0, <2>2
      <3>2. x.type # "txs" /\ b = x.content /\ k = n /\ d = c
        BY <2>2, <3>1
      <3>3. QED
        BY <3>2 DEF BlockOnWay
    <2>3. QED
      BY <2>1, <2>2
  <1>6. Shaking(v, X)
    BY DEF Sound, Shaking, HasPeer, StatusOnWay
  <1>7. QED
    BY <1>1, <1>2, <1>3, <1>4, <1>5, <1>6 DEF Sound

\* The loop over a queue: every item is sent.
Out == INSTANCE FoldTheorems WITH
  Op <- LAMBDA p, q, r, d, e : Send(d, p, q, r, e)

\* broadcast of one of the queues.
Each(v, n, c, type, list) == FoldLeft(LAMBDA x, i : Send(x, n, c, type, i), v, list)

\* A queue with one item, and one with none.
LEMMA EachLemma ==
    ASSUME NEW v, NEW n, NEW c, NEW type, NEW i
    PROVE  /\ Each(v, n, c, type, <<i>>) = Send(v, n, c, type, i)
           /\ Each(v, n, c, type, << >>) = v
  <1>1. \A s : Each(v, n, c, type, s) = Out!LeftFold(n, c, type, v, s)
    BY DEF Each, FoldLeft, MapThenFoldSet, Max, Out!LeftFold, Out!Max
  <1>2. Out!LeftFold(n, c, type, v, <<i>>) = Send(v, n, c, type, i)
    <2> DEFINE D == [k \in 0 .. 1 |-> IF k = 0 THEN {v} ELSE {Send(v, n, c, type, i)}]
               s == <<i>>
               E == {i}
    <2>1. s \in Seq(E) /\ Len(s) = 1 /\ s[1] = i /\ 1 .. 1 = {1}
      OBVIOUS
    <2>2. D[0] = {v} /\ D[1] = {Send(v, n, c, type, i)}
      OBVIOUS
    <2> HIDE DEF D, s, E
    <2>3. \A k \in 1 .. Len(s) : \A d \in D[k - 1] : Send(d, n, c, type, s[k]) \in D[k]
      BY <2>1, <2>2
    <2>4. Out!LeftFold(n, c, type, v, s) \in D[Len(s)]
      BY <2>1, <2>2, <2>3, Out!LeftFoldSteps
    <2>5. QED
      BY <2>1, <2>2, <2>4 DEF s
  <1>3. Out!LeftFold(n, c, type, v, << >>) = v
    <2> DEFINE D == [k \in 0 .. 0 |-> {v}]
               s == << >>
               E == {i}
    <2>1. s \in Seq(E) /\ Len(s) = 0 /\ 1 .. 0 = {} /\ D[0] = {v}
      OBVIOUS
    <2> HIDE DEF D, s, E
    <2>2. \A k \in 1 .. Len(s) : \A d \in D[k - 1] : Send(d, n, c, type, s[k]) \in D[k]
      BY <2>1
    <2>3. Out!LeftFold(n, c, type, v, s) \in D[Len(s)]
      BY <2>1, <2>2, Out!LeftFoldSteps
    <2>4. QED
      BY <2>1, <2>3 DEF s
  <1>4. QED
    BY <1>1, <1>2, <1>3

\* Queues with a single item, and an end with its queue emptied.
OneList(i) == [txs |-> <<i>>, props |-> << >>, anns |-> << >>]
OneProp(i) == [txs |-> << >>, props |-> <<i>>, anns |-> << >>]
OneAnn(i)  == [txs |-> << >>, props |-> << >>, anns |-> <<i>>]
Emptied(w, n, c) == [w EXCEPT !.queue[<<n, c>>] = EmptyQueue]

\* broadcast of the one item that was queued.
LEMMA BroadcastLemma ==
    ASSUME NEW w, NEW n, NEW c, <<n, c>> \in w.open, NEW i
    PROVE  /\ w.queue[<<n, c>>] = OneList(i)
                => broadcast(w, n, c) = Send(Emptied(w, n, c), n, c, "txs", i)
           /\ w.queue[<<n, c>>] = OneProp(i)
                => broadcast(w, n, c) = Send(Emptied(w, n, c), n, c, "block", i)
           /\ w.queue[<<n, c>>] = OneAnn(i)
                => broadcast(w, n, c) = Send(Emptied(w, n, c), n, c, "hash", i)
  <1> DEFINE each(v, type, list) == Each(v, n, c, type, list)
             q == w.queue[<<n, c>>]
  <1>1. broadcast(w, n, c) = each(each(each(Emptied(w, n, c), "txs", q.txs), "block", q.props), "hash", q.anns)
    BY DEF broadcast, Each, Emptied
  <1>2. \A v, type : each(v, type, <<i>>) = Send(v, n, c, type, i) /\ each(v, type, << >>) = v
    BY EachLemma
  <1> HIDE DEF each
  <1>3. QED
    BY <1>1, <1>2 DEF OneList, OneProp, OneAnn

\* An item to send, with the marks that the end has then, and the item queued.
ItemMarks(w, ch, n, c, k, type, i) ==
  /\ k \in Marks /\ type \in {"txs", "block", "hash"} /\ i \in (SUBSET Txs) \cup Blocks
  /\ type = "txs" => i \subseteq w.pool[n]
  /\ type # "txs" => i \in ch[n]
  /\ w.known[<<n, c>>].txs \subseteq k.txs /\ w.known[<<n, c>>].blocks \subseteq k.blocks
  /\ \A t \in k.txs \ w.known[<<n, c>>].txs : type = "txs" /\ t \in i
  /\ \A b \in k.blocks \ w.known[<<n, c>>].blocks : type # "txs" /\ b = i
\* The item waits in the queue of the closed end and is marked there.
ItemQueued(w, v, n, c, k) ==
  /\ v \in Worlds /\ SameLists(w, v) /\ v.open = w.open /\ v.peers = w.peers
  /\ v.msgs = w.msgs /\ v.known[<<n, c>>] = k
  /\ \A f \in AllEnds :
       f # <<n, c>> => v.known[f] = w.known[f] /\ v.queue[f] = w.queue[f]

\* What an asynchronous send leads to: at a closed end the item is queued, at an
\* open one it is sent, and it is marked at both.
LEMMA AsyncLemma ==
    ASSUME ConnsOK, NEW pd, NEW X, NEW ch, NEW fs, NEW w, Sound(w, pd, X, ch, fs),
           NEW n, NEW c, <<n, c>> \in AllEnds, Settled(w, pd, n, c),
           NEW k, NEW type, NEW i, ItemMarks(w, ch, n, c, k, type, i),
           NEW w1, ItemQueued(w, w1, n, c, k),
           <<n, c>> \in w.open => broadcast(w1, n, c) = Send(Emptied(w1, n, c), n, c, type, i)
    PROVE  /\ Sound(broadcast(w1, n, c), pd, X, ch, fs)
           /\ Grows(w, broadcast(w1, n, c))
           /\ broadcast(w1, n, c).known[<<n, c>>] = k
  <1> USE DEF ItemMarks, ItemQueued
  <1> DEFINE e == <<n, c>>
             v == broadcast(w1, n, c)
  <1>0. /\ w \in Worlds /\ n \in Nodes /\ c \in DOMAIN conns /\ n \in conns[c] /\ e \in AllEnds
        /\ e \notin pd
    BY DEF Sound, AllEnds, Settled
  <1>2. w1.known[e] = k /\ \A f \in AllEnds : f # e => w1.known[f] = w.known[f] /\ w1.queue[f] = w.queue[f]
    OBVIOUS
  <1> HIDE DEF e
  <1>3. CASE e \notin w.open
    <2>1. v = w1
      BY <1>3 DEF broadcast, e
    <2>2. Sound(w1, pd, X, ch, fs)
      BY <1>0, <1>2, <1>3, QueuedLemma DEF e
    <2>3. Grows(w, w1)
      <3>1. \A f \in AllEnds : w.known[f].txs \subseteq w1.known[f].txs
                               /\ w.known[f].blocks \subseteq w1.known[f].blocks
        BY <1>2 DEF e
      <3>2. QED
        BY <3>1 DEF Grows, Shrinks
    <2>4. QED
      BY <1>2, <2>1, <2>2, <2>3 DEF e
  <1>4. CASE e \in w.open
    <2>1. online[n]
      <3>1. c \in w.peers[n]
        BY <1>4 DEF Settled, e
      <3>2. QED
        BY <1>0, <1>4, <3>1 DEF Sound, OfflineClosed, e
    <2> DEFINE m == Msg(n, c, type, i, 0)
               u == Emptied(w1, n, c)
    <2>2. /\ u \in Worlds /\ u.open = w.open /\ u.peers = w.peers /\ u.msgs = w.msgs
          /\ SameLists(w, u) /\ u.known = w1.known
          /\ u.queue = [f \in AllEnds |-> IF f = e THEN EmptyQueue ELSE w1.queue[f]]
      <3>1. EmptyQueue \in Queues
        BY EthPeersAssumption DEF EmptyQueue, Queues
      <3>2. u = [w1 EXCEPT !.queue[e] = EmptyQueue]
        BY DEF Emptied, e
      <3> HIDE DEF u
      <3>3. QED
        BY <1>0, <3>1, <3>2 DEF Worlds, SameLists
    <2>3. u.queue = w.queue
      <3>1. w.queue[e] = EmptyQueue
        BY <1>0, <1>4 DEF Sound, UsedSettled
      <3>2. w.queue = [f \in AllEnds |-> w.queue[f]]
        BY <1>0 DEF Worlds
      <3> HIDE DEF u
      <3>3. QED
        BY <1>2, <2>2, <3>1, <3>2
    <2>4. /\ m \in Message /\ m.from = n /\ m.c = c /\ m.type = type /\ m.content = i /\ m.mgr = 0
      BY <1>0 DEF Msg, Message
    <2>5. v = [u EXCEPT !.msgs = @ \cup {m}]
      BY <1>4, <2>1 DEF Send, e
    <2> HIDE DEF m, u, v
    <2>6. /\ v \in Worlds /\ v.open = w.open /\ v.peers = w.peers /\ v.msgs = w.msgs \cup {m}
          /\ SameLists(w, v) /\ v.known = w1.known /\ v.queue = w.queue
      BY <2>2, <2>3, <2>4, <2>5 DEF Worlds, SameLists
    <2>7. /\ v.known[e] = k /\ \A f \in AllEnds : f # e => v.known[f] = w.known[f]
      BY <1>2, <2>6
    <2>8. Sound(v, pd, X, ch, fs)
      <3>1. /\ \A f \in AllEnds : f # <<n, c>> => v.known[f] = w.known[f]
            /\ v.known[<<n, c>>] = k
        BY <2>7 DEF e
      <3>2. MaySend(w, ch, n, c, m)
        BY <2>4 DEF MaySend
      <3>3. SentMarked(w, v, n, c, m)
        BY <2>4, <3>1 DEF SentMarked
      <3>4. QED
        BY <2>6, <3>2, <3>3, SentLemma
    <2>9. Grows(w, v)
      <3>1. \A f \in AllEnds : w.known[f].txs \subseteq v.known[f].txs
                               /\ w.known[f].blocks \subseteq v.known[f].blocks
        BY <2>7 DEF e
      <3>2. QED
        BY <2>4, <2>6, <3>1 DEF Grows, Shrinks
    <2>10. QED
      BY <2>7, <2>8, <2>9 DEF v, e
  <1>5. QED
    BY <1>3, <1>4

\* The end with a new queue and new marks.
WithItem(w, n, c, q, k) == [w EXCEPT !.queue[<<n, c>>] = q, !.known[<<n, c>>] = k]

\* An item is queued with a mark, and nothing else happens.
LEMMA QueueItemLemma ==
    ASSUME NEW w \in Worlds, NEW n, NEW c, <<n, c>> \in AllEnds, NEW q \in Queues, NEW k \in Marks
    PROVE  /\ ItemQueued(w, WithItem(w, n, c, q, k), n, c, k)
           /\ WithItem(w, n, c, q, k).queue[<<n, c>>] = q
  <1> DEFINE e == <<n, c>>
             v == WithItem(w, n, c, q, k)
  <1> DEFINE u == [w EXCEPT !.queue[e] = q]
  <1>2. e \in AllEnds
    OBVIOUS
  <1>0. v = [u EXCEPT !.known[e] = k]
    BY DEF WithItem
  <1> HIDE DEF e, v
  <1>1. /\ u \in Worlds /\ u.open = w.open /\ u.peers = w.peers /\ u.msgs = w.msgs
        /\ SameLists(w, u) /\ u.known = w.known /\ u.queue = [w.queue EXCEPT ![e] = q]
    BY <1>2 DEF Worlds, SameLists
  <1> HIDE DEF u
  <1>3. /\ v \in Worlds /\ v.open = u.open /\ v.peers = u.peers /\ v.msgs = u.msgs
        /\ SameLists(u, v) /\ v.known = [u.known EXCEPT ![e] = k] /\ v.queue = u.queue
    BY <1>0, <1>1, <1>2 DEF Worlds, SameLists
  <1>4. SameLists(w, v) /\ v.open = w.open /\ v.peers = w.peers /\ v.msgs = w.msgs
    BY <1>1, <1>3 DEF SameLists
  <1>5. /\ v.known[e] = k /\ v.queue[e] = q
        /\ \A f \in AllEnds : f # e => v.known[f] = w.known[f] /\ v.queue[f] = w.queue[f]
    BY <1>1, <1>2, <1>3 DEF Worlds
  <1>6. ItemQueued(w, v, n, c, k) /\ v.queue[e] = q
    BY <1>3, <1>4, <1>5 DEF ItemQueued, e
  <1>7. QED
    BY <1>6 DEF v, e

\* AsyncSendTransactions, at an open and at a closed end.
LEMMA AsyncTxsLemma ==
    ASSUME ConnsOK, NEW pd, NEW X, NEW ch, NEW fs, NEW w, Sound(w, pd, X, ch, fs),
           NEW n, NEW c, <<n, c>> \in AllEnds, Settled(w, pd, n, c),
           NEW txs \in SUBSET Txs, txs \subseteq w.pool[n],
           NEW v, v = AsyncSendTransactions(w, n, c, txs)
    PROVE  /\ Sound(v, pd, X, ch, fs) /\ Grows(w, v)
           /\ <<n, c>> \in v.open => txs \subseteq v.known[<<n, c>>].txs
  <1> DEFINE e == <<n, c>>
             q == [w.queue[e] EXCEPT !.txs = Append(@, txs)]
             k == [w.known[e] EXCEPT !.txs = @ \cup txs]
  <1>0. w \in Worlds /\ e \in AllEnds /\ w.known[e] \in Marks /\ w.queue[e] \in Queues
    BY DEF Sound, Worlds
  <1>1. CASE Len(w.queue[e].txs) >= maxQueuedTxs
    <2>1. w.queue[e] # EmptyQueue
      BY <1>1, EthPeersAssumption DEF EmptyQueue
    <2>2. e \notin w.open
      BY <1>0, <2>1 DEF Sound, UsedSettled
    <2>3. v = w
      BY <1>1 DEF AsyncSendTransactions
    <2>4. QED
      BY <2>2, <2>3, GrowsRefl
  <1>2. CASE ~(Len(w.queue[e].txs) >= maxQueuedTxs)
    <2>1. v = broadcast([w EXCEPT !.queue[<<n, c>>].txs = Append(@, txs),
                                  !.known[<<n, c>>].txs = @ \cup txs], n, c)
      BY <1>2 DEF AsyncSendTransactions
    <2> DEFINE w1 == WithItem(w, n, c, q, k)
    <2>2. v = broadcast(w1, n, c)
      BY <1>0, <2>1 DEF WithItem
    <2> HIDE DEF q, k, e, w1
    <2>3. q \in Queues /\ k \in Marks
      <3>0. w.queue[e].txs \in Seq(SUBSET Txs) /\ maxQueuedTxs \in Nat
        BY <1>0, EthPeersAssumption DEF Queues
      <3>1. Append(w.queue[e].txs, txs) \in Seq(SUBSET Txs)
            /\ Len(Append(w.queue[e].txs, txs)) <= maxQueuedTxs
        BY <1>2, <3>0 DEF e
      <3>2. q \in Queues
        BY <1>0, <3>1 DEF Queues, q
      <3>3. k \in Marks
        BY <1>0 DEF Marks, k
      <3>4. QED
        BY <3>2, <3>3
    <2>4. ItemQueued(w, w1, n, c, k) /\ w1.queue[e] = q
      BY <1>0, <2>3, QueueItemLemma DEF e, w1
    <2>5. ItemMarks(w, ch, n, c, k, "txs", txs)
      BY <1>0, <2>3 DEF ItemMarks, Marks, k, e
    <2>6. e \in w.open => broadcast(w1, n, c) = Send(Emptied(w1, n, c), n, c, "txs", txs)
      <3>1. SUFFICES ASSUME e \in w.open
                     PROVE  broadcast(w1, n, c) = Send(Emptied(w1, n, c), n, c, "txs", txs)
        OBVIOUS
      <3>2. w.queue[e] = EmptyQueue
        BY <1>0, <3>1 DEF Sound, UsedSettled
      <3>3. q = OneList(txs)
        BY <3>2 DEF q, EmptyQueue, OneList
      <3>4. e \in w1.open
        BY <2>4, <3>1 DEF ItemQueued
      <3>5. QED
        BY <2>4, <3>3, <3>4, BroadcastLemma DEF e
    <2>7. Sound(v, pd, X, ch, fs) /\ Grows(w, v) /\ v.known[e] = k
      BY <2>2, <2>4, <2>5, <2>6, AsyncLemma DEF e
    <2>8. QED
      BY <2>7 DEF k, e
  <1>3. QED
    BY <1>1, <1>2

\* AsyncSendNewBlock, at an open and at a closed end.
LEMMA AsyncBlockLemma ==
    ASSUME ConnsOK, NEW pd, NEW X, NEW ch, NEW fs, NEW w, Sound(w, pd, X, ch, fs),
           NEW n, NEW c, <<n, c>> \in AllEnds, Settled(w, pd, n, c),
           NEW b \in Blocks, b \in ch[n],
           NEW v, v = AsyncSendNewBlock(w, n, c, b)
    PROVE  /\ Sound(v, pd, X, ch, fs) /\ Grows(w, v)
           /\ <<n, c>> \in v.open => b \in v.known[<<n, c>>].blocks
  <1> DEFINE e == <<n, c>>
             q == [w.queue[e] EXCEPT !.props = Append(@, b)]
             k == [w.known[e] EXCEPT !.blocks = @ \cup {b}]
  <1>0. w \in Worlds /\ e \in AllEnds /\ w.known[e] \in Marks /\ w.queue[e] \in Queues
    BY DEF Sound, Worlds
  <1>1. CASE Len(w.queue[e].props) >= maxQueuedProps
    <2>1. w.queue[e] # EmptyQueue
      BY <1>1, EthPeersAssumption DEF EmptyQueue
    <2>2. e \notin w.open
      BY <1>0, <2>1 DEF Sound, UsedSettled
    <2>3. v = w
      BY <1>1 DEF AsyncSendNewBlock
    <2>4. QED
      BY <2>2, <2>3, GrowsRefl
  <1>2. CASE ~(Len(w.queue[e].props) >= maxQueuedProps)
    <2>1. v = broadcast([w EXCEPT !.queue[<<n, c>>].props = Append(@, b),
                                  !.known[<<n, c>>].blocks = @ \cup {b}], n, c)
      BY <1>2 DEF AsyncSendNewBlock
    <2> DEFINE w1 == WithItem(w, n, c, q, k)
    <2>2. v = broadcast(w1, n, c)
      BY <1>0, <2>1 DEF WithItem
    <2> HIDE DEF q, k, e, w1
    <2>3. q \in Queues /\ k \in Marks
      <3>0. w.queue[e].props \in Seq(Blocks) /\ maxQueuedProps \in Nat
        BY <1>0, EthPeersAssumption DEF Queues
      <3>1. Append(w.queue[e].props, b) \in Seq(Blocks)
            /\ Len(Append(w.queue[e].props, b)) <= maxQueuedProps
        BY <1>2, <3>0 DEF e
      <3>2. q \in Queues
        BY <1>0, <3>1 DEF Queues, q
      <3>3. k \in Marks
        BY <1>0 DEF Marks, k
      <3>4. QED
        BY <3>2, <3>3
    <2>4. ItemQueued(w, w1, n, c, k) /\ w1.queue[e] = q
      BY <1>0, <2>3, QueueItemLemma DEF e, w1
    <2>5. ItemMarks(w, ch, n, c, k, "block", b)
      BY <1>0, <2>3 DEF ItemMarks, Marks, k, e
    <2>6. e \in w.open => broadcast(w1, n, c) = Send(Emptied(w1, n, c), n, c, "block", b)
      <3>1. SUFFICES ASSUME e \in w.open
                     PROVE  broadcast(w1, n, c) = Send(Emptied(w1, n, c), n, c, "block", b)
        OBVIOUS
      <3>2. w.queue[e] = EmptyQueue
        BY <1>0, <3>1 DEF Sound, UsedSettled
      <3>3. q = OneProp(b)
        BY <3>2 DEF q, EmptyQueue, OneProp
      <3>4. e \in w1.open
        BY <2>4, <3>1 DEF ItemQueued
      <3>5. QED
        BY <2>4, <3>3, <3>4, BroadcastLemma DEF e
    <2>7. Sound(v, pd, X, ch, fs) /\ Grows(w, v) /\ v.known[e] = k
      BY <2>2, <2>4, <2>5, <2>6, AsyncLemma DEF e
    <2>8. QED
      BY <2>7 DEF k, e
  <1>3. QED
    BY <1>1, <1>2

\* AsyncSendNewBlockHash, at an open and at a closed end.
LEMMA AsyncHashLemma ==
    ASSUME ConnsOK, NEW pd, NEW X, NEW ch, NEW fs, NEW w, Sound(w, pd, X, ch, fs),
           NEW n, NEW c, <<n, c>> \in AllEnds, Settled(w, pd, n, c),
           NEW b \in Blocks, b \in ch[n],
           NEW v, v = AsyncSendNewBlockHash(w, n, c, b)
    PROVE  /\ Sound(v, pd, X, ch, fs) /\ Grows(w, v)
           /\ <<n, c>> \in v.open => b \in v.known[<<n, c>>].blocks
  <1> DEFINE e == <<n, c>>
             q == [w.queue[e] EXCEPT !.anns = Append(@, b)]
             k == [w.known[e] EXCEPT !.blocks = @ \cup {b}]
  <1>0. w \in Worlds /\ e \in AllEnds /\ w.known[e] \in Marks /\ w.queue[e] \in Queues
    BY DEF Sound, Worlds
  <1>1. CASE Len(w.queue[e].anns) >= maxQueuedAnns
    <2>1. w.queue[e] # EmptyQueue
      BY <1>1, EthPeersAssumption DEF EmptyQueue
    <2>2. e \notin w.open
      BY <1>0, <2>1 DEF Sound, UsedSettled
    <2>3. v = w
      BY <1>1 DEF AsyncSendNewBlockHash
    <2>4. QED
      BY <2>2, <2>3, GrowsRefl
  <1>2. CASE ~(Len(w.queue[e].anns) >= maxQueuedAnns)
    <2>1. v = broadcast([w EXCEPT !.queue[<<n, c>>].anns = Append(@, b),
                                  !.known[<<n, c>>].blocks = @ \cup {b}], n, c)
      BY <1>2 DEF AsyncSendNewBlockHash
    <2> DEFINE w1 == WithItem(w, n, c, q, k)
    <2>2. v = broadcast(w1, n, c)
      BY <1>0, <2>1 DEF WithItem
    <2> HIDE DEF q, k, e, w1
    <2>3. q \in Queues /\ k \in Marks
      <3>0. w.queue[e].anns \in Seq(Blocks) /\ maxQueuedAnns \in Nat
        BY <1>0, EthPeersAssumption DEF Queues
      <3>1. Append(w.queue[e].anns, b) \in Seq(Blocks)
            /\ Len(Append(w.queue[e].anns, b)) <= maxQueuedAnns
        BY <1>2, <3>0 DEF e
      <3>2. q \in Queues
        BY <1>0, <3>1 DEF Queues, q
      <3>3. k \in Marks
        BY <1>0 DEF Marks, k
      <3>4. QED
        BY <3>2, <3>3
    <2>4. ItemQueued(w, w1, n, c, k) /\ w1.queue[e] = q
      BY <1>0, <2>3, QueueItemLemma DEF e, w1
    <2>5. ItemMarks(w, ch, n, c, k, "hash", b)
      BY <1>0, <2>3 DEF ItemMarks, Marks, k, e
    <2>6. e \in w.open => broadcast(w1, n, c) = Send(Emptied(w1, n, c), n, c, "hash", b)
      <3>1. SUFFICES ASSUME e \in w.open
                     PROVE  broadcast(w1, n, c) = Send(Emptied(w1, n, c), n, c, "hash", b)
        OBVIOUS
      <3>2. w.queue[e] = EmptyQueue
        BY <1>0, <3>1 DEF Sound, UsedSettled
      <3>3. q = OneAnn(b)
        BY <3>2 DEF q, EmptyQueue, OneAnn
      <3>4. e \in w1.open
        BY <2>4, <3>1 DEF ItemQueued
      <3>5. QED
        BY <2>4, <3>3, <3>4, BroadcastLemma DEF e
    <2>7. Sound(v, pd, X, ch, fs) /\ Grows(w, v) /\ v.known[e] = k
      BY <2>2, <2>4, <2>5, <2>6, AsyncLemma DEF e
    <2>8. QED
      BY <2>7 DEF k, e
  <1>3. QED
    BY <1>1, <1>2

\* The peers of a node are finitely many, and settled.
LEMMA PeersLemma ==
    ASSUME ConnsOK, NEW pd, NEW X, NEW ch, NEW fs, NEW w, Sound(w, pd, X, ch, fs), NEW n \in Nodes
    PROVE  /\ IsFiniteSet(w.peers[n])
           /\ \A c \in w.peers[n] : <<n, c>> \in AllEnds /\ Settled(w, pd, n, c)
  <1>1. w.peers[n] \subseteq DOMAIN conns
    BY DEF Sound, Worlds
  <1>2. IsFiniteSet(DOMAIN conns)
    <2>1. DOMAIN conns = 1 .. Len(conns) /\ Len(conns) \in Nat
      BY DEF ConnsOK
    <2>2. QED
      BY <2>1, FS_Interval
  <1>3. IsFiniteSet(w.peers[n])
    BY <1>1, <1>2, FS_Subset
  <1>4. ASSUME NEW c \in w.peers[n] PROVE <<n, c>> \in AllEnds /\ Settled(w, pd, n, c)
    <2>1. n \in conns[c] /\ <<n, c>> \notin pd
      BY DEF Sound, EndsOwn, UsedSettled
    <2>2. QED
      BY <1>1, <2>1 DEF AllEnds, Settled
  <1>5. QED
    BY <1>3, <1>4

\* The worlds that a sequence of sends leads to.
Reached(w, pd, X, ch, fs) == {v \in Worlds : Sound(v, pd, X, ch, fs) /\ Grows(w, v)}

\* One peer's turn in BroadcastTxs.
Offer(w, n, txs, v, c) ==
  LET new == txs \ w.known[<<n, c>>].txs
  IN IF new = {} THEN v ELSE AsyncSendTransactions(v, n, c, new)

\* The loop over the peers of BroadcastTxs.
Offers == INSTANCE FoldTheorems WITH
  Op <- LAMBDA p, q, r, d, e : Offer(r, p, q, d, e)

(***************************************************************************)
(* BroadcastTxs: whatever the order of the peers, those that are in use    *)
(* afterwards have all of the transactions marked.                         *)
(***************************************************************************)
LEMMA BroadcastTxsLemma ==
    ASSUME ConnsOK, NEW pd, NEW X, NEW ch, NEW fs, NEW w, Sound(w, pd, X, ch, fs),
           NEW n \in Nodes, NEW txs \in SUBSET Txs, txs \subseteq w.pool[n]
    PROVE  /\ Sound(BroadcastTxs(w, n, txs), pd, X, ch, fs) /\ Grows(w, BroadcastTxs(w, n, txs))
           /\ \A c \in w.peers[n] : <<n, c>> \in BroadcastTxs(w, n, txs).open =>
                txs \subseteq BroadcastTxs(w, n, txs).known[<<n, c>>].txs
  <1> DEFINE U == w.peers[n]
             A(v, T) == /\ Sound(v, pd, X, ch, fs) /\ Grows(w, v)
                        /\ \A c \in T : <<n, c>> \in v.open => txs \subseteq v.known[<<n, c>>].txs
             D == [T \in SUBSET U |-> {v \in Worlds : A(v, T)}]
             new(c) == txs \ w.known[<<n, c>>].txs
             Step(d, c) == Offer(w, n, txs, d, c)
  <1>1. BroadcastTxs(w, n, txs) = Offers!SetFold(n, txs, w, w, U)
    BY DEF BroadcastTxs, Offer, FoldSet, MapThenFoldSet, Offers!SetFold, Offers!Taken
  <1>2. IsFiniteSet(U) /\ \A c \in U : <<n, c>> \in AllEnds /\ Settled(w, pd, n, c)
    BY PeersLemma
  <1>3. \A v, T : A(v, T) => v \in Worlds
    BY DEF Sound
  <1>4. w \in D[{}]
    <2>1. A(w, {})
      BY GrowsRefl
    <2>2. {} \in SUBSET U /\ w \in Worlds
      BY DEF Sound
    <2> HIDE DEF A, U
    <2>3. QED
      BY <2>1, <2>2
  <1>5. ASSUME NEW T \in SUBSET U, NEW c \in T, NEW d \in D[T \ {c}]
        PROVE  Step(d, c) \in D[T]
    <2>1. A(d, T \ {c})
      BY <1>5
    <2>2. <<n, c>> \in AllEnds /\ Settled(d, pd, n, c)
      BY <1>2, <2>1, SettledGrows
    <2>3. w.known[<<n, c>>].txs \subseteq d.known[<<n, c>>].txs
      BY <2>1, <2>2 DEF Grows
    <2> HIDE DEF D
    <2>4. CASE new(c) = {}
      <3>1. A(d, T)
        BY <2>1, <2>3, <2>4
      <3>2. QED
        BY <1>3, <2>4, <3>1 DEF D, Offer
    <2>5. CASE new(c) # {}
      <3> DEFINE v == AsyncSendTransactions(d, n, c, new(c))
      <3>1. new(c) \in SUBSET Txs /\ new(c) \subseteq d.pool[n]
        <4>1. d.pool = w.pool
          BY <2>1 DEF Grows, SameLists
        <4>2. QED
          BY <4>1
      <3> HIDE DEF new
      <3>2. /\ Sound(v, pd, X, ch, fs) /\ Grows(d, v)
            /\ <<n, c>> \in v.open => new(c) \subseteq v.known[<<n, c>>].txs
        BY <2>1, <2>2, <3>1, AsyncTxsLemma
      <3> HIDE DEF v
      <3>3. Grows(w, v)
        BY <2>1, <3>2, GrowsTrans
      <3>4. ASSUME NEW x \in T, <<n, x>> \in v.open PROVE txs \subseteq v.known[<<n, x>>].txs
        <4>1. <<n, x>> \in AllEnds
          BY <1>2
        <4>2. d.known[<<n, x>>].txs \subseteq v.known[<<n, x>>].txs /\ <<n, x>> \in d.open
          BY <3>2, <3>4, <4>1 DEF Grows, Shrinks
        <4>3. CASE x = c
          BY <2>3, <3>2, <3>4, <4>2, <4>3 DEF new
        <4>4. CASE x # c
          BY <2>1, <4>2, <4>4
        <4>5. QED
          BY <4>3, <4>4
      <3>5. A(v, T)
        BY <3>2, <3>3, <3>4
      <3>6. QED
        BY <1>3, <2>5, <3>5 DEF D, v, Offer, new
    <2>6. QED
      BY <2>4, <2>5
  <1> HIDE DEF D
  <1>6. Offers!SetFold(n, txs, w, w, U) \in D[U]
    <2>1. \A T \in SUBSET U : \A c \in T : \A d \in D[T \ {c}] : Offer(w, n, txs, d, c) \in D[T]
      BY <1>5
    <2>2. Offers!IsFiniteSet(U)
      BY <1>2 DEF IsFiniteSet, Offers!IsFiniteSet
    <2> HIDE DEF U
    <2>3. Offers!SetSteps(n, txs, w, U, D)
      BY <2>1 DEF Offers!SetSteps
    <2>4. QED
      BY <1>4, <2>2, <2>3, Offers!SetFoldSteps
  <1>7. A(BroadcastTxs(w, n, txs), U)
    BY <1>1, <1>6 DEF D
  <1>8. QED
    BY <1>7

\* The loop over the peers that get a whole block.
Sends == INSTANCE FoldTheorems WITH
  Op <- LAMBDA p, q, r, d, e : AsyncSendNewBlock(d, p, e, q)

\* Propagate, to some of the peers.
LEMMA PropagateLemma ==
    ASSUME ConnsOK, NEW pd, NEW X, NEW ch, NEW fs, NEW w, Sound(w, pd, X, ch, fs),
           NEW n \in Nodes, NEW b \in Blocks, b \in ch[n],
           NEW transfer \in SUBSET w.peers[n]
    PROVE  Propagate(w, n, b, transfer) \in Reached(w, pd, X, ch, fs)
  <1> DEFINE U == transfer
             R == Reached(w, pd, X, ch, fs)
             D == [T \in SUBSET U |-> R]
  <1>1. Propagate(w, n, b, transfer) = Sends!SetFold(n, b, 0, w, U)
    BY DEF Propagate, FoldSet, MapThenFoldSet, Sends!SetFold, Sends!Taken
  <1>2. IsFiniteSet(U) /\ \A c \in U : <<n, c>> \in AllEnds /\ Settled(w, pd, n, c)
    <2>1. U \subseteq w.peers[n]
      OBVIOUS
    <2>2. QED
      BY <2>1, PeersLemma, FS_Subset
  <1>3. w \in R
    BY GrowsRefl DEF Reached, Sound
  <1>4. ASSUME NEW c \in U, NEW d \in R
        PROVE  AsyncSendNewBlock(d, n, c, b) \in R
    <2>1. Sound(d, pd, X, ch, fs) /\ Grows(w, d)
      BY <1>4 DEF Reached
    <2>2. <<n, c>> \in AllEnds /\ Settled(d, pd, n, c)
      BY <1>2, <2>1, SettledGrows
    <2> DEFINE v == AsyncSendNewBlock(d, n, c, b)
    <2>3. Sound(v, pd, X, ch, fs) /\ Grows(d, v)
      BY <2>1, <2>2, AsyncBlockLemma
    <2> HIDE DEF v
    <2>4. Grows(w, v)
      BY <2>1, <2>3, GrowsTrans
    <2>5. QED
      BY <2>3, <2>4 DEF Reached, Sound, v
  <1> HIDE DEF R, U
  <1>5. D[{}] = R /\ D[U] = R /\ \A T \in SUBSET U : \A c \in T : D[T] = R /\ D[T \ {c}] = R
    OBVIOUS
  <1> HIDE DEF D
  <1>6. Sends!SetSteps(n, b, 0, U, D)
    BY <1>4, <1>5 DEF Sends!SetSteps
  <1>7. Sends!IsFiniteSet(U)
    BY <1>2 DEF IsFiniteSet, Sends!IsFiniteSet
  <1>8. Sends!SetFold(n, b, 0, w, U) \in D[U]
    BY <1>3, <1>5, <1>6, <1>7, Sends!SetFoldSteps
  <1>9. QED
    BY <1>1, <1>5, <1>8 DEF R, U

\* The loop over the peers that get an announcement.
Hashes == INSTANCE FoldTheorems WITH
  Op <- LAMBDA p, q, r, d, e : AsyncSendNewBlockHash(d, p, e, q)

\* Announce, to the peers without the block.
LEMMA AnnounceLemma ==
    ASSUME ConnsOK, NEW pd, NEW X, NEW ch, NEW fs, NEW w, Sound(w, pd, X, ch, fs),
           NEW n \in Nodes, NEW b \in Blocks, b \in ch[n]
    PROVE  Announce(w, n, b) \in Reached(w, pd, X, ch, fs)
  <1> DEFINE U == PeersWithoutBlock(w, n, b)
             R == Reached(w, pd, X, ch, fs)
             D == [T \in SUBSET U |-> R]
  <1>1. Announce(w, n, b) = Hashes!SetFold(n, b, 0, w, U)
    BY DEF Announce, FoldSet, MapThenFoldSet, Hashes!SetFold, Hashes!Taken
  <1>2. IsFiniteSet(U) /\ \A c \in U : <<n, c>> \in AllEnds /\ Settled(w, pd, n, c)
    <2>1. U \subseteq w.peers[n]
      BY DEF PeersWithoutBlock
    <2>2. QED
      BY <2>1, PeersLemma, FS_Subset
  <1>3. w \in R
    BY GrowsRefl DEF Reached, Sound
  <1>4. ASSUME NEW c \in U, NEW d \in R
        PROVE  AsyncSendNewBlockHash(d, n, c, b) \in R
    <2>1. Sound(d, pd, X, ch, fs) /\ Grows(w, d)
      BY <1>4 DEF Reached
    <2>2. <<n, c>> \in AllEnds /\ Settled(d, pd, n, c)
      BY <1>2, <2>1, SettledGrows
    <2> DEFINE v == AsyncSendNewBlockHash(d, n, c, b)
    <2>3. Sound(v, pd, X, ch, fs) /\ Grows(d, v)
      BY <2>1, <2>2, AsyncHashLemma
    <2> HIDE DEF v
    <2>4. Grows(w, v)
      BY <2>1, <2>3, GrowsTrans
    <2>5. QED
      BY <2>3, <2>4 DEF Reached, Sound, v
  <1> HIDE DEF R, U
  <1>5. D[{}] = R /\ D[U] = R /\ \A T \in SUBSET U : \A c \in T : D[T] = R /\ D[T \ {c}] = R
    OBVIOUS
  <1> HIDE DEF D
  <1>6. Hashes!SetSteps(n, b, 0, U, D)
    BY <1>4, <1>5 DEF Hashes!SetSteps
  <1>7. Hashes!IsFiniteSet(U)
    BY <1>2 DEF IsFiniteSet, Hashes!IsFiniteSet
  <1>8. Hashes!SetFold(n, b, 0, w, U) \in D[U]
    BY <1>3, <1>5, <1>6, <1>7, Hashes!SetFoldSteps
  <1>9. QED
    BY <1>1, <1>5, <1>8 DEF R, U

(***************************************************************************)
(* What a node takes: its pool, its chain and the fetches grow, and what   *)
(* is marked at an end is at the other node.                               *)
(***************************************************************************)
Takes(w, v, pd) ==
  /\ v \in Worlds /\ v.open = w.open /\ v.peers = w.peers
  /\ v.handshakePeers = w.handshakePeers /\ v.queue = w.queue /\ v.msgs = w.msgs
  /\ v.mgrs = w.mgrs /\ v.forgotten = w.forgotten
  /\ \A k \in Nodes : w.pool[k] \subseteq v.pool[k] /\ w.chain[k] \subseteq v.chain[k]
  /\ \A e \in AllEnds : v.known[e] # w.known[e] =>
       /\ Settled(w, pd, e[1], e[2])
       /\ w.known[e].txs \subseteq v.known[e].txs
       /\ \A t \in v.known[e].txs \ w.known[e].txs : t \in v.pool[Remote(e[1], e[2])]
       /\ \A b \in v.known[e].blocks \ w.known[e].blocks : b \in v.chain[Remote(e[1], e[2])]

\* To take contents over keeps a world sound, on larger chains and with more fetches too.
LEMMA TakesLemma ==
    ASSUME ConnsOK, NEW pd, NEW X, NEW ch, NEW fs, NEW w, Sound(w, pd, X, ch, fs),
           NEW v, Takes(w, v, pd), NEW ch2, \A k \in Nodes : ch[k] \subseteq ch2[k],
           NEW fs2, fs \subseteq fs2
    PROVE  Sound(v, pd, X, ch2, fs2)
  <1>0. /\ w \in Worlds /\ v \in Worlds
        /\ \A k \in Nodes : \A d \in w.peers[k] :
             <<k, d>> \in AllEnds /\ Remote(k, d) \in Nodes
    <2>1. w \in Worlds /\ v \in Worlds
      BY DEF Sound, Takes
    <2>2. ASSUME NEW k \in Nodes, NEW d \in w.peers[k]
          PROVE  <<k, d>> \in AllEnds /\ Remote(k, d) \in Nodes
      <3>1. d \in DOMAIN conns /\ k \in conns[d]
        BY <2>1 DEF Sound, EndsOwn, Worlds
      <3>2. QED
        BY <3>1, RemoteLemma DEF AllEnds
    <2>3. QED
      BY <2>1, <2>2
  <1>1. EndsOwn(v) /\ OneEach(v) /\ OneOpen(v, pd) /\ OfflineClosed(v)
    BY DEF Sound, EndsOwn, OneEach, OneOpen, OfflineClosed, Takes
  <1>2. ContentsOwn(v, ch2)
    <2>1. ASSUME NEW x \in v.msgs
          PROVE  /\ x.from \in conns[x.c]
                 /\ x.type = "txs" => x.content \subseteq v.pool[x.from]
                 /\ x.type \in {"block", "hash"} => x.content \in ch2[x.from]
                 /\ x.mgr # 0 => x.type = "txs" /\ x.mgr \in DOMAIN v.mgrs[x.from]
      <3>1. x \in w.msgs /\ x.from \in Nodes /\ v.mgrs = w.mgrs
        BY <1>0 DEF Takes, Worlds, Message
      <3>2. w.pool[x.from] \subseteq v.pool[x.from] /\ ch[x.from] \subseteq ch2[x.from]
        BY <3>1 DEF Takes
      <3>3. QED
        BY <3>1, <3>2 DEF Sound, ContentsOwn
    <2>2. \A n \in Nodes : \A g \in DOMAIN v.mgrs[n] : \A s \in v.mgrs[n][g].pending :
            s.txs \subseteq v.pool[n]
      BY DEF Sound, ContentsOwn, Takes
    <2>3. QED
      BY <2>1, <2>2 DEF ContentsOwn
  <1>3. UsedSettled(v, pd)
    <2>1. \A n, c : Settled(w, pd, n, c) => Settled(v, pd, n, c)
      BY DEF Settled, Takes
    <2>2. ASSUME NEW e \in AllEnds, v.known[e] # NoMarks PROVE Settled(v, pd, e[1], e[2])
      BY <2>1, <2>2 DEF Sound, UsedSettled, Takes
    <2>3. ASSUME NEW e \in AllEnds, v.queue[e] # EmptyQueue PROVE e \notin pd /\ e \notin v.open
      BY <2>3 DEF Sound, UsedSettled, Takes
    <2>4. ASSUME NEW n \in Nodes
          PROVE  /\ \A c \in v.peers[n] \cup v.handshakePeers[n] : <<n, c>> \notin pd
                 /\ \A g \in DOMAIN v.mgrs[n] : \A s \in v.mgrs[n][g].pending : Settled(v, pd, n, s.c)
      BY <2>1 DEF Sound, UsedSettled, Takes
    <2>5. QED
      BY <2>2, <2>3, <2>4 DEF UsedSettled
  <1>4. TxMarksTrue(v, X)
    <2> SUFFICES ASSUME NEW k \in Nodes, NEW d \in v.peers[k], <<k, d>> \in v.open,
                        NEW t \in v.known[<<k, d>>].txs
                 PROVE  t \in v.pool[Remote(k, d)] \/ TxOnWay(v, X, k, d, t)
      BY DEF TxMarksTrue
    <2>0. d \in w.peers[k] /\ <<k, d>> \in w.open /\ v.msgs = w.msgs
      BY DEF Takes
    <2>1. CASE t \in w.known[<<k, d>>].txs
      <3>1. t \in w.pool[Remote(k, d)] \/ TxOnWay(w, X, k, d, t)
        BY <2>0, <2>1 DEF Sound, TxMarksTrue
      <3>2. w.pool[Remote(k, d)] \subseteq v.pool[Remote(k, d)]
        BY <1>0, <2>0 DEF Takes
      <3>3. QED
        BY <2>0, <3>1, <3>2 DEF TxOnWay
    <2>2. CASE t \notin w.known[<<k, d>>].txs
      BY <1>0, <2>0, <2>2 DEF Takes
    <2>3. QED
      BY <2>1, <2>2
  <1>5. BlockMarksTrue(v, X, fs2)
    <2> SUFFICES ASSUME NEW k \in Nodes, NEW d \in v.peers[k], <<k, d>> \in v.open,
                        NEW b \in v.known[<<k, d>>].blocks
                 PROVE  \/ b \in v.chain[Remote(k, d)] \/ BlockOnWay(v, X, k, d, b)
                        \/ Fetched(fs2, Remote(k, d), d, b)
      BY DEF BlockMarksTrue
    <2>0. d \in w.peers[k] /\ <<k, d>> \in w.open /\ v.msgs = w.msgs
      BY DEF Takes
    <2>1. CASE b \in w.known[<<k, d>>].blocks
      <3>1. \/ b \in w.chain[Remote(k, d)] \/ BlockOnWay(w, X, k, d, b)
            \/ Fetched(fs, Remote(k, d), d, b)
        BY <2>0, <2>1 DEF Sound, BlockMarksTrue
      <3>2. w.chain[Remote(k, d)] \subseteq v.chain[Remote(k, d)]
        BY <1>0, <2>0 DEF Takes
      <3>3. QED
        BY <2>0, <3>1, <3>2 DEF BlockOnWay, Fetched
    <2>2. CASE b \notin w.known[<<k, d>>].blocks
      BY <1>0, <2>0, <2>2 DEF Takes
    <2>3. QED
      BY <2>1, <2>2
  <1>6. Shaking(v, X)
    BY DEF Sound, Shaking, HasPeer, StatusOnWay, Takes
  <1>7. QED
    BY <1>0, <1>1, <1>2, <1>3, <1>4, <1>5, <1>6 DEF Sound

(***************************************************************************)
(* A message was handled: its sender's end is closed, or what it carries   *)
(* is at the receiver.                                                     *)
(***************************************************************************)
Handled(w, fs, x) ==
  \/ <<x.from, x.c>> \notin w.open
  \/ LET to == Remote(x.from, x.c)
     IN /\ x.type = "txs" => x.content \subseteq w.pool[to]
        /\ x.type \in {"block", "hash"} =>
             x.content \in w.chain[to] \/ Fetched(fs, to, x.c, x.content)
        /\ x.type = "status" => HasPeer(w, to, x.c)

\* A message that was handled is not needed any more: its content has arrived.
LEMMA HandledLemma ==
    ASSUME NEW pd, NEW x, NEW ch, NEW fs, NEW w, Sound(w, pd, {x}, ch, fs), Handled(w, fs, x)
    PROVE  Sound(w, pd, {}, ch, fs)
  <1>1. TxMarksTrue(w, {})
    <2> SUFFICES ASSUME NEW k \in Nodes, NEW d \in w.peers[k], <<k, d>> \in w.open,
                        NEW t \in w.known[<<k, d>>].txs
                 PROVE  t \in w.pool[Remote(k, d)] \/ TxOnWay(w, {}, k, d, t)
      BY DEF TxMarksTrue
    <2>1. t \in w.pool[Remote(k, d)] \/ TxOnWay(w, {x}, k, d, t)
      BY DEF Sound, TxMarksTrue
    <2>2. QED
      BY <2>1 DEF TxOnWay, Handled
  <1>2. BlockMarksTrue(w, {}, fs)
    <2> SUFFICES ASSUME NEW k \in Nodes, NEW d \in w.peers[k], <<k, d>> \in w.open,
                        NEW b \in w.known[<<k, d>>].blocks
                 PROVE  \/ b \in w.chain[Remote(k, d)] \/ BlockOnWay(w, {}, k, d, b)
                        \/ Fetched(fs, Remote(k, d), d, b)
      BY DEF BlockMarksTrue
    <2>1. \/ b \in w.chain[Remote(k, d)] \/ BlockOnWay(w, {x}, k, d, b)
          \/ Fetched(fs, Remote(k, d), d, b)
      BY DEF Sound, BlockMarksTrue
    <2>2. QED
      BY <2>1 DEF BlockOnWay, Handled
  <1>3. Shaking(w, {})
    <2> SUFFICES ASSUME NEW e \in w.open, NEW f \in w.open, Facing(e, f)
                 PROVE  \/ HasPeer(w, e[1], e[2]) \/ StatusOnWay(w, {}, e[1], e[2])
                        \/ HasPeer(w, f[1], f[2]) \/ StatusOnWay(w, {}, f[1], f[2])
      BY DEF Shaking
    <2>1. \/ HasPeer(w, e[1], e[2]) \/ StatusOnWay(w, {x}, e[1], e[2])
          \/ HasPeer(w, f[1], f[2]) \/ StatusOnWay(w, {x}, f[1], f[2])
      BY DEF Sound, Shaking
    <2>2. e = <<e[1], e[2]>> /\ f = <<f[1], f[2]>>
      BY DEF Sound, Worlds, AllEnds
    <2>3. ASSUME StatusOnWay(w, {x}, e[1], e[2])
          PROVE  StatusOnWay(w, {}, e[1], e[2]) \/ HasPeer(w, f[1], f[2])
      BY <2>2, <2>3 DEF StatusOnWay, Handled, Facing, HasPeer
    <2>4. ASSUME StatusOnWay(w, {x}, f[1], f[2])
          PROVE  StatusOnWay(w, {}, f[1], f[2]) \/ HasPeer(w, e[1], e[2])
      BY <2>2, <2>4 DEF StatusOnWay, Handled, Facing, HasPeer
    <2>5. QED
      BY <2>1, <2>3, <2>4
  <1>4. QED
    BY <1>1, <1>2, <1>3 DEF Sound

\* Nothing happens to the packs: ends close, marks and messages are added.
Follows(w, v) ==
  /\ v.mgrs = w.mgrs /\ v.forgotten = w.forgotten /\ v.open \subseteq w.open
  /\ \A k \in Nodes : v.peers[k] \subseteq w.peers[k]
  /\ \A e \in AllEnds : w.known[e].txs \subseteq v.known[e].txs
  /\ w.msgs \subseteq v.msgs /\ \A x \in v.msgs \ w.msgs : x.mgr = 0

\* Steps that send leave the managers alone.
LEMMA GrowsFollows ==
    ASSUME NEW w, NEW v, Grows(w, v)
    PROVE  Follows(w, v)
  BY DEF Grows, Shrinks, SameLists, Follows

\* So do steps that take contents over.
LEMMA TakesFollows ==
    ASSUME NEW w, NEW v, NEW pd, Takes(w, v, pd)
    PROVE  Follows(w, v)
  BY DEF Takes, Follows

\* Such steps compose.
LEMMA FollowsTrans ==
    ASSUME NEW u, NEW v, NEW w, Follows(u, v), Follows(v, w)
    PROVE  Follows(u, w)
  BY DEF Follows

\* They keep the packs that are under way.
LEMMA PackFollows ==
    ASSUME NEW w, NEW v, Follows(w, v), NEW X, PackSent(w, X)
    PROVE  PackSent(v, X)
  <1>1. \A x \in v.msgs \cup X : x.mgr # 0 => x \in w.msgs \cup X
    BY DEF Follows
  <1>2. v.mgrs = w.mgrs /\ w.msgs \cup X \subseteq v.msgs \cup X
    BY DEF Follows
  <1>3. ASSUME NEW x \in v.msgs \cup X, x.mgr # 0
        PROVE  /\ v.mgrs[x.from][x.mgr].sending /\ x.c = v.mgrs[x.from][x.mgr].pack
               /\ \A y \in v.msgs \cup X : y.from = x.from /\ y.mgr = x.mgr => y = x
    BY <1>1, <1>2, <1>3 DEF PackSent
  <1>4. ASSUME NEW n \in Nodes, NEW g \in DOMAIN v.mgrs[n]
        PROVE  /\ v.mgrs[n][g].pending # {} => v.mgrs[n][g].sending
               /\ v.mgrs[n][g].sending => \E x \in v.msgs \cup X : x.from = n /\ x.mgr = g
    BY <1>2 DEF PackSent
  <1>5. QED
    BY <1>3, <1>4 DEF PackSent

\* They keep what is offered.
LEMMA OfferedFollows ==
    ASSUME NEW w \in Worlds, EndsOwn(w), NEW v, Follows(w, v), NEW pl, PoolOffered(w, pl)
    PROVE  PoolOffered(v, pl)
  <1> SUFFICES ASSUME NEW n \in Nodes, NEW c \in v.peers[n] \ v.forgotten, <<n, c>> \in v.open,
                      NEW t \in pl[n]
               PROVE  t \in v.known[<<n, c>>].txs \/ ToSend(v, n, c, t)
    BY DEF PoolOffered
  <1>1. c \in w.peers[n] \ w.forgotten /\ <<n, c>> \in w.open /\ v.mgrs = w.mgrs
    BY DEF Follows
  <1>2. t \in w.known[<<n, c>>].txs \/ ToSend(w, n, c, t)
    BY <1>1 DEF PoolOffered
  <1>3. <<n, c>> \in AllEnds
    BY <1>1 DEF Worlds
  <1>4. w.known[<<n, c>>].txs \subseteq v.known[<<n, c>>].txs
    BY <1>3 DEF Follows
  <1>5. QED
    BY <1>1, <1>2, <1>4 DEF ToSend

(***************************************************************************)
(* Spread: the block is sent before it is in the chain, announced after.   *)
(***************************************************************************)
LEMMA SpreadLemma ==
    ASSUME ConnsOK, NEW pd, NEW X, NEW ch, NEW fs, NEW w, Sound(w, pd, X, ch, fs),
           NEW n \in Nodes, NEW b \in Blocks, b \in ch[n], NEW transfer \in SUBSET w.peers[n],
           NEW v, v = Spread(w, n, b, transfer)
    PROVE  /\ Sound(v, pd, X, ch, fs) /\ Follows(w, v) /\ v.pool = w.pool
           /\ v.chain = [k \in Nodes |-> IF k = n THEN w.chain[n] \cup {b} ELSE w.chain[k]]
  <1> DEFINE u == Propagate(w, n, b, transfer)
             r == [u EXCEPT !.chain[n] = @ \cup {b}]
  <1>1. Sound(u, pd, X, ch, fs) /\ Grows(w, u)
    BY PropagateLemma DEF Reached
  <1>2. v = Announce(r, n, b)
    BY DEF Spread
  <1> HIDE DEF u
  <1>3. u \in Worlds /\ u.chain = w.chain /\ u.pool = w.pool
    BY <1>1 DEF Sound, Grows, SameLists
  <1>4. /\ r \in Worlds /\ r.open = u.open /\ r.peers = u.peers
        /\ r.handshakePeers = u.handshakePeers /\ r.queue = u.queue /\ r.msgs = u.msgs
        /\ r.mgrs = u.mgrs /\ r.forgotten = u.forgotten /\ r.pool = u.pool /\ r.known = u.known
        /\ r.chain = [u.chain EXCEPT ![n] = @ \cup {b}]
    BY <1>3 DEF Worlds
  <1> HIDE DEF r
  <1>5. r.chain = [k \in Nodes |-> IF k = n THEN w.chain[n] \cup {b} ELSE w.chain[k]]
    BY <1>3, <1>4 DEF Worlds
  <1>6. Takes(u, r, pd)
    BY <1>3, <1>4, <1>5 DEF Takes
  <1>7. Sound(r, pd, X, ch, fs)
    BY <1>1, <1>6, TakesLemma
  <1>8. Sound(v, pd, X, ch, fs) /\ Grows(r, v)
    BY <1>2, <1>7, AnnounceLemma DEF Reached
  <1>9. Follows(w, u) /\ Follows(u, r) /\ Follows(r, v)
    BY <1>1, <1>6, <1>8, GrowsFollows, TakesFollows
  <1>10. Follows(w, v)
    BY <1>9, FollowsTrans
  <1>11. v.pool = w.pool /\ v.chain = r.chain
    BY <1>3, <1>4, <1>8 DEF Grows, SameLists
  <1>12. QED
    BY <1>5, <1>8, <1>10, <1>11

\* Transactions to wait with are finitely many.
LEMMA FiniteLemma ==
    ASSUME ConnsOK
    PROVE  /\ IsFiniteSet(Txs) /\ IsFiniteSet(DOMAIN conns)
           /\ \A S \in SUBSET Waiting : IsFiniteSet(S)
  <1>1. IsFiniteSet(Txs)
    BY EthPeersAssumption, FS_Interval DEF Txs
  <1>2. IsFiniteSet(DOMAIN conns)
    <2>1. DOMAIN conns = 1 .. Len(conns) /\ Len(conns) \in Nat
      BY DEF ConnsOK
    <2>2. QED
      BY <2>1, FS_Interval
  <1> DEFINE P == (DOMAIN conns) \X (SUBSET Txs)
             f == [p \in P |-> [c |-> p[1], txs |-> p[2]]]
  <1>3. IsFiniteSet(P)
    BY <1>1, <1>2, FS_SUBSET, FS_Product
  <1>4. f \in Surjection(P, Waiting)
    <2>1. f \in [P -> Waiting]
      BY DEF Waiting
    <2>2. ASSUME NEW s \in Waiting PROVE \E p \in P : f[p] = s
      <3>1. <<s.c, s.txs>> \in P /\ f[<<s.c, s.txs>>] = s
        BY DEF Waiting
      <3>2. QED
        BY <3>1
    <2>3. QED
      BY <2>1, <2>2 DEF Surjection
  <1>5. IsFiniteSet(Waiting)
    BY <1>3, <1>4, FS_Surjection
  <1>6. QED
    BY <1>1, <1>2, <1>5, FS_Subset

\* There is a pack for every set of transactions.
LEMMA PackLemma ==
    ASSUME NEW S \in SUBSET Txs
    PROVE  \E T \in SUBSET S : Cardinality(T) = Min({PackSize, Cardinality(S)})
  <1>0. IsFiniteSet(Txs)
    BY EthPeersAssumption, FS_Interval DEF Txs
  <1>1. IsFiniteSet(S)
    BY <1>0, FS_Subset
  <1>2. Cardinality(S) \in Nat /\ ExistsBijection(1 .. Cardinality(S), S)
    BY <1>1, FS_CardinalityType
  <1> DEFINE N == Cardinality(S)
             k == Min({PackSize, N})
  <1>3. k \in Nat /\ k <= N
    <2>1. PackSize \in Nat /\ N \in Nat
      BY <1>2, EthPeersAssumption
    <2> HIDE DEF N
    <2>2. \E x \in {PackSize, N} : \A y \in {PackSize, N} : x =< y
      BY <2>1
    <2>3. k \in {PackSize, N} /\ \A y \in {PackSize, N} : k =< y
      BY <2>2 DEF Min
    <2>4. QED
      BY <2>1, <2>3
  <1>4. PICK f : f \in Bijection(1 .. N, S)
    BY <1>2 DEF ExistsBijection
  <1> HIDE DEF N, k
  <1> DEFINE T == {f[i] : i \in 1 .. k}
             h == [i \in 1 .. k |-> f[i]]
  <1>5. T \subseteq S /\ h \in Bijection(1 .. k, T)
    <2>1. 1 .. k \subseteq 1 .. N
      BY <1>2, <1>3 DEF N
    <2>2. f \in [1 .. N -> S] /\ \A i, j \in 1 .. N : f[i] = f[j] => i = j
      BY <1>4 DEF Bijection, Injection, IsInjective
    <2>3. h \in Injection(1 .. k, T)
      BY <2>1, <2>2 DEF Injection, IsInjective
    <2>4. h \in Surjection(1 .. k, T)
      BY <2>1, <2>2 DEF Surjection
    <2>5. T \subseteq S
      BY <2>1, <2>2
    <2>6. QED
      BY <2>3, <2>4, <2>5 DEF Bijection
  <1> HIDE DEF T, h
  <1>6. Cardinality(T) = k
    BY <1>3, <1>5, FS_CountingElements DEF ExistsBijection
  <1>7. QED
    BY <1>5, <1>6 DEF k, N

\* The end of a connection that waits, and of a pair of node and connection, closes.
CloseWaiting(w, n, U) == FoldSet(LAMBDA t, v : Close(v, n, t.c), w, U)
CloseEnds(w, n, U) == FoldSet(LAMBDA e, v : Close(v, n, e[2]), w, U)

\* The loops that close the ends that waited, and the ends of a node that stops.
Closes == INSTANCE FoldTheorems WITH
  Op <- LAMBDA p, q, r, d, e : Close(d, p, e.c)
Stops == INSTANCE FoldTheorems WITH
  Op <- LAMBDA p, q, r, d, e : Close(d, p, e[2])

\* Closing one more end.
LEMMA CloseReached ==
    ASSUME ConnsOK, NEW pd, NEW X, NEW ch, NEW fs, NEW w, NEW n, NEW c, <<n, c>> \in AllEnds,
           NEW d \in Reached(w, pd, X, ch, fs)
    PROVE  /\ Close(d, n, c) \in Reached(w, pd, X, ch, fs)
           /\ Close(d, n, c).open \subseteq d.open /\ <<n, c>> \notin Close(d, n, c).open
  <1> DEFINE v == Close(d, n, c)
  <1>1. Sound(d, pd, X, ch, fs) /\ Grows(w, d) /\ d \in Worlds /\ EndsOwn(d)
    BY DEF Reached, Sound
  <1>2. /\ v \in Worlds /\ Shrinks(d, v) /\ SameLists(d, v) /\ SameTraffic(d, v)
        /\ <<n, c>> \notin v.open
    BY <1>1, CloseLemma
  <1> HIDE DEF v
  <1>3. Sound(v, pd, X, ch, fs) /\ Grows(d, v)
    BY <1>1, <1>2, ClosingLemma, CloseGrows
  <1>4. Grows(w, v)
    BY <1>1, <1>3, GrowsTrans
  <1>5. QED
    BY <1>2, <1>3, <1>4 DEF Reached, Shrinks, v

\* The ends that waited are closed, in whatever order.
LEMMA CloseWaitingLemma ==
    ASSUME ConnsOK, NEW pd, NEW X, NEW ch, NEW fs, NEW w, Sound(w, pd, X, ch, fs), NEW n,
           NEW U, IsFiniteSet(U), \A t \in U : <<n, t.c>> \in AllEnds
    PROVE  CloseWaiting(w, n, U) \in Reached(w, pd, X, ch, fs)
  <1> DEFINE R == Reached(w, pd, X, ch, fs)
             D == [T \in SUBSET U |-> R]
  <1>1. CloseWaiting(w, n, U) = Closes!SetFold(n, 0, 0, w, U)
    BY DEF CloseWaiting, FoldSet, MapThenFoldSet, Closes!SetFold, Closes!Taken
  <1>2. w \in R
    BY GrowsRefl DEF Reached, Sound
  <1>3. \A t \in U, d \in R : Close(d, n, t.c) \in R
    BY CloseReached
  <1> HIDE DEF R
  <1>4. D[{}] = R /\ D[U] = R /\ \A T \in SUBSET U : \A t \in T : D[T] = R /\ D[T \ {t}] = R
    OBVIOUS
  <1> HIDE DEF D
  <1>5. Closes!SetSteps(n, 0, 0, U, D)
    BY <1>3, <1>4 DEF Closes!SetSteps
  <1>6. Closes!IsFiniteSet(U)
    BY DEF IsFiniteSet, Closes!IsFiniteSet
  <1>7. Closes!SetFold(n, 0, 0, w, U) \in D[U]
    BY <1>2, <1>4, <1>5, <1>6, Closes!SetFoldSteps
  <1>8. QED
    BY <1>1, <1>4, <1>7 DEF R

\* The ends of a node are closed, in whatever order, and none is left open.
LEMMA CloseEndsLemma ==
    ASSUME ConnsOK, NEW pd, NEW X, NEW ch, NEW fs, NEW w, Sound(w, pd, X, ch, fs), NEW n,
           NEW U, IsFiniteSet(U), \A e \in U : <<n, e[2]>> \in AllEnds
    PROVE  /\ CloseEnds(w, n, U) \in Reached(w, pd, X, ch, fs)
           /\ \A e \in U : <<n, e[2]>> \notin CloseEnds(w, n, U).open
  <1> DEFINE R == Reached(w, pd, X, ch, fs)
             D == [T \in SUBSET U |-> {v \in R : \A e \in T : <<n, e[2]>> \notin v.open}]
  <1>1. CloseEnds(w, n, U) = Stops!SetFold(n, 0, 0, w, U)
    BY DEF CloseEnds, FoldSet, MapThenFoldSet, Stops!SetFold, Stops!Taken
  <1>2. w \in R
    BY GrowsRefl DEF Reached, Sound
  <1>3. ASSUME NEW e \in U, NEW d \in R
        PROVE  /\ Close(d, n, e[2]) \in R /\ Close(d, n, e[2]).open \subseteq d.open
               /\ <<n, e[2]>> \notin Close(d, n, e[2]).open
    BY CloseReached
  <1> HIDE DEF R
  <1>4. w \in D[{}]
    BY <1>2
  <1>5. ASSUME NEW T \in SUBSET U, NEW e \in T, NEW d \in D[T \ {e}]
        PROVE  Close(d, n, e[2]) \in D[T]
    <2>1. d \in R /\ \A f \in T \ {e} : <<n, f[2]>> \notin d.open
      BY <1>5
    <2> DEFINE v == Close(d, n, e[2])
    <2>2. v \in R /\ v.open \subseteq d.open /\ <<n, e[2]>> \notin v.open
      BY <1>3, <2>1
    <2> HIDE DEF v
    <2>3. \A f \in T : <<n, f[2]>> \notin v.open
      BY <2>1, <2>2
    <2>4. QED
      BY <2>2, <2>3 DEF v
  <1>6. D[U] = {v \in R : \A e \in U : <<n, e[2]>> \notin v.open}
    OBVIOUS
  <1> HIDE DEF D
  <1>7. Stops!SetSteps(n, 0, 0, U, D)
    BY <1>5 DEF Stops!SetSteps
  <1>8. Stops!IsFiniteSet(U)
    BY DEF IsFiniteSet, Stops!IsFiniteSet
  <1>9. Stops!SetFold(n, 0, 0, w, U) \in D[U]
    BY <1>4, <1>7, <1>8, Stops!SetFoldSteps
  <1>10. QED
    BY <1>1, <1>6, <1>9 DEF R

\* Managers change: what they are to send is the node's own.
ManagersChange(w, v, pd) ==
  /\ v \in Worlds /\ v.open = w.open /\ v.peers = w.peers
  /\ v.handshakePeers = w.handshakePeers /\ v.known = w.known /\ v.queue = w.queue
  /\ v.pool = w.pool /\ v.chain = w.chain /\ v.msgs = w.msgs
  /\ \A n \in Nodes :
       /\ v.mgrs[n] # << >> /\ DOMAIN w.mgrs[n] \subseteq DOMAIN v.mgrs[n]
       /\ \A g \in DOMAIN v.mgrs[n] : \A s \in v.mgrs[n][g].pending :
            n \in conns[s.c] /\ Settled(w, pd, n, s.c) /\ s.txs \subseteq w.pool[n]

\* A change of the managers keeps a world sound when their lists are of pooled
\* transactions and settled ends.
LEMMA ManagersLemma ==
    ASSUME ConnsOK, NEW pd, NEW X, NEW ch, NEW fs, NEW w, Sound(w, pd, X, ch, fs),
           NEW v, ManagersChange(w, v, pd)
    PROVE  Sound(v, pd, X, ch, fs)
  <1>0. w \in Worlds /\ v \in Worlds
    BY DEF Sound, ManagersChange
  <1>1. EndsOwn(v) /\ OneEach(v) /\ OneOpen(v, pd) /\ OfflineClosed(v)
    BY DEF Sound, EndsOwn, OneEach, OneOpen, OfflineClosed, ManagersChange
  <1>2. ContentsOwn(v, ch)
    <2>1. ASSUME NEW x \in v.msgs
          PROVE  /\ x.from \in conns[x.c]
                 /\ x.type = "txs" => x.content \subseteq v.pool[x.from]
                 /\ x.type \in {"block", "hash"} => x.content \in ch[x.from]
                 /\ x.mgr # 0 => x.type = "txs" /\ x.mgr \in DOMAIN v.mgrs[x.from]
      <3>1. x \in w.msgs /\ x.from \in Nodes /\ v.pool = w.pool
        BY <1>0 DEF ManagersChange, Worlds, Message
      <3>2. DOMAIN w.mgrs[x.from] \subseteq DOMAIN v.mgrs[x.from]
        BY <3>1 DEF ManagersChange
      <3>3. QED
        BY <3>1, <3>2 DEF Sound, ContentsOwn
    <2>2. \A n \in Nodes : \A g \in DOMAIN v.mgrs[n] : \A s \in v.mgrs[n][g].pending :
            s.txs \subseteq v.pool[n]
      BY DEF ManagersChange
    <2>3. QED
      BY <2>1, <2>2 DEF ContentsOwn
  <1>3. UsedSettled(v, pd)
    <2>1. \A n, c : Settled(w, pd, n, c) => Settled(v, pd, n, c)
      BY DEF Settled, ManagersChange
    <2>2. ASSUME NEW e \in AllEnds
          PROVE  /\ v.known[e] # NoMarks => Settled(v, pd, e[1], e[2])
                 /\ v.queue[e] # EmptyQueue => e \notin pd /\ e \notin v.open
      BY <2>1 DEF Sound, UsedSettled, ManagersChange
    <2>3. ASSUME NEW n \in Nodes
          PROVE  /\ \A c \in v.peers[n] \cup v.handshakePeers[n] : <<n, c>> \notin pd
                 /\ \A g \in DOMAIN v.mgrs[n] : \A s \in v.mgrs[n][g].pending : Settled(v, pd, n, s.c)
      BY <2>1 DEF Sound, UsedSettled, ManagersChange
    <2>4. QED
      BY <2>2, <2>3 DEF UsedSettled
  <1>4. TxMarksTrue(v, X) /\ BlockMarksTrue(v, X, fs) /\ Shaking(v, X)
    BY DEF Sound, TxMarksTrue, TxOnWay, BlockMarksTrue, BlockOnWay, Shaking, HasPeer, StatusOnWay, ManagersChange
  <1>5. QED
    BY <1>0, <1>1, <1>2, <1>3, <1>4 DEF Sound

\* No message of a manager is under way, and all is well with the others.
PackIdle(w, n, g) ==
  /\ \A x \in w.msgs : x.mgr # 0 =>
       /\ ~(x.from = n /\ x.mgr = g)
       /\ w.mgrs[x.from][x.mgr].sending /\ x.c = w.mgrs[x.from][x.mgr].pack
       /\ \A y \in w.msgs : y.from = x.from /\ y.mgr = x.mgr => y = x
  /\ \A k \in Nodes : \A h \in DOMAIN w.mgrs[k] : ~(k = n /\ h = g) =>
       /\ w.mgrs[k][h].pending # {} => w.mgrs[k][h].sending
       /\ w.mgrs[k][h].sending => \E x \in w.msgs : x.from = k /\ x.mgr = h

\* A manager of a node changes.
ManagerSet(w, v, n, g, m) ==
  /\ v \in Worlds /\ v.open = w.open /\ v.peers = w.peers
  /\ v.handshakePeers = w.handshakePeers /\ v.known = w.known /\ v.queue = w.queue
  /\ v.pool = w.pool /\ v.chain = w.chain /\ v.msgs = w.msgs
  /\ v.mgrs = [k \in Nodes |-> IF k = n THEN [w.mgrs[n] EXCEPT ![g] = m] ELSE w.mgrs[k]]

\* The manager's new list is the node's own, too.
LEMMA ManagerSetLemma ==
    ASSUME ConnsOK, NEW pd, NEW X, NEW ch, NEW fs, NEW w, Sound(w, pd, X, ch, fs),
           NEW n \in Nodes, NEW g \in DOMAIN w.mgrs[n], NEW m \in Manager,
           \A s \in m.pending :
             n \in conns[s.c] /\ Settled(w, pd, n, s.c) /\ s.txs \subseteq w.pool[n],
           NEW v, ManagerSet(w, v, n, g, m)
    PROVE  /\ Sound(v, pd, X, ch, fs)
           /\ \A k \in Nodes : DOMAIN v.mgrs[k] = DOMAIN w.mgrs[k]
           /\ \A k \in Nodes : \A h \in DOMAIN v.mgrs[k] :
                v.mgrs[k][h] = IF k = n /\ h = g THEN m ELSE w.mgrs[k][h]
  <1>0. w \in Worlds
    BY DEF Sound
  <1>1. \A k \in Nodes : w.mgrs[k] \in Seq(Manager)
    BY <1>0 DEF Worlds
  <1>2. ASSUME NEW k \in Nodes
        PROVE  /\ DOMAIN v.mgrs[k] = DOMAIN w.mgrs[k]
               /\ \A h \in DOMAIN v.mgrs[k] :
                    v.mgrs[k][h] = IF k = n /\ h = g THEN m ELSE w.mgrs[k][h]
    BY <1>1 DEF ManagerSet
  <1>3. ManagersChange(w, v, pd)
    <2>1. ASSUME NEW k \in Nodes
          PROVE  /\ v.mgrs[k] # << >> /\ DOMAIN w.mgrs[k] \subseteq DOMAIN v.mgrs[k]
                 /\ \A h \in DOMAIN v.mgrs[k] : \A s \in v.mgrs[k][h].pending :
                      k \in conns[s.c] /\ Settled(w, pd, k, s.c) /\ s.txs \subseteq w.pool[k]
      <3>1. w.mgrs[k] # << >>
        BY DEF Sound, EndsOwn
      <3>2. DOMAIN w.mgrs[k] # {}
        <4> DEFINE s == w.mgrs[k]
        <4>1. s \in Seq(Manager) /\ s # << >>
          BY <1>1, <3>1
        <4> HIDE DEF s
        <4>2. Len(s) \in Nat /\ Len(s) # 0 /\ DOMAIN s = 1 .. Len(s)
          BY <4>1, EmptySeq, LenProperties
        <4>3. 1 \in DOMAIN s
          BY <4>2
        <4>4. QED
          BY <4>3 DEF s
      <3>3. v.mgrs[k] # << >>
        BY <1>2, <3>2
      <3>4. ASSUME NEW h \in DOMAIN v.mgrs[k], NEW s \in v.mgrs[k][h].pending
            PROVE  k \in conns[s.c] /\ Settled(w, pd, k, s.c) /\ s.txs \subseteq w.pool[k]
        <4>1. CASE k = n /\ h = g
          BY <1>2, <4>1
        <4>2. CASE ~(k = n /\ h = g)
          <5>1. h \in DOMAIN w.mgrs[k] /\ s \in w.mgrs[k][h].pending
            BY <1>2, <4>2
          <5>2. QED
            BY <5>1 DEF Sound, EndsOwn, UsedSettled, ContentsOwn
        <4>3. QED
          BY <4>1, <4>2
      <3>5. QED
        BY <1>2, <3>3, <3>4
    <2>2. QED
      BY <2>1 DEF ManagersChange, ManagerSet
  <1>4. Sound(v, pd, X, ch, fs)
    BY <1>3, ManagersLemma
  <1>5. QED
    BY <1>2, <1>4

\* One manager changes.
WithManager(w, n, g, m) == [w EXCEPT !.mgrs[n][g] = m]

\* What changes then.
LEMMA WithManagerLemma ==
    ASSUME NEW w \in Worlds, NEW n \in Nodes, NEW g \in DOMAIN w.mgrs[n], NEW m \in Manager
    PROVE  /\ ManagerSet(w, WithManager(w, n, g, m), n, g, m)
           /\ WithManager(w, n, g, m).forgotten = w.forgotten
  <1> DEFINE v == WithManager(w, n, g, m)
             s == [w.mgrs[n] EXCEPT ![g] = m]
             ms == [w.mgrs EXCEPT ![n] = s]
  <1>1. v = [w EXCEPT !.mgrs = ms]
    BY DEF WithManager
  <1>2. w.mgrs \in [Nodes -> Seq(Manager)] /\ w.mgrs[n] \in Seq(Manager)
    BY DEF Worlds
  <1>3. s \in Seq(Manager)
    <2> DEFINE l == w.mgrs[n]
    <2>1. l \in Seq(Manager) /\ g \in DOMAIN l
      BY <1>2
    <2> HIDE DEF l
    <2>2. [l EXCEPT ![g] = m] \in Seq(Manager)
      BY <2>1
    <2>3. QED
      BY <2>2 DEF l
  <1> HIDE DEF s
  <1>4. ms \in [Nodes -> Seq(Manager)] /\ ms = [k \in Nodes |-> IF k = n THEN s ELSE w.mgrs[k]]
    BY <1>2, <1>3
  <1> HIDE DEF v, ms
  <1>5. /\ v \in Worlds /\ v.open = w.open /\ v.peers = w.peers
        /\ v.handshakePeers = w.handshakePeers /\ v.known = w.known /\ v.queue = w.queue
        /\ v.pool = w.pool /\ v.chain = w.chain /\ v.msgs = w.msgs /\ v.mgrs = ms
        /\ v.forgotten = w.forgotten
    BY <1>1, <1>4 DEF Worlds
  <1>6. QED
    BY <1>4, <1>5 DEF ManagerSet, s, v

\* What waits in a manager's list is the node's own.
LEMMA PendingLemma ==
    ASSUME ConnsOK, NEW pd, NEW X, NEW ch, NEW fs, NEW w, Sound(w, pd, X, ch, fs),
           NEW n \in Nodes, NEW g \in DOMAIN w.mgrs[n]
    PROVE  /\ w.mgrs[n] \in Seq(Manager) /\ w.mgrs[n][g] \in Manager
           /\ g \in Nat \ {0} /\ w.mgrs[n][g].pending \subseteq Waiting
           /\ \A s \in w.mgrs[n][g].pending :
                /\ n \in conns[s.c] /\ Settled(w, pd, n, s.c) /\ s.txs \subseteq w.pool[n]
                /\ s \in Waiting /\ <<n, s.c>> \in AllEnds
  <1>1. w.mgrs[n] \in Seq(Manager)
    BY DEF Sound, Worlds
  <1>2. w.mgrs[n][g] \in Manager /\ g \in Nat \ {0}
    <2> DEFINE l == w.mgrs[n]
    <2>1. l \in Seq(Manager) /\ g \in DOMAIN l
      BY <1>1
    <2> HIDE DEF l
    <2>2. l[g] \in Manager /\ g \in Nat \ {0}
      BY <2>1
    <2>3. QED
      BY <2>2 DEF l
  <1>3. w.mgrs[n][g].pending \subseteq Waiting
    BY <1>2 DEF Manager
  <1>4. ASSUME NEW s \in w.mgrs[n][g].pending
        PROVE  /\ n \in conns[s.c] /\ Settled(w, pd, n, s.c) /\ s.txs \subseteq w.pool[n]
               /\ s \in Waiting /\ <<n, s.c>> \in AllEnds
    <2>1. n \in conns[s.c] /\ Settled(w, pd, n, s.c) /\ s.txs \subseteq w.pool[n]
      BY DEF Sound, EndsOwn, UsedSettled, ContentsOwn
    <2>2. s \in Waiting
      BY <1>3
    <2>3. s.c \in DOMAIN conns
      BY <2>2 DEF Waiting
    <2>4. QED
      BY <2>1, <2>2, <2>3 DEF AllEnds
  <1>5. QED
    BY <1>1, <1>2, <1>3, <1>4

\* What a manager does leaves pool and chain alone, and all of its lists are kept
\* until they are sent.
Manages(w, v) ==
  /\ v.pool = w.pool /\ v.chain = w.chain
  /\ PackSent(v, {})
  /\ \A pl : PoolOffered(w, pl) => PoolOffered(v, pl)

\* SendPack from a node that is offline: all of those that wait are closed.
LEMMA SendPackOffline ==
    ASSUME ConnsOK, NEW pd, NEW X, NEW ch, NEW fs, NEW w, Sound(w, pd, X, ch, fs),
           NEW n \in Nodes, NEW g \in DOMAIN w.mgrs[n], NEW s \in w.mgrs[n][g].pending,
           PackIdle(w, n, g), ~online[n]
    PROVE  Sound(SendPack(w, n, g, s), pd, X, ch, fs) /\ Manages(w, SendPack(w, n, g, s))
  <1> DEFINE m == w.mgrs[n][g]
             k == [m EXCEPT !.pending = {}, !.sending = FALSE]
             u == WithManager(w, n, g, k)
             v == CloseWaiting(u, n, m.pending \cup {s})
  <1>0. w \in Worlds
    BY DEF Sound
  <1>1. SendPack(w, n, g, s) = v
    BY DEF SendPack, CloseWaiting, WithManager
  <1>2. /\ m \in Manager /\ g \in Nat \ {0} /\ m.pending \subseteq Waiting
        /\ \A r \in m.pending : <<n, r.c>> \in AllEnds
    BY PendingLemma
  <1>3. k \in Manager /\ k.pending = {} /\ k.sending = FALSE
    BY <1>2 DEF Manager
  <1> HIDE DEF k
  <1>4. ManagerSet(w, u, n, g, k) /\ u.forgotten = w.forgotten
    BY <1>0, <1>3, WithManagerLemma
  <1> HIDE DEF u
  <1>5. /\ Sound(u, pd, X, ch, fs)
        /\ \A i \in Nodes : DOMAIN u.mgrs[i] = DOMAIN w.mgrs[i]
        /\ \A i \in Nodes : \A h \in DOMAIN u.mgrs[i] :
             u.mgrs[i][h] = IF i = n /\ h = g THEN k ELSE w.mgrs[i][h]
    BY <1>3, <1>4, ManagerSetLemma
  <1>6. IsFiniteSet(m.pending \cup {s}) /\ \A t \in m.pending \cup {s} : <<n, t.c>> \in AllEnds
    <2>1. m.pending \cup {s} = m.pending
      OBVIOUS
    <2> HIDE DEF m
    <2>2. QED
      BY <1>2, <2>1, FiniteLemma
  <1> HIDE DEF m
  <1>7. v \in Reached(u, pd, X, ch, fs)
    BY <1>5, <1>6, CloseWaitingLemma
  <1> HIDE DEF v
  <1>8. Sound(v, pd, X, ch, fs) /\ Grows(u, v)
    BY <1>7 DEF Reached
  <1>9. PackSent(u, {})
    <2>1. ASSUME NEW x \in u.msgs \cup {}, x.mgr # 0
          PROVE  /\ u.mgrs[x.from][x.mgr].sending /\ x.c = u.mgrs[x.from][x.mgr].pack
                 /\ \A y \in u.msgs \cup {} : y.from = x.from /\ y.mgr = x.mgr => y = x
      <3>1. u.msgs = w.msgs /\ x \in w.msgs
        BY <1>4 DEF ManagerSet
      <3>2. x.from \in Nodes /\ x.mgr \in DOMAIN w.mgrs[x.from]
        BY <1>0, <2>1, <3>1 DEF Worlds, Message, Sound, ContentsOwn
      <3>3. /\ ~(x.from = n /\ x.mgr = g)
            /\ w.mgrs[x.from][x.mgr].sending /\ x.c = w.mgrs[x.from][x.mgr].pack
            /\ \A y \in w.msgs : y.from = x.from /\ y.mgr = x.mgr => y = x
        BY <2>1, <3>1 DEF PackIdle
      <3>4. u.mgrs[x.from][x.mgr] = w.mgrs[x.from][x.mgr]
        BY <1>5, <3>2, <3>3
      <3>5. QED
        BY <3>1, <3>3, <3>4
    <2>2. ASSUME NEW i \in Nodes, NEW h \in DOMAIN u.mgrs[i]
          PROVE  /\ u.mgrs[i][h].pending # {} => u.mgrs[i][h].sending
                 /\ u.mgrs[i][h].sending => \E x \in u.msgs \cup {} : x.from = i /\ x.mgr = h
      <3>1. CASE i = n /\ h = g
        BY <1>3, <1>5, <3>1
      <3>2. CASE ~(i = n /\ h = g)
        <4>1. u.mgrs[i][h] = w.mgrs[i][h] /\ h \in DOMAIN w.mgrs[i] /\ u.msgs = w.msgs
          BY <1>4, <1>5, <3>2 DEF ManagerSet
        <4>2. QED
          BY <3>2, <4>1 DEF PackIdle
      <3>3. QED
        BY <3>1, <3>2
    <2>3. QED
      BY <2>1, <2>2 DEF PackSent
  <1>10. ASSUME NEW pl, PoolOffered(w, pl) PROVE PoolOffered(u, pl)
    <2> SUFFICES ASSUME NEW i \in Nodes, NEW c \in u.peers[i] \ u.forgotten, <<i, c>> \in u.open,
                        NEW t \in pl[i]
                 PROVE  t \in u.known[<<i, c>>].txs \/ ToSend(u, i, c, t)
      BY DEF PoolOffered
    <2>1. i # n
      BY <1>5 DEF Sound, OfflineClosed
    <2>2. /\ c \in w.peers[i] \ w.forgotten /\ <<i, c>> \in w.open /\ u.known = w.known
          /\ u.mgrs[i] = w.mgrs[i]
      BY <1>4, <2>1 DEF ManagerSet
    <2>3. t \in w.known[<<i, c>>].txs \/ ToSend(w, i, c, t)
      BY <1>10, <2>2 DEF PoolOffered
    <2>4. QED
      BY <2>2, <2>3 DEF ToSend
  <1>11. Follows(u, v)
    BY <1>8, GrowsFollows
  <1>12. PackSent(v, {})
    BY <1>9, <1>11, PackFollows
  <1>13. ASSUME NEW pl, PoolOffered(w, pl) PROVE PoolOffered(v, pl)
    <2>1. u \in Worlds /\ EndsOwn(u)
      BY <1>5 DEF Sound
    <2>2. PoolOffered(u, pl)
      BY <1>10, <1>13
    <2>3. QED
      BY <1>11, <2>1, <2>2, OfferedFollows
  <1>14. v.pool = w.pool /\ v.chain = w.chain
    BY <1>4, <1>8 DEF Grows, SameLists, ManagerSet
  <1>15. QED
    BY <1>1, <1>8, <1>12, <1>13, <1>14 DEF Manages

\* The pack taken from a list, what is left of the list, and the world with the
\* message that carries the pack.
PackOf(s) == CHOOSE T \in SUBSET s.txs : Cardinality(T) = Min({PackSize, Cardinality(s.txs)})
Left(s) == IF PackOf(s) = s.txs THEN {} ELSE {[s EXCEPT !.txs = @ \ PackOf(s)]}
WithMessage(w, e, txs, x) == [w EXCEPT !.known[e].txs = @ \cup txs, !.msgs = @ \cup {x}]

\* A message with transactions left an end, which marks them.
MessageSent(w, v, e, txs, x) ==
  /\ v \in Worlds /\ SameLists(w, v) /\ v.open = w.open /\ v.peers = w.peers
  /\ v.queue = w.queue /\ v.msgs = w.msgs \cup {x}
  /\ \A f \in AllEnds : f # e => v.known[f] = w.known[f]
  /\ v.known[e].txs = w.known[e].txs \cup txs /\ v.known[e].blocks = w.known[e].blocks

\* What changes then.
LEMMA WithMessageLemma ==
    ASSUME NEW w \in Worlds, NEW e \in AllEnds, NEW txs \in SUBSET Txs, NEW x \in Message,
           NEW v, v = WithMessage(w, e, txs, x)
    PROVE  MessageSent(w, v, e, txs, x)
  <1> USE DEF MessageSent
  <1> DEFINE k == [w.known[e] EXCEPT !.txs = @ \cup txs]
             u == [w EXCEPT !.known[e] = k]
  <1>1. v = [u EXCEPT !.msgs = @ \cup {x}]
    BY DEF WithMessage
  <1>2. w.known \in [AllEnds -> Marks]
    BY DEF Worlds
  <1>3. k \in Marks /\ k.txs = w.known[e].txs \cup txs /\ k.blocks = w.known[e].blocks
    BY <1>2 DEF Marks
  <1> HIDE DEF k
  <1>4. /\ u \in Worlds /\ u.open = w.open /\ u.peers = w.peers /\ u.msgs = w.msgs
        /\ SameLists(w, u) /\ u.queue = w.queue /\ u.known = [w.known EXCEPT ![e] = k]
    BY <1>3 DEF Worlds, SameLists
  <1> HIDE DEF u
  <1>5. /\ v \in Worlds /\ v.open = u.open /\ v.peers = u.peers /\ v.msgs = u.msgs \cup {x}
        /\ SameLists(u, v) /\ v.known = u.known /\ v.queue = u.queue
    <2>1. u \in Worlds
      BY <1>4
    <2>2. u.msgs \cup {x} \in SUBSET Message
      BY <2>1 DEF Worlds
    <2> DEFINE ms == u.msgs \cup {x}
    <2> HIDE DEF ms
    <2>3. v = [u EXCEPT !.msgs = ms]
      BY <1>1 DEF ms
    <2>4. ms \in SUBSET Message
      BY <2>2 DEF ms
    <2>5. /\ v \in Worlds /\ v.open = u.open /\ v.peers = u.peers /\ v.msgs = ms
          /\ SameLists(u, v) /\ v.known = u.known /\ v.queue = u.queue
      BY <2>1, <2>3, <2>4 DEF Worlds, SameLists
    <2>6. QED
      BY <2>5 DEF ms
  <1>6. \A f \in AllEnds : v.known[f] = IF f = e THEN k ELSE w.known[f]
    BY <1>2, <1>4, <1>5
  <1>7. SameLists(w, v)
    BY <1>4, <1>5 DEF SameLists
  <1>8. QED
    BY <1>3, <1>4, <1>5, <1>6, <1>7

\* SendPack from a node that is online: the pack is marked and under way.
LEMMA SendPackOnline ==
    ASSUME ConnsOK, NEW pd, NEW X, NEW ch, NEW fs, NEW w, Sound(w, pd, X, ch, fs),
           NEW n \in Nodes, NEW g \in DOMAIN w.mgrs[n], NEW s \in w.mgrs[n][g].pending,
           PackIdle(w, n, g), online[n]
    PROVE  Sound(SendPack(w, n, g, s), pd, X, ch, fs) /\ Manages(w, SendPack(w, n, g, s))
  <1> DEFINE m == w.mgrs[n][g]
             txs == PackOf(s)
             k == [pending |-> (m.pending \ {s}) \cup Left(s), sending |-> TRUE, pack |-> s.c]
             u == WithManager(w, n, g, k)
             x == Msg(n, s.c, "txs", txs, g)
             e == <<n, s.c>>
             v == WithMessage(u, e, txs, x)
  <1>0. w \in Worlds
    BY DEF Sound
  <1>1. SendPack(w, n, g, s) = v
    BY <1>0 DEF SendPack, PackOf, Left, WithManager, WithMessage
  <1>2. /\ m \in Manager /\ g \in Nat \ {0} /\ m.pending \subseteq Waiting
        /\ \A r \in m.pending : n \in conns[r.c] /\ Settled(w, pd, n, r.c) /\ r.txs \subseteq w.pool[n]
        /\ s \in Waiting /\ e \in AllEnds
    BY PendingLemma
  <1>3. txs \in SUBSET s.txs /\ txs \in SUBSET Txs /\ s.c \in DOMAIN conns /\ s.txs \in SUBSET Txs
    <2>1. s.txs \in SUBSET Txs /\ s.c \in DOMAIN conns
      BY <1>2 DEF Waiting
    <2>2. \E T \in SUBSET s.txs : Cardinality(T) = Min({PackSize, Cardinality(s.txs)})
      BY <2>1, PackLemma
    <2>3. txs \in SUBSET s.txs
      BY <2>2 DEF PackOf
    <2>4. QED
      BY <2>1, <2>3
  <1>4. \A r \in Left(s) : /\ r \in Waiting /\ r.c = s.c /\ r.txs = s.txs \ txs
                           /\ r.txs \subseteq s.txs
    BY <1>2, <1>3 DEF Left, Waiting
  <1>4a. txs # s.txs => \E r \in Left(s) : r.c = s.c /\ r.txs = s.txs \ txs
    BY <1>2, <1>3 DEF Left, Waiting
  <1> HIDE DEF txs
  <1>5. k \in Manager /\ k.sending /\ k.pack = s.c /\ k.pending = (m.pending \ {s}) \cup Left(s)
    <2>1. s.c \in Nat
      BY <1>3 DEF ConnsOK
    <2>2. (m.pending \ {s}) \cup Left(s) \in SUBSET Waiting
      BY <1>2, <1>4
    <2>3. QED
      BY <2>1, <2>2 DEF Manager
  <1> HIDE DEF k
  <1>6. \A r \in k.pending : n \in conns[r.c] /\ Settled(w, pd, n, r.c) /\ r.txs \subseteq w.pool[n]
    BY <1>2, <1>4, <1>5
  <1>7. ManagerSet(w, u, n, g, k) /\ u.forgotten = w.forgotten
    BY <1>0, <1>5, WithManagerLemma
  <1> HIDE DEF u
  <1>8. /\ Sound(u, pd, X, ch, fs)
        /\ \A i \in Nodes : DOMAIN u.mgrs[i] = DOMAIN w.mgrs[i]
        /\ \A i \in Nodes : \A h \in DOMAIN u.mgrs[i] :
             u.mgrs[i][h] = IF i = n /\ h = g THEN k ELSE w.mgrs[i][h]
    BY <1>5, <1>6, <1>7, ManagerSetLemma
  <1>9. /\ x \in Message /\ x.from = n /\ x.c = s.c /\ x.type = "txs" /\ x.content = txs
        /\ x.mgr = g
    BY <1>2, <1>3 DEF Msg, Message
  <1>10. u \in Worlds
    BY <1>8 DEF Sound
  <1> HIDE DEF x, v
  <1>11. /\ v \in Worlds /\ SameLists(u, v) /\ v.open = u.open /\ v.peers = u.peers
         /\ v.queue = u.queue /\ v.msgs = u.msgs \cup {x}
         /\ \A f \in AllEnds : f # e => v.known[f] = u.known[f]
         /\ v.known[e].txs = u.known[e].txs \cup txs /\ v.known[e].blocks = u.known[e].blocks
    <2>1. e \in AllEnds
      BY <1>2
    <2> HIDE DEF e
    <2>2. v = WithMessage(u, e, txs, x) /\ u \in Worlds /\ txs \in SUBSET Txs /\ x \in Message
      BY <1>3, <1>9, <1>10 DEF v
    <2>3. MessageSent(u, v, e, txs, x)
      BY <2>1, <2>2, WithMessageLemma
    <2>4. QED
      BY <2>3 DEF MessageSent
  <1>12. Sound(v, pd, X, ch, fs)
    <2>1. Settled(u, pd, n, s.c)
      BY <1>2, <1>7 DEF Settled, ManagerSet
    <2>2. MaySend(u, ch, n, s.c, x)
      BY <1>2, <1>3, <1>7, <1>8, <1>9 DEF MaySend, ManagerSet
    <2>3. SentMarked(u, v, n, s.c, x)
      BY <1>9, <1>11 DEF SentMarked
    <2>4. QED
      BY <1>2, <1>8, <1>11, <2>1, <2>2, <2>3, SentLemma
  <1>13. v.mgrs = u.mgrs /\ v.msgs = w.msgs \cup {x}
    BY <1>7, <1>11 DEF SameLists, ManagerSet
  <1>14. PackSent(v, {})
    <2>1. ASSUME NEW y \in v.msgs \cup {}, y.mgr # 0
          PROVE  /\ v.mgrs[y.from][y.mgr].sending /\ y.c = v.mgrs[y.from][y.mgr].pack
                 /\ \A z \in v.msgs \cup {} : z.from = y.from /\ z.mgr = y.mgr => z = y
      <3>1. CASE y = x
        <4>1. v.mgrs[n][g] = k
          BY <1>8, <1>13
        <4>2. \A z \in w.msgs : ~(z.from = n /\ z.mgr = g)
          BY <1>2 DEF PackIdle
        <4>3. QED
          BY <1>5, <1>9, <1>13, <3>1, <4>1, <4>2
      <3>2. CASE y # x
        <4>1. y \in w.msgs
          BY <1>13, <3>2
        <4>2. y.from \in Nodes /\ y.mgr \in DOMAIN w.mgrs[y.from]
          BY <1>0, <2>1, <4>1 DEF Worlds, Message, Sound, ContentsOwn
        <4>3. /\ ~(y.from = n /\ y.mgr = g)
              /\ w.mgrs[y.from][y.mgr].sending /\ y.c = w.mgrs[y.from][y.mgr].pack
              /\ \A z \in w.msgs : z.from = y.from /\ z.mgr = y.mgr => z = y
          BY <2>1, <4>1 DEF PackIdle
        <4>4. v.mgrs[y.from][y.mgr] = w.mgrs[y.from][y.mgr]
          BY <1>8, <1>13, <4>2, <4>3
        <4>5. QED
          BY <1>9, <1>13, <4>3, <4>4
      <3>3. QED
        BY <3>1, <3>2
    <2>2. ASSUME NEW i \in Nodes, NEW h \in DOMAIN v.mgrs[i]
          PROVE  /\ v.mgrs[i][h].pending # {} => v.mgrs[i][h].sending
                 /\ v.mgrs[i][h].sending => \E y \in v.msgs \cup {} : y.from = i /\ y.mgr = h
      <3>1. CASE i = n /\ h = g
        BY <1>5, <1>8, <1>9, <1>13, <3>1
      <3>2. CASE ~(i = n /\ h = g)
        <4>1. v.mgrs[i][h] = w.mgrs[i][h] /\ h \in DOMAIN w.mgrs[i]
          BY <1>8, <1>13, <3>2
        <4>2. QED
          BY <1>13, <3>2, <4>1 DEF PackIdle
      <3>3. QED
        BY <3>1, <3>2
    <2>3. QED
      BY <2>1, <2>2 DEF PackSent
  <1>15. ASSUME NEW pl, PoolOffered(w, pl) PROVE PoolOffered(v, pl)
    <2> SUFFICES ASSUME NEW i \in Nodes, NEW c \in v.peers[i] \ v.forgotten, <<i, c>> \in v.open,
                        NEW t \in pl[i]
                 PROVE  t \in v.known[<<i, c>>].txs \/ ToSend(v, i, c, t)
      BY DEF PoolOffered
    <2>1. /\ c \in w.peers[i] \ w.forgotten /\ <<i, c>> \in w.open /\ u.known = w.known
      BY <1>7, <1>11 DEF ManagerSet, SameLists
    <2>2. t \in w.known[<<i, c>>].txs \/ ToSend(w, i, c, t)
      BY <1>15, <2>1 DEF PoolOffered
    <2>3. CASE t \in w.known[<<i, c>>].txs
      <3>1. <<i, c>> \in AllEnds
        BY <1>0, <2>1 DEF Worlds
      <3>2. w.known[<<i, c>>].txs \subseteq v.known[<<i, c>>].txs
        BY <1>11, <2>1, <3>1
      <3>3. QED
        BY <2>3, <3>2
    <2>4. CASE ToSend(w, i, c, t)
      <3>1. PICK h \in DOMAIN w.mgrs[i] : \E r \in w.mgrs[i][h].pending : r.c = c /\ t \in r.txs
        BY <2>4 DEF ToSend
      <3>2. PICK r \in w.mgrs[i][h].pending : r.c = c /\ t \in r.txs
        BY <3>1
      <3>3. h \in DOMAIN v.mgrs[i] /\ v.mgrs[i][h] = IF i = n /\ h = g THEN k ELSE w.mgrs[i][h]
        BY <1>8, <1>13
      <3>4. CASE ~(i = n /\ h = g)
        BY <3>2, <3>3, <3>4 DEF ToSend
      <3>5. CASE i = n /\ h = g /\ r # s
        BY <1>5, <3>2, <3>3, <3>5 DEF ToSend
      <3>6. CASE i = n /\ h = g /\ r = s /\ t \in txs
        BY <1>11, <3>2, <3>6
      <3>7. CASE i = n /\ h = g /\ r = s /\ t \notin txs
        <4>1. PICK l \in Left(s) : l.c = s.c /\ l.txs = s.txs \ txs
          BY <1>4a, <3>2, <3>7
        <4>2. l \in v.mgrs[i][h].pending /\ l.c = c /\ t \in l.txs
          BY <1>5, <3>2, <3>3, <3>7, <4>1
        <4>3. QED
          BY <3>3, <4>2 DEF ToSend
      <3>8. QED
        BY <3>4, <3>5, <3>6, <3>7
    <2>5. QED
      BY <2>2, <2>3, <2>4
  <1>16. v.pool = w.pool /\ v.chain = w.chain
    BY <1>7, <1>11 DEF SameLists, ManagerSet
  <1>17. QED
    BY <1>1, <1>12, <1>14, <1>15, <1>16 DEF Manages

\* SendPack of a manager with nothing under way, online or not.
LEMMA SendPackLemma ==
    ASSUME ConnsOK, NEW pd, NEW X, NEW ch, NEW fs, NEW w, Sound(w, pd, X, ch, fs),
           NEW n \in Nodes, NEW g \in DOMAIN w.mgrs[n], NEW s \in w.mgrs[n][g].pending,
           PackIdle(w, n, g)
    PROVE  Sound(SendPack(w, n, g, s), pd, X, ch, fs) /\ Manages(w, SendPack(w, n, g, s))
  <1>1. CASE online[n]
    BY <1>1, SendPackOnline
  <1>2. CASE ~online[n]
    BY <1>2, SendPackOffline
  <1>3. QED
    BY <1>1, <1>2

\* A manager without a message stays so when it changes, and when others send.
LEMMA IdleSet ==
    ASSUME NEW pd, NEW X, NEW ch, NEW fs, NEW w, Sound(w, pd, X, ch, fs),
           NEW n \in Nodes, NEW g \in DOMAIN w.mgrs[n], PackIdle(w, n, g),
           NEW m, NEW v, ManagerSet(w, v, n, g, m),
           \A i \in Nodes : DOMAIN v.mgrs[i] = DOMAIN w.mgrs[i],
           \A i \in Nodes : \A h \in DOMAIN v.mgrs[i] :
             v.mgrs[i][h] = IF i = n /\ h = g THEN m ELSE w.mgrs[i][h]
    PROVE  PackIdle(v, n, g)
  <1>0. w \in Worlds /\ v.msgs = w.msgs
    BY DEF Sound, ManagerSet
  <1>1. ASSUME NEW x \in v.msgs, x.mgr # 0
        PROVE  /\ ~(x.from = n /\ x.mgr = g)
               /\ v.mgrs[x.from][x.mgr].sending /\ x.c = v.mgrs[x.from][x.mgr].pack
               /\ \A y \in v.msgs : y.from = x.from /\ y.mgr = x.mgr => y = x
    <2>1. x \in w.msgs /\ x.from \in Nodes /\ x.mgr \in DOMAIN w.mgrs[x.from]
      BY <1>0, <1>1 DEF Worlds, Message, Sound, ContentsOwn
    <2>2. /\ ~(x.from = n /\ x.mgr = g)
          /\ w.mgrs[x.from][x.mgr].sending /\ x.c = w.mgrs[x.from][x.mgr].pack
          /\ \A y \in w.msgs : y.from = x.from /\ y.mgr = x.mgr => y = x
      BY <1>1, <2>1 DEF PackIdle
    <2>3. v.mgrs[x.from][x.mgr] = w.mgrs[x.from][x.mgr]
      BY <2>1, <2>2
    <2>4. QED
      BY <1>0, <2>2, <2>3
  <1>2. ASSUME NEW i \in Nodes, NEW h \in DOMAIN v.mgrs[i], ~(i = n /\ h = g)
        PROVE  /\ v.mgrs[i][h].pending # {} => v.mgrs[i][h].sending
               /\ v.mgrs[i][h].sending => \E x \in v.msgs : x.from = i /\ x.mgr = h
    <2>1. v.mgrs[i][h] = w.mgrs[i][h] /\ h \in DOMAIN w.mgrs[i]
      BY <1>2
    <2>2. QED
      BY <1>0, <1>2, <2>1 DEF PackIdle
  <1>3. QED
    BY <1>1, <1>2 DEF PackIdle

\* A manager with nothing under way stays so.
LEMMA IdleFollows ==
    ASSUME NEW w, NEW v, Follows(w, v), NEW n, NEW g, PackIdle(w, n, g)
    PROVE  PackIdle(v, n, g)
  <1>1. \A x \in v.msgs : x.mgr # 0 => x \in w.msgs
    BY DEF Follows
  <1>2. v.mgrs = w.mgrs /\ w.msgs \subseteq v.msgs
    BY DEF Follows
  <1>3. ASSUME NEW x \in v.msgs, x.mgr # 0
        PROVE  /\ ~(x.from = n /\ x.mgr = g)
               /\ v.mgrs[x.from][x.mgr].sending /\ x.c = v.mgrs[x.from][x.mgr].pack
               /\ \A y \in v.msgs : y.from = x.from /\ y.mgr = x.mgr => y = x
    BY <1>1, <1>2, <1>3 DEF PackIdle
  <1>4. ASSUME NEW k \in Nodes, NEW h \in DOMAIN v.mgrs[k], ~(k = n /\ h = g)
        PROVE  /\ v.mgrs[k][h].pending # {} => v.mgrs[k][h].sending
               /\ v.mgrs[k][h].sending => \E x \in v.msgs : x.from = k /\ x.mgr = h
    BY <1>2, <1>4 DEF PackIdle
  <1>5. QED
    BY <1>3, <1>4 DEF PackIdle

\* A manager that waits for nothing, and has nobody waiting.
LEMMA IdleSent ==
    ASSUME NEW w, NEW n, NEW g, PackIdle(w, n, g),
           w.mgrs[n][g].pending = {}, w.mgrs[n][g].sending = FALSE
    PROVE  PackSent(w, {})
  BY DEF PackIdle, PackSent

(***************************************************************************)
(* The listener of a pack: the pack's message is gone, and if it failed    *)
(* its end is closed.                                                      *)
(***************************************************************************)
LEMMA ListenerLemma ==
    ASSUME ConnsOK, NEW pd, NEW ch, NEW fs, NEW w, Sound(w, pd, {}, ch, fs),
           NEW n \in Nodes, NEW g \in DOMAIN w.mgrs[n], PackIdle(w, n, g),
           NEW err, err => <<n, w.mgrs[n][g].pack>> \notin w.open,
           NEW pick \in Picks(w, n, g, err), NEW v, v = Listener(w, n, g, err, pick),
           NEW pl, PoolOffered(w, pl)
    PROVE  /\ Sound(v, pd, {}, ch, fs) /\ PackSent(v, {}) /\ PoolOffered(v, pl)
           /\ v.pool = w.pool /\ v.chain = w.chain
  <1> DEFINE m == w.mgrs[n][g]
             failed == {s \in m.pending : err /\ Remote(n, s.c) = Remote(n, m.pack)}
             rest == m.pending \ failed
             k == [m EXCEPT !.sending = FALSE, !.pending = @ \ failed]
             gone == {s.c : s \in failed} \ {m.pack}
             u == WithManager(w, n, g, k)
             w1 == [u EXCEPT !.forgotten = @ \cup gone]
             some == pick \cap rest
  <1>0. w \in Worlds
    BY DEF Sound
  <1>1. v = IF some = {} THEN w1 ELSE SendPack(w1, n, g, CHOOSE s \in some : TRUE)
    BY <1>0 DEF Listener, WithManager
  <1>2. /\ m \in Manager /\ g \in Nat \ {0} /\ m.pending \subseteq Waiting
        /\ \A r \in m.pending : n \in conns[r.c] /\ Settled(w, pd, n, r.c) /\ r.txs \subseteq w.pool[n]
    BY PendingLemma
  <1>3. (pick = rest /\ rest = {}) \/ \E s \in rest : pick = {s}
    <2>1. rest = {s \in m.pending : ~(err /\ Remote(n, s.c) = Remote(n, m.pack))}
      OBVIOUS
    <2>2. pick \in IF rest = {} THEN {{}} ELSE {{s} : s \in rest}
      BY <2>1 DEF Picks
    <2> HIDE DEF rest
    <2>3. QED
      BY <2>2
  <1>4. k \in Manager /\ k.sending = FALSE /\ k.pending = rest /\ rest \subseteq m.pending
    BY <1>2 DEF Manager
  <1>5. gone \subseteq DOMAIN conns
    BY <1>2 DEF Waiting
  <1>5a. \A s \in failed : err /\ s \in m.pending /\ (s.c = m.pack \/ s.c \in gone)
    OBVIOUS
  <1>5b. \A s \in m.pending : s \in failed \/ s \in rest
    OBVIOUS
  <1>5c. err => <<n, m.pack>> \notin w.open
    OBVIOUS
  <1> HIDE DEF k, failed, rest, gone
  <1>6. ManagerSet(w, u, n, g, k) /\ u.forgotten = w.forgotten /\ u \in Worlds
    BY <1>0, <1>4, WithManagerLemma DEF ManagerSet
  <1> HIDE DEF u
  <1>7. ManagerSet(w, w1, n, g, k) /\ w1.forgotten = w.forgotten \cup gone
    BY <1>5, <1>6 DEF ManagerSet, Worlds
  <1> HIDE DEF w1, m
  <1>8. /\ Sound(w1, pd, {}, ch, fs)
        /\ \A i \in Nodes : DOMAIN w1.mgrs[i] = DOMAIN w.mgrs[i]
        /\ \A i \in Nodes : \A h \in DOMAIN w1.mgrs[i] :
             w1.mgrs[i][h] = IF i = n /\ h = g THEN k ELSE w.mgrs[i][h]
    <2>1. \A r \in k.pending : n \in conns[r.c] /\ Settled(w, pd, n, r.c) /\ r.txs \subseteq w.pool[n]
      BY <1>2, <1>4
    <2>2. QED
      BY <1>4, <1>7, <2>1, ManagerSetLemma
  <1>9. PackIdle(w1, n, g)
    BY <1>7, <1>8, IdleSet
  <1>10. PoolOffered(w1, pl)
    <2> SUFFICES ASSUME NEW i \in Nodes, NEW c \in w1.peers[i] \ w1.forgotten,
                        <<i, c>> \in w1.open, NEW t \in pl[i]
                 PROVE  t \in w1.known[<<i, c>>].txs \/ ToSend(w1, i, c, t)
      BY DEF PoolOffered
    <2>1. /\ c \in w.peers[i] \ w.forgotten /\ <<i, c>> \in w.open /\ w1.known = w.known
          /\ c \notin gone
      BY <1>7 DEF ManagerSet
    <2>2. t \in w.known[<<i, c>>].txs \/ ToSend(w, i, c, t)
      BY <2>1 DEF PoolOffered
    <2>3. CASE ToSend(w, i, c, t)
      <3>1. PICK h \in DOMAIN w.mgrs[i] : \E r \in w.mgrs[i][h].pending : r.c = c /\ t \in r.txs
        BY <2>3 DEF ToSend
      <3>2. PICK r \in w.mgrs[i][h].pending : r.c = c /\ t \in r.txs
        BY <3>1
      <3>3. h \in DOMAIN w1.mgrs[i] /\ w1.mgrs[i][h] = IF i = n /\ h = g THEN k ELSE w.mgrs[i][h]
        BY <1>8
      <3>4. CASE ~(i = n /\ h = g)
        BY <3>2, <3>3, <3>4 DEF ToSend
      <3>5. CASE i = n /\ h = g
        <4>1. r \in m.pending
          BY <3>5 DEF m
        <4>2. r \notin failed
          BY <1>5a, <1>5c, <2>1, <3>2, <3>5
        <4>3. r \in k.pending
          BY <1>4, <1>5b, <4>1, <4>2
        <4>4. QED
          BY <3>2, <3>3, <3>5, <4>3 DEF ToSend
      <3>6. QED
        BY <3>4, <3>5
    <2>4. QED
      BY <2>1, <2>2, <2>3
  <1>11. w1.pool = w.pool /\ w1.chain = w.chain /\ w1.mgrs[n][g] = k
    BY <1>7, <1>8 DEF ManagerSet
  <1>12. CASE rest = {}
    <2>1. v = w1
      BY <1>1, <1>3, <1>12
    <2>2. PackSent(w1, {})
      BY <1>4, <1>9, <1>11, <1>12, IdleSent
    <2>3. QED
      BY <1>8, <1>10, <1>11, <2>1, <2>2
  <1>13. CASE rest # {}
    <2>1. PICK s \in rest : pick = {s}
      BY <1>3, <1>13
    <2>2. some = {s} /\ (CHOOSE r \in some : TRUE) = s
      BY <2>1
    <2>3. v = SendPack(w1, n, g, s)
      BY <1>1, <2>2
    <2>4. s \in w1.mgrs[n][g].pending /\ g \in DOMAIN w1.mgrs[n]
      BY <1>4, <1>8, <1>11
    <2>5. Sound(v, pd, {}, ch, fs) /\ Manages(w1, v)
      BY <1>8, <1>9, <2>3, <2>4, SendPackLemma
    <2>6. QED
      BY <1>10, <1>11, <2>5 DEF Manages
  <1>14. QED
    BY <1>12, <1>13

\* The last manager of a node.
LEMMA LastManager ==
    ASSUME ConnsOK, NEW pd, NEW X, NEW ch, NEW fs, NEW w, Sound(w, pd, X, ch, fs), NEW n \in Nodes
    PROVE  Len(w.mgrs[n]) \in DOMAIN w.mgrs[n]
  <1> DEFINE l == w.mgrs[n]
  <1>1. l \in Seq(Manager) /\ l # << >>
    BY DEF Sound, Worlds, EndsOwn
  <1> HIDE DEF l
  <1>2. Len(l) \in Nat \ {0} /\ DOMAIN l = 1 .. Len(l)
    BY <1>1, EmptySeq, LenProperties
  <1>3. Len(l) \in DOMAIN l
    BY <1>2
  <1>4. QED
    BY <1>3 DEF l

\* All but one registered end was sent, or is to be sent, the pool.
OthersOffered(w, n, c) ==
  \A i \in Nodes : \A d \in w.peers[i] \ w.forgotten : <<i, d>> \in w.open /\ ~(i = n /\ d = c) =>
    \A t \in w.pool[i] : t \in w.known[<<i, d>>].txs \/ ToSend(w, i, d, t)

(***************************************************************************)
(* syncTransactions for a peer that was registered: an entry for an older  *)
(* connection to the same node makes room for this one's.                  *)
(***************************************************************************)
LEMMA SyncLemma ==
    ASSUME ConnsOK, NEW pd, NEW X, NEW ch, NEW fs, NEW w, Sound(w, pd, X, ch, fs),
           NEW n \in Nodes, NEW c \in w.peers[n], PackSent(w, {}), OthersOffered(w, n, c),
           NEW v, v = syncTransactions(w, n, c)
    PROVE  /\ Sound(v, pd, X, ch, fs) /\ PackSent(v, {}) /\ PoolOffered(v, w.pool)
           /\ v.pool = w.pool /\ v.chain = w.chain
  <1> DEFINE g == Len(w.mgrs[n])
             m == w.mgrs[n][g]
             s == [c |-> c, txs |-> w.pool[n]]
             stay == {t \in m.pending : Remote(n, t.c) # Remote(n, c)}
             k == [m EXCEPT !.pending = stay \cup {s}]
             w1 == WithManager(w, n, g, k)
  <1>0. w \in Worlds
    BY DEF Sound
  <1>1. v = IF w.pool[n] = {} THEN w ELSE IF m.sending THEN w1 ELSE SendPack(w1, n, g, s)
    BY <1>0 DEF syncTransactions, WithManager
  <1>2. CASE w.pool[n] = {}
    <2>1. v = w
      BY <1>1, <1>2
    <2>2. PoolOffered(w, w.pool)
      BY <1>2 DEF OthersOffered, PoolOffered
    <2>3. QED
      BY <2>1, <2>2
  <1>3. CASE w.pool[n] # {}
    <2>1. g \in DOMAIN w.mgrs[n]
      BY LastManager
    <2> HIDE DEF g
    <2>2. /\ m \in Manager /\ g \in Nat \ {0} /\ m.pending \subseteq Waiting
          /\ \A r \in m.pending : n \in conns[r.c] /\ Settled(w, pd, n, r.c) /\ r.txs \subseteq w.pool[n]
      BY <2>1, PendingLemma
    <2>3. c \in DOMAIN conns /\ n \in conns[c] /\ Settled(w, pd, n, c)
      <3>1. <<n, c>> \in AllEnds /\ Settled(w, pd, n, c)
        BY PeersLemma
      <3>2. QED
        BY <3>1 DEF AllEnds
    <2>4. s \in Waiting
      BY <1>0, <2>3 DEF Waiting, Worlds
    <2>5. /\ k \in Manager /\ k.pending = stay \cup {s} /\ k.sending = m.sending /\ k.pack = m.pack
      BY <2>2, <2>4 DEF Manager
    <2> HIDE DEF k, m
    <2>6. \A r \in k.pending : n \in conns[r.c] /\ Settled(w, pd, n, r.c) /\ r.txs \subseteq w.pool[n]
      BY <2>2, <2>3, <2>5
    <2>7. ManagerSet(w, w1, n, g, k) /\ w1.forgotten = w.forgotten
      BY <1>0, <2>1, <2>5, WithManagerLemma
    <2> HIDE DEF w1
    <2>8. /\ Sound(w1, pd, X, ch, fs)
          /\ \A i \in Nodes : DOMAIN w1.mgrs[i] = DOMAIN w.mgrs[i]
          /\ \A i \in Nodes : \A h \in DOMAIN w1.mgrs[i] :
               w1.mgrs[i][h] = IF i = n /\ h = g THEN k ELSE w.mgrs[i][h]
      BY <2>1, <2>5, <2>6, <2>7, ManagerSetLemma
    <2>9. PoolOffered(w1, w.pool)
      <3> SUFFICES ASSUME NEW i \in Nodes, NEW d \in w1.peers[i] \ w1.forgotten,
                          <<i, d>> \in w1.open, NEW t \in w.pool[i]
                   PROVE  t \in w1.known[<<i, d>>].txs \/ ToSend(w1, i, d, t)
        BY DEF PoolOffered
      <3>1. /\ d \in w.peers[i] \ w.forgotten /\ <<i, d>> \in w.open /\ w1.known = w.known
        BY <2>7 DEF ManagerSet
      <3>2. CASE i = n /\ d = c
        <4>1. s \in w1.mgrs[i][g].pending /\ g \in DOMAIN w1.mgrs[i] /\ s.c = d /\ t \in s.txs
          BY <2>1, <2>5, <2>8, <3>2
        <4> HIDE DEF s
        <4>2. QED
          BY <4>1 DEF ToSend
      <3>3. CASE ~(i = n /\ d = c)
        <4>1. t \in w.known[<<i, d>>].txs \/ ToSend(w, i, d, t)
          BY <3>1, <3>3 DEF OthersOffered
        <4>2. CASE ToSend(w, i, d, t)
          <5>1. PICK h \in DOMAIN w.mgrs[i] : \E r \in w.mgrs[i][h].pending : r.c = d /\ t \in r.txs
            BY <4>2 DEF ToSend
          <5>2. PICK r \in w.mgrs[i][h].pending : r.c = d /\ t \in r.txs
            BY <5>1
          <5>3. h \in DOMAIN w1.mgrs[i]
                /\ w1.mgrs[i][h] = IF i = n /\ h = g THEN k ELSE w.mgrs[i][h]
            BY <2>8
          <5>4. CASE ~(i = n /\ h = g)
            BY <5>2, <5>3, <5>4 DEF ToSend
          <5>5. CASE i = n /\ h = g
            <6>1. r \in m.pending
              BY <5>5 DEF m
            <6>2. Remote(n, r.c) # Remote(n, c)
              <7>1. d \in DOMAIN conns /\ n \in conns[d] /\ conns[d] # conns[c]
                <8>1. d \in w.peers[n] /\ d # c
                  BY <3>1, <3>3, <5>5
                <8>2. QED
                  BY <1>0, <8>1 DEF Sound, OneEach, EndsOwn, Worlds
              <7>2. conns[d] = {n, Remote(n, d)} /\ conns[c] = {n, Remote(n, c)}
                BY <2>3, <7>1, RemoteLemma
              <7>3. QED
                BY <5>2, <7>1, <7>2
            <6>3. r \in k.pending
              BY <2>5, <6>1, <6>2
            <6>4. QED
              BY <5>2, <5>3, <5>5, <6>3 DEF ToSend
          <5>6. QED
            BY <5>4, <5>5
        <4>3. QED
          BY <3>1, <4>1, <4>2
      <3>4. QED
        BY <3>2, <3>3
    <2>10. w1.pool = w.pool /\ w1.chain = w.chain /\ w1.msgs = w.msgs /\ w1.mgrs[n][g] = k
      BY <2>1, <2>7, <2>8 DEF ManagerSet
    <2>11. CASE m.sending
      <3>1. v = w1
        BY <1>1, <1>3, <2>11
      <3>2. PackSent(w1, {})
        <4>1. ASSUME NEW x \in w1.msgs \cup {}, x.mgr # 0
              PROVE  /\ w1.mgrs[x.from][x.mgr].sending /\ x.c = w1.mgrs[x.from][x.mgr].pack
                     /\ \A y \in w1.msgs \cup {} : y.from = x.from /\ y.mgr = x.mgr => y = x
          <5>1. x \in w.msgs /\ x.from \in Nodes /\ x.mgr \in DOMAIN w.mgrs[x.from]
            BY <1>0, <2>10, <4>1 DEF Worlds, Message, Sound, ContentsOwn
          <5>2. /\ w.mgrs[x.from][x.mgr].sending /\ x.c = w.mgrs[x.from][x.mgr].pack
                /\ \A y \in w.msgs : y.from = x.from /\ y.mgr = x.mgr => y = x
            BY <4>1, <5>1 DEF PackSent
          <5>3. /\ w1.mgrs[x.from][x.mgr].sending = w.mgrs[x.from][x.mgr].sending
                /\ w1.mgrs[x.from][x.mgr].pack = w.mgrs[x.from][x.mgr].pack
            <6>1. CASE x.from = n /\ x.mgr = g
              BY <2>5, <2>10, <6>1 DEF m
            <6>2. CASE ~(x.from = n /\ x.mgr = g)
              BY <2>8, <5>1, <6>2
            <6>3. QED
              BY <6>1, <6>2
          <5>4. QED
            BY <2>10, <5>2, <5>3
        <4>2. ASSUME NEW i \in Nodes, NEW h \in DOMAIN w1.mgrs[i]
              PROVE  /\ w1.mgrs[i][h].pending # {} => w1.mgrs[i][h].sending
                     /\ w1.mgrs[i][h].sending => \E x \in w1.msgs \cup {} : x.from = i /\ x.mgr = h
          <5>1. CASE i = n /\ h = g
            <6>1. w1.mgrs[i][h].sending /\ w.mgrs[i][h].sending
              BY <2>5, <2>10, <2>11, <5>1 DEF m
            <6>2. QED
              BY <2>1, <2>10, <5>1, <6>1 DEF PackSent
          <5>2. CASE ~(i = n /\ h = g)
            <6>1. w1.mgrs[i][h] = w.mgrs[i][h] /\ h \in DOMAIN w.mgrs[i]
              BY <2>8, <5>2
            <6>2. QED
              BY <2>10, <6>1 DEF PackSent
          <5>3. QED
            BY <5>1, <5>2
        <4>3. QED
          BY <4>1, <4>2 DEF PackSent
      <3>3. QED
        BY <2>8, <2>9, <2>10, <3>1, <3>2
    <2>12. CASE ~m.sending
      <3>1. v = SendPack(w1, n, g, s)
        BY <1>1, <1>3, <2>12
      <3>2. PackIdle(w, n, g)
        <4>1. ASSUME NEW x \in w.msgs, x.mgr # 0 PROVE ~(x.from = n /\ x.mgr = g)
          BY <2>12, <4>1 DEF PackSent, m
        <4>2. QED
          BY <4>1 DEF PackSent, PackIdle
      <3>3. PackIdle(w1, n, g)
        BY <2>1, <2>7, <2>8, <3>2, IdleSet
      <3>4. s \in w1.mgrs[n][g].pending /\ g \in DOMAIN w1.mgrs[n]
        BY <2>1, <2>5, <2>8, <2>10
      <3> HIDE DEF s
      <3>5. Sound(v, pd, X, ch, fs) /\ Manages(w1, v)
        BY <2>8, <3>1, <3>3, <3>4, SendPackLemma
      <3>6. QED
        BY <2>9, <2>10, <3>5 DEF Manages
    <2>13. QED
      BY <2>11, <2>12
  <1>4. QED
    BY <1>2, <1>3

\* The peer is registered and nothing else changes.
PeerAdded(w, v, n, c) ==
  /\ v \in Worlds /\ v.open = w.open /\ v.handshakePeers = w.handshakePeers
  /\ v.known = w.known /\ v.queue = w.queue /\ v.pool = w.pool /\ v.chain = w.chain
  /\ v.mgrs = w.mgrs /\ v.forgotten = w.forgotten /\ v.msgs = w.msgs
  /\ v.peers = [k \in Nodes |-> IF k = n THEN w.peers[n] \cup {c} ELSE w.peers[k]]

(***************************************************************************)
(* A peer is registered: it has no marks yet if it is open, because        *)
(* nothing is marked, queued or sent at an end that was never registered.  *)
(***************************************************************************)
LEMMA PeerAddedLemma ==
    ASSUME ConnsOK, NEW pd, NEW X, NEW ch, NEW fs, NEW w, Sound(w, pd, X, ch, fs),
           NEW n \in Nodes, NEW c \in DOMAIN conns, n \in conns[c], <<n, c>> \notin pd, online[n],
           ~HasPeer(w, n, c), NEW v, PeerAdded(w, v, n, c)
    PROVE  /\ Sound(v, pd, X, ch, fs) /\ HasPeer(v, n, c)
           /\ PackSent(w, {}) => PackSent(v, {})
           /\ PoolOffered(w, w.pool) => OthersOffered(v, n, c)
  <1>0. /\ w \in Worlds /\ v \in Worlds /\ <<n, c>> \in AllEnds
        /\ \A k \in Nodes : w.peers[k] \subseteq v.peers[k]
        /\ \A k \in Nodes : \A d \in v.peers[k] : d \in w.peers[k] \/ (k = n /\ d = c)
        /\ c \in v.peers[n]
    BY DEF Sound, PeerAdded, AllEnds
  <1>1. EndsOwn(v)
    <2>1. ASSUME NEW k \in Nodes
          PROVE  /\ \A d \in v.peers[k] \cup v.handshakePeers[k] : k \in conns[d]
                 /\ v.mgrs[k] # << >>
                 /\ \A g \in DOMAIN v.mgrs[k] : \A s \in v.mgrs[k][g].pending : k \in conns[s.c]
      BY <1>0 DEF Sound, EndsOwn, PeerAdded
    <2>2. QED
      BY <2>1 DEF EndsOwn
  <1>2. OneEach(v)
    <2>1. \A d \in w.peers[n] : conns[d] # conns[c]
      BY DEF HasPeer
    <2>2. ASSUME NEW k \in Nodes, NEW x \in v.peers[k], NEW y \in v.peers[k], conns[x] = conns[y]
          PROVE  x = y
      <3>1. CASE x \in w.peers[k] /\ y \in w.peers[k]
        BY <2>2, <3>1 DEF Sound, OneEach
      <3>2. CASE ~(x \in w.peers[k] /\ y \in w.peers[k])
        BY <1>0, <2>1, <2>2, <3>2
      <3>3. QED
        BY <3>1, <3>2
    <2>3. \A k \in Nodes : \A x, y \in v.handshakePeers[k] : conns[x] = conns[y] => x = y
      BY DEF Sound, OneEach, PeerAdded
    <2>4. QED
      BY <2>2, <2>3 DEF OneEach
  <1>3. OneOpen(v, pd)
    BY DEF Sound, OneOpen, PeerAdded
  <1>4. UsedSettled(v, pd)
    <2>1. \A k \in Nodes : \A d : Settled(w, pd, k, d) => Settled(v, pd, k, d)
      BY <1>0 DEF Settled, PeerAdded
    <2>2. ASSUME NEW e \in AllEnds
          PROVE  /\ v.known[e] # NoMarks => Settled(v, pd, e[1], e[2])
                 /\ v.queue[e] # EmptyQueue => e \notin pd /\ e \notin v.open
      <3>1. e[1] \in Nodes
        BY DEF AllEnds
      <3>2. QED
        BY <2>1, <3>1 DEF Sound, UsedSettled, PeerAdded
    <2>3. ASSUME NEW k \in Nodes
          PROVE  /\ \A d \in v.peers[k] \cup v.handshakePeers[k] : <<k, d>> \notin pd
                 /\ \A g \in DOMAIN v.mgrs[k] : \A s \in v.mgrs[k][g].pending : Settled(v, pd, k, s.c)
      <3>1. \A d \in v.peers[k] \cup v.handshakePeers[k] : <<k, d>> \notin pd
        BY <1>0 DEF Sound, UsedSettled, PeerAdded
      <3>2. v.mgrs = w.mgrs
        BY DEF PeerAdded
      <3>3. \A g \in DOMAIN w.mgrs[k] : \A s \in w.mgrs[k][g].pending : Settled(w, pd, k, s.c)
        BY DEF Sound, UsedSettled
      <3>4. QED
        BY <2>1, <3>1, <3>2, <3>3
    <2>4. QED
      BY <2>2, <2>3 DEF UsedSettled
  <1>5. OfflineClosed(v)
    BY <1>0 DEF Sound, OfflineClosed, PeerAdded
  <1>6. ContentsOwn(v, ch)
    BY DEF Sound, ContentsOwn, PeerAdded
  <1>7. <<n, c>> \in v.open => v.known[<<n, c>>] = NoMarks
    <2>1. c \notin w.peers[n]
      BY DEF HasPeer
    <2>2. v.open = w.open /\ v.known = w.known
      BY DEF PeerAdded
    <2>3. <<n, c>> \in w.open => ~Settled(w, pd, n, c)
      BY <2>1 DEF Settled
    <2>4. QED
      BY <1>0, <2>2, <2>3 DEF Sound, UsedSettled
  <1>8. TxMarksTrue(v, X)
    <2> SUFFICES ASSUME NEW k \in Nodes, NEW d \in v.peers[k], <<k, d>> \in v.open,
                        NEW t \in v.known[<<k, d>>].txs
                 PROVE  t \in v.pool[Remote(k, d)] \/ TxOnWay(v, X, k, d, t)
      BY DEF TxMarksTrue
    <2>1. d \in w.peers[k]
      BY <1>0, <1>7 DEF NoMarks
    <2>2. QED
      BY <2>1 DEF Sound, TxMarksTrue, TxOnWay, PeerAdded
  <1>9. BlockMarksTrue(v, X, fs)
    <2> SUFFICES ASSUME NEW k \in Nodes, NEW d \in v.peers[k], <<k, d>> \in v.open,
                        NEW b \in v.known[<<k, d>>].blocks
                 PROVE  \/ b \in v.chain[Remote(k, d)] \/ BlockOnWay(v, X, k, d, b)
                        \/ Fetched(fs, Remote(k, d), d, b)
      BY DEF BlockMarksTrue
    <2>1. d \in w.peers[k]
      BY <1>0, <1>7 DEF NoMarks
    <2>2. QED
      BY <2>1 DEF Sound, BlockMarksTrue, BlockOnWay, PeerAdded
  <1>10. Shaking(v, X)
    <2>1. \A k \in Nodes : \A d : HasPeer(w, k, d) => HasPeer(v, k, d)
      BY <1>0 DEF HasPeer
    <2>2. \A e \in w.open : e[1] \in Nodes
      BY <1>0 DEF Worlds, AllEnds
    <2>3. v.open = w.open /\ \A k, d : StatusOnWay(w, X, k, d) => StatusOnWay(v, X, k, d)
      BY DEF PeerAdded, StatusOnWay
    <2>4. QED
      BY <2>1, <2>2, <2>3 DEF Sound, Shaking
  <1>11. HasPeer(v, n, c)
    BY <1>0 DEF HasPeer
  <1>12. PackSent(w, {}) => PackSent(v, {})
    BY DEF PackSent, PeerAdded
  <1>13. PoolOffered(w, w.pool) => OthersOffered(v, n, c)
    <2> SUFFICES ASSUME PoolOffered(w, w.pool), NEW i \in Nodes,
                        NEW d \in v.peers[i] \ v.forgotten, <<i, d>> \in v.open,
                        ~(i = n /\ d = c), NEW t \in v.pool[i]
                 PROVE  t \in v.known[<<i, d>>].txs \/ ToSend(v, i, d, t)
      BY DEF OthersOffered
    <2>1. /\ d \in w.peers[i] \ w.forgotten /\ <<i, d>> \in w.open /\ t \in w.pool[i]
          /\ v.known = w.known /\ v.mgrs = w.mgrs
      BY <1>0 DEF PeerAdded
    <2>2. t \in w.known[<<i, d>>].txs \/ ToSend(w, i, d, t)
      BY <2>1 DEF PoolOffered
    <2>3. QED
      BY <2>1, <2>2 DEF ToSend
  <1>14. QED
    BY <1>0, <1>1, <1>2, <1>3, <1>4, <1>5, <1>6, <1>8, <1>9, <1>10, <1>11, <1>12, <1>13 DEF Sound

\* What a step leads to, in a world that it becomes.
Good(w, pd, fs) ==
  Sound(w, pd, {}, w.chain, fs) /\ PackSent(w, {}) /\ PoolOffered(w, w.pool)

(***************************************************************************)
(* A step that becomes such a world and leaves the connections alone keeps *)
(* the invariant.                                                          *)
(***************************************************************************)
LEMMA BecomesLemma ==
    ASSUME ConnsOK, NEW w, Becomes(w), conns' = conns,
           NEW pd, pd = pend', pd \subseteq AllEnds, NEW fs, fs = fetches', fs \subseteq Fetches,
           online' \in [Nodes -> BOOLEAN],
           \A n \in Nodes : ~online'[n] => \A c \in w.peers[n] : <<n, c>> \notin w.open,
           Good(w, pd, fs)
    PROVE  IInv'
  <1>1. w \in Worlds
    BY DEF Good, Sound
  <1>2. World' = w
    BY <1>1 DEF Worlds, World, Becomes
  <1>3. AllEnds' = AllEnds /\ Waiting' = Waiting /\ Message' = Message /\ Fetches' = Fetches
    BY DEF AllEnds, Waiting, Message, Fetches
  <1>4. Manager' = Manager
    BY <1>3 DEF Manager
  <1>5. Worlds' = Worlds
    BY <1>3, <1>4 DEF Worlds
  <1>6. \A n, c : Remote(n, c)' = Remote(n, c)
    BY DEF Remote
  <1>7. ConnsOK' /\ (pend \subseteq AllEnds)' /\ (fetches \subseteq Fetches)'
    BY <1>3 DEF ConnsOK
  <1>8. (World \in Worlds)'
    BY <1>1, <1>2, <1>5
  <1> DEFINE u == World
  <1>9. EndsOwn(u)' /\ OneEach(u)' /\ OneOpen(u, pend)' /\ ContentsOwn(u, chain)'
    <2>1. chain' = w.chain
      BY DEF Becomes
    <2> HIDE DEF u
    <2>2. u' = w
      BY <1>2 DEF u
    <2>3. EndsOwn(w) /\ OneEach(w) /\ OneOpen(w, pd) /\ ContentsOwn(w, w.chain)
      BY DEF Good, Sound
    <2>4. EndsOwn(u)'
      BY <2>2, <2>3 DEF EndsOwn
    <2>5. OneEach(u)'
      BY <2>2, <2>3 DEF OneEach
    <2>6. OneOpen(u, pend)'
      BY <2>2, <2>3 DEF OneOpen
    <2>7. ContentsOwn(u, chain)'
      BY <2>1, <2>2, <2>3 DEF ContentsOwn
    <2>8. QED
      BY <2>4, <2>5, <2>6, <2>7
  <1>10. UsedSettled(u, pend)'
    <2> HIDE DEF u
    <2>1. u' = w /\ UsedSettled(w, pd)
      BY <1>2 DEF u, Good, Sound
    <2>2. QED
      BY <1>3, <2>1 DEF UsedSettled, Settled
  <1>11. OfflineClosed(u)'
    <2> HIDE DEF u
    <2>1. u' = w
      BY <1>2 DEF u
    <2>2. QED
      BY <2>1 DEF OfflineClosed
  <1>12. TxMarksTrue(u, {})' /\ BlockMarksTrue(u, {}, fetches)' /\ Shaking(u, {})'
    <2> HIDE DEF u
    <2>1. u' = w /\ TxMarksTrue(w, {}) /\ BlockMarksTrue(w, {}, fs) /\ Shaking(w, {})
      BY <1>2 DEF u, Good, Sound
    <2>2. TxMarksTrue(u, {})'
      BY <1>6, <2>1 DEF TxMarksTrue, TxOnWay
    <2>3. BlockMarksTrue(u, {}, fetches)'
      BY <1>6, <2>1 DEF BlockMarksTrue, BlockOnWay, Fetched
    <2>4. Shaking(u, {})'
      <3>1. \A e, f : Facing(e, f)' <=> Facing(e, f)
        BY <1>6 DEF Facing
      <3>2. \A e : HasPeer(u, e[1], e[2])' <=> HasPeer(w, e[1], e[2])
        BY <1>6, <2>1 DEF HasPeer
      <3>3. QED
        BY <2>1, <3>1, <3>2 DEF Shaking, StatusOnWay
    <2>5. QED
      BY <2>2, <2>3, <2>4
  <1>13. PackSent(u, {})' /\ PoolOffered(u, pool)'
    <2>1. pool' = w.pool
      BY DEF Becomes
    <2> HIDE DEF u
    <2>2. u' = w /\ PackSent(w, {}) /\ PoolOffered(w, w.pool)
      BY <1>2 DEF u, Good
    <2>3. PackSent(u, {})'
      BY <2>2 DEF PackSent
    <2>4. PoolOffered(u, pool)'
      BY <2>1, <2>2 DEF PoolOffered, ToSend
    <2>5. QED
      BY <2>3, <2>4
  <1>14. Sound(u, pend, {}, chain, fetches)'
    BY <1>8, <1>9, <1>10, <1>11, <1>12 DEF Sound
  <1>15. QED
    BY <1>7, <1>13, <1>14 DEF IInv

\* The fields of the world of the variables.
LEMMA WorldLemma ==
    /\ World.open = open /\ World.peers = peers /\ World.handshakePeers = handshakePeers
    /\ World.known = known /\ World.queue = queue /\ World.pool = pool
    /\ World.chain = chain /\ World.mgrs = mgrs /\ World.forgotten = forgotten
    /\ World.msgs = msgs
  BY DEF World

\* The world without a message that is being handled.
Taking(m) == [World EXCEPT !.msgs = @ \ {m}]

\* Its fields.
TakingFields(w, m) ==
  /\ w.open = open /\ w.peers = peers /\ w.handshakePeers = handshakePeers
  /\ w.known = known /\ w.queue = queue /\ w.pool = pool /\ w.chain = chain
  /\ w.mgrs = mgrs /\ w.forgotten = forgotten /\ w.msgs = msgs \ {m}

\* The ends of a message.
EndsOf(m) ==
  /\ m.from \in Nodes /\ m.c \in DOMAIN conns /\ m.from \in conns[m.c]
  /\ <<m.from, m.c>> \in AllEnds
  /\ Remote(m.from, m.c) \in Nodes /\ Remote(m.from, m.c) \in conns[m.c]
  /\ Remote(m.from, m.c) # m.from /\ Remote(Remote(m.from, m.c), m.c) = m.from
  /\ conns[m.c] = {m.from, Remote(m.from, m.c)}

(***************************************************************************)
(* A message is taken: it still counts as on its way until it is handled.  *)
(***************************************************************************)
LEMMA TakingLemma ==
    ASSUME IInv, NEW m \in msgs
    PROVE  /\ TakingFields(Taking(m), m) /\ EndsOf(m) /\ m \in Message
           /\ Sound(Taking(m), pend, {m}, chain, fetches)
           /\ PoolOffered(Taking(m), pool)
           /\ m.mgr = 0 => PackSent(Taking(m), {})
           /\ m.mgr # 0 => /\ PackIdle(Taking(m), m.from, m.mgr) /\ m.type = "txs"
                           /\ m.mgr \in DOMAIN mgrs[m.from] /\ m.c = mgrs[m.from][m.mgr].pack
           /\ m.type = "txs" => m.content \subseteq pool[m.from]
           /\ m.type \in {"block", "hash"} => m.content \in chain[m.from]
  <1> DEFINE W == World
             w == Taking(m)
  <1>1. Sound(W, pend, {}, chain, fetches) /\ PackSent(W, {}) /\ PoolOffered(W, pool) /\ ConnsOK
    BY DEF IInv
  <1>2. /\ W.open = open /\ W.peers = peers /\ W.handshakePeers = handshakePeers
        /\ W.known = known /\ W.queue = queue /\ W.pool = pool
        /\ W.chain = chain /\ W.mgrs = mgrs /\ W.forgotten = forgotten /\ W.msgs = msgs
    BY WorldLemma
  <1>3. TakingFields(w, m)
    BY DEF World, Taking, TakingFields
  <1>4. w = [W EXCEPT !.msgs = @ \ {m}]
    BY DEF Taking
  <1> HIDE DEF W, w
  <1>5. W \in Worlds
    BY <1>1 DEF Sound
  <1>6. w \in Worlds
    BY <1>4, <1>5 DEF Worlds
  <1>7. /\ m \in Message /\ m.from \in conns[m.c]
        /\ m.type = "txs" => m.content \subseteq pool[m.from]
        /\ m.type \in {"block", "hash"} => m.content \in chain[m.from]
        /\ m.mgr # 0 => m.type = "txs" /\ m.mgr \in DOMAIN mgrs[m.from]
    BY <1>1, <1>2, <1>5 DEF Sound, ContentsOwn, Worlds
  <1>8. EndsOf(m)
    <2>1. m.from \in Nodes /\ m.c \in DOMAIN conns
      BY <1>7 DEF Message
    <2>2. QED
      BY <1>1, <1>7, <2>1, RemoteLemma DEF EndsOf, AllEnds
  <1>9. Sound(w, pend, {m}, chain, fetches)
    <2>1. EndsOwn(w) /\ OneEach(w) /\ OneOpen(w, pend) /\ OfflineClosed(w) /\ ContentsOwn(w, chain)
      BY <1>1, <1>2, <1>3 DEF Sound, EndsOwn, OneEach, OneOpen, OfflineClosed, ContentsOwn, TakingFields
    <2>2. UsedSettled(w, pend)
      BY <1>1, <1>2, <1>3 DEF Sound, UsedSettled, Settled, TakingFields
    <2>3. w.msgs \cup {m} = W.msgs \cup {}
      BY <1>2, <1>3 DEF TakingFields
    <2>4. TxMarksTrue(w, {m}) /\ BlockMarksTrue(w, {m}, fetches) /\ Shaking(w, {m})
      BY <1>1, <1>2, <1>3, <2>3 DEF Sound, TxMarksTrue, TxOnWay, BlockMarksTrue, BlockOnWay, Shaking, HasPeer, StatusOnWay, TakingFields
    <2>5. QED
      BY <1>6, <2>1, <2>2, <2>4 DEF Sound
  <1>10. PoolOffered(w, pool)
    BY <1>1, <1>2, <1>3 DEF PoolOffered, ToSend, TakingFields
  <1>11. ASSUME m.mgr = 0 PROVE PackSent(w, {})
    <2>1. w.msgs = W.msgs \ {m} /\ w.mgrs = W.mgrs
      BY <1>2, <1>3 DEF TakingFields
    <2>2. ASSUME NEW x \in w.msgs \cup {}, x.mgr # 0
          PROVE  /\ w.mgrs[x.from][x.mgr].sending /\ x.c = w.mgrs[x.from][x.mgr].pack
                 /\ \A y \in w.msgs \cup {} : y.from = x.from /\ y.mgr = x.mgr => y = x
      BY <1>1, <2>1, <2>2 DEF PackSent
    <2>3. ASSUME NEW i \in Nodes, NEW h \in DOMAIN w.mgrs[i]
          PROVE  /\ w.mgrs[i][h].pending # {} => w.mgrs[i][h].sending
                 /\ w.mgrs[i][h].sending => \E x \in w.msgs \cup {} : x.from = i /\ x.mgr = h
      <3>1. h # 0
        <4>1. W.mgrs[i] \in Seq(Manager)
          BY <1>5 DEF Worlds
        <4>2. QED
          BY <2>1, <4>1
      <3>2. /\ w.mgrs[i][h].pending # {} => w.mgrs[i][h].sending
            /\ w.mgrs[i][h].sending => \E x \in W.msgs \cup {} : x.from = i /\ x.mgr = h
        BY <1>1, <2>1 DEF PackSent
      <3>3. QED
        BY <1>11, <2>1, <3>1, <3>2
    <2>4. QED
      BY <2>2, <2>3 DEF PackSent
  <1>12. ASSUME m.mgr # 0
         PROVE  PackIdle(w, m.from, m.mgr) /\ m.c = mgrs[m.from][m.mgr].pack
    <2>1. w.msgs = W.msgs \ {m} /\ w.mgrs = W.mgrs /\ m \in W.msgs
      BY <1>2, <1>3 DEF TakingFields
    <2>2. /\ m.c = W.mgrs[m.from][m.mgr].pack
          /\ \A y \in W.msgs \cup {} : y.from = m.from /\ y.mgr = m.mgr => y = m
      BY <1>1, <1>12, <2>1 DEF PackSent
    <2>3. ASSUME NEW x \in w.msgs, x.mgr # 0
          PROVE  /\ ~(x.from = m.from /\ x.mgr = m.mgr)
                 /\ w.mgrs[x.from][x.mgr].sending /\ x.c = w.mgrs[x.from][x.mgr].pack
                 /\ \A y \in w.msgs : y.from = x.from /\ y.mgr = x.mgr => y = x
      BY <1>1, <2>1, <2>2, <2>3 DEF PackSent
    <2>4. ASSUME NEW i \in Nodes, NEW h \in DOMAIN w.mgrs[i], ~(i = m.from /\ h = m.mgr)
          PROVE  /\ w.mgrs[i][h].pending # {} => w.mgrs[i][h].sending
                 /\ w.mgrs[i][h].sending => \E x \in w.msgs : x.from = i /\ x.mgr = h
      <3>1. /\ w.mgrs[i][h].pending # {} => w.mgrs[i][h].sending
            /\ w.mgrs[i][h].sending => \E x \in W.msgs \cup {} : x.from = i /\ x.mgr = h
        BY <1>1, <2>1 DEF PackSent
      <3>2. QED
        BY <2>1, <2>4, <3>1
    <2>5. QED
      BY <1>2, <2>2, <2>3, <2>4 DEF PackIdle
  <1>13. QED
    BY <1>3, <1>7, <1>8, <1>9, <1>10, <1>11, <1>12 DEF w

\* A message fails: the end it was sent from closes.
LEMMA FailLemma ==
    ASSUME IInv, NEW m \in msgs
    PROVE  /\ Sound(Fail(Taking(m), m), pend, {}, chain, fetches)
           /\ Grows(Taking(m), Fail(Taking(m), m))
           /\ <<m.from, m.c>> \notin Fail(Taking(m), m).open
  <1> DEFINE w == Taking(m)
             v == Fail(w, m)
  <1>1. Sound(w, pend, {m}, chain, fetches) /\ EndsOf(m) /\ ConnsOK
    BY TakingLemma DEF IInv
  <1> HIDE DEF w
  <1>2. v = Close(w, m.from, m.c) /\ <<m.from, m.c>> \in AllEnds /\ w \in Worlds /\ EndsOwn(w)
    BY <1>1 DEF Fail, EndsOf, Sound
  <1>3. /\ v \in Worlds /\ Shrinks(w, v) /\ SameLists(w, v) /\ SameTraffic(w, v)
        /\ <<m.from, m.c>> \notin v.open
    BY <1>1, <1>2, CloseLemma
  <1> HIDE DEF v
  <1>4. Sound(v, pend, {m}, chain, fetches) /\ Grows(w, v)
    BY <1>1, <1>3, ClosingLemma, CloseGrows
  <1>5. Handled(v, fetches, m)
    BY <1>3 DEF Handled
  <1>6. Sound(v, pend, {}, chain, fetches)
    BY <1>4, <1>5, HandledLemma
  <1>7. QED
    BY <1>3, <1>4, <1>6 DEF w, v

(***************************************************************************)
(* New transactions of a node are broadcast: they are marked at every      *)
(* registered end in use, as the ones before them were or are to be.       *)
(***************************************************************************)
LEMMA NewTxsLemma ==
    ASSUME ConnsOK, NEW pd, NEW X, NEW ch, NEW fs, NEW w, Sound(w, pd, X, ch, fs),
           NEW pl, PoolOffered(w, pl), NEW n \in Nodes,
           NEW new \in SUBSET Txs, new \subseteq w.pool[n], w.pool[n] \subseteq pl[n] \cup new,
           \A k \in Nodes : k # n => w.pool[k] \subseteq pl[k],
           NEW v, v = IF new = {} THEN w ELSE BroadcastTxs(w, n, new)
    PROVE  Sound(v, pd, X, ch, fs) /\ Grows(w, v) /\ PoolOffered(v, v.pool)
  <1>1. /\ Sound(v, pd, X, ch, fs) /\ Grows(w, v)
        /\ \A c \in w.peers[n] : <<n, c>> \in v.open => new \subseteq v.known[<<n, c>>].txs
    <2>1. CASE new = {}
      BY <2>1, GrowsRefl
    <2>2. CASE new # {}
      BY <2>2, BroadcastTxsLemma
    <2>3. QED
      BY <2>1, <2>2
  <1>2. PoolOffered(v, pl) /\ v.pool = w.pool
    BY <1>1, GrowsFollows, OfferedFollows DEF Sound, Grows, SameLists
  <1>3. PoolOffered(v, v.pool)
    <2> SUFFICES ASSUME NEW i \in Nodes, NEW c \in v.peers[i] \ v.forgotten, <<i, c>> \in v.open,
                        NEW t \in v.pool[i]
                 PROVE  t \in v.known[<<i, c>>].txs \/ ToSend(v, i, c, t)
      BY DEF PoolOffered
    <2>1. CASE t \in pl[i]
      BY <1>2, <2>1 DEF PoolOffered
    <2>2. CASE t \notin pl[i]
      <3>1. i = n /\ t \in new
        BY <1>2, <2>2
      <3>2. c \in w.peers[n]
        BY <1>1, <3>1 DEF Grows, Shrinks
      <3>3. QED
        BY <1>1, <3>1, <3>2
    <2>3. QED
      BY <2>1, <2>2
  <1>4. QED
    BY <1>1, <1>3

\* Transactions come to a pool, with marks at an end.
Gets(w, n, d, txs) == [w EXCEPT !.known[<<n, d>>].txs = @ \cup txs, !.pool[n] = @ \cup txs]

\* The fields then.
Gotten(w, v, n, d, txs) ==
  /\ v \in Worlds /\ v.open = w.open /\ v.peers = w.peers
  /\ v.handshakePeers = w.handshakePeers /\ v.queue = w.queue /\ v.msgs = w.msgs
  /\ v.mgrs = w.mgrs /\ v.forgotten = w.forgotten /\ v.chain = w.chain
  /\ \A k \in Nodes : v.pool[k] = IF k = n THEN w.pool[n] \cup txs ELSE w.pool[k]
  /\ \A f \in AllEnds : f # <<n, d>> => v.known[f] = w.known[f]
  /\ v.known[<<n, d>>].txs = w.known[<<n, d>>].txs \cup txs
  /\ v.known[<<n, d>>].blocks = w.known[<<n, d>>].blocks

\* What changes then.
LEMMA GetsLemma ==
    ASSUME NEW w \in Worlds, NEW n \in Nodes, NEW d, <<n, d>> \in AllEnds,
           NEW txs \in SUBSET Txs, NEW v, v = Gets(w, n, d, txs)
    PROVE  Gotten(w, v, n, d, txs)
  <1> DEFINE e == <<n, d>>
             k == [w.known[e] EXCEPT !.txs = @ \cup txs]
             kn == [w.known EXCEPT ![e] = k]
             pl == [w.pool EXCEPT ![n] = @ \cup txs]
  <1>1. e \in AllEnds /\ w.known \in [AllEnds -> Marks] /\ w.pool \in [Nodes -> SUBSET Txs]
    BY DEF Worlds
  <1>2. v = [w EXCEPT !.known[e].txs = @ \cup txs, !.pool[n] = @ \cup txs]
    BY DEF Gets
  <1>3. v = [w EXCEPT !.known = kn, !.pool = pl]
    BY <1>1, <1>2 DEF Worlds
  <1> HIDE DEF e
  <1>4. k \in Marks /\ k.txs = w.known[e].txs \cup txs /\ k.blocks = w.known[e].blocks
    BY <1>1 DEF Marks
  <1> HIDE DEF k
  <1>5. /\ kn \in [AllEnds -> Marks] /\ kn[e] = k
        /\ \A f \in AllEnds : f # e => kn[f] = w.known[f]
    BY <1>1, <1>4
  <1>6. /\ pl \in [Nodes -> SUBSET Txs]
        /\ \A i \in Nodes : pl[i] = IF i = n THEN w.pool[n] \cup txs ELSE w.pool[i]
    BY <1>1
  <1> HIDE DEF kn, pl
  <1>7. /\ v \in Worlds /\ v.open = w.open /\ v.peers = w.peers
        /\ v.handshakePeers = w.handshakePeers /\ v.queue = w.queue /\ v.msgs = w.msgs
        /\ v.mgrs = w.mgrs /\ v.forgotten = w.forgotten /\ v.chain = w.chain
        /\ v.known = kn /\ v.pool = pl
    BY <1>3, <1>5, <1>6 DEF Worlds
  <1>8. QED
    BY <1>4, <1>5, <1>6, <1>7 DEF e, Gotten

(***************************************************************************)
(* HandleTxMsg at the peer for the sender: the transactions are the        *)
(* sender's, so they may be marked, and the new ones go on.                *)
(***************************************************************************)
LEMMA HandleTxMsgLemma ==
    ASSUME IInv, NEW m \in msgs, m.type = "txs",
           NEW d \in nodesEthPeer(Remote(m.from, m.c), m.from),
           NEW v, v = HandleTxMsg(Taking(m), Remote(m.from, m.c), d, m.content)
    PROVE  /\ Sound(v, pend, {}, chain, fetches) /\ Follows(Taking(m), v)
           /\ PoolOffered(v, v.pool) /\ v.chain = chain
  <1> DEFINE w == Taking(m)
             to == Remote(m.from, m.c)
             new == m.content \ w.pool[to]
             w1 == Gets(w, to, d, m.content)
  <1>1. /\ TakingFields(w, m) /\ EndsOf(m) /\ ConnsOK
        /\ Sound(w, pend, {m}, chain, fetches) /\ PoolOffered(w, pool)
        /\ m.content \subseteq pool[m.from]
    BY TakingLemma DEF IInv
  <1>2. v = IF new = {} THEN w1 ELSE BroadcastTxs(w1, to, new)
    BY DEF HandleTxMsg, Gets
  <1>3. d \in w.peers[to] /\ Remote(to, d) = m.from
    BY <1>1 DEF nodesEthPeer, PeerOf, TakingFields
  <1>4. to \in Nodes /\ m.from \in Nodes /\ to # m.from
    BY <1>1 DEF EndsOf
  <1> HIDE DEF w, to
  <1>5. <<to, d>> \in AllEnds /\ Settled(w, pend, to, d)
    BY <1>1, <1>3, <1>4, PeersLemma
  <1>6. w \in Worlds
    BY <1>1 DEF Sound
  <1>7. m.content \in SUBSET Txs /\ w.pool = pool
    <2>1. w.pool = pool
      BY <1>1 DEF TakingFields
    <2>2. w.pool[m.from] \subseteq Txs
      BY <1>4, <1>6 DEF Worlds
    <2>3. QED
      BY <1>1, <2>1, <2>2
  <1> HIDE DEF w1
  <1>8. /\ w1 \in Worlds /\ w1.open = w.open /\ w1.peers = w.peers
        /\ w1.handshakePeers = w.handshakePeers /\ w1.queue = w.queue /\ w1.msgs = w.msgs
        /\ w1.mgrs = w.mgrs /\ w1.forgotten = w.forgotten /\ w1.chain = w.chain
        /\ \A k \in Nodes : w1.pool[k] = IF k = to THEN w.pool[to] \cup m.content ELSE w.pool[k]
        /\ \A f \in AllEnds : f # <<to, d>> => w1.known[f] = w.known[f]
        /\ w1.known[<<to, d>>].txs = w.known[<<to, d>>].txs \cup m.content
        /\ w1.known[<<to, d>>].blocks = w.known[<<to, d>>].blocks
    <2>1. w1 = Gets(w, to, d, m.content)
      BY DEF w1
    <2>2. Gotten(w, w1, to, d, m.content)
      BY <1>4, <1>5, <1>6, <1>7, <2>1, GetsLemma
    <2>3. QED
      BY <2>2 DEF Gotten
  <1>9. Takes(w, w1, pend)
    <2>1. ASSUME NEW e \in AllEnds, w1.known[e] # w.known[e]
          PROVE  /\ Settled(w, pend, e[1], e[2])
                 /\ w.known[e].txs \subseteq w1.known[e].txs
                 /\ \A t \in w1.known[e].txs \ w.known[e].txs : t \in w1.pool[Remote(e[1], e[2])]
                 /\ \A b \in w1.known[e].blocks \ w.known[e].blocks :
                      b \in w1.chain[Remote(e[1], e[2])]
      <3>1. e = <<to, d>>
        BY <1>8, <2>1
      <3>2. e[1] = to /\ e[2] = d
        BY <3>1
      <3>3. m.content \subseteq w1.pool[m.from]
        BY <1>1, <1>4, <1>7, <1>8
      <3>4. QED
        BY <1>3, <1>5, <1>8, <3>1, <3>2, <3>3
    <2>2. \A k \in Nodes : w.pool[k] \subseteq w1.pool[k] /\ w.chain[k] \subseteq w1.chain[k]
      BY <1>8
    <2>3. QED
      BY <1>8, <2>1, <2>2 DEF Takes
  <1>10. Sound(w1, pend, {m}, chain, fetches) /\ Follows(w, w1)
    BY <1>1, <1>9, TakesLemma, TakesFollows
  <1>11. PoolOffered(w1, pool)
    BY <1>1, <1>6, <1>10, OfferedFollows DEF Sound
  <1>12. /\ new \in SUBSET Txs /\ new \subseteq w1.pool[to] /\ w1.pool[to] \subseteq pool[to] \cup new
         /\ \A k \in Nodes : k # to => w1.pool[k] \subseteq pool[k]
    BY <1>4, <1>7, <1>8
  <1> HIDE DEF new
  <1>13. Sound(v, pend, {m}, chain, fetches) /\ Grows(w1, v) /\ PoolOffered(v, v.pool)
    BY <1>1, <1>2, <1>4, <1>10, <1>11, <1>12, NewTxsLemma
  <1>14. m.content \subseteq v.pool[to] /\ v.chain = chain
    BY <1>1, <1>4, <1>8, <1>13 DEF Grows, SameLists, TakingFields
  <1>15. Handled(v, fetches, m)
    BY <1>14 DEF Handled, to
  <1>16. Sound(v, pend, {}, chain, fetches) /\ Follows(w, v)
    BY <1>10, <1>13, <1>15, HandledLemma, GrowsFollows, FollowsTrans
  <1>17. QED
    BY <1>13, <1>14, <1>16 DEF w


\* A step that leaves connections, handshakes and online alone.
LEMMA KeepsLemma ==
    ASSUME IInv, NEW w, Becomes(w), UNCHANGED <<conns, pend, online>>,
           NEW fs, fs = fetches', fs \subseteq Fetches, Good(w, pend, fs)
    PROVE  IInv'
  <1>1. ConnsOK /\ pend = pend' /\ pend \subseteq AllEnds /\ online' \in [Nodes -> BOOLEAN]
    BY DEF IInv
  <1>2. \A n \in Nodes : ~online'[n] => \A c \in w.peers[n] : <<n, c>> \notin w.open
    BY DEF Good, Sound, OfflineClosed
  <1>3. QED
    BY <1>1, <1>2, BecomesLemma

\* ReceiveTxs.
LEMMA ReceiveTxsLemma ==
    ASSUME IInv, NEW m \in msgs, ReceiveTxs(m)
    PROVE  IInv'
  <1> DEFINE to == Remote(m.from, m.c)
             w == Taking(m)
             at == nodesEthPeer(to, m.from)
             err == at = {}
             w1 == IF err THEN Fail(w, m)
                   ELSE HandleTxMsg(w, to, CHOOSE d \in at : TRUE, m.content)
  <1>1. /\ m.type = "txs"
        /\ m.mgr = 0 => Becomes(w1)
        /\ m.mgr # 0 => \E pick \in Picks(w1, m.from, m.mgr, err) :
                          Becomes(Listener(w1, m.from, m.mgr, err, pick))
        /\ UNCHANGED <<conns, pend, online, fetches>>
    BY DEF ReceiveTxs, Taking
  <1>2. /\ TakingFields(w, m) /\ EndsOf(m) /\ ConnsOK /\ fetches \subseteq Fetches
        /\ Sound(w, pend, {m}, chain, fetches) /\ PoolOffered(w, pool)
        /\ m.mgr = 0 => PackSent(w, {})
        /\ m.mgr # 0 => /\ PackIdle(w, m.from, m.mgr)
                        /\ m.mgr \in DOMAIN mgrs[m.from] /\ m.c = mgrs[m.from][m.mgr].pack
    BY TakingLemma DEF IInv
  <1>3. /\ Sound(w1, pend, {}, chain, fetches) /\ Follows(w, w1)
        /\ PoolOffered(w1, w1.pool) /\ w1.chain = chain
        /\ err => <<m.from, m.c>> \notin w1.open
    <2>1. CASE err
      <3>1. w1 = Fail(w, m)
        BY <2>1
      <3> HIDE DEF w1
      <3>2. /\ Sound(w1, pend, {}, chain, fetches) /\ Grows(w, w1)
            /\ <<m.from, m.c>> \notin w1.open
        BY <3>1, FailLemma
      <3> HIDE DEF w
      <3>3. w1.pool = pool /\ w1.chain = chain
        BY <1>2, <3>2 DEF Grows, SameLists, TakingFields
      <3>4. Follows(w, w1)
        BY <3>2, GrowsFollows
      <3>5. PoolOffered(w1, pool)
        BY <1>2, <3>4, OfferedFollows DEF Sound
      <3>6. QED
        BY <3>2, <3>3, <3>4, <3>5
    <2>2. CASE ~err
      <3>1. PICK d \in at : d = CHOOSE x \in at : TRUE
        BY <2>2
      <3>2. w1 = HandleTxMsg(w, to, d, m.content)
        BY <2>2, <3>1
      <3> HIDE DEF w1
      <3>3. QED
        BY <1>1, <2>2, <3>2, HandleTxMsgLemma
    <2>3. QED
      BY <2>1, <2>2
  <1> HIDE DEF w1, w
  <1>4. CASE m.mgr = 0
    <2>1. PackSent(w1, {})
      BY <1>2, <1>3, <1>4, PackFollows
    <2>2. Good(w1, pend, fetches)
      BY <1>3, <2>1 DEF Good
    <2>3. QED
      BY <1>1, <1>2, <1>4, <2>2, KeepsLemma
  <1>5. CASE m.mgr # 0
    <2>1. PICK pick \in Picks(w1, m.from, m.mgr, err) :
            Becomes(Listener(w1, m.from, m.mgr, err, pick))
      BY <1>1, <1>5
    <2> DEFINE v == Listener(w1, m.from, m.mgr, err, pick)
    <2>2. w1.mgrs = mgrs
      BY <1>2, <1>3 DEF Follows, TakingFields
    <2>3. /\ PackIdle(w1, m.from, m.mgr) /\ m.from \in Nodes /\ m.mgr \in DOMAIN w1.mgrs[m.from]
          /\ err => <<m.from, w1.mgrs[m.from][m.mgr].pack>> \notin w1.open
      BY <1>2, <1>3, <1>5, <2>2, IdleFollows DEF EndsOf
    <2> HIDE DEF err
    <2>4. v = Listener(w1, m.from, m.mgr, err, pick)
      OBVIOUS
    <2> HIDE DEF v
    <2>5. /\ Sound(v, pend, {}, chain, fetches) /\ PackSent(v, {}) /\ PoolOffered(v, w1.pool)
          /\ v.pool = w1.pool /\ v.chain = w1.chain
      BY <1>2, <1>3, <2>1, <2>3, <2>4, ListenerLemma
    <2>6. Good(v, pend, fetches)
      BY <1>3, <2>5 DEF Good
    <2>7. QED
      BY <1>1, <1>2, <2>1, <2>4, <2>6, KeepsLemma
  <1>6. QED
    BY <1>4, <1>5

\* AddTx: the new transaction is broadcast.
LEMMA AddTxLemma ==
    ASSUME IInv, NEW n \in Nodes, AddTx(n)
    PROVE  IInv'
  <1> DEFINE t == Cardinality(UNION {pool[m] : m \in Nodes}) + 1
             w == [World EXCEPT !.pool[n] = @ \cup {t}]
             v == BroadcastTxs(w, n, {t})
  <1>1. t \in Txs /\ Becomes(v) /\ UNCHANGED <<conns, pend, online, fetches>>
    BY DEF AddTx
  <1>2. /\ ConnsOK /\ fetches \subseteq Fetches /\ Sound(World, pend, {}, chain, fetches)
        /\ PackSent(World, {}) /\ PoolOffered(World, pool)
    BY DEF IInv
  <1> HIDE DEF t
  <1> DEFINE W == World
             pl == [pool EXCEPT ![n] = @ \cup {t}]
  <1>3. w = [W EXCEPT !.pool = pl] /\ W.pool = pool /\ W.chain = chain
    BY DEF World
  <1> HIDE DEF W
  <1>4. W \in Worlds
    BY <1>2 DEF Sound, W
  <1>5. /\ pl \in [Nodes -> SUBSET Txs]
        /\ \A k \in Nodes : pl[k] = IF k = n THEN pool[n] \cup {t} ELSE pool[k]
    <2>1. pool \in [Nodes -> SUBSET Txs]
      BY <1>3, <1>4 DEF Worlds
    <2>2. QED
      BY <1>1, <2>1
  <1> HIDE DEF pl
  <1>6. Takes(W, w, pend) /\ w.pool = pl /\ w.chain = chain
    BY <1>3, <1>4, <1>5 DEF Worlds, Takes
  <1> HIDE DEF w
  <1>7. Sound(w, pend, {}, chain, fetches) /\ Follows(W, w)
    <2>1. \A k \in Nodes : chain[k] \subseteq chain[k]
      OBVIOUS
    <2>2. QED
      BY <1>2, <1>6, <2>1, TakesLemma, TakesFollows DEF W
  <1>8. PoolOffered(w, pool) /\ PackSent(w, {})
    BY <1>2, <1>4, <1>7, OfferedFollows, PackFollows DEF W, Sound
  <1>9. /\ {t} \in SUBSET Txs /\ {t} \subseteq w.pool[n] /\ w.pool[n] \subseteq pool[n] \cup {t}
        /\ \A k \in Nodes : k # n => w.pool[k] \subseteq pool[k]
    BY <1>1, <1>5, <1>6
  <1>10. Sound(v, pend, {}, chain, fetches) /\ Grows(w, v) /\ PoolOffered(v, v.pool)
    <2>1. v = IF {t} = {} THEN w ELSE BroadcastTxs(w, n, {t})
      OBVIOUS
    <2> HIDE DEF v
    <2>2. QED
      BY <1>2, <1>7, <1>8, <1>9, <2>1, NewTxsLemma
  <1> HIDE DEF v
  <1>11. PackSent(v, {}) /\ v.chain = chain
    BY <1>6, <1>8, <1>10, GrowsFollows, PackFollows DEF Grows, SameLists
  <1>12. Good(v, pend, fetches)
    BY <1>10, <1>11 DEF Good
  <1>13. QED
    BY <1>1, <1>2, <1>12, KeepsLemma


\* Drop: closing an end of itself.
LEMMA DropLemma ==
    ASSUME IInv, NEW e \in open, Drop(e[1], e[2])
    PROVE  IInv'
  <1> DEFINE W == World
             v == Close(W, e[1], e[2])
  <1>1. Becomes(v) /\ UNCHANGED <<conns, pend, online, fetches>>
    BY DEF Drop
  <1>2. /\ ConnsOK /\ fetches \subseteq Fetches /\ Sound(W, pend, {}, chain, fetches)
        /\ PackSent(W, {}) /\ PoolOffered(W, pool)
    BY DEF IInv
  <1>3. W.open = open /\ W.pool = pool /\ W.chain = chain
    BY WorldLemma
  <1> HIDE DEF W
  <1>4. <<e[1], e[2]>> \in AllEnds
    <2>1. open \subseteq AllEnds
      BY <1>2, <1>3 DEF Sound, Worlds
    <2>2. QED
      BY <2>1 DEF AllEnds
  <1>5. v \in Worlds /\ Shrinks(W, v) /\ SameLists(W, v) /\ SameTraffic(W, v)
    BY <1>2, <1>4, CloseLemma DEF Sound
  <1> HIDE DEF v
  <1>6. Sound(v, pend, {}, chain, fetches) /\ Grows(W, v)
    BY <1>2, <1>5, ClosingLemma, CloseGrows
  <1>7. Follows(W, v) /\ v.pool = pool /\ v.chain = chain
    BY <1>3, <1>5, <1>6, GrowsFollows DEF SameLists
  <1>8. PackSent(v, {}) /\ PoolOffered(v, pool)
    BY <1>2, <1>7, PackFollows, OfferedFollows DEF Sound
  <1>9. Good(v, pend, fetches)
    BY <1>6, <1>7, <1>8 DEF Good
  <1>10. QED
    BY <1>1, <1>2, <1>9, KeepsLemma

\* Stop: all the node's ends are closed, whatever the order.
LEMMA StopLemma ==
    ASSUME IInv, NEW n \in Nodes, Stop(n)
    PROVE  IInv'
  <1> DEFINE W == World
             U == {e \in open : e[1] = n}
             v == CloseEnds(W, n, U)
  <1>1. Becomes(v) /\ UNCHANGED <<conns, pend, fetches>> /\ online' = [online EXCEPT ![n] = FALSE]
    BY DEF Stop, CloseEnds
  <1>2. /\ ConnsOK /\ fetches \subseteq Fetches /\ Sound(W, pend, {}, chain, fetches)
        /\ PackSent(W, {}) /\ PoolOffered(W, pool) /\ online \in [Nodes -> BOOLEAN]
        /\ pend \subseteq AllEnds
    BY DEF IInv
  <1>3. W.open = open /\ W.pool = pool /\ W.chain = chain
    BY WorldLemma
  <1> HIDE DEF W
  <1>4. open \subseteq AllEnds
    BY <1>2, <1>3 DEF Sound, Worlds
  <1>5. \A e \in U : <<n, e[2]>> \in AllEnds
    BY <1>4 DEF AllEnds
  <1>6. IsFiniteSet(U)
    <2>1. IsFiniteSet({n} \X DOMAIN conns)
      BY <1>2, FiniteLemma, FS_Singleton, FS_Product
    <2>2. U \subseteq {n} \X DOMAIN conns
      BY <1>4 DEF AllEnds
    <2>3. QED
      BY <2>1, <2>2, FS_Subset
  <1> HIDE DEF U
  <1>7. v \in Reached(W, pend, {}, chain, fetches) /\ \A e \in U : <<n, e[2]>> \notin v.open
    BY <1>2, <1>5, <1>6, CloseEndsLemma
  <1> HIDE DEF v
  <1>8. Sound(v, pend, {}, chain, fetches) /\ Grows(W, v)
    BY <1>7 DEF Reached
  <1>9. Follows(W, v) /\ v.pool = pool /\ v.chain = chain
    BY <1>3, <1>8, GrowsFollows DEF Grows, SameLists
  <1>10. Good(v, pend, fetches)
    <2>1. PackSent(v, {}) /\ PoolOffered(v, pool)
      BY <1>2, <1>9, PackFollows, OfferedFollows DEF Sound
    <2>2. QED
      BY <1>8, <1>9, <2>1 DEF Good
  <1>11. online' \in [Nodes -> BOOLEAN]
    BY <1>1, <1>2
  <1>12. ASSUME NEW k \in Nodes, ~online'[k], NEW c \in v.peers[k]
         PROVE  <<k, c>> \notin v.open
    <2>1. CASE k = n
      <3>1. SUFFICES ASSUME <<n, c>> \in v.open PROVE FALSE
        BY <2>1
      <3>2. <<n, c>> \in open
        BY <1>3, <1>9, <3>1 DEF Follows
      <3>3. <<n, c>> \in U
        BY <3>2 DEF U
      <3>4. QED
        BY <1>7, <3>1, <3>3
    <2>2. CASE k # n
      <3>1. ~online[k]
        BY <1>1, <1>2, <1>12, <2>2
      <3>2. QED
        BY <1>8, <1>12, <3>1 DEF Sound, OfflineClosed
    <2>3. QED
      BY <2>1, <2>2
  <1>13. pend' = pend /\ fetches' = fetches /\ conns' = conns
    BY <1>1
  <1>14. QED
    BY <1>1, <1>2, <1>10, <1>11, <1>12, <1>13, BecomesLemma

\* Start: the node has one more manager, that has nothing to do.
LEMMA StartNode ==
    ASSUME IInv, NEW n \in Nodes, Start(n)
    PROVE  IInv'
  <1> DEFINE W == World
             l == W.mgrs[n]
             l2 == Append(l, NewManager)
             mg == [W.mgrs EXCEPT ![n] = l2]
             w == [W EXCEPT !.mgrs = mg]
  <1>1. /\ ConnsOK /\ fetches \subseteq Fetches /\ Sound(W, pend, {}, chain, fetches)
        /\ PackSent(W, {}) /\ PoolOffered(W, pool) /\ online \in [Nodes -> BOOLEAN]
        /\ pend \subseteq AllEnds
    BY DEF IInv
  <1>2. /\ W.open = open /\ W.peers = peers /\ W.handshakePeers = handshakePeers
        /\ W.known = known /\ W.queue = queue /\ W.pool = pool
        /\ W.chain = chain /\ W.mgrs = mgrs /\ W.forgotten = forgotten /\ W.msgs = msgs
    BY WorldLemma
  <1> HIDE DEF W
  <1>3. W \in Worlds
    BY <1>1 DEF Sound
  <1>4. NewManager \in Manager
    BY DEF NewManager, Manager
  <1>5. l \in Seq(Manager)
    BY <1>3 DEF Worlds
  <1> HIDE DEF l
  <1>6. /\ l2 \in Seq(Manager) /\ l2 # << >>
        /\ \A g \in DOMAIN l : g \in DOMAIN l2 /\ l2[g] = l[g]
        /\ \A g \in DOMAIN l2 : g \notin DOMAIN l => l2[g] = NewManager
    BY <1>4, <1>5
  <1> HIDE DEF l2
  <1>7. /\ mg \in [Nodes -> Seq(Manager)]
        /\ \A k \in Nodes : mg[k] = IF k = n THEN l2 ELSE W.mgrs[k]
    BY <1>3, <1>6 DEF Worlds
  <1>8. /\ w \in Worlds /\ w.open = W.open /\ w.peers = W.peers
        /\ w.handshakePeers = W.handshakePeers /\ w.known = W.known /\ w.queue = W.queue
        /\ w.pool = W.pool /\ w.chain = W.chain /\ w.msgs = W.msgs
        /\ w.forgotten = W.forgotten /\ w.mgrs = mg
    BY <1>3, <1>7 DEF Worlds
  <1>9. Becomes(w)
    <2>1. mgrs' = mg
      BY <1>2 DEF Start, l, l2
    <2>2. UNCHANGED <<open, peers, handshakePeers, known, queue, pool, chain, forgotten, msgs>>
      BY DEF Start
    <2>3. QED
      BY <1>2, <1>8, <2>1, <2>2 DEF Becomes
  <1> HIDE DEF w, mg
  <1>10. \A k \in Nodes : /\ w.mgrs[k] # << >> /\ DOMAIN W.mgrs[k] \subseteq DOMAIN w.mgrs[k]
                          /\ \A g \in DOMAIN W.mgrs[k] : w.mgrs[k][g] = W.mgrs[k][g]
                          /\ \A g \in DOMAIN w.mgrs[k] :
                               g \notin DOMAIN W.mgrs[k] => w.mgrs[k][g] = NewManager
    <2>1. \A k \in Nodes : W.mgrs[k] # << >>
      BY <1>1 DEF Sound, EndsOwn
    <2>2. QED
      BY <1>6, <1>7, <1>8, <2>1 DEF l
  <1>11. ASSUME NEW k \in Nodes, NEW g \in DOMAIN w.mgrs[k], NEW s \in w.mgrs[k][g].pending
         PROVE  g \in DOMAIN W.mgrs[k] /\ s \in W.mgrs[k][g].pending
    <2>1. NewManager.pending = {}
      BY DEF NewManager
    <2>2. QED
      BY <1>10, <1>11, <2>1
  <1>12. Sound(w, pend, {}, chain, fetches)
    <2>1. \A k \in Nodes : \A g \in DOMAIN w.mgrs[k] : \A s \in w.mgrs[k][g].pending :
            k \in conns[s.c] /\ Settled(W, pend, k, s.c) /\ s.txs \subseteq W.pool[k]
      BY <1>1, <1>11 DEF Sound, EndsOwn, UsedSettled, ContentsOwn
    <2>2. ManagersChange(W, w, pend)
      BY <1>8, <1>10, <2>1 DEF ManagersChange
    <2>3. QED
      BY <1>1, <2>2, ManagersLemma
  <1>13. PackSent(w, {})
    <2>1. ASSUME NEW x \in w.msgs \cup {}, x.mgr # 0
          PROVE  /\ w.mgrs[x.from][x.mgr].sending /\ x.c = w.mgrs[x.from][x.mgr].pack
                 /\ \A y \in w.msgs \cup {} : y.from = x.from /\ y.mgr = x.mgr => y = x
      <3>1. x \in W.msgs /\ w.msgs = W.msgs /\ x.from \in Nodes /\ x.mgr \in DOMAIN W.mgrs[x.from]
        <4>1. x \in W.msgs /\ w.msgs = W.msgs
          BY <1>8
        <4>2. x \in Message /\ x.mgr \in DOMAIN W.mgrs[x.from]
          BY <1>1, <1>3, <2>1, <4>1 DEF Sound, ContentsOwn, Worlds
        <4>3. QED
          BY <4>1, <4>2 DEF Message
      <3>2. w.mgrs[x.from][x.mgr] = W.mgrs[x.from][x.mgr]
        BY <1>10, <3>1
      <3>3. QED
        BY <1>1, <2>1, <3>1, <3>2 DEF PackSent
    <2>2. ASSUME NEW k \in Nodes, NEW g \in DOMAIN w.mgrs[k]
          PROVE  /\ w.mgrs[k][g].pending # {} => w.mgrs[k][g].sending
                 /\ w.mgrs[k][g].sending => \E x \in w.msgs \cup {} : x.from = k /\ x.mgr = g
      <3>1. CASE g \in DOMAIN W.mgrs[k]
        BY <1>1, <1>8, <1>10, <3>1 DEF PackSent
      <3>2. CASE g \notin DOMAIN W.mgrs[k]
        BY <1>10, <3>2 DEF NewManager
      <3>3. QED
        BY <3>1, <3>2
    <2>3. QED
      BY <2>1, <2>2 DEF PackSent
  <1>14. PoolOffered(w, w.pool)
    BY <1>1, <1>2, <1>8, <1>10 DEF PoolOffered, ToSend
  <1>15. Good(w, pend, fetches)
    BY <1>2, <1>8, <1>12, <1>13, <1>14 DEF Good
  <1>16. /\ UNCHANGED <<conns, pend, fetches>> /\ online' = [online EXCEPT ![n] = TRUE]
         /\ online' \in [Nodes -> BOOLEAN]
    BY <1>1 DEF Start
  <1>17. \A k \in Nodes : ~online'[k] => \A c \in w.peers[k] : <<k, c>> \notin w.open
    BY <1>1, <1>12, <1>16 DEF Sound, OfflineClosed
  <1>18. conns' = conns /\ pend = pend' /\ fetches = fetches'
    BY <1>16
  <1>19. QED
    BY <1>1, <1>9, <1>15, <1>16, <1>17, <1>18, BecomesLemma

\* ConnectFails.
LEMMA ConnectFailsLemma ==
    ASSUME IInv, NEW e \in pend, ConnectFails(e[1], e[2])
    PROVE  IInv'
  <1> DEFINE W == World
             pd == pend \ {e}
  <1>1. /\ ConnsOK /\ fetches \subseteq Fetches /\ Sound(W, pend, {}, chain, fetches)
        /\ PackSent(W, {}) /\ PoolOffered(W, pool) /\ online \in [Nodes -> BOOLEAN]
        /\ pend \subseteq AllEnds
    BY DEF IInv
  <1>2. Becomes(W)
    BY WorldLemma DEF ConnectFails, Becomes
  <1>3. W.pool = pool /\ W.chain = chain
    BY WorldLemma
  <1> HIDE DEF W
  <1>4. conns' = conns /\ pend' = pd /\ fetches' = fetches /\ online' = online
    <2>1. e = <<e[1], e[2]>>
      BY <1>1 DEF AllEnds
    <2>2. QED
      BY <2>1 DEF ConnectFails
  <1>5. pd \subseteq pend
    OBVIOUS
  <1> HIDE DEF pd
  <1>6. /\ W \in Worlds /\ EndsOwn(W) /\ OneEach(W) /\ OfflineClosed(W) /\ ContentsOwn(W, chain)
        /\ TxMarksTrue(W, {}) /\ BlockMarksTrue(W, {}, fetches)
    BY <1>1 DEF Sound
  <1>7. OneOpen(W, pd)
    <2>1. W.open \cap pend = {}
      BY <1>1 DEF Sound, OneOpen
    <2>2. W.open \cap pd = {}
      BY <1>5, <2>1
    <2>3. QED
      BY <1>1, <2>2 DEF Sound, OneOpen
  <1>8. UsedSettled(W, pd)
    BY <1>1, <1>5 DEF Sound, UsedSettled, Settled
  <1>9. Shaking(W, {})
    BY <1>1 DEF Sound
  <1>10. Good(W, pd, fetches)
    BY <1>1, <1>3, <1>6, <1>7, <1>8, <1>9 DEF Sound, Good
  <1>11. pd \subseteq AllEnds /\ pd = pend' /\ fetches = fetches' /\ online' \in [Nodes -> BOOLEAN]
    BY <1>1, <1>4, <1>5
  <1>12. \A k \in Nodes : ~online'[k] => \A c \in W.peers[k] : <<k, c>> \notin W.open
    BY <1>4, <1>6 DEF OfflineClosed
  <1>13. QED
    BY <1>1, <1>2, <1>4, <1>10, <1>11, <1>12, BecomesLemma


\* The chains once a node has a block.
Chains(w, n, b) == [k \in Nodes |-> IF k = n THEN w.chain[n] \cup {b} ELSE w.chain[k]]

(***************************************************************************)
(* The whole handling of a block: it is spread while it is imported.       *)
(***************************************************************************)
LEMMA BlockLemma ==
    ASSUME ConnsOK, NEW pd, NEW X, NEW fs, NEW w, NEW n \in Nodes, NEW b \in Blocks,
           Sound(w, pd, X, Chains(w, n, b), fs), PackSent(w, {}), PoolOffered(w, w.pool),
           NEW transfer \in Transfers(w, n, b), NEW v, v = Spread(w, n, b, transfer)
    PROVE  /\ Sound(v, pd, X, v.chain, fs) /\ PackSent(v, {}) /\ PoolOffered(v, v.pool)
           /\ v.chain = Chains(w, n, b)
  <1>1. transfer \in SUBSET w.peers[n]
    BY DEF Transfers, PeersWithoutBlock
  <1>2. b \in Chains(w, n, b)[n]
    BY DEF Chains
  <1>3. /\ Sound(v, pd, X, Chains(w, n, b), fs) /\ Follows(w, v) /\ v.pool = w.pool
        /\ v.chain = Chains(w, n, b)
    <2>1. /\ Sound(v, pd, X, Chains(w, n, b), fs) /\ Follows(w, v) /\ v.pool = w.pool
          /\ v.chain = [k \in Nodes |-> IF k = n THEN w.chain[n] \cup {b} ELSE w.chain[k]]
      BY <1>1, <1>2, SpreadLemma
    <2>2. QED
      BY <2>1 DEF Chains
  <1>4. PackSent(v, {}) /\ PoolOffered(v, v.pool)
    BY <1>3, PackFollows, OfferedFollows DEF Sound
  <1>5. QED
    BY <1>3, <1>4

\* Mine: the miner has the block already when it is spread.
LEMMA MineLemma ==
    ASSUME IInv, NEW n \in Nodes, NEW b \in Blocks, Mine(n, b)
    PROVE  IInv'
  <1> DEFINE W == World
             ch == [chain EXCEPT ![n] = @ \cup {b}]
             w == [W EXCEPT !.chain = ch]
  <1>1. UNCHANGED <<conns, pend, online, fetches>>
    BY DEF Mine
  <1>2. \E transfer \in Transfers(w, n, b) : Becomes(Spread(w, n, b, transfer))
    <2>1. w = [World EXCEPT !.chain[n] = @ \cup {b}]
      BY DEF World
    <2>2. \E u \in {[World EXCEPT !.chain[n] = @ \cup {b}]} :
            \E transfer \in Transfers(u, n, b) : Becomes(Spread(u, n, b, transfer))
      BY DEF Mine
    <2> HIDE DEF w
    <2>3. \A u \in {w} : u = w
      OBVIOUS
    <2>4. QED
      BY <2>1, <2>2
  <1>3. PICK transfer \in Transfers(w, n, b) : Becomes(Spread(w, n, b, transfer))
    BY <1>2
  <1>4. /\ ConnsOK /\ fetches \subseteq Fetches /\ Sound(W, pend, {}, chain, fetches)
        /\ PackSent(W, {}) /\ PoolOffered(W, pool)
    BY DEF IInv
  <1>5. W.chain = chain /\ W.pool = pool
    BY WorldLemma
  <1> HIDE DEF W
  <1>6. W \in Worlds
    BY <1>4 DEF Sound
  <1>7. /\ ch \in [Nodes -> SUBSET Blocks]
        /\ \A k \in Nodes : ch[k] = IF k = n THEN chain[n] \cup {b} ELSE chain[k]
    <2>1. chain \in [Nodes -> SUBSET Blocks]
      BY <1>5, <1>6 DEF Worlds
    <2>2. QED
      BY <2>1
  <1> HIDE DEF ch
  <1>8. Takes(W, w, pend) /\ w.chain = ch /\ w.pool = pool
    BY <1>5, <1>6, <1>7 DEF Worlds, Takes
  <1> HIDE DEF w
  <1>9. Chains(w, n, b) = ch
    BY <1>7, <1>8 DEF Chains
  <1>10. Sound(w, pend, {}, ch, fetches) /\ Follows(W, w)
    <2>1. \A k \in Nodes : chain[k] \subseteq ch[k]
      BY <1>7
    <2>2. QED
      BY <1>4, <1>8, <2>1, TakesLemma, TakesFollows
  <1>11. PackSent(w, {}) /\ PoolOffered(w, w.pool)
    BY <1>4, <1>6, <1>8, <1>10, PackFollows, OfferedFollows DEF Sound
  <1> DEFINE v == Spread(w, n, b, transfer)
  <1>12. v = Spread(w, n, b, transfer)
    OBVIOUS
  <1> HIDE DEF v
  <1>13. Sound(v, pend, {}, v.chain, fetches) /\ PackSent(v, {}) /\ PoolOffered(v, v.pool)
    BY <1>4, <1>9, <1>10, <1>11, <1>12, BlockLemma
  <1>14. Good(v, pend, fetches)
    BY <1>13 DEF Good
  <1>15. QED
    BY <1>1, <1>3, <1>4, <1>12, <1>14, KeepsLemma

\* A block is marked at an end.
Marked(w, n, d, b) == [w EXCEPT !.known[<<n, d>>].blocks = @ \cup {b}]

\* A mark for a block that the other node has.
LEMMA MarkedLemma ==
    ASSUME NEW w \in Worlds, NEW n, NEW d, <<n, d>> \in AllEnds, NEW pd, Settled(w, pd, n, d),
           NEW b \in Blocks, b \in w.chain[Remote(n, d)], NEW v, v = Marked(w, n, d, b)
    PROVE  Takes(w, v, pd) /\ v.chain = w.chain /\ v.pool = w.pool
  <1> DEFINE e == <<n, d>>
             k == [w.known[e] EXCEPT !.blocks = @ \cup {b}]
             kn == [w.known EXCEPT ![e] = k]
  <1>1. e \in AllEnds /\ w.known \in [AllEnds -> Marks] /\ e[1] = n /\ e[2] = d
    BY DEF Worlds
  <1>2. v = [w EXCEPT !.known[e].blocks = @ \cup {b}]
    BY DEF Marked
  <1>3. v = [w EXCEPT !.known = kn]
    BY <1>1, <1>2 DEF Worlds
  <1> HIDE DEF e
  <1>4. k \in Marks /\ k.txs = w.known[e].txs /\ k.blocks = w.known[e].blocks \cup {b}
    BY <1>1 DEF Marks
  <1> HIDE DEF k
  <1>5. /\ kn \in [AllEnds -> Marks] /\ kn[e] = k
        /\ \A f \in AllEnds : f # e => kn[f] = w.known[f]
    BY <1>1, <1>4
  <1> HIDE DEF kn
  <1>6. /\ v \in Worlds /\ v.open = w.open /\ v.peers = w.peers
        /\ v.handshakePeers = w.handshakePeers /\ v.queue = w.queue /\ v.msgs = w.msgs
        /\ v.mgrs = w.mgrs /\ v.forgotten = w.forgotten /\ v.chain = w.chain
        /\ v.known = kn /\ v.pool = w.pool
    BY <1>3, <1>5 DEF Worlds
  <1>7. ASSUME NEW f \in AllEnds, v.known[f] # w.known[f]
        PROVE  /\ Settled(w, pd, f[1], f[2])
               /\ w.known[f].txs \subseteq v.known[f].txs
               /\ \A t \in v.known[f].txs \ w.known[f].txs : t \in v.pool[Remote(f[1], f[2])]
               /\ \A x \in v.known[f].blocks \ w.known[f].blocks :
                    x \in v.chain[Remote(f[1], f[2])]
    <2>1. f = e
      BY <1>5, <1>6, <1>7
    <2>2. f[1] = n /\ f[2] = d
      BY <1>1, <2>1
    <2>3. QED
      BY <1>4, <1>5, <1>6, <2>1, <2>2
  <1>8. QED
    BY <1>6, <1>7 DEF Takes

\* The peer at which a message arrives.
LEMMA ArrivesLemma ==
    ASSUME IInv, NEW m \in msgs, m.type \in {"block", "hash"},
           NEW d \in nodesEthPeer(Remote(m.from, m.c), m.from),
           NEW v, v = Marked(Taking(m), Remote(m.from, m.c), d, m.content)
    PROVE  /\ Takes(Taking(m), v, pend) /\ v.chain = chain /\ v.pool = pool
           /\ d \in DOMAIN conns /\ conns[d] = conns[m.c] /\ m.content \in Blocks
           /\ Remote(m.from, m.c) \in Nodes /\ Remote(m.from, m.c) \in conns[d]
  <1> DEFINE w == Taking(m)
             to == Remote(m.from, m.c)
  <1>1. /\ TakingFields(w, m) /\ EndsOf(m) /\ ConnsOK
        /\ Sound(w, pend, {m}, chain, fetches) /\ m.content \in chain[m.from]
    BY TakingLemma DEF IInv
  <1>2. d \in w.peers[to] /\ Remote(to, d) = m.from
    BY <1>1 DEF nodesEthPeer, PeerOf, TakingFields
  <1>3. to \in Nodes /\ m.from \in Nodes /\ conns[m.c] = {m.from, to}
    BY <1>1 DEF EndsOf
  <1>4. v = Marked(w, to, d, m.content)
    OBVIOUS
  <1> HIDE DEF w, to
  <1>5. <<to, d>> \in AllEnds /\ Settled(w, pend, to, d)
    BY <1>1, <1>2, <1>3, PeersLemma
  <1>6. d \in DOMAIN conns /\ to \in conns[d] /\ conns[d] = {to, Remote(to, d)}
    <2>1. d \in DOMAIN conns /\ to \in conns[d]
      BY <1>5 DEF AllEnds
    <2>2. QED
      BY <1>1, <2>1, RemoteLemma
  <1>7. w \in Worlds /\ w.chain = chain /\ w.pool = pool
    BY <1>1 DEF Sound, TakingFields
  <1>8. m.content \in Blocks /\ m.content \in w.chain[Remote(to, d)]
    <2>1. w.chain[m.from] \subseteq Blocks
      BY <1>3, <1>7 DEF Worlds
    <2>2. QED
      BY <1>1, <1>2, <1>7, <2>1
  <1>9. Takes(w, v, pend) /\ v.chain = w.chain /\ v.pool = w.pool
    BY <1>4, <1>5, <1>7, <1>8, MarkedLemma
  <1>10. conns[d] = conns[m.c]
    BY <1>2, <1>3, <1>6
  <1>11. QED
    BY <1>3, <1>6, <1>7, <1>8, <1>9, <1>10 DEF w, to


\* A message that is not a pack fails.
LEMMA FailGood ==
    ASSUME IInv, NEW m \in msgs, m.mgr = 0, NEW v, v = Fail(Taking(m), m)
    PROVE  Good(v, pend, fetches)
  <1> DEFINE w == Taking(m)
  <1>1. /\ TakingFields(w, m) /\ Sound(w, pend, {m}, chain, fetches)
        /\ PoolOffered(w, pool) /\ PackSent(w, {})
    BY TakingLemma
  <1>2. Sound(v, pend, {}, chain, fetches) /\ Grows(w, v)
    BY FailLemma
  <1> HIDE DEF w
  <1>3. Follows(w, v) /\ v.pool = pool /\ v.chain = chain
    BY <1>1, <1>2, GrowsFollows DEF Grows, SameLists, TakingFields
  <1>4. PackSent(v, {}) /\ PoolOffered(v, pool)
    BY <1>1, <1>3, PackFollows, OfferedFollows DEF Sound
  <1>5. QED
    BY <1>2, <1>3, <1>4 DEF Good

\* Only packs have a manager.
LEMMA NoManager ==
    ASSUME IInv, NEW m \in msgs, m.type # "txs"
    PROVE  m.mgr = 0
  BY TakingLemma

\* ReceiveBlock.
LEMMA ReceiveBlockLemma ==
    ASSUME IInv, NEW m \in msgs, ReceiveBlock(m)
    PROVE  IInv'
  <1> DEFINE to == Remote(m.from, m.c)
             w == Taking(m)
             at == nodesEthPeer(to, m.from)
             b == m.content
  <1>1. m.type = "block" /\ UNCHANGED <<conns, pend, online, fetches>>
    BY DEF ReceiveBlock
  <1>2. IF at = {} THEN Becomes(Fail(w, m))
        ELSE \E d \in at : \E u \in {Marked(w, to, d, b)} :
               \E transfer \in Transfers(u, to, b) : Becomes(Spread(u, to, b, transfer))
    BY DEF ReceiveBlock, Taking, Marked
  <1>3. m.mgr = 0
    BY <1>1, NoManager
  <1>4. ConnsOK /\ fetches \subseteq Fetches
    BY DEF IInv
  <1>5. CASE at = {}
    BY <1>1, <1>2, <1>3, <1>4, <1>5, FailGood, KeepsLemma
  <1>6. CASE at # {}
    <2> HIDE DEF at, w, to, b
    <2>1. PICK d \in at : \E u \in {Marked(w, to, d, b)} :
               \E transfer \in Transfers(u, to, b) : Becomes(Spread(u, to, b, transfer))
      BY <1>2, <1>6
    <2> DEFINE u == Marked(w, to, d, b)
    <2>2. PICK transfer \in Transfers(u, to, b) : Becomes(Spread(u, to, b, transfer))
      BY <2>1
    <2>3. /\ Takes(w, u, pend) /\ u.chain = chain /\ u.pool = pool
          /\ conns[d] = conns[m.c] /\ b \in Blocks /\ to \in Nodes
      BY <1>1, ArrivesLemma DEF at, w, to, b
    <2> HIDE DEF u
    <2>4. /\ Sound(w, pend, {m}, chain, fetches) /\ PackSent(w, {}) /\ PoolOffered(w, pool)
      BY <1>3, TakingLemma DEF w
    <2>5. Sound(u, pend, {m}, Chains(u, to, b), fetches) /\ Follows(w, u)
      <3>1. \A k \in Nodes : chain[k] \subseteq Chains(u, to, b)[k]
        BY <2>3 DEF Chains
      <3>2. QED
        BY <1>4, <2>3, <2>4, <3>1, TakesLemma, TakesFollows
    <2>6. PackSent(u, {}) /\ PoolOffered(u, u.pool)
      BY <2>3, <2>4, <2>5, PackFollows, OfferedFollows DEF Sound
    <2> DEFINE v == Spread(u, to, b, transfer)
    <2>7. v = Spread(u, to, b, transfer)
      OBVIOUS
    <2> HIDE DEF v
    <2>8. /\ Sound(v, pend, {m}, v.chain, fetches) /\ PackSent(v, {}) /\ PoolOffered(v, v.pool)
          /\ v.chain = Chains(u, to, b)
      BY <1>4, <2>3, <2>5, <2>6, <2>7, BlockLemma
    <2>9. Handled(v, fetches, m)
      BY <1>1, <2>3, <2>8 DEF Handled, Chains, to, b
    <2>10. Good(v, pend, fetches)
      BY <2>8, <2>9, HandledLemma DEF Good
    <2>11. QED
      BY <1>1, <1>4, <2>2, <2>7, <2>10, KeepsLemma
  <1>7. QED
    BY <1>5, <1>6

\* ReceiveHash: the block is there, or it is fetched.
LEMMA ReceiveHashLemma ==
    ASSUME IInv, NEW m \in msgs, ReceiveHash(m)
    PROVE  IInv'
  <1> DEFINE to == Remote(m.from, m.c)
             w == Taking(m)
             at == nodesEthPeer(to, m.from)
             b == m.content
  <1>1. m.type = "hash" /\ UNCHANGED <<conns, pend, online>>
    BY DEF ReceiveHash
  <1>2. IF at = {} THEN Becomes(Fail(w, m)) /\ UNCHANGED fetches
        ELSE \E d \in at :
               /\ Becomes(Marked(w, to, d, b))
               /\ fetches' = IF b \in chain[to] THEN fetches
                             ELSE fetches \cup {[node |-> to, c |-> d, block |-> b]}
    BY DEF ReceiveHash, Taking, Marked
  <1>3. m.mgr = 0
    BY <1>1, NoManager
  <1>4. ConnsOK /\ fetches \subseteq Fetches
    BY DEF IInv
  <1>5. CASE at = {}
    BY <1>1, <1>2, <1>3, <1>4, <1>5, FailGood, KeepsLemma
  <1>6. CASE at # {}
    <2> HIDE DEF at, w, to, b
    <2>1. PICK d \in at :
               /\ Becomes(Marked(w, to, d, b))
               /\ fetches' = IF b \in chain[to] THEN fetches
                             ELSE fetches \cup {[node |-> to, c |-> d, block |-> b]}
      BY <1>2, <1>6
    <2> DEFINE v == Marked(w, to, d, b)
               f == [node |-> to, c |-> d, block |-> b]
    <2>2. /\ Takes(w, v, pend) /\ v.chain = chain /\ v.pool = pool
          /\ d \in DOMAIN conns /\ conns[d] = conns[m.c] /\ b \in Blocks /\ to \in Nodes
          /\ to \in conns[d]
      BY <1>1, ArrivesLemma DEF at, w, to, b
    <2>3. f \in Fetches /\ f.node = to /\ f.block = b /\ f.c = d
      BY <2>2 DEF Fetches
    <2>4. Becomes(v)
      BY <2>1
    <2> HIDE DEF v, f
    <2>5. PICK fs : fs = fetches'
      OBVIOUS
    <2>6. fs = IF b \in chain[to] THEN fetches ELSE fetches \cup {f}
      BY <2>1, <2>5 DEF f
    <2>7. fs \subseteq Fetches /\ fetches \subseteq fs
      BY <1>4, <2>3, <2>6
    <2>8. /\ Sound(w, pend, {m}, chain, fetches) /\ PackSent(w, {}) /\ PoolOffered(w, pool)
      BY <1>3, TakingLemma DEF w
    <2>9. Sound(v, pend, {m}, chain, fs) /\ Follows(w, v)
      <3>1. \A k \in Nodes : chain[k] \subseteq chain[k]
        OBVIOUS
      <3>2. QED
        BY <1>4, <2>2, <2>7, <2>8, <3>1, TakesLemma, TakesFollows
    <2>10. PackSent(v, {}) /\ PoolOffered(v, v.pool)
      BY <2>2, <2>8, <2>9, PackFollows, OfferedFollows DEF Sound
    <2>11. Handled(v, fs, m)
      <3>1. b \in v.chain[to] \/ Fetched(fs, to, m.c, b)
        BY <2>2, <2>3, <2>6 DEF Fetched
      <3>2. QED
        BY <1>1, <3>1 DEF Handled, to, b
    <2>12. Good(v, pend, fs)
      BY <2>2, <2>9, <2>10, <2>11, HandledLemma DEF Good
    <2>13. QED
      BY <1>1, <1>4, <2>4, <2>5, <2>7, <2>12, KeepsLemma
  <1>7. QED
    BY <1>5, <1>6

(***************************************************************************)
(* A fetch ends: the block is there, or no end in use waits for it.        *)
(***************************************************************************)
LEMMA FetchedLemma ==
    ASSUME NEW w, NEW pd, NEW X, NEW ch, NEW fs, Sound(w, pd, X, ch, fs), NEW f,
           \/ f.block \in w.chain[f.node]
           \/ \A n \in Nodes : \A c \in w.peers[n] :
                ~(<<n, c>> \in w.open /\ Remote(n, c) = f.node /\ conns[f.c] = conns[c])
    PROVE  Sound(w, pd, X, ch, fs \ {f})
  <1>1. BlockMarksTrue(w, X, fs \ {f})
    <2> SUFFICES ASSUME NEW n \in Nodes, NEW c \in w.peers[n], <<n, c>> \in w.open,
                        NEW b \in w.known[<<n, c>>].blocks
                 PROVE  \/ b \in w.chain[Remote(n, c)] \/ BlockOnWay(w, X, n, c, b)
                        \/ Fetched(fs \ {f}, Remote(n, c), c, b)
      BY DEF BlockMarksTrue
    <2>1. \/ b \in w.chain[Remote(n, c)] \/ BlockOnWay(w, X, n, c, b)
          \/ Fetched(fs, Remote(n, c), c, b)
      BY DEF Sound, BlockMarksTrue
    <2>2. CASE Fetched(fs, Remote(n, c), c, b)
      <3>1. PICK x \in fs : x.node = Remote(n, c) /\ x.block = b /\ conns[x.c] = conns[c]
        BY <2>2 DEF Fetched
      <3>2. CASE x = f
        BY <3>1, <3>2
      <3>3. CASE x # f
        BY <3>1, <3>3 DEF Fetched
      <3>4. QED
        BY <3>2, <3>3
    <2>3. QED
      BY <2>1, <2>2
  <1>2. QED
    BY <1>1 DEF Sound

\* Fetch.
LEMMA FetchLemma ==
    ASSUME IInv, NEW f \in fetches, Fetch(f)
    PROVE  IInv'
  <1> DEFINE W == World
             from == Remote(f.node, f.c)
             there == nodesEthPeer(from, f.node) # {}
             fs == fetches \ {f}
  <1>1. /\ UNCHANGED <<conns, pend, online>> /\ fs = fetches'
        /\ IF f.block \in chain[f.node] \/ ~there THEN Becomes(W)
           ELSE \E transfer \in Transfers(W, f.node, f.block) :
                  Becomes(Spread(W, f.node, f.block, transfer))
    BY DEF Fetch
  <1>2. /\ ConnsOK /\ fetches \subseteq Fetches /\ Sound(W, pend, {}, chain, fetches)
        /\ PackSent(W, {}) /\ PoolOffered(W, pool)
    BY DEF IInv
  <1>3. W.pool = pool /\ W.chain = chain /\ W.peers = peers
    BY WorldLemma
  <1> HIDE DEF W
  <1>4. fs \subseteq Fetches
    BY <1>2
  <1>5. f.node \in Nodes /\ f.block \in Blocks /\ f.c \in DOMAIN conns /\ f.node \in conns[f.c]
    BY <1>2 DEF Fetches
  <1>6. CASE f.block \in chain[f.node] \/ ~there
    <2>1. ASSUME ~there, NEW n \in Nodes, NEW c \in W.peers[n], <<n, c>> \in W.open,
                 Remote(n, c) = f.node, conns[f.c] = conns[c]
          PROVE  FALSE
      <3>1. c \in DOMAIN conns /\ n \in conns[c]
        BY <1>2, PeersLemma DEF AllEnds
      <3>2. conns[c] = {n, f.node} /\ n # f.node
        BY <1>2, <2>1, <3>1, RemoteLemma
      <3>3. conns[f.c] = {f.node, from} /\ from # f.node
        BY <1>2, <1>5, RemoteLemma
      <3>4. from = n
        BY <2>1, <3>2, <3>3
      <3>5. online[n]
        BY <1>2, <2>1 DEF Sound, OfflineClosed
      <3>6. c \in nodesEthPeer(n, f.node)
        BY <1>3, <2>1, <3>5 DEF nodesEthPeer, PeerOf
      <3>7. QED
        BY <2>1, <3>4, <3>6
    <2>2. Sound(W, pend, {}, chain, fs)
      BY <1>2, <1>3, <1>6, <2>1, FetchedLemma
    <2>3. Good(W, pend, fs)
      BY <1>2, <1>3, <2>2 DEF Good
    <2>4. QED
      BY <1>1, <1>4, <1>6, <2>3, KeepsLemma
  <1>7. CASE ~(f.block \in chain[f.node] \/ ~there)
    <2> DEFINE n == f.node
               b == f.block
    <2>1. PICK transfer \in Transfers(W, n, b) : Becomes(Spread(W, n, b, transfer))
      BY <1>1, <1>7
    <2> DEFINE v == Spread(W, n, b, transfer)
    <2>2. v = Spread(W, n, b, transfer) /\ Becomes(v)
      BY <2>1
    <2> HIDE DEF v
    <2>3. Sound(W, pend, {}, Chains(W, n, b), fetches)
      <3>1. \A k \in Nodes : chain[k] \subseteq Chains(W, n, b)[k]
        BY <1>3 DEF Chains
      <3>2. Takes(W, W, pend)
        BY <1>2 DEF Takes, Sound
      <3>3. QED
        BY <1>2, <3>1, <3>2, TakesLemma
    <2>4. /\ Sound(v, pend, {}, v.chain, fetches) /\ PackSent(v, {}) /\ PoolOffered(v, v.pool)
          /\ v.chain = Chains(W, n, b)
      BY <1>2, <1>3, <1>5, <2>2, <2>3, BlockLemma
    <2>5. f.block \in v.chain[f.node]
      BY <1>5, <2>4 DEF Chains
    <2>6. Sound(v, pend, {}, v.chain, fs)
      BY <2>4, <2>5, FetchedLemma
    <2>7. Good(v, pend, fs)
      BY <2>4, <2>6 DEF Good
    <2>8. QED
      BY <1>1, <1>4, <2>2, <2>7, KeepsLemma
  <1>8. QED
    BY <1>6, <1>7

\* Fewer peers wait for a status.
FewerWait(w, v) ==
  /\ v \in Worlds /\ v.open = w.open /\ v.peers = w.peers /\ v.known = w.known
  /\ v.queue = w.queue /\ v.pool = w.pool /\ v.chain = w.chain /\ v.mgrs = w.mgrs
  /\ v.forgotten = w.forgotten /\ v.msgs = w.msgs
  /\ \A k \in Nodes : v.handshakePeers[k] \subseteq w.handshakePeers[k]

\* That fewer peers wait for a status is no concern of the others.
LEMMA FewerWaitLemma ==
    ASSUME ConnsOK, NEW pd, NEW X, NEW ch, NEW fs, NEW w, Sound(w, pd, X, ch, fs),
           NEW v, FewerWait(w, v)
    PROVE  /\ Sound(v, pd, X, ch, fs)
           /\ PackSent(w, {}) => PackSent(v, {})
           /\ \A pl : PoolOffered(w, pl) => PoolOffered(v, pl)
  <1>1. EndsOwn(v) /\ OneEach(v) /\ OneOpen(v, pd) /\ OfflineClosed(v) /\ ContentsOwn(v, ch)
    BY DEF Sound, EndsOwn, OneEach, OneOpen, OfflineClosed, ContentsOwn, FewerWait
  <1>2. UsedSettled(v, pd)
    BY DEF Sound, UsedSettled, Settled, FewerWait
  <1>3. TxMarksTrue(v, X) /\ BlockMarksTrue(v, X, fs) /\ Shaking(v, X)
    BY DEF Sound, TxMarksTrue, TxOnWay, BlockMarksTrue, BlockOnWay, Shaking, HasPeer,
           StatusOnWay, FewerWait
  <1>4. Sound(v, pd, X, ch, fs)
    BY <1>1, <1>2, <1>3 DEF Sound, FewerWait
  <1>5. PackSent(w, {}) => PackSent(v, {})
    BY DEF PackSent, FewerWait
  <1>6. \A pl : PoolOffered(w, pl) => PoolOffered(v, pl)
    BY DEF PoolOffered, ToSend, FewerWait
  <1>7. QED
    BY <1>4, <1>5, <1>6

\* The peer that waited is registered, and its transactions are sent.
AddPeer(w, n, c) == [w EXCEPT !.peers[n] = @ \cup {c}]

\* What changes when a peer is registered.
LEMMA AddPeerLemma ==
    ASSUME NEW w \in Worlds, NEW n \in Nodes, NEW c \in DOMAIN conns, NEW v, v = AddPeer(w, n, c)
    PROVE  PeerAdded(w, v, n, c)
  <1> DEFINE p == [w.peers EXCEPT ![n] = @ \cup {c}]
  <1>1. v = [w EXCEPT !.peers = p]
    BY DEF AddPeer, Worlds
  <1>2. /\ p \in [Nodes -> SUBSET DOMAIN conns]
        /\ p = [k \in Nodes |-> IF k = n THEN w.peers[n] \cup {c} ELSE w.peers[k]]
    BY DEF Worlds
  <1> HIDE DEF p
  <1>3. QED
    BY <1>1, <1>2 DEF PeerAdded, Worlds

(***************************************************************************)
(* Registered: a second peer for a node is closed; the first is registered *)
(* and gets the pool.  Either way the status is dealt with.                *)
(***************************************************************************)
LEMMA RegisteredLemma ==
    ASSUME ConnsOK, NEW pd, NEW x, NEW ch, NEW fs, NEW w, Sound(w, pd, {x}, ch, fs),
           x.type = "status", NEW n \in Nodes, NEW c, <<n, c>> \in AllEnds, <<n, c>> \notin pd,
           online[n], n = Remote(x.from, x.c), conns[c] = conns[x.c],
           PackSent(w, {}), PoolOffered(w, w.pool), w.chain = ch,
           NEW v, v = Registered(w, n, c)
    PROVE  Good(v, pd, fs)
  <1>1. /\ c \in DOMAIN conns /\ n \in conns[c] /\ w \in Worlds
        /\ PeerOf(w.peers[n], n, Remote(n, c)) = {d \in w.peers[n] : conns[d] = conns[c]}
    <2>1. c \in DOMAIN conns /\ n \in conns[c] /\ w \in Worlds
      BY DEF AllEnds, Sound
    <2>2. w.peers[n] \in SUBSET DOMAIN conns /\ \A d \in w.peers[n] : n \in conns[d]
      BY <2>1 DEF Worlds, Sound, EndsOwn
    <2>3. QED
      BY <2>1, <2>2, PeerOfLemma
  <1>2. CASE HasPeer(w, n, c)
    <2>1. v = Close(w, n, c)
      BY <1>1, <1>2 DEF Registered, HasPeer
    <2>2. Handled(w, fs, x)
      BY <1>2 DEF Handled, HasPeer
    <2>3. Sound(w, pd, {}, ch, fs)
      BY <2>2, HandledLemma
    <2>4. v \in Worlds /\ Shrinks(w, v) /\ SameLists(w, v) /\ SameTraffic(w, v)
      BY <1>1, <2>1, CloseLemma DEF Sound
    <2>5. Sound(v, pd, {}, ch, fs) /\ Grows(w, v)
      BY <2>3, <2>4, ClosingLemma, CloseGrows
    <2>6. PackSent(v, {}) /\ PoolOffered(v, w.pool)
      BY <1>1, <2>5, GrowsFollows, PackFollows, OfferedFollows DEF Sound
    <2>7. QED
      BY <2>4, <2>5, <2>6 DEF Good, SameLists
  <1>3. CASE ~HasPeer(w, n, c)
    <2> DEFINE u == AddPeer(w, n, c)
    <2>1. v = syncTransactions(u, n, c)
      BY <1>1, <1>3 DEF Registered, HasPeer, AddPeer
    <2>2. PeerAdded(w, u, n, c)
      BY <1>1, AddPeerLemma
    <2> HIDE DEF u
    <2>3. /\ Sound(u, pd, {x}, ch, fs) /\ HasPeer(u, n, c)
          /\ PackSent(u, {}) /\ OthersOffered(u, n, c)
      BY <1>1, <1>3, <2>2, PeerAddedLemma
    <2>4. Handled(u, fs, x)
      BY <2>3 DEF Handled, HasPeer
    <2>5. Sound(u, pd, {}, ch, fs)
      BY <2>3, <2>4, HandledLemma
    <2>6. c \in u.peers[n] /\ u.chain = ch
      BY <2>2 DEF PeerAdded
    <2>7. /\ Sound(v, pd, {}, ch, fs) /\ PackSent(v, {}) /\ PoolOffered(v, u.pool)
          /\ v.pool = u.pool /\ v.chain = u.chain
      BY <2>1, <2>3, <2>5, <2>6, SyncLemma
    <2>8. QED
      BY <2>6, <2>7 DEF Good
  <1>4. QED
    BY <1>2, <1>3

\* The peers that waited are no longer among those that wait.
Answered(w, n, S) == [w EXCEPT !.handshakePeers[n] = @ \ S]

\* What changes when they no longer wait.
LEMMA AnsweredLemma ==
    ASSUME NEW w \in Worlds, NEW n \in Nodes, NEW S, NEW v, v = Answered(w, n, S)
    PROVE  FewerWait(w, v)
  <1> DEFINE p == [w.handshakePeers EXCEPT ![n] = @ \ S]
  <1>1. v = [w EXCEPT !.handshakePeers = p]
    BY DEF Answered, Worlds
  <1>2. /\ p \in [Nodes -> SUBSET DOMAIN conns]
        /\ \A k \in Nodes : p[k] \subseteq w.handshakePeers[k]
    BY DEF Worlds
  <1> HIDE DEF p
  <1>3. QED
    BY <1>1, <1>2 DEF FewerWait, Worlds

\* ReceiveStatus.
LEMMA ReceiveStatusLemma ==
    ASSUME IInv, NEW m \in msgs, ReceiveStatus(m)
    PROVE  IInv'
  <1> DEFINE to == Remote(m.from, m.c)
             W == Taking(m)
             waiting == IF ~m.dead /\ online[to] THEN PeerOf(handshakePeers[to], to, m.from) ELSE {}
             w == Answered(W, to, waiting)
  <1>1. m.type = "status" /\ UNCHANGED <<conns, pend, online, fetches>>
    BY DEF ReceiveStatus
  <1>2. /\ TakingFields(W, m) /\ EndsOf(m) /\ ConnsOK /\ fetches \subseteq Fetches
        /\ Sound(W, pend, {m}, chain, fetches) /\ PoolOffered(W, pool)
    BY TakingLemma DEF IInv
  <1>3. m.mgr = 0 /\ PackSent(W, {})
    BY <1>1, NoManager, TakingLemma
  <1>4. w = [World EXCEPT !.msgs = @ \ {m}, !.handshakePeers[to] = @ \ waiting]
    BY DEF World, Taking, Answered
  <1>5. Becomes(IF waiting = {} THEN Fail(w, m) ELSE Registered(w, to, CHOOSE d \in waiting : TRUE))
    BY <1>4 DEF ReceiveStatus
  <1>6. W \in Worlds /\ to \in Nodes
    BY <1>2 DEF Sound, EndsOf
  <1>7. CASE waiting = {}
    <2>1. w = W
      <3> HIDE DEF W
      <3>1. w = [W EXCEPT !.handshakePeers[to] = @ \ {}]
        BY <1>7 DEF Answered
      <3>2. W.handshakePeers[to] \ {} = W.handshakePeers[to]
        OBVIOUS
      <3>3. QED
        BY <1>6, <3>1, <3>2 DEF Worlds
    <2>2. Becomes(Fail(W, m))
      BY <1>5, <1>7, <2>1
    <2>3. Good(Fail(W, m), pend, fetches)
      BY <1>3, FailGood
    <2>4. QED
      BY <1>1, <1>2, <2>2, <2>3, KeepsLemma
  <1>8. CASE waiting # {}
    <2>1. PICK d \in waiting : d = CHOOSE x \in waiting : TRUE
      BY <1>8
    <2>2. online[to] /\ d \in W.handshakePeers[to] /\ Remote(to, d) = m.from
      BY <1>2, <2>1 DEF PeerOf, TakingFields
    <2> DEFINE v == Registered(w, to, d)
    <2>3. Becomes(v)
      BY <1>5, <1>8, <2>1
    <2> HIDE DEF W
    <2>4. FewerWait(W, w)
      BY <1>6, AnsweredLemma
    <2> HIDE DEF waiting, w
    <2>5. /\ Sound(w, pend, {m}, chain, fetches) /\ PackSent(w, {}) /\ PoolOffered(w, pool)
          /\ w.pool = pool /\ w.chain = chain
      BY <1>2, <1>3, <2>4, FewerWaitLemma DEF FewerWait, TakingFields
    <2>6. /\ d \in DOMAIN conns /\ to \in conns[d] /\ <<to, d>> \in AllEnds /\ <<to, d>> \notin pend
      BY <1>2, <1>6, <2>2 DEF Worlds, Sound, EndsOwn, UsedSettled, AllEnds
    <2>7. conns[d] = conns[m.c]
      <3>1. conns[d] = {to, m.from}
        BY <1>2, <2>2, <2>6, RemoteLemma
      <3>2. conns[m.c] = {m.from, to}
        BY <1>2 DEF EndsOf
      <3>3. QED
        BY <3>1, <3>2
    <2>8. v = Registered(w, to, d) /\ to = Remote(m.from, m.c)
      OBVIOUS
    <2> HIDE DEF v, to
    <2>9. Good(v, pend, fetches)
      BY <1>1, <1>2, <1>6, <2>2, <2>5, <2>6, <2>7, <2>8, RegisteredLemma
    <2>10. QED
      BY <1>1, <1>2, <2>3, <2>9, KeepsLemma
  <1>9. QED
    BY <1>7, <1>8


\* An end comes into use.
Opened(w, v, e) ==
  /\ v \in Worlds /\ v.open = w.open \cup {e} /\ v.peers = w.peers
  /\ v.handshakePeers = w.handshakePeers /\ v.known = w.known
  /\ v.queue = w.queue /\ v.pool = w.pool /\ v.chain = w.chain /\ v.mgrs = w.mgrs
  /\ v.forgotten = w.forgotten /\ v.msgs = w.msgs

(***************************************************************************)
(* An end whose handshake is over was never registered or sent anything;   *)
(* x is the status that it sends.                                          *)
(***************************************************************************)
LEMMA OpenedLemma ==
    ASSUME ConnsOK, NEW pd, NEW ch, NEW fs, NEW w, Sound(w, pd, {}, ch, fs),
           NEW e \in AllEnds, e \in pd, NEW v, Opened(w, v, e),
           \A f \in w.open : f[1] = e[1] => conns[f[2]] # conns[e[2]],
           NEW x, x.from = e[1], x.c = e[2], x.type = "status"
    PROVE  /\ Sound(v, pd \ {e}, {x}, ch, fs)
           /\ PackSent(w, {}) => PackSent(v, {})
           /\ PoolOffered(w, w.pool) => PoolOffered(v, v.pool)
  <1> DEFINE p2 == pd \ {e}
  <1>1. w.open \cap pd = {} /\ v.open = w.open \cup {e}
    BY DEF Sound, OneOpen, Opened
  <1>2. EndsOwn(v) /\ OneEach(v) /\ ContentsOwn(v, ch)
    BY DEF Sound, EndsOwn, OneEach, ContentsOwn, Opened
  <1>3. OneOpen(v, p2)
    <2>1. v.open \cap p2 = {}
      BY <1>1
    <2>2. \A f, g \in w.open : f[1] = g[1] /\ conns[f[2]] = conns[g[2]] => f[2] = g[2]
      BY DEF Sound, OneOpen
    <2> HIDE DEF p2
    <2>3. QED
      BY <1>1, <2>1, <2>2 DEF OneOpen
  <1>4. ASSUME NEW k, NEW d, Settled(w, pd, k, d) PROVE Settled(v, p2, k, d)
    <2>1. <<k, d>> # e
      BY <1>4 DEF Settled
    <2>2. QED
      BY <1>4, <2>1 DEF Settled, Opened
  <1>5. UsedSettled(v, p2)
    <2>1. ASSUME NEW f \in AllEnds
          PROVE  /\ v.known[f] # NoMarks => Settled(v, p2, f[1], f[2])
                 /\ v.queue[f] # EmptyQueue => f \notin p2 /\ f \notin v.open
      <3>1. /\ w.known[f] # NoMarks => Settled(w, pd, f[1], f[2])
            /\ w.queue[f] # EmptyQueue => f \notin pd /\ f \notin w.open
        BY DEF Sound, UsedSettled
      <3>2. f \notin pd => f # e
        OBVIOUS
      <3>3. v.known = w.known /\ v.queue = w.queue /\ v.open = w.open \cup {e}
        BY DEF Opened
      <3>4. v.known[f] # NoMarks => Settled(v, p2, f[1], f[2])
        BY <1>4, <3>1, <3>3
      <3>5. v.queue[f] # EmptyQueue => f \notin p2 /\ f \notin v.open
        BY <3>1, <3>2, <3>3
      <3>6. QED
        BY <3>4, <3>5
    <2>2. ASSUME NEW n \in Nodes
          PROVE  /\ \A c \in v.peers[n] \cup v.handshakePeers[n] : <<n, c>> \notin p2
                 /\ \A g \in DOMAIN v.mgrs[n] : \A s \in v.mgrs[n][g].pending : Settled(v, p2, n, s.c)
      <3>1. /\ \A c \in w.peers[n] \cup w.handshakePeers[n] : <<n, c>> \notin pd
            /\ \A g \in DOMAIN w.mgrs[n] : \A s \in w.mgrs[n][g].pending : Settled(w, pd, n, s.c)
        BY DEF Sound, UsedSettled
      <3>2. QED
        BY <1>4, <3>1 DEF Opened
    <2> HIDE DEF p2
    <2>3. QED
      BY <2>1, <2>2 DEF UsedSettled
  <1>6. \A k \in Nodes : \A d \in v.peers[k] : <<k, d>> \in v.open =>
          <<k, d>> \in w.open /\ d \in w.peers[k]
    <2>1. \A k \in Nodes : \A d \in w.peers[k] : <<k, d>> \notin pd
      BY DEF Sound, UsedSettled
    <2>2. QED
      BY <2>1 DEF Opened
  <1>7. OfflineClosed(v)
    BY <1>6 DEF Sound, OfflineClosed
  <1>8. TxMarksTrue(v, {x})
    BY <1>6 DEF Sound, TxMarksTrue, TxOnWay, Opened
  <1>9. BlockMarksTrue(v, {x}, fs)
    BY <1>6 DEF Sound, BlockMarksTrue, BlockOnWay, Opened
  <1>10. Shaking(v, {x})
    <2>1. StatusOnWay(v, {x}, e[1], e[2])
      BY DEF StatusOnWay
    <2>2. \A k, d : /\ HasPeer(w, k, d) => HasPeer(v, k, d)
                    /\ StatusOnWay(w, {}, k, d) => StatusOnWay(v, {x}, k, d)
      BY DEF HasPeer, StatusOnWay, Opened
    <2>3. QED
      BY <1>1, <2>1, <2>2 DEF Sound, Shaking
  <1>11. Sound(v, p2, {x}, ch, fs)
    BY <1>2, <1>3, <1>5, <1>7, <1>8, <1>9, <1>10 DEF Sound, Opened
  <1>12. PackSent(w, {}) => PackSent(v, {})
    BY DEF PackSent, Opened
  <1>13. PoolOffered(w, w.pool) => PoolOffered(v, v.pool)
    BY <1>6 DEF PoolOffered, ToSend, Opened
  <1>14. QED
    BY <1>11, <1>12, <1>13

\* A peer waits for a status.
Waits(w, v, n, c) ==
  /\ v \in Worlds /\ v.open = w.open /\ v.peers = w.peers /\ v.known = w.known
  /\ v.queue = w.queue /\ v.pool = w.pool /\ v.chain = w.chain /\ v.mgrs = w.mgrs
  /\ v.forgotten = w.forgotten /\ v.msgs = w.msgs
  /\ \A k \in Nodes : v.handshakePeers[k] =
       IF k = n THEN w.handshakePeers[n] \cup {c} ELSE w.handshakePeers[k]

\* Wait: there is one peer that waits for a node's status.
LEMMA WaitLemma ==
    ASSUME ConnsOK, NEW pd, NEW X, NEW ch, NEW fs, NEW w, Sound(w, pd, X, ch, fs),
           NEW n, NEW c, <<n, c>> \in AllEnds, <<n, c>> \notin pd,
           NEW v, v = Wait(w, n, c)
    PROVE  /\ Sound(v, pd, X, ch, fs) /\ v.pool = w.pool /\ v.chain = w.chain
           /\ PackSent(w, {}) => PackSent(v, {})
           /\ PoolOffered(w, w.pool) => PoolOffered(v, v.pool)
  <1>1. n \in Nodes /\ c \in DOMAIN conns /\ n \in conns[c] /\ w \in Worlds
    BY DEF AllEnds, Sound
  <1>2. PeerOf(w.handshakePeers[n], n, Remote(n, c))
          = {d \in w.handshakePeers[n] : conns[d] = conns[c]}
    <2>1. w.handshakePeers[n] \in SUBSET DOMAIN conns /\ \A d \in w.handshakePeers[n] : n \in conns[d]
      BY <1>1 DEF Worlds, Sound, EndsOwn
    <2>2. QED
      BY <1>1, <2>1, PeerOfLemma
  <1>3. CASE PeerOf(w.handshakePeers[n], n, Remote(n, c)) # {}
    <2>1. v = w
      BY <1>3 DEF Wait
    <2>2. QED
      BY <2>1
  <1>4. CASE PeerOf(w.handshakePeers[n], n, Remote(n, c)) = {}
    <2> DEFINE p == [w.handshakePeers EXCEPT ![n] = @ \cup {c}]
    <2>1. v = [w EXCEPT !.handshakePeers = p]
      BY <1>1, <1>4 DEF Wait, Worlds
    <2>2. /\ p \in [Nodes -> SUBSET DOMAIN conns]
          /\ \A k \in Nodes :
               p[k] = IF k = n THEN w.handshakePeers[n] \cup {c} ELSE w.handshakePeers[k]
      BY <1>1 DEF Worlds
    <2> HIDE DEF p
    <2>3. Waits(w, v, n, c)
      BY <1>1, <2>1, <2>2 DEF Waits, Worlds
    <2>4. \A d \in w.handshakePeers[n] : conns[d] # conns[c]
      BY <1>2, <1>4
    <2>5. EndsOwn(v) /\ OneEach(v)
      BY <1>1, <2>3, <2>4 DEF Sound, EndsOwn, OneEach, Waits
    <2>6. OneOpen(v, pd) /\ OfflineClosed(v) /\ ContentsOwn(v, ch)
      BY <2>3 DEF Sound, OneOpen, OfflineClosed, ContentsOwn, Waits
    <2>7. UsedSettled(v, pd)
      BY <1>1, <2>3 DEF Sound, UsedSettled, Settled, Waits
    <2>8. TxMarksTrue(v, X) /\ BlockMarksTrue(v, X, fs) /\ Shaking(v, X)
      BY <2>3 DEF Sound, TxMarksTrue, TxOnWay, BlockMarksTrue, BlockOnWay, Shaking, HasPeer,
                  StatusOnWay, Waits
    <2>9. Sound(v, pd, X, ch, fs)
      BY <2>3, <2>5, <2>6, <2>7, <2>8 DEF Sound, Waits
    <2>10. PackSent(w, {}) => PackSent(v, {})
      BY <2>3 DEF PackSent, Waits
    <2>11. PoolOffered(w, w.pool) => PoolOffered(v, v.pool)
      BY <2>3 DEF PoolOffered, ToSend, Waits
    <2>12. v.pool = w.pool /\ v.chain = w.chain
      BY <2>3 DEF Waits
    <2>13. QED
      BY <2>9, <2>10, <2>11, <2>12
  <1>5. QED
    BY <1>3, <1>4

\* A status leaves.
StatusSent(w, v, x) ==
  /\ v \in Worlds /\ v.open = w.open /\ v.peers = w.peers
  /\ v.handshakePeers = w.handshakePeers /\ v.known = w.known
  /\ v.queue = w.queue /\ v.pool = w.pool /\ v.chain = w.chain /\ v.mgrs = w.mgrs
  /\ v.forgotten = w.forgotten /\ v.msgs = w.msgs \cup {x}

\* A status leaves: the other end now gets its peer or the status.
LEMMA StatusSentLemma ==
    ASSUME ConnsOK, NEW pd, NEW x, NEW ch, NEW fs, NEW w, Sound(w, pd, {x}, ch, fs),
           x.from \in conns[x.c], x.type = "status", x.mgr = 0,
           NEW v, StatusSent(w, v, x)
    PROVE  /\ Sound(v, pd, {}, ch, fs)
           /\ PackSent(w, {}) => PackSent(v, {})
           /\ PoolOffered(w, w.pool) => PoolOffered(v, v.pool)
  <1>1. EndsOwn(v) /\ OneEach(v) /\ OneOpen(v, pd) /\ OfflineClosed(v)
    BY DEF Sound, EndsOwn, OneEach, OneOpen, OfflineClosed, StatusSent
  <1>2. ContentsOwn(v, ch)
    BY DEF Sound, ContentsOwn, StatusSent
  <1>3. UsedSettled(v, pd)
    BY DEF Sound, UsedSettled, Settled, StatusSent
  <1>4. v.msgs \cup {} = w.msgs \cup {x}
    BY DEF StatusSent
  <1>5. TxMarksTrue(v, {}) /\ BlockMarksTrue(v, {}, fs) /\ Shaking(v, {})
    BY <1>4 DEF Sound, TxMarksTrue, TxOnWay, BlockMarksTrue, BlockOnWay, Shaking, HasPeer,
                StatusOnWay, StatusSent
  <1>6. Sound(v, pd, {}, ch, fs)
    BY <1>1, <1>2, <1>3, <1>5 DEF Sound, StatusSent
  <1>7. ASSUME PackSent(w, {}) PROVE PackSent(v, {})
    <2>1. \A i \in Nodes : \A g \in DOMAIN w.mgrs[i] : g # 0
      <3>1. \A i \in Nodes : w.mgrs[i] \in Seq(Manager)
        BY DEF Sound, Worlds
      <3>2. QED
        BY <3>1
    <2>2. QED
      BY <1>7, <2>1 DEF PackSent, StatusSent
  <1>8. PoolOffered(w, w.pool) => PoolOffered(v, v.pool)
    BY DEF PoolOffered, ToSend, StatusSent
  <1>9. QED
    BY <1>6, <1>7, <1>8

\* Handle.
LEMMA HandleLemma ==
    ASSUME IInv, NEW e \in pend, NEW full \in BOOLEAN, Handle(e[1], e[2], full)
    PROVE  IInv'
  <1> DEFINE n == e[1]
             c == e[2]
             W == World
             w1 == [W EXCEPT !.open = @ \cup {<<n, c>>}]
             w == Refuse(w1, n, c, full)
             u == Wait(w, n, c)
             x == [Msg(n, c, "status", {}, 0) EXCEPT !.dead = ~online[n]]
             v == [u EXCEPT !.msgs = @ \cup {x}]
             pd == pend \ {e}
  <1>1. Becomes(v) /\ UNCHANGED <<conns, online, fetches, stops>> /\ pend' = pend \ {<<n, c>>}
    BY DEF Handle
  <1>2. /\ ConnsOK /\ fetches \subseteq Fetches /\ Sound(W, pend, {}, chain, fetches)
        /\ PackSent(W, {}) /\ PoolOffered(W, pool) /\ online \in [Nodes -> BOOLEAN]
        /\ pend \subseteq AllEnds
    BY DEF IInv
  <1>3. W.pool = pool /\ W.chain = chain
    BY WorldLemma
  <1> HIDE DEF W
  <1>4. e = <<n, c>> /\ e \in AllEnds /\ n \in Nodes /\ c \in DOMAIN conns /\ n \in conns[c]
    BY <1>2 DEF AllEnds
  <1>5. /\ x \in Message /\ x.from = n /\ x.c = c /\ x.type = "status" /\ x.mgr = 0
    <2>1. online[n] \in BOOLEAN
      BY <1>2, <1>4
    <2>2. {} \in SUBSET Txs
      OBVIOUS
    <2>3. QED
      BY <1>4, <2>1, <2>2 DEF Msg, Message
  <1> HIDE DEF x
  <1>6. W \in Worlds
    BY <1>2 DEF Sound
  <1>7. Opened(W, w1, e)
    BY <1>4, <1>6 DEF Opened, Worlds
  <1> HIDE DEF w1
  <1>8. /\ Sound(w1, pd, {x}, chain, fetches) /\ PackSent(w1, {}) /\ PoolOffered(w1, w1.pool)
        /\ w1.chain = chain
    <2>1. /\ Sound(w1, pend \ {e}, {x}, chain, fetches)
          /\ PackSent(W, {}) => PackSent(w1, {})
          /\ PoolOffered(W, W.pool) => PoolOffered(w1, w1.pool)
      <3>0. \A f \in W.open : f[1] = e[1] => conns[f[2]] # conns[e[2]]
        <4>1. W.open = open
          BY WorldLemma DEF W
        <4>2. conns[e[2]] = {e[1], Remote(e[1], e[2])}
          BY <1>2, <1>4, RemoteLemma
        <4>3. QED
          BY <4>1, <4>2 DEF Handle, InUse
      <3> HIDE DEF pd, n, c
      <3>1. x.from = e[1] /\ x.c = e[2]
        BY <1>5 DEF n, c
      <3>2. ConnsOK /\ Sound(W, pend, {}, chain, fetches) /\ e \in AllEnds /\ Opened(W, w1, e)
            /\ x.type = "status"
        BY <1>2, <1>4, <1>5, <1>7
      <3>3. QED
        BY <3>0, <3>1, <3>2, OpenedLemma, Zenon
    <2>2. QED
      BY <1>2, <1>3, <1>7, <2>1 DEF Opened
  <1>9. <<n, c>> \notin pd /\ <<n, c>> \in AllEnds /\ pd \subseteq AllEnds
    BY <1>2, <1>4
  <1> HIDE DEF pd, n, c
  <1>10. Sound(w, pd, {x}, chain, fetches) /\ Grows(w1, w)
    <2>1. CASE full
      <3>1. w = Close(w1, n, c)
        BY <2>1 DEF Refuse
      <3>2. w \in Worlds /\ Shrinks(w1, w) /\ SameLists(w1, w) /\ SameTraffic(w1, w)
        BY <1>2, <1>8, <1>9, <3>1, CloseLemma DEF Sound
      <3> HIDE DEF w
      <3>3. QED
        BY <1>2, <1>8, <3>2, ClosingLemma, CloseGrows
    <2>2. CASE ~full
      <3>1. w = w1
        BY <2>2 DEF Refuse
      <3>2. QED
        BY <1>8, <3>1, GrowsRefl
    <2>3. QED
      BY <2>1, <2>2
  <1> HIDE DEF w
  <1>11. PackSent(w, {}) /\ PoolOffered(w, w.pool) /\ w.chain = chain
    <2>1. w.pool = w1.pool /\ w.chain = w1.chain
      BY <1>10 DEF Grows, SameLists
    <2>2. QED
      BY <1>8, <1>10, <2>1, GrowsFollows, PackFollows, OfferedFollows DEF Sound
  <1>12. u = Wait(w, n, c)
    OBVIOUS
  <1> HIDE DEF u
  <1>13. /\ Sound(u, pd, {x}, chain, fetches) /\ PackSent(u, {}) /\ PoolOffered(u, u.pool)
         /\ u.chain = chain
    BY <1>2, <1>9, <1>10, <1>11, <1>12, WaitLemma
  <1>14. u \in Worlds
    BY <1>13 DEF Sound
  <1>15. StatusSent(u, v, x)
    BY <1>5, <1>14 DEF StatusSent, Worlds
  <1> HIDE DEF v
  <1>16. x.from \in conns[x.c]
    BY <1>4, <1>5
  <1>17. Sound(v, pd, {}, chain, fetches) /\ PackSent(v, {}) /\ PoolOffered(v, v.pool)
    BY <1>2, <1>5, <1>13, <1>15, <1>16, StatusSentLemma
  <1>18. Good(v, pd, fetches)
    BY <1>13, <1>15, <1>17 DEF Good, StatusSent
  <1>19. conns' = conns /\ pd = pend' /\ fetches = fetches' /\ online' \in [Nodes -> BOOLEAN]
         /\ online' = online
    BY <1>1, <1>2, <1>4 DEF pd
  <1>20. \A k \in Nodes : ~online'[k] => \A d \in v.peers[k] : <<k, d>> \notin v.open
    BY <1>17, <1>19 DEF Sound, OfflineClosed
  <1>21. QED
    BY <1>1, <1>2, <1>9, <1>18, <1>19, <1>20, BecomesLemma

(***************************************************************************)
(* Connect: the ends of the new connection have no marks and queues, and   *)
(* no set holds them.                                                      *)
(***************************************************************************)
LEMMA ConnectLemma ==
    ASSUME IInv, NEW n \in Nodes, NEW m \in Nodes, Connect(n, m)
    PROVE  IInv'
  <1> DEFINE W == World
             c == Len(conns) + 1
             D == DOMAIN conns
             e1 == <<n, c>>
             e2 == <<m, c>>
             kn == [e \in AllEnds \cup {e1, e2} |-> IF e[2] = c THEN NoMarks ELSE W.known[e]]
             qu == [e \in AllEnds \cup {e1, e2} |-> IF e[2] = c THEN EmptyQueue ELSE W.queue[e]]
             v == [open |-> W.open, peers |-> W.peers, handshakePeers |-> W.handshakePeers,
                   known |-> kn, queue |-> qu, pool |-> W.pool, chain |-> W.chain,
                   mgrs |-> W.mgrs, forgotten |-> W.forgotten, msgs |-> W.msgs]
             new == {k \in {n, m} : ~InUse(k, IF k = n THEN m ELSE n)}
             pd == pend \cup {<<k, c>> : k \in new}
  <1>1. /\ ConnsOK /\ fetches \subseteq Fetches /\ Sound(W, pend, {}, chain, fetches)
        /\ PackSent(W, {}) /\ PoolOffered(W, pool) /\ online \in [Nodes -> BOOLEAN]
        /\ pend \subseteq AllEnds
    BY DEF IInv
  <1>2. /\ W.open = open /\ W.peers = peers /\ W.handshakePeers = handshakePeers
        /\ W.known = known /\ W.queue = queue /\ W.pool = pool
        /\ W.chain = chain /\ W.mgrs = mgrs /\ W.forgotten = forgotten /\ W.msgs = msgs
    BY WorldLemma
  <1> HIDE DEF W
  <1>3. W \in Worlds
    BY <1>1 DEF Sound
  <1>4. DOMAIN known = AllEnds /\ DOMAIN queue = AllEnds
    BY <1>2, <1>3 DEF Worlds
  <1>5. /\ n # m /\ conns' = Append(conns, {n, m}) /\ pend' = pd
        /\ UNCHANGED <<open, peers, handshakePeers, online, pool, chain, mgrs, msgs,
                       forgotten, fetches, stops>>
    BY DEF Connect
  <1> HIDE DEF new
  <1>6. known' = kn /\ queue' = qu
    BY <1>2, <1>4 DEF Connect
  <1>7. /\ c \notin D /\ DOMAIN conns' = D \cup {c} /\ conns'[c] = {n, m}
        /\ \A d \in D : conns'[d] = conns[d]
        /\ conns' \in Seq(SUBSET Nodes)
    <2>1. conns \in Seq(SUBSET Nodes)
      BY <1>1 DEF ConnsOK
    <2>2. QED
      BY <1>5, <2>1
  <1> HIDE DEF c, D
  <1>8. AllEnds' = AllEnds \cup {e1, e2} /\ AllEnds \subseteq Nodes \X D
    <2>1. AllEnds' = {e \in Nodes \X (D \cup {c}) : e[1] \in conns'[e[2]]}
      BY <1>7 DEF AllEnds
    <2>2. AllEnds = {e \in Nodes \X D : e[1] \in conns[e[2]]}
      BY DEF AllEnds, D
    <2>3. ASSUME NEW e \in AllEnds' PROVE e \in AllEnds \cup {e1, e2}
      BY <1>7, <2>1, <2>2
    <2>4. ASSUME NEW e \in AllEnds \cup {e1, e2} PROVE e \in AllEnds'
      BY <1>7, <2>1, <2>2
    <2>5. QED
      BY <2>2, <2>3, <2>4
  <1>9. \A e \in AllEnds : e[2] # c /\ e # e1 /\ e # e2
    BY <1>7, <1>8
  <1>10. /\ Waiting \subseteq Waiting' /\ Message \subseteq Message' /\ Fetches \subseteq Fetches'
    <2>1. Waiting \subseteq Waiting'
      BY <1>7 DEF Waiting, D
    <2>2. Message \subseteq Message'
      BY <1>7 DEF Message, D
    <2>3. Fetches \subseteq Fetches'
      BY <1>7 DEF Fetches, D
    <2>4. QED
      BY <2>1, <2>2, <2>3
  <1>11. Manager \subseteq Manager'
    BY <1>10 DEF Manager
  <1>12. /\ kn \in [AllEnds' -> Marks] /\ qu \in [AllEnds' -> Queues]
         /\ \A e \in AllEnds : kn[e] = W.known[e] /\ qu[e] = W.queue[e]
         /\ \A e \in {e1, e2} : kn[e] = NoMarks /\ qu[e] = EmptyQueue
    <2>1. NoMarks \in Marks /\ EmptyQueue \in Queues
      <3>1. NoMarks \in Marks
        BY DEF NoMarks, Marks
      <3>2. EmptyQueue.txs = << >> /\ EmptyQueue.props = << >> /\ EmptyQueue.anns = << >>
        BY DEF EmptyQueue
      <3>3. EmptyQueue \in [txs : Seq(SUBSET Txs), props : Seq(Blocks), anns : Seq(Blocks)]
        BY DEF EmptyQueue
      <3>4. Len(<< >>) = 0 /\ {maxQueuedTxs, maxQueuedProps, maxQueuedAnns} \subseteq Nat
        BY EthPeersAssumption
      <3>5. QED
        BY <3>1, <3>2, <3>3, <3>4 DEF Queues
    <2>2. W.known \in [AllEnds -> Marks] /\ W.queue \in [AllEnds -> Queues]
      BY <1>3 DEF Worlds
    <2>3. \A e \in AllEnds : e[2] # c
      BY <1>9
    <2>4. e1[2] = c /\ e2[2] = c
      OBVIOUS
    <2> HIDE DEF e1, e2
    <2>5. kn \in [AllEnds' -> Marks]
      BY <1>8, <2>1, <2>2, <2>3, <2>4
    <2>6. qu \in [AllEnds' -> Queues]
      BY <1>8, <2>1, <2>2, <2>3, <2>4
    <2>7. QED
      BY <2>3, <2>4, <2>5, <2>6
  <1> HIDE DEF kn, qu
  <1>13. /\ v.open = W.open /\ v.peers = W.peers /\ v.handshakePeers = W.handshakePeers
         /\ v.known = kn /\ v.queue = qu /\ v.pool = W.pool /\ v.chain = W.chain
         /\ v.mgrs = W.mgrs /\ v.forgotten = W.forgotten /\ v.msgs = W.msgs
    OBVIOUS
  <1>14. World' = v
    <2>1. World' = [open |-> open, peers |-> peers, handshakePeers |-> handshakePeers,
                    known |-> kn, queue |-> qu, pool |-> pool, chain |-> chain,
                    mgrs |-> mgrs, forgotten |-> forgotten, msgs |-> msgs]
      BY <1>5, <1>6 DEF World
    <2>2. QED
      BY <1>2, <2>1
  <1>15. \A k \in Nodes : /\ W.peers[k] \subseteq D /\ W.handshakePeers[k] \subseteq D
                          /\ W.mgrs[k] \in Seq(Manager)
                          /\ \A g \in DOMAIN W.mgrs[k] : \A s \in W.mgrs[k][g].pending : s.c \in D
    <2>1. ASSUME NEW k \in Nodes
          PROVE  /\ W.peers[k] \subseteq D /\ W.handshakePeers[k] \subseteq D
                 /\ W.mgrs[k] \in Seq(Manager)
      BY <1>3 DEF Worlds, D
    <2>2. ASSUME NEW k \in Nodes, NEW g \in DOMAIN W.mgrs[k], NEW s \in W.mgrs[k][g].pending
          PROVE  s.c \in D
      <3>1. s \in Waiting
        BY <1>1, PendingLemma
      <3>2. QED
        BY <3>1 DEF Waiting, D
    <2>3. QED
      BY <2>1, <2>2
  <1>16. /\ \A x \in W.msgs : x.c \in D
         /\ \A e \in open \cup pend : e \in AllEnds /\ e[2] \in D
         /\ \A f \in fetches : f.c \in D
    <2>1. W.msgs \subseteq Message /\ open \subseteq AllEnds
      BY <1>2, <1>3 DEF Worlds
    <2>2. QED
      BY <1>1, <1>8, <2>1 DEF Message, Fetches, D
  <1>17. \A k, d : d \in D => Remote(k, d)' = Remote(k, d)
    BY <1>7 DEF Remote
  <1> DEFINE u == World
  <1>18. /\ u' = v /\ conns'[c] = {n, m}
    BY <1>7, <1>14
  <1> HIDE DEF u, v
  <1>19. v \in Worlds'
    <2>1. DOMAIN conns' = D \cup {c} /\ D = DOMAIN conns /\ AllEnds \subseteq AllEnds'
      BY <1>7, <1>8 DEF D
    <2>2. /\ W.open \subseteq AllEnds' /\ W.peers \in [Nodes -> SUBSET DOMAIN conns']
          /\ W.handshakePeers \in [Nodes -> SUBSET DOMAIN conns']
          /\ W.forgotten \subseteq DOMAIN conns'
          /\ W.pool \in [Nodes -> SUBSET Txs] /\ W.chain \in [Nodes -> SUBSET Blocks]
      <3> HIDE DEF pd
      <3>1. /\ W.open \subseteq AllEnds /\ W.peers \in [Nodes -> SUBSET D]
            /\ W.handshakePeers \in [Nodes -> SUBSET D] /\ W.forgotten \subseteq D
            /\ W.pool \in [Nodes -> SUBSET Txs] /\ W.chain \in [Nodes -> SUBSET Blocks]
        BY <1>3, <2>1 DEF Worlds
      <3>2. QED
        BY <2>1, <3>1
    <2>3. W.mgrs \in [Nodes -> Seq(Manager')] /\ W.msgs \subseteq Message'
      <3>1. \A l \in Seq(Manager) : l \in Seq(Manager')
        <4> DEFINE S == Manager
                   T == Manager'
        <4>1. S \subseteq T
          BY <1>11
        <4> HIDE DEF S, T
        <4>2. \A l \in Seq(S) : l \in Seq(T)
          BY <4>1
        <4>3. QED
          BY <4>2 DEF S, T
      <3>2. W.mgrs \in [Nodes -> Seq(Manager)] /\ W.msgs \subseteq Message
        BY <1>3 DEF Worlds
      <3>3. QED
        BY <1>10, <3>1, <3>2
    <2>4. v = [open |-> W.open, peers |-> W.peers, handshakePeers |-> W.handshakePeers,
               known |-> kn, queue |-> qu, pool |-> W.pool, chain |-> W.chain,
               mgrs |-> W.mgrs, forgotten |-> W.forgotten, msgs |-> W.msgs]
      BY DEF v
    <2>5. QED
      BY <1>12, <2>2, <2>3, <2>4 DEF Worlds
  <1>20. EndsOwn(u)'
    <2>1. EndsOwn(W)
      BY <1>1 DEF Sound
    <2>2. ASSUME NEW k \in Nodes
          PROVE  /\ \A d \in v.peers[k] \cup v.handshakePeers[k] : k \in conns'[d]
                 /\ v.mgrs[k] # << >>
                 /\ \A g \in DOMAIN v.mgrs[k] : \A s \in v.mgrs[k][g].pending : k \in conns'[s.c]
      BY <1>7, <1>13, <1>15, <2>1 DEF EndsOwn
    <2>3. QED
      BY <1>18, <2>2 DEF EndsOwn
  <1>21. OneEach(u)'
    <2>1. OneEach(W)
      BY <1>1 DEF Sound
    <2>2. ASSUME NEW k \in Nodes
          PROVE  /\ \A d, f \in v.peers[k] : conns'[d] = conns'[f] => d = f
                 /\ \A d, f \in v.handshakePeers[k] : conns'[d] = conns'[f] => d = f
      <3>1. /\ W.peers[k] \subseteq D /\ W.handshakePeers[k] \subseteq D
            /\ v.peers[k] = W.peers[k] /\ v.handshakePeers[k] = W.handshakePeers[k]
        BY <1>13, <1>15
      <3>2. \A d \in D : conns'[d] = conns[d]
        BY <1>7
      <3>3. QED
        BY <2>1, <3>1, <3>2 DEF OneEach
    <2>3. QED
      BY <1>18, <2>2 DEF OneEach
  <1> DEFINE E == {<<k, c>> : k \in new}
  <1>ends. E \subseteq {e1, e2} /\ pd = pend \cup E
    BY DEF new
  <1> HIDE DEF E, pd
  <1>22. OneOpen(u, pend)'
    <2>1. OneOpen(W, pend)
      BY <1>1 DEF Sound
    <2>2. v.open \cap pd = {}
      <3>1. open \cap pend = {}
        BY <1>2, <2>1 DEF OneOpen
      <3>2. e1 \notin open /\ e2 \notin open
        BY <1>9, <1>16
      <3>3. v.open = open
        BY <1>2, <1>13
      <3> HIDE DEF e1, e2
      <3>4. QED
        BY <1>ends, <3>1, <3>2, <3>3
    <2>3. ASSUME NEW e \in v.open, NEW f \in v.open, e[1] = f[1], conns'[e[2]] = conns'[f[2]]
          PROVE  e[2] = f[2]
      <3>1. \A x \in v.open : x \in open /\ conns'[x[2]] = conns[x[2]]
        BY <1>2, <1>7, <1>13, <1>16
      <3>2. \A x, y \in open : x[1] = y[1] /\ conns[x[2]] = conns[y[2]] => x[2] = y[2]
        BY <1>2, <2>1 DEF OneOpen
      <3>3. QED
        BY <2>3, <3>1, <3>2
    <2>4. pend' = pd
      BY <1>5
    <2>5. QED
      BY <1>18, <2>2, <2>3, <2>4 DEF OneOpen
  <1>23. ASSUME NEW k, NEW d \in D, Settled(W, pend, k, d)
         PROVE  <<k, d>> \notin pd /\ (<<k, d>> \in v.open => d \in v.peers[k])
    <2>1. d # c
      BY <1>7
    <2>2. <<k, d>> # e1 /\ <<k, d>> # e2
      BY <2>1
    <2>3. <<k, d>> \notin pend /\ (<<k, d>> \in v.open => d \in v.peers[k])
      BY <1>13, <1>23 DEF Settled
    <2> HIDE DEF e1, e2
    <2>4. QED
      BY <1>ends, <2>2, <2>3
  <1>24. UsedSettled(u, pend)'
    <2>1. UsedSettled(W, pend)
      BY <1>1 DEF Sound
    <2>2. ASSUME NEW e \in AllEnds'
          PROVE  /\ v.known[e] # NoMarks =>
                      /\ <<e[1], e[2]>> \notin pd
                      /\ <<e[1], e[2]>> \in v.open => e[2] \in v.peers[e[1]]
                 /\ v.queue[e] # EmptyQueue => e \notin pd /\ e \notin v.open
      <3>1. CASE e \in AllEnds
        <4>1. e[2] \in D /\ v.known[e] = W.known[e] /\ v.queue[e] = W.queue[e] /\ e \notin {e1, e2}
          BY <1>8, <1>9, <1>12, <1>13, <3>1
        <4>2. /\ W.known[e] # NoMarks => Settled(W, pend, e[1], e[2])
              /\ W.queue[e] # EmptyQueue => e \notin pend /\ e \notin W.open
          BY <2>1, <3>1 DEF UsedSettled
        <4> HIDE DEF e1, e2
        <4>3. W.queue[e] # EmptyQueue => e \notin pd /\ e \notin v.open
          BY <1>13, <1>ends, <4>1, <4>2
        <4>4. QED
          BY <1>23, <4>1, <4>2, <4>3
      <3>2. CASE e \notin AllEnds
        <4>1. e \in {e1, e2}
          BY <1>8, <3>2
        <4>2. v.known[e] = NoMarks /\ v.queue[e] = EmptyQueue
          BY <1>12, <1>13, <4>1
        <4>3. QED
          BY <4>2
      <3>3. QED
        BY <3>1, <3>2
    <2>3. ASSUME NEW k \in Nodes
          PROVE  /\ \A d \in v.peers[k] \cup v.handshakePeers[k] : <<k, d>> \notin pd
                 /\ \A g \in DOMAIN v.mgrs[k] : \A s \in v.mgrs[k][g].pending :
                      <<k, s.c>> \notin pd /\ (<<k, s.c>> \in v.open => s.c \in v.peers[k])
      <3>1. /\ \A d \in W.peers[k] \cup W.handshakePeers[k] : <<k, d>> \notin pend
            /\ \A g \in DOMAIN W.mgrs[k] : \A s \in W.mgrs[k][g].pending : Settled(W, pend, k, s.c)
        BY <2>1 DEF UsedSettled
      <3>2. \A d \in W.peers[k] \cup W.handshakePeers[k] : <<k, d>> \notin pd
        <4>1. \A d \in W.peers[k] \cup W.handshakePeers[k] : d # c
          BY <1>7, <1>15
        <4>2. \A d : d # c => <<k, d>> \notin E
          BY <1>ends
        <4>3. QED
          BY <1>ends, <3>1, <4>1, <4>2
      <3>3. QED
        BY <1>13, <1>15, <1>23, <3>1, <3>2
    <2>4. pend' = pd
      BY <1>5
    <2>5. QED
      BY <1>18, <2>2, <2>3, <2>4 DEF UsedSettled, Settled
  <1>25. OfflineClosed(u)'
    BY <1>1, <1>5, <1>13, <1>18 DEF Sound, OfflineClosed
  <1>26. ContentsOwn(u, chain)'
    <2>1. ContentsOwn(W, chain)
      BY <1>1 DEF Sound
    <2>2. /\ \A x \in v.msgs :
              /\ x.from \in conns'[x.c]
              /\ x.type = "txs" => x.content \subseteq v.pool[x.from]
              /\ x.type \in {"block", "hash"} => x.content \in chain[x.from]
              /\ x.mgr # 0 => x.type = "txs" /\ x.mgr \in DOMAIN v.mgrs[x.from]
          /\ \A k \in Nodes : \A g \in DOMAIN v.mgrs[k] : \A s \in v.mgrs[k][g].pending :
              s.txs \subseteq v.pool[k]
      BY <1>7, <1>13, <1>16, <2>1 DEF ContentsOwn
    <2>3. chain' = chain
      BY <1>5
    <2>4. QED
      BY <1>18, <2>2, <2>3 DEF ContentsOwn
  <1>27. \A k \in Nodes : \A d \in v.peers[k] : <<k, d>> \in v.open =>
           d \in D /\ v.known[<<k, d>>] = W.known[<<k, d>>] /\ Remote(k, d)' = Remote(k, d)
    <2>1. open \subseteq AllEnds
      BY <1>16
    <2>2. QED
      BY <1>2, <1>12, <1>13, <1>15, <1>17, <2>1
  <1>28. TxMarksTrue(u, {})'
    <2>1. TxMarksTrue(W, {})
      BY <1>1 DEF Sound
    <2>2. QED
      BY <1>13, <1>18, <1>27, <2>1 DEF TxMarksTrue, TxOnWay
  <1>29. BlockMarksTrue(u, {}, fetches)'
    <2>1. BlockMarksTrue(W, {}, fetches) /\ fetches' = fetches
      BY <1>1, <1>5 DEF Sound
    <2>2. ASSUME NEW k, NEW d \in D, NEW b, Fetched(fetches, k, d, b)
          PROVE  \E f \in fetches : f.node = k /\ f.block = b /\ conns'[f.c] = conns'[d]
      BY <1>7, <1>16, <2>2 DEF Fetched
    <2>3. ASSUME NEW k \in Nodes, NEW d \in v.peers[k], <<k, d>> \in v.open,
                 NEW b \in v.known[<<k, d>>].blocks
          PROVE  \/ b \in v.chain[Remote(k, d)'] \/ BlockOnWay(v, {}, k, d, b)
                 \/ \E f \in fetches :
                      f.node = Remote(k, d)' /\ f.block = b /\ conns'[f.c] = conns'[d]
      <3>1. /\ d \in D /\ Remote(k, d)' = Remote(k, d) /\ d \in W.peers[k] /\ <<k, d>> \in W.open
            /\ b \in W.known[<<k, d>>].blocks
        BY <1>13, <1>27, <2>3
      <3>2. \/ b \in W.chain[Remote(k, d)] \/ BlockOnWay(W, {}, k, d, b)
            \/ Fetched(fetches, Remote(k, d), d, b)
        BY <2>1, <3>1 DEF BlockMarksTrue
      <3>3. BlockOnWay(W, {}, k, d, b) => BlockOnWay(v, {}, k, d, b)
        BY <1>13 DEF BlockOnWay
      <3>4. QED
        BY <1>13, <2>2, <3>1, <3>2, <3>3
    <2>4. QED
      BY <1>18, <2>1, <2>3 DEF BlockMarksTrue, BlockOnWay, Fetched
  <1>30. Shaking(u, {})'
    <2>1. Shaking(W, {}) /\ v.open = open /\ W.open = open /\ v.peers = W.peers
      BY <1>1, <1>2, <1>13 DEF Sound
    <2>2. ASSUME NEW e \in open
          PROVE  /\ e[1] \in Nodes /\ e[2] \in D /\ conns'[e[2]] = conns[e[2]]
                 /\ Remote(e[1], e[2])' = Remote(e[1], e[2])
      BY <1>7, <1>8, <1>16, <1>17
    <2>3. ASSUME NEW e \in open, HasPeer(W, e[1], e[2])
          PROVE  \E d \in v.peers[e[1]] : conns'[d] = conns'[e[2]]
      <3>1. PICK d \in W.peers[e[1]] : conns[d] = conns[e[2]]
        BY <2>3 DEF HasPeer
      <3>2. d \in D
        BY <1>15, <2>2
      <3>3. QED
        BY <1>7, <2>1, <2>2, <3>1, <3>2
    <2>4. \A e : StatusOnWay(W, {}, e[1], e[2]) => StatusOnWay(v, {}, e[1], e[2])
      BY <1>13 DEF StatusOnWay
    <2>5. ASSUME NEW e \in v.open, NEW f \in v.open, conns'[e[2]] = conns'[f[2]],
                 f[1] = Remote(e[1], e[2])', e[1] = Remote(f[1], f[2])'
          PROVE  \/ \E d \in v.peers[e[1]] : conns'[d] = conns'[e[2]]
                 \/ StatusOnWay(v, {}, e[1], e[2])
                 \/ \E d \in v.peers[f[1]] : conns'[d] = conns'[f[2]]
                 \/ StatusOnWay(v, {}, f[1], f[2])
      <3>1. Facing(e, f)
        BY <2>1, <2>2, <2>5 DEF Facing
      <3>2. \/ HasPeer(W, e[1], e[2]) \/ StatusOnWay(W, {}, e[1], e[2])
            \/ HasPeer(W, f[1], f[2]) \/ StatusOnWay(W, {}, f[1], f[2])
        BY <2>1, <3>1 DEF Shaking
      <3>3. e \in open /\ f \in open
        BY <2>1
      <3>4. QED
        BY <2>3, <2>4, <3>2, <3>3
    <2>6. QED
      BY <1>18, <2>5 DEF Shaking, Facing, HasPeer, StatusOnWay
  <1>31. PackSent(u, {})' /\ PoolOffered(u, pool)'
    <2>1. PackSent(u, {})'
      BY <1>1, <1>13, <1>18 DEF PackSent
    <2>2. ASSUME NEW k \in Nodes, NEW d \in v.peers[k] \ v.forgotten, <<k, d>> \in v.open,
                 NEW t \in pool[k]
          PROVE  t \in v.known[<<k, d>>].txs \/ ToSend(v, k, d, t)
      <3>1. t \in W.known[<<k, d>>].txs \/ ToSend(W, k, d, t)
        BY <1>1, <1>13, <2>2 DEF PoolOffered
      <3>2. QED
        BY <1>13, <1>27, <2>2, <3>1 DEF ToSend
    <2>3. PoolOffered(u, pool)'
      BY <1>5, <1>18, <2>2 DEF PoolOffered, ToSend
    <2>4. QED
      BY <2>1, <2>3
  <1>32. ConnsOK' /\ (pend \subseteq AllEnds)' /\ (fetches \subseteq Fetches)'
         /\ (online \in [Nodes -> BOOLEAN])'
    <2>1. \A d \in DOMAIN conns' : \E i, j \in Nodes : i # j /\ conns'[d] = {i, j}
      BY <1>1, <1>5, <1>7 DEF ConnsOK, D
    <2>2. ConnsOK'
      BY <1>7, <2>1 DEF ConnsOK
    <2>3. pend' \subseteq AllEnds'
      BY <1>1, <1>5, <1>8, <1>ends
    <2>4. fetches' \subseteq Fetches' /\ online' \in [Nodes -> BOOLEAN]
      BY <1>1, <1>5, <1>10
    <2>5. QED
      BY <2>2, <2>3, <2>4
  <1>33. Sound(u, pend, {}, chain, fetches)'
    BY <1>18, <1>19, <1>20, <1>21, <1>22, <1>24, <1>25, <1>26, <1>28, <1>29, <1>30 DEF Sound
  <1>34. QED
    BY <1>31, <1>32, <1>33 DEF IInv, u

\* The invariant holds at first: there are no connections.
LEMMA InitialLemma ==
    Init => IInv
  <1> SUFFICES ASSUME Init PROVE IInv
    OBVIOUS
  <1> DEFINE W == World
  <1>1. /\ W.open = {} /\ W.peers = [n \in Nodes |-> {}] /\ W.handshakePeers = [n \in Nodes |-> {}]
        /\ W.known = << >> /\ W.queue = << >> /\ W.pool = [n \in Nodes |-> {}]
        /\ W.chain = [n \in Nodes |-> {}] /\ W.mgrs = [n \in Nodes |-> <<NewManager>>]
        /\ W.forgotten = {} /\ W.msgs = {}
    BY WorldLemma DEF Init
  <1>2. /\ conns = << >> /\ pend = {} /\ fetches = {} /\ pool = [n \in Nodes |-> {}]
        /\ chain = [n \in Nodes |-> {}] /\ online = [n \in Nodes |-> TRUE]
    BY DEF Init
  <1>3. DOMAIN conns = {} /\ conns \in Seq(SUBSET Nodes)
    BY <1>2
  <1>4. ConnsOK /\ AllEnds = {}
    BY <1>3 DEF ConnsOK, AllEnds
  <1>5. NewManager \in Manager /\ NewManager.pending = {} /\ NewManager.sending = FALSE
    BY DEF NewManager, Manager
  <1>6. \A S : << >> \in [AllEnds -> S]
    <2> SUFFICES ASSUME NEW S PROVE << >> \in [{} -> S]
      BY <1>4
    <2>1. << >> = [x \in {} |-> CHOOSE y \in S : TRUE]
      <3>1. << >> \in Seq(S) /\ Len(<< >>) = 0
        OBVIOUS
      <3>2. DOMAIN << >> = {}
        BY <3>1
      <3>3. QED
        OBVIOUS
    <2>2. QED
      BY <2>1
  <1>7. W = [open |-> W.open, peers |-> W.peers, handshakePeers |-> W.handshakePeers,
             known |-> W.known, queue |-> W.queue, pool |-> W.pool, chain |-> W.chain,
             mgrs |-> W.mgrs, forgotten |-> W.forgotten, msgs |-> W.msgs]
    BY DEF World
  <1> HIDE DEF W
  <1>8. W \in Worlds
    <2>1. W.mgrs \in [Nodes -> Seq(Manager)]
      BY <1>1, <1>5
    <2>2. /\ W.open \in SUBSET AllEnds /\ W.peers \in [Nodes -> SUBSET DOMAIN conns]
          /\ W.handshakePeers \in [Nodes -> SUBSET DOMAIN conns]
          /\ W.known \in [AllEnds -> Marks] /\ W.queue \in [AllEnds -> Queues]
          /\ W.pool \in [Nodes -> SUBSET Txs] /\ W.chain \in [Nodes -> SUBSET Blocks]
          /\ W.forgotten \in SUBSET DOMAIN conns /\ W.msgs \in SUBSET Message
      BY <1>1, <1>6
    <2>3. QED
      BY <1>7, <2>1, <2>2 DEF Worlds
  <1>9. \A n \in Nodes : /\ W.mgrs[n] # << >>
                         /\ \A g \in DOMAIN W.mgrs[n] : W.mgrs[n][g] = NewManager
    BY <1>1
  <1>10. EndsOwn(W) /\ OneEach(W) /\ OneOpen(W, pend) /\ OfflineClosed(W) /\ ContentsOwn(W, chain)
    BY <1>1, <1>2, <1>5, <1>9 DEF EndsOwn, OneEach, OneOpen, OfflineClosed, ContentsOwn
  <1>11. UsedSettled(W, pend)
    BY <1>1, <1>2, <1>4, <1>5, <1>9 DEF UsedSettled
  <1>12. TxMarksTrue(W, {}) /\ BlockMarksTrue(W, {}, fetches) /\ Shaking(W, {})
    BY <1>1 DEF TxMarksTrue, BlockMarksTrue, Shaking
  <1>13. PackSent(W, {}) /\ PoolOffered(W, pool)
    BY <1>1, <1>5, <1>9 DEF PackSent, PoolOffered
  <1>14. Sound(W, pend, {}, chain, fetches)
    BY <1>8, <1>10, <1>11, <1>12 DEF Sound
  <1>15. QED
    BY <1>2, <1>4, <1>13, <1>14 DEF IInv, W

\* Every step keeps the invariant.
LEMMA NextLemma ==
    IInv /\ [Next]_vars => IInv'
  <1> SUFFICES ASSUME IInv, [Next]_vars PROVE IInv'
    OBVIOUS
  <1>1. ASSUME NEW n \in Nodes, NEW m \in Nodes, Connect(n, m) PROVE IInv'
    BY <1>1, ConnectLemma
  <1>2. ASSUME NEW e \in pend, ConnectFails(e[1], e[2]) PROVE IInv'
    BY <1>2, ConnectFailsLemma
  <1>3. ASSUME NEW e \in pend, NEW full \in BOOLEAN, Handle(e[1], e[2], full) PROVE IInv'
    BY <1>3, HandleLemma
  <1>4. ASSUME NEW e \in open, Drop(e[1], e[2]) PROVE IInv'
    BY <1>4, DropLemma
  <1>5. ASSUME NEW n \in Nodes, Stop(n) PROVE IInv'
    BY <1>5, StopLemma
  <1>6. ASSUME NEW n \in Nodes, Start(n) PROVE IInv'
    BY <1>6, StartNode
  <1>7. ASSUME NEW n \in Nodes, AddTx(n) PROVE IInv'
    BY <1>7, AddTxLemma
  <1>8. ASSUME NEW n \in Nodes, NEW b \in Blocks, Mine(n, b) PROVE IInv'
    BY <1>8, MineLemma
  <1>9. ASSUME NEW m \in msgs, ReceiveStatus(m) PROVE IInv'
    BY <1>9, ReceiveStatusLemma
  <1>10. ASSUME NEW m \in msgs, ReceiveTxs(m) PROVE IInv'
    BY <1>10, ReceiveTxsLemma
  <1>11. ASSUME NEW m \in msgs, ReceiveBlock(m) PROVE IInv'
    BY <1>11, ReceiveBlockLemma
  <1>12. ASSUME NEW m \in msgs, ReceiveHash(m) PROVE IInv'
    BY <1>12, ReceiveHashLemma
  <1>13. ASSUME NEW f \in fetches, Fetch(f) PROVE IInv'
    BY <1>13, FetchLemma
  <1>14. CASE UNCHANGED vars
    <2>1. /\ fetches \subseteq Fetches /\ Sound(World, pend, {}, chain, fetches)
          /\ PackSent(World, {}) /\ PoolOffered(World, pool)
      BY DEF IInv
    <2>2. Becomes(World) /\ UNCHANGED <<conns, pend, online>> /\ fetches = fetches'
      BY <1>14, WorldLemma DEF vars, Becomes
    <2>3. Good(World, pend, fetches)
      BY <2>1, WorldLemma DEF Good
    <2>4. QED
      BY <2>1, <2>2, <2>3, KeepsLemma
  <1>15. QED
    BY <1>1, <1>2, <1>3, <1>4, <1>5, <1>6, <1>7, <1>8, <1>9, <1>10, <1>11, <1>12, <1>13, <1>14
    DEF Next

\* The invariant of the protocol.
LEMMA WorldInvariant ==
    Spec => []IInv
  <1>1. QED
    BY InitialLemma, NextLemma, PTL DEF Spec

\* A set with one element at most.
LEMMA AtMostOne ==
    ASSUME NEW S, \A x, y \in S : x = y
    PROVE  Cardinality(S) = (IF S = {} THEN 0 ELSE 1)
  <1>1. CASE S = {}
    BY <1>1, FS_EmptySet
  <1>2. CASE S # {}
    <2>1. PICK x : S = {x}
      BY <1>2
    <2>2. QED
      BY <1>2, <2>1, FS_Singleton
  <1>3. QED
    BY <1>1, <1>2

\* What the invariant says of the state.
LEMMA FieldsLemma ==
    ASSUME IInv
    PROVE  /\ ConnsOK /\ pend \subseteq AllEnds /\ open \subseteq AllEnds
           /\ known \in [AllEnds -> Marks] /\ queue \in [AllEnds -> Queues]
           /\ \A n \in Nodes : /\ peers[n] \subseteq DOMAIN conns
                               /\ handshakePeers[n] \subseteq DOMAIN conns
                               /\ \A c \in peers[n] \cup handshakePeers[n] : n \in conns[c]
                               /\ \A c, d \in peers[n] : conns[c] = conns[d] => c = d
                               /\ \A c, d \in handshakePeers[n] : conns[c] = conns[d] => c = d
                               /\ mgrs[n] \in Seq(Manager)
  <1> DEFINE W == World
  <1>1. ConnsOK /\ pend \subseteq AllEnds /\ W \in Worlds /\ EndsOwn(W) /\ OneEach(W)
    BY DEF IInv, Sound
  <1>2. /\ W.open = open /\ W.peers = peers /\ W.handshakePeers = handshakePeers
        /\ W.known = known /\ W.queue = queue /\ W.mgrs = mgrs
    BY WorldLemma
  <1> HIDE DEF W
  <1>3. QED
    BY <1>1, <1>2 DEF Worlds, EndsOwn, OneEach

\* The types of the variables follow.
LEMMA TypesLemma ==
    IInv => TypeOK
  <1> SUFFICES ASSUME IInv PROVE TypeOK
    OBVIOUS
  <1>1. /\ ConnsOK /\ pend \subseteq AllEnds /\ open \subseteq AllEnds
        /\ known \in [AllEnds -> Marks] /\ queue \in [AllEnds -> Queues]
        /\ \A n \in Nodes : /\ peers[n] \subseteq DOMAIN conns
                            /\ handshakePeers[n] \subseteq DOMAIN conns
                            /\ \A c \in peers[n] \cup handshakePeers[n] : n \in conns[c]
                            /\ \A c, d \in peers[n] : conns[c] = conns[d] => c = d
                            /\ \A c, d \in handshakePeers[n] : conns[c] = conns[d] => c = d
    BY FieldsLemma
  <1>2. ASSUME NEW c \in DOMAIN conns PROVE conns[c] \subseteq Nodes /\ Cardinality(conns[c]) = 2
    <2>1. PICK n, m \in Nodes : n # m /\ conns[c] = {n, m}
      BY <1>1 DEF ConnsOK
    <2>2. Cardinality({n} \cup {m}) = Cardinality({n}) + 1 /\ Cardinality({n}) = 1
      BY <2>1, FS_Singleton, FS_AddElement
    <2>3. {n} \cup {m} = {n, m}
      OBVIOUS
    <2>4. QED
      BY <2>1, <2>2, <2>3
  <1>3. Ends = AllEnds /\ DOMAIN queue = Ends
    BY <1>1 DEF Ends
  <1>4. ASSUME NEW n \in Nodes, NEW set \in {peers[n], handshakePeers[n]}
        PROVE  /\ \A c \in set : <<n, c>> \in Ends
               /\ \A m \in Nodes \ {n} : Cardinality({c \in set : conns[c] = {n, m}}) <= 1
    <2>1. /\ set \subseteq DOMAIN conns /\ \A c \in set : n \in conns[c]
          /\ \A c, d \in set : conns[c] = conns[d] => c = d
      BY <1>1
    <2>2. \A c \in set : <<n, c>> \in Ends
      BY <1>3, <2>1 DEF AllEnds
    <2>3. ASSUME NEW m \in Nodes \ {n} PROVE Cardinality({c \in set : conns[c] = {n, m}}) <= 1
      <3> DEFINE S == {c \in set : conns[c] = {n, m}}
      <3>1. \A x, y \in S : x = y
        BY <2>1
      <3> HIDE DEF S
      <3>2. Cardinality(S) = (IF S = {} THEN 0 ELSE 1)
        BY <3>1, AtMostOne
      <3>3. Cardinality(S) <= 1
        BY <3>2
      <3>4. QED
        BY <3>3 DEF S
    <2>4. QED
      BY <2>2, <2>3
  <1>5. ASSUME NEW e \in Ends
        PROVE  /\ known[e].txs \subseteq Txs /\ known[e].blocks \subseteq Blocks
               /\ Len(queue[e].txs) <= maxQueuedTxs
               /\ Len(queue[e].props) <= maxQueuedProps
               /\ Len(queue[e].anns) <= maxQueuedAnns
    <2>1. known[e] \in Marks /\ queue[e] \in Queues
      BY <1>1, <1>3
    <2>2. QED
      BY <2>1 DEF Marks, Queues
  <1>6. pend \subseteq Ends /\ open \subseteq Ends
    BY <1>1, <1>3
  <1>7. QED
    BY <1>2, <1>3, <1>4, <1>5, <1>6 DEF TypeOK

\* A manager that sends has one pack under way, with the peer it remembers.
LEMMA OnePackLemma ==
    IInv => OnePack
  <1> SUFFICES ASSUME IInv, NEW n \in Nodes, NEW g \in DOMAIN mgrs[n]
               PROVE  LET sent == {m \in msgs : m.from = n /\ m.mgr = g}
                      IN /\ Cardinality(sent) = IF mgrs[n][g].sending THEN 1 ELSE 0
                         /\ \A m \in sent : m.c = mgrs[n][g].pack
                         /\ mgrs[n][g].pending # {} => mgrs[n][g].sending
    BY DEF OnePack
  <1> DEFINE sent == {m \in msgs : m.from = n /\ m.mgr = g}
             W == World
  <1>1. PackSent(W, {}) /\ W.msgs = msgs /\ W.mgrs = mgrs
    BY WorldLemma DEF IInv
  <1> HIDE DEF W
  <1>2. g # 0
    <2>1. mgrs[n] \in Seq(Manager)
      BY FieldsLemma
    <2>2. QED
      BY <2>1
  <1>3. \A x \in sent : /\ mgrs[n][g].sending /\ x.c = mgrs[n][g].pack
                        /\ \A y \in sent : x = y
    BY <1>1, <1>2 DEF PackSent
  <1>4. /\ mgrs[n][g].pending # {} => mgrs[n][g].sending
        /\ mgrs[n][g].sending => sent # {}
    BY <1>1 DEF PackSent
  <1>5. Cardinality(sent) = (IF sent = {} THEN 0 ELSE 1)
    <2> HIDE DEF sent
    <2>1. QED
      BY <1>3, AtMostOne
  <1> HIDE DEF sent
  <1>6. Cardinality(sent) = IF mgrs[n][g].sending THEN 1 ELSE 0
    BY <1>3, <1>4, <1>5
  <1>7. QED
    BY <1>3, <1>4, <1>6 DEF sent

\* The marks of registered ends are true, and only settled ends have marks.
LEMMA MarksLemma ==
    IInv => MarksHold
  <1> SUFFICES ASSUME IInv PROVE MarksHold
    OBVIOUS
  <1> DEFINE W == World
  <1>1. TxMarksTrue(W, {}) /\ BlockMarksTrue(W, {}, fetches) /\ UsedSettled(W, pend)
    BY DEF IInv, Sound
  <1>2. /\ W.open = open /\ W.peers = peers /\ W.known = known /\ W.queue = queue
        /\ W.pool = pool /\ W.chain = chain /\ W.msgs = msgs
    BY WorldLemma
  <1> HIDE DEF W
  <1>3. open \subseteq AllEnds /\ DOMAIN known = AllEnds
    BY FieldsLemma
  <1>4. ASSUME NEW e \in open, e[2] \in peers[e[1]]
        PROVE  /\ \A t \in known[e].txs :
                    \/ t \in pool[Remote(e[1], e[2])]
                    \/ \E x \in OnTheWay(e[1], e[2], "txs") : t \in x.content
               /\ \A b \in known[e].blocks :
                    \/ b \in chain[Remote(e[1], e[2])]
                    \/ \E x \in OnTheWay(e[1], e[2], "block") \cup OnTheWay(e[1], e[2], "hash") :
                         x.content = b
                    \/ \E f \in fetches : f.node = Remote(e[1], e[2]) /\ f.block = b
    <2>1. e = <<e[1], e[2]>> /\ e[1] \in Nodes
      BY <1>3 DEF AllEnds
    <2> DEFINE n == e[1]
               c == e[2]
    <2>2. e = <<n, c>> /\ n \in Nodes /\ c \in W.peers[n] /\ <<n, c>> \in W.open
      BY <1>2, <1>4, <2>1
    <2> HIDE DEF n, c
    <2>3. ASSUME NEW t \in known[e].txs
          PROVE  t \in pool[Remote(n, c)] \/ \E x \in OnTheWay(n, c, "txs") : t \in x.content
      <3>1. t \in W.pool[Remote(n, c)] \/ TxOnWay(W, {}, n, c, t)
        BY <1>1, <1>2, <2>2 DEF TxMarksTrue
      <3>2. QED
        BY <1>2, <3>1 DEF TxOnWay, OnTheWay
    <2>4. ASSUME NEW b \in known[e].blocks
          PROVE  \/ b \in chain[Remote(n, c)]
                 \/ \E x \in OnTheWay(n, c, "block") \cup OnTheWay(n, c, "hash") : x.content = b
                 \/ \E f \in fetches : f.node = Remote(n, c) /\ f.block = b
      <3>1. \/ b \in W.chain[Remote(n, c)] \/ BlockOnWay(W, {}, n, c, b)
            \/ Fetched(fetches, Remote(n, c), c, b)
        BY <1>1, <1>2, <2>2 DEF BlockMarksTrue
      <3>2. QED
        BY <1>2, <3>1 DEF BlockOnWay, OnTheWay, Fetched
    <2>5. QED
      BY <2>3, <2>4 DEF n, c
  <1>5. MarksTrue
    BY <1>4 DEF MarksTrue
  <1>6. QueuesOfClosed
    BY <1>1, <1>2, <1>3 DEF QueuesOfClosed, UsedSettled, Ends
  <1>7. QED
    BY <1>5, <1>6 DEF MarksHold

\* When nothing is under way one of two nodes in use for each other has its peer.
LEMMA ShakingLemma ==
    IInv => HandshakesEnd
  <1> SUFFICES ASSUME IInv, msgs = {}, NEW n \in Nodes, NEW m \in Nodes, n # m,
                      InUse(n, m), InUse(m, n)
               PROVE  PeerOf(peers[n], n, m) # {} \/ PeerOf(peers[m], m, n) # {}
    BY DEF HandshakesEnd
  <1> DEFINE W == World
  <1>1. Shaking(W, {}) /\ ConnsOK /\ open \subseteq AllEnds
    BY FieldsLemma DEF IInv, Sound
  <1>2. W.open = open /\ W.peers = peers /\ W.msgs = {}
    BY WorldLemma
  <1> HIDE DEF W
  <1>3. PICK e \in open : e[1] = n /\ conns[e[2]] = {n, m}
    BY DEF InUse
  <1>4. PICK f \in open : f[1] = m /\ conns[f[2]] = {n, m}
    BY DEF InUse
  <1>5. e[2] \in DOMAIN conns /\ f[2] \in DOMAIN conns
    BY <1>1 DEF AllEnds
  <1>6. Remote(n, e[2]) = m /\ Remote(m, f[2]) = n
    BY <1>1, <1>3, <1>4, <1>5, RemoteLemma
  <1>7. HasPeer(W, n, e[2]) \/ HasPeer(W, m, f[2])
    <2>1. Facing(e, f)
      BY <1>3, <1>4, <1>6 DEF Facing
    <2>2. QED
      BY <1>1, <1>2, <1>3, <1>4, <2>1 DEF Shaking, StatusOnWay
  <1>8. ASSUME NEW k \in Nodes, NEW c \in DOMAIN conns, k \in conns[c], HasPeer(W, k, c)
        PROVE  PeerOf(peers[k], k, Remote(k, c)) # {}
    <2>1. peers[k] \in SUBSET DOMAIN conns /\ \A d \in peers[k] : k \in conns[d]
      BY FieldsLemma
    <2>2. PeerOf(peers[k], k, Remote(k, c)) = {d \in peers[k] : conns[d] = conns[c]}
      BY <1>1, <1>8, <2>1, PeerOfLemma
    <2>3. QED
      BY <1>2, <1>8, <2>2 DEF HasPeer
  <1>9. QED
    BY <1>3, <1>4, <1>5, <1>6, <1>7, <1>8

\* When nothing is under way the pools of neighbours are equal: each was offered to the
\* other, and what was offered arrived.
LEMMA QuietLemma ==
    IInv => SameWhenQuiet
  <1> SUFFICES ASSUME IInv, msgs = {}, NEW e \in open, NEW f \in open,
                      conns[e[2]] = {e[1], f[1]}, conns[f[2]] = {e[1], f[1]},
                      e[2] \in peers[e[1]] \ forgotten, f[2] \in peers[f[1]] \ forgotten
               PROVE  pool[e[1]] = pool[f[1]]
    BY DEF SameWhenQuiet
  <1> DEFINE W == World
  <1>1. /\ TxMarksTrue(W, {}) /\ PackSent(W, {}) /\ PoolOffered(W, pool) /\ ConnsOK
        /\ W \in Worlds /\ open \subseteq AllEnds
    BY FieldsLemma DEF IInv, Sound
  <1>2. /\ W.open = open /\ W.peers = peers /\ W.msgs = {} /\ W.known = known /\ W.pool = pool
        /\ W.forgotten = forgotten /\ W.mgrs = mgrs
    BY WorldLemma
  <1> HIDE DEF W
  <1>3. ASSUME NEW k \in Nodes, NEW c, <<k, c>> \in open, c \in peers[k] \ forgotten
        PROVE  pool[k] \subseteq pool[Remote(k, c)]
    <2> SUFFICES ASSUME NEW t \in pool[k] PROVE t \in pool[Remote(k, c)]
      OBVIOUS
    <2>1. c \in W.peers[k] \ W.forgotten /\ <<k, c>> \in W.open
      BY <1>2, <1>3
    <2>2. t \in W.known[<<k, c>>].txs \/ ToSend(W, k, c, t)
      BY <1>1, <2>1 DEF PoolOffered
    <2>3. ~ToSend(W, k, c, t)
      BY <1>1, <1>2 DEF ToSend, PackSent
    <2>4. t \in W.pool[Remote(k, c)] \/ TxOnWay(W, {}, k, c, t)
      BY <1>1, <2>1, <2>2, <2>3 DEF TxMarksTrue
    <2>5. QED
      BY <1>2, <2>4 DEF TxOnWay
  <1>4. /\ e[1] \in Nodes /\ e[2] \in DOMAIN conns /\ e = <<e[1], e[2]>>
        /\ f[1] \in Nodes /\ f[2] \in DOMAIN conns /\ f = <<f[1], f[2]>>
    BY <1>1 DEF AllEnds
  <1>5. Remote(e[1], e[2]) = f[1] /\ Remote(f[1], f[2]) = e[1]
    <2>1. /\ conns[e[2]] = {e[1], Remote(e[1], e[2])} /\ Remote(e[1], e[2]) # e[1]
          /\ conns[f[2]] = {f[1], Remote(f[1], f[2])} /\ Remote(f[1], f[2]) # f[1]
      BY <1>1, <1>4, RemoteLemma
    <2>2. QED
      BY <2>1
  <1>6. pool[e[1]] \subseteq pool[f[1]] /\ pool[f[1]] \subseteq pool[e[1]]
    <2>1. <<e[1], e[2]>> \in open /\ <<f[1], f[2]>> \in open
      BY <1>4
    <2>2. pool[e[1]] \subseteq pool[Remote(e[1], e[2])]
      BY <1>3, <1>4, <2>1
    <2>3. pool[f[1]] \subseteq pool[Remote(f[1], f[2])]
      BY <1>3, <1>4, <2>1
    <2>4. QED
      BY <1>5, <2>2, <2>3
  <1>7. QED
    BY <1>6, Zenon

(***************************************************************************)
(* The theorems.                                                           *)
(***************************************************************************)

\* Register of peerset.go: a node has one peer at most for each other node among
\* the registered ones and among those shaking hands, ends and queues are typed
\* and bounded, and the txSyncManager of sync.go has one pack at most under way.
THEOREM PacksCorrect ==
    Spec => []PacksSound
  <1>1. IInv => PacksSound
    BY TypesLemma, OnePackLemma DEF PacksSound
  <1>2. QED
    BY <1>1, WorldInvariant, PTL

\* MarkTransaction and MarkBlock of eth/peer.go: what a peer in use is marked as
\* knowing is at its node or on its way, and the queues of its broadcast drop and
\* leave nothing.
THEOREM MarksCorrect ==
    Spec => []MarksHold
  <1>1. QED
    BY MarksLemma, WorldInvariant, PTL

\* handle of eth/protocol_manager.go: when nothing is on its way, two nodes with ends
\* in use for each other, of one connection or of two, are not both without a
\* registered peer for the other.
THEOREM HandshakesComplete ==
    Spec => []HandshakesEnd
  <1>1. QED
    BY ShakingLemma, WorldInvariant, PTL

\* syncTransactions and BroadcastTxs: two nodes with registered ends in use for each
\* other, of one connection or of two, have the same transactions once nothing is on
\* its way, whatever was closed, stopped or lost before, unless the failure of an
\* older connection's pack took the list of one of them.
THEOREM PoolsAgree ==
    Spec => []SameWhenQuiet
  <1>1. QED
    BY QuietLemma, WorldInvariant, PTL

=============================================================================
