------------------------------ MODULE EthPeers ------------------------------
(***************************************************************************)
(* The eth protocol between nodes: eth/peer.go, the peers' life and the    *)
(* broadcasts of eth/protocol_manager.go, the transaction sync of          *)
(* eth/sync.go and the fetcher that takes announced blocks.                *)
(*                                                                         *)
(* A connection joins two nodes and has an end, <<n, c>>, at each of them: *)
(* the devp2p peer and the eth peer that wraps it.  Server.tla has the     *)
(* devp2p handshake; here an end waits for it, opens and closes.  A node   *)
(* goes offline and comes back with everything it had in memory, and a     *)
(* message arrives at any later time, in any order, or fails when the      *)
(* receiver is offline.                                                    *)
(*                                                                         *)
(* All of the nodes are in one network and have one genesis.  The limits   *)
(* of 32768 and 1024 marks are not reached.  The head and the total        *)
(* difficulty that the status message carries are in CliqueNet.tla.        *)
(***************************************************************************)
EXTENDS Integers, Sequences, FiniteSets, FiniteSetsExt, SequencesExt, Folds

CONSTANTS
  Nodes, Blocks,
  maxQueuedTxs, maxQueuedProps, maxQueuedAnns,
  minBroadcastPeers,
  Others,               \* how many more peers a node has
  PackSize,             \* txsyncPackSize, in transactions
  MaxTxs, MaxConns, MaxStops,   \* bounds: transactions, connections, stops of nodes
  MaxItems              \* bound: transactions and blocks together

ASSUME EthPeersAssumption ==
  /\ {maxQueuedTxs, maxQueuedProps, maxQueuedAnns, PackSize} \subseteq Nat \ {0}
  /\ {minBroadcastPeers, Others, MaxTxs, MaxConns, MaxStops, MaxItems} \subseteq Nat

\* Transactions are numbered as they enter.
Txs == 1..MaxTxs

VARIABLES
  conns,      \* the connections so far, as pairs of nodes
  pend,       \* the ends whose devp2p handshake is on its way
  open,       \* the ends in use
  peers,      \* the eth peers each node has registered, as connections
  handshakePeers,   \* the eth peers that wait for a status message
  known,      \* of each end, the transactions and blocks marked as known
  queue,      \* of each end, the lists and blocks queued to be sent
  online,
  pool,       \* the pending transactions of each node
  chain,      \* the blocks of each node
  mgrs,       \* the txSyncManagers of each node, one for each start
  msgs,       \* the messages under way
  forgotten,  \* connections whose transactions to sync went with an older one's
  fetches,    \* announced blocks that a node waits for: [node, c, block]
  stops

vars == <<conns, pend, open, peers, handshakePeers, known, queue, online, pool,
          chain, mgrs, forgotten, msgs, fetches, stops>>

World == [open |-> open, peers |-> peers, handshakePeers |-> handshakePeers,
          known |-> known, queue |-> queue, pool |-> pool, chain |-> chain,
          mgrs |-> mgrs, forgotten |-> forgotten, msgs |-> msgs]

Becomes(w) ==
  /\ open' = w.open /\ peers' = w.peers /\ handshakePeers' = w.handshakePeers
  /\ known' = w.known /\ queue' = w.queue /\ pool' = w.pool /\ chain' = w.chain
  /\ mgrs' = w.mgrs /\ forgotten' = w.forgotten /\ msgs' = w.msgs

Remote(n, c) == CHOOSE m \in conns[c] : m # n

\* The entry of a set of peers for a node, as a set.
PeerOf(set, n, m) == {c \in set : Remote(n, c) = m}

NoMarks == [txs |-> {}, blocks |-> {}]
EmptyQueue == [txs |-> << >>, props |-> << >>, anns |-> << >>]

\* Close of an end that is open, with removePeer of the protocol manager: what
\* is registered for the node goes, and closes as well.
Close(w, n, c) ==
  LET gone == PeerOf(w.peers[n], n, Remote(n, c))
  IN IF <<n, c>> \notin w.open THEN w
     ELSE [w EXCEPT !.open = @ \ ({<<n, c>>} \cup {<<n, d>> : d \in gone}),
                    !.peers[n] = @ \ gone]

--------------------------------------------------------------------------
(* Sending. *)

Msg(n, c, type, content, mgr) ==
  [from |-> n, c |-> c, type |-> type, content |-> content, mgr |-> mgr,
   dead |-> FALSE]

\* Mutant: a failure is not acted upon.
Fail_Ignored(w, m) == w

\* A message that fails, or finds no peer at the other node, closes the end it
\* was sent from.
Fail(w, m) == Close(w, m.from, m.c)

\* nodesEthPeer: the peer that a node has for another, as a set.
nodesEthPeer(n, m) == IF online[n] THEN PeerOf(peers[n], n, m) ELSE {}

\* send without a listener: from a node that is offline it fails at once.
Send(w, n, c, type, content) ==
  IF online[n] THEN [w EXCEPT !.msgs = @ \cup {Msg(n, c, type, content, 0)}]
  ELSE Close(w, n, c)

\* broadcast, which goes on until the queues of an open peer are empty.
broadcast(w, n, c) ==
  LET q == w.queue[<<n, c>>]
      each(v, type, list) == FoldLeft(LAMBDA x, i : Send(x, n, c, type, i), v, list)
      w0 == [w EXCEPT !.queue[<<n, c>>] = EmptyQueue]
  IN IF <<n, c>> \notin w.open THEN w
     ELSE each(each(each(w0, "txs", q.txs), "block", q.props), "hash", q.anns)

AsyncSendTransactions(w, n, c, txs) ==
  IF Len(w.queue[<<n, c>>].txs) >= maxQueuedTxs THEN w
  ELSE broadcast([w EXCEPT !.queue[<<n, c>>].txs = Append(@, txs),
                           !.known[<<n, c>>].txs = @ \cup txs], n, c)

AsyncSendNewBlock(w, n, c, b) ==
  IF Len(w.queue[<<n, c>>].props) >= maxQueuedProps THEN w
  ELSE broadcast([w EXCEPT !.queue[<<n, c>>].props = Append(@, b),
                           !.known[<<n, c>>].blocks = @ \cup {b}], n, c)

AsyncSendNewBlockHash(w, n, c, b) ==
  IF Len(w.queue[<<n, c>>].anns) >= maxQueuedAnns THEN w
  ELSE broadcast([w EXCEPT !.queue[<<n, c>>].anns = Append(@, b),
                           !.known[<<n, c>>].blocks = @ \cup {b}], n, c)

PeersWithoutBlock(w, n, b) == {c \in w.peers[n] : b \notin w.known[<<n, c>>].blocks}

\* BroadcastTxs
BroadcastTxs(w, n, txs) ==
  FoldSet(LAMBDA c, v :
            LET new == txs \ w.known[<<n, c>>].txs
            IN IF new = {} THEN v ELSE AsyncSendTransactions(v, n, c, new),
          w, w.peers[n])

\* How many of k peers get the whole block.
Isqrt(k) == Max({i \in 0..k : i * i <= k})
TransferLen(k) == Min({k, Max({Isqrt(k), minBroadcastPeers})})

Propagate(w, n, b, transfer) ==
  FoldSet(LAMBDA c, v : AsyncSendNewBlock(v, n, c, b), w, transfer)
Announce(w, n, b) ==
  FoldSet(LAMBDA c, v : AsyncSendNewBlockHash(v, n, c, b), w, PeersWithoutBlock(w, n, b))

\* The sets of peers that the block may be transferred to; peers outside the
\* model may be among those it goes to.
Transfers(w, n, b) ==
  LET without == PeersWithoutBlock(w, n, b)
      len == TransferLen(Cardinality(without) + Others)
  IN {T \in SUBSET without : Cardinality(T) <= len /\ len - Cardinality(T) <= Others}

\* BroadcastBlock to some, the block is there, and then to the rest.
Spread(w, n, b, transfer) ==
  Announce([Propagate(w, n, b, transfer) EXCEPT !.chain[n] = @ \cup {b}], n, b)

--------------------------------------------------------------------------
(* The transaction sync. *)

NewManager == [pending |-> {}, sending |-> FALSE, pack |-> 0]

\* send of a txSyncManager: one pack for the peer, which the manager holds until
\* the listener is called.  A node that is offline fails at once, and so do all
\* the others that wait.
SendPack(w, n, g, s) ==
  LET m == w.mgrs[n][g]
      txs == CHOOSE T \in SUBSET s.txs :
               Cardinality(T) = Min({PackSize, Cardinality(s.txs)})
      left == IF txs = s.txs THEN {} ELSE {[s EXCEPT !.txs = @ \ txs]}
  IN IF online[n]
     THEN [w EXCEPT !.mgrs[n][g] = [pending |-> (m.pending \ {s}) \cup left,
                                    sending |-> TRUE, pack |-> s.c],
                    !.known[<<n, s.c>>].txs = @ \cup txs,
                    !.msgs = @ \cup {Msg(n, s.c, "txs", txs, g)}]
     ELSE FoldSet(LAMBDA t, v : Close(v, n, t.c),
                  [w EXCEPT !.mgrs[n][g] = [m EXCEPT !.pending = {}, !.sending = FALSE]],
                  m.pending \cup {s})

\* Mutant: a failed send leaves the flag.
Listener_Sending(w, n, g, err, pick) ==
  LET m == w.mgrs[n][g]
      failed == {s \in m.pending : err /\ Remote(n, s.c) = Remote(n, m.pack)}
      w1 == [w EXCEPT !.mgrs[n][g] = [m EXCEPT !.sending = err, !.pending = @ \ failed],
                      !.forgotten = @ \cup ({s.c : s \in failed} \ {m.pack})]
      some == pick \cap (m.pending \ failed)
  IN IF some = {} THEN w1 ELSE SendPack(w1, n, g, CHOOSE s \in some : TRUE)

\* The listener of a pack.  The one to send next is any of those that wait.
Listener(w, n, g, err, pick) ==
  LET m == w.mgrs[n][g]
      failed == {s \in m.pending : err /\ Remote(n, s.c) = Remote(n, m.pack)}
      w1 == [w EXCEPT !.mgrs[n][g] = [m EXCEPT !.sending = FALSE, !.pending = @ \ failed],
                      !.forgotten = @ \cup ({s.c : s \in failed} \ {m.pack})]
      some == pick \cap (m.pending \ failed)
  IN IF some = {} THEN w1 ELSE SendPack(w1, n, g, CHOOSE s \in some : TRUE)

\* What the listener may pick: one of those that wait, if there is any.
Picks(w, n, g, err) ==
  LET m == w.mgrs[n][g]
      rest == {s \in m.pending : ~(err /\ Remote(n, s.c) = Remote(n, m.pack))}
  IN IF rest = {} THEN {{}} ELSE {{s} : s \in rest}

\* Mutant: the peer is left out while a pack is under way.
syncTransactions_Busy(w, n, c) ==
  LET g == Len(w.mgrs[n])
      s == [c |-> c, txs |-> w.pool[n]]
      w1 == [w EXCEPT !.mgrs[n][g].pending =
               {t \in @ : Remote(n, t.c) # Remote(n, c)} \cup {s}]
  IN IF w.pool[n] = {} \/ w.mgrs[n][g].sending THEN w ELSE SendPack(w1, n, g, s)

\* syncTransactions
syncTransactions(w, n, c) ==
  LET g == Len(w.mgrs[n])
      s == [c |-> c, txs |-> w.pool[n]]
      w1 == [w EXCEPT !.mgrs[n][g].pending =
               {t \in @ : Remote(n, t.c) # Remote(n, c)} \cup {s}]
  IN IF w.pool[n] = {} THEN w
     ELSE IF w.mgrs[n][g].sending THEN w1 ELSE SendPack(w1, n, g, s)

--------------------------------------------------------------------------
(* Connections. *)

Init ==
  /\ conns = << >> /\ pend = {} /\ open = {}
  /\ peers = [n \in Nodes |-> {}] /\ handshakePeers = [n \in Nodes |-> {}]
  /\ known = << >> /\ queue = << >>
  /\ online = [n \in Nodes |-> TRUE] /\ pool = [n \in Nodes |-> {}]
  /\ chain = [n \in Nodes |-> {}]
  /\ mgrs = [n \in Nodes |-> <<NewManager>>]
  /\ forgotten = {} /\ msgs = {} /\ fetches = {} /\ stops = 0

\* A node has an end in use towards another.
InUse(n, m) == \E e \in open : e[1] = n /\ conns[e[2]] = {n, m}

\* SetupConn: a node dials another.  Each of the two checks only its own peers: the
\* other may have an old end in use, and goes without a new one.
Connect(n, m) ==
  LET c == Len(conns) + 1
      new == {k \in {n, m} : ~InUse(k, IF k = n THEN m ELSE n)}
  IN /\ n # m /\ online[n] /\ online[m] /\ c <= MaxConns /\ new # {}
     /\ conns' = Append(conns, {n, m})
     /\ pend' = pend \cup {<<k, c>> : k \in new}
     /\ known' = [e \in DOMAIN known \cup {<<n, c>>, <<m, c>>} |->
                    IF e[2] = c THEN NoMarks ELSE known[e]]
     /\ queue' = [e \in DOMAIN queue \cup {<<n, c>>, <<m, c>>} |->
                    IF e[2] = c THEN EmptyQueue ELSE queue[e]]
     /\ UNCHANGED <<open, peers, handshakePeers, online, pool, chain, mgrs, msgs,
                    forgotten, fetches, stops>>

\* The handshake of an end fails.
ConnectFails(n, c) ==
  /\ <<n, c>> \in pend
  /\ pend' = pend \ {<<n, c>>}
  /\ UNCHANGED <<conns, open, peers, handshakePeers, known, queue, online, pool,
                 chain, mgrs, forgotten, msgs, fetches, stops>>

\* A peer too many is closed, and goes on.
Refuse(w, n, c, full) == IF full THEN Close(w, n, c) ELSE w

\* Register of the handshake peers; the error that there is one is not looked at.
Wait(w, n, c) ==
  IF PeerOf(w.handshakePeers[n], n, Remote(n, c)) # {} THEN w
  ELSE [w EXCEPT !.handshakePeers[n] = @ \cup {c}]

\* handle: the end is in use.  The peer waits for the other's status unless one
\* for the same node waits already, and sends its own.
Handle(n, c, full) ==
  /\ <<n, c>> \in pend /\ online[Remote(n, c)] /\ ~InUse(n, Remote(n, c))
  /\ pend' = pend \ {<<n, c>>}
  /\ LET w == Refuse([World EXCEPT !.open = @ \cup {<<n, c>>}], n, c, full)
         status == [Msg(n, c, "status", {}, 0) EXCEPT !.dead = ~online[n]]
     IN Becomes([Wait(w, n, c) EXCEPT !.msgs = @ \cup {status}])
  /\ UNCHANGED <<conns, online, fetches, stops>>

\* Mutant: a peer that is closed by then is not registered.
Registered_Open(w, n, c) ==
  IF <<n, c>> \notin w.open THEN w
  ELSE IF PeerOf(w.peers[n], n, Remote(n, c)) # {} THEN Close(w, n, c)
  ELSE syncTransactions([w EXCEPT !.peers[n] = @ \cup {c}], n, c)

\* The status arrives: the peer that waits for it is registered, whether it is
\* open or not, and gets the pending transactions.
Registered(w, n, c) ==
  IF PeerOf(w.peers[n], n, Remote(n, c)) # {} THEN Close(w, n, c)
  ELSE syncTransactions([w EXCEPT !.peers[n] = @ \cup {c}], n, c)

\* A status that nobody waits for closes the end it was sent from, too.
ReceiveStatus(m) ==
  LET to == Remote(m.from, m.c)
      arrives == ~m.dead /\ online[to]
      waiting == IF arrives THEN PeerOf(handshakePeers[to], to, m.from) ELSE {}
      w == [World EXCEPT !.msgs = @ \ {m}, !.handshakePeers[to] = @ \ waiting]
  IN /\ m.type = "status"
     /\ Becomes(IF waiting = {} THEN Fail(w, m)
                ELSE Registered(w, to, CHOOSE d \in waiting : TRUE))
     /\ UNCHANGED <<conns, pend, online, fetches, stops>>

\* An end closes for a reason of its own: no answer to a ping, or what the peer
\* sent was no good.
Drop(n, c) ==
  /\ <<n, c>> \in open
  /\ Becomes(Close(World, n, c))
  /\ UNCHANGED <<conns, pend, online, fetches, stops>>

\* The node goes offline: its server closes all ends and the peer set is closed.
Stop(n) ==
  /\ online[n] /\ stops < MaxStops
  /\ online' = [online EXCEPT ![n] = FALSE] /\ stops' = stops + 1
  /\ Becomes(FoldSet(LAMBDA e, w : Close(w, n, e[2]), World,
                     {e \in open : e[1] = n}))
  /\ UNCHANGED <<conns, pend, fetches>>

Start(n) ==
  /\ ~online[n]
  /\ online' = [online EXCEPT ![n] = TRUE]
  /\ mgrs' = [mgrs EXCEPT ![n] = Append(@, NewManager)]
  /\ UNCHANGED <<conns, pend, open, peers, handshakePeers, known, queue, pool, chain,
                 forgotten, msgs, fetches, stops>>

--------------------------------------------------------------------------
(* Transactions and blocks. *)

Items == (UNION {pool[m] : m \in Nodes}) \cup (UNION {chain[m] : m \in Nodes})

\* AddTxs: a transaction enters at a node.
AddTx(n) ==
  LET t == Cardinality(UNION {pool[m] : m \in Nodes}) + 1 IN
  /\ online[n] /\ t \in Txs /\ Cardinality(Items) < MaxItems
  /\ Becomes(BroadcastTxs([World EXCEPT !.pool[n] = @ \cup {t}], n, {t}))
  /\ UNCHANGED <<conns, pend, online, fetches, stops>>

\* HandleTxMsg at the peer the receiver has for the sender.
HandleTxMsg(w, n, d, txs) ==
  LET new == txs \ w.pool[n]
      w1 == [w EXCEPT !.known[<<n, d>>].txs = @ \cup txs, !.pool[n] = @ \cup txs]
  IN IF new = {} THEN w1 ELSE BroadcastTxs(w1, n, new)

\* A list of transactions arrives, or does not.
ReceiveTxs(m) ==
  LET to == Remote(m.from, m.c)
      w == [World EXCEPT !.msgs = @ \ {m}]
      at == nodesEthPeer(to, m.from)
      err == at = {}
      w1 == IF err THEN Fail(w, m)
            ELSE HandleTxMsg(w, to, CHOOSE d \in at : TRUE, m.content)
  IN /\ m.type = "txs"
     /\ IF m.mgr = 0 THEN Becomes(w1)
        ELSE \E pick \in Picks(w1, m.from, m.mgr, err) :
               Becomes(Listener(w1, m.from, m.mgr, err, pick))
     /\ UNCHANGED <<conns, pend, online, fetches, stops>>

\* broadcastMinedBlock
Mine(n, b) ==
  /\ online[n] /\ \A m \in Nodes : b \notin chain[m]
  /\ Cardinality(Items) < MaxItems
  /\ \E w \in {[World EXCEPT !.chain[n] = @ \cup {b}]} :
       \E transfer \in Transfers(w, n, b) : Becomes(Spread(w, n, b, transfer))
  /\ UNCHANGED <<conns, pend, online, fetches, stops>>

\* HandleNewBlockMsg: the fetcher passes the block on, imports it and announces
\* it.
ReceiveBlock(m) ==
  LET to == Remote(m.from, m.c)
      w == [World EXCEPT !.msgs = @ \ {m}]
      at == nodesEthPeer(to, m.from)
  IN /\ m.type = "block"
     /\ IF at = {} THEN Becomes(Fail(w, m))
        ELSE \E d \in at :
               \E v \in {[w EXCEPT !.known[<<to, d>>].blocks = @ \cup {m.content}]} :
                 \E transfer \in Transfers(v, to, m.content) :
                   Becomes(Spread(v, to, m.content, transfer))
     /\ UNCHANGED <<conns, pend, online, fetches, stops>>

\* HandleNewBlockHashesMsg: a block that is not there is fetched.
ReceiveHash(m) ==
  LET to == Remote(m.from, m.c)
      w == [World EXCEPT !.msgs = @ \ {m}]
      at == nodesEthPeer(to, m.from)
  IN /\ m.type = "hash"
     /\ IF at = {} THEN Becomes(Fail(w, m)) /\ UNCHANGED fetches
        ELSE \E d \in at :
               /\ Becomes([w EXCEPT !.known[<<to, d>>].blocks = @ \cup {m.content}])
               /\ fetches' = IF m.content \in chain[to] THEN fetches
                             ELSE fetches \cup {[node |-> to, c |-> d, block |-> m.content]}
     /\ UNCHANGED <<conns, pend, online, stops>>

\* Notify after its timeout: header and body are read from the other node, if it
\* has a peer for this one.
Fetch(f) ==
  LET from == Remote(f.node, f.c)
      there == nodesEthPeer(from, f.node) # {}
  IN /\ fetches' = fetches \ {f}
     /\ IF f.block \in chain[f.node] \/ ~there THEN Becomes(World)
        ELSE \E transfer \in Transfers(World, f.node, f.block) :
               Becomes(Spread(World, f.node, f.block, transfer))
     /\ UNCHANGED <<conns, pend, online, stops>>

--------------------------------------------------------------------------

Next ==
  \/ \E n, m \in Nodes : Connect(n, m)
  \/ \E e \in pend : ConnectFails(e[1], e[2])
  \/ \E e \in pend, full \in BOOLEAN : Handle(e[1], e[2], full)
  \/ \E e \in open : Drop(e[1], e[2])
  \/ \E n \in Nodes : Stop(n) \/ Start(n)
  \/ \E n \in Nodes : AddTx(n)
  \/ \E n \in Nodes, b \in Blocks : Mine(n, b)
  \/ \E m \in msgs : ReceiveStatus(m) \/ ReceiveTxs(m) \/ ReceiveBlock(m) \/ ReceiveHash(m)
  \/ \E f \in fetches : Fetch(f)

Spec == Init /\ [][Next]_vars

--------------------------------------------------------------------------
(* Properties. *)

Ends == DOMAIN known

\* Connections join two nodes, peers and queues belong to ends of connections,
\* a set of peers has at most one for a node, and the queues keep their sizes.
TypeOK ==
  /\ \A c \in DOMAIN conns : conns[c] \subseteq Nodes /\ Cardinality(conns[c]) = 2
  /\ pend \subseteq Ends /\ open \subseteq Ends /\ DOMAIN queue = Ends
  /\ \A n \in Nodes : \A set \in {peers[n], handshakePeers[n]} :
       /\ \A c \in set : <<n, c>> \in Ends
       /\ \A m \in Nodes \ {n} : Cardinality({c \in set : conns[c] = {n, m}}) <= 1
  /\ \A e \in Ends : /\ known[e].txs \subseteq Txs /\ known[e].blocks \subseteq Blocks
                     /\ Len(queue[e].txs) <= maxQueuedTxs
                     /\ Len(queue[e].props) <= maxQueuedProps
                     /\ Len(queue[e].anns) <= maxQueuedAnns

\* Something waits in a queue only when its peer is closed: for a peer in use the
\* queues are empty, and the limits of the queues drop nothing.
QueuesOfClosed == \A e \in Ends : queue[e] # EmptyQueue => e \notin open

OnTheWay(n, c, type) == {m \in msgs : m.from = n /\ m.c = c /\ m.type = type}

\* A transaction or block that is marked as known at a registered peer in use is
\* at the other node or on its way there, so that leaving it out of later
\* broadcasts loses nothing.
MarksTrue ==
  \A e \in open : LET n == e[1]  c == e[2]  m == Remote(n, c) IN
    c \in peers[n] =>
      /\ \A t \in known[e].txs :
           t \in pool[m] \/ \E x \in OnTheWay(n, c, "txs") : t \in x.content
      /\ \A b \in known[e].blocks :
           \/ b \in chain[m]
           \/ \E x \in OnTheWay(n, c, "block") \cup OnTheWay(n, c, "hash") : x.content = b
           \/ \E f \in fetches : f.node = m /\ f.block = b

\* A manager has one pack under way when it is sending, the one its shared pack
\* is for, and it is sending when somebody waits.
OnePack ==
  \A n \in Nodes : \A g \in DOMAIN mgrs[n] :
    LET sent == {m \in msgs : m.from = n /\ m.mgr = g}
    IN /\ Cardinality(sent) = IF mgrs[n][g].sending THEN 1 ELSE 0
       /\ \A m \in sent : m.c = mgrs[n][g].pack
       /\ mgrs[n][g].pending # {} => mgrs[n][g].sending

\* Two nodes that have registered each other in ends in use have the same
\* transactions once nothing is on its way, unless the pack of an older
\* connection failed while those of such an end waited and took them with it.
SameWhenQuiet ==
  msgs = {} /\ fetches = {} =>
    \A e, f \in open :
      /\ conns[e[2]] = {e[1], f[1]} /\ conns[f[2]] = {e[1], f[1]}
      /\ e[2] \in peers[e[1]] \ forgotten /\ f[2] \in peers[f[1]] \ forgotten
      => pool[e[1]] = pool[f[1]]

\* When nothing is on its way, of two nodes with ends in use for each other one at
\* least has a peer registered for the other, although a handshake may find the
\* stale peer of an earlier connection and register that one.  The other may have
\* none: an earlier end of it took the status and closed, and the end that it opened
\* since waits for one that was sent already.
HandshakesEnd ==
  msgs = {} => \A n, m \in Nodes :
    n # m /\ InUse(n, m) /\ InUse(m, n) =>
      PeerOf(peers[n], n, m) # {} \/ PeerOf(peers[m], m, n) # {}

\* What a peer is marked as knowing reaches it: the marks are true, and nothing
\* is dropped by, or left in, the queues of a peer in use.
MarksHold == MarksTrue /\ QueuesOfClosed

\* A node has one peer at most for each other node among the registered ones and
\* among those shaking hands, and each of its managers one pack at most under way.
PacksSound == TypeOK /\ OnePack

=============================================================================
