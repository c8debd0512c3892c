------------------------------- MODULE Server -------------------------------
(***************************************************************************)
(* The devp2p servers of a network (devp2p/server.go, dial.go, peer.go):   *)
(* dialling, the handshake messages of both ends of a connection, the      *)
(* limits on peers, pings, and nodes that go offline and come back         *)
(* (network/node.go).  No protocol runs on top, as in the DEVp2p mode of   *)
(* the simulator.                                                          *)
(*                                                                         *)
(* Runners switch only inside Advance and Wait, so an action is the code   *)
(* between two of them.  Time is not modelled: messages and timeouts end   *)
(* at any moment.  Which candidates the table and the last lookup offer is *)
(* arbitrary; the dial history holds a node back at least until the end of *)
(* the handshake with it (handshakeTimeout is 5 s, dialHistoryExpiration   *)
(* 30 s), and afterwards for any time.  A node is down for longer than a   *)
(* lookup takes, so no discoverTask of an earlier session ends in a later  *)
(* one.                                                                    *)
(***************************************************************************)
EXTENDS Integers, FiniteSets, Sequences, SequencesExt

CONSTANTS
    Nodes,
    MaxPeers,
    DialRatio,
    NoDial,         \* the nodes whose server has NoDial set
    maxActiveDialTasks,
    MaxStops        \* bound: how often nodes go offline

ASSUME ServerAssumption ==
    /\ IsFiniteSet(Nodes)
    /\ MaxPeers \in Nat \ {0}
    /\ DialRatio \in Nat
    /\ NoDial \subseteq Nodes
    /\ maxActiveDialTasks \in Nat \ {0}
    /\ MaxStops \in Nat

defaultDialRatio == 3

maxDialedConns(n) ==
    IF n \in NoDial
    THEN 0
    ELSE MaxPeers \div (IF DialRatio = 0 THEN defaultDialRatio ELSE DialRatio)

maxInboundConns(n) == MaxPeers - maxDialedConns(n)

VARIABLES
    online,         \* online[n]: Node.online
    server,         \* server[n]: "nil" before the first Start, "running" or "stopped"
    peers,          \* peers[n][b]: the flag of the peer for node b, "nil" if none
    inboundCount,
    handshakes,     \* the handshake messages on their way
    dial,           \* dial[n]: the tasks of the dial loop of server n
    stops           \* how often nodes went offline

vars == <<online, server, peers, inboundCount, handshakes, dial, stops>>

\* A dial task is named by its destination.
Tasks == Nodes \cup {"discover", "wait"}

Handshake == [from : Nodes, to : Nodes, flags : {"dynDialedConn", "inboundConn"}]

NoTasks == [running |-> {}, queued |-> <<>>]

Connected(conns, flag) == {b \in Nodes : conns[b] = flag}
Occupied(conns)        == {b \in Nodes : conns[b] # "nil"}

----------------------------------------------------------------------------
\* The tasks of a loop, running or queued; the dial tasks among them are the
\* keys of dialing, and lookupRunning says that a discoverTask is among them.
AllTasks(d) == d.running \cup ToSet(d.queued)
dialing(d)  == AllTasks(d) \cap Nodes

needDynDials(n, d, conns) ==
    maxDialedConns(n) - Cardinality(Connected(conns, "dynDialedConn")) - Cardinality(dialing(d))

checkDial(n, b, d, conns, hs) ==
    /\ b # n /\ b \notin dialing(d) /\ conns[b] = "nil"
    /\ [from |-> n, to |-> b, flags |-> "dynDialedConn"] \notin hs

\* Starts tasks until the maximum is reached, and queues the rest.
startTasks(d, ts) ==
    LET room == maxActiveDialTasks - Cardinality(d.running)
        k    == IF room < Len(ts) THEN room ELSE Len(ts)
    IN  [d EXCEPT !.running = @ \cup ToSet(SubSeq(ts, 1, k)),
                  !.queued  = @ \o SubSeq(ts, k + 1, Len(ts))]

\* The candidates that newTasks may dial, as many as are needed.
NewDials(n, d, conns, hs) ==
    {dials \in SUBSET {b \in Nodes : checkDial(n, b, d, conns, hs)} :
        dials = {} \/ Cardinality(dials) <= needDynDials(n, d, conns)}

\* A lookup is launched if more candidates are needed.
Lookup(n, d, conns, dials) ==
    IF needDynDials(n, d, conns) > Cardinality(dials) /\ "discover" \notin AllTasks(d)
    THEN <<"discover">>
    ELSE <<>>

(***************************************************************************)
(* newTasks: dials, a lookup, and if there is nothing else to tick the     *)
(* loop a timer for the next entry of the dial history.  No timer is set   *)
(* if the history is empty or that entry expires right now.                *)
(***************************************************************************)
newTasks(n, d, conns, hs) ==
    UNION {
        LET lookup == Lookup(n, d, conns, dials)
            idle   == AllTasks(d) = {} /\ dials = {} /\ lookup = <<>>
        IN  {s \o lookup \o timer :
                s \in SetToSeqs(dials), timer \in {<<>>} \cup IF idle THEN {<<"wait">>} ELSE {}}
        : dials \in NewDials(n, d, conns, hs)}

\* The dial states that scheduleTasks may leave: queued tasks first, then new
\* ones if there is room.
scheduleTasks(n, d, conns, hs) ==
    LET q == startTasks([d EXCEPT !.queued = <<>>], d.queued)
    IN  IF Cardinality(q.running) >= maxActiveDialTasks
        THEN {q}
        ELSE {startTasks(q, ts) : ts \in newTasks(n, q, conns, hs)}

\* refreshFunc is set exactly while the server runs.
Refresh(n, d, conns) ==
    IF server[n] = "running"
    THEN \E d2 \in scheduleTasks(n, d, conns, handshakes') : dial' = [dial EXCEPT ![n] = d2]
    ELSE UNCHANGED dial

encHandshakeChecks(n, b, flags) ==
    /\ Cardinality(Occupied(peers[n])) < MaxPeers
    /\ flags = "inboundConn" => inboundCount[n] < maxInboundConns(n)
    /\ peers[n][b] = "nil"
    /\ b # n

\* Mutant: the checks are not repeated after the handshake.
protoHandshakeChecks_NotRepeated(n, b, flags) == peers[n][b] = "nil"

protoHandshakeChecks(n, b, flags) == encHandshakeChecks(n, b, flags)

\* setupConn sends a handshake if the checks pass.
setupConn(n, b, flags) ==
    IF server[n] = "running" /\ encHandshakeChecks(n, b, flags)
    THEN {[from |-> n, to |-> b, flags |-> flags]}
    ELSE {}

\* SetupConn of the node that dials, and of the dialled node for its end.
SetupConn(n, b) ==
    IF server[b] = "nil"
    THEN {}
    ELSE setupConn(n, b, "dynDialedConn") \cup setupConn(b, n, "inboundConn")

addPeer(m) ==
    LET n  == m.from
        ok == protoHandshakeChecks(n, m.to, m.flags)
    IN  /\ peers' = IF ok THEN [peers EXCEPT ![n][m.to] = m.flags] ELSE peers
        /\ inboundCount' = IF ok /\ m.flags = "inboundConn"
                           THEN [inboundCount EXCEPT ![n] = @ + 1]
                           ELSE inboundCount
        /\ Refresh(n, dial[n], peers'[n])

\* Mutant: the dial loop is not told that a peer is gone.
DeletePeer_NoRefresh(n, b) ==
    /\ peers' = [peers EXCEPT ![n][b] = "nil"]
    /\ inboundCount' = IF peers[n][b] = "inboundConn"
                       THEN [inboundCount EXCEPT ![n] = @ - 1]
                       ELSE inboundCount
    /\ UNCHANGED dial

DeletePeer(n, b) ==
    /\ peers' = [peers EXCEPT ![n][b] = "nil"]
    /\ inboundCount' = IF peers[n][b] = "inboundConn"
                       THEN [inboundCount EXCEPT ![n] = @ - 1]
                       ELSE inboundCount
    /\ Refresh(n, dial[n], peers'[n])

----------------------------------------------------------------------------
Init ==
    /\ online       = [n \in Nodes |-> TRUE]
    /\ server       = [n \in Nodes |-> "nil"]
    /\ peers        = [n \in Nodes |-> [b \in Nodes |-> "nil"]]
    /\ inboundCount = [n \in Nodes |-> 0]
    /\ handshakes   = {}
    /\ dial         = [n \in Nodes |-> NoTasks]
    /\ stops        = 0

\* startServer, or setOnline(true) once the table is refreshed: a new loop.
Start(n) ==
    /\ online[n] /\ server[n] # "running"
    /\ server' = [server EXCEPT ![n] = "running"]
    /\ \E d \in scheduleTasks(n, NoTasks, peers[n], handshakes) : dial' = [dial EXCEPT ![n] = d]
    /\ UNCHANGED <<online, peers, inboundCount, handshakes, stops>>

\* setOnline(true) until its first wait, the refresh of the table.
GoOnline(n) ==
    /\ ~online[n]
    /\ online' = [online EXCEPT ![n] = TRUE]
    /\ UNCHANGED <<server, peers, inboundCount, handshakes, dial, stops>>

\* setOnline(false): Stop ends the loop and disconnects every peer.
Stop(n) ==
    /\ server[n] = "running" /\ stops < MaxStops
    /\ online'       = [online EXCEPT ![n] = FALSE]
    /\ server'       = [server EXCEPT ![n] = "stopped"]
    /\ peers'        = [peers EXCEPT ![n] = [b \in Nodes |-> "nil"]]
    /\ inboundCount' = [inboundCount EXCEPT ![n] =
                           @ - Cardinality(Connected(peers[n], "inboundConn"))]
    /\ dial'         = [dial EXCEPT ![n] = NoTasks]
    /\ stops'        = stops + 1
    /\ UNCHANGED handshakes

\* The latency of a dial is over: both ends set up the connection, and the
\* task is done although the handshakes have only been sent.
DialTaskDone(n, b) ==
    /\ b \in dial[n].running
    /\ handshakes' = handshakes \cup SetupConn(n, b)
    /\ Refresh(n, [dial[n] EXCEPT !.running = @ \ {b}], peers[n])
    /\ UNCHANGED <<online, server, peers, inboundCount, stops>>

DiscoverTaskDone(n) ==
    /\ "discover" \in dial[n].running
    /\ UNCHANGED <<online, server, peers, inboundCount, handshakes, stops>>
    /\ Refresh(n, [dial[n] EXCEPT !.running = @ \ {"discover"}], peers[n])

WaitExpireTaskDone(n) ==
    /\ "wait" \in dial[n].running
    /\ UNCHANGED <<online, server, peers, inboundCount, handshakes, stops>>
    /\ Refresh(n, [dial[n] EXCEPT !.running = @ \ {"wait"}], peers[n])

\* A handshake message reaches a node that is online.  The handler compares
\* an interface that holds a nil pointer with nil, so it always succeeds.
HandshakeDone(m) ==
    /\ m \in handshakes /\ online[m.to]
    /\ handshakes' = handshakes \ {m}
    /\ addPeer(m)
    /\ UNCHANGED <<online, server, stops>>

\* The other node is offline: the connection fails after handshakeTimeout.
HandshakeTimeout(m) ==
    /\ m \in handshakes /\ ~online[m.to]
    /\ handshakes' = handshakes \ {m}
    /\ UNCHANGED <<online, server, peers, inboundCount, dial, stops>>

\* Mutant: a peer that does not know us is kept.
PingFails_OnlyOffline(n, b) == ~online[n] \/ ~online[b]

PingFails(n, b) == ~online[n] \/ ~online[b] \/ peers[b][n] = "nil"

\* A ping of the peer for b that is not answered closes the peer.  The pong,
\* which fails the same way when it finds its receiver offline, is part of it.
Ping(n, b) ==
    /\ peers[n][b] # "nil"
    /\ PingFails(n, b)
    /\ UNCHANGED <<online, server, handshakes, stops>>
    /\ DeletePeer(n, b)

Next ==
    \/ \E n \in Nodes : Start(n)
    \/ \E n \in Nodes : GoOnline(n)
    \/ \E n \in Nodes : Stop(n)
    \/ \E n, b \in Nodes : DialTaskDone(n, b)
    \/ \E n \in Nodes : DiscoverTaskDone(n)
    \/ \E n \in Nodes : WaitExpireTaskDone(n)
    \/ \E m \in handshakes : HandshakeDone(m)
    \/ \E m \in handshakes : HandshakeTimeout(m)
    \/ \E n, b \in Nodes : Ping(n, b)

Spec == Init /\ [][Next]_vars

\* The ping loop of a peer runs until the peer is closed.
Fairness == \A n \in Nodes : \A b \in Nodes \ {n} : WF_vars(Ping(n, b))

FairSpec == Spec /\ Fairness

----------------------------------------------------------------------------
(***************************************************************************)
(* Type invariant; also, only a running server has a dial loop, and never  *)
(* more than maxActiveDialTasks tasks run.                                 *)
(***************************************************************************)
TypeOK ==
    /\ online \in [Nodes -> BOOLEAN]
    /\ server \in [Nodes -> {"nil", "running", "stopped"}]
    /\ peers \in [Nodes -> [Nodes -> {"nil", "dynDialedConn", "inboundConn"}]]
    /\ inboundCount \in [Nodes -> Int]
    /\ handshakes \subseteq Handshake
    /\ \A n \in Nodes :
          /\ dial[n].running \subseteq Tasks
          /\ Cardinality(dial[n].running) <= maxActiveDialTasks
          /\ dial[n].queued \in Seq(Tasks)
          /\ server[n] # "running" => dial[n] = NoTasks
          /\ server[n] = "running" => online[n]
    /\ stops \in 0..MaxStops

(***************************************************************************)
(* The count of inbound peers that encHandshakeChecks compares with the    *)
(* limit is their number, through failed handshakes, closed peers and      *)
(* restarts; a count that leaked would shut out every inbound connection.  *)
(***************************************************************************)
InboundCountMatches ==
    \A n \in Nodes : inboundCount[n] = Cardinality(Connected(peers[n], "inboundConn"))

(***************************************************************************)
(* "MaxPeers is the maximum number of peers that can be connected", and    *)
(* the inbound ones leave room for dialled ones, although the checks of    *)
(* several handshakes pass before any of their peers is added.             *)
(***************************************************************************)
PeerLimits ==
    \A n \in Nodes :
        /\ Cardinality(Occupied(peers[n])) <= MaxPeers
        /\ Cardinality(Connected(peers[n], "inboundConn")) <= maxInboundConns(n)

(***************************************************************************)
(* While dynamic dials are needed the loop has a task whose end ticks it   *)
(* again: a server that lost a peer never stops looking for another.       *)
(***************************************************************************)
DialLoopTicks ==
    \A n \in Nodes :
        server[n] = "running" /\ needDynDials(n, dial[n], peers[n]) > 0 => AllTasks(dial[n]) # {}

(***************************************************************************)
(* A connection that only one end knows, after a rejected handshake, a     *)
(* restart or a timeout, does not last: that end closes it or the other    *)
(* one completes it.                                                       *)
(***************************************************************************)
HalfOpen(n, b) == peers[n][b] # "nil" /\ peers[b][n] = "nil"

HalfOpenEnds == \A n \in Nodes : \A b \in Nodes \ {n} : []<>~HalfOpen(n, b)

(***************************************************************************)
(* A server keeps its books and its limits: the peers are within MaxPeers  *)
(* and the inbound ones within theirs, the inbound count that the checks   *)
(* read is exact, and never too many dial tasks run.                       *)
(***************************************************************************)
PeersBounded == TypeOK /\ InboundCountMatches /\ PeerLimits

=============================================================================
