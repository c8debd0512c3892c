------------------------------- MODULE Lookup -------------------------------
(***************************************************************************)
(* One network lookup of the discovery table (discovery/table.go, lookup   *)
(* and lookupNode) with the messages of its queries (udp.go, message.go).  *)
(*                                                                         *)
(* A node is its distance to the target, so the nodes are 1 .. NumNodes    *)
(* and 1 is the closest.  The other nodes may be online or not whenever a  *)
(* message arrives, and answer with any nodes they may know.  A query      *)
(* first pings a node whose bond has expired; whether it has is a free     *)
(* choice, as time is not modelled.                                        *)
(***************************************************************************)
EXTENDS Integers, Sequences, SequencesExt, FiniteSets

CONSTANTS
    NumNodes,
    Self,           \* the node that looks up
    alpha,
    bucketSize,
    Lapsed,         \* nodes that hold no recent pong of Self when it asks them
    MaxStops        \* bound: how often Self goes offline

Nodes == 1 .. NumNodes

ASSUME LookupAssumption ==
    /\ NumNodes \in Nat /\ Self \in Nodes
    /\ alpha \in Nat \ {0} /\ bucketSize \in Nat \ {0}
    /\ Lapsed \subseteq Nodes
    /\ MaxStops \in Nat

VARIABLES
    online,
    result,         \* nodesByDistance.entries
    asked,
    seen,
    pendingQueries,
    lookupDone,
    query,          \* query[n]: where the query to node n has got to
    stops

vars == <<online, result, asked, seen, pendingQueries, lookupDone, query, stops>>

\* "lost" is a query whose callback will not be called any more.
Stage == {"none", "ping", "unsentPing", "wait", "findnode", "unsent",
          "neighbors", "timeout", "lost", "ended"}

\* What closest returns: at most bucketSize nodes, the closest first.
SortedSeqs(S) ==
    {s \in BoundedSeq(S, bucketSize) : \A i, j \in DOMAIN s : i < j => s[i] < s[j]}

----------------------------------------------------------------------------
\* nodesByDistance.push: insert behind the nodes that are not farther away,
\* keeping at most bucketSize.
push(entries, n) ==
    LET ix   == 1 + Cardinality({i \in DOMAIN entries : entries[i] <= n})
        long == InsertAt(entries, ix, n)
    IN  IF Len(entries) < bucketSize THEN long ELSE Front(long)

\* A node of an answer enters the result unless an earlier answer named it.
pushUnseen(entries, n) == IF n \in seen THEN entries ELSE push(entries, n)

\* Who lookupNode asks: the closest of the result that were not asked, at most
\* alpha at a time.  Offline it stays inside the first query until that fails.
Candidates(res) == ToSet(res) \ asked

\* Mutant: an answer makes room for one more query only.
lookupNode_OneMore(res, pending) ==
    {n \in Candidates(res) : pending < alpha /\ \A m \in Candidates(res) : m >= n}

lookupNode(res, pending) ==
    LET room == IF online THEN alpha - pending ELSE IF pending < alpha THEN 1 ELSE 0
    IN  {n \in Candidates(res) : Cardinality({m \in Candidates(res) : m < n}) < room}

\* UDP.findnode, for a set of nodes: those of pinged are pinged first.
findnode(nodes, pinged, q) ==
    [n \in Nodes |->
        IF n \notin nodes THEN q[n]
        ELSE IF n \in pinged THEN IF online THEN "ping" ELSE "unsentPing"
        ELSE IF online THEN "findnode" ELSE "unsent"]

\* Mutant: done as soon as nobody is left to ask.
AskNext_DoneEarly(res, pending, q) ==
    LET new == lookupNode(res, pending)
    IN  /\ asked' = asked \cup new
        /\ pendingQueries' = pending + Cardinality(new)
        /\ \E pinged \in SUBSET new : query' = findnode(new, pinged, q)
        /\ lookupDone' = (lookupDone \/ new = {})

\* The loop of lookupNode with the result res, the other queries being q.
AskNext(res, pending, q) ==
    LET new == lookupNode(res, pending)
    IN  /\ asked' = asked \cup new
        /\ pendingQueries' = pending + Cardinality(new)
        /\ \E pinged \in SUBSET new : query' = findnode(new, pinged, q)
        /\ lookupDone' = (lookupDone \/ pending + Cardinality(new) = 0)

\* Mutant: a query that failed keeps its place.
Callback_OnlyAnswers(n, nodes) ==
    /\ seen' = seen \cup ToSet(nodes)
    /\ result' = FoldLeft(pushUnseen, result, nodes)
    /\ AskNext(result', IF nodes = <<>> THEN pendingQueries ELSE pendingQueries - 1,
               [query EXCEPT ![n] = "ended"])
    /\ UNCHANGED <<online, stops>>

\* The callback of the query to node n: nodes of the answer, if there is one,
\* that were not seen before enter the result.
Callback(n, nodes) ==
    /\ seen' = seen \cup ToSet(nodes)
    /\ result' = FoldLeft(pushUnseen, result, nodes)
    /\ AskNext(result', pendingQueries - 1, [query EXCEPT ![n] = "ended"])
    /\ UNCHANGED <<online, stops>>

Move(n, from, to) ==
    /\ query[n] = from
    /\ query' = [query EXCEPT ![n] = to]
    /\ UNCHANGED <<online, result, asked, seen, pendingQueries, lookupDone, stops>>

----------------------------------------------------------------------------
\* A pong to a node that is offline is lost; a ping that fails calls back too.
PingAnswered(n) == Move(n, "ping", IF online THEN "wait" ELSE "lost")

PingFails(n) == Move(n, "ping", "wait") \/ Move(n, "unsentPing", "wait")

WaitEnds(n) == Move(n, "wait", IF online THEN "findnode" ELSE "unsent")

\* findnode.preverify of the node that is asked: without a recent pong of the
\* asking node the packet is not processed, and nobody is told.
FindnodeArrives(n) ==
    \/ n \notin Lapsed /\ Move(n, "findnode", "neighbors")
    \/ n \in Lapsed /\ Move(n, "findnode", "lost")
    \/ Move(n, "findnode", "timeout")

Answered(n) ==
    /\ query[n] = "neighbors" /\ online
    /\ \E nodes \in SortedSeqs(Nodes \ {n}) : Callback(n, nodes)

AnswerLost(n) == ~online /\ Move(n, "neighbors", "lost")

Failed(n) ==
    /\ query[n] \in {"timeout", "unsent"}
    /\ Callback(n, <<>>)

GoOffline ==
    /\ online /\ stops < MaxStops
    /\ online' = FALSE
    /\ stops' = stops + 1
    /\ UNCHANGED <<result, asked, seen, pendingQueries, lookupDone, query>>

GoOnline ==
    /\ ~online
    /\ online' = TRUE
    /\ UNCHANGED <<result, asked, seen, pendingQueries, lookupDone, query, stops>>

----------------------------------------------------------------------------
\* lookup starts from the closest nodes of the own table.
Init ==
    /\ online = TRUE
    /\ result \in SortedSeqs(Nodes \ {Self})
    /\ LET new == {n \in ToSet(result) : Cardinality({m \in ToSet(result) : m < n}) < alpha}
       IN  /\ asked = new \cup {Self}
           /\ pendingQueries = Cardinality(new)
           /\ \E pinged \in SUBSET new :
                  query = findnode(new, pinged, [n \in Nodes |-> "none"])
           /\ lookupDone = (new = {})
    /\ seen = {}
    /\ stops = 0

Step(n) ==
    \/ PingAnswered(n) \/ PingFails(n) \/ WaitEnds(n)
    \/ FindnodeArrives(n) \/ Answered(n) \/ AnswerLost(n) \/ Failed(n)

Next == GoOffline \/ GoOnline \/ \E n \in Nodes : Step(n)

\* Messages arrive and timeouts end.
Fairness == \A n \in Nodes : WF_vars(Step(n))

Spec == Init /\ [][Next]_vars /\ Fairness

----------------------------------------------------------------------------
Open == {n \in Nodes : query[n] \notin {"none", "ended"}}

\* At most bucketSize nodes are kept and at most alpha queries are pending,
\* whatever answers (push, lookupNode).
TypeOK ==
    /\ online \in BOOLEAN
    /\ result \in BoundedSeq(Nodes, bucketSize)
    /\ asked \subseteq Nodes
    /\ seen \subseteq Nodes
    /\ pendingQueries \in 0 .. alpha
    /\ lookupDone \in BOOLEAN
    /\ query \in [Nodes -> Stage]
    /\ stops \in 0 .. MaxStops

\* A lookup that returns has asked everybody it returns, and no answer is
\* still to come that could change what it returned (lookupNode sets
\* lookupDone once pendingQueries, which every callback lowers, is 0).
ReturnsFinal ==
    lookupDone => /\ Open = {}
                  /\ ToSet(result) \subseteq asked

\* While somebody of the result is left to be asked, all alpha places are
\* taken by queries that have not ended, one of which will ask for it: a node
\* that stays online never idles with work to do.
AllPlacesTaken == stops = 0 /\ Candidates(result) # {} => Cardinality(Open) = alpha

\* "waits for the all the lookups to end before returning the results": a lookup
\* returns, through failed pings, timeouts and restarts of the node, unless one
\* of its queries lost its callback.
LookupReturns == [](\A n \in Nodes : query[n] # "lost") => <>lookupDone

\* A lookup keeps at most alpha queries open and returns only when everybody it
\* returns was asked and none of them is left to answer.
LookupSound == TypeOK /\ ReturnsFinal

=============================================================================
