------------------------------- MODULE Table -------------------------------
(***************************************************************************)
(* One bucket of the discovery table of one node (discovery/table.go), the *)
(* requests that the table sends, and the node's own sessions.             *)
(*                                                                         *)
(* A runner gives way only inside Advance, so an action is the code        *)
(* between two of them: a request is sent, arrives, and ends with its      *)
(* callback, which finds the table as it is by then.  Time is not          *)
(* modelled: whether the bond with a node has expired (24 h) and whether   *)
(* an entry is old enough to be a seed (5 min) are free choices, and       *)
(* requests end in any order.  livenessChecks is only ever compared with   *)
(* 0, so checks is the set of the nodes that have one.                     *)
(***************************************************************************)
EXTENDS Integers, Sequences, SequencesExt, FiniteSets

CONSTANTS
    Nodes,              \* the other nodes whose distance is that of this bucket
    Live,               \* nodes that are online whenever a message arrives
    Dead,               \* nodes that are offline whenever a message arrives
    nursery,            \* the bootstrap nodes, in their order
    bucketSize,
    maxReplacements,
    maxFindnodeFailures,
    MaxFails,           \* bound: counted failures of one node
    MaxRequests,        \* bound: requests on their way
    MaxNeighbors        \* bound: nodes of one answer to a findnode

ASSUME TableAssumption ==
    /\ IsFiniteSet(Nodes)
    /\ Live \subseteq Nodes /\ Dead \subseteq Nodes \ Live
    /\ nursery \in Seq(Nodes)
    /\ bucketSize \in Nat \ {0}
    /\ maxReplacements \in Nat \ {0}
    /\ maxFindnodeFailures \in Nat \ {0}
    /\ {MaxFails, MaxRequests, MaxNeighbors} \subseteq Nat
    /\ MaxFails >= maxFindnodeFailures

VARIABLES
    online,
    bucket,             \* entries, the most recently active first, and replacements
    checks,
    fails,              \* DB.fails
    lastLiveNodes,      \* DB.lastLiveNodes
    requests            \* the requests that have not ended, by slot

vars == <<online, bucket, checks, fails, lastLiveNodes, requests>>

Slots == 1 .. MaxRequests

\* Who sent a request: doRevalidate, the handler of a ping, a lookup.
Request ==
    [kind  : {"revalidate", "bond", "findnode"},
     to    : Nodes,
     stage : {"sent", "answered", "timeout", "unsent"}]

Free == [kind |-> "free"]

emptyBucket == [entries |-> <<>>, replacements |-> <<>>]

----------------------------------------------------------------------------
\* Lists of nodes.
pushNode(list, n, max) ==
    <<n>> \o (IF Len(list) < max THEN list ELSE Front(list))

deleteNode(list, n) == RemoveFirst(list, n)

\* Buckets.
addReplacement(b, n) ==
    IF Contains(b.replacements, n)
    THEN b
    ELSE [b EXCEPT !.replacements = pushNode(@, n, maxReplacements)]

\* Mutant: a node that becomes an entry stays a replacement.
addSeenNode_KeepsReplacement(b, n) ==
    IF Contains(b.entries, n)                THEN b
    ELSE IF Len(b.entries) >= bucketSize     THEN addReplacement(b, n)
    ELSE [b EXCEPT !.entries = Append(@, n)]

addSeenNode(b, n) ==
    IF Contains(b.entries, n)                THEN b
    ELSE IF Len(b.entries) >= bucketSize     THEN addReplacement(b, n)
    ELSE [entries |-> Append(b.entries, n), replacements |-> deleteNode(b.replacements, n)]

\* Mutant: the entry is found but not moved.
bumpInBucket_Stays(b, n) == b

bumpInBucket(b, n) ==
    IF Contains(b.entries, n)
    THEN [b EXCEPT !.entries = <<n>> \o deleteNode(@, n)]
    ELSE b

addVerifiedNode(b, n) ==
    IF Contains(b.entries, n)                THEN bumpInBucket(b, n)
    ELSE IF Len(b.entries) >= bucketSize     THEN addReplacement(b, n)
    ELSE [entries      |-> pushNode(b.entries, n, bucketSize),
          replacements |-> deleteNode(b.replacements, n)]

delete(b, n) == [b EXCEPT !.entries = deleteNode(@, n)]

\* Mutant: whoever is last by now is replaced.
replace_NoCheck(b, last) ==
    IF b.entries = <<>>             THEN {b}
    ELSE IF b.replacements = <<>>   THEN {delete(b, Last(b.entries))}
    ELSE {[entries      |-> Append(Front(b.entries), r),
           replacements |-> deleteNode(b.replacements, r)] : r \in ToSet(b.replacements)}

\* The buckets that replace may leave: the replacement is taken at random.
replace(b, last) ==
    IF b.entries = <<>> \/ Last(b.entries) # last THEN {b}
    ELSE IF b.replacements = <<>>                 THEN {delete(b, last)}
    ELSE {[entries      |-> Append(Front(b.entries), r),
           replacements |-> deleteNode(b.replacements, r)] : r \in ToSet(b.replacements)}

addSeenNodes(b, nodes) == FoldLeft(addSeenNode, b, nodes)

----------------------------------------------------------------------------
\* Message.Send: a message of a node that is offline is not sent at all.
Send(kind, n) ==
    \E s \in Slots :
        /\ requests[s] = Free
        /\ requests' = [requests EXCEPT ![s] =
              [kind |-> kind, to |-> n, stage |-> IF online THEN "sent" ELSE "unsent"]]

\* Message.Run: the request reaches the node, which answers it, or it fails
\* and its sender waits for the rest of the timeout.  A node that takes the
\* bond for expired ignores a findnode, and then no callback is ever called.
Arrive(s) ==
    /\ requests[s] # Free /\ requests[s].stage = "sent"
    /\ \/ requests[s].to \notin Dead /\ requests' = [requests EXCEPT ![s].stage = "answered"]
       \/ /\ requests[s].to \notin Dead /\ requests[s].kind = "findnode"
          /\ requests' = [requests EXCEPT ![s] = Free]
       \/ requests[s].to \notin Live /\ requests' = [requests EXCEPT ![s].stage = "timeout"]
    /\ UNCHANGED <<online, bucket, checks, fails, lastLiveNodes>>

\* The request of the slot ends in this step, with its callback.
Ends(s, kind, stage) ==
    /\ requests[s] # Free
    /\ requests[s].kind = kind /\ requests[s].stage = stage
    /\ requests' = [requests EXCEPT ![s] = Free]

\* An answer to a node that is offline is lost, and the callback with it.
AnswerLost(s) ==
    /\ requests[s] # Free /\ requests[s].stage = "answered"
    /\ ~online
    /\ requests' = [requests EXCEPT ![s] = Free]
    /\ UNCHANGED <<online, bucket, checks, fails, lastLiveNodes>>

\* The revalidation of the last entry.
doRevalidate ==
    /\ online
    /\ bucket.entries # <<>>
    /\ Send("revalidate", Last(bucket.entries))
    /\ UNCHANGED <<online, bucket, checks, fails, lastLiveNodes>>

Revalidated(s) ==
    /\ online
    /\ Ends(s, "revalidate", "answered")
    /\ checks' = checks \cup {requests[s].to}
    /\ bucket' = bumpInBucket(bucket, requests[s].to)
    /\ UNCHANGED <<online, fails, lastLiveNodes>>

NotRevalidated(s) ==
    /\ Ends(s, "revalidate", "timeout")
    /\ bucket' \in replace(bucket, requests[s].to)
    /\ UNCHANGED <<online, checks, fails, lastLiveNodes>>

\* A ping of node n arrives: the node is pinged back if the bond has expired.
ping_handle(n) ==
    /\ online /\ n \notin Dead
    /\ \/ /\ bucket' = addVerifiedNode(bucket, n)
          /\ UNCHANGED requests
       \/ /\ Send("bond", n)
          /\ UNCHANGED bucket
    /\ UNCHANGED <<online, checks, fails, lastLiveNodes>>

\* The callback of that ping does not look at its outcome.
Bonded(s) ==
    /\ \/ online /\ Ends(s, "bond", "answered")
       \/ Ends(s, "bond", "timeout")
    /\ bucket' = addVerifiedNode(bucket, requests[s].to)
    /\ UNCHANGED <<online, checks, fails, lastLiveNodes>>

\* The findnodes to a node that have not ended.
Asked(n) == {s \in Slots : requests[s] # Free /\ requests[s].kind = "findnode" /\ requests[s].to = n}

\* A lookup asks node n; it may still be running when the node is offline.
findnode(n) ==
    /\ fails[n] + Cardinality(Asked(n)) < MaxFails
    /\ Send("findnode", n)
    /\ UNCHANGED <<online, bucket, checks, fails, lastLiveNodes>>

\* Every end of a findnode that is not a timeout counts as a success.
Forgive(n) == fails' = [fails EXCEPT ![n] = IF @ > 0 THEN @ - 1 ELSE @]

FindnodeAnswered(s) ==
    /\ online
    /\ Ends(s, "findnode", "answered")
    /\ Forgive(requests[s].to)
    /\ \E nodes \in BoundedSeq(Nodes, MaxNeighbors) :
           bucket' = addSeenNodes(bucket, nodes)
    /\ UNCHANGED <<online, checks, lastLiveNodes>>

FindnodeNotSent(s) ==
    /\ Ends(s, "findnode", "unsent")
    /\ Forgive(requests[s].to)
    /\ UNCHANGED <<online, bucket, checks, lastLiveNodes>>

FindnodeTimesOut(s) ==
    /\ Ends(s, "findnode", "timeout")
    /\ LET n == requests[s].to
       IN /\ fails' = [fails EXCEPT ![n] = @ + 1]
          /\ bucket' = IF fails'[n] >= maxFindnodeFailures THEN delete(bucket, n) ELSE bucket
    /\ UNCHANGED <<online, checks, lastLiveNodes>>

\* The periodic refresh adds the bootstrap nodes; its lookups are findnode's.
doRefresh ==
    /\ online
    /\ bucket' = addSeenNodes(bucket, nursery)
    /\ UNCHANGED <<online, checks, fails, lastLiveNodes, requests>>

\* The entries that copyLiveNodes keeps have been alive for long enough.
goOffline ==
    /\ online
    /\ online' = FALSE
    /\ lastLiveNodes' \in SUBSET (checks \cap ToSet(bucket.entries))
    /\ UNCHANGED <<bucket, checks, fails, requests>>

\* QuerySeeds draws from the kept nodes at random and then drops them all.
goOnline ==
    /\ ~online
    /\ online' = TRUE
    /\ \E seeds \in UNION {SetToSeqs(S) : S \in SUBSET lastLiveNodes} :
           bucket' = addSeenNodes(emptyBucket, seeds \o nursery)
    /\ lastLiveNodes' = {}
    /\ checks' = {}
    /\ UNCHANGED <<fails, requests>>

----------------------------------------------------------------------------
Init ==
    /\ online = TRUE
    /\ bucket = addSeenNodes(emptyBucket, nursery)
    /\ checks = {}
    /\ fails = [n \in Nodes |-> 0]
    /\ lastLiveNodes = {}
    /\ requests = [s \in Slots |-> Free]

Next ==
    \/ doRevalidate \/ doRefresh \/ goOffline \/ goOnline
    \/ \E n \in Nodes : ping_handle(n) \/ findnode(n)
    \/ \E s \in Slots :
         \/ Arrive(s) \/ AnswerLost(s)
         \/ Revalidated(s) \/ NotRevalidated(s) \/ Bonded(s)
         \/ FindnodeAnswered(s) \/ FindnodeNotSent(s) \/ FindnodeTimesOut(s)

\* Messages always end, and the revalidation loop of a node that is online
\* goes on; nothing is assumed of the other nodes or of the node's sessions.
Fairness ==
    /\ WF_vars(doRevalidate)
    /\ \A s \in Slots :
         /\ WF_vars(Arrive(s)) /\ WF_vars(AnswerLost(s))
         /\ WF_vars(Revalidated(s)) /\ WF_vars(NotRevalidated(s)) /\ WF_vars(Bonded(s))
         /\ WF_vars(FindnodeAnswered(s)) /\ WF_vars(FindnodeNotSent(s))
         /\ WF_vars(FindnodeTimesOut(s))

Spec == Init /\ [][Next]_vars /\ Fairness

----------------------------------------------------------------------------
\* Both lists of the bucket stay within their limits (pushNode, addSeenNode,
\* addVerifiedNode and replace test the length or drop the last node), and no
\* counter or request leaves its range.
TypeOK ==
    /\ online \in BOOLEAN
    /\ bucket \in [entries      : BoundedSeq(Nodes, bucketSize),
                   replacements : BoundedSeq(Nodes, maxReplacements)]
    /\ checks \subseteq Nodes
    /\ fails \in [Nodes -> 0 .. MaxFails]
    /\ lastLiveNodes \subseteq Nodes
    /\ requests \in [Slots -> Request \cup {Free}]

\* A bucket never holds a node twice, neither among its entries or its
\* replacements nor in both, whichever callbacks of this session or of an
\* earlier one change it (addSeenNode, addVerifiedNode, replace).
EachNodeOnce ==
    LET all == bucket.entries \o bucket.replacements
    IN  Cardinality(ToSet(all)) = Len(all)

\* While the node is online an entry leaves the table only in a step that
\* ends a request to that very entry which nobody answered: neither new nodes
\* nor late callbacks about another node push an entry out (replace, delete).
EvictedEntry(n) == Contains(bucket.entries, n) /\ ~Contains(bucket'.entries, n)

EvictsSilentOnly ==
    [][\A n \in Nodes : EvictedEntry(n) =>
          \/ ~online
          \/ \E s \in Slots : /\ requests[s] # Free /\ requests'[s] = Free
                              /\ requests[s].to = n /\ requests[s].stage = "timeout"]_vars

\* A node that never answers is neither handed on by closest nor kept as a
\* seed for the next session, whatever was said about it by others.
DeadNotAdvertised == Dead \cap (checks \cup lastLiveNodes) = {}

\* Once no new nodes are heard of and the node stays online, revalidation
\* clears the bucket of the nodes that never answer: the last entry is
\* checked, and those that answer make way by moving to the front.
Quiet ==
    \/ doRevalidate
    \/ \E s \in Slots : Arrive(s) \/ Revalidated(s) \/ NotRevalidated(s)

DeadLeave ==
    (<>[]online /\ <>[][Quiet]_vars) => <>[](ToSet(bucket.entries) \cap Dead = {})

\* The bucket is sound whatever callbacks change it: within its sizes, with no
\* node in it twice, and with no silent node handed on or kept as a seed.
BucketSound == TypeOK /\ EachNodeOnce /\ DeadNotAdvertised

=============================================================================
