-------------------------------- MODULE Aura --------------------------------
(***************************************************************************)
(* Nodes that seal and exchange blocks under the Aura engine: the work a   *)
(* new head starts (miner/worker.go), sealing in turn                      *)
(* (consensus/aura/aura.go), import and fork choice (core/blockchain.go).  *)
(*                                                                         *)
(* The simulation is driven by events, so time passes only when every      *)
(* runner is waiting: a task seals at the second it waits for.  A block    *)
(* reaches the other nodes in any order, within MaxLatency seconds; one    *)
(* whose parent is missing is fetched with it, so parents arrive first.    *)
(* The difficulty is constant: the heavier chain is the longer one.        *)
(***************************************************************************)
EXTENDS AuraRules, SequencesExt

CONSTANTS
    Nodes,          \* the signers that are online
    MaxLatency,     \* bound: how many seconds a block is under way
    MaxTime         \* bound: when the simulation ends

ASSUME NetAssumption ==
    /\ Nodes \subseteq Signers
    /\ MaxLatency \in Nat
    /\ MaxTime \in Nat

VARIABLES
    now,
    head,           \* head[n]: the canonical chain of n, a sequence of headers
    known,          \* known[n]: the chains whose last block n has received or sealed
    request,        \* request[n]: work is to be committed on the head of n
    task,           \* task[n]: the chain that n waits to seal, or <<>>
    smooth          \* history, not read by the code: so far no transactions came,
                    \* and no block took longer than a period

vars == <<now, head, known, request, task, smooth>>

Header == [time : Nat, signer : Signers]

TimeOf(chain) == IF chain = <<>> THEN 0 ELSE Last(chain).time

\* The chains sealed so far, each named by its last block.
Sealed == UNION {known[n] : n \in Nodes}

----------------------------------------------------------------------------
(***************************************************************************)
(* Fork choice of WriteBlockWithState: the heavier chain wins.  Of two     *)
(* that weigh the same a node keeps its own block, and takes its own block *)
(* for that of another; otherwise it tosses a coin.                        *)
(***************************************************************************)
shouldPreserve(n, chain) == chain # <<>> /\ Last(chain).signer = n

Reorgs(n, chain) ==
    IF Len(chain) # Len(head[n])
    THEN {Len(chain) > Len(head[n])}
    ELSE {r \in BOOLEAN :
            /\ shouldPreserve(n, head[n]) => ~r
            /\ ~shouldPreserve(n, head[n]) /\ shouldPreserve(n, chain) => r}

\* Mutant: the worker is not told of the new head.
WriteBlock_NoEvent(n, chain) ==
    /\ known' = [known EXCEPT ![n] = @ \cup {chain}]
    /\ \E reorg \in Reorgs(n, chain) :
        /\ head'    = [head EXCEPT ![n] = IF reorg THEN chain ELSE @]
        /\ UNCHANGED request

\* The block at the end of chain is written; a new head asks for new work.
WriteBlock(n, chain) ==
    /\ known' = [known EXCEPT ![n] = @ \cup {chain}]
    /\ \E reorg \in Reorgs(n, chain) :
        /\ head'    = [head EXCEPT ![n] = IF reorg THEN chain ELSE @]
        /\ request' = [request EXCEPT ![n] = @ \/ reorg]

----------------------------------------------------------------------------
\* startMinting asks every node to mine at the same moment, in any period.
Init ==
    /\ now \in 1 .. authNum * Period
    /\ head    = [n \in Nodes |-> <<>>]
    /\ known   = [n \in Nodes |-> {}]
    /\ request = [n \in Nodes |-> TRUE]
    /\ task    = [n \in Nodes |-> <<>>]
    /\ smooth  = TRUE

(***************************************************************************)
(* commitNewWork and the task it posts: the task that was waiting is       *)
(* interrupted, and Seal refuses a header that is not in turn.  Nothing    *)
(* tries again until there is a new head or a new transaction.             *)
(***************************************************************************)
commitNewWork(n) ==
    /\ request[n]
    /\ request' = [request EXCEPT ![n] = FALSE]
    /\ LET header == [time |-> PrepareTime(TimeOf(head[n]), now), signer |-> n]
       IN  task' = [task EXCEPT ![n] =
                        IF inTurn(n, header.time) THEN Append(head[n], header) ELSE <<>>]
    /\ UNCHANGED <<now, head, known, smooth>>

\* Seal and handleResult, once the time of the header has come.
Seal(n) ==
    /\ task[n] # <<>>
    /\ TimeOf(task[n]) <= now
    /\ task' = [task EXCEPT ![n] = <<>>]
    /\ WriteBlock(n, task[n])
    /\ UNCHANGED <<now, smooth>>

\* A block of another node arrives and is imported if its header verifies.
Import(n, chain) ==
    /\ chain \notin known[n]
    /\ Len(chain) > 1 => Front(chain) \in known[n]
    /\ verifyHeader(Last(chain), TimeOf(Front(chain)), now)
    /\ WriteBlock(n, chain)
    /\ UNCHANGED <<now, task, smooth>>

\* Transactions arrived: the recommit loop asks for new work.
Recommit(n) ==
    /\ ~request[n]
    /\ request' = [request EXCEPT ![n] = TRUE]
    /\ smooth' = FALSE
    /\ UNCHANGED <<now, head, known, task>>

\* Every node has the blocks that have been under way for a period or more.
Timely ==
    \A n \in Nodes : \A chain \in Sealed \ known[n] : now < TimeOf(chain) + Period

\* Time passes when nobody can run and no block is overdue.
Tick ==
    /\ now < MaxTime
    /\ \A n \in Nodes :
        /\ ~request[n]
        /\ task[n] # <<>> => TimeOf(task[n]) > now
        /\ \A chain \in Sealed \ known[n] : now < TimeOf(chain) + MaxLatency
    /\ now' = now + 1
    /\ smooth' = (smooth /\ Timely)
    /\ UNCHANGED <<head, known, request, task>>

Next ==
    \/ \E n \in Nodes : commitNewWork(n) \/ Seal(n) \/ Recommit(n)
    \/ \E n \in Nodes : \E chain \in Sealed : Import(n, chain)
    \/ Tick

Spec == Init /\ [][Next]_vars

----------------------------------------------------------------------------
\* Heads, known chains and waiting tasks are sequences of headers of signers.
TypeOK ==
    /\ now \in Nat
    /\ head \in [Nodes -> Seq(Header)]
    /\ known \in [Nodes -> SUBSET Seq(Header)]
    /\ request \in [Nodes -> BOOLEAN]
    /\ task \in [Nodes -> Seq(Header)]
    /\ smooth \in BOOLEAN

\* The period a time belongs to.
slot(time) == (time - 1) \div Period

\* At every second inTurn gives the turn to the authorities one after the other,
\* period by period, the boundary second counted to the period that it ends.
TurnIsSlot == turn(now) = slot(now) % authNum

\* A node writes its own blocks without verifying them: what Prepare and Seal
\* produce is what verifyHeader of every other node accepts when it arrives.
SealsVerify ==
    \A chain \in Sealed : verifyHeader(Last(chain), TimeOf(Front(chain)), now)

\* On no chain has an authority two blocks less than a whole round apart, however
\* late heads arrive and however often work is committed again.
OneBlockPerRound ==
    \A chain \in Sealed : \A i, j \in DOMAIN chain :
        i < j /\ chain[i].signer = chain[j].signer
            => slot(chain[i].time) + authNum <= slot(chain[j].time)

\* Seal drops work that is not in turn and nobody retries it, so the block after
\* every head depends on one node having it in time.  With every authority online
\* one is always at work on the next block, as long as blocks arrive within a
\* period and no transactions make a node that lacks the head seal in between.
NeverStalls ==
    smooth => \/ \E n \in Nodes : request[n] \/ task[n] # <<>>
              \/ \E n \in Nodes : \E chain \in Sealed \ known[n] : Len(chain) > Len(head[n])

\* What the authorities seal is sound on every chain: turns follow the periods,
\* each block is one that the other nodes accept, and an authority has one block
\* in a round.
ChainsSound == TypeOK /\ TurnIsSlot /\ SealsVerify /\ OneBlockPerRound

=============================================================================
