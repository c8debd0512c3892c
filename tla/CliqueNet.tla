----------------------------- MODULE CliqueNet -----------------------------
(***************************************************************************)
(* A network of Clique signers that seal, exchange and import blocks: the  *)
(* worker (miner/worker.go), the engine (consensus/clique/clique.go), the  *)
(* fork choice of the block chain (core/blockchain.go) and the block       *)
(* handlers of the protocol manager, fetcher and downloader.               *)
(*                                                                         *)
(* The nodes in Online run and are all connected, the other signers are    *)
(* switched off.  Nobody votes, so the set of signers is InitSigners.  A   *)
(* block is the sequence of the seals of its chain: the signer and the     *)
(* difficulty of each header from block 1 on; the genesis block is the     *)
(* empty sequence.  Time is not modelled: sealing delays and message       *)
(* latencies are arbitrary.                                                *)
(***************************************************************************)
EXTENDS CliqueRules, Sequences

CONSTANTS
    Online,         \* the signers whose nodes are running
    MaxNumber,      \* bound: the highest block that is sealed
    MaxSeals        \* bound: how many blocks are sealed

ASSUME OnlineAssumption    == Online \subseteq InitSigners
\* The coinbase of a header without a vote is common.Address{}, of which nobody has the key.
ASSUME NoVoteAssumption    == ZeroAddress \notin InitSigners
ASSUME NetBoundsAssumption == MaxNumber \in Nat /\ MaxSeals \in Nat

genesis == <<>>
NoTask  == genesis    \* "Sealing the genesis block is not supported"

SealRec == [Signer : Online, Difficulty : {1, 2}]
Chains  == {b \in Seq(SealRec) : Len(b) <= MaxNumber}

Parent(b) == SubSeq(b, 1, Len(b) - 1)

Ancestry(b) == {SubSeq(b, 1, i) : i \in 0..Len(b)}

\* The total difficulty that GetTd reads, above that of the genesis block.
Td(b) ==
    LET td[i \in 0..Len(b)] == IF i = 0 THEN 0 ELSE td[i - 1] + b[i].Difficulty
    IN  td[Len(b)]

\* The header of block i of a chain; nobody votes.
Header(b, i) ==
    [Number |-> i, Coinbase |-> ZeroAddress, Authorize |-> FALSE, Signer |-> b[i].Signer]

\* snapshot: the headers of the chain applied one after the other to the
\* snapshot of the genesis block.
snapshot(b) ==
    LET snap[i \in 0..Len(b)] ==
            IF i = 0 THEN newSnapshot(0, InitSigners) ELSE apply(snap[i - 1], Header(b, i))
    IN  snap[Len(b)]

----------------------------------------------------------------------------
VARIABLES
    known,      \* known[n]: the blocks in the database of node n
    head,       \* head[n]: its CurrentBlock
    newWork,    \* newWork[n]: a commitNewWork runner is scheduled
    task,       \* task[n]: the block whose seal waits for its delay, or NoTask
    missed      \* missed[n]: the blocks, with the peer that sent them, that n
                \* got before their parent and does not have; both ends of the
                \* link marked them as known, so they are not sent again

vars == <<known, head, newWork, task, missed>>

Sealed == (UNION {known[n] : n \in Online}) \ {genesis}

Init ==
    /\ known   = [n \in Online |-> {genesis}]
    /\ head    = [n \in Online |-> genesis]
    /\ newWork = [n \in Online |-> TRUE]
    /\ task    = [n \in Online |-> NoTask]
    /\ missed  = [n \in Online |-> {}]

\* Clique blocks are never preserved.
shouldPreserve(n, b) == FALSE

\* Mutant: the longest chain wins.
MayKeep_Longest(n, b) == Len(b) <= Len(head[n])

(***************************************************************************)
(* The fork choice of writeBlockWithState: whether block b may, and        *)
(* whether it may not, become the head of node n.  Between blocks of the   *)
(* same difficulty and number the code tosses a coin.                      *)
(***************************************************************************)
MayReorg(n, b) ==
    \/ Td(b) > Td(head[n])
    \/ /\ Td(b) = Td(head[n])
       /\ \/ Len(b) < Len(head[n])
          \/ /\ Len(b) = Len(head[n])
             /\ ~shouldPreserve(n, head[n])

MayKeep(n, b) ==
    \/ Td(b) < Td(head[n])
    \/ /\ Td(b) = Td(head[n])
       /\ \/ Len(b) > Len(head[n])
          \/ /\ Len(b) = Len(head[n])
             /\ shouldPreserve(n, head[n]) \/ ~shouldPreserve(n, b)

\* A block becomes the head, and the head event asks the worker for new work.
SetHead(n, b) ==
    /\ head'    = [head EXCEPT ![n] = b]
    /\ newWork' = [newWork EXCEPT ![n] = TRUE]

\* The blocks are in the database, and no longer missed.
WriteBlocks(n, blocks) ==
    /\ known'  = [known EXCEPT ![n] = @ \cup blocks]
    /\ missed' = [missed EXCEPT ![n] = {m \in @ : m[2] \notin blocks}]

writeBlockWithState(n, b) ==
    /\ WriteBlocks(n, {b})
    /\ \/ MayReorg(n, b) /\ SetHead(n, b)
       \/ MayKeep(n, b) /\ UNCHANGED <<head, newWork>>

verifyHeader(b) ==
    LET s == snapshot(Parent(b))
        h == Header(b, Len(b))
    IN  /\ VerifyVote(h)
        /\ verifySeal(s, h)
        /\ VerifyDifficulty(s, h.Number, h.Signer, b[Len(b)].Difficulty)

----------------------------------------------------------------------------
\* commitNewWork prepares a block on the current head and posts it; the task
\* interrupts the previous one, and Seal gives up if the node signed recently.
CommitNewWork(n) ==
    LET s == snapshot(head[n])
        b == Append(head[n], [Signer |-> n, Difficulty |-> CalcDifficulty(s, n)])
    IN  /\ newWork[n] /\ Len(head[n]) < MaxNumber
        /\ newWork' = [newWork EXCEPT ![n] = FALSE]
        /\ task'    = [task EXCEPT ![n] =
                          IF n \in s.Signers /\ ~RecentForSeal(s, Len(b), n) THEN b ELSE NoTask]
        /\ UNCHANGED <<known, head, missed>>

\* The delay of a seal is over: handleResult writes the block and, if it was
\* not there already, broadcasts it.
SealResult(n) ==
    /\ task[n] # NoTask /\ Cardinality(Sealed) < MaxSeals
    /\ task' = [task EXCEPT ![n] = NoTask]
    /\ IF task[n] \in known[n]
       THEN UNCHANGED <<known, head, newWork, missed>>
       ELSE writeBlockWithState(n, task[n])

\* A block reaches n from a peer that has it and has not sent it before.
Arrives(n, peer, b) ==
    /\ n # peer
    /\ b \in known[peer] \ known[n]
    /\ <<peer, b>> \notin missed[n]

\* HandleNewBlockMsg, or the fetch of an announced block: the fetcher imports
\* the block if its header verifies on a parent that n has.
ImportBlock(n, peer, b) ==
    /\ Arrives(n, peer, b)
    /\ Parent(b) \in known[n] /\ verifyHeader(b)
    /\ writeBlockWithState(n, b)
    /\ UNCHANGED task

\* The parent is unknown: the block is dropped, and what is left is that the
\* peer has the parent.
DropBlock(n, peer, b) ==
    /\ Arrives(n, peer, b)
    /\ Parent(b) \notin known[n]
    /\ missed' = [missed EXCEPT ![n] = @ \cup {<<peer, b>>}]
    /\ UNCHANGED <<known, head, newWork, task>>

\* The downloader imports the chain of the best peer when it is heavier.
Synchronise(n) ==
    /\ \E m \in missed[n] :
          LET remote == Parent(m[2])
          IN  /\ Td(remote) > Td(head[n])
              /\ \A other \in missed[n] : Td(Parent(other[2])) <= Td(remote)
              /\ WriteBlocks(n, Ancestry(remote))
              /\ SetHead(n, remote)
    /\ UNCHANGED task

\* The end of the explored part: another block would exceed a bound.
BoundReached ==
    \/ Cardinality(Sealed) = MaxSeals
    \/ \E n \in Online : Len(head[n]) = MaxNumber

Terminated == BoundReached /\ UNCHANGED vars

Next ==
    \/ \E n \in Online : CommitNewWork(n)
    \/ \E n \in Online : SealResult(n)
    \/ \E n, peer \in Online : \E b \in known[peer] : ImportBlock(n, peer, b)
    \/ \E n, peer \in Online : \E b \in known[peer] : DropBlock(n, peer, b)
    \/ \E n \in Online : Synchronise(n)
    \/ Terminated

Spec == Init /\ [][Next]_vars

----------------------------------------------------------------------------
(***************************************************************************)
(* Type invariant; every database is closed under parents, as the code     *)
(* that walks back from a head assumes.                                    *)
(***************************************************************************)
TypeOK ==
    /\ \A n \in Online : \A b \in known[n] :
          b \in Chains /\ Ancestry(b) \subseteq known[n]
    /\ \A n \in Online : head[n] \in known[n] /\ task[n] \in Chains
    /\ newWork \in [Online -> BOOLEAN]
    /\ \A n \in Online : \A m \in missed[n] : m[2] \in known[m[1]] \ known[n]

(***************************************************************************)
(* A block that a node seals is accepted by every other node: it passes    *)
(* verifyHeader and apply on its own branch, whatever happened to the      *)
(* sealing node's head while the seal was waiting.  A block that failed    *)
(* would make the fetcher drop the peer that sent it.                      *)
(***************************************************************************)
SealedBlocksVerify ==
    \A b \in Sealed :
        /\ verifyHeader(b)
        /\ ApplyError(snapshot(Parent(b)), Header(b, Len(b))) = "nil"

(***************************************************************************)
(* No signer seals two of any limit consecutive blocks of a branch, the    *)
(* rule that Recents stands for.                                           *)
(***************************************************************************)
SignersRest ==
    \A b \in Sealed : \A i, j \in 1..Len(b) :
        i < j /\ j - i < Limit(snapshot(genesis)) => b[i].Signer # b[j].Signer

(***************************************************************************)
(* The head of a node is a heaviest block of its database, so that no      *)
(* import, own seal or sync leaves a node on a lighter branch.             *)
(***************************************************************************)
HeadIsHeaviest == \A n \in Online : \A b \in known[n] : Td(b) <= Td(head[n])

(***************************************************************************)
(* What honest nodes seal while heads change under them is valid on every  *)
(* branch: each block is accepted by all, and no signer seals too often.   *)
(***************************************************************************)
BranchesSound == SealedBlocksVerify /\ SignersRest

(***************************************************************************)
(* Every node's database is closed under parents and its head is a         *)
(* heaviest block of it.                                                   *)
(***************************************************************************)
HeadsSound == TypeOK /\ HeadIsHeaviest

=============================================================================
