---------------------------- MODULE BlockChain ----------------------------
(***************************************************************************)
(* The block chain of one node as its callers drive it: imports of blocks  *)
(* that peers sent (InsertChain), blocks the node sealed itself            *)
(* (WriteBlockWithState), the queue of future blocks and its runner, and   *)
(* the stop and start of the node.  The rules are in ChainRules.           *)
(***************************************************************************)
EXTENDS ChainRules

CONSTANTS
  MaxTime,      \* bound: the clock's last value
  MaxBatch,     \* bound: blocks in an import
  MaxCap        \* bound: nodes that one Cap flushes

VARIABLES
  c,          \* the chain
  now,        \* the time
  stopped,    \* procInterrupt, set from Stop to Start
  archive,    \* cacheConfig.TrieDirtyDisabled
  panicked,   \* the process died of a nil pointer
  cut         \* a head went unannounced in an import that ended early

vars == <<c, now, stopped, archive, panicked, cut>>

\* What a peer may send: blocks of the tree in the order of their numbers.
Batches ==
  {SubSeq(Path[b], i, Len(Path[b])) :
     b \in Blocks, i \in 2..(MaxNumber + 1)} \ {<< >>}

Init == /\ c = NewChain
        /\ now = 0
        /\ stopped = FALSE
        /\ archive \in BOOLEAN
        /\ panicked = FALSE
        /\ cut = FALSE

\* The configuration and the outcomes of chance in an import.
Outcomes == [now : {now}, stopped : {stopped}, archive : {archive},
             cap : 0..MaxCap, coin : BOOLEAN]

\* The result of an import takes effect.
Apply(r) ==
  /\ c' = r.c
  /\ panicked' = r.panic
  /\ cut' = (r.c.fed # r.c.head /\ (cut \/ r.err \in {"bad", "far"}))
  /\ UNCHANGED <<now, stopped, archive>>

Import(batch) ==
  /\ ~panicked /\ Len(batch) <= MaxBatch
  /\ \E r \in {InsertChain(c, how, batch) : how \in Outcomes} : Apply(r)

\* worker.handleResult: a sealed block that is not stored yet is written, also
\* on a stopped chain, and a new head is announced.  A task lives for seconds,
\* so its parent's state has not been collected.
WriteSealed(b) ==
  /\ ~panicked
  /\ b \in Own \ Bad /\ Time[b] <= now
  /\ ~HasBlock(c, b) /\ HasBlockAndState(c, Parent[b])
  /\ \E w \in {writeBlockWithState(c, b, how) : how \in Outcomes} :
       Apply(Result(IF w.canonical THEN [w.c EXCEPT !.fed = b] ELSE w.c, "end"))

\* Mutant: only the block with the highest number is tried.
FutureImport_Highest(how) ==
  LET b == CHOOSE x \in c.future : \A y \in c.future : Number[x] >= Number[y]
  IN InsertChain(c, how, <<b>>)

\* The result s of an import that follows the one with result r: an error stays.
Following(r, s) == [s EXCEPT !.err = IF r.err \in {"bad", "far"} THEN r.err ELSE @]

\* The queued blocks by number, one at a time.
FutureImport(how) ==
  LET one(b, r) == IF r.panic THEN r ELSE Following(r, InsertChain(r.c, how, <<b>>))
      last(S) == CHOOSE x \in S : \A y \in S : Number[x] >= Number[y]
  IN MapThenFoldSet(one, Result(c, "end"), LAMBDA b : b, last, c.future)

\* procFutureBlocks, every five seconds.  The runner is suspended while the
\* chain is stopped.
ProcFutureBlocks ==
  /\ ~panicked /\ ~stopped
  /\ c.future # {}
  /\ \E r \in {FutureImport(how) : how \in Outcomes} : Apply(r)

Tick == /\ ~panicked /\ now < MaxTime
        /\ now' = now + 1
        /\ UNCHANGED <<c, stopped, archive, panicked, cut>>

Stop == /\ ~panicked /\ ~stopped
        /\ stopped' = TRUE
        /\ UNCHANGED <<c, now, archive, panicked, cut>>

Start == /\ ~panicked /\ stopped
         /\ stopped' = FALSE
         /\ UNCHANGED <<c, now, archive, panicked, cut>>

Next == \/ \E batch \in Batches : Import(batch)
        \/ \E b \in Blocks : WriteSealed(b)
        \/ ProcFutureBlocks
        \/ Tick
        \/ Stop
        \/ Start

\* ENABLED <<ProcFutureBlocks>>_vars, spelled out because TLC evaluates ENABLED
\* of an action with this much in it too slowly.
FutureImportPossible ==
  /\ ~panicked /\ ~stopped /\ c.future # {}
  /\ \E r \in {FutureImport(how) : how \in Outcomes} : r.c # c \/ r.panic

\* WF_vars(ProcFutureBlocks): the runner comes round while the node is up.
RunnerFairness ==
  []<>(~FutureImportPossible) \/ []<><<ProcFutureBlocks>>_vars

Spec == Init /\ [][Next]_vars /\ RunnerFairness

--------------------------------------------------------------------------

\* The state is a chain over the blocks of the tree.
TypeOK ==
  /\ DOMAIN c.td \subseteq Blocks /\ c.td \in [DOMAIN c.td -> Nat]
  /\ c.bodies \subseteq Blocks /\ c.future \subseteq Blocks
  /\ c.canon \in [0..MaxNumber -> Blocks \cup {NoBlock}]
  /\ {c.head, c.header, c.fast, c.fed} \subseteq Blocks
  /\ c.lookup \in [Txs -> Blocks \cup {NoBlock}]
  /\ c.gc \in [Blocks -> Nat]
  /\ Dirty(c.trie) \cup c.trie.disk \subseteq Nodes
  /\ now \in 0..MaxTime /\ {stopped, archive, panicked, cut} \subseteq BOOLEAN

\* The canonical index up to the head and the transaction lookups are those of
\* one chain, which only a preferred chain replaces, however imports, sealed
\* blocks, side chains and reorganisations mix.
Abstract == INSTANCE CanonicalChain WITH
  chain <- [i \in 1..(Number[c.head] + 1) |-> c.canon[i - 1]],
  lookup <- c.lookup
ImplementsCanonicalChain == Abstract!Spec

\* Every stored block has its parent stored, and the total difficulty written
\* with it is the sum of the difficulties down to the genesis, whichever of
\* the three ways it was stored in.
StoreLinked ==
  /\ \A b \in DOMAIN c.td : /\ c.td[b] = Weight[b]
                            /\ b # Genesis => Parent[b] \in DOMAIN c.td
  /\ \A b \in c.bodies : b # Genesis => Parent[b] \in c.bodies

\* The head's state can be opened, unless a block TriesInMemory or more above
\* the head, on a longer chain of less weight, made the collector take it.
HeadStateKept ==
  \/ \A n \in Trie[Root[c.head]] : Available(c.trie, n)
  \/ \E b \in c.bodies : Number[b] >= Number[c.head] + TriesInMemory

\* The state of y is also the state of a stored block. The import of a branch ends
\* at such a block: it counts as known once it is stored, or as an attack when the
\* other one is canonical with the same number.
Shadowed(y) ==
  \E x \in c.bodies \ {y} :
    Root[x] = Root[y] /\ (y \in c.bodies \/ Number[x] = Number[y])

\* The head outweighs every stored block, those stored without their state
\* included, except on a branch with an invalid block, or with a block below or
\* above it whose state is shadowed.
HeadHeaviest ==
  \A b \in c.bodies : c.td[b] > c.td[c.head] =>
    \E y \in Blocks : \/ y \in ToSet(Path[b]) /\ y \in Bad
                      \/ y \in ToSet(Path[b]) /\ Shadowed(y)
                      \/ b \in ToSet(Path[y]) /\ Shadowed(y)

\* A trie node that can be read has all its children too: neither the
\* collector nor a flush takes a node that another trie shares.
TriesComplete ==
  \A n \in Nodes : Available(c.trie, n) =>
    \A m \in Children[n] : Available(c.trie, m)

\* What is on disk is complete by itself at any moment: a node is written
\* after its children.
DiskClosed ==
  \A n \in c.trie.disk : Children[n] \subseteq c.trie.disk

\* verifyIntegrity: a cached node that no referenced root reaches, and that the
\* collector will therefore never take, is on disk as well; such a node came
\* from disk and was created again under a parent that was cached.
NoLeak == Dirty(c.trie) \ Reachable(c.trie) \subseteq c.trie.disk

\* The head that the subscribers (pool, miner, broadcast) were told of is the
\* head, unless an import ended early at a block it could not use.
HeadAnnounced == c.fed = c.head \/ cut

\* While the node is up, a queued block whose time has come and whose parent's
\* state is there does not stay in the queue.
RipeBlocksLeave ==
  \A b \in Blocks :
    []<>(\/ stopped \/ panicked
         \/ ~(b \in c.future /\ Verdict(c, c, now, <<b>>, 1) = "ok" /\ b \notin Bad))

\* The head is the right one and everybody knows: the stored blocks are linked
\* and weighed, the head outweighs the others, and it is the head announced.
HeadSound == TypeOK /\ StoreLinked /\ HeadHeaviest /\ HeadAnnounced

\* The states are neither lost nor leaked: the head's can be opened, no trie in
\* memory or on disk misses a node, and what is cached will be collected.
StatesSound == HeadStateKept /\ TriesComplete /\ DiskClosed /\ NoLeak

=============================================================================
