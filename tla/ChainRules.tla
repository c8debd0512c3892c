---------------------------- MODULE ChainRules ----------------------------
(***************************************************************************)
(* What the block chain of a node stores and how an import changes it:     *)
(* core/blockchain.go, blockchain_insert.go, block_validator.go,           *)
(* headerchain.go and the accessors of core/rawdb.                         *)
(*                                                                         *)
(* The chain of a node is a record:                                        *)
(*   td       the total difficulty of every stored header; a header and    *)
(*            its total difficulty are always written together             *)
(*   bodies   the blocks stored in full                                    *)
(*   canon    the canonical block of each number                           *)
(*   head     currentBlock, header: the head header, fast: the head of the *)
(*            fast chain                                                   *)
(*   future   the blocks queued because their time has not come            *)
(*   trie     the trie database, gc: how often the garbage collector's     *)
(*            queue holds the root of each block                           *)
(*   lookup   the block each transaction is found in                       *)
(*   fed      the block of the last ChainHeadEvent                         *)
(* The operators are constant level, so that a node that serves blocks and *)
(* a node that downloads them use the same ones.  Blocks are the members   *)
(* of a fixed tree.  Caches, logs, receipts, metrics and the list of bad   *)
(* blocks are left out, and so is the branch that commits a trie after     *)
(* five minutes of processing: simulated time does not pass during an      *)
(* import.                                                                 *)
(***************************************************************************)
EXTENDS TrieDB, Integers, FiniteSetsExt

CONSTANTS
  Blocks, Genesis, NoBlock,
  Parent,          \* the tree of blocks; Parent[Genesis] = NoBlock
  Difficulty,
  Time,            \* the time stamp in the header
  Root,            \* the root of the state after the block
  Txs,
  Content,         \* the transactions of a block
  Own,             \* the blocks shouldPreserve holds for: the node's own
  Bad,             \* the blocks that fail in Process or ValidateState
  TriesInMemory,   \* 128
  MaxTimeFuture    \* maxTimeFutureBlocks, 30 seconds

\* The blocks from the genesis to b.
Path[b \in Blocks] ==
  IF b = Genesis THEN <<b>> ELSE Append(Path[Parent[b]], b)

Number == [b \in Blocks |-> Len(Path[b]) - 1]
MaxNumber == Max({Number[b] : b \in Blocks})

\* The sum of the difficulties on the way to b.
Weight[b \in Blocks] ==
  Difficulty[b] + IF b = Genesis THEN 0 ELSE Weight[Parent[b]]

ASSUME ChainAssumption ==
  /\ Genesis \in Blocks /\ NoBlock \notin Blocks /\ IsFiniteSet(Blocks)
  /\ Parent \in [Blocks -> Blocks \cup {NoBlock}] /\ Parent[Genesis] = NoBlock
  /\ Difficulty \in [Blocks -> Nat \ {0}]
  /\ Time \in [Blocks -> Nat]
  /\ Root \in [Blocks -> Nodes]
  /\ Content \in [Blocks -> SUBSET Txs]
  /\ Own \subseteq Blocks /\ Bad \subseteq Blocks
  /\ TriesInMemory \in Nat \ {0} /\ MaxTimeFuture \in Nat

\* The parents of every block lead to the genesis: some block of any set of
\* others has its parent outside the set.
ASSUME TreeAssumption ==
  \A S \in SUBSET (Blocks \ {Genesis}) :
    S # {} => \E b \in S : Parent[b] \in Blocks \ S

\* A transaction is in one block of a chain at most, because of its nonce, and
\* in no genesis block.
ASSUME ContentAssumption ==
  /\ Content[Genesis] = {}
  /\ \A b \in Blocks : \A i, j \in DOMAIN Path[b] :
       i # j => Content[Path[b][i]] \cap Content[Path[b][j]] = {}

--------------------------------------------------------------------------
(* The store. *)

\* Genesis.Commit: the genesis block is stored and canonical, its state is on
\* disk.
genesisStore ==
  [td     |-> [b \in {Genesis} |-> Difficulty[Genesis]],
   bodies |-> {Genesis},
   canon  |-> [n \in 0..MaxNumber |-> IF n = 0 THEN Genesis ELSE NoBlock],
   trie   |-> NewDatabase(Trie[Root[Genesis]]),
   lookup |-> [t \in Txs |-> NoBlock]]

\* NewBlockChain on that store: loadLastState finds the genesis block and its
\* state.
NewChain ==
  [td |-> genesisStore.td, bodies |-> genesisStore.bodies,
   canon |-> genesisStore.canon, trie |-> genesisStore.trie,
   lookup |-> genesisStore.lookup,
   head |-> Genesis, header |-> Genesis, fast |-> Genesis,
   future |-> {}, gc |-> [b \in Blocks |-> 0], fed |-> Genesis]

HasHeader(c, b) == b \in DOMAIN c.td
HasBlock(c, b) == b \in c.bodies
HasState(c, root) == Available(c.trie, root)
HasBlockAndState(c, b) == HasBlock(c, b) /\ HasState(c, Root[b])
CanonicalAt(c, n) == IF n \in 0..MaxNumber THEN c.canon[n] ELSE NoBlock

\* WriteTd with WriteHeader, and with WriteBlock the body too.
WriteHeaderTd(c, b, td) ==
  [c EXCEPT !.td = [x \in DOMAIN @ \cup {b} |-> IF x = b THEN td ELSE @[x]]]

WriteBlock(c, b, td) ==
  [WriteHeaderTd(c, b, td) EXCEPT !.bodies = @ \cup {b}]

WriteTxLookupEntries(c, b) ==
  [c EXCEPT !.lookup = [t \in Txs |-> IF t \in Content[b] THEN b ELSE @[t]]]

--------------------------------------------------------------------------
(* The verdict on a block of an import. *)

\* The engine on the header: the time first, then the parent, which the
\* blocks before it in the import stand for.
HeaderVerdict(c, now, batch, i) ==
  IF Time[batch[i]] > now THEN "future"
  ELSE IF i = 1 /\ ~HasHeader(c, Parent[batch[i]]) THEN "unknown"
  ELSE "ok"

ValidateBody(c, b) ==
  IF HasBlockAndState(c, b) THEN "known"
  ELSE IF HasBlockAndState(c, Parent[b]) THEN "ok"
  ELSE IF HasBlock(c, Parent[b]) THEN "pruned"
  ELSE "unknown"

\* insertIterator.next: c0 is the chain the headers were verified against,
\* c the chain by the time the iterator comes to the block; past the end of
\* the import there is no block and no error.
Verdict(c0, c, now, batch, i) ==
  IF i > Len(batch) THEN "end"
  ELSE LET h == HeaderVerdict(c0, now, batch, i)
       IN IF h # "ok" THEN h ELSE ValidateBody(c, batch[i])

--------------------------------------------------------------------------
(* Writing a block with its state. *)

\* The trie nodes that the execution of b on its parent's state creates.
Fresh(b) == Trie[Root[b]] \ Trie[Root[Parent[b]]]

\* Above the memory limit the oldest nodes are flushed (cap of them), and the
\* roots of blocks TriesInMemory and more below are dereferenced.
CollectGarbage(c, b, cap) ==
  IF Number[b] <= TriesInMemory THEN c
  ELSE LET old == {x \in Blocks : /\ c.gc[x] > 0
                                  /\ Number[x] <= Number[b] - TriesInMemory}
           drop(x, db) == Fold(LAMBDA d, i : Dereference(d, Root[x]), db,
                                   [i \in 1..c.gc[x] |-> i])
       IN [c EXCEPT !.trie = FoldSet(drop, Cap(@, cap), old),
                    !.gc = [x \in Blocks |-> IF x \in old THEN 0 ELSE @[x]]]

\* state.Commit and what becomes of the trie: an archive node writes it to
\* disk, any other refers to it and collects what has become too old.
CommitState(c, b, how) ==
  LET filled == [c EXCEPT !.trie = InsertTrie(@, Fresh(b))]
  IN IF how.archive
     THEN [filled EXCEPT !.trie = Commit(@, Root[b])]
     ELSE CollectGarbage([filled EXCEPT !.trie = Reference(@, Root[b]),
                                        !.gc[b] = @ + 1], b, how.cap)

\* Whether b becomes the head: by total difficulty, then the lower number,
\* then the node's own block, then a coin.
Overtakes(c, b, coin) ==
  LET here == c.td[c.head]
      there == c.td[b]
  IN \/ there > here
     \/ there = here /\ Number[b] < Number[c.head]
     \/ /\ there = here /\ Number[b] = Number[c.head]
        /\ c.head \notin Own /\ (b \in Own \/ coin)

\* insert: b becomes canonical and the head; the other heads follow only when
\* the number was not b's before.
insertHead(c, b) ==
  LET moved == [c EXCEPT !.canon[Number[b]] = b, !.head = b]
  IN IF c.canon[Number[b]] = b THEN moved
     ELSE [moved EXCEPT !.header = b, !.fast = b]

CommonPrefix(p, q) ==
  CHOOSE k \in 0..Len(p) : /\ k <= Len(q) /\ SubSeq(p, 1, k) = SubSeq(q, 1, k)
                           /\ \/ k = Len(p) \/ k = Len(q)
                              \/ p[k + 1] # q[k + 1]

\* Mutant: only the new head is written to the canonical index.
reorg_OnlyHead(c, old, new) ==
  LET k == CommonPrefix(Path[old], Path[new])
      drop == SubSeq(Path[old], k + 1, Len(Path[old]))
      add == SubSeq(Path[new], k + 1, Len(Path[new]))
      gone == (UNION {Content[x] : x \in ToSet(drop)})
                \ (UNION {Content[x] : x \in ToSet(add)})
      added == Fold(LAMBDA d, x : WriteTxLookupEntries(d, x), c, add)
  IN [insertHead(added, new) EXCEPT
        !.lookup = [t \in Txs |-> IF t \in gone THEN NoBlock ELSE @[t]]]

\* reorg: the new branch becomes canonical from the common ancestor up, and
\* the transactions that only the old branch has lose their entry.
reorg(c, old, new) ==
  LET k == CommonPrefix(Path[old], Path[new])
      drop == SubSeq(Path[old], k + 1, Len(Path[old]))
      add == SubSeq(Path[new], k + 1, Len(Path[new]))
      gone == (UNION {Content[x] : x \in ToSet(drop)})
                \ (UNION {Content[x] : x \in ToSet(add)})
      added == Fold(LAMBDA d, x : WriteTxLookupEntries(insertHead(d, x), x),
                        c, add)
  IN [added EXCEPT !.lookup = [t \in Txs |->
                                 IF t \in gone THEN NoBlock ELSE @[t]]]

\* The block, stored with its state, becomes the head or stays beside the
\* canonical chain.
Place(stored, b, coin) ==
  LET canonical == Overtakes(stored, b, coin)
      moved == IF Parent[b] = stored.head THEN stored ELSE reorg(stored, stored.head, b)
      done == IF canonical THEN insertHead(WriteTxLookupEntries(moved, b), b)
              ELSE stored
  IN [c |-> [done EXCEPT !.future = @ \ {b}], canonical |-> canonical]

\* writeBlockWithState.  how is the node's configuration and the outcomes of
\* chance in this import: archive, cap, and how the coin falls.  The blocks
\* of a batch have ever more weight, so at most one of them is tossed for.
writeBlockWithState(c, b, how) ==
  Place(CommitState(WriteBlock(c, b, c.td[Parent[b]] + Difficulty[b]), b, how),
        b, how.coin)

--------------------------------------------------------------------------
(* Importing a batch.  The result is the chain, the error ("end" when there *)
(* was none) and whether the import ended in a nil pointer dereference.     *)

Result(c, err) == [c |-> c, err |-> err, panic |-> FALSE]

\* addFutureBlock for block i and the blocks after it whose parent is
\* unknown; a block too far ahead ends it with an error.
QueueFuture(c0, c, how, batch, i) ==
  LET orphan(j) == Verdict(c0, c, how.now, batch, j) = "unknown"
      run == {j \in i..Len(batch) : \A m \in (i + 1)..j : orphan(m)}
      far == {j \in run : Time[batch[j]] > how.now + MaxTimeFuture}
      stop == IF far = {} THEN Max(run) + 1 ELSE Min(far)
      queued == {batch[j] : j \in i..(stop - 1)}
  IN Result([c EXCEPT !.future = @ \cup queued],
            IF far # {} THEN "far" ELSE Verdict(c0, c, how.now, batch, stop))

\* A single ChainHeadEvent for the last block that became the head, unless the
\* import returns before it comes to that.
HeadEvent(r, last, batch) ==
  IF r.err # "far" /\ last = r.c.head THEN [r EXCEPT !.c.fed = last] ELSE r

\* A pass of the loop has written block b, with outcome w.
Written(acc, b, w) ==
  [acc EXCEPT !.c = w.c, !.last = IF w.canonical THEN b ELSE @]

\* The loop over the blocks that verify, from block i on.
WriteLoop(c0, c, how, batch, i) ==
  LET next(acc, j) ==
        LET v == Verdict(c0, acc.c, how.now, batch, j)
        IN IF acc.err # "ok" THEN acc
           ELSE IF v # "ok" THEN [acc EXCEPT !.err = v, !.at = j]
           ELSE IF batch[j] \in Bad THEN [acc EXCEPT !.err = "bad", !.at = j]
           ELSE Written(acc, batch[j], writeBlockWithState(acc.c, batch[j], how))
  IN Fold(next, [c |-> c, err |-> "ok", at |-> Len(batch) + 1, last |-> NoBlock],
          [j \in 1..(Len(batch) - i + 1) |-> i + j - 1])

\* What follows the loop.
EndImport(c0, loop, how, batch) ==
  IF loop.err = "bad" THEN Result(loop.c, "bad")
  ELSE HeadEvent(IF loop.err = "future" THEN QueueFuture(c0, loop.c, how, batch, loop.at)
                 ELSE Result(loop.c, IF loop.err = "ok" THEN "end" ELSE loop.err),
                 loop.last, batch)

WriteBlocks(c0, c, how, batch, i) ==
  EndImport(c0, WriteLoop(c0, c, how, batch, i), how, batch)

\* externTd: the total difficulty of the branch up to b, from that of the first
\* block's parent on; 0 stands for nil.
SideTd(c, td, b) ==
  Difficulty[b] + IF td = 0 THEN c.td[Parent[b]] ELSE td

\* Mutant: the branch is switched to only when it is lighter.
Reimports_Lighter(here, there) == here >= there

\* Whether the branch is imported again to switch over to it.
Reimports(here, there) == here <= there

\* insertSidechain, its loop: the blocks whose parent's state is pruned are
\* stored without state.
StoreSide(c0, c, how, batch, i) ==
  LET store(acc, j) ==
        LET b == batch[j]
            x == CanonicalAt(c, Number[b])
            canonical == IF Number[b] <= Number[c.head] /\ x # NoBlock
                            /\ HasBlock(c, x) THEN x ELSE NoBlock
            v == Verdict(c0, acc.c, how.now, batch, j)
            td == SideTd(acc.c, acc.td, b)
        IN IF acc.err # "pruned" THEN acc
           ELSE IF v # "pruned" THEN [acc EXCEPT !.err = v, !.at = j]
           ELSE IF canonical = b THEN acc
           ELSE IF canonical # NoBlock /\ Root[canonical] = Root[b]
                THEN [acc EXCEPT !.err = "ghost"]
           ELSE [acc EXCEPT !.td = td,
                   !.c = IF HasBlock(@, b) THEN @ ELSE WriteBlock(@, b, td)]
  IN Fold(store, [c |-> c, err |-> "pruned", td |-> 0, at |-> Len(batch) + 1],
          [j \in 1..(Len(batch) - i + 1) |-> i + j - 1])

\* The blocks above the last one on the path that has its state.
Stateless(c, path) ==
  LET from == Max({j \in DOMAIN path : HasState(c, Root[path[j]])})
  IN SubSeq(path, from + 1, Len(path))

\* Those blocks are imported again, when there are any.
Reimport(c, how, again) ==
  IF again = << >> THEN Result(c, "end") ELSE WriteBlocks(c, c, how, again, 1)

\* insertSidechain after its loop: when the branch outweighs the head, the
\* blocks back to the last state there is are imported again.
EndSide(side, td, how, batch) ==
  LET err == IF side.err \in {"pruned", "ok"} THEN "end" ELSE side.err
  IN IF side.err = "ghost" THEN Result(side.c, "ghost")
     ELSE IF side.td = 0 THEN [Result(side.c, err) EXCEPT !.panic = TRUE]
     ELSE IF ~Reimports(td, side.td) THEN Result(side.c, err)
     ELSE Reimport(side.c, how, Stateless(side.c, Path[batch[side.at - 1]]))

insertSidechain(c0, c, how, batch, i) ==
  EndSide(StoreSide(c0, c, how, batch, i), c.td[c.head], how, batch)

\* insertChain: the verdict v on block i, the first one left, directs the import.
ImportFrom(c, how, batch, i, v) ==
  IF v = "pruned" THEN insertSidechain(c, c, how, batch, i)
  ELSE IF v = "future" \/ (v = "unknown" /\ Parent[batch[1]] \in c.future)
  THEN IF i = 1 \/ v = "unknown" THEN QueueFuture(c, c, how, batch, i)
       ELSE Result(c, v)
  ELSE IF v = "ok" THEN WriteBlocks(c, c, how, batch, i)
  ELSE Result(c, v)

\* InsertChain: nothing while the chain is stopped; known blocks up to the head's
\* number are skipped.
InsertChain(c, how, batch) ==
  LET known(j) == /\ Verdict(c, c, how.now, batch, j) = "known"
                  /\ Number[batch[j]] <= Number[c.head]
      i == Min({j \in 1..(Len(batch) + 1) :
                  j = Len(batch) + 1 \/ ~known(j)})
  IN IF how.stopped THEN Result(c, "end")
     ELSE ImportFrom(c, how, batch, i, Verdict(c, c, how.now, batch, i))

--------------------------------------------------------------------------
(* Headers ahead of their blocks, as the downloader inserts them. *)

\* Mutant: the total difficulty is counted from the head header.
WriteHeader_FromHead(c, h, coin) ==
  [WriteHeaderTd(c, h, c.td[c.header] + Difficulty[h]) EXCEPT
     !.canon[Number[h]] = h, !.header = h]

\* WriteHeader: the header is stored, and with more weight than the head
\* header (or as much and the coin) the canonical index is led to it: the
\* entries above it go, the ancestors that differ are rewritten.
WriteHeader(c, h, coin) ==
  LET w == WriteHeaderTd(c, h, c.td[Parent[h]] + Difficulty[h])
      n == Number[h]
      hole == Min({m \in (n + 1)..(MaxNumber + 1) : CanonicalAt(c, m) = NoBlock})
      fork == Max({m \in 0..(n - 1) : c.canon[m] = Path[h][m + 1]})
      canonical == \/ w.td[h] > c.td[c.header]
                   \/ w.td[h] = c.td[c.header] /\ coin
  IN IF ~canonical THEN w
     ELSE [w EXCEPT !.header = h,
             !.canon = [m \in 0..MaxNumber |->
                          IF m > fork /\ m <= n THEN Path[h][m + 1]
                          ELSE IF m > n /\ m < hole THEN NoBlock
                          ELSE @[m]]]

Contiguous(hs) == \A i \in 2..Len(hs) : Parent[hs[i]] = hs[i - 1]

\* InsertHeaderChain: headers that are not linked, or whose first parent is
\* not known, change nothing; headers known already are passed over.
InsertHeaderChain(c, hs, now, coin) ==
  LET valid == /\ Contiguous(hs) /\ HasHeader(c, Parent[hs[1]])
               /\ \A i \in DOMAIN hs : Time[hs[i]] <= now
  IN IF ~valid THEN c
     ELSE Fold(LAMBDA d, h : IF HasHeader(d, h) THEN d ELSE WriteHeader(d, h, coin),
               c, hs)

=============================================================================
