# A TLA+ model of poasim

poasim simulates proof-of-authority blockchains: nodes that discover each
other, connect, exchange blocks and transactions, and seal blocks under the
Clique or the Aura engine. Much of its code is go-ethereum rewritten for a
discrete-event simulator, and what was rewritten (who waits for whom, which
callback runs when, what survives a restart of a node) is where it can go wrong
in ways that a run with a fixed random seed will not show. The repository has no
tests. This directory models those parts, checks them with TLC on small
instances, and proves the main results with TLAPS.

## 1. The system

### How it executes

The simulator (package godes, external) runs one runner (a goroutine) at a time.
A runner keeps the processor until it calls `Advance` or waits for a condition.
So every model follows one rule: **an action is the code between two points at
which the runner gives way**. Inside an action there is no interleaving; between
two actions anything may happen, including that the node goes offline, that a
runner is interrupted and never resumed, or that a callback of an earlier session
of the node arrives. Latencies, lifetimes and timers come from distributions;
unless a property is about time, the models let them end at any moment.

Paths below are relative to `src/src/network/` unless they start with `src/`.

### Components

| Component | Code | State | Operations |
|---|---|---|---|
| Clique snapshot | `eth/consensus/clique/snapshot.go` | signers, recent signers, votes, cached tally | `apply`, `cast`, `uncast`, `validVote`, `inturn` |
| Clique engine | `eth/consensus/clique/clique.go` | (stateless apart from caches) | `Prepare`, `Seal`, `verifyHeader`, `verifySeal`, `snapshot` |
| Aura engine | `eth/consensus/aura/` | list of authorities, period | `Prepare`, `Seal`, `inTurn`, `verifyHeader` |
| Miner, worker | `eth/miner/` | `canStart`, `shouldStart`, the work in progress | `update`, `Start`, `Stop`, `Run`, `commitNewWork`, `handleResult` |
| Event feed | `eth/event_feed/` | subscriptions, `feeding` | `Post`, `Register`, `Start`, `Stop` |
| Ethereum service | `eth/ethereum.go` | its parts | `Start`, `Stop`, `StartMining`, `shouldPreserve` |
| Downloader, sync | `eth/downloader/`, `eth/sync.go` | `synchronising` | `synchronise`, `syncWithPeer`, force cycle, transaction packs |
| Protocol manager, fetcher, eth peers | `eth/protocol_manager.go`, `eth/fetcher/`, `eth/peer.go` | peer set, what each peer knows, send queues | handlers of block, header and transaction messages |
| Block chain, header chain | `eth/core/` | head, database, canonical index, future blocks | `insertChain`, `writeBlockWithState`, `reorg` |
| Transaction pool, state transition | `eth/core/` | pending, queued, nonces | add, promote, demote, reset, apply |
| State database, trie, databases | `eth/core/state/`, `eth/trie/`, `eth/ethdb/`, `eth/core/rawdb/` | journal, reference counts, maps | snapshot, revert, commit, dereference |
| devp2p server, dialer, peers | `devp2p/` | peers, inbound count, dial tasks, handshakes | `Start`, `Stop`, `SetupConn`, `addPeer`, `newTasks`, `taskDone`, ping |
| Discovery table, UDP, DB | `discovery/` | buckets, liveness, failures, seeds | `lookup`, `doRevalidate`, `doRefresh`, ping / pong / findnode / neighbors |
| Node, messages | `node.go`, `message/` | `online`, messages on their way | `setOnline`, `Send`, `Run`, timeouts |
| Simulation driver, metrics, export | `src/src/main/`, `src/src/scenario/`, `src/src/config/`, `src/src/metrics/`, `src/src/export/` | counters, files | start, end, report |

`PROJECT.json` lists every component with its status and what is left out of it.

### Interactions

* `setOnline` starts and stops discovery, then the server, then the protocols.
  Stopping interrupts runners that the component kept a handle of; the others go
  on, on the state of the next session.
* The dial loop reads candidates from the table and the last lookup; the table
  calls UDP, whose answers call back into the table and the lookup.
* A devp2p peer runs the Ethereum protocol. A block message reaches the fetcher,
  which inserts into the chain, or shows a heavier peer, with which the downloader
  then synchronises.
* The downloader posts start and end events to the feed, and the miner halts and
  starts again on them. A chain head event makes the worker commit new work, the
  engine prepares and seals it, and the result goes back to the chain and to the
  peers.

### What is hard here

Callbacks that find a later state than the one they were sent from; restarts in the
middle of a handshake, a lookup, a synchronisation or a sealing delay; events that
a stopped feed drops; work that nobody retries; limits that are checked before a
wait and applied after it; ties between branches; counters cached beside the list
that they count. `PROJECT.json` lists such hazards at their lines, with the
properties that would catch each of them going wrong.

## 2. The modules

```
CliqueRules ---- CliqueSnapshot ---- CliqueProofs             one chain, votes
     \---------- CliqueNet ----------/                        a network of signers
AuraRules ------ Aura ------ SealingProofs                    a network of authorities
Miner --------------------/                                   miner + downloader + feed + service
Server --------- ServerProofs                                 devp2p servers of a network
EthPeers ------- EthProofs                                    the eth protocol on top of them
Table ---------- TableProofs                                  one bucket and its requests
Lookup --------- LookupProofs                                 one lookup and its queries
TrieDB --- ChainRules --- BlockChain --- ChainProofs          the chain and state cache of a node
               |              \---- implements CanonicalChain
               \---------- Downloader                         two chains, one catching up
PoolRules ------ TxPool                                       the transaction pool
PatriciaTrie --- StateDB --- Execution                        a worker and an importer
FoldTheorems                                                  folds and recursions, for proofs
MC*                                                           constants for TLC
```

Definitions keep the names of the code. `PROJECT.json`, under `map`, gives the
lines of every definition. A definition named `X_Something` with a comment that
begins "Mutant:" is a plausible slip in `X`; nothing uses it except the mutation
runs, each of which shows that a property fails when the slip is made.

### CliqueRules, CliqueSnapshot

A snapshot is a record with the fields of the Go struct. `Votes` is a set because
the vote list is only searched and filtered. `Recents` is a function from block
numbers. `CliqueRules` holds the snapshot operations and three tests for "signed
recently": that of `Seal`, that of `apply` and that of `verifySeal`, whose 64-bit
subtraction wraps on the first blocks. `CliqueSnapshot` extends one chain by any
header that `VerifyVote`, `verifySeal` and `apply` accept. The history variables
`ballot`, `sealed` and `changed` record what the headers said; no action reads
them.

### CliqueNet

The nodes in `Online` seal, exchange and import. A block is the sequence of seals
on its chain, so a database is a set of sequences closed under prefixes, and the
snapshot of a block is `apply` folded over it: the same `CliqueRules` as above.
Actions: `CommitNewWork`, `SealResult`, `ImportBlock`, `DropBlock` (parent unknown;
both ends of the link marked the block as known, so it is not sent again) and
`Synchronise`. The coin of `writeBlockWithState` between equal blocks is a
nondeterministic choice. No signer has the address `common.Address{}`, which is what a
header without a vote carries.

### AuraRules, Aura

Aura is about time, so `Aura` has a clock in whole seconds. Time passes only when
no runner can run, which is what a discrete-event simulation does. `AuraRules`
holds `turn` (with the boundary second and its wrap-around), `PrepareTime` and
`verifyHeader`; `Aura` adds work, sealing at the time of the header, import with a
latency of up to `MaxLatency` seconds, and the fork choice that prefers own blocks. The
history variable `smooth` says that no block was late and no transaction arrived so far.

### Miner

One node: the fields of `Miner` and `worker`, the downloader's flag, which runner is
inside `syncWithPeer`, and whether the service is started. The gist is that a
synchronisation is in `Advance`, so `EthStop` may interrupt it. The force cycle's
runner is interrupted; a runner that a message started is not.

### Server

Every node has a server with its peers, its inbound count and its dial loop, and all
handshakes on their way are in one set. Each end of a connection runs its own
handshake, so connections that only one end knows are states of the model.
`scheduleTasks` and `newTasks` are operators that give the set of possible dial
states, because which candidates are offered is arbitrary.

### Table, Lookup

Buckets do not interact, so `Table` has one, with all requests that the table sends.
A request occupies a slot and passes through the stages of `Message.Run`; its
callback is one action. `Live` and `Dead` restrict which nodes can answer; nodes in
neither may do both. `Lookup` is one `lookup` with the queries of `lookupNode`; a
node is its distance to the target. The loops over answered nodes (`addSeenNode` over the
seeds, `pushUnseen` over the neighbors) are folds, node by node as in the code.

### EthPeers

Two ends belong to a connection: the devp2p peer of each node with the eth peer that
wraps it. `Connect`, `ConnectFails` and `Handle` bring an end into use (the devp2p
handshake itself is in `Server`), `Drop`, `Stop` and failed messages close it. Each
server looks at its own peers only (`InUse`), when it sets a connection up and again
when it adds the peer: a node whose end closed may connect again while the other still
has its old end, and gets a new one that the other has no counterpart of; several
handshakes of the same two nodes may be on their way at once. So the ends in use of two
nodes may be of different connections, and messages find a peer by its node. `World`
is the record of everything that a call can change, and the operations of the code
(`Close`, `Send`, `broadcast`, `AsyncSend…`, `BroadcastTxs`, `syncTransactions`,
`Listener`) map a world to a world, since they call each other without giving way. A
message is in `msgs` from its sending to its arrival; it may overtake others, and it
fails when the receiver is offline or has no peer for the sender. Handshake peers and
registered peers are different sets, and the same node may be in one with an older
connection than in the other. Marks, queues and packs are those of the code; the
managers of earlier sessions stay (`mgrs`), because their listeners are still called.
`forgotten` is a history variable.

### TrieDB, ChainRules, BlockChain, CanonicalChain

`ChainRules` has the state of a chain as one record (headers with total difficulties,
bodies, canonical index, the three heads, lookups, future blocks, the trie cache and its
garbage queue) and the operations of `blockchain.go` and `headerchain.go` as functions
on it: `InsertChain` with the verdicts of the insert iterator, `insertSidechain`,
`writeBlockWithState`, `reorg`, `InsertHeaderChain`. The block tree is a constant: a
block has a parent, a difficulty, a time, transactions, a state root, and is valid or
not. States are sets of trie nodes that may share nodes, and `TrieDB` is the cache that
keeps them: reference counts, flush-list, `Cap`, `Commit`, `Dereference` with its
cascade. `BlockChain` adds the callers: imports of any batch, own seals, the runner of
future blocks, the clock, stop and start. Chance (the coin between equal blocks, how
much `Cap` flushes) is a nondeterministic choice.

`CanonicalChain` is what readers rely on: one chain from the genesis, replaced as a
whole by a preferred one, and for each transaction the block of that chain that holds
it. `ImplementsCanonicalChain` maps the canonical index up to the head, and the
lookups, to it.

### Downloader

Two chains under `ChainRules`. A call of `syncWithPeer` is split at its `Advance`s into
`FetchHeight`, `FindAncestor`, `MatchAncestor`, `FetchHeaders`, `InsertHeaders`,
`FetchBodies` and `ImportBlocks`; between them both nodes import, the peer announces, or
the connection breaks. The request span has the arithmetic of the code, and the answers
are those of `getBlockHeaders` and `getBlockBodies` with their limits. The history
variable `quiet` says that nothing but the call itself moved.

### PoolRules, TxPool

`PoolRules` holds the lists of `tx_list.go`, the price heap with stale and duplicate
entries, and the operations of the pool (`add`, `enqueueTx`, `promoteTx`, `removeTx`,
`promoteExecutables` with its two truncations, `demoteUnexecutables`, `reset` with
`Reinject`, `SetGasPrice`, eviction). `TxPool` lets them be called in any order while
the head moves in a block tree whose states give nonces and balances. A list is a set of
transactions with different nonces, the heap a bag.

### PatriciaTrie, StateDB, Execution

`PatriciaTrie` is `tryGet`, `insert` and `delete` on tries of short and full nodes (a
recursive module, so nothing can be proved about it here). `StateDB` is the journal with
its entries and reverts, snapshots, `Finalise`, `Commit` and `Copy`. `Execution` puts a
worker (`commitNewWork` on a parent that may be an earlier head, as the request waits
between reading the head and making the work; `commitTransactions` with the order by price and nonce, the gas
pool, the pending snapshot, the task) beside a node that executes each sealed block
again and compares root and gas. There is no interpreter in the repository, so a call is
a transfer.

## 3. The runs

Every run is listed in `PROJECT.json`. `tlc -config <cfg> <module>` repeats one.

| Run | cfg | Checks | Distinct states |
|---|---|---|---|
| `snapshot_votes` | MCCliqueSnapshot | `VotesSound`, `VotesMatchHeaders`, `RecentsSound`, `ChangeNeedsMajority`: three signers, any votes, five blocks, a checkpoint | 206,545 |
| `clique_network` | MCCliqueNet | `BranchesSound`, `HeadsSound`; no deadlock before the bound | 113,198 |
| `server_limits` | MCServer | `PeersBounded`, `DialLoopTicks`, `HalfOpenEnds` (liveness): room for one peer, two servers that dial | 43,575 |
| `miner_restarts` | MCMiner | `MinerSafe`, `DownloadsHaltMinerOnce` through restarts; `SteadySync`, `MinesForGood` (liveness) until the first one | 1,253 |
| `aura_network` | MCAura | `ChainsSound`, `NeverStalls`: blocks up to 1½ periods late, work committed again at any time | 516,963 |
| `table_bucket` | MCTable | `BucketSound`, `EvictsSilentOnly`, `DeadLeave` (liveness) | 662,284 |
| `lookup_restarts` | MCLookup | `LookupSound`, `AllPlacesTaken`, `LookupReturns` (liveness) | 61,756 |
| `chain_imports` | MCBlockChain | `HeadSound`, `StatesSound`, `ImplementsCanonicalChain` (refinement), `RipeBlocksLeave` (liveness) | 10,770 |
| `downloader` | MCDownloader | `StoreSound`, `QuietCallsEndWell`, `EventuallySynced` (liveness) | 138,165 |
| `pool_resets` | MCTxPool | `PoolConsistent`, `PendingReady`; of steps `RunsKept`, `ReorgReturns`; no deadlock | 81,936 |
| `execution` | MCExecution | `ImportersAgree`, `WorkIsReplay`, `RootsCanonical`, `BlocksSound`; no deadlock | 39,576 |
| `eth_peers` | MCEthPeers | `MarksHold`, `PacksSound`, `SameWhenQuiet`, `HandshakesEnd` | 2,013,932 |

Several invariants are conjunctions of named parts, each with its own statement in the
module:

| Invariant | Parts |
|---|---|
| `VotesSound` | `SnapshotTypeOK`, `TallyMatchesVotes`, `OneVotePerSigner` |
| `RecentsSound` | `RecentsWindow`, `SomeoneCanExtend`, `SealedHeadersApply` |
| `BranchesSound`, `HeadsSound` | `SealedBlocksVerify`, `SignersRest`; `TypeOK` (databases closed under parents), `HeadIsHeaviest` |
| `PeersBounded` | `TypeOK` (at most `maxActiveDialTasks` tasks), `InboundCountMatches`, `PeerLimits` |
| `MinerSafe`, `SteadySync` | `MinerTypeOK`, `OneSyncer`, `MiningRequestKept`; `SteadySyncHasRunner`, `SteadyStartsAfterSync` |
| `ChainsSound` | `TypeOK`, `TurnIsSlot`, `SealsVerify`, `OneBlockPerRound` |
| `BucketSound` | `TypeOK` (list limits), `EachNodeOnce`, `DeadNotAdvertised` |
| `LookupSound` | `TypeOK` (at most alpha queries), `ReturnsFinal` |
| `HeadSound`, `StatesSound` | `TypeOK`, `StoreLinked`, `HeadHeaviest`, `HeadAnnounced`; `HeadStateKept`, `TriesComplete`, `DiskClosed`, `NoLeak` |
| `StoreSound`, `QuietCallsEndWell` | `TypeOK`, `StoreLinked`; `QuietCallCatchesUp`, `PanicNeedsShorterPeer` |
| `PoolConsistent` | `TypeOK`, `ListsAgree`, `HeapCovers`, `StalesCounted`, `PoolBounded`, `SlotsRespected` |
| `PendingReady` | `PooledValid`, `FrontExecutable`, `NothingReadyQueued`, `PendingTold` |
| `BlocksSound` | `TypeOK`, `SupplyKept`, `GasFits`, `NoncesFollow`, `TouchedNotEmpty` |
| `MarksHold`, `PacksSound` | `MarksTrue`, `QueuesOfClosed`; `TypeOK` (one peer for a node), `OnePack` |

### Bounds

* `MaxLength`, `MaxSeals` (Clique): three signers need two votes for a change, so five
  blocks with `Epoch = 5` hold two changes with the votes they discard, down to a single
  signer (the limit goes from 2 to 1), and a checkpoint with votes left. Four seals of
  three signers (limit 2) contain forks, ties, a block before its parent and a
  reorganisation. With three signers `verifySeal`'s subtraction wraps only on block 1;
  that the tests agree for any number of signers is a theorem.
* `MaxStops` (Server, Miner, Lookup, EthPeers): one or two restarts at any point. The
  miner with two can lose an event, be asked again and lose another.
* `MaxLatency`, `MaxTime` (Aura): with a period of 2, latency 3 is late by half a period.
  The start is any second of a round of 6, so 11 seconds are between one and two rounds.
* `MaxPeers` (Server): 1 is the smallest limit that two dialling nodes can exceed.
* `MaxRequests`, `MaxFails`, `MaxNeighbors` (Table): two requests are enough for a
  callback to find the bucket changed by another one, two failures for the counter to
  go up and down before a node is dropped. Three nodes over-fill a bucket of two. They
  are one that always answers, one that may, and one that never does.
* `MaxConns`, `MaxItems`, `MaxTxs` (EthPeers): the second connection of the same two
  nodes is the one that meets what the first left behind, beside it or after it. Two
  transactions with a pack of one make a sync of two packs; two items are two transactions, or one and a block.
  `Others` adds one peer outside the model, so that a block is sent whole or announced.
  Queues have room for one.
* The tree of `MCBlockChain`: a long light branch, a short heavy one whose last block is
  invalid and has the state of earlier blocks (so that an import may end there in two
  ways), and a heavy block beside it that the head may not ignore; two states in memory, so that side chains meet pruned states, and roots that share nodes or come back
  later. `MaxBatch` 3 holds a fork point and what follows. `MaxTime`
  lets each future block ripen; `MaxCap` flushes none or one node.
* `MCDownloader`: batches of 3 headers and 2 bodies against branches of 4 and 2 blocks,
  so that calls within and beyond a batch occur, and a peer that is shorter and heavier.
* `MCTxPool`: two remote accounts and a local one with eight transactions; limits of four
  pending and one queued in all, and of one of each for a remote account. So offenders are
  reduced to the length of the next one and then together (`Equalize`), an account's queue
  is cut (`CutQueue`), and queues go as a whole and in part (`TruncateQueue`). `MaxReorg` (1)
  admits reorganisations to a lower, an equal and a higher number and excludes one; up to
  three transactions come back, from branches that share one or none. `Messages` are all
  single transactions and pairs in and out of the order of nonces. `MaxItems` (8) bounds
  the entries of the heap, enough for one transaction more than once.
* `MCExecution`: two blocks above the genesis; a transaction that makes another one
  affordable, one that is too dear, one with too little gas and one that empties an
  account. `Pendings` are four contents of the pool that combine them.
* Symmetry: in `eth_peers` the nodes are interchangeable. Runs with liveness properties
  use none.

### Deadlock

It is checked in `clique_network` (with `Terminated` for a bound that is reached), in
`miner_restarts`, `table_bucket`, `pool_resets` and `execution`. It is off where the
system may rest or a bound ends the behaviour: a chain of maximal length, the end of
the simulated time, a network in which every server has its peers, a lookup that has
returned, a process that died, connections all used up.

### Fairness

* `Miner!FairSpec`: weak fairness of `SyncEnds`. A synchronisation is a runner in
  `Advance`, and the scheduler always resumes one whose time has come.
* `Server!FairSpec`: weak fairness of every `Ping` that would find a dead connection.
  The ping loop of a peer runs until the peer is closed. Nothing is assumed of
  handshakes or dials.
* `Table!Fairness`: requests end and the revalidation loop goes on. Nothing is assumed
  of other nodes or of the sessions of this one; `DeadLeave` states as its premise that
  the node stays online and hears of nobody new.
* `Lookup!Fairness`: messages arrive and timeouts end.
* `BlockChain!RunnerFairness`: weak fairness of `ProcFutureBlocks`, a runner that wakes
  up every five seconds while the node is up.
* `Downloader!SyncFairness`: weak fairness of the steps of a call and of the next call,
  which the force cycle makes every ten seconds. Nothing is assumed of the peer.

The last two spell out when their action is enabled instead of using `WF`, which is
equivalent and far cheaper to evaluate.

## 4. What disagrees with the code's own text

Behaviours that the models reach and that a comment, or plainly the intention, rules
out. No run is kept for them: the properties that hold carry the exceptions, and each
of these can be read off the definitions named.

Consensus and mining:

* *Clique stalls.* With one of four signers off, two out-of-turn blocks tie, each
  sealer's coin keeps its own block, and all three running signers, a majority, are
  recent on their heads. Nothing but a new head restarts sealing, although `clique.go:137`
  says such a signer "is temporarily not allowed to" (`CliqueNet`: `RecentForSeal`).
* *Synchronisation stuck.* The runner that would reset `synchronising` is interrupted
  with the service, and every later call returns `errBusy` (`Miner`: `EthStop`; hence the
  premise of `SteadySyncHasRunner`).
* After a restart the miner may wait for an end event that was lost with its runner or
  dropped by the stopped feed (`EthStop`, `Delivered`), the recommit loop is not resumed
  (`close`), and a request for work that was pending at the stop still seals.
* Gas that a failing transaction bought is not returned to the block's gas pool when its
  state is reverted (`Execution`: `PreCheck`), so later ones may not fit (`GasFits` is an
  inequality for this reason).

Network:

* *More dials than the ratio.* A dial task ends when the handshake is sent; until the
  peer is added it is counted nowhere (`Server`: `DialTaskDone`).
* `addPeer` does not ask whether the server still runs, so a stopped server can get a
  peer (`Server`: `HandshakeDone` after `Stop`).
* *The closest nodes are not all asked.* The starting nodes are not in `seen`, enter the
  result twice and crowd out others (`Lookup`: `Callback`); `table.go:222` says "the goal
  is to ask all the closest nodes".
* A ping that times out adds its node as verified (`Table`: `Bonded`).
* A query loses its callback when its answer finds the asking node offline, or when the
  asked node takes the bond for expired (`Lookup`: `AnswerLost`, `FindnodeArrives`).
* Handshake peers are not removed when their connection closes. A later status finds the
  stale peer and registers it instead of the new one; as it is closed, nothing is
  broadcast to that node until its queues are full, and then it is dropped
  (`EthPeers`: `Wait`, `Registered`).
* A pack that fails for an older connection deletes the entry of the node, and with it
  the transactions that wait for the new connection (`EthPeers`: `Listener`, `forgotten`),
  although "syncTransactions starts sending all currently pending transactions to the
  given peer" (`sync.go:64`).
* A message that overtakes the status closes the sender's connection (`Fail`).
* *One-sided sessions.* A node that closed its end connects again beside the other's old
  end, and the status that its new end waits for was sent long ago. Both ends stay open
  by their pings, but only the other node has a registered peer; the first message that
  this one sends finds no peer and closes its end (`Connect`, `Handle`; hence
  `HandshakesEnd` promises one side, not both). Two crossing dials do the same with the
  two ends of one connection.
* `GetTd` returns the cached number itself, the status message carries it, and `SetHead`
  of the receiver writes into it (`peer.go:153`, `headerchain.go:370`): a node changes the
  total difficulty that another has cached. Not modelled; the head that a peer was told
  of is a value in the models.

Chain and downloader:

* A reorganisation to a chain with fewer blocks leaves canonical entries above the head
  (`ChainRules`: `reorg`; `ImplementsCanonicalChain` is about the index up to the head). A
  peer then serves headers that do not fit together, and the node that asked drops it.
* The downloader skips a header between two batches and asks for all bodies at once,
  while a peer gives 128 at most; beyond one batch a call fails, each time
  (`Downloader`: `InsertHeaders`, `getBlockBodies`; hence `InOneBatch`). It reads
  `GetBlock(localHeight).Hash()` of a peer that may be shorter and dies of the nil pointer
  (`MatchAncestor`; hence `PanicNeedsShorterPeer`). The difference it reports there is
  unsigned, so it does so for an ancestor above the height too, which a peer that moved
  on can name.
* `insertSidechain` dies when a batch holds only canonical blocks that were pruned, as
  there is no total difficulty to compare (`insertSidechain`, `panic`).
* A side-chain block whose state root is also that of another stored block counts as
  known, or as an attack when the other one is canonical with the same number, and the
  import that was to "switch over to the new chain" stops there (`HeadHeaviest` has the
  exception, `Shadowed`).
* An import that ends with an error announces no head, although it changed it
  (`BlockChain`: `cut`).

Pool:

* Reinjected transactions can leave gaps in a pending list, which `tx_list.go` calls
  contiguous (`RunsKept` has the exception).
* The truncation of the queue that "drop[s] oldest ones" (`tx_pool.go:1042`) begins with
  the latest heartbeat; an account that only ever had queued transactions has none and
  counts as the oldest for eviction (`TruncateQueue`, `Evict`).
* A change of price can move transactions to the queue and leave it above its limit
  until the next promotion (`SetGasPrice`).

## 5. What is proved

TLAPS checks the theorems below for every value of the constants that satisfies the
named assumptions. The bounds (`MaxLength`, `MaxStops`, `MaxTime`, …) are constants
too, so the theorems hold for chains, histories and times of any length.

### CliqueProofs

One chain and the network. The definitions of `CliqueSnapshot` have `Snapshot` in their
names because both modules are here.

For one chain it assumes `Addresses` finite, `InitSigners` a subset of it, `Epoch` positive.
`TallyMatchesVotes` alone is not inductive. A vote that is replaced lowers the tally,
which keeps the count right only if the vote was unique and of a signer; and a dropped
signer is taken out of `Recents` only by the window rule. So

    SnapshotInv == SnapshotTypeOK /\ VoteInv(snap) /\ RecentsWindow /\ BallotsPast

where `VoteInv` joins the tally, the uniqueness and the direction of votes, and
`BallotsPast` bounds the history variables by the current number. The proof follows
`apply` step by step: checkpoint, `uncast`, `cast`, the signer's change and its
clean-up each have a lemma that keeps `VoteInv`. From `SnapshotInv`:

* `TypeCorrect`, `TallyCorrect`, `OneVoteCorrect`, `RecentsCorrect`;
* `ExtensionPossible`: on one chain somebody may always seal. `Recents` has fewer
  entries than half of the signers plus one, so by counting one signer is not in it;
* `SealAgreesWithApply`: the three recent-signer tests agree on what honest nodes seal;
* `MajorityRules`: a change of the signers has a strict majority behind it;
* `VotesCorrect` and `RecentsSafe` join these into the two invariants that the run checks;
* `VotesAreHeaders`: the vote list is exactly the set of standing ballots. This needs
  `ChangedPast` (no account changed later than the head) and the arithmetic of
  `EpochStep`: the start of the epoch moves only at a checkpoint, where all votes go.

For the network it assumes that the online nodes are signers and that no signer is the zero address (the
coinbase of a header without a vote). `SnapshotIsWindow` says what `apply` makes of a
chain of any length without votes: the number, the signers of the genesis block, and
the signers of the last `limit` blocks. It is shown by giving the closed form and
induction on the chain. With it,

    IInv == Shape /\ Closed /\ HeadsKnown /\ MissedElsewhere
              /\ BlocksValid /\ TasksValid /\ HeadIsHeaviest

`TasksValid` is the part that the run's invariants lack: a task becomes a block after any
number of other steps, so it must be valid on a known parent while it waits.
`MissedElsewhere` and `Closed` say that the peer has what `Synchronise` imports. Theorems:

* `BranchesStaySound`: what honest nodes seal passes `verifyHeader` and `apply` on its
  branch, and no signer seals twice within a limit, for any number of signers. Where
  `verifySeal`'s subtraction wraps its test accepts everybody, so the second part rests
  on `apply`;
* `HeadsStaySound`: databases are closed under parents, heads are heaviest. It needs that
  total difficulties grow along a chain (`TdGrows`, by induction);
* `HeadsOnlyImprove`: no step loses a block or moves a node to a lighter head.

### SealingProofs

When a block is sealed, on both sides of a runner: the slots of `Aura` and the switch of
`Miner`, whose definitions have `Miner` in their names because both modules are here.

For Aura it assumes a positive period and distinct authorities. `TurnCorrect` is
arithmetic: the case split of `inTurn` is `((t-1) div Period) mod authNum`. For chains,

    IInv == TypeOK /\ ChainsValid

where `ChainsValid` says of heads, known chains and waiting tasks alike that each
header is in turn and a period after its parent; waiting tasks are needed because a
task becomes a block later. `SealedVerifies` and `RoundsKept` follow, the latter with
the lemma that two times with the same turn are in the same slot or a round apart.
`ChainsCorrect` joins them with `TypeCorrect` and `TurnCorrect`.

`ChainGoesOn` (`NeverStalls`) has one hypothesis: every authority of the list runs a
node. Otherwise the chain does stop at the turn of the missing one. The invariant is
`SmoothIsStraight`: as long as nothing was late, all nodes are on prefixes of one chain
whose blocks are a period apart, each next header has one possible time, and the
authority in turn at it has the head and work, or is about to receive it.

For the miner,

    MinerInv == MinerTypeOK /\ OneSyncer /\ MiningRequestKept /\ GateListens /\ EndedIsDeaf

`GateListens` says that a miner that may not start still listens; without it
`MiningRequestKept` is not preserved by `StartMining`. `EndedIsDeaf` says that after
the first end event the subscription is gone; `HaltedOnce` rests on it. Theorems:
`MinerTypes`, `SyncerHoldsFlag`, `RequestKept`, `HaltedOnce`, and `MinerCorrect`, which
joins the first three. `SteadyCorrect` adds `Steady`: until the first stop the service is
online, and flag and closed gate both imply a runner.

### ServerProofs

    IInv == PeersBounded /\ dial \in [Nodes -> DialState] /\ DialLoopTicks

`PeerLimits` is inductive only with the exact inbound count that the checks read.
`DialLoopTicks` needs the lists of tasks with their limits: the loop starts queued tasks
before it makes new ones, and when dials are needed and nothing runs `newTasks` gives a
dial or a lookup (its timer may be missing). The invariant is kept server by server
(`Parts`), as an action changes one or two of them. Theorems: `PeersStayBounded`,
`DialLoopNeverSleeps`.

### TableProofs

Assumes positive sizes, and a bound `MaxFails` that is at least the number of failures
after which the code drops a node. About lists there are lemmas on `pushNode`,
`deleteNode` and the bucket operations: each takes a bucket without repetitions and
within its sizes to another one. The invariant adds to these buckets that a request in
stage "answered" is of a node that is not dead, and that failures and the findnodes
that may still fail are together within the bound. Theorems: `BucketStaysSound`, and
the action property `OnlySilentLeave` (`EvictsSilentOnly`), which goes through every
callback.

### LookupProofs

    IInv == Shape /\ PendingCounts /\ OpenAsked /\ NeverStopped /\ ReturnsFinal /\ AllPlacesTaken

`PendingCounts` (the counter is the number of open queries, at most alpha) makes
`ReturnsFinal` inductive, since `lookupDone` is set when the counter is 0. `ClosestLemma`
says that the next nodes to be asked are as many as there are free places, or all that
are left. Theorems: `LookupIsSound`, `LookupNeverIdles`.

### EthProofs

Holds for every number of nodes, connections, transactions and blocks, and needs no
assumption but those of `EthPeers`. A handler is one action that calls many operations,
and each of them maps a world to a world, so the invariant is one of worlds:

    IInv == ConnsOK /\ ... /\ Sound(World, pend, {}, chain, fetches)
              /\ PackSent(World, {}) /\ PoolOffered(World, pool)

* `Sound(w, pd, X, ch, fs)` has a parameter `X` for the message that was taken from the
  network and is being handled. In the middle of a handler a mark may be true only
  because of that message: its content is not in the pool or chain yet, and it is in
  `msgs` no more. So `TxMarksTrue` and `BlockMarksTrue` say "the node has it, or it is in
  `msgs \cup X`, or it is being fetched", and the parameter is `{}` again between actions.
* `Settled` (in `Sound`): an end with a mark, a queued item or a place in a pack list is
  not waiting for its devp2p handshake, and if it is open it is registered. Without it
  an end could become registered with marks from before, which nobody sent.
* `OneOpen`: a node has one end in use for another, and its handshake is over. Without
  it, closing an end could take away a peer that another open end relies on.
* `PackSent`: a pack under way belongs to one message, and a manager with a list has a pack
  under way. One message per manager is what makes the listener's "clear the list on
  failure" hit only the list it belongs to.
* `Shaking`: of two ends in use that face each other, of one connection or of two, one
  has a registered peer at its node or its status is under way. The one that opened last
  sent its status when the other was open already; that status registers a peer there or
  closes an end, and a registered peer is only lost with the open end.
* `PoolOffered`: at a registered open end everything in the pool is marked or in a list,
  unless the failure of an older connection's pack took the list (`forgotten`).

Each operation has one lemma that says what it leaves alone (`Grows`, `Shrinks`, `Takes`,
`Manages`), and these compose; the loops over peers are folds (below). Theorems:
`MarksCorrect` (`MarksHold`), `PacksCorrect` (`PacksSound`), `HandshakesComplete`
(`HandshakesEnd`) and `PoolsAgree` (`SameWhenQuiet`): all four invariants of the run.

### ChainProofs

Holds for every tree of blocks with any difficulties, times, states, transactions,
invalid blocks, batches and collector limits. Assumes what makes the blocks a tree
(`TreeAssumption`: no block is its own ancestor), what the nonces make of transactions
(`ContentAssumption`: a chain holds a transaction once, and the genesis block none),
and that `TopDown` lists every trie node once, before its children (`TrieAssumption`:
hashes make the nodes acyclic). The recursive functions `Path` and `Weight` are shown
to be defined by the tree (`TreeRecursion`). The invariant is one of a chain `c`:

    Good(c) == Indexed(c) /\ Counted(c) /\ Linked(c) /\ Lives(c, c.head)

* `Indexed`: up to the head's number the index is the head's path, and the lookup of
  every transaction is the block of that path that holds it;
* `Linked`: stored blocks have their parent stored, with the weight of their path;
* `Counted`: the trie cache is `Sound` and has no orphan. For a node that is cached and
  not on disk, `parents` is the number of cached nodes that refer to it plus the
  references of the meta root (`Exact`), and those are the entries that the collector's
  queue holds for it (`Metas`); the flush-list has every node after its children, or
  these are on disk (`Ordered`); the disk is complete by itself (`Whole`) and has the
  genesis state. Nodes that are on disk as well are left out of the counts: one that
  came from disk and was cached again counts no parents, and `dereference` says so;
* `Lives`: a block's state is on disk or in the collector's queue, or a block is stored
  `TriesInMemory` or more above it, which the collector may have taken it for.

`Grown(c, d)` adds that the head of `d` is preferred to that of `c`, or is the same; it is
transitive, so it composes along an import. The proof goes from the inside out:
`reorg` (`ReorgLemma`: the index above the common ancestor is overwritten, and a lookup
is deleted only if the new chain does not have the transaction), `insert`
(`MoveLemma`), `writeBlockWithState` (`WriteLemma`), the loops over a batch
(`WriteLoopLemma`, `StoreSideLemma`), `insertSidechain`, `insertChain`, the runner of
future blocks, and the actions. Four parts are not obvious:

* in `insertSidechain` the total difficulty is carried from block to block in
  `externTd`, which stays nil until a block is stored. `Sided` says that it is nil or the weight
  of the block before; it needs that a block above a non-canonical one is not canonical
  either (`BeneathLemma`), or a canonical block passed over in the middle would leave
  the sum short;
* a block whose parent's state is pruned is stored without a reorganisation, so the
  branch becomes the chain only through the second import, which starts from the same
  invariant (`SidechainLemma`);
* in the cascade of `Dereference` the counts are exact up to `owed`, what the cascade has
  still to take from each node. `DropLemma` shows that one node's turn keeps `Exact` with
  what is owed then, and `Falling` that a node that nothing refers to is owed its whole
  count and so goes when its turn comes. A root that the queue still holds has a
  reference of the meta root left and stays;
* between `InsertTrie` and `Reference` or `Commit` the new root is the only orphan
  (`InsertTrieLemma`), which either of them ends (`ReferenceLemma`, `CommitLemma`).

`StatesSound` follows. A node that can be read has its children by `Ordered` and `Whole`.
The head's root is there by `Lives` and `Metas`, and its trie with it. `NoLeak` is
`ReachedLemma`, by induction from the roots down (`DownInduction`): a cached node that is
not on disk has a count above 0, so the meta root refers to it, or a cached node does,
which is not on disk either and is reached.

Theorems: `ChainInvariance`, `StoreStaysLinked` (`StoreLinked`, a part of `HeadSound`),
`StatesStaySound` (`StatesSound`) and `CanonicalChainImplemented`: `Spec =>
ImplementsCanonicalChain`, the refinement that the run checks, initial state by
`InitShown` and every step by `AdoptLemma`.

### FoldTheorems

Induction over data. Theorems with an operator as a parameter cannot be instantiated by
the provers, so the operator is a constant of this module, which is used through
`INSTANCE FoldTheorems WITH Op <- ...`; and induction over the naturals is proved for
sets (`SetInduction`, from the fact that an injection of a finite set into itself is onto).
There are three kinds of folds:

* over a list: `LeftFoldSteps` (a fold is a run of steps through a family of sets, one
  for each length) and `FoldLeftInvariant`, the same with one set: `addSeenNodes`, the
  neighbors of a lookup, the broadcasts of an `eth` peer;
* over a set: `SetFoldSteps`, in whatever order `CHOOSE` takes its members: the peers
  that a block or a pack goes to, the ends that a stop closes; `SetFoldPicks` and
  `PicksExist` give the values in between: the roots that the collector dereferences,
  the queue of future blocks;
* along a chain: `RunningStep`, a recursion over the naturals is defined and its last
  step applies the operator (`Td` of the Clique network); `RunningSteps` gives the
  values in between: the loops of an import, the cascade of `Dereference`.

### Only model-checked

* Liveness (`MinesForGood`, `HalfOpenEnds`, `DeadLeave`, `LookupReturns`,
  `RipeBlocksLeave`, `EventuallySynced`): fairness and ENABLED are beyond the prover.
* Of `BlockChain`, `HeadSound` but for `StoreLinked`: `HeadHeaviest` would need, for every
  stored block of more weight than the head, which import ended below it and why, and
  `HeadAnnounced` the same for the history variable `cut`.
* `Downloader`: its calls are split into stages in which either chain moves on; the
  lemmas about imports in `ChainProofs` are stated for any chain and would carry over.
* `TxPool`: `PoolConsistent` and `PendingReady` go through the two truncations of
  `promoteExecutables`, loops that drop the dearest offenders' transactions one at a time
  until a count fits; each would need an invariant of all lists and of the price heap.
* `PatriciaTrie`, and so `StateDB` and `Execution`, use recursive operators, which the
  prover does not support.

## 6. What is not modelled

* Formats: RLP, hashes, signatures, JSON, extra data, bloom filters. A header or a
  message is the fields that the properties tell apart.
* Code that nothing in the simulator calls: `SetHead`, `Rollback`, `Reset`,
  `FastSyncCommitHead`, `InsertReceiptChain` of the chain, `AddLocal` of the pool, trie
  iterators and proofs, fast sync, requests for headers by hash or in reverse, static and
  trusted peers, `resolve`, votes proposed by users.
* Branches that cannot be taken: the flush of a trie after `gcproc` (no simulated time
  passes within an import), the flush in `Stop` (commented out), and everything that
  needs an interpreter (code, storage, logs, suicides, refunds).
* Receipts, caches, metrics, logging, export, the distributions, the unconfirmed ring,
  the inside of the priority queue.
* In the pool: the checks of size and gas limit, and the cost caps of a list, which a
  cost for each transaction stands for.
* A lookup of the dial loop that outlives `Stop` and ends in the next session: the
  `Server` model assumes that a node is down for longer than a lookup takes.
* In `CliqueNet`: time, restarts and the canonical index; in `Aura`: restarts; in
  `EthPeers`: the heads that statuses and block messages carry (`Downloader` has the head
  a peer was told of), and blocks whose parent is missing (`CliqueNet`).

## 7. Plan

Done, in this order: Clique snapshot and its proofs; the Clique network; the servers;
miner, downloader flag and feed, with proofs; Aura, with proofs; table and lookup; the
chain with its trie cache and the abstract chain it implements; the downloader; the
pool; execution with state database and trie; the eth protocol.

Proved since: the vote list, the Clique network, the servers, the table, the lookup, the
steady miner, the Aura chain that goes on, the eth protocol, the block chain with its
refinement of `CanonicalChain`, and the trie cache (section 5).

Theorems to come, most important first: `HeadAnnounced`; `StoreLinked` of the downloader;
the type of the pool and `ListsAgree`.

Models that would add to these: restarts in the Clique network with the real chain
(`ChainRules`) instead of its set of blocks, and total difficulties shared between nodes
by reference.
