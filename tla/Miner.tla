------------------------------- MODULE Miner -------------------------------
(***************************************************************************)
(* The miner of one node (miner/miner.go, miner/worker.go), the            *)
(* downloader that holds it back while the chain is synchronised           *)
(* (downloader/downloader.go, eth/sync.go), the event feed between them,   *)
(* and the Ethereum service that starts and stops them all                 *)
(* (eth/ethereum.go).                                                      *)
(*                                                                         *)
(* An action is the code between two Advances.  A synchronisation is in    *)
(* Advance from its StartEvent to its end, and so is a task that waits for *)
(* its turn to seal; each may end at any moment, or be interrupted.        *)
(* Whether a peer with a heavier chain is known, whether a download        *)
(* succeeds, and whether a block can be prepared and sealed is arbitrary.  *)
(***************************************************************************)
EXTENDS Naturals

CONSTANT MaxStops       \* bound: how often the service stops

ASSUME MinerAssumption == MaxStops \in Nat

VARIABLES
    online,             \* the service is started; also EventFeed.feeding
    synchronising,      \* Downloader.synchronising
    syncer,             \* the live runner inside syncWithPeer: "none", "cycle" or "message"
    blockRunner,        \* a runner that HandleNewBlockMsg started is about to run
    miner,              \* the fields of Miner and of its worker
    asked,              \* StartMining was called
    ended,              \* a DoneEvent or FailedEvent reached the miner
    stops

minerVars == <<online, synchronising, syncer, blockRunner, miner, asked, ended, stops>>

(***************************************************************************)
(* looping: the runner of worker.Run is scheduled.  request: a runner of   *)
(* feedNewWorkReq has work to commit.  sealing: prevTask is inside Seal.   *)
(***************************************************************************)
MinerState ==
    [canStart : BOOLEAN, shouldStart : BOOLEAN, subscribed : BOOLEAN,
     running : BOOLEAN, looping : BOOLEAN, newTxs : BOOLEAN,
     request : BOOLEAN, sealing : BOOLEAN]

----------------------------------------------------------------------------
\* The worker.

commitWork(m) == [m EXCEPT !.request = @ \/ m.running, !.newTxs = FALSE]

start(m) == commitWork([m EXCEPT !.running = TRUE, !.looping = TRUE])

\* Ends the loop and the task that is sealing; running is left alone.
close(m) == [m EXCEPT !.looping = FALSE, !.sealing = FALSE]

----------------------------------------------------------------------------
\* The miner, and what it does when the downloader's events reach it.

Start(m) ==
    LET s == [m EXCEPT !.shouldStart = TRUE]
    IN  IF s.canStart THEN start(s) ELSE s

Stop(m) == [m EXCEPT !.running = FALSE, !.shouldStart = FALSE]

\* Mutant: the wish to mine is recorded before Stop, which clears it.
update_StartEvent_ForgetsWish(m) ==
    LET s == [m EXCEPT !.canStart = FALSE]
    IN  IF s.running THEN Stop([s EXCEPT !.shouldStart = TRUE]) ELSE s

update_StartEvent(m) ==
    LET s == [m EXCEPT !.canStart = FALSE]
    IN  IF s.running THEN [Stop(s) EXCEPT !.shouldStart = TRUE] ELSE s

\* Mutant: the subscription is kept, as a loop that is not "one shot" would.
update_EndEvent_KeepsSubscription(m) ==
    LET s == [m EXCEPT !.canStart = TRUE, !.shouldStart = FALSE]
    IN  IF m.shouldStart THEN Start(s) ELSE s

update_EndEvent(m) ==
    LET s == [m EXCEPT !.canStart = TRUE, !.shouldStart = FALSE]
    IN  [(IF m.shouldStart THEN Start(s) ELSE s) EXCEPT !.subscribed = FALSE]

\* Post: the listener runs if the feed is started and somebody listens.
Delivered == online /\ miner.subscribed

----------------------------------------------------------------------------
MinerInit ==
    /\ online = TRUE
    /\ synchronising = FALSE
    /\ syncer = "none"
    /\ blockRunner = FALSE
    /\ miner = [canStart |-> TRUE, shouldStart |-> TRUE, subscribed |-> TRUE,
                running |-> FALSE, looping |-> TRUE, newTxs |-> FALSE,
                request |-> FALSE, sealing |-> FALSE]
    /\ asked = FALSE
    /\ ended = FALSE
    /\ stops = 0

\* startMinting calls it once for every node, online or not.
StartMining ==
    /\ ~asked
    /\ asked' = TRUE
    /\ miner' = IF miner.running THEN miner ELSE Start(miner)
    /\ UNCHANGED <<online, synchronising, syncer, blockRunner, ended, stops>>

----------------------------------------------------------------------------
\* Synchronisation.

\* A block message shows that its sender has a heavier chain: a runner of its own
\* is to synchronise with it.
HandleNewBlockMsg ==
    /\ online
    /\ blockRunner' = TRUE
    /\ UNCHANGED <<online, synchronising, syncer, miner, asked, ended, stops>>

\* A caller that finds the flag set returns errBusy and changes nothing.
synchronise(runner) ==
    /\ IF synchronising
       THEN UNCHANGED <<synchronising, syncer, miner>>
       ELSE /\ synchronising' = TRUE
            /\ syncer' = runner
            /\ miner' = IF Delivered THEN update_StartEvent(miner) ELSE miner
    /\ UNCHANGED <<online, asked, ended, stops>>

\* txSyncManager.Run, every forceSyncCycle.
ForceSync ==
    /\ online
    /\ syncer # "cycle"
    /\ synchronise("cycle")
    /\ UNCHANGED blockRunner

BlockSync ==
    /\ blockRunner
    /\ blockRunner' = FALSE
    /\ synchronise("message")

\* A handshake ended and there are enough peers; its message's runner syncs.
synchroniseNewPeer ==
    /\ online
    /\ synchronise("message")
    /\ UNCHANGED blockRunner

\* Mutant: the flag is cleared only on the paths that the cycle takes.
SyncEnds_OnlyCycleResets ==
    /\ syncer # "none"
    /\ syncer' = "none"
    /\ synchronising' = (syncer # "cycle")
    /\ \E m \in {miner, commitWork(miner)} :
        miner' = IF Delivered THEN update_EndEvent(m) ELSE m
    /\ ended' = (ended \/ Delivered)
    /\ UNCHANGED <<online, blockRunner, asked, stops>>

\* The deferred calls of syncWithPeer and synchronise, after success or failure;
\* the chain may have a new head by then.
SyncEnds ==
    /\ syncer # "none"
    /\ syncer' = "none"
    /\ synchronising' = FALSE
    /\ \E m \in {miner, commitWork(miner)} :
        miner' = IF Delivered THEN update_EndEvent(m) ELSE m
    /\ ended' = (ended \/ Delivered)
    /\ UNCHANGED <<online, blockRunner, asked, stops>>

----------------------------------------------------------------------------
\* The work of the worker.

Work(m) ==
    /\ miner' = m
    /\ UNCHANGED <<online, synchronising, syncer, blockRunner, asked, ended, stops>>

handleTxEvent == online /\ Work([miner EXCEPT !.newTxs = TRUE])

\* A block of another node became the head.
handleChainHeadEvent == online /\ Work(commitWork(miner))

\* Tasks are posted only while running.  A new one replaces the one that is
\* sealing unless it is a duplicate of it, and Seal may refuse it.
PostTask(m) == IF m.running THEN {[m EXCEPT !.sealing = s] : s \in BOOLEAN} ELSE {m}

\* A block of another node is off the canonical chain: a possible uncle.
handleChainSideEvent == online /\ \E m \in PostTask(miner) : Work(m)

\* One turn of the recommit loop.
Run ==
    /\ miner.looping /\ miner.running /\ miner.newTxs
    /\ Work(commitWork(miner))

worker_commitNewWork ==
    /\ miner.request
    /\ \E m \in PostTask(miner) : Work([m EXCEPT !.request = FALSE])

\* handleResult: the block becomes the head, or a side block.
handleResult ==
    /\ miner.sealing
    /\ LET sealed == [miner EXCEPT !.sealing = FALSE]
       IN  \E m \in {commitWork(sealed)} \cup PostTask(sealed) : Work(m)

----------------------------------------------------------------------------
(***************************************************************************)
(* Ethereum.Stop interrupts the runner of the force cycle, wherever it is, *)
(* and nothing resumes it: Start makes a new one.  A synchronisation that  *)
(* a message started goes on.                                              *)
(***************************************************************************)
EthStop ==
    /\ online /\ stops < MaxStops
    /\ online' = FALSE
    /\ stops' = stops + 1
    /\ syncer' = IF syncer = "cycle" THEN "none" ELSE syncer
    /\ miner' = close(miner)
    /\ UNCHANGED <<synchronising, blockRunner, asked, ended>>

EthStart ==
    /\ ~online
    /\ online' = TRUE
    /\ UNCHANGED <<synchronising, syncer, blockRunner, miner, asked, ended, stops>>

MinerNext ==
    \/ StartMining
    \/ HandleNewBlockMsg \/ ForceSync \/ BlockSync \/ synchroniseNewPeer \/ SyncEnds
    \/ handleTxEvent \/ handleChainHeadEvent \/ handleChainSideEvent
    \/ Run \/ worker_commitNewWork \/ handleResult
    \/ EthStop \/ EthStart

MinerSpec == MinerInit /\ [][MinerNext]_minerVars

\* A synchronisation is a runner in Advance, and Advance ends.
FairSpec == MinerSpec /\ WF_minerVars(SyncEnds)

----------------------------------------------------------------------------
\* The flags of the miner, the downloader and the service are Booleans, a
\* synchronisation runs for the force cycle or for a message, and the service
\* (which only stops when it is started) stops at most MaxStops times.
MinerTypeOK ==
    /\ online \in BOOLEAN
    /\ synchronising \in BOOLEAN
    /\ syncer \in {"none", "cycle", "message"}
    /\ blockRunner \in BOOLEAN
    /\ miner \in MinerState
    /\ asked \in BOOLEAN
    /\ ended \in BOOLEAN
    /\ stops \in 0 .. MaxStops

\* Downloader.synchronise: "only one goroutine is ever allowed past this point at
\* once".  A runner inside syncWithPeer holds the flag, through stops and starts
\* of the service too: a synchronisation that survives a stop keeps others out.
OneSyncer == syncer # "none" => synchronising

\* A request to mine is never lost: the miner runs, or it still listens for the
\* end of a synchronisation and will start then.  Miner.Stop clears shouldStart,
\* so the handler of StartEvent has to set it afterwards.
MiningRequestKept ==
    asked => \/ miner.running
             \/ miner.shouldStart /\ ~miner.canStart /\ miner.subscribed

\* Miner.update is "one shot": once an end of a synchronisation reached the
\* miner, no later synchronisation takes a running miner off its work.
DownloadsHaltMinerOnce ==
    [][ended /\ miner.running => miner'.running]_minerVars

\* The downloader is busy only while some runner is inside syncWithPeer, on
\* every path out of a synchronisation and whoever started it; otherwise every
\* later call would return errBusy, although sync.go has a "Time interval to
\* force syncs".  A stop of the service interrupts the runner and leaves the
\* flag, so this is so until the first stop only.
SteadySyncHasRunner == stops = 0 /\ online /\ synchronising => syncer # "none"

\* "Network syncing, will start miner afterwards": a miner that waits for the
\* end of a synchronisation waits for one that is under way.
SteadyStartsAfterSync == stops = 0 /\ asked /\ ~miner.running => syncer # "none"

\* Once asked to, the miner of a service that is not stopped ends up mining for
\* good, however often blocks and peers start a synchronisation.
MinesForGood == [](stops = 0) => (asked ~> []miner.running)

\* The flags of the miner and of the downloader stay in step through stops and
\* starts of the service: one runner at most is inside a synchronisation, and a
\* request to mine is served or waits for an event that the miner still receives.
MinerSafe == MinerTypeOK /\ OneSyncer /\ MiningRequestKept

\* Until the service is stopped for the first time a busy downloader and a
\* waiting miner both have a synchronisation under way that ends their wait.
SteadySync == SteadySyncHasRunner /\ SteadyStartsAfterSync

=============================================================================
