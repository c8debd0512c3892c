---------------------------- MODULE Downloader ----------------------------
(***************************************************************************)
(* One node (local) that synchronises with a peer (remote):                *)
(* downloader/downloader.go, pm.synchronise of sync.go, and what the       *)
(* remote answers (getBlockHeaders and getBlockBodies of                   *)
(* protocol_manager.go).  Both chains follow ChainRules.                   *)
(*                                                                         *)
(* A call of the downloader is a sequence of stages with simulated time    *)
(* between them, in which both nodes import blocks and the connection may  *)
(* break.  The states of all blocks are kept, so that imports never meet   *)
(* pruned blocks here.                                                     *)
(***************************************************************************)
EXTENDS ChainRules

CONSTANTS
  MaxHeaderFetch,   \* 192
  MaxBlockFetch,    \* 128
  MaxCount,         \* MaxHeaderFetch / 16 headers to find the ancestor with
  LocalBlocks,      \* the blocks that reach the local node by other ways
  RemoteBlocks      \* the blocks that reach the remote node

VARIABLES
  local, remote,    \* the chains
  adv,              \* the peer's head as the local node was told
  up,               \* the connection is there
  d,                \* the call of the downloader
  panicked,         \* the local node died of a nil pointer or a bad index
  quiet             \* the call began with the peer's head and a clean index of
                    \* the peer, and nothing else moved since

vars == <<local, remote, adv, up, d, panicked, quiet>>

Outcome == {"none", "ok", "retry", "drop"}

Idle == [stage |-> "idle", outcome |-> "none", target |-> Genesis,
         height |-> 0, localHeight |-> 0, origin |-> 0, i |-> 0,
         headers |-> << >>, hashes |-> << >>]

Init == /\ local = NewChain /\ remote = NewChain
        /\ adv = Genesis /\ up = TRUE /\ d = Idle
        /\ panicked = FALSE /\ quiet = TRUE

--------------------------------------------------------------------------
(* What the remote answers. *)

\* getBlockHeaders by number: the canonical headers from a number on, every
\* skip + 1st, until one is missing.
getBlockHeaders(c, from, amount, skip) ==
  LET at(k) == CanonicalAt(c, from + (k - 1) * (skip + 1))
      n == Max({k \in 0..amount : \A j \in 1..k : at(j) # NoBlock})
  IN [k \in 1..n |-> at(k)]

\* Mutant: the limit on the bodies is one too low.
getBlockBodies_Fewer(c, hashes) ==
  {b \in Blocks : \E k \in DOMAIN hashes :
     /\ hashes[k] = b /\ HasBlock(c, b)
     /\ Cardinality({j \in 1..(k - 1) : HasBlock(c, hashes[j])}) < MaxBlockFetch - 1}

\* getBlockBodies: of the blocks asked for, those there are, at most
\* MaxBlockFetch.
getBlockBodies(c, hashes) ==
  {b \in Blocks : \E k \in DOMAIN hashes :
     /\ hashes[k] = b /\ HasBlock(c, b)
     /\ Cardinality({j \in 1..(k - 1) : HasBlock(c, hashes[j])}) < MaxBlockFetch}

\* GetBlock of the peer: none when the connection is gone.
GetBlock(number) ==
  IF up /\ HasBlock(remote, CanonicalAt(remote, number))
  THEN CanonicalAt(remote, number) ELSE NoBlock

--------------------------------------------------------------------------
(* The world around the downloader. *)

how(coin) == [now |-> 0, stopped |-> FALSE, archive |-> TRUE, cap |-> 0,
              coin |-> coin]

\* Somebody else moves while a call is under way.
Disturb == quiet' = (quiet /\ d.stage \in {"idle", "done"})

\* A block comes to the local node from another peer or is sealed there.
LocalImport(b) ==
  /\ ~panicked /\ b \in LocalBlocks /\ ~HasBlock(local, b)
  /\ \E r \in {InsertChain(local, how(coin), <<b>>) : coin \in BOOLEAN} :
       /\ r.c # local
       /\ local' = r.c
  /\ Disturb /\ UNCHANGED <<remote, adv, up, d, panicked>>

RemoteImport(b) ==
  /\ ~panicked /\ b \in RemoteBlocks /\ ~HasBlock(remote, b)
  /\ \E r \in {InsertChain(remote, how(coin), <<b>>) : coin \in BOOLEAN} :
       /\ r.c # remote
       /\ remote' = r.c
  /\ Disturb /\ UNCHANGED <<local, adv, up, d, panicked>>

\* The remote tells of its head (status, new block).
Announce ==
  /\ ~panicked /\ up /\ Weight[remote.head] > Weight[adv]
  /\ adv' = remote.head
  /\ Disturb /\ UNCHANGED <<local, remote, up, d, panicked>>

Disconnect ==
  /\ ~panicked /\ up
  /\ up' = FALSE
  /\ Disturb /\ UNCHANGED <<local, remote, adv, d, panicked>>

--------------------------------------------------------------------------
(* The stages of a call. *)

At(stage) == ~panicked /\ d.stage = stage

End(outcome) == d' = [d EXCEPT !.stage = "done", !.outcome = outcome,
                               !.headers = << >>]

Panic == panicked' = TRUE /\ UNCHANGED <<local, d, up>>

\* A chain's canonical index ends at its head.  It does not after a
\* reorganisation to a chain of fewer blocks: reorg leaves the entries above.
EndsAtHead(c) == \A n \in (Number[c.head] + 1)..MaxNumber : c.canon[n] = NoBlock

\* pm.synchronise with a peer that claims more weight, and the downloader's
\* flag that lets one call in at a time.
Synchronise ==
  /\ ~panicked /\ up /\ d.stage \in {"idle", "done"}
  /\ Weight[adv] > local.td[local.head]
  /\ d' = [Idle EXCEPT !.stage = "height"]
  /\ quiet' = (adv = remote.head /\ EndsAtHead(remote))
  /\ UNCHANGED <<local, remote, adv, up, panicked>>

\* fetchHeight: the header of the peer's head.
FetchHeight ==
  /\ At("height")
  /\ IF ~up THEN End("retry")
     ELSE d' = [d EXCEPT !.stage = "span", !.target = adv,
                         !.height = Number[adv],
                         !.localHeight = Number[local.head]]
  /\ UNCHANGED <<local, remote, adv, up, panicked, quiet>>

\* calculateRequestSpan: where the search for the common ancestor asks.
calculateRequestSpan(remoteHeight, localHeight) ==
  LET above0(n) == IF n < 0 THEN 0 ELSE n
      within(n, lo, hi) == IF n > hi THEN hi ELSE IF n < lo THEN lo ELSE n
      requestHead == above0(remoteHeight - 1)
      totalSpan == requestHead - above0(localHeight - 1)
      span == within(1 + (totalSpan \div MaxCount), 2, 16)
      count == IF 1 + (totalSpan \div span) > MaxCount THEN within(MaxCount, 2, MaxCount)
               ELSE within(1 + (totalSpan \div span), 2, MaxCount)
  IN [from |-> above0(requestHead - (count - 1) * span), count |-> count,
      skip |-> span - 1]

\* findAncestor, the request.
FindAncestor ==
  /\ At("span")
  /\ LET q == calculateRequestSpan(d.height, d.localHeight)
     IN IF ~up THEN End("retry")
        ELSE d' = [d EXCEPT !.stage = "match",
                     !.headers = getBlockHeaders(remote, q.from, q.count, q.skip)]
  /\ UNCHANGED <<local, remote, adv, up, panicked, quiet>>

\* Mutant: a header that is stored counts as a common ancestor.
commonNumber_Header(headers) ==
  LET known == {Number[headers[k]] : k \in {j \in DOMAIN headers :
                                              HasHeader(local, headers[j])}}
  IN IF known = {} THEN 0 ELSE Max(known)

\* The highest of the headers whose block the local node has; 0 if none.
commonNumber(headers) ==
  LET known == {Number[headers[k]] : k \in {j \in DOMAIN headers :
                                              HasBlock(local, headers[j])}}
  IN IF known = {} THEN 0 ELSE Max(known)

\* findAncestor, the answer, and the lines that report the difference, which
\* read the remote's block at the local height: there may be none.  The difference
\* is unsigned, so that they run for an ancestor above the height too.  The second
\* call of findAncestor there changes nothing.
MatchAncestor ==
  /\ At("match")
  /\ LET origin == commonNumber(d.headers)
         found == GetBlock(d.localHeight) # NoBlock
     IN \/ /\ d.headers = << >>
           /\ End("drop") /\ up' = FALSE
           /\ UNCHANGED <<local, panicked>>
        \/ /\ d.headers # << >> /\ d.height # origin /\ ~found
           /\ Panic
        \/ /\ d.headers # << >> /\ (d.height = origin \/ found)
           /\ d' = [d EXCEPT !.origin = origin, !.i = origin + 1,
                             !.headers = << >>,
                             !.stage = IF origin < d.height THEN "headers"
                                       ELSE "bodies"]
           /\ UNCHANGED <<local, up, panicked>>
  /\ UNCHANGED <<remote, adv, quiet>>

\* The loop over the headers, the request.
FetchHeaders ==
  /\ At("headers")
  /\ IF ~up THEN End("retry")
     ELSE d' = [d EXCEPT !.stage = "insert",
                  !.headers = getBlockHeaders(remote, d.i, MaxHeaderFetch, 0)]
  /\ UNCHANGED <<local, remote, adv, up, panicked, quiet>>

\* The loop over the headers, the answer: the headers are inserted, an error
\* is ignored, and the loop goes on behind them, one block further than they
\* reach.  The check of an empty list of headers has a bad index.
InsertHeaders ==
  /\ At("insert")
  /\ LET next == d.i + Len(d.headers) + 1
     IN IF d.headers = << >> THEN Panic
        ELSE /\ local' \in {InsertHeaderChain(local, d.headers, 0, coin) :
                              coin \in BOOLEAN}
             /\ d' = [d EXCEPT !.hashes = @ \o d.headers, !.headers = << >>,
                               !.i = next,
                               !.stage = IF next <= d.height THEN "headers"
                                         ELSE "bodies"]
             /\ UNCHANGED <<up, panicked>>
  /\ UNCHANGED <<remote, adv, quiet>>

\* The bodies of all the headers, in one request; one that is missing ends the
\* call.
FetchBodies ==
  /\ At("bodies")
  /\ IF ~up THEN End("retry")
     ELSE IF getBlockBodies(remote, d.hashes) # ToSet(d.hashes) THEN End("retry")
     ELSE d' = [d EXCEPT !.stage = "import"]
  /\ UNCHANGED <<local, remote, adv, up, panicked, quiet>>

\* InsertChain; an error drops the peer.
ImportBlocks ==
  /\ At("import")
  /\ \E r \in IF d.hashes = << >> THEN {Result(local, "end")}
              ELSE IF ~Contiguous(d.hashes) THEN {Result(local, "gap")}
              ELSE {InsertChain(local, how(coin), d.hashes) : coin \in BOOLEAN} :
       /\ local' = r.c
       /\ panicked' = r.panic
       /\ End(IF r.err = "end" THEN "ok" ELSE "drop")
       /\ up' = (up /\ r.err = "end")
  /\ UNCHANGED <<remote, adv, quiet>>

SyncStep == \/ Synchronise
            \/ FetchHeight
            \/ FindAncestor
            \/ MatchAncestor
            \/ FetchHeaders
            \/ InsertHeaders
            \/ FetchBodies
            \/ ImportBlocks

Next == \/ SyncStep
        \/ \E b \in Blocks : LocalImport(b)
        \/ \E b \in Blocks : RemoteImport(b)
        \/ Announce
        \/ Disconnect

\* ENABLED <<SyncStep>>_vars spelled out: a call under way always goes on, and
\* the next one begins whenever the peer claims more weight.
SyncPossible ==
  /\ ~panicked
  /\ \/ d.stage \notin {"idle", "done"}
     \/ up /\ Weight[adv] > local.td[local.head]

\* WF_vars(SyncStep): simulated time goes on, and the syncer calls again every
\* ten seconds.
SyncFairness == []<>(~SyncPossible) \/ []<><<SyncStep>>_vars

Spec == Init /\ [][Next]_vars /\ SyncFairness

--------------------------------------------------------------------------
(* Properties. *)

\* The chains are over the blocks of the tree, and a call only ever holds
\* headers and numbers of blocks that exist.
TypeOK ==
  /\ \A c \in {local, remote} :
       /\ c.bodies \subseteq Blocks /\ DOMAIN c.td \subseteq Blocks
       /\ {c.head, c.header, c.fast} \subseteq Blocks
       /\ c.canon \in [0..MaxNumber -> Blocks \cup {NoBlock}]
  /\ adv \in Blocks /\ up \in BOOLEAN /\ panicked \in BOOLEAN /\ quiet \in BOOLEAN
  /\ d.stage \in {"idle", "height", "span", "match", "headers", "insert",
                  "bodies", "import", "done"}
  /\ d.outcome \in Outcome
  /\ d.target \in Blocks /\ {d.height, d.localHeight, d.origin} \subseteq 0..MaxNumber
  /\ d.headers \in Seq(Blocks) /\ d.hashes \in Seq(Blocks)

\* Whatever the peer answers and wherever a call ends, the headers and the
\* blocks the local node stores lead back to the genesis and carry the total
\* difficulty of the branch they are on.
StoreLinked ==
  \A b \in DOMAIN local.td :
    /\ local.td[b] = Weight[b]
    /\ b # Genesis => /\ HasHeader(local, Parent[b])
                      /\ HasBlock(local, b) => HasBlock(local, Parent[b])

\* A batch is the whole chain from the ancestor on.
InOneBatch == d.height - d.origin <= Min({MaxHeaderFetch, MaxBlockFetch})

\* A call that nobody disturbs and that fits in one batch of headers and one
\* of bodies ends well, on a chain as heavy as the peer's: the search finds an
\* ancestor the rest of the peer's chain can be imported on, whichever branch
\* the local node is on.
QuietCallCatchesUp ==
  d.stage = "done" /\ quiet /\ InOneBatch =>
    d.outcome = "ok" /\ Weight[local.head] >= Weight[d.target]

\* A call that nobody disturbs kills the node only when the peer's heavier
\* chain is the shorter one, so that it has no block at the local height: the
\* loop over the headers asks for none the peer does not have.
PanicNeedsShorterPeer ==
  panicked /\ quiet => Number[remote.head] < d.localHeight

\* The local node catches up with a peer that stays and that claims more
\* weight, unless the calls are disturbed or too long for a batch again and
\* again: it is never left on the lighter chain for good.
EventuallySynced ==
  []<>(\/ Weight[local.head] >= Weight[adv]
       \/ ~up \/ panicked \/ ~quiet \/ ~InOneBatch)

\* The local chain is linked and weighed down to the genesis wherever a call is
\* and whatever ended the one before.
StoreSound == TypeOK /\ StoreLinked

\* A call that nobody disturbs ends well: on the peer's chain when that fits in
\* a batch, and with a panic only when the peer's chain is the shorter one.
QuietCallsEndWell == QuietCallCatchesUp /\ PanicNeedsShorterPeer

=============================================================================
