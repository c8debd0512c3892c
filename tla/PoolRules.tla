----------------------------- MODULE PoolRules -----------------------------
(***************************************************************************)
(* The transaction pool of a node and how its operations change it:        *)
(* core/tx_pool.go with the lists of core/tx_list.go and the virtual       *)
(* nonces of core/state/managed_state.go.                                  *)
(*                                                                         *)
(* The pool is a record:                                                   *)
(*   pending, queue  the transactions of each account that can and that    *)
(*                   cannot be executed yet; a list is a set with at most  *)
(*                   one transaction for each nonce                        *)
(*   all             the lookup of all pooled transactions                 *)
(*   items, stales   the heap by price, as a bag, and the count of entries *)
(*                   whose transaction has left the pool                   *)
(*   nonce           the next nonce of each account in pendingState        *)
(*   beats           the heartbeat of each account; 0 when it is deleted   *)
(*   gasPrice        the lowest price for transactions of remote accounts  *)
(*   head            the block of the current state                        *)
(*   told            the transactions fed to the subscribers               *)
(* Gas limits and sizes are left out: what makes a transaction too dear is *)
(* its cost.  The caps a list keeps to skip a filter without effect are    *)
(* left out too.  Go's maps have no order: accounts are taken in a fixed   *)
(* one here, and a tie between two of them goes to the one CHOOSE takes.   *)
(***************************************************************************)
EXTENDS Integers, FiniteSets, Sequences, FiniteSetsExt, SequencesExt

CONSTANTS
  Txs, Accounts,
  From, Nonce, Price, Cost,       \* of each transaction
  Blocks, Genesis, NoBlock, Parent, Number,
  Content,                        \* the transactions of a block, in order
  StateNonce, Balance,            \* of each account after each block
  Locals,                         \* the accounts the configuration names
  PriceLimit, PriceBump, AccountSlots, GlobalSlots, AccountQueue, GlobalQueue,
  Lifetime,
  MaxReorg                        \* 64

ASSUME PoolAssumption ==
  /\ From \in [Txs -> Accounts] /\ Nonce \in [Txs -> Nat]
  /\ Price \in [Txs -> Nat \ {0}] /\ Cost \in [Txs -> Nat]
  /\ Genesis \in Blocks /\ NoBlock \notin Blocks
  /\ Parent \in [Blocks -> Blocks \cup {NoBlock}] /\ Number \in [Blocks -> Nat]
  /\ Content \in [Blocks -> Seq(Txs)]
  /\ StateNonce \in [Blocks -> [Accounts -> Nat]]
  /\ Balance \in [Blocks -> [Accounts -> Nat]]
  /\ Locals \subseteq Accounts
  /\ {PriceLimit, PriceBump, AccountSlots, GlobalSlots, AccountQueue, GlobalQueue}
       \subseteq Nat \ {0}
  /\ Lifetime \in Nat /\ MaxReorg \in Nat
  \* The heap's order is total.
  /\ \A t, u \in Txs : Price[t] = Price[u] /\ Nonce[t] = Nonce[u] /\ t # u
                         => From[t] = From[u]

--------------------------------------------------------------------------
(* The lists: tx_list.go. *)

Fold(op(_, _), base, seq) ==
  LET f[i \in 0..Len(seq)] == IF i = 0 THEN base ELSE op(f[i - 1], seq[i])
  IN f[Len(seq)]

Lowest(list) == Min({Nonce[t] : t \in list})
Highest(list) == Max({Nonce[t] : t \in list})
Above(list, n) == {t \in list : Nonce[t] > n}
At(list, n) == {t \in list : Nonce[t] = n}

\* Forward: what is older than the nonce.
Forward(list, n) == {t \in list : Nonce[t] < n}

\* Filter: what costs more than the balance.
Filter(list, balance) == {t \in list : Cost[t] > balance}

\* Cap: the highest nonces beyond a number of transactions.
Cap(list, threshold) ==
  {t \in list : Cardinality({u \in list : Nonce[u] <= Nonce[t]}) > threshold}

\* Ready: the run of nonces from the lowest on, when that is not above start.
Ready(list, start) ==
  {t \in list : /\ Lowest(list) <= start
                /\ \A n \in Lowest(list)..Nonce[t] : At(list, n) # {}}

\* Add, the condition: a transaction with the same nonce is replaced only for
\* a price that is higher by PriceBump percent.
Accepts(list, t) ==
  \A old \in At(list, Nonce[t]) :
    /\ Price[t] > Price[old]
    /\ Price[t] >= (Price[old] * (100 + PriceBump)) \div 100

\* Add, the list.
Put(list, t) == (list \ At(list, Nonce[t])) \cup {t}

\* The transactions of a list by rising nonce.
Flatten(list) ==
  [i \in 1..Cardinality(list) |->
     CHOOSE t \in list : Cardinality({u \in list : Nonce[u] <= Nonce[t]}) = i]

--------------------------------------------------------------------------
(* The heap by price. *)

HeapSize(p) == MapThenSumSet(LAMBDA t : p.items[t], Txs)

\* Less: the cheaper one, of the same price the one with the higher nonce.
Worse(t, u) == \/ Price[t] < Price[u]
               \/ Price[t] = Price[u] /\ Nonce[t] > Nonce[u]
Worst(p) == LET in == {t \in Txs : p.items[t] > 0}
            IN CHOOSE t \in in : \A u \in in : ~Worse(u, t)

\* Removed: one more entry is stale; with more than a quarter of them the heap
\* is built anew.
Removed(p) ==
  IF p.stales + 1 <= HeapSize(p) \div 4 THEN [p EXCEPT !.stales = @ + 1]
  ELSE [p EXCEPT !.stales = 0,
                 !.items = [t \in Txs |-> IF t \in p.all THEN 1 ELSE 0]]

\* An entry is popped; when it was stale there is one less of those.
PopHeap(p, t) ==
  [p EXCEPT !.items[t] = @ - 1, !.stales = IF t \in p.all THEN @ ELSE @ - 1]

\* Discard and Cap, the end: what was saved goes back.
PutBack(r) ==
  [p |-> Fold(LAMBDA q, t : [q EXCEPT !.items[t] = @ + 1], r.p, r.save),
   drop |-> r.drop]

\* Discard and Cap: entries are popped until count transactions are dropped or
\* the worst one is not in cheap; those of local accounts are put back.
PopWhile(p, count, cheap) ==
  LET next(acc, i) ==
        LET t == Worst(acc.p)
        IN IF acc.stop \/ HeapSize(acc.p) = 0 \/ Len(acc.drop) >= count THEN acc
           ELSE IF t \notin acc.p.all THEN [acc EXCEPT !.p = PopHeap(acc.p, t)]
           ELSE IF t \notin cheap THEN [acc EXCEPT !.stop = TRUE]
           ELSE IF From[t] \in Locals
           THEN [acc EXCEPT !.p = PopHeap(acc.p, t), !.save = Append(@, t)]
           ELSE [acc EXCEPT !.p = PopHeap(acc.p, t), !.drop = Append(@, t)]
  IN PutBack(Fold(next, [p |-> p, stop |-> FALSE, save |-> << >>, drop |-> << >>],
                  [i \in 1..HeapSize(p) |-> i]))

\* Underpriced: stale entries on top go, and the cheapest one left decides.
CompareTop(p, t) == [p |-> p, is |-> HeapSize(p) > 0 /\ Price[Worst(p)] >= Price[t]]

Underpriced(p, t) ==
  IF From[t] \in Locals THEN [p |-> p, is |-> FALSE]
  ELSE CompareTop(PopWhile(p, 1, {}).p, t)

--------------------------------------------------------------------------
(* Putting transactions in and taking them out. *)

\* A transaction enters the lookup and the heap.
Track(p, t) ==
  IF t \in p.all THEN p
  ELSE [p EXCEPT !.all = @ \cup {t}, !.items[t] = @ + 1]

\* A transaction leaves the lookup, and the heap is told.
Untrack(p, t) == Removed([p EXCEPT !.all = @ \ {t}])
UntrackAll(p, set) == FoldSet(LAMBDA t, q : Untrack(q, t), p, set)

\* Mutant: the transaction that is replaced stays in the lookup.
enqueueTx_KeepOld(p, t) ==
  IF ~Accepts(p.queue[From[t]], t) THEN p
  ELSE Track([p EXCEPT !.queue[From[t]] = Put(@, t)], t)

\* enqueueTx; a transaction that does not replace the one there changes nothing.
enqueueTx(p, t) ==
  LET list == p.queue[From[t]]
  IN IF ~Accepts(list, t) THEN p
     ELSE Track(UntrackAll([p EXCEPT !.queue[From[t]] = Put(@, t)],
                           At(list, Nonce[t])), t)

enqueueAll(p, set) == FoldSet(LAMBDA t, q : enqueueTx(q, t), p, set)

\* Mutant: the account's next nonce is left as it was.
removeTx_KeepNonce(p, t, outofbound) ==
  LET a == From[t]
      gone == [p EXCEPT !.all = @ \ {t}]
      p1 == IF outofbound THEN Removed(gone) ELSE gone
      hit == At(p.pending[a], Nonce[t])
      left == p.pending[a] \ (hit \cup Above(p.pending[a], Nonce[t]))
  IN IF t \notin p.all THEN p
     ELSE IF hit # {}
     THEN enqueueAll([p1 EXCEPT !.pending[a] = left,
                        !.beats[a] = IF left = {} THEN 0 ELSE @],
                     Above(p.pending[a], Nonce[t]))
     ELSE [p1 EXCEPT !.queue[a] = @ \ At(@, Nonce[t])]

\* removeTx: the lists are searched by nonce, the pending one first.  What
\* follows in the pending list goes back to the queue, and the account's next
\* nonce is lowered.
removeTx(p, t, outofbound) ==
  LET a == From[t]
      n == Nonce[t]
      gone == [p EXCEPT !.all = @ \ {t}]
      p1 == IF outofbound THEN Removed(gone) ELSE gone
      hit == At(p.pending[a], n)
      left == p.pending[a] \ (hit \cup Above(p.pending[a], n))
  IN IF t \notin p.all THEN p
     ELSE IF hit # {}
     THEN enqueueAll([p1 EXCEPT !.pending[a] = left,
                        !.beats[a] = IF left = {} THEN 0 ELSE @,
                        !.nonce[a] = IF @ > n THEN n ELSE @],
                     Above(p.pending[a], n))
     ELSE [p1 EXCEPT !.queue[a] = @ \ At(@, n)]

\* promoteTx; promoteExecutables feeds what was promoted to the subscribers.
promoteTx(p, t, now) ==
  LET a == From[t]
      list == p.pending[a]
  IN IF ~Accepts(list, t) THEN Untrack(p, t)
     ELSE Track(UntrackAll([p EXCEPT !.pending[a] = Put(@, t), !.beats[a] = now,
                              !.nonce[a] = Nonce[t] + 1, !.told = @ \cup {t}],
                           At(list, Nonce[t])), t)

validateTx(p, t) ==
  /\ From[t] \in Locals \/ Price[t] >= p.gasPrice
  /\ Nonce[t] >= StateNonce[p.head][From[t]]
  /\ Cost[t] <= Balance[p.head][From[t]]

\* The transactions that the heap dropped leave the pool.
RemoveDropped(r) == Fold(LAMBDA q, u : removeTx(q, u, FALSE), r.p, r.drop)

\* The worst transactions go until there is room for one.
MakeRoom(p) ==
  RemoveDropped(PopWhile(p, Cardinality(p.all) - (GlobalSlots + GlobalQueue - 1), Txs))

\* add, when there is room: the transaction replaces a pending one, or is queued.
Place(p, t) ==
  LET list == p.pending[From[t]]
      old == At(list, Nonce[t])
  IN IF old = {} THEN enqueueTx(p, t)
     ELSE IF ~Accepts(list, t) THEN p
     ELSE Track(UntrackAll([p EXCEPT !.pending[From[t]] = Put(@, t),
                                     !.told = @ \cup {t}], old), t)

\* Whether t was queued and replaced none.
Enqueued(before, after, t) ==
  /\ At(before.pending[From[t]], Nonce[t]) = {}
  /\ t \in after.all /\ At(before.queue[From[t]], Nonce[t]) = {}

Placed(room, t) ==
  LET after == Place(room, t) IN [p |-> after, dirty |-> Enqueued(room, after, t)]

\* add to a full pool.
AddOver(under, t) ==
  IF under.is THEN [p |-> under.p, dirty |-> FALSE]
  ELSE Placed(MakeRoom(under.p), t)

\* add.  The result is the pool and whether the account needs a promotion: the
\* transaction was accepted and replaced none.
add(p, t) ==
  IF t \in p.all \/ ~validateTx(p, t) THEN [p |-> p, dirty |-> FALSE]
  ELSE IF Cardinality(p.all) >= GlobalSlots + GlobalQueue
  THEN AddOver(Underpriced(p, t), t)
  ELSE Placed(p, t)

--------------------------------------------------------------------------
(* Promotion, demotion and the limits. *)

\* Transactions are dropped from the queue of an account.
Unqueue(p, a, set) == UntrackAll([p EXCEPT !.queue[a] = @ \ set], set)

\* The run of an account that is ready is promoted.
PromoteReady(p, a, now) ==
  LET ready == Ready(p.queue[a], p.nonce[a])
  IN Fold(LAMBDA q, t : promoteTx(q, t, now),
          [p EXCEPT !.queue[a] = @ \ ready], Flatten(ready))

CutQueue(p, a) ==
  IF a \in Locals THEN p ELSE Unqueue(p, a, Cap(p.queue[a], AccountQueue))

\* One account of promoteExecutables: what is old or too dear goes, what is
\* ready is promoted, and the rest is cut to the account's limit.
promoteAccount(p, a, now) ==
  LET old == Forward(p.queue[a], StateNonce[p.head][a])
      dear == Filter(p.queue[a] \ old, Balance[p.head][a])
  IN CutQueue(PromoteReady(Unqueue(p, a, old \cup dear), a, now), a)

PendingCount(p) == MapThenSumSet(LAMBDA a : Cardinality(p.pending[a]), Accounts)
QueuedCount(p) == MapThenSumSet(LAMBDA a : Cardinality(p.queue[a]), Accounts)

\* The last pending transaction of an account goes.
Shed(p, a) ==
  LET t == CHOOSE t \in p.pending[a] : Nonce[t] = Highest(p.pending[a])
  IN Untrack([p EXCEPT !.pending[a] = @ \ {t},
                !.nonce[a] = IF @ > Nonce[t] THEN Nonce[t] ELSE @], t)

ShedAll(p, accounts) == Fold(Shed, p, accounts)

\* Above GlobalSlots: the accounts with most pending transactions become
\* offenders one by one, each time the earlier ones are reduced to the length
\* of the new one; at last all are reduced towards AccountSlots.
Equalize(p) ==
  LET tooMany(q) == PendingCount(q) > GlobalSlots
      len(q, a) == Cardinality(q.pending[a])
      spammers == {a \in Accounts \ Locals : len(p, a) > AccountSlots}
      rounds == [i \in 1..PendingCount(p) |-> i]
      reduce(q, who, last, floor) ==
        Fold(LAMBDA r, i : IF tooMany(r) /\ len(r, last) > floor
                           THEN ShedAll(r, who) ELSE r, q, rounds)
      next(acc, i) ==
        LET left == spammers \ ToSet(acc.off)
            worst == CHOOSE a \in left : \A b \in left : len(p, b) <= len(p, a)
        IN IF ~tooMany(acc.p) \/ left = {} THEN acc
           ELSE [off |-> Append(acc.off, worst),
                 p |-> IF acc.off = << >> THEN acc.p
                       ELSE reduce(acc.p, acc.off, Last(acc.off), len(acc.p, worst))]
      r == Fold(next, [p |-> p, off |-> << >>],
                [i \in 1..Cardinality(spammers) |-> i])
  IN IF ~tooMany(p) \/ r.off = << >> THEN p
     ELSE reduce(r.p, r.off, Last(r.off), AccountSlots)

\* Above GlobalQueue: the queues of remote accounts go, that of the account with
\* the latest heartbeat first and the last one only in part, from its end.
TruncateQueue(p) ==
  LET next(acc, i) ==
        LET worst == CHOOSE a \in acc.left :
                       \A b \in acc.left : p.beats[b] <= p.beats[a]
            n == Cardinality(acc.p.queue[worst])
            out == Cap(acc.p.queue[worst], IF n <= acc.drop THEN 0 ELSE n - acc.drop)
        IN IF acc.drop <= 0 \/ acc.left = {} THEN acc
           ELSE [p |-> Fold(LAMBDA q, t : removeTx(q, t, TRUE), acc.p,
                            IF n <= acc.drop THEN Flatten(out)
                            ELSE Reverse(Flatten(out))),
                 drop |-> acc.drop - Cardinality(out), left |-> acc.left \ {worst}]
      from == {a \in Accounts \ Locals : p.queue[a] # {}}
  IN Fold(next, [p |-> p, drop |-> QueuedCount(p) - GlobalQueue, left |-> from],
          [i \in 1..Cardinality(from) |-> i]).p

promoteExecutables(p, accounts, now) ==
  TruncateQueue(Equalize(
    FoldSet(LAMBDA a, q : promoteAccount(q, a, now), p,
            {a \in accounts : p.queue[a] # {}})))

\* addTxsLocked: the batch, then the promotion of the accounts it touched.
Touch(r, dirty, a) == [p |-> r.p, dirty |-> IF r.dirty THEN dirty \cup {a} ELSE dirty]

PromoteDirty(r, now) ==
  IF r.dirty = {} THEN r.p ELSE promoteExecutables(r.p, r.dirty, now)

addTxs(p, txs, now) ==
  PromoteDirty(Fold(LAMBDA acc, t : Touch(add(acc.p, t), acc.dirty, From[t]),
                    [p |-> p, dirty |-> {}], txs), now)

\* Mutant: the rest of a list whose front is missing stays pending.
demoteAccount_NoGap(p, a) ==
  LET old == Forward(p.pending[a], StateNonce[p.head][a])
      fresh == p.pending[a] \ old
      dear == Filter(fresh, Balance[p.head][a])
      after == IF dear = {} THEN {} ELSE Above(fresh \ dear, Lowest(dear))
      left == fresh \ (dear \cup after)
  IN enqueueAll(UntrackAll([p EXCEPT !.pending[a] = left,
                              !.beats[a] = IF left = {} THEN 0 ELSE @],
                           old \cup dear),
                after)

\* One account of demoteUnexecutables: what is old or too dear goes, what
\* follows the first that is too dear goes back to the queue, and so does the
\* rest when its front is missing.
demoteAccount(p, a) ==
  LET old == Forward(p.pending[a], StateNonce[p.head][a])
      fresh == p.pending[a] \ old
      dear == Filter(fresh, Balance[p.head][a])
      after == IF dear = {} THEN {} ELSE Above(fresh \ dear, Lowest(dear))
      rest == fresh \ (dear \cup after)
      gapped == IF At(rest, StateNonce[p.head][a]) = {} THEN rest ELSE {}
      left == rest \ gapped
  IN enqueueAll(UntrackAll([p EXCEPT !.pending[a] = left,
                              !.beats[a] = IF left = {} THEN 0 ELSE @],
                           old \cup dear),
                after \cup gapped)

demoteUnexecutables(p) ==
  FoldSet(LAMBDA a, q : demoteAccount(q, a), p, {a \in Accounts : p.pending[a] # {}})

--------------------------------------------------------------------------
(* A new head. *)

\* The blocks from b down to the genesis.
Back[b \in Blocks] == IF b = Genesis THEN <<b>> ELSE <<b>> \o Back[Parent[b]]

Distance(m, n) == IF m > n THEN m - n ELSE n - m

\* Mutant: nothing is put back after a reorganisation.
Reinject_Nothing(old, new) == << >>

\* The transactions of the blocks left that are not in the blocks entered,
\* from the newest block down; none for a reorganisation that is too deep.
Reinject(old, new) ==
  LET txsOf(bs) == FlattenSeq([i \in DOMAIN bs |-> Content[bs[i]]])
      left == SelectSeq(Back[old], LAMBDA b : b \notin ToSet(Back[new]))
      entered == SelectSeq(Back[new], LAMBDA b : b \notin ToSet(Back[old]))
  IN IF Parent[new] = old \/ Distance(Number[old], Number[new]) > MaxReorg
     THEN << >>
     ELSE SelectSeq(txsOf(left), LAMBDA t : t \notin ToSet(txsOf(entered)))

\* The next nonces follow the pending lists.
UpdateNonces(p) ==
  [p EXCEPT !.nonce = [a \in Accounts |->
     IF p.pending[a] = {} THEN @[a] ELSE Highest(p.pending[a]) + 1]]

\* reset: the state of the new head, the transactions put back, what can no
\* longer be executed demoted, the next nonces, and what can be promoted.
reset(p, new, now) ==
  LET injected == addTxs([p EXCEPT !.head = new, !.nonce = StateNonce[new]],
                         Reinject(p.head, new), now)
  IN promoteExecutables(UpdateNonces(demoteUnexecutables(injected)), Accounts, now)

\* NewTxPool on the genesis state.
NewPool ==
  [pending |-> [a \in Accounts |-> {}], queue |-> [a \in Accounts |-> {}],
   all |-> {}, items |-> [t \in Txs |-> 0], stales |-> 0,
   nonce |-> StateNonce[Genesis], beats |-> [a \in Accounts |-> 0],
   gasPrice |-> PriceLimit, head |-> Genesis, told |-> {}]

\* SetGasPrice: the transactions below the price that are not local go.
SetGasPrice(p, price) ==
  RemoveDropped(PopWhile([p EXCEPT !.gasPrice = price], HeapSize(p) + 1,
                         {t \in Txs : Price[t] < price}))

\* The runner's eviction of queues whose account had no heartbeat for long.
Evict(p, now) ==
  LET idle == {a \in Accounts \ Locals : now - p.beats[a] > Lifetime}
  IN FoldSet(LAMBDA a, q : Fold(LAMBDA r, t : removeTx(r, t, TRUE), q,
                                Flatten(p.queue[a])), p, idle)

=============================================================================
