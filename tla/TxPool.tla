------------------------------- MODULE TxPool -------------------------------
(***************************************************************************)
(* The transaction pool as its node drives it: transactions come from      *)
(* clients and peers, the chain moves its head, the miner sets the price,  *)
(* and time passes.  Every operation runs to its end, so that an action is *)
(* a whole call; PoolRules says what the calls do.                         *)
(***************************************************************************)
EXTENDS PoolRules

CONSTANTS
  Weight,        \* the total difficulty of each block: heads become heavier
  Messages,      \* the lists of transactions a peer or a client may send
  Prices,        \* the prices the miner may set
  MaxItems,      \* a bound on the entries of the heap
  MaxTime        \* a bound on the passes of the eviction runner

VARIABLES pool, now, running

vars == <<pool, now, running>>

Init == pool = NewPool /\ now = 0 /\ running = TRUE

\* AddRemotes with the transactions of a message.
AddRemotes(txs) ==
  /\ HeapSize(pool) + Len(txs) <= MaxItems
  /\ pool' = addTxs(pool, txs, now)
  /\ UNCHANGED <<now, running>>

\* handleChainHead.
NewHead(b) ==
  /\ Weight[b] > Weight[pool.head]
  /\ pool' = reset(pool, b, now)
  /\ UNCHANGED <<now, running>>

\* StartMining sets the price.
StartMining(price) ==
  /\ price # pool.gasPrice
  /\ pool' = SetGasPrice(pool, price)
  /\ UNCHANGED <<now, running>>

\* The runner wakes up after evictionInterval, unless it is stopped.
Run ==
  /\ now < MaxTime
  /\ now' = now + 1
  /\ pool' = IF running THEN Evict(pool, now') ELSE pool
  /\ UNCHANGED running

Stop == running /\ running' = FALSE /\ UNCHANGED <<pool, now>>
Start == ~running /\ running' = TRUE /\ UNCHANGED <<pool, now>>

Next == \/ \E txs \in Messages : AddRemotes(txs)
        \/ \E b \in Blocks : NewHead(b)
        \/ \E price \in Prices : StartMining(price)
        \/ Run
        \/ Stop
        \/ Start

Spec == Init /\ [][Next]_vars

--------------------------------------------------------------------------
(* Properties. *)

Pooled(a) == pool.pending[a] \cup pool.queue[a]

\* The pool holds transactions of the accounts, and its counters are in range:
\* the next nonce of an account is never below zero.
TypeOK ==
  /\ pool.pending \in [Accounts -> SUBSET Txs]
  /\ pool.queue \in [Accounts -> SUBSET Txs]
  /\ pool.all \subseteq Txs /\ pool.told \subseteq Txs
  /\ pool.items \in [Txs -> Nat] /\ pool.stales \in Int
  /\ pool.nonce \in [Accounts -> Nat] /\ pool.beats \in [Accounts -> 0..MaxTime]
  /\ pool.gasPrice \in Nat /\ pool.head \in Blocks
  /\ now \in 0..MaxTime /\ running \in BOOLEAN

\* The lookup holds exactly the transactions of the lists, and an account has
\* one transaction for a nonce, pending or queued: removeTx searches the lists
\* by nonce and would take the wrong one.
ListsAgree ==
  /\ pool.all = UNION {Pooled(a) : a \in Accounts}
  /\ \A a \in Accounts : \A t, u \in Pooled(a) :
       From[t] = a /\ (t # u => Nonce[t] # Nonce[u])
  /\ \A a \in Accounts : pool.pending[a] \cap pool.queue[a] = {}

\* Every pooled transaction has an entry in the heap, however often the heap
\* was rebuilt: what is not there is never discarded for a better one.
HeapCovers == \A t \in pool.all : pool.items[t] > 0

\* What is pooled can still be executed on the state of the head, at once or
\* later: the chain moved and the pool followed.
PooledValid ==
  \A t \in pool.all : /\ Nonce[t] >= StateNonce[pool.head][From[t]]
                      /\ Cost[t] <= Balance[pool.head][From[t]]

\* The first pending transaction of an account can be executed right now, so a
\* miner is never stuck on an account.
FrontExecutable ==
  \A a \in Accounts : pool.pending[a] # {} =>
    Lowest(pool.pending[a]) = StateNonce[pool.head][a]

\* The pending transactions of an account have consecutive nonces.
PendingContiguous ==
  \A a \in Accounts : \A n \in {Nonce[t] : t \in pool.pending[a]} :
    n = Lowest(pool.pending[a]) \/ At(pool.pending[a], n - 1) # {}

\* The next nonce of an account follows its last pending transaction.
NonceFollows ==
  \A a \in Accounts :
    pool.nonce[a] = IF pool.pending[a] = {} THEN StateNonce[pool.head][a]
                    ELSE Highest(pool.pending[a]) + 1

\* Adding, replacing, evicting, discarding and a change of price leave no gap
\* in a pending list and no gap behind it, and neither does a new head unless
\* transactions of the old branch are put back.
RunsKept ==
  [][/\ Reinject(pool.head, pool'.head) = << >>
     /\ PendingContiguous /\ NonceFollows
     => PendingContiguous' /\ NonceFollows']_vars

\* Nothing that could be executed is left in the queue.
NothingReadyQueued ==
  \A a \in Accounts : \A t \in pool.queue[a] : Nonce[t] > pool.nonce[a]

\* The transactions on the chain of a block.
OnChain(b) == UNION {ToSet(Content[c]) : c \in ToSet(Back[b])}

\* What a change of the head takes off the chain.
Lost(old, new) == OnChain(old) \ OnChain(new)

\* A reorganisation loses no transaction unless the branches are too far apart:
\* what the old branch held and the new one does not is pooled again.  One of a
\* local account is whenever it is still valid; one of a remote account when the
\* pool and all that comes back have room among the pending ones, and it can be
\* executed, those of its account that come back before it being valid as well.
ReorgReturns ==
  [][LET lost == Lost(pool.head, pool'.head)
     IN Distance(Number[pool.head], Number[pool'.head]) <= MaxReorg =>
          \A t \in lost :
            /\ \/ From[t] \in Locals /\ validateTx(pool', t)
               \/ /\ Cardinality(pool.all \cup lost) <= GlobalSlots
                  /\ \A u \in lost : From[u] = From[t] /\ Nonce[u] <= Nonce[t]
                                      => validateTx(pool', u)
            => t \in pool'.all]_vars

\* What is pending was told to the peers and the miner.
PendingTold == \A a \in Accounts : pool.pending[a] \subseteq pool.told

\* The pool keeps its size.
PoolBounded == Cardinality(pool.all) <= GlobalSlots + GlobalQueue

\* Above the limit of pending transactions no remote account has more than the
\* slots guaranteed to it.
SlotsRespected ==
  \/ PendingCount(pool) <= GlobalSlots
  \/ \A a \in Accounts \ Locals : Cardinality(pool.pending[a]) <= AccountSlots

\* The heap holds no more stale entries than it counts, those of transactions
\* that left the pool and came back included: it is rebuilt in time.  (The
\* count may be too high, when a price change pops such an entry twice.)
StalesCounted == HeapSize(pool) - Cardinality(pool.all) <= pool.stales

\* The pool's structures tell the same story within its limits: lists and lookup
\* agree, the price heap covers them and counts its stale entries, and neither
\* the pool nor an account is over its limit.
PoolConsistent ==
  /\ TypeOK /\ ListsAgree
  /\ HeapCovers /\ StalesCounted
  /\ PoolBounded /\ SlotsRespected

\* The pool follows the head: everything in it is valid there, the pending lists
\* start with what can be executed now and were announced, and nothing that
\* could be executed waits in the queue.
PendingReady == PooledValid /\ FrontExecutable /\ NothingReadyQueued /\ PendingTold

=============================================================================
