------------------------------ MODULE Execution ------------------------------
(***************************************************************************)
(* Transactions become blocks and blocks become states: a worker fills a   *)
(* block (commitNewWork, commitTransactions and commit of miner/worker.go, *)
(* TransactionsByPriceAndNonce of core/types/transaction.go), and another  *)
(* node executes it again (core/state_processor.go, state_transition.go,   *)
(* gaspool.go, Call of vm/evm.go, ValidateState of block_validator.go).    *)
(*                                                                         *)
(* Blocks are numbered as they are sealed; block 0 is the genesis.  What   *)
(* the transaction pool holds as pending is any set of transactions with   *)
(* one for each nonce of an account.                                       *)
(***************************************************************************)
EXTENDS StateDB

CONSTANTS
  Txs,
  From, To, Nonce, Price, Gas, Value, Intrinsic,  \* of each transaction
  Locals,                   \* the accounts whose transactions come first
  Coinbase,                 \* the miner's address
  Alloc,                    \* the accounts of the genesis
  Pendings,                 \* what the pool may hold
  TxGas,                    \* 21000
  GasLimitBoundDivisor, MinGasLimit, GasFloor, GasCeil, GenesisGasLimit,
  MaxBlocks

\* The pool holds one transaction for a nonce.
ASSUME PendingsAssumption ==
  /\ Pendings \subseteq SUBSET Txs
  /\ \A P \in Pendings : \A t, u \in P :
       From[t] = From[u] /\ Nonce[t] = Nonce[u] => t = u

VARIABLES
  blocks,       \* the sealed blocks: [parent, txs, limit, used, root, state]
  imported,     \* of each block, the trie the other node has; None before
  bad,          \* the blocks the other node refused
  heads,        \* what has been the head of the miner's chain
  running,      \* the worker mines
  cur,          \* the work: [parent, limit, pool, used, txs, state]
  task,         \* the block that waits for its seal
  snapshot      \* the pending block and state: [parent, txs, state]

vars == <<blocks, imported, bad, heads, running, cur, task, snapshot>>

--------------------------------------------------------------------------
(* One transaction: state_transition.go. *)

\* Call of the EVM without an interpreter: the value is transferred, and the
\* recipient created when there is something to transfer.
Call(s, from, to, value) ==
  LET t == IF Exist(s, to) THEN s ELSE createObject(s, to)
  IN IF ~Exist(s, to) /\ value = 0 THEN s
     ELSE AddBalance(SubBalance(t, from, value), to, value)

Failed(s, gp, err) == [s |-> s, gp |-> gp, gas |-> 0, err |-> err]

\* refundGas and the fee.
Settle(s, t, coinbase) ==
  AddBalance(AddBalance(s, From[t], (Gas[t] - Intrinsic[t]) * Price[t]),
             coinbase, Intrinsic[t] * Price[t])

\* preCheck and the conditions of buyGas.
PreCheck(s, gp, t) ==
  IF GetNonce(s, From[t]) < Nonce[t] THEN "nonceHigh"
  ELSE IF GetNonce(s, From[t]) > Nonce[t] THEN "nonceLow"
  ELSE IF GetBalance(s, From[t]) < Gas[t] * Price[t] THEN "funds"
  ELSE IF gp < Gas[t] THEN "gasLimit"
  ELSE "none"

\* The call, in a state where the gas is bought and the nonce counted.
Execute(s, gp, t, coinbase) ==
  IF GetBalance(s, From[t]) < Value[t] THEN Failed(s, gp, "balance")
  ELSE [s |-> Settle(Call(s, From[t], To[t], Value[t]), t, coinbase),
        gp |-> gp + Gas[t] - Intrinsic[t], gas |-> Intrinsic[t], err |-> "none"]

\* In a state where the gas is bought.
UseGas(s, gp, t, coinbase) ==
  IF Gas[t] < Intrinsic[t] THEN Failed(s, gp, "outOfGas")
  ELSE Execute(SetNonce(s, From[t], GetNonce(s, From[t]) + 1), gp, t, coinbase)

\* TransitionDb.  An error leaves the changes made so far to the caller, and
\* the gas that was taken from the pool is gone.
TransitionDb(s, gp, t, coinbase) ==
  LET check == PreCheck(s, gp, t)
  IN IF check # "none" THEN Failed(s, gp, check)
     ELSE UseGas(SubBalance(s, From[t], Gas[t] * Price[t]), gp - Gas[t], t, coinbase)

\* ApplyTransaction: the changes of one that succeeds are final.
FinaliseGood(r) == IF r.err = "none" THEN [r EXCEPT !.s = Finalise(@)] ELSE r
ApplyTransaction(s, gp, t, coinbase) == FinaliseGood(TransitionDb(s, gp, t, coinbase))

--------------------------------------------------------------------------
(* A block is executed: state_processor.go. *)

\* Process; the result has the error of the first transaction that failed.
Process(trie, txs, limit) ==
  LET step(r, t) ==
        LET a == ApplyTransaction(r.s, r.gp, t, Coinbase)
        IN IF r.err # "none" THEN r ELSE [a EXCEPT !.gas = r.gas + @]
      run[i \in 0..Len(txs)] ==
        IF i = 0 THEN Failed(New(trie), limit, "none") ELSE step(run[i - 1], txs[i])
  IN [run[Len(txs)] EXCEPT !.s = Finalise(@)]

\* CalcGasLimit
CalcGasLimit(parent) ==
  LET limit == parent.limit
      contrib == (parent.used + parent.used \div 2) \div GasLimitBoundDivisor
      decay == limit \div GasLimitBoundDivisor - 1
      next == Max({limit - decay + contrib, MinGasLimit})
  IN IF next < GasFloor THEN Min({limit + decay, GasFloor})
     ELSE IF next > GasCeil THEN Max({limit - decay, GasCeil})
     ELSE next

--------------------------------------------------------------------------
(* The worker. *)

\* The next transaction of each account in a set, and the best-paid of them.
Heads(set) == {t \in set : \A u \in set : From[u] = From[t] => Nonce[u] >= Nonce[t]}
Peek(set) == CHOOSE t \in Heads(set) : \A u \in Heads(set) : Price[u] <= Price[t]
Shift(set, t) == set \ {t}
Pop(set, t) == {u \in set : From[u] # From[t]}

\* The work after a transaction with this result; one that failed is undone.
Outcome(e, t, r) ==
  [e |-> IF r.err = "none"
         THEN [e EXCEPT !.state = r.s, !.pool = r.gp, !.used = @ + r.gas,
                        !.txs = Append(@, t)]
         ELSE [e EXCEPT !.pool = r.gp,
                        !.state = RevertToSnapshot(r.s, Len(e.state.revs) + 1)],
   err |-> r.err]

commitTransaction(e, t) ==
  Outcome(e, t, ApplyTransaction(Snapshot(e.state), e.pool, t, Coinbase))

\* The loop of commitTransactions: after t, the rest of the set.
RECURSIVE Fill(_, _)
FillAfter(r, set, t) ==
  Fill(r.e, IF r.err \in {"gasLimit", "nonceHigh"} THEN Pop(set, t) ELSE Shift(set, t))
Fill(e, set) ==
  IF e.pool < TxGas \/ set = {} THEN e
  ELSE FillAfter(commitTransaction(e, Peek(set)), set, Peek(set))

\* commitTransactions; a signal to interrupt stops it before the first one.
commitTransactions(e, set, interrupt) ==
  LET ready == IF e.pool = None THEN [e EXCEPT !.pool = e.limit] ELSE e
  IN IF interrupt # "none" THEN ready ELSE Fill(ready, set)

\* makeCurrent
makeCurrent(parent) ==
  [parent |-> parent, limit |-> CalcGasLimit(blocks[parent]), pool |-> None,
   used |-> 0, txs |-> << >>, state |-> New(blocks[parent].state)]

\* Mutant: the root is taken of the state before the last changes.
Finalize_Stale(e) ==
  [parent |-> e.parent, txs |-> e.txs, limit |-> e.limit, used |-> e.used,
   root |-> blocks[e.parent].state, state |-> Copy(e.state)]

Assemble(e, s) ==
  [parent |-> e.parent, txs |-> e.txs, limit |-> e.limit, used |-> e.used,
   root |-> s.trie, state |-> s]

\* commit: the engine's Finalize on a copy of the state.
Finalize(e) == Assemble(e, Finalise(Copy(e.state)))

\* A task is posted while the worker runs, and not for an empty block when
\* there are pending transactions.
Post(e, pending, old) ==
  IF running /\ ~(e.txs = << >> /\ pending # {}) THEN Finalize(e) ELSE old

updateSnapshot(e) == [parent |-> e.parent, txs |-> e.txs, state |-> Copy(e.state)]

--------------------------------------------------------------------------

GenesisState ==
  LET alloc == FoldSet(LAMBDA a, t : TryUpdate(t, Key[a], Alloc[a]), None, DOMAIN Alloc)
  IN [parent |-> 0, txs |-> << >>, limit |-> GenesisGasLimit, used |-> 0,
      root |-> alloc, state |-> alloc]

Init ==
  /\ blocks = (0 :> GenesisState) /\ imported = (0 :> GenesisState.state)
  /\ bad = {} /\ heads = {0} /\ running = FALSE
  /\ cur = None /\ task = None /\ snapshot = None

\* The bound: no work is done once MaxBlocks blocks are sealed.
Room == Cardinality(DOMAIN blocks) <= MaxBlocks

Start == ~running /\ running' = TRUE
         /\ UNCHANGED <<blocks, imported, bad, heads, cur, task, snapshot>>
Stop == running /\ running' = FALSE
        /\ UNCHANGED <<blocks, imported, bad, heads, cur, task, snapshot>>

\* The transactions of the locals come first; a new head stops it after them.
FillRemotes(e, locals, remotes, interrupt) ==
  IF remotes = {} \/ (locals # {} /\ interrupt = "newHead") THEN e
  ELSE commitTransactions(e, remotes, interrupt)

FillWork(e, P, interrupt) ==
  LET locals == {t \in P : From[t] \in Locals}
  IN FillRemotes(IF locals = {} THEN e ELSE commitTransactions(e, locals, interrupt),
                 locals, P \ locals, interrupt)

\* commitNewWork.  The worker need not run: the request may be from before a
\* stop, and with a period of zero every transaction asks for new work.  Each has
\* a runner of its own, which reads the head and then waits until the time of
\* the block has come: the parent is any block that has been the head by then.
CommitNewWork(P, noempty, interrupt) ==
  LET aborted == P # {} /\ interrupt = "newHead"
  IN /\ Room
     /\ \E parent \in heads : \E e \in {makeCurrent(parent)} :
        \E filled \in {FillWork(e, P, interrupt)},
           early \in {IF noempty THEN task ELSE Post(e, P, task)} :
          /\ cur' = filled
          /\ task' = IF P = {} \/ aborted THEN early ELSE Post(filled, P, early)
          /\ snapshot' = IF aborted THEN snapshot ELSE updateSnapshot(filled)
     /\ UNCHANGED <<blocks, imported, bad, heads, running>>

\* handleTxEvent while not mining: the transactions are tried on top of the
\* work there is.
HandleTxEvent(P) ==
  /\ ~running /\ cur # None /\ P # {}
  /\ Room
  /\ cur' = commitTransactions(cur, P, "none")
  /\ snapshot' = updateSnapshot(cur')
  /\ UNCHANGED <<blocks, imported, bad, heads, running, task>>

\* handleChainSideEvent: the work is committed once more.
HandleChainSideEvent(P) ==
  /\ running /\ cur # None
  /\ Room
  /\ task' = Post(cur, P, task)
  /\ snapshot' = updateSnapshot(cur)
  /\ UNCHANGED <<blocks, imported, bad, heads, running, cur>>

\* handleResult: the state of the task is committed with the block.  Whether
\* the block is the new head is not decided here.
Seal(becomesHead) ==
  LET n == Cardinality(DOMAIN blocks)
  IN /\ task # None /\ Room
     /\ blocks' = (n :> [task EXCEPT !.state = Commit(@).trie]) @@ blocks
     /\ imported' = (n :> None) @@ imported
     /\ heads' = IF becomesHead THEN heads \cup {n} ELSE heads
     /\ task' = None
     /\ UNCHANGED <<bad, running, cur, snapshot>>

\* The other node: Process, ValidateState and Commit.
ValidateState(block, r) ==
  r.err = "none" /\ r.gas = block.used /\ r.s.trie = block.root

Import(b) ==
  LET parent == imported[blocks[b].parent]
  IN /\ imported[b] = None /\ parent # None /\ b \notin bad
     /\ \E r \in {Process(parent, blocks[b].txs, blocks[b].limit)} :
          LET valid == ValidateState(blocks[b], r)
          IN /\ imported' = IF valid THEN [imported EXCEPT ![b] = Commit(r.s).trie]
                            ELSE imported
             /\ bad' = IF valid THEN bad ELSE bad \cup {b}
     /\ UNCHANGED <<blocks, heads, running, cur, task, snapshot>>

Next == \/ Start
        \/ Stop
        \/ \E P \in Pendings, noempty \in BOOLEAN,
              interrupt \in {"none", "newHead", "resubmit"} :
             CommitNewWork(P, noempty, interrupt)
        \/ \E P \in Pendings : HandleTxEvent(P)
        \/ \E P \in Pendings : HandleChainSideEvent(P)
        \/ \E becomesHead \in BOOLEAN : Seal(becomesHead)
        \/ \E b \in DOMAIN blocks : Import(b)

Spec == Init /\ [][Next]_vars

--------------------------------------------------------------------------
(* Properties. *)

\* What a state says of every address.
View(s) == [a \in Addrs |-> getStateObject(s, a)]

\* Work is on a block there is, has spent no more gas than the block has, and
\* between two transactions its journal is empty.
TypeOK ==
  /\ DOMAIN blocks = 0..(Cardinality(DOMAIN blocks) - 1)
  /\ heads \subseteq DOMAIN blocks
  /\ DOMAIN imported = DOMAIN blocks /\ bad \subseteq DOMAIN blocks
  /\ running \in BOOLEAN
  /\ cur # None => /\ cur.parent \in DOMAIN blocks /\ cur.txs \in Seq(Txs)
                   /\ cur.pool = None \/ cur.pool \in 0..cur.limit
                   /\ cur.state.journal = << >> /\ cur.state.revs = << >>

\* What another node makes of a block is what its miner sealed, the root and
\* the gas in the header and the state that the miner stored for it, although
\* the miner tried other transactions in between and worked on a copy.
ImportersAgree ==
  /\ bad = {}
  /\ \A b \in DOMAIN blocks : imported[b] # None =>
       imported[b] = blocks[b].root /\ imported[b] = blocks[b].state

\* The pending state, and the copy of it that is handed out, is that of the
\* transactions in the pending block: those that failed left no trace in any
\* account.
WorkIsReplay ==
  \A w \in {cur, snapshot} \ {None} :
    \E r \in {Process(blocks[w.parent].state, w.txs, CalcGasLimit(blocks[w.parent]))} :
      r.err = "none" /\ View(r.s) = View(w.state)

\* The root depends on the accounts alone, not on the order of the changes
\* that led to them: it is the root of a trie they are put in one by one.
RootsCanonical ==
  \A b \in DOMAIN blocks :
    LET t == blocks[b].state
        held == {a \in Addrs : tryGet(t, Key[a]) # None}
    IN t = FoldSet(LAMBDA a, u : TryUpdate(u, Key[a], tryGet(t, Key[a])), None, held)

\* No coin is made or lost: fees, refunds and values all arrive somewhere, and
\* an account that is deleted held nothing.
SupplyKept ==
  LET supply(t) == MapThenSumSet(LAMBDA a : GetBalance(New(t), a), Addrs)
  IN \A b \in DOMAIN blocks : supply(blocks[b].state) = supply(blocks[0].state)

\* The gas a block uses and the gas left to it fit in its limit, whatever was
\* bought, paid back and lost by transactions that failed.
GasFits ==
  /\ cur # None /\ cur.pool # None => cur.pool + cur.used <= cur.limit
  /\ \A b \in DOMAIN blocks : blocks[b].used <= blocks[b].limit

\* A block continues every sender's nonces without a gap, and the state counts
\* them.
NoncesFollow ==
  \A b \in DOMAIN blocks \ {0}, a \in Addrs :
    LET sent == SelectSeq(blocks[b].txs, LAMBDA t : From[t] = a)
        first == GetNonce(New(blocks[blocks[b].parent].state), a)
    IN /\ \A i \in DOMAIN sent : Nonce[sent[i]] = first + i - 1
       /\ GetNonce(New(blocks[b].state), a) = first + Len(sent)

\* No account that a block touched is left in the state with nothing in it.
TouchedNotEmpty ==
  \A b \in DOMAIN blocks : \A t \in ToSet(blocks[b].txs) :
    \A a \in {From[t], To[t], Coinbase} :
      LET s == New(blocks[b].state) IN Exist(s, a) => ~Empty(AccountOf(s, a))

\* Every block is sound on its parent: it keeps the supply, its gas fits in its
\* limit, it continues the senders' nonces, and it leaves no empty account that
\* it touched.
BlocksSound == TypeOK /\ SupplyKept /\ GasFits /\ NoncesFollow /\ TouchedNotEmpty

=============================================================================
