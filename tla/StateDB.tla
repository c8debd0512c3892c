------------------------------- MODULE StateDB -------------------------------
(***************************************************************************)
(* The state a block is executed on: core/state/statedb.go with the        *)
(* objects of state_object.go and the journal of journal.go.               *)
(*                                                                         *)
(* A state is a record:                                                    *)
(*   trie      the account trie                                            *)
(*   objs      the live objects, [data, deleted]; data is [nonce, balance] *)
(*   dirty     the addresses whose objects wait for Commit                 *)
(*             (stateObjectsDirty)                                         *)
(*   journal   the changes since the last Finalise, with what was there    *)
(*   dirties   how many of them each address has                           *)
(*   revs      the revisions one can go back to, as lengths of the         *)
(*             journal; the one at position i has the id i, whereas the    *)
(*             code numbers them on and on                                 *)
(* There is no interpreter in this program, so that contracts do not run:  *)
(* code, storage, logs, refunds and suicides never occur, and objects are  *)
(* never created over others.  An object that is only read is not put      *)
(* among the live ones: it is what the trie holds.                         *)
(***************************************************************************)
EXTENDS PatriciaTrie, FiniteSetsExt, TLC

CONSTANTS
  Addrs,
  Key               \* the hashed address as a sequence of nibbles

NoAccount == [nonce |-> 0, balance |-> 0]

\* New
New(trie) ==
  [trie |-> trie, objs |-> << >>, dirty |-> {}, journal |-> << >>,
   dirties |-> [a \in Addrs |-> 0], revs |-> << >>]

\* getStateObject: the live object unless it is deleted, or what the trie has.
getStateObject(s, a) ==
  IF a \in DOMAIN s.objs
  THEN IF s.objs[a].deleted THEN None ELSE s.objs[a].data
  ELSE tryGet(s.trie, Key[a])

Exist(s, a) == getStateObject(s, a) # None
OrNothing(data) == IF data = None THEN NoAccount ELSE data
AccountOf(s, a) == OrNothing(getStateObject(s, a))
GetBalance(s, a) == AccountOf(s, a).balance
GetNonce(s, a) == AccountOf(s, a).nonce
Empty(data) == data.nonce = 0 /\ data.balance = 0

--------------------------------------------------------------------------
(* Changes, each with its entry in the journal. *)

\* journal.append
Journal(s, entry) ==
  [s EXCEPT !.journal = Append(@, entry), !.dirties[entry.addr] = @ + 1]

SetData(s, a, data) == [s EXCEPT !.objs = (a :> [data |-> data, deleted |-> FALSE]) @@ @]

\* createObject, which CreateAccount calls too.
createObject(s, a) ==
  SetData(Journal(s, [type |-> "create", addr |-> a]), a, NoAccount)

GetOrNewStateObject(s, a) == IF Exist(s, a) THEN s ELSE createObject(s, a)

\* One field of an object that had the data in old.
SetField(s, a, field, old, new) ==
  SetData(Journal(s, [type |-> field, addr |-> a, prev |-> old[field]]),
          a, [old EXCEPT ![field] = new])

SetBalance(s, a, amount) == SetField(s, a, "balance", AccountOf(s, a), amount)

\* The balance of an object that is there, by a difference that is not zero.
ChangeBalance(s, a, by) ==
  IF by = 0 THEN s ELSE SetBalance(s, a, GetBalance(s, a) + by)

\* Mutant: an empty object that gets nothing is left alone.
Credit_NoTouch(s, a, amount) == ChangeBalance(s, a, amount)

\* An empty object that gets nothing is touched, so that Finalise deletes it.
Credit(s, a, amount) ==
  IF amount = 0 /\ Empty(AccountOf(s, a))
  THEN SetData(Journal(s, [type |-> "touch", addr |-> a]), a, AccountOf(s, a))
  ELSE ChangeBalance(s, a, amount)

AddBalance(s, a, amount) == Credit(GetOrNewStateObject(s, a), a, amount)
SubBalance(s, a, amount) == ChangeBalance(GetOrNewStateObject(s, a), a, -amount)

WriteNonce(s, a, nonce) == SetField(s, a, "nonce", AccountOf(s, a), nonce)
SetNonce(s, a, nonce) == WriteNonce(GetOrNewStateObject(s, a), a, nonce)

--------------------------------------------------------------------------
(* Snapshots. *)

Snapshot(s) == [s EXCEPT !.revs = Append(@, Len(s.journal))]

Without(f, a) == [x \in DOMAIN f \ {a} |-> f[x]]

\* Mutant: a nonce is not put back.
Undo_NotNonce(s, e) ==
  CASE e.type = "create" -> [s EXCEPT !.objs = Without(@, e.addr), !.dirty = @ \ {e.addr}]
    [] e.type = "balance" -> [s EXCEPT !.objs[e.addr].data.balance = e.prev]
    [] OTHER -> s

\* revert of an entry.
Undo(s, e) ==
  CASE e.type = "create" -> [s EXCEPT !.objs = Without(@, e.addr), !.dirty = @ \ {e.addr}]
    [] e.type = "balance" -> [s EXCEPT !.objs[e.addr].data.balance = e.prev]
    [] e.type = "nonce" -> [s EXCEPT !.objs[e.addr].data.nonce = e.prev]
    [] e.type = "touch" -> s

\* RevertToSnapshot with journal.revert: the last entries are undone, from the
\* end, and the revision goes with all later ones.
RevertToSnapshot(s, id) ==
  LET from == s.revs[id]
      back[i \in from..Len(s.journal)] ==     \* the state before entry i + 1
        IF i = Len(s.journal) THEN s
        ELSE LET e == s.journal[i + 1]
             IN [Undo(back[i + 1], e) EXCEPT !.dirties[e.addr] = @ - 1]
  IN [back[from] EXCEPT !.journal = SubSeq(@, 1, from), !.revs = SubSeq(@, 1, id - 1)]

--------------------------------------------------------------------------
(* From the objects to the trie. *)

clearJournalAndRefund(s) ==
  [s EXCEPT !.journal = << >>, !.dirties = [a \in Addrs |-> 0], !.revs = << >>]

\* updateStateObject, deleteStateObject: an empty account has no place in the
\* trie.
WriteObject(s, a) ==
  IF Empty(s.objs[a].data)
  THEN [s EXCEPT !.trie = TryDelete(@, Key[a]), !.objs[a].deleted = TRUE]
  ELSE [s EXCEPT !.trie = TryUpdate(@, Key[a], s.objs[a].data)]

\* Finalise(true): the objects with changes in the journal.
Finalise(s) ==
  LET touched == {a \in DOMAIN s.objs : s.dirties[a] > 0}
      w == FoldSet(LAMBDA a, t : WriteObject(t, a), s, touched)
  IN clearJournalAndRefund([w EXCEPT !.dirty = @ \cup touched])

\* Commit(true): the objects with changes since the last Commit.
Commit(s) ==
  LET touched == {a \in DOMAIN s.objs : s.dirties[a] > 0 \/ a \in s.dirty}
      w == FoldSet(LAMBDA a, t : WriteObject(t, a), s, touched)
  IN clearJournalAndRefund([w EXCEPT !.dirty = {}])

\* Copy: the objects with changes, and no journal.
Copy(s) ==
  LET kept == {a \in DOMAIN s.objs : s.dirties[a] > 0} \cup s.dirty
  IN [New(s.trie) EXCEPT !.objs = [a \in kept |-> s.objs[a]], !.dirty = kept]

=============================================================================
