---------------------------- MODULE CliqueRules ----------------------------
(***************************************************************************)
(* The voting snapshot of the Clique proof-of-authority engine             *)
(* (consensus/clique/snapshot.go) and the rules that admit a header on top *)
(* of it (consensus/clique/clique.go).                                     *)
(*                                                                         *)
(* A snapshot is a record with the fields of the Go struct.  The slice     *)
(* Votes is the set of its elements: every vote carries the number of its  *)
(* block, which is its position in the slice.  A Tally entry that is not   *)
(* in the Go map is the zero value NoTally, which is also what reading the *)
(* map returns for it; the code deletes an entry rather than store a zero  *)
(* count.  Recents is a function whose domain is the set of keys of the Go *)
(* map.                                                                    *)
(*                                                                         *)
(* An address is a natural number, so that the order of bytes.Compare is   *)
(* the order of the numbers; 0 is common.Address{}.                        *)
(***************************************************************************)
EXTENDS Integers, FiniteSets

CONSTANTS
    Addresses,      \* the accounts that can sign or be voted on
    InitSigners,    \* the signers in the extra-data of the genesis block
    Epoch           \* config.Epoch, blocks between two checkpoints

ZeroAddress == 0    \* common.Address{}

ASSUME AddressesAssumption ==
    /\ Addresses \subseteq Nat
    /\ IsFiniteSet(Addresses)
    /\ ZeroAddress \in Addresses
ASSUME SignersAssumption == InitSigners \subseteq Addresses
ASSUME EpochAssumption   == Epoch \in Nat \ {0}

VoteRec  == [Signer : Addresses, Block : Nat, Address : Addresses, Authorize : BOOLEAN]
TallyRec == [Authorize : BOOLEAN, Votes : Nat]
NoTally  == [Authorize |-> FALSE, Votes |-> 0]

(***************************************************************************)
(* A header, reduced to what the engine reads: its number, the vote it     *)
(* carries (Coinbase and the nonce, TRUE for nonceAuthVote and FALSE for   *)
(* nonceDropVote) and the address that ecrecover finds in its seal.        *)
(***************************************************************************)
HeaderRec == [Number : Nat, Coinbase : Addresses, Authorize : BOOLEAN, Signer : Addresses]

newSnapshot(number, signers) ==
    [Number  |-> number,
     Signers |-> signers,
     Recents |-> [n \in {} |-> ZeroAddress],
     Votes   |-> {},
     Tally   |-> [a \in Addresses |-> NoTally]]

Limit(s) == (Cardinality(s.Signers) \div 2) + 1

validVote(s, address, authorize) ==
    \/ address \in s.Signers /\ ~authorize
    \/ address \notin s.Signers /\ authorize

(***************************************************************************)
(* uncast, applied to every vote of the set votes.  Only votes in the      *)
(* direction of the tally are reverted, and the entry is deleted with its  *)
(* last vote.                                                              *)
(***************************************************************************)
uncast(tally, votes) ==
    [a \in Addresses |->
        LET reverted == {v \in votes : v.Address = a /\ v.Authorize = tally[a].Authorize}
            k        == Cardinality(reverted)
        IN  IF k < tally[a].Votes
            THEN [tally[a] EXCEPT !.Votes = @ - k]
            ELSE NoTally]

----------------------------------------------------------------------------
(***************************************************************************)
(* The steps of the body of apply's loop, in the order of the code.        *)
(***************************************************************************)

\* The snapshot with other votes and their tally.
WithVotes(s, votes, tally) == [s EXCEPT !.Votes = votes, !.Tally = tally]

\* Mutant: votes survive the checkpoint.
ResetAtCheckpoint_None(s, number) == s

\* Remove any votes on checkpoint blocks.
ResetAtCheckpoint(s, number) ==
    IF number % Epoch = 0
    THEN WithVotes(s, {}, [a \in Addresses |-> NoTally])
    ELSE s

\* Delete the oldest signer from the recent list to allow it signing again.
ShiftRecents(s, number) ==
    IF number >= Limit(s)
    THEN [s EXCEPT !.Recents = [n \in (DOMAIN s.Recents) \ {number - Limit(s)} |-> s.Recents[n]]]
    ELSE s

RecordSigner(s, number, signer) ==
    [s EXCEPT !.Recents =
        [n \in (DOMAIN s.Recents) \cup {number} |-> IF n = number THEN signer ELSE s.Recents[n]]]

\* Discard the previous vote of the signer on the same account: the first of
\* the list only ("only one vote allowed").
DiscardPrevious(s, signer, address) ==
    LET previous == {v \in s.Votes : v.Signer = signer /\ v.Address = address}
        first    == {v \in previous : \A w \in previous : v.Block <= w.Block}
    IN  WithVotes(s, s.Votes \ first, uncast(s.Tally, first))

\* The tally entry of an account with one more vote.
Counted(tally, authorize) ==
    IF tally.Votes > 0
    THEN [tally EXCEPT !.Votes = @ + 1]
    ELSE [Authorize |-> authorize, Votes |-> 1]

\* cast, and the vote appended to the list when it is meaningful.
cast(s, number, signer, address, authorize) ==
    IF validVote(s, address, authorize)
    THEN WithVotes(s,
            s.Votes \cup {[Signer |-> signer, Block |-> number,
                           Address |-> address, Authorize |-> authorize]},
            [s.Tally EXCEPT ![address] = Counted(@, authorize)])
    ELSE s

\* Mutant: half of the signers are enough.
Passed_Half(s, address) == 2 * s.Tally[address].Votes >= Cardinality(s.Signers)

Passed(s, address) == s.Tally[address].Votes > Cardinality(s.Signers) \div 2

AddSigner(s, address) == [s EXCEPT !.Signers = @ \cup {address}]

\* Mutants: the tally keeps the votes of the dropped signer; the recent entry
\* that the smaller limit leaves over is not deleted.
RemoveSigner_NoUncast(s, number, address) ==
    LET shrunk == ShiftRecents([s EXCEPT !.Signers = @ \ {address}], number)
    IN  WithVotes(shrunk, {v \in s.Votes : v.Signer # address}, s.Tally)

RemoveSigner_NoShift(s, number, address) ==
    LET own == {v \in s.Votes : v.Signer = address}
    IN  WithVotes([s EXCEPT !.Signers = @ \ {address}], s.Votes \ own, uncast(s.Tally, own))

\* The signer list shrinks: drop the leftover recent entry and the votes that
\* the deauthorized signer cast.
RemoveSigner(s, number, address) ==
    LET shrunk == ShiftRecents([s EXCEPT !.Signers = @ \ {address}], number)
        own    == {v \in s.Votes : v.Signer = address}
    IN  WithVotes(shrunk, s.Votes \ own, uncast(s.Tally, own))

\* If the vote passed, update the list of signers and forget the votes around
\* the account that changed.
Enact(s, number, address) ==
    IF Passed(s, address)
    THEN LET next == IF s.Tally[address].Authorize
                     THEN AddSigner(s, address)
                     ELSE RemoveSigner(s, number, address)
         IN  WithVotes(next, {v \in next.Votes : v.Address # address},
                       [next.Tally EXCEPT ![address] = NoTally])
    ELSE s

\* The snapshot against which apply checks the signer of a header.
Checked(s, h) == ShiftRecents(ResetAtCheckpoint(s, h.Number), h.Number)

\* The error apply returns for a header, "nil" when it accepts it.
ApplyError(s, h) ==
    CASE h.Number # s.Number + 1         -> "errInvalidVotingChain"
      [] h.Signer \notin s.Signers       -> "errUnauthorizedSigner"
      [] \E n \in DOMAIN Checked(s, h).Recents :
            Checked(s, h).Recents[n] = h.Signer -> "errRecentlySigned"
      [] OTHER                           -> "nil"

\* The snapshot after one header that apply accepts.
apply(s, h) ==
    LET recorded  == RecordSigner(Checked(s, h), h.Number, h.Signer)
        discarded == DiscardPrevious(recorded, h.Signer, h.Coinbase)
        voted     == cast(discarded, h.Number, h.Signer, h.Coinbase, h.Authorize)
    IN  [Enact(voted, h.Number, h.Coinbase) EXCEPT !.Number = h.Number]

----------------------------------------------------------------------------
(***************************************************************************)
(* The rules of clique.go that read a snapshot, s being the snapshot of    *)
(* the parent block.                                                       *)
(***************************************************************************)

\* The position of an address in the ascending list of signers.
Offset(s, signer) ==
    IF signer \in s.Signers
    THEN Cardinality({a \in s.Signers : a < signer})
    ELSE Cardinality(s.Signers)

inturn(s, number, signer) == number % Cardinality(s.Signers) = Offset(s, signer)

CalcDifficulty(s, signer) == IF inturn(s, s.Number + 1, signer) THEN 2 ELSE 1

\* verifyHeader: a checkpoint block carries no vote.
VerifyVote(h) == h.Number % Epoch = 0 => h.Coinbase = ZeroAddress /\ ~h.Authorize

\* verifySeal's test.  The difference number - limit is of type uint64: when
\* it is negative it wraps to a number above every block number, and the
\* comparison seen > number - limit is false.
RecentForVerify(s, number, signer) ==
    \E seen \in DOMAIN s.Recents :
        /\ s.Recents[seen] = signer
        /\ number >= Limit(s)
        /\ seen > number - Limit(s)

\* Mutant: the window is one block too short.
RecentForSeal_OffByOne(s, number, signer) ==
    \E seen \in DOMAIN s.Recents :
        s.Recents[seen] = signer /\ seen > number - Limit(s) + 1

\* Seal's test, which does not let the difference wrap.
RecentForSeal(s, number, signer) ==
    \E seen \in DOMAIN s.Recents :
        /\ s.Recents[seen] = signer
        /\ number < Limit(s) \/ seen > number - Limit(s)

verifySeal(s, h) ==
    /\ h.Signer \in s.Signers
    /\ ~RecentForVerify(s, h.Number, h.Signer)

\* The rest of verifySeal: the difficulty corresponds to the turn-ness of the signer.
VerifyDifficulty(s, number, signer, difficulty) ==
    difficulty = IF inturn(s, number, signer) THEN 2 ELSE 1

----------------------------------------------------------------------------
\* The shape of a snapshot.
SnapshotType(s) ==
    /\ s = [Number |-> s.Number, Signers |-> s.Signers, Recents |-> s.Recents,
            Votes |-> s.Votes, Tally |-> s.Tally]
    /\ s.Number \in Nat
    /\ s.Signers \subseteq Addresses
    /\ s.Recents = [n \in DOMAIN s.Recents |-> s.Recents[n]]
    /\ DOMAIN s.Recents \subseteq Nat
    /\ \A n \in DOMAIN s.Recents : s.Recents[n] \in Addresses
    /\ s.Votes \subseteq VoteRec /\ IsFiniteSet(s.Votes)
    /\ s.Tally \in [Addresses -> TallyRec]

=============================================================================
