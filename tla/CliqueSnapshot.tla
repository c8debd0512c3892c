--------------------------- MODULE CliqueSnapshot ---------------------------
(***************************************************************************)
(* The voting snapshot along one chain: every header that the Clique       *)
(* engine accepts is applied to the snapshot of its parent, as snapshot()  *)
(* of consensus/clique/clique.go does for a batch of headers.              *)
(***************************************************************************)
EXTENDS CliqueRules

CONSTANT MaxLength      \* bound: the longest chain that is considered

ASSUME BoundAssumption == MaxLength \in Nat

----------------------------------------------------------------------------
(***************************************************************************)
(* One chain, extended by any header that the engine accepts.              *)
(*                                                                         *)
(* ballot, sealed and changed are history variables, not read by the code: *)
(* the number and the direction of the last header each signer sealed      *)
(* about each account, the number of the last block each account sealed,   *)
(* and the number of the last block that changed whether an account is a   *)
(* signer.                                                                 *)
(***************************************************************************)
VARIABLES snap, ballot, sealed, changed

snapshotVars == <<snap, ballot, sealed, changed>>

SnapshotInit ==
    /\ snap    = newSnapshot(0, InitSigners)
    /\ ballot  = [s \in Addresses |-> [a \in Addresses |-> [Number |-> 0, Authorize |-> FALSE]]]
    /\ sealed  = [a \in Addresses |-> 0]
    /\ changed = [a \in Addresses |-> 0]

AppendHeader(h) ==
    /\ VerifyVote(h)
    /\ verifySeal(snap, h)
    /\ ApplyError(snap, h) = "nil"
    /\ snap'    = apply(snap, h)
    /\ ballot'  = [ballot EXCEPT ![h.Signer][h.Coinbase] =
                        [Number |-> h.Number, Authorize |-> h.Authorize]]
    /\ sealed'  = [sealed EXCEPT ![h.Signer] = h.Number]
    /\ changed' = [a \in Addresses |->
                        IF (a \in snap.Signers) # (a \in snap'.Signers)
                        THEN h.Number ELSE changed[a]]

SnapshotNext ==
    /\ snap.Number < MaxLength
    /\ \E signer \in snap.Signers, coinbase \in Addresses, authorize \in BOOLEAN :
          AppendHeader([Number |-> snap.Number + 1, Coinbase |-> coinbase,
                        Authorize |-> authorize, Signer |-> signer])

SnapshotSpec == SnapshotInit /\ [][SnapshotNext]_snapshotVars

----------------------------------------------------------------------------
(***************************************************************************)
(* Type invariant: the snapshot that apply builds has the shape of the Go  *)
(* struct.                                                                 *)
(***************************************************************************)
SnapshotTypeOK ==
    /\ SnapshotType(snap)
    /\ ballot \in [Addresses -> [Addresses -> [Number : Nat, Authorize : BOOLEAN]]]
    /\ sealed \in [Addresses -> Nat]
    /\ changed \in [Addresses -> Nat]

VotesAbout(s, a) == {v \in s.Votes : v.Address = a}

(***************************************************************************)
(* "Current vote tally to avoid recalculating" (snapshot.go, Tally): the   *)
(* cached count of every account is the number of votes about it in the    *)
(* list, and all of them ask for the one change that is possible, whatever *)
(* votes were replaced, passed, or died with a dropped signer.             *)
(***************************************************************************)
TallyCounts(s) ==
    \A a \in Addresses :
        /\ s.Tally[a].Votes = Cardinality(VotesAbout(s, a))
        /\ \A v \in VotesAbout(s, a) : v.Authorize = s.Tally[a].Authorize

VotesAskForChange(s) == \A v \in s.Votes : v.Authorize = (v.Address \notin s.Signers)

TallyMatchesVotes == TallyCounts(snap) /\ VotesAskForChange(snap)

(***************************************************************************)
(* "only one vote allowed": an account has at most one vote of a signer,   *)
(* and every vote in the list is of a current signer, so that a dropped    *)
(* signer's votes never count and nobody's vote counts twice.              *)
(***************************************************************************)
VotesOfSigners(s) ==
    /\ \A v \in s.Votes : v.Signer \in s.Signers
    /\ \A v, w \in s.Votes : v.Signer = w.Signer /\ v.Address = w.Address => v = w

OneVotePerSigner == VotesOfSigners(snap)

(***************************************************************************)
(* The list of votes says what the headers of the chain say: a vote stands *)
(* exactly when it is the signer's last header about the account, sealed   *)
(* in this epoch, after the signer was (re)admitted, after the account     *)
(* last changed, and asking for a change.                                  *)
(***************************************************************************)
EpochStart == snap.Number - (snap.Number % Epoch)

Stands(s, a) ==
    /\ s \in snap.Signers
    /\ ballot[s][a].Number > 0
    /\ ballot[s][a].Number >= EpochStart
    /\ ballot[s][a].Number > changed[s]
    /\ ballot[s][a].Number > changed[a]
    /\ ballot[s][a].Authorize = (a \notin snap.Signers)

StandingVotes ==
    {[Signer |-> p[1], Block |-> ballot[p[1]][p[2]].Number, Address |-> p[2],
      Authorize |-> ballot[p[1]][p[2]].Authorize] :
        p \in {q \in Addresses \X Addresses : Stands(q[1], q[2])}}

VotesMatchHeaders == snap.Votes = StandingVotes

(***************************************************************************)
(* Recents covers exactly the window in which a signer may not sign again: *)
(* every signer whose last block is less than limit blocks before the next *)
(* one is in it, and nothing older than the window survives, also when a   *)
(* passed vote changes the limit.                                          *)
(***************************************************************************)
RecentsWindow ==
    /\ \A n \in DOMAIN snap.Recents :
          /\ n \in 1..snap.Number /\ n > snap.Number - Limit(snap)
          /\ sealed[snap.Recents[n]] = n
    /\ \A s \in Addresses :
          sealed[s] > 0 /\ sealed[s] > snap.Number + 1 - Limit(snap)
             => sealed[s] \in DOMAIN snap.Recents /\ snap.Recents[sealed[s]] = s

\* An authorized signer that apply would accept for the next block.
CanExtend(s, signer) ==
    /\ signer \in s.Signers
    /\ ~RecentForSeal(s, s.Number + 1, signer)

(***************************************************************************)
(* The chain can always be extended: as long as there is a signer, one of  *)
(* the signers is not among the recent ones ("If we're amongst the recent  *)
(* signers, wait for the next block" never makes everybody wait on one     *)
(* chain).                                                                 *)
(***************************************************************************)
SomeoneCanExtend == snap.Signers # {} => \E signer \in Addresses : CanExtend(snap, signer)

(***************************************************************************)
(* A signer that Seal lets sign is accepted by verifySeal and by apply:    *)
(* the three tests for "recently signed" agree on every header an honest   *)
(* node seals.                                                             *)
(***************************************************************************)
SealedHeadersApply ==
    \A signer \in Addresses : CanExtend(snap, signer) =>
        LET h == [Number |-> snap.Number + 1, Coinbase |-> ZeroAddress,
                  Authorize |-> FALSE, Signer |-> signer]
        IN  verifySeal(snap, h) /\ ApplyError(snap, h) = "nil"

(***************************************************************************)
(* The set of signers changes by one account at a time, and only when more *)
(* than half of the signers before the change had a standing vote for it,  *)
(* the vote of the new header included.                                    *)
(***************************************************************************)
HadVote(a) == {s \in snap.Signers : \E v \in VotesAbout(snap, a) : v.Signer = s}

JustVoted == {s \in snap.Signers : ballot'[s] # ballot[s]}

MajorityBehind(a) ==
    /\ \A b \in Addresses \ {a} : (b \in snap.Signers) = (b \in snap'.Signers)
    /\ 2 * Cardinality(HadVote(a) \cup JustVoted) > Cardinality(snap.Signers)

MajorityStep ==
    \A a \in Addresses : (a \in snap.Signers) # (a \in snap'.Signers) => MajorityBehind(a)

ChangeNeedsMajority == [][MajorityStep]_snapshotVars

(***************************************************************************)
(* The votes of a snapshot are sound: the cached tally is the count of the *)
(* standing votes and every one of them is the only vote of a current      *)
(* signer about its account.                                               *)
(***************************************************************************)
VotesSound == SnapshotTypeOK /\ TallyMatchesVotes /\ OneVotePerSigner

(***************************************************************************)
(* The recent signers are sound: Recents is the window that the current    *)
(* limit asks for, it never shuts out all the signers, and whom Seal lets  *)
(* sign verifySeal and apply accept.                                       *)
(***************************************************************************)
RecentsSound == RecentsWindow /\ SomeoneCanExtend /\ SealedHeadersApply

=============================================================================
