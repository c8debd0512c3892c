---------------------------- MODULE CliqueProofs ----------------------------
(***************************************************************************)
(* Proofs about the Clique voting snapshot, for every set of addresses,    *)
(* every initial set of signers and every epoch length; and about the      *)
(* network of Clique signers, for any number of signers, any of them       *)
(* online, chains of any length and any epoch.                             *)
(***************************************************************************)
EXTENDS CliqueSnapshot, CliqueNet, FiniteSetTheorems, TLAPS

LEMMA SignersFinite ==
    ASSUME NEW S \in SUBSET Addresses
    PROVE  IsFiniteSet(S) /\ Cardinality(S) \in Nat
BY FS_Subset, FS_CardinalityType, AddressesAssumption

LEMMA LimitType ==
    ASSUME NEW s, SnapshotType(s)
    PROVE  Limit(s) \in Nat \ {0} /\ Cardinality(s.Signers) \in Nat
<1>1. Cardinality(s.Signers) \in Nat
  BY SignersFinite DEF SnapshotType
<1> QED
  BY <1>1, SMT DEF Limit

\* A snapshot with its votes and its tally replaced.
LEMMA WithVotesFields ==
    ASSUME NEW s, SnapshotType(s), NEW votes, NEW tally
    PROVE  WithVotes(s, votes, tally) =
             [Number |-> s.Number, Signers |-> s.Signers, Recents |-> s.Recents,
              Votes |-> votes, Tally |-> tally]
<1> DEFINE q == [Number |-> s.Number, Signers |-> s.Signers, Recents |-> s.Recents,
                 Votes |-> votes, Tally |-> s.Tally]
<1>1. [s EXCEPT !.Votes = votes] = q
  BY DEF SnapshotType
<1>2. [q EXCEPT !.Tally = tally] =
        [Number |-> s.Number, Signers |-> s.Signers, Recents |-> s.Recents,
         Votes |-> votes, Tally |-> tally]
  OBVIOUS
<1> HIDE DEF q
<1>3. [s EXCEPT !.Votes = votes, !.Tally = tally] = [q EXCEPT !.Tally = tally]
  BY <1>1
<1> QED
  BY <1>2, <1>3 DEF WithVotes

LEMMA CountedFields ==
    ASSUME NEW e \in TallyRec, NEW authorize \in BOOLEAN
    PROVE  /\ Counted(e, authorize) \in TallyRec
           /\ Counted(e, authorize).Votes = e.Votes + 1
           /\ Counted(e, authorize).Authorize =
                 IF e.Votes > 0 THEN e.Authorize ELSE authorize
BY DEF Counted, TallyRec

(***************************************************************************)
(* What each step of apply does to the fields of a snapshot.               *)
(***************************************************************************)
LEMMA ResetFields ==
    ASSUME NEW s, SnapshotType(s), NEW n \in Nat
    PROVE  LET t == ResetAtCheckpoint(s, n)
           IN  /\ SnapshotType(t)
               /\ t.Number = s.Number /\ t.Signers = s.Signers /\ t.Recents = s.Recents
               /\ \/ /\ n % Epoch # 0
                     /\ t.Votes = s.Votes /\ t.Tally = s.Tally
                  \/ /\ n % Epoch = 0
                     /\ t.Votes = {} /\ t.Tally = [a \in Addresses |-> NoTally]
<1>1. IsFiniteSet({})
  BY FS_EmptySet
<1>2. [a \in Addresses |-> NoTally] \in [Addresses -> TallyRec]
  BY DEF NoTally, TallyRec
<1> QED
  BY <1>1, <1>2, WithVotesFields DEF ResetAtCheckpoint, SnapshotType

LEMMA ShiftFields ==
    ASSUME NEW s, SnapshotType(s), NEW n \in Nat
    PROVE  LET t == ShiftRecents(s, n)
           IN  /\ SnapshotType(t)
               /\ t.Number = s.Number /\ t.Signers = s.Signers
               /\ t.Votes = s.Votes /\ t.Tally = s.Tally
               /\ DOMAIN t.Recents = DOMAIN s.Recents \ {n - Limit(s)}
               /\ \A k \in DOMAIN t.Recents : t.Recents[k] = s.Recents[k]
<1>1. Limit(s) \in Nat
  BY LimitType
<1>2. CASE n >= Limit(s)
  BY <1>1, <1>2 DEF ShiftRecents, SnapshotType
<1>3. CASE ~(n >= Limit(s))
  <2>1. n - Limit(s) \notin DOMAIN s.Recents
    BY <1>1, <1>3 DEF SnapshotType
  <2> QED
    BY <2>1, <1>3 DEF ShiftRecents, SnapshotType
<1> QED
  BY <1>2, <1>3

LEMMA RecordFields ==
    ASSUME NEW s, SnapshotType(s), NEW n \in Nat, NEW signer \in Addresses
    PROVE  LET t == RecordSigner(s, n, signer)
           IN  /\ SnapshotType(t)
               /\ t.Number = s.Number /\ t.Signers = s.Signers
               /\ t.Votes = s.Votes /\ t.Tally = s.Tally
               /\ DOMAIN t.Recents = DOMAIN s.Recents \cup {n}
               /\ t.Recents[n] = signer
               /\ \A k \in DOMAIN s.Recents : k # n => t.Recents[k] = s.Recents[k]
BY DEF RecordSigner, SnapshotType

(***************************************************************************)
(* Removing votes from the list and reverting them in the tally keeps the  *)
(* tally exact.                                                            *)
(***************************************************************************)
LEMMA UncastCounts ==
    ASSUME NEW s, SnapshotType(s), TallyCounts(s), NEW V \in SUBSET s.Votes
    PROVE  LET t == WithVotes(s, s.Votes \ V, uncast(s.Tally, V))
           IN  /\ SnapshotType(t) /\ TallyCounts(t)
               /\ t.Number = s.Number /\ t.Signers = s.Signers
               /\ t.Recents = s.Recents /\ t.Votes = s.Votes \ V
<1> DEFINE t == WithVotes(s, s.Votes \ V, uncast(s.Tally, V))
<1>1. /\ t.Number = s.Number /\ t.Signers = s.Signers /\ t.Recents = s.Recents
      /\ t.Votes = s.Votes \ V /\ t.Tally = uncast(s.Tally, V)
      /\ t = [Number |-> t.Number, Signers |-> t.Signers, Recents |-> t.Recents,
              Votes |-> t.Votes, Tally |-> t.Tally]
  <2>1. t = [Number |-> s.Number, Signers |-> s.Signers, Recents |-> s.Recents,
             Votes |-> s.Votes \ V, Tally |-> uncast(s.Tally, V)]
    BY WithVotesFields
  <2> HIDE DEF t
  <2> QED
    BY <2>1
<1> HIDE DEF t
<1>2. IsFiniteSet(s.Votes \ V)
  BY FS_Subset DEF SnapshotType
<1>3. ASSUME NEW a \in Addresses
      PROVE  /\ t.Tally[a] \in TallyRec
             /\ t.Tally[a].Votes = Cardinality(VotesAbout(t, a))
             /\ \A v \in VotesAbout(t, a) : v.Authorize = t.Tally[a].Authorize
  <2> DEFINE old == VotesAbout(s, a)
             out == {v \in V : v.Address = a /\ v.Authorize = s.Tally[a].Authorize}
  <2>1. out = {v \in V : v.Address = a}
    BY DEF TallyCounts, VotesAbout
  <2>2. out \subseteq old /\ VotesAbout(t, a) = old \ out
    BY <2>1, <1>1 DEF VotesAbout
  <2>3. IsFiniteSet(old)
    BY FS_Subset DEF SnapshotType, VotesAbout
  <2>4. /\ Cardinality(old) \in Nat /\ Cardinality(out) \in Nat
        /\ IsFiniteSet(out)
        /\ Cardinality(out) <= Cardinality(old)
        /\ Cardinality(out) = Cardinality(old) => out = old
    BY <2>2, <2>3, FS_Subset, FS_CardinalityType
  <2>5. Cardinality(old \ out) = Cardinality(old) - Cardinality(out)
    <3>1. IsFiniteSet(old \ out) /\ Cardinality(old \ out) \in Nat
      BY <2>3, FS_Subset, FS_CardinalityType
    <3>2. (old \ out) \cup out = old /\ (old \ out) \cap out = {}
      BY <2>2
    <3>3. Cardinality(old) = Cardinality(old \ out) + Cardinality(out) - Cardinality({})
      BY <3>1, <3>2, <2>4, FS_Union
    <3> QED
      BY <3>1, <3>3, <2>4, FS_EmptySet
  <2>6. s.Tally[a] \in TallyRec /\ s.Tally[a].Votes = Cardinality(old)
    BY DEF TallyCounts, SnapshotType
  <2>7. t.Tally[a] = IF Cardinality(out) < s.Tally[a].Votes
                     THEN [s.Tally[a] EXCEPT !.Votes = @ - Cardinality(out)]
                     ELSE NoTally
    BY <1>1 DEF uncast
  <2>8. CASE Cardinality(out) < Cardinality(old)
    <3>1. t.Tally[a] = [s.Tally[a] EXCEPT !.Votes = Cardinality(old) - Cardinality(out)]
      BY <2>6, <2>7, <2>8
    <3>2. t.Tally[a] \in TallyRec /\ t.Tally[a].Authorize = s.Tally[a].Authorize
          /\ t.Tally[a].Votes = Cardinality(old) - Cardinality(out)
      BY <3>1, <2>6, <2>4, <2>8 DEF TallyRec
    <3> QED
      BY <3>2, <2>2, <2>5 DEF TallyCounts
  <2>9. CASE Cardinality(out) = Cardinality(old)
    <3>1. t.Tally[a] = NoTally
      BY <2>4, <2>6, <2>7, <2>9
    <3>2. VotesAbout(t, a) = {}
      BY <2>2, <2>4, <2>9
    <3> QED
      BY <3>1, <3>2, FS_EmptySet DEF NoTally, TallyRec
  <2> QED
    BY <2>4, <2>8, <2>9
<1>4. t.Tally \in [Addresses -> TallyRec]
  <2>1. t.Tally = [a \in Addresses |-> t.Tally[a]]
    BY <1>1 DEF uncast
  <2> QED
    BY <2>1, <1>3
<1>5. SnapshotType(t)
  BY <1>1, <1>2, <1>4 DEF SnapshotType
<1>6. TallyCounts(t)
  BY <1>3 DEF TallyCounts
<1> QED
  BY <1>1, <1>5, <1>6 DEF t

(***************************************************************************)
(* The part of the inductive invariant that is about votes.                *)
(***************************************************************************)
VoteInv(s) ==
    /\ SnapshotType(s)
    /\ TallyCounts(s)
    /\ VotesAskForChange(s)
    /\ VotesOfSigners(s)

LEMMA DiscardFields ==
    ASSUME NEW s, VoteInv(s), NEW signer \in Addresses, NEW address \in Addresses
    PROVE  LET t == DiscardPrevious(s, signer, address)
           IN  /\ VoteInv(t)
               /\ t.Number = s.Number /\ t.Signers = s.Signers /\ t.Recents = s.Recents
               /\ t.Votes = {v \in s.Votes : ~(v.Signer = signer /\ v.Address = address)}
<1> DEFINE previous == {v \in s.Votes : v.Signer = signer /\ v.Address = address}
           first == {v \in previous : \A w \in previous : v.Block <= w.Block}
           t == DiscardPrevious(s, signer, address)
<1>1. first = previous
  <2>1. \A v, w \in previous : v = w
    BY DEF VoteInv, VotesOfSigners
  <2>2. \A v \in previous : v.Block \in Nat
    BY DEF VoteInv, SnapshotType, VoteRec
  <2> QED
    BY <2>1, <2>2
<1>2. first \in SUBSET s.Votes
  OBVIOUS
<1>3. t = WithVotes(s, s.Votes \ first, uncast(s.Tally, first))
  BY DEF DiscardPrevious
<1> HIDE DEF t, first
<1>4. /\ SnapshotType(t) /\ TallyCounts(t)
      /\ t.Number = s.Number /\ t.Signers = s.Signers
      /\ t.Recents = s.Recents /\ t.Votes = s.Votes \ first
  BY <1>2, <1>3, UncastCounts DEF VoteInv
<1>5. VotesAskForChange(t) /\ VotesOfSigners(t)
  BY <1>4 DEF VoteInv, VotesAskForChange, VotesOfSigners
<1>6. t.Votes = {v \in s.Votes : ~(v.Signer = signer /\ v.Address = address)}
  BY <1>1, <1>4
<1> QED
  BY <1>4, <1>5, <1>6 DEF VoteInv, t

\* The vote that a header adds to the list, if it asks for a change.
NewVotes(s, n, signer, address, authorize) ==
    IF authorize = (address \notin s.Signers)
    THEN {[Signer |-> signer, Block |-> n, Address |-> address, Authorize |-> authorize]}
    ELSE {}

LEMMA CastFields ==
    ASSUME NEW s, VoteInv(s), NEW n \in Nat, NEW signer \in s.Signers,
           NEW address \in Addresses, NEW authorize \in BOOLEAN,
           \A v \in s.Votes : ~(v.Signer = signer /\ v.Address = address)
    PROVE  LET t == cast(s, n, signer, address, authorize)
           IN  /\ VoteInv(t)
               /\ t.Number = s.Number /\ t.Signers = s.Signers /\ t.Recents = s.Recents
               /\ t.Votes = s.Votes \cup NewVotes(s, n, signer, address, authorize)
<1> DEFINE t == cast(s, n, signer, address, authorize)
           new == [Signer |-> signer, Block |-> n, Address |-> address, Authorize |-> authorize]
           entry == Counted(s.Tally[address], authorize)
           tally == [s.Tally EXCEPT ![address] = entry]
<1>1. CASE ~validVote(s, address, authorize)
  BY <1>1 DEF cast, validVote, NewVotes
<1>2. CASE validVote(s, address, authorize)
  <2>1. t = [Number |-> s.Number, Signers |-> s.Signers, Recents |-> s.Recents,
             Votes |-> s.Votes \cup {new}, Tally |-> tally]
    <3>1. t = WithVotes(s, s.Votes \cup {new}, tally)
      BY <1>2 DEF cast
    <3> HIDE DEF t, new, tally
    <3> QED
      BY <3>1, WithVotesFields DEF VoteInv
  <2>2. new \in VoteRec /\ new \notin s.Votes /\ new.Address = address
        /\ new.Signer = signer /\ new.Authorize = authorize
    BY DEF VoteInv, SnapshotType, VoteRec
  <2>3. authorize = (address \notin s.Signers)
    BY <1>2 DEF validVote
  <2>4. s.Tally \in [Addresses -> TallyRec] /\ IsFiniteSet(s.Votes) /\ s.Votes \subseteq VoteRec
    BY DEF VoteInv, SnapshotType
  <2>5. s.Tally[address].Votes = Cardinality(VotesAbout(s, address))
        /\ s.Tally[address] \in TallyRec
    BY <2>4 DEF VoteInv, TallyCounts
  <2>6. IsFiniteSet(VotesAbout(s, address)) /\ Cardinality(VotesAbout(s, address)) \in Nat
    BY <2>4, FS_Subset, FS_CardinalityType DEF VotesAbout
  <2>7. entry \in TallyRec /\ entry.Votes = Cardinality(VotesAbout(s, address)) + 1
        /\ entry.Authorize = authorize
    <3>1. CASE Cardinality(VotesAbout(s, address)) > 0
      <4>1. PICK v \in VotesAbout(s, address) : TRUE
        BY <3>1, FS_EmptySet, <2>6
      <4>2. v.Authorize = s.Tally[address].Authorize /\ v.Authorize = authorize
        BY <4>1, <2>3 DEF VoteInv, TallyCounts, VotesAskForChange, VotesAbout
      <4> QED
        BY <4>2, <3>1, <2>5, CountedFields
    <3>2. CASE Cardinality(VotesAbout(s, address)) = 0
      BY <3>2, <2>5, CountedFields
    <3> QED
      BY <3>1, <3>2, <2>6
  <2> HIDE DEF t, new, entry
  <2>8. tally \in [Addresses -> TallyRec]
    BY <2>4, <2>7
  <2>9. IsFiniteSet(s.Votes \cup {new}) /\ s.Votes \cup {new} \subseteq VoteRec
    BY <2>2, <2>4, FS_AddElement
  <2>10. SnapshotType(t)
    BY <2>1, <2>8, <2>9 DEF VoteInv, SnapshotType
  <2>11. TallyCounts(t)
    <3> SUFFICES ASSUME NEW a \in Addresses
                 PROVE  /\ t.Tally[a].Votes = Cardinality(VotesAbout(t, a))
                        /\ \A v \in VotesAbout(t, a) : v.Authorize = t.Tally[a].Authorize
      BY DEF TallyCounts
    <3>1. CASE a = address
      <4>1. VotesAbout(t, a) = VotesAbout(s, a) \cup {new} /\ new \notin VotesAbout(s, a)
        BY <3>1, <2>1, <2>2 DEF VotesAbout
      <4>2. Cardinality(VotesAbout(t, a)) = Cardinality(VotesAbout(s, a)) + 1
        BY <4>1, <2>6, <3>1, FS_AddElement
      <4>3. t.Tally[a] = entry
        BY <3>1, <2>1, <2>4
      <4>4. \A v \in VotesAbout(s, a) : v.Authorize = authorize
        BY <2>3, <3>1 DEF VoteInv, VotesAskForChange, VotesAbout
      <4> QED
        BY <4>1, <4>2, <4>3, <4>4, <3>1, <2>2, <2>7
    <3>2. CASE a # address
      <4>1. VotesAbout(t, a) = VotesAbout(s, a)
        BY <3>2, <2>1, <2>2 DEF VotesAbout
      <4>2. t.Tally[a] = s.Tally[a]
        BY <3>2, <2>1, <2>4
      <4> QED
        BY <4>1, <4>2 DEF VoteInv, TallyCounts
    <3> QED
      BY <3>1, <3>2
  <2>12. VotesAskForChange(t)
    BY <2>1, <2>2, <2>3 DEF VoteInv, VotesAskForChange
  <2>13. VotesOfSigners(t)
    BY <2>1, <2>2 DEF VoteInv, VotesOfSigners
  <2> QED
    BY <2>1, <2>3, <2>10, <2>11, <2>12, <2>13 DEF VoteInv, NewVotes, new, t
<1> QED
  BY <1>1, <1>2

\* A snapshot with another set of signers.
LEMMA SignersFields ==
    ASSUME NEW s, SnapshotType(s), TallyCounts(s), NEW signers \in SUBSET Addresses
    PROVE  LET t == [s EXCEPT !.Signers = signers]
           IN  /\ SnapshotType(t) /\ TallyCounts(t)
               /\ t.Number = s.Number /\ t.Signers = signers /\ t.Recents = s.Recents
               /\ t.Votes = s.Votes /\ t.Tally = s.Tally
<1> DEFINE t == [s EXCEPT !.Signers = signers]
<1>1. t = [Number |-> s.Number, Signers |-> signers, Recents |-> s.Recents,
           Votes |-> s.Votes, Tally |-> s.Tally]
  BY DEF SnapshotType
<1> HIDE DEF t
<1>2. SnapshotType(t)
  BY <1>1 DEF SnapshotType
<1>3. TallyCounts(t)
  BY <1>1 DEF TallyCounts, VotesAbout
<1> QED
  BY <1>1, <1>2, <1>3 DEF t

LEMMA RemoveFields ==
    ASSUME NEW s, VoteInv(s), NEW n \in Nat, NEW address \in Addresses
    PROVE  LET t == RemoveSigner(s, n, address)
           IN  /\ SnapshotType(t) /\ TallyCounts(t)
               /\ t.Number = s.Number /\ t.Signers = s.Signers \ {address}
               /\ DOMAIN t.Recents = DOMAIN s.Recents \ {n - Limit(t)}
               /\ \A k \in DOMAIN t.Recents : t.Recents[k] = s.Recents[k]
               /\ t.Votes = {v \in s.Votes : v.Signer # address}
<1> DEFINE t == RemoveSigner(s, n, address)
           p == [s EXCEPT !.Signers = s.Signers \ {address}]
           q == ShiftRecents(p, n)
           own == {v \in s.Votes : v.Signer = address}
<1>1. /\ SnapshotType(p) /\ TallyCounts(p)
      /\ p.Number = s.Number /\ p.Signers = s.Signers \ {address} /\ p.Recents = s.Recents
      /\ p.Votes = s.Votes /\ p.Tally = s.Tally
  BY SignersFields DEF VoteInv, SnapshotType
<1>2. t = WithVotes(q, s.Votes \ own, uncast(s.Tally, own))
  BY DEF RemoveSigner
<1> HIDE DEF p
<1>3. /\ SnapshotType(q)
      /\ q.Number = p.Number /\ q.Signers = p.Signers
      /\ q.Votes = p.Votes /\ q.Tally = p.Tally
      /\ DOMAIN q.Recents = DOMAIN p.Recents \ {n - Limit(p)}
      /\ \A k \in DOMAIN q.Recents : q.Recents[k] = p.Recents[k]
  BY <1>1, ShiftFields
<1> HIDE DEF q
<1>4. TallyCounts(q)
  BY <1>1, <1>3 DEF TallyCounts, VotesAbout
<1>5. own \in SUBSET q.Votes /\ t = WithVotes(q, q.Votes \ own, uncast(q.Tally, own))
  BY <1>1, <1>2, <1>3
<1> HIDE DEF t, own
<1>6. /\ SnapshotType(t) /\ TallyCounts(t)
      /\ t.Number = q.Number /\ t.Signers = q.Signers
      /\ t.Recents = q.Recents /\ t.Votes = q.Votes \ own
  <2> DEFINE w == WithVotes(q, q.Votes \ own, uncast(q.Tally, own))
  <2>1. own \in SUBSET q.Votes
    BY <1>5
  <2>2. SnapshotType(q)
    BY <1>3
  <2>3. /\ SnapshotType(w) /\ TallyCounts(w)
        /\ w.Number = q.Number /\ w.Signers = q.Signers
        /\ w.Recents = q.Recents /\ w.Votes = q.Votes \ own
    BY <2>1, <2>2, <1>4, UncastCounts
  <2> QED
    BY <2>3, <1>5
<1>7. Limit(t) = Limit(p)
  BY <1>3, <1>6 DEF Limit
<1>8. t.Votes = {v \in s.Votes : v.Signer # address}
  BY <1>1, <1>3, <1>6 DEF own
<1> QED
  BY <1>1, <1>3, <1>6, <1>7, <1>8 DEF t

LEMMA EnactFields ==
    ASSUME NEW s, VoteInv(s), NEW n \in Nat, NEW address \in Addresses
    PROVE  LET t == Enact(s, n, address)
           IN  /\ VoteInv(t)
               /\ t.Number = s.Number
               /\ \/ t = s
                  \/ /\ Passed(s, address) /\ address \notin s.Signers
                     /\ t.Signers = s.Signers \cup {address}
                     /\ t.Votes = {v \in s.Votes : v.Address # address}
                     /\ t.Recents = s.Recents
                  \/ /\ Passed(s, address) /\ address \in s.Signers
                     /\ t.Signers = s.Signers \ {address}
                     /\ t.Votes = {v \in s.Votes : v.Signer # address /\ v.Address # address}
                     /\ DOMAIN t.Recents = DOMAIN s.Recents \ {n - Limit(t)}
                     /\ \A k \in DOMAIN t.Recents : t.Recents[k] = s.Recents[k]
<1> DEFINE t == Enact(s, n, address)
<1>1. CASE ~Passed(s, address)
  BY <1>1 DEF Enact
<1>2. CASE Passed(s, address)
  <2> DEFINE next == IF s.Tally[address].Authorize
                     THEN AddSigner(s, address) ELSE RemoveSigner(s, n, address)
             votes == {v \in next.Votes : v.Address # address}
             tally == [next.Tally EXCEPT ![address] = NoTally]
  <2>1. t = WithVotes(next, votes, tally)
    BY <1>2 DEF Enact
  <2>2. s.Tally[address].Authorize <=> address \notin s.Signers
    <3>1. /\ s.Tally[address] \in TallyRec
          /\ s.Tally[address].Votes = Cardinality(VotesAbout(s, address))
      BY DEF VoteInv, SnapshotType, TallyCounts
    <3>2. Cardinality(s.Signers) \in Nat
      BY LimitType DEF VoteInv
    <3>3. Cardinality(VotesAbout(s, address)) > 0
      BY <3>1, <3>2, <1>2 DEF Passed, TallyRec
    <3>4. VotesAbout(s, address) # {}
      BY <3>3, FS_EmptySet
    <3>5. PICK v \in VotesAbout(s, address) : TRUE
      BY <3>4
    <3>6. v.Authorize = s.Tally[address].Authorize
      BY <3>5 DEF VoteInv, TallyCounts
    <3>7. v.Authorize = (address \notin s.Signers)
      BY <3>5 DEF VoteInv, VotesAskForChange, VotesAbout
    <3> QED
      BY <3>6, <3>7
  <2>3. /\ SnapshotType(next) /\ TallyCounts(next) /\ next.Number = s.Number
        /\ next.Votes \subseteq s.Votes
        /\ \A v \in next.Votes : v.Signer \in next.Signers
        /\ \A a \in Addresses \ {address} : a \in next.Signers <=> a \in s.Signers
        /\ \/ /\ address \notin s.Signers /\ next.Votes = s.Votes
              /\ next.Signers = s.Signers \cup {address} /\ next.Recents = s.Recents
           \/ /\ address \in s.Signers
              /\ next.Signers = s.Signers \ {address}
              /\ next.Votes = {v \in s.Votes : v.Signer # address}
              /\ DOMAIN next.Recents = DOMAIN s.Recents \ {n - Limit(next)}
              /\ \A k \in DOMAIN next.Recents : next.Recents[k] = s.Recents[k]
    <3>1. CASE s.Tally[address].Authorize
      <4>1. next = [s EXCEPT !.Signers = s.Signers \cup {address}]
        BY <3>1 DEF AddSigner
      <4>2. s.Signers \cup {address} \in SUBSET Addresses
        BY DEF VoteInv, SnapshotType
      <4> HIDE DEF next
      <4>3. /\ SnapshotType(next) /\ TallyCounts(next)
            /\ next.Number = s.Number /\ next.Signers = s.Signers \cup {address}
            /\ next.Recents = s.Recents /\ next.Votes = s.Votes
        BY <4>1, <4>2, SignersFields DEF VoteInv
      <4> QED
        BY <4>3, <3>1, <2>2 DEF VoteInv, VotesOfSigners
    <3>2. CASE ~s.Tally[address].Authorize
      <4>1. next = RemoveSigner(s, n, address)
        BY <3>2
      <4> HIDE DEF next
      <4>2. /\ SnapshotType(next) /\ TallyCounts(next)
            /\ next.Number = s.Number /\ next.Signers = s.Signers \ {address}
            /\ DOMAIN next.Recents = DOMAIN s.Recents \ {n - Limit(next)}
            /\ \A k \in DOMAIN next.Recents : next.Recents[k] = s.Recents[k]
            /\ next.Votes = {v \in s.Votes : v.Signer # address}
        BY <4>1, RemoveFields
      <4> QED
        BY <4>2, <3>2, <2>2 DEF VoteInv, VotesOfSigners
    <3> QED
      BY <3>1, <3>2
  <2> HIDE DEF next
  <2>4. t = [Number |-> next.Number, Signers |-> next.Signers, Recents |-> next.Recents,
             Votes |-> votes, Tally |-> tally]
    BY <2>1, <2>3, WithVotesFields
  <2>5. /\ next.Tally \in [Addresses -> TallyRec] /\ next.Votes \subseteq VoteRec
        /\ IsFiniteSet(votes)
    BY <2>3, FS_Subset DEF SnapshotType
  <2>6. tally \in [Addresses -> TallyRec]
    BY <2>5 DEF NoTally, TallyRec
  <2> HIDE DEF t
  <2>7. SnapshotType(t)
    BY <2>3, <2>4, <2>5, <2>6 DEF SnapshotType
  <2>8. TallyCounts(t)
    <3> SUFFICES ASSUME NEW a \in Addresses
                 PROVE  /\ t.Tally[a].Votes = Cardinality(VotesAbout(t, a))
                        /\ \A v \in VotesAbout(t, a) : v.Authorize = t.Tally[a].Authorize
      BY DEF TallyCounts
    <3>1. CASE a = address
      <4>1. VotesAbout(t, a) = {} /\ t.Tally[a] = NoTally
        BY <3>1, <2>4, <2>5 DEF VotesAbout
      <4> QED
        BY <4>1, FS_EmptySet DEF NoTally
    <3>2. CASE a # address
      <4>1. VotesAbout(t, a) = VotesAbout(next, a) /\ t.Tally[a] = next.Tally[a]
        BY <3>2, <2>4, <2>5 DEF VotesAbout
      <4> QED
        BY <4>1, <2>3 DEF TallyCounts
    <3> QED
      BY <3>1, <3>2
  <2>9. VotesAskForChange(t)
    <3> SUFFICES ASSUME NEW v \in t.Votes
                 PROVE  v.Authorize = (v.Address \notin t.Signers)
      BY DEF VotesAskForChange
    <3>1. v \in s.Votes /\ v.Address # address /\ v.Address \in Addresses
      BY <2>3, <2>4, <2>5 DEF VoteRec
    <3> QED
      BY <3>1, <2>3, <2>4 DEF VoteInv, VotesAskForChange
  <2>10. VotesOfSigners(t)
    BY <2>3, <2>4 DEF VoteInv, VotesOfSigners
  <2>11. Limit(t) = Limit(next)
    BY <2>4 DEF Limit
  <2>12. \/ /\ Passed(s, address) /\ address \notin s.Signers
            /\ t.Signers = s.Signers \cup {address}
            /\ t.Votes = {v \in s.Votes : v.Address # address}
            /\ t.Recents = s.Recents
         \/ /\ Passed(s, address) /\ address \in s.Signers
            /\ t.Signers = s.Signers \ {address}
            /\ t.Votes = {v \in s.Votes : v.Signer # address /\ v.Address # address}
            /\ DOMAIN t.Recents = DOMAIN s.Recents \ {n - Limit(t)}
            /\ \A k \in DOMAIN t.Recents : t.Recents[k] = s.Recents[k]
    BY <1>2, <2>3, <2>4, <2>11
  <2> QED
    BY <2>3, <2>4, <2>7, <2>8, <2>9, <2>10, <2>12 DEF VoteInv, t
<1> QED
  BY <1>1, <1>2

LEMMA NumberFields ==
    ASSUME NEW s, VoteInv(s), NEW n \in Nat
    PROVE  LET t == [s EXCEPT !.Number = n]
           IN  /\ VoteInv(t) /\ t.Number = n /\ t.Signers = s.Signers
               /\ t.Recents = s.Recents /\ t.Votes = s.Votes
<1> DEFINE t == [s EXCEPT !.Number = n]
<1>1. t = [Number |-> n, Signers |-> s.Signers, Recents |-> s.Recents,
           Votes |-> s.Votes, Tally |-> s.Tally]
  BY DEF VoteInv, SnapshotType
<1> HIDE DEF t
<1>2. SnapshotType(t)
  BY <1>1 DEF VoteInv, SnapshotType
<1>3. TallyCounts(t) /\ VotesAskForChange(t) /\ VotesOfSigners(t)
  BY <1>1 DEF VoteInv, TallyCounts, VotesAbout, VotesAskForChange, VotesOfSigners
<1> QED
  BY <1>1, <1>2, <1>3 DEF VoteInv, t

LEMMA CheckedFields ==
    ASSUME NEW s, VoteInv(s), NEW h \in HeaderRec
    PROVE  LET t == Checked(s, h)
           IN  /\ VoteInv(t) /\ t.Number = s.Number /\ t.Signers = s.Signers
               /\ t.Votes = {v \in s.Votes : h.Number % Epoch # 0}
               /\ DOMAIN t.Recents = DOMAIN s.Recents \ {h.Number - Limit(s)}
               /\ \A k \in DOMAIN t.Recents : t.Recents[k] = s.Recents[k]
<1> DEFINE r == ResetAtCheckpoint(s, h.Number)
           t == ShiftRecents(r, h.Number)
<1>1. h.Number \in Nat /\ SnapshotType(s)
  BY DEF HeaderRec, VoteInv
<1>2. /\ SnapshotType(r)
      /\ r.Number = s.Number /\ r.Signers = s.Signers /\ r.Recents = s.Recents
      /\ \/ /\ h.Number % Epoch # 0
            /\ r.Votes = s.Votes /\ r.Tally = s.Tally
         \/ /\ h.Number % Epoch = 0
            /\ r.Votes = {} /\ r.Tally = [a \in Addresses |-> NoTally]
  BY <1>1, ResetFields
<1>3. TallyCounts(r)
  <2>1. CASE r.Votes = s.Votes /\ r.Tally = s.Tally
    BY <2>1 DEF VoteInv, TallyCounts, VotesAbout
  <2>2. CASE r.Votes = {} /\ r.Tally = [a \in Addresses |-> NoTally]
    BY <2>2, FS_EmptySet DEF TallyCounts, VotesAbout, NoTally
  <2> QED
    BY <1>2, <2>1, <2>2
<1> HIDE DEF r
<1>4. /\ SnapshotType(t)
      /\ t.Number = r.Number /\ t.Signers = r.Signers
      /\ t.Votes = r.Votes /\ t.Tally = r.Tally
      /\ DOMAIN t.Recents = DOMAIN r.Recents \ {h.Number - Limit(r)}
      /\ \A k \in DOMAIN t.Recents : t.Recents[k] = r.Recents[k]
  BY <1>1, <1>2, ShiftFields
<1>5. Limit(r) = Limit(s)
  BY <1>2 DEF Limit
<1> HIDE DEF t
<1>6. TallyCounts(t)
  BY <1>3, <1>4 DEF TallyCounts, VotesAbout
<1>7. t.Votes = {v \in s.Votes : h.Number % Epoch # 0}
  BY <1>2, <1>4
<1>8. VotesAskForChange(t) /\ VotesOfSigners(t)
  BY <1>2, <1>4, <1>7 DEF VoteInv, VotesAskForChange, VotesOfSigners
<1> QED
  BY <1>2, <1>4, <1>5, <1>6, <1>7, <1>8 DEF VoteInv, Checked, t, r

(***************************************************************************)
(* A vote that passed was cast by more than half of the signers.           *)
(***************************************************************************)
LEMMA PassedByMajority ==
    ASSUME NEW s, VoteInv(s), NEW address \in Addresses, Passed(s, address),
           NEW W \in SUBSET s.Signers,
           \A v \in VotesAbout(s, address) : v.Signer \in W
    PROVE  2 * Cardinality(W) > Cardinality(s.Signers)
<1> DEFINE about == VotesAbout(s, address)
           f == [v \in about |-> v.Signer]
<1>1. IsFiniteSet(W) /\ Cardinality(W) \in Nat /\ Cardinality(s.Signers) \in Nat
  BY SignersFinite DEF VoteInv, SnapshotType
<1>2. f \in Injection(about, W)
  <2>1. f \in [about -> W]
    OBVIOUS
  <2>2. \A v, w \in about : f[v] = f[w] => v = w
    BY DEF VoteInv, VotesOfSigners, VotesAbout
  <2> QED
    BY <2>1, <2>2 DEF Injection, IsInjective
<1>3. IsFiniteSet(about) /\ Cardinality(about) <= Cardinality(W)
  BY <1>1, <1>2, FS_Injection
<1>4. Cardinality(about) \in Nat
  BY <1>3, FS_CardinalityType
<1>5. s.Tally[address].Votes = Cardinality(about)
  BY DEF VoteInv, TallyCounts
<1>6. Cardinality(about) > Cardinality(s.Signers) \div 2
  BY <1>5 DEF Passed
<1> QED
  BY <1>1, <1>3, <1>4, <1>6, SMT

\* The signer of a header that apply accepts.
LEMMA AcceptedSigner ==
    ASSUME NEW s, NEW h, ApplyError(s, h) = "nil"
    PROVE  /\ h.Number = s.Number + 1
           /\ h.Signer \in s.Signers
           /\ \A n \in DOMAIN Checked(s, h).Recents : Checked(s, h).Recents[n] # h.Signer
BY DEF ApplyError

(***************************************************************************)
(* What apply does with a header that it accepts.                          *)
(***************************************************************************)
\* The votes after a header, given the signers after it.
VotesAfter(s, h, signers) ==
    {v \in {w \in s.Votes : /\ h.Number % Epoch # 0
                            /\ ~(w.Signer = h.Signer /\ w.Address = h.Coinbase)}
              \cup NewVotes(s, h.Number, h.Signer, h.Coinbase, h.Authorize) :
        \/ signers = s.Signers
        \/ v.Address # h.Coinbase /\ v.Signer # h.Coinbase}

LEMMA ApplyFields ==
    ASSUME NEW s, VoteInv(s), NEW h \in HeaderRec, ApplyError(s, h) = "nil"
    PROVE  LET t    == apply(s, h)
               base == (DOMAIN s.Recents \ {h.Number - Limit(s)}) \cup {h.Number}
               W    == {x \in s.Signers : x = h.Signer \/
                                  \E v \in VotesAbout(s, h.Coinbase) : v.Signer = x}
           IN  /\ VoteInv(t) /\ t.Number = h.Number /\ h.Signer \in s.Signers
               /\ t.Votes = VotesAfter(s, h, t.Signers)
               /\ \A k \in DOMAIN t.Recents :
                     t.Recents[k] = IF k = h.Number THEN h.Signer ELSE s.Recents[k]
               /\ \/ t.Signers = s.Signers /\ DOMAIN t.Recents = base
                  \/ /\ 2 * Cardinality(W) > Cardinality(s.Signers)
                     /\ h.Coinbase \notin s.Signers
                     /\ t.Signers = s.Signers \cup {h.Coinbase} /\ DOMAIN t.Recents = base
                  \/ /\ 2 * Cardinality(W) > Cardinality(s.Signers)
                     /\ h.Coinbase \in s.Signers
                     /\ t.Signers = s.Signers \ {h.Coinbase}
                     /\ DOMAIN t.Recents = base \ {h.Number - Limit(t)}
<1> DEFINE c == Checked(s, h)
           r == RecordSigner(c, h.Number, h.Signer)
           d == DiscardPrevious(r, h.Signer, h.Coinbase)
           w == cast(d, h.Number, h.Signer, h.Coinbase, h.Authorize)
           e == Enact(w, h.Number, h.Coinbase)
           t == [e EXCEPT !.Number = h.Number]
           base == (DOMAIN s.Recents \ {h.Number - Limit(s)}) \cup {h.Number}
           W == {x \in s.Signers : x = h.Signer \/
                            \E v \in VotesAbout(s, h.Coinbase) : v.Signer = x}
<1>1. /\ h.Number \in Nat /\ h.Coinbase \in Addresses
      /\ h.Authorize \in BOOLEAN /\ h.Signer \in Addresses /\ h.Signer \in s.Signers
  BY AcceptedSigner DEF HeaderRec
<1>2. /\ VoteInv(c) /\ c.Signers = s.Signers
      /\ c.Votes = {v \in s.Votes : h.Number % Epoch # 0}
      /\ DOMAIN c.Recents = DOMAIN s.Recents \ {h.Number - Limit(s)}
      /\ \A k \in DOMAIN c.Recents : c.Recents[k] = s.Recents[k]
  BY CheckedFields
<1> HIDE DEF c
<1>3. /\ SnapshotType(r) /\ r.Signers = c.Signers
      /\ r.Votes = c.Votes /\ r.Tally = c.Tally
      /\ DOMAIN r.Recents = DOMAIN c.Recents \cup {h.Number}
      /\ r.Recents[h.Number] = h.Signer
      /\ \A k \in DOMAIN c.Recents : k # h.Number => r.Recents[k] = c.Recents[k]
  <2>1. SnapshotType(c)
    BY <1>2 DEF VoteInv
  <2>2. ASSUME NEW n \in Nat, NEW x \in Addresses
        PROVE  LET u == RecordSigner(c, n, x)
               IN  /\ SnapshotType(u) /\ u.Signers = c.Signers
                   /\ u.Votes = c.Votes /\ u.Tally = c.Tally
                   /\ DOMAIN u.Recents = DOMAIN c.Recents \cup {n} /\ u.Recents[n] = x
                   /\ \A k \in DOMAIN c.Recents : k # n => u.Recents[k] = c.Recents[k]
    BY <2>1, RecordFields
  <2>3. QED
    BY <1>1, <2>2, Zenon
<1> HIDE DEF r
<1>4. VoteInv(r)
  <2>1. TallyCounts(r)
    BY <1>2, <1>3 DEF VoteInv, TallyCounts, VotesAbout
  <2>2. VotesAskForChange(r) /\ VotesOfSigners(r)
    BY <1>2, <1>3 DEF VoteInv, VotesAskForChange, VotesOfSigners
  <2> QED
    BY <2>1, <2>2, <1>3 DEF VoteInv
<1>5. /\ VoteInv(d) /\ d.Signers = r.Signers /\ d.Recents = r.Recents
      /\ d.Votes = {v \in r.Votes : ~(v.Signer = h.Signer /\ v.Address = h.Coinbase)}
  <2>1. h.Signer \in Addresses /\ h.Coinbase \in Addresses
    BY <1>1
  <2>2. ASSUME NEW x \in Addresses, NEW y \in Addresses
        PROVE  LET u == DiscardPrevious(r, x, y)
               IN  /\ VoteInv(u) /\ u.Signers = r.Signers /\ u.Recents = r.Recents
                   /\ u.Votes = {v \in r.Votes : ~(v.Signer = x /\ v.Address = y)}
    BY <1>4, DiscardFields
  <2> QED
    BY <2>1, <2>2, Zenon
<1> HIDE DEF d
<1>6. h.Signer \in d.Signers
  BY <1>1, <1>2, <1>3, <1>5
<1>7. /\ VoteInv(w) /\ w.Signers = d.Signers /\ w.Recents = d.Recents
      /\ w.Votes = d.Votes \cup NewVotes(d, h.Number, h.Signer, h.Coinbase, h.Authorize)
  BY <1>1, <1>5, <1>6, CastFields
<1> HIDE DEF w
<1>8. /\ VoteInv(e)
      /\ \/ e = w
         \/ /\ Passed(w, h.Coinbase) /\ h.Coinbase \notin w.Signers
            /\ e.Signers = w.Signers \cup {h.Coinbase}
            /\ e.Votes = {v \in w.Votes : v.Address # h.Coinbase}
            /\ e.Recents = w.Recents
         \/ /\ Passed(w, h.Coinbase) /\ h.Coinbase \in w.Signers
            /\ e.Signers = w.Signers \ {h.Coinbase}
            /\ e.Votes = {v \in w.Votes : v.Signer # h.Coinbase /\ v.Address # h.Coinbase}
            /\ DOMAIN e.Recents = DOMAIN w.Recents \ {h.Number - Limit(e)}
            /\ \A k \in DOMAIN e.Recents : e.Recents[k] = w.Recents[k]
  <2>1. h.Number \in Nat /\ h.Coinbase \in Addresses
    BY <1>1
  <2>2. ASSUME NEW n \in Nat, NEW y \in Addresses
        PROVE  LET u == Enact(w, n, y)
               IN  /\ VoteInv(u)
                   /\ \/ u = w
                      \/ /\ Passed(w, y) /\ y \notin w.Signers
                         /\ u.Signers = w.Signers \cup {y}
                         /\ u.Votes = {v \in w.Votes : v.Address # y}
                         /\ u.Recents = w.Recents
                      \/ /\ Passed(w, y) /\ y \in w.Signers
                         /\ u.Signers = w.Signers \ {y}
                         /\ u.Votes = {v \in w.Votes : v.Signer # y /\ v.Address # y}
                         /\ DOMAIN u.Recents = DOMAIN w.Recents \ {n - Limit(u)}
                         /\ \A k \in DOMAIN u.Recents : u.Recents[k] = w.Recents[k]
    BY <1>7, EnactFields
  <2> QED
    BY <2>1, <2>2, Zenon
<1> HIDE DEF e
<1>9. /\ VoteInv(t) /\ t.Number = h.Number /\ t.Signers = e.Signers
      /\ t.Recents = e.Recents /\ t.Votes = e.Votes
  BY <1>1, <1>8, NumberFields
<1> HIDE DEF t
<1>10. Limit(t) = Limit(e)
  BY <1>9 DEF Limit
<1>11. w.Signers = s.Signers /\ DOMAIN w.Recents = base
  BY <1>2, <1>3, <1>5, <1>7
<1>12. \A k \in DOMAIN w.Recents :
          w.Recents[k] = IF k = h.Number THEN h.Signer ELSE s.Recents[k]
  BY <1>2, <1>3, <1>5, <1>7
<1>13. Passed(w, h.Coinbase) => 2 * Cardinality(W) > Cardinality(s.Signers)
  <2> SUFFICES ASSUME Passed(w, h.Coinbase)
               PROVE  2 * Cardinality(W) > Cardinality(s.Signers)
    OBVIOUS
  <2>1. W \in SUBSET w.Signers
    BY <1>11
  <2>2. ASSUME NEW v \in VotesAbout(w, h.Coinbase) PROVE v.Signer \in W
    <3>1. v \in w.Votes /\ v.Address = h.Coinbase
      BY DEF VotesAbout
    <3>2. v.Signer \in s.Signers
      BY <3>1, <1>7, <1>11 DEF VoteInv, VotesOfSigners
    <3>3. v \in s.Votes \/ v.Signer = h.Signer
      BY <3>1, <1>2, <1>3, <1>5, <1>7 DEF NewVotes
    <3> QED
      BY <3>1, <3>2, <3>3 DEF VotesAbout
  <2> HIDE DEF W
  <2> QED
    BY <2>1, <2>2, <1>1, <1>7, <1>11, PassedByMajority
<1>14. apply(s, h) = t
  BY DEF apply, t, e, w, d, r, c
<1>15. \A k \in DOMAIN t.Recents :
          t.Recents[k] = IF k = h.Number THEN h.Signer ELSE s.Recents[k]
  BY <1>8, <1>9, <1>12
<1>16. \/ t.Signers = s.Signers /\ DOMAIN t.Recents = base
       \/ /\ 2 * Cardinality(W) > Cardinality(s.Signers)
          /\ h.Coinbase \notin s.Signers
          /\ t.Signers = s.Signers \cup {h.Coinbase} /\ DOMAIN t.Recents = base
       \/ /\ 2 * Cardinality(W) > Cardinality(s.Signers)
          /\ h.Coinbase \in s.Signers
          /\ t.Signers = s.Signers \ {h.Coinbase}
          /\ DOMAIN t.Recents = base \ {h.Number - Limit(t)}
  <2> HIDE DEF W, base
  <2> QED
    BY <1>8, <1>9, <1>10, <1>11, <1>13
<1>17. t.Votes = VotesAfter(s, h, t.Signers)
  <2>1. d.Votes = {v \in s.Votes : /\ h.Number % Epoch # 0
                                   /\ ~(v.Signer = h.Signer /\ v.Address = h.Coinbase)}
    BY <1>2, <1>3, <1>5
  <2>2. d.Signers = s.Signers
    BY <1>2, <1>3, <1>5
  <2>3. w.Votes = {v \in s.Votes : /\ h.Number % Epoch # 0
                                   /\ ~(v.Signer = h.Signer /\ v.Address = h.Coinbase)}
                     \cup NewVotes(s, h.Number, h.Signer, h.Coinbase, h.Authorize)
    BY <1>7, <2>1, <2>2 DEF NewVotes
  <2>4. \A v \in w.Votes : v.Signer \in s.Signers
    BY <1>7, <1>11 DEF VoteInv, VotesOfSigners
  <2>5. VotesAfter(s, h, t.Signers) =
          {v \in w.Votes : \/ t.Signers = s.Signers
                           \/ v.Address # h.Coinbase /\ v.Signer # h.Coinbase}
    BY <2>3 DEF VotesAfter
  <2> QED
    BY <2>4, <2>5, <1>8, <1>9, <1>11
<1> HIDE DEF W, base
<1> QED
  BY <1>1, <1>9, <1>14, <1>15, <1>16, <1>17 DEF W, base

----------------------------------------------------------------------------
(***************************************************************************)
(* The inductive invariant: the votes are sound, Recents is exactly the    *)
(* window of recent signers, and no ballot is of a later block.            *)
(***************************************************************************)
BallotsPast == \A s, a \in Addresses : ballot[s][a].Number <= snap.Number

SnapshotInv == SnapshotTypeOK /\ VoteInv(snap) /\ RecentsWindow /\ BallotsPast

LEMMA SnapshotInitInv == SnapshotInit => SnapshotInv
<1> SUFFICES ASSUME SnapshotInit PROVE SnapshotInv
  OBVIOUS
<1>1. /\ snap.Number = 0 /\ snap.Signers = InitSigners /\ snap.Votes = {}
      /\ snap.Recents = [n \in {} |-> ZeroAddress]
      /\ snap.Tally = [a \in Addresses |-> NoTally]
      /\ snap = [Number |-> snap.Number, Signers |-> snap.Signers, Recents |-> snap.Recents,
                 Votes |-> snap.Votes, Tally |-> snap.Tally]
  BY DEF SnapshotInit, newSnapshot
<1>2. [a \in Addresses |-> NoTally] \in [Addresses -> TallyRec]
  BY DEF NoTally, TallyRec
<1>3. DOMAIN snap.Recents = {}
  BY <1>1
<1>4. SnapshotType(snap)
  BY <1>1, <1>2, <1>3, SignersAssumption, FS_EmptySet DEF SnapshotType
<1>5. SnapshotTypeOK
  BY <1>4 DEF SnapshotTypeOK, SnapshotInit
<1>6. TallyCounts(snap)
  BY <1>1, FS_EmptySet DEF TallyCounts, VotesAbout, NoTally
<1>7. VotesAskForChange(snap) /\ VotesOfSigners(snap)
  BY <1>1 DEF VotesAskForChange, VotesOfSigners
<1>8. RecentsWindow
  BY <1>3 DEF RecentsWindow, SnapshotInit
<1>9. BallotsPast
  BY <1>1 DEF BallotsPast, SnapshotInit
<1> QED
  BY <1>4, <1>5, <1>6, <1>7, <1>8, <1>9 DEF SnapshotInv, VoteInv

\* How the limit follows the number of signers.
LEMMA LimitStep ==
    ASSUME NEW s, SnapshotType(s), NEW t, SnapshotType(t), NEW a \in Addresses
    PROVE  /\ t.Signers = s.Signers => Limit(t) = Limit(s)
           /\ a \notin s.Signers /\ t.Signers = s.Signers \cup {a}
                 => Limit(t) \in {Limit(s), Limit(s) + 1}
           /\ a \in s.Signers /\ t.Signers = s.Signers \ {a}
                 => Limit(t) \in {Limit(s), Limit(s) - 1}
<1>1. IsFiniteSet(s.Signers) /\ Cardinality(s.Signers) \in Nat
  BY SignersFinite DEF SnapshotType
<1>2. ASSUME a \notin s.Signers, t.Signers = s.Signers \cup {a}
      PROVE  Limit(t) \in {Limit(s), Limit(s) + 1}
  <2>1. Cardinality(t.Signers) = Cardinality(s.Signers) + 1
    BY <1>1, <1>2, FS_AddElement
  <2> QED
    BY <1>1, <2>1, SMT DEF Limit
<1>3. ASSUME a \in s.Signers, t.Signers = s.Signers \ {a}
      PROVE  Limit(t) \in {Limit(s), Limit(s) - 1}
  <2>1. Cardinality(t.Signers) = Cardinality(s.Signers) - 1
    BY <1>1, <1>3, FS_RemoveElement
  <2>2. Cardinality(t.Signers) \in Nat
    BY SignersFinite DEF SnapshotType
  <2> QED
    BY <1>1, <2>1, <2>2, SMT DEF Limit
<1> QED
  BY <1>2, <1>3 DEF Limit

\* Every step appends a header.
LEMMA NextHeader == SnapshotTypeOK /\ SnapshotNext => \E h \in HeaderRec : AppendHeader(h)
<1> SUFFICES ASSUME SnapshotTypeOK, SnapshotNext PROVE \E h \in HeaderRec : AppendHeader(h)
  OBVIOUS
<1>1. PICK signer \in snap.Signers, coinbase \in Addresses, authorize \in BOOLEAN :
         AppendHeader([Number |-> snap.Number + 1, Coinbase |-> coinbase,
                       Authorize |-> authorize, Signer |-> signer])
  BY DEF SnapshotNext
<1>2. [Number |-> snap.Number + 1, Coinbase |-> coinbase,
       Authorize |-> authorize, Signer |-> signer] \in HeaderRec
  BY DEF SnapshotTypeOK, SnapshotType, HeaderRec
<1> QED
  BY <1>1, <1>2

LEMMA SnapshotNextInv == SnapshotInv /\ [SnapshotNext]_snapshotVars => SnapshotInv'
<1> SUFFICES ASSUME SnapshotInv, [SnapshotNext]_snapshotVars PROVE SnapshotInv'
  OBVIOUS
<1>1. CASE UNCHANGED snapshotVars
  <2>1. snap' = snap /\ ballot' = ballot /\ sealed' = sealed /\ changed' = changed
    BY <1>1 DEF snapshotVars
  <2>2. SnapshotTypeOK' /\ VoteInv(snap)'
    BY <2>1 DEF SnapshotInv, SnapshotTypeOK
  <2>3. RecentsWindow'
    BY <2>1 DEF SnapshotInv, RecentsWindow
  <2>4. BallotsPast'
    BY <2>1 DEF SnapshotInv, BallotsPast
  <2> QED
    BY <2>2, <2>3, <2>4 DEF SnapshotInv
<1>2. ASSUME NEW h \in HeaderRec, AppendHeader(h) PROVE SnapshotInv'
  <2> DEFINE n == h.Number
             L == Limit(snap)
             base == (DOMAIN snap.Recents \ {n - L}) \cup {n}
  <2>1. VoteInv(snap) /\ SnapshotType(snap) /\ ApplyError(snap, h) = "nil"
        /\ snap' = apply(snap, h)
    BY <1>2 DEF AppendHeader, SnapshotInv, VoteInv
  <2>2. /\ n = snap.Number + 1 /\ n \in Nat /\ h.Signer \in Addresses
        /\ h.Coinbase \in Addresses /\ h.Authorize \in BOOLEAN
        /\ snap.Number \in Nat
        /\ \A k \in DOMAIN Checked(snap, h).Recents : Checked(snap, h).Recents[k] # h.Signer
    BY <2>1, AcceptedSigner DEF HeaderRec, SnapshotType
  <2>3. /\ VoteInv(snap') /\ snap'.Number = n
        /\ \A k \in DOMAIN snap'.Recents :
              snap'.Recents[k] = IF k = n THEN h.Signer ELSE snap.Recents[k]
        /\ \/ snap'.Signers = snap.Signers /\ DOMAIN snap'.Recents = base
           \/ /\ h.Coinbase \notin snap.Signers
              /\ snap'.Signers = snap.Signers \cup {h.Coinbase} /\ DOMAIN snap'.Recents = base
           \/ /\ h.Coinbase \in snap.Signers
              /\ snap'.Signers = snap.Signers \ {h.Coinbase}
              /\ DOMAIN snap'.Recents = base \ {n - Limit(snap')}
    <3>1. VoteInv(snap)
      BY <2>1
    <3>2. ApplyError(snap, h) = "nil"
      BY <2>1
    <3> DEFINE t == apply(snap, h)
    <3>3. /\ VoteInv(t) /\ t.Number = n
          /\ \A k \in DOMAIN t.Recents :
                t.Recents[k] = IF k = n THEN h.Signer ELSE snap.Recents[k]
          /\ \/ t.Signers = snap.Signers /\ DOMAIN t.Recents = base
             \/ /\ h.Coinbase \notin snap.Signers
                /\ t.Signers = snap.Signers \cup {h.Coinbase} /\ DOMAIN t.Recents = base
             \/ /\ h.Coinbase \in snap.Signers
                /\ t.Signers = snap.Signers \ {h.Coinbase}
                /\ DOMAIN t.Recents = base \ {n - Limit(t)}
      BY <3>1, <3>2, ApplyFields, ZenonT(60)
    <3>4. snap' = t
      BY <2>1
    <3> HIDE DEF t
    <3> QED
      BY <3>3, <3>4
  <2>4. SnapshotType(snap')
    BY <2>3 DEF VoteInv
  <2>5. SnapshotTypeOK'
    <3>1. sealed' \in [Addresses -> Nat] /\ changed' \in [Addresses -> Nat]
      BY <1>2, <2>2 DEF AppendHeader, SnapshotInv, SnapshotTypeOK
    <3>2. ballot' \in [Addresses -> [Addresses -> [Number : Nat, Authorize : BOOLEAN]]]
      BY <1>2, <2>2 DEF AppendHeader, SnapshotInv, SnapshotTypeOK
    <3> QED
      BY <2>4, <3>1, <3>2 DEF SnapshotTypeOK
  <2>6. /\ sealed \in [Addresses -> Nat]
        /\ sealed' = [sealed EXCEPT ![h.Signer] = n]
    BY <1>2 DEF AppendHeader, SnapshotInv, SnapshotTypeOK
  <2>7. L \in Nat \ {0} /\ Limit(snap') \in Nat \ {0}
    BY <2>1, <2>4, LimitType
  <2>8. \/ Limit(snap') \in {L, L + 1} /\ DOMAIN snap'.Recents = base
        \/ Limit(snap') \in {L, L - 1} /\ DOMAIN snap'.Recents = base \ {n - Limit(snap')}
    BY <2>1, <2>2, <2>3, <2>4, LimitStep
  <2>9. /\ \A k \in DOMAIN snap.Recents :
              /\ k \in 1..snap.Number /\ k > snap.Number - L
              /\ sealed[snap.Recents[k]] = k /\ snap.Recents[k] \in Addresses
        /\ \A s \in Addresses :
              sealed[s] > 0 /\ sealed[s] > snap.Number + 1 - L
                 => sealed[s] \in DOMAIN snap.Recents /\ snap.Recents[sealed[s]] = s
    BY <2>1 DEF SnapshotInv, RecentsWindow, SnapshotType
  <2>10. \A k \in DOMAIN snap.Recents \ {n - L} : snap.Recents[k] # h.Signer
    BY <2>1, <2>2, CheckedFields
  <2>11. ASSUME NEW k \in DOMAIN snap'.Recents
         PROVE  /\ k \in 1..snap'.Number /\ k > snap'.Number - Limit(snap')
                /\ sealed'[snap'.Recents[k]] = k
    <3>1. k \in base
      BY <2>8
    <3>2. CASE k = n
      BY <3>2, <2>2, <2>3, <2>6, <2>7
    <3>3. CASE k # n
      <4>1. k \in DOMAIN snap.Recents /\ k # n - L
        BY <3>1, <3>3
      <4>2. k \in 1..snap.Number /\ k > n - L
        BY <4>1, <2>2, <2>7, <2>9
      <4>3. snap'.Recents[k] = snap.Recents[k] /\ snap.Recents[k] # h.Signer
            /\ snap.Recents[k] \in Addresses
        BY <4>1, <3>3, <2>3, <2>9, <2>10
      <4>4. sealed'[snap'.Recents[k]] = k
        BY <4>1, <4>3, <2>6, <2>9
      <4>5. k > n - Limit(snap')
        BY <4>2, <2>8, <2>7, <2>2
      <4> QED
        BY <4>2, <4>4, <4>5, <2>2, <2>3
    <3> QED
      BY <3>2, <3>3
  <2>12. ASSUME NEW s \in Addresses,
                sealed'[s] > 0, sealed'[s] > snap'.Number + 1 - Limit(snap')
         PROVE  sealed'[s] \in DOMAIN snap'.Recents /\ snap'.Recents[sealed'[s]] = s
    <3>1. CASE s = h.Signer
      <4>1. sealed'[s] = n
        BY <3>1, <2>6
      <4>2. n \in DOMAIN snap'.Recents
        BY <2>2, <2>7, <2>8
      <4> QED
        BY <4>1, <4>2, <3>1, <2>3
    <3>2. CASE s # h.Signer
      <4>1. sealed'[s] = sealed[s] /\ sealed[s] \in Nat
        BY <3>2, <2>6
      <4>2. sealed[s] > snap.Number + 1 - L /\ sealed[s] > 0
        BY <4>1, <2>12, <2>2, <2>3, <2>7, <2>8
      <4>3. /\ sealed[s] \in DOMAIN snap.Recents /\ snap.Recents[sealed[s]] = s
            /\ sealed[s] \in 1..snap.Number
        BY <4>2, <2>9
      <4>4. sealed[s] \in DOMAIN snap'.Recents /\ sealed[s] # n
        BY <4>1, <4>2, <4>3, <2>12, <2>2, <2>3, <2>7, <2>8
      <4> QED
        BY <4>1, <4>3, <4>4, <2>3
    <3> QED
      BY <3>1, <3>2
  <2>13. RecentsWindow'
    BY <2>11, <2>12 DEF RecentsWindow
  <2>14. BallotsPast'
    <3>1. ballot' = [ballot EXCEPT ![h.Signer][h.Coinbase] =
                        [Number |-> n, Authorize |-> h.Authorize]]
      BY <1>2 DEF AppendHeader
    <3>2. \A s, a \in Addresses : ballot[s][a].Number \in Nat /\ ballot[s][a].Number <= snap.Number
      BY DEF SnapshotInv, SnapshotTypeOK, BallotsPast
    <3>3. ASSUME NEW s \in Addresses, NEW a \in Addresses
          PROVE  ballot'[s][a].Number <= n
      <4>1. ballot'[s][a].Number \in {n, ballot[s][a].Number}
        BY <3>1, <2>2 DEF SnapshotInv, SnapshotTypeOK
      <4> QED
        BY <4>1, <3>2, <2>2
    <3> QED
      BY <3>3, <2>3 DEF BallotsPast
  <2> QED
    BY <2>3, <2>5, <2>13, <2>14 DEF SnapshotInv
<1>3. SnapshotNext => \E h \in HeaderRec : AppendHeader(h)
  BY NextHeader DEF SnapshotInv
<1> QED
  BY <1>1, <1>2, <1>3

(***************************************************************************)
(* The inductive invariant holds of every chain.                           *)
(***************************************************************************)
THEOREM SnapshotInvariance == SnapshotSpec => []SnapshotInv
BY SnapshotInitInv, SnapshotNextInv, PTL DEF SnapshotSpec

(***************************************************************************)
(* The snapshot that apply builds always has the shape of the Go struct.   *)
(***************************************************************************)
THEOREM TypeCorrect == SnapshotSpec => []SnapshotTypeOK
<1>1. SnapshotInv => SnapshotTypeOK
  BY DEF SnapshotInv
<1> QED
  BY <1>1, SnapshotInvariance, PTL

(***************************************************************************)
(* The cached tally is always the count of the standing votes, and every   *)
(* one of them asks for a change that is possible.                         *)
(***************************************************************************)
THEOREM TallyCorrect == SnapshotSpec => []TallyMatchesVotes
<1>1. SnapshotInv => TallyMatchesVotes
  BY DEF SnapshotInv, VoteInv, TallyMatchesVotes
<1> QED
  BY <1>1, SnapshotInvariance, PTL

(***************************************************************************)
(* Only current signers have standing votes, one for each account.         *)
(***************************************************************************)
THEOREM OneVoteCorrect == SnapshotSpec => []OneVotePerSigner
<1>1. SnapshotInv => OneVotePerSigner
  BY DEF SnapshotInv, VoteInv, OneVotePerSigner
<1> QED
  BY <1>1, SnapshotInvariance, PTL

(***************************************************************************)
(* Recents is exactly the window in which a signer may not sign again.     *)
(***************************************************************************)
THEOREM RecentsCorrect == SnapshotSpec => []RecentsWindow
<1>1. SnapshotInv => RecentsWindow
  BY DEF SnapshotInv
<1> QED
  BY <1>1, SnapshotInvariance, PTL

----------------------------------------------------------------------------
\* A signer that Seal refuses has its last block within the window.
LEMMA RecentSealed ==
    ASSUME SnapshotInv, NEW x \in Addresses, RecentForSeal(snap, snap.Number + 1, x)
    PROVE  /\ sealed[x] \in (snap.Number + 2 - Limit(snap)) .. snap.Number
           /\ snap.Recents[sealed[x]] = x
<1>1. /\ snap.Number \in Nat /\ Limit(snap) \in Nat \ {0}
      /\ \A k \in DOMAIN snap.Recents :
            k \in 1..snap.Number /\ sealed[snap.Recents[k]] = k
  BY LimitType DEF SnapshotInv, SnapshotTypeOK, SnapshotType, RecentsWindow
<1>2. PICK k \in DOMAIN snap.Recents :
         /\ snap.Recents[k] = x
         /\ \/ snap.Number + 1 < Limit(snap)
            \/ k > snap.Number + 1 - Limit(snap)
  BY <1>1, SMT DEF RecentForSeal
<1>3. k = sealed[x] /\ k \in 1..snap.Number
  BY <1>1, <1>2
<1>4. k \in (snap.Number + 2 - Limit(snap)) .. snap.Number
  <2>1. k \in Int /\ k >= 1 /\ k <= snap.Number
    BY <1>3
  <2> QED
    BY <2>1, <1>1, <1>2
<1> QED
  BY <1>2, <1>3, <1>4

(***************************************************************************)
(* On every chain some signer may seal the next block: the window holds at *)
(* most half of the signers, so they cannot all have sealed within it.     *)
(***************************************************************************)
THEOREM ExtensionPossible == SnapshotSpec => []SomeoneCanExtend
<1>1. SnapshotInv => SomeoneCanExtend
  <2> SUFFICES ASSUME SnapshotInv, snap.Signers # {},
                      \A signer \in Addresses : ~CanExtend(snap, signer)
               PROVE  FALSE
    BY DEF SomeoneCanExtend
  <2> DEFINE S == snap.Signers
             T == (snap.Number + 2 - Limit(snap)) .. snap.Number
             f == [s \in S |-> sealed[s]]
  <2>1. SnapshotType(snap) /\ S \subseteq Addresses /\ snap.Number \in Nat
    BY DEF SnapshotInv, SnapshotTypeOK, SnapshotType
  <2>2. IsFiniteSet(S) /\ Cardinality(S) \in Nat /\ Limit(snap) \in Nat \ {0}
    BY <2>1, SignersFinite, LimitType
  <2>3. Cardinality(S) # 0
    BY <2>2, FS_EmptySet
  <2>4. \A s \in S : sealed[s] \in T /\ snap.Recents[sealed[s]] = s
    BY <2>1, RecentSealed DEF CanExtend
  <2>5. IsFiniteSet(T) /\ Cardinality(T) = Limit(snap) - 1
    <3> DEFINE a == snap.Number + 2 - Limit(snap)
               b == snap.Number
    <3>1. a \in Int /\ b \in Int /\ b - a + 1 = Limit(snap) - 1 /\ (a > b => Limit(snap) - 1 = 0)
      BY <2>1, <2>2
    <3> HIDE DEF a, b
    <3>2. IsFiniteSet(a..b) /\ Cardinality(a..b) = Limit(snap) - 1
      BY <3>1, FS_Interval
    <3> QED
      BY <3>2 DEF a, b
  <2>6. Cardinality(T) < Cardinality(S)
    BY <2>2, <2>3, <2>5 DEF Limit
  <2>7. f \in [S -> T]
    BY <2>4
  <2> HIDE DEF S, T, f
  <2>8. \E x, y \in S : x # y /\ f[x] = f[y]
    BY <2>2, <2>5, <2>6, <2>7, FS_PigeonHole
  <2> QED
    BY <2>8, <2>4 DEF f
<1> QED
  BY <1>1, SnapshotInvariance, PTL

(***************************************************************************)
(* A header that Seal lets a node sign passes verifySeal and apply at      *)
(* every other node with the same chain, for any set of signers.           *)
(***************************************************************************)
THEOREM SealAgreesWithApply == SnapshotSpec => []SealedHeadersApply
<1>1. SnapshotInv => SealedHeadersApply
  <2> SUFFICES ASSUME SnapshotInv, NEW signer \in Addresses, CanExtend(snap, signer),
                      NEW h, h = [Number |-> snap.Number + 1, Coinbase |-> ZeroAddress,
                                  Authorize |-> FALSE, Signer |-> signer]
               PROVE  verifySeal(snap, h) /\ ApplyError(snap, h) = "nil"
    BY DEF SealedHeadersApply
  <2>1. /\ snap.Number \in Nat /\ Limit(snap) \in Nat \ {0} /\ VoteInv(snap)
        /\ \A k \in DOMAIN snap.Recents :
              k \in 1..snap.Number /\ k > snap.Number - Limit(snap)
    BY LimitType DEF SnapshotInv, SnapshotTypeOK, SnapshotType, RecentsWindow
  <2>2. /\ h \in HeaderRec /\ h.Number = snap.Number + 1 /\ h.Signer = signer
        /\ signer \in snap.Signers
    BY <2>1, AddressesAssumption DEF HeaderRec, CanExtend
  <2>3. ASSUME NEW k \in DOMAIN snap.Recents, k # h.Number - Limit(snap)
        PROVE  snap.Recents[k] # signer
    BY <2>1, <2>2, <2>3 DEF CanExtend, RecentForSeal
  <2>4. verifySeal(snap, h)
    BY <2>1, <2>2, <2>3 DEF verifySeal, RecentForVerify
  <2>5. /\ DOMAIN Checked(snap, h).Recents = DOMAIN snap.Recents \ {h.Number - Limit(snap)}
        /\ \A k \in DOMAIN Checked(snap, h).Recents :
              Checked(snap, h).Recents[k] = snap.Recents[k]
    BY <2>1, <2>2, CheckedFields
  <2>6. ~ \E k \in DOMAIN Checked(snap, h).Recents : Checked(snap, h).Recents[k] = h.Signer
    BY <2>2, <2>3, <2>5
  <2>7. ApplyError(snap, h) = "nil"
    BY <2>2, <2>6 DEF ApplyError
  <2> QED
    BY <2>4, <2>7
<1> QED
  BY <1>1, SnapshotInvariance, PTL

(***************************************************************************)
(* Whatever the signers vote, a step changes at most one account's         *)
(* authorization, and only with a strict majority of the signers behind it.*)
(***************************************************************************)
THEOREM MajorityRules == SnapshotSpec => ChangeNeedsMajority
<1>1. ASSUME SnapshotInv, SnapshotNext PROVE MajorityStep
  <2>1. PICK h \in HeaderRec : AppendHeader(h)
    BY <1>1, NextHeader DEF SnapshotInv
  <2> DEFINE t == apply(snap, h)
             W == {x \in snap.Signers : x = h.Signer \/
                              \E v \in VotesAbout(snap, h.Coinbase) : v.Signer = x}
  <2>2. VoteInv(snap)
    BY <1>1 DEF SnapshotInv
  <2>3. ApplyError(snap, h) = "nil"
    BY <2>1 DEF AppendHeader
  <2>4. \/ t.Signers = snap.Signers
        \/ /\ 2 * Cardinality(W) > Cardinality(snap.Signers)
           /\ t.Signers = snap.Signers \cup {h.Coinbase}
        \/ /\ 2 * Cardinality(W) > Cardinality(snap.Signers)
           /\ t.Signers = snap.Signers \ {h.Coinbase}
    BY <2>2, <2>3, ApplyFields
  <2>5. snap' = t
    BY <2>1 DEF AppendHeader
  <2>6. /\ h.Signer \in snap.Signers /\ h.Signer \in Addresses /\ h.Coinbase \in Addresses
        /\ h.Number = snap.Number + 1 /\ snap.Number \in Nat
    BY <1>1, <2>3, AcceptedSigner DEF HeaderRec, SnapshotInv, SnapshotTypeOK, SnapshotType
  <2>7. h.Signer \in JustVoted
    <3>1. ballot'[h.Signer][h.Coinbase].Number = h.Number
      BY <1>1, <2>1, <2>6 DEF AppendHeader, SnapshotInv, SnapshotTypeOK
    <3>2. ballot[h.Signer][h.Coinbase].Number # h.Number
      BY <1>1, <2>6 DEF SnapshotInv, SnapshotTypeOK, BallotsPast
    <3> QED
      BY <3>1, <3>2, <2>6 DEF JustVoted
  <2>8. IsFiniteSet(HadVote(h.Coinbase) \cup JustVoted)
    <3>1. HadVote(h.Coinbase) \cup JustVoted \in SUBSET Addresses
      BY <1>1 DEF SnapshotInv, SnapshotTypeOK, SnapshotType, HadVote, JustVoted
    <3> QED
      BY <3>1, SignersFinite
  <2>9. W \in SUBSET (HadVote(h.Coinbase) \cup JustVoted)
    BY <2>7 DEF HadVote
  <2>10. /\ Cardinality(W) \in Nat /\ Cardinality(HadVote(h.Coinbase) \cup JustVoted) \in Nat
         /\ Cardinality(W) <= Cardinality(HadVote(h.Coinbase) \cup JustVoted)
         /\ Cardinality(snap.Signers) \in Nat
    <3>1. Cardinality(snap.Signers) \in Nat
      BY <1>1, SignersFinite DEF SnapshotInv, SnapshotTypeOK, SnapshotType
    <3> HIDE DEF W
    <3> QED
      BY <3>1, <2>8, <2>9, FS_Subset, FS_CardinalityType
  <2> HIDE DEF t, W
  <2>11. ASSUME NEW a \in Addresses, (a \in snap.Signers) # (a \in snap'.Signers)
         PROVE  MajorityBehind(a)
    <3>1. /\ a = h.Coinbase
          /\ 2 * Cardinality(W) > Cardinality(snap.Signers)
          /\ \A b \in Addresses \ {a} : (b \in snap.Signers) = (b \in snap'.Signers)
      BY <2>4, <2>5, <2>11
    <3>2. 2 * Cardinality(HadVote(a) \cup JustVoted) > Cardinality(snap.Signers)
      BY <3>1, <2>10
    <3> QED
      BY <3>1, <3>2 DEF MajorityBehind
  <2> QED
    BY <2>11 DEF MajorityStep
<1>2. SnapshotInv /\ [SnapshotNext]_snapshotVars => [MajorityStep]_snapshotVars
  BY <1>1
<1> QED
  BY <1>2, SnapshotInvariance, PTL DEF SnapshotSpec, ChangeNeedsMajority

(***************************************************************************)
(* cast, uncast and apply keep the votes and the cached tally in step, and *)
(* leave at most one vote of a signer about an account (snapshot.go).      *)
(***************************************************************************)
THEOREM VotesCorrect == SnapshotSpec => []VotesSound
<1>1. SnapshotTypeOK /\ TallyMatchesVotes /\ OneVotePerSigner => VotesSound
  BY DEF VotesSound
<1> QED
  BY <1>1, TypeCorrect, TallyCorrect, OneVoteCorrect, PTL

(***************************************************************************)
(* Recents is right for the recent-signer tests of apply, verifySeal and   *)
(* Seal, and never makes every signer wait (snapshot.go, clique.go).       *)
(***************************************************************************)
THEOREM RecentsSafe == SnapshotSpec => []RecentsSound
<1>1. RecentsWindow /\ SomeoneCanExtend /\ SealedHeadersApply => RecentsSound
  BY DEF RecentsSound
<1> QED
  BY <1>1, RecentsCorrect, ExtensionPossible, SealAgreesWithApply, PTL

----------------------------------------------------------------------------
\* Until the next checkpoint the epoch does not move.
LEMMA EpochStep ==
    ASSUME NEW k \in Nat
    PROVE  /\ k % Epoch \in 0 .. k
           /\ (k + 1) % Epoch # 0 => (k + 1) - ((k + 1) % Epoch) = k - (k % Epoch)
<1> DEFINE e == Epoch
           q == k \div e
           r == k % e
           q1 == (k + 1) \div e
           r1 == (k + 1) % e
<1>0. e \in Nat /\ e > 0
  BY EpochAssumption
<1> HIDE DEF e
<1>1. q \in Int /\ r \in 0 .. e - 1 /\ k = e * q + r /\ r <= k
  BY <1>0
<1>2. q1 \in Int /\ r1 \in 0 .. e - 1 /\ k + 1 = e * q1 + r1
  BY <1>0
<1> HIDE DEF q, r, q1, r1
<1>3. e * (q1 - q) = 1 + r - r1
  BY <1>0, <1>1, <1>2
<1>4. ASSUME r1 # 0 PROVE q1 = q
  <2>1. CASE q1 - q >= 1
    <3>1. e * (q1 - q) >= e
      BY <1>0, <1>1, <1>2, <2>1
    <3> QED
      BY <1>0, <1>1, <1>2, <1>3, <1>4, <3>1
  <2>2. CASE q1 - q <= -1
    <3>1. e * (q1 - q) <= -e
      BY <1>0, <1>1, <1>2, <2>2
    <3> QED
      BY <1>0, <1>1, <1>2, <1>3, <1>4, <3>1
  <2> QED
    BY <1>1, <1>2, <2>1, <2>2
<1>5. ASSUME r1 # 0 PROVE (k + 1) - r1 = k - r
  <2>1. e * (q1 - q) = 0
    BY <1>0, <1>1, <1>4, <1>5
  <2> QED
    BY <1>1, <1>2, <1>3, <2>1
<1> QED
  BY <1>1, <1>5 DEF r, r1, e

\* No account changed later than the head of the chain.
ChangedPast == \A a \in Addresses : changed[a] <= snap.Number

\* The vote that the last header of s about a stands for.
BallotVote(s, a) ==
    [Signer |-> s, Block |-> ballot[s][a].Number, Address |-> a,
     Authorize |-> ballot[s][a].Authorize]

\* The list of votes and the standing ballots, one signer and account at a time.
BallotsListed ==
    /\ \A v \in snap.Votes : Stands(v.Signer, v.Address) /\ v = BallotVote(v.Signer, v.Address)
    /\ \A s, a \in Addresses : Stands(s, a) => BallotVote(s, a) \in snap.Votes

LEMMA ListedIsMatch == SnapshotTypeOK => (BallotsListed <=> VotesMatchHeaders)
<1> SUFFICES ASSUME SnapshotTypeOK PROVE BallotsListed <=> VotesMatchHeaders
  OBVIOUS
<1>1. \A v \in snap.Votes : v.Signer \in Addresses /\ v.Address \in Addresses
  BY DEF SnapshotTypeOK, SnapshotType, VoteRec
<1>2. \A v : v \in StandingVotes <=>
              \E s, a \in Addresses : Stands(s, a) /\ v = BallotVote(s, a)
  <2> DEFINE P == {q \in Addresses \X Addresses : Stands(q[1], q[2])}
  <2>1. StandingVotes = {BallotVote(p[1], p[2]) : p \in P}
    BY DEF StandingVotes, BallotVote
  <2>2. ASSUME NEW s \in Addresses, NEW a \in Addresses, Stands(s, a)
        PROVE  BallotVote(s, a) \in StandingVotes
    <3>1. <<s, a>> \in P
      BY <2>2
    <3> QED
      BY <2>1, <3>1
  <2>3. ASSUME NEW v \in StandingVotes
        PROVE  \E s, a \in Addresses : Stands(s, a) /\ v = BallotVote(s, a)
    <3>1. PICK p \in P : v = BallotVote(p[1], p[2])
      BY <2>1
    <3>2. p[1] \in Addresses /\ p[2] \in Addresses /\ Stands(p[1], p[2])
      OBVIOUS
    <3> QED
      BY <3>1, <3>2
  <2> QED
    BY <2>2, <2>3
<1>3. \A s, a : BallotVote(s, a).Signer = s /\ BallotVote(s, a).Address = a
  BY DEF BallotVote
<1>4. ASSUME BallotsListed PROVE VotesMatchHeaders
  BY <1>1, <1>2, <1>4 DEF BallotsListed, VotesMatchHeaders
<1>5. ASSUME VotesMatchHeaders PROVE BallotsListed
  BY <1>2, <1>3, <1>5 DEF BallotsListed, VotesMatchHeaders
<1> QED
  BY <1>4, <1>5

LEMMA InitListed == SnapshotInit => ChangedPast /\ BallotsListed
BY DEF SnapshotInit, newSnapshot, ChangedPast, BallotsListed, Stands

(***************************************************************************)
(* One header: its own vote is listed exactly when it stands, a passed     *)
(* vote and a checkpoint take away exactly the votes that no longer stand, *)
(* and every other vote and ballot keeps its standing.                     *)
(***************************************************************************)
LEMMA NextListed ==
    SnapshotInv /\ ChangedPast /\ BallotsListed /\ [SnapshotNext]_snapshotVars => ChangedPast' /\ BallotsListed'
<1> SUFFICES ASSUME SnapshotInv, ChangedPast, BallotsListed, [SnapshotNext]_snapshotVars
             PROVE  ChangedPast' /\ BallotsListed'
  OBVIOUS
<1>1. CASE UNCHANGED snapshotVars
  BY <1>1 DEF snapshotVars, ChangedPast, BallotsListed, BallotVote, Stands, EpochStart
<1>2. ASSUME NEW h \in HeaderRec, AppendHeader(h) PROVE ChangedPast' /\ BallotsListed'
  <2> DEFINE n == h.Number
             x == h.Signer
             c == h.Coinbase
             moved == (c \in snap.Signers) # (c \in snap'.Signers)
  <2>1. VoteInv(snap) /\ ApplyError(snap, h) = "nil" /\ snap' = apply(snap, h)
    BY <1>2 DEF AppendHeader, SnapshotInv
  <2>2. /\ n = snap.Number + 1 /\ n \in Nat /\ snap.Number \in Nat
        /\ x \in Addresses /\ c \in Addresses /\ h.Authorize \in BOOLEAN
        /\ snap.Signers \subseteq Addresses
    BY <2>1, AcceptedSigner DEF HeaderRec, VoteInv, SnapshotType
  <2>3. /\ VoteInv(snap') /\ snap'.Number = n /\ x \in snap.Signers
        /\ snap'.Votes = VotesAfter(snap, h, snap'.Signers)
        /\ \/ snap'.Signers = snap.Signers
           \/ c \notin snap.Signers /\ snap'.Signers = snap.Signers \cup {c}
           \/ c \in snap.Signers /\ snap'.Signers = snap.Signers \ {c}
    <3> DEFINE t == apply(snap, h)
    <3>1. /\ VoteInv(t) /\ t.Number = n /\ x \in snap.Signers
          /\ t.Votes = VotesAfter(snap, h, t.Signers)
          /\ \/ t.Signers = snap.Signers
             \/ c \notin snap.Signers /\ t.Signers = snap.Signers \cup {c}
             \/ c \in snap.Signers /\ t.Signers = snap.Signers \ {c}
      BY <2>1, ApplyFields
    <3> HIDE DEF t
    <3> QED
      BY <2>1, <3>1 DEF t
  <2>4. /\ ballot \in [Addresses -> [Addresses -> [Number : Nat, Authorize : BOOLEAN]]]
        /\ changed \in [Addresses -> Nat]
        /\ \A s, a \in Addresses : ballot[s][a].Number \in Nat /\ ballot[s][a].Number < n
        /\ \A a \in Addresses : changed[a] < n
    BY <2>2 DEF SnapshotInv, SnapshotTypeOK, BallotsPast, ChangedPast
  <2>5. /\ ballot'[x][c] = [Number |-> n, Authorize |-> h.Authorize]
        /\ \A s, a \in Addresses : ~(s = x /\ a = c) => ballot'[s][a] = ballot[s][a]
    BY <1>2, <2>2, <2>4 DEF AppendHeader
  <2>6. /\ snap'.Signers = snap.Signers <=> ~moved
        /\ \A a \in Addresses \ {c} : a \in snap'.Signers <=> a \in snap.Signers
        /\ \A a \in Addresses \ {c} : changed'[a] = changed[a]
        /\ changed'[c] = IF moved THEN n ELSE changed[c]
    BY <1>2, <2>2, <2>3 DEF AppendHeader
  <2>7. ChangedPast'
    <3>1. \A a \in Addresses : changed'[a] = n \/ changed'[a] = changed[a]
      BY <2>6
    <3>2. n \in Nat /\ \A a \in Addresses : changed[a] \in Nat /\ changed[a] < n
      BY <2>2, <2>4
    <3>3. snap'.Number = n
      BY <2>3
    <3> HIDE DEF n
    <3> SUFFICES ASSUME NEW a \in Addresses PROVE changed'[a] <= snap'.Number
      BY DEF ChangedPast
    <3> QED
      BY <3>1, <3>2, <3>3
  <2>8. /\ n % Epoch = 0 => EpochStart' = n
        /\ n % Epoch # 0 => EpochStart' = EpochStart
        /\ EpochStart' <= n /\ EpochStart' \in Nat
    BY <2>2, <2>3, EpochStep DEF EpochStart
  <2> HIDE DEF n, x, c, moved
  <2>9. ASSUME NEW s \in Addresses, NEW a \in Addresses, ~(s = x /\ a = c)
        PROVE  Stands(s, a)' <=> /\ Stands(s, a)
                                 /\ n % Epoch # 0
                                 /\ moved => s # c /\ a # c
    <3>1. ballot'[s][a] = ballot[s][a] /\ ballot[s][a].Number \in Nat /\ ballot[s][a].Number < n
      BY <2>4, <2>5, <2>9
    <3>2. CASE moved /\ (s = c \/ a = c)
      BY <3>1, <3>2, <2>2, <2>6 DEF Stands
    <3>3. CASE ~(moved /\ (s = c \/ a = c))
      <4>1. /\ changed'[s] = changed[s] /\ changed'[a] = changed[a]
            /\ s \in snap'.Signers <=> s \in snap.Signers
            /\ a \in snap'.Signers <=> a \in snap.Signers
        BY <3>3, <2>6
      <4>2. CASE n % Epoch = 0
        BY <3>1, <4>2, <2>2, <2>8 DEF Stands
      <4>3. CASE n % Epoch # 0
        BY <3>1, <3>3, <4>1, <4>3, <2>8 DEF Stands
      <4> QED
        BY <4>2, <4>3
    <3> QED
      BY <3>2, <3>3
  <2>10. Stands(x, c)' <=> ~moved /\ h.Authorize = (c \notin snap.Signers)
    <3>1. CASE moved
      BY <3>1, <2>2, <2>5, <2>6 DEF Stands
    <3>2. CASE ~moved
      <4>1. /\ x \in snap'.Signers /\ (c \in snap'.Signers <=> c \in snap.Signers)
            /\ changed'[x] < n /\ changed'[c] < n
        BY <3>2, <2>2, <2>3, <2>4, <2>6
      <4> QED
        BY <3>2, <4>1, <2>2, <2>5, <2>8 DEF Stands
    <3> QED
      BY <3>1, <3>2
  <2> DEFINE new == [Signer |-> x, Block |-> n, Address |-> c, Authorize |-> h.Authorize]
  <2>11. /\ BallotVote(x, c)' = new /\ new.Signer = x /\ new.Address = c
         /\ \A s, a \in Addresses : ~(s = x /\ a = c) => BallotVote(s, a)' = BallotVote(s, a)
         /\ \A s, a : BallotVote(s, a).Signer = s /\ BallotVote(s, a).Address = a
    BY <2>2, <2>5 DEF BallotVote
  <2>12. \A v : v \in snap'.Votes <=>
            /\ \/ /\ v \in snap.Votes /\ n % Epoch # 0
                  /\ ~(v.Signer = x /\ v.Address = c)
               \/ v = new /\ h.Authorize = (c \notin snap.Signers)
            /\ ~moved \/ (v.Address # c /\ v.Signer # c)
    BY <2>3, <2>6 DEF VotesAfter, NewVotes, n, x, c
  <2>13. \A v \in snap.Votes : v.Signer \in Addresses /\ v.Address \in Addresses
    BY <2>1 DEF VoteInv, SnapshotType, VoteRec
  <2> HIDE DEF new
  <2>14. ASSUME NEW v \in snap'.Votes
         PROVE  Stands(v.Signer, v.Address)' /\ v = BallotVote(v.Signer, v.Address)'
    <3>1. CASE v = new
      BY <3>1, <2>10, <2>11, <2>12, <2>13
    <3>2. CASE v # new
      <4>1. /\ v \in snap.Votes /\ n % Epoch # 0 /\ ~(v.Signer = x /\ v.Address = c)
            /\ moved => v.Address # c /\ v.Signer # c
        BY <3>2, <2>12
      <4>2. Stands(v.Signer, v.Address) /\ v = BallotVote(v.Signer, v.Address)
        BY <4>1 DEF BallotsListed
      <4> QED
        BY <4>1, <4>2, <2>9, <2>11, <2>13
    <3> QED
      BY <3>1, <3>2
  <2>15. ASSUME NEW s \in Addresses, NEW a \in Addresses, Stands(s, a)'
         PROVE  BallotVote(s, a)' \in snap'.Votes
    <3>1. CASE s = x /\ a = c
      BY <3>1, <2>10, <2>11, <2>12, <2>15
    <3>2. CASE ~(s = x /\ a = c)
      <4>1. Stands(s, a) /\ n % Epoch # 0 /\ (moved => s # c /\ a # c)
        BY <3>2, <2>9, <2>15
      <4>2. BallotVote(s, a) \in snap.Votes
        BY <4>1 DEF BallotsListed
      <4> QED
        BY <3>2, <4>1, <4>2, <2>11, <2>12
    <3> QED
      BY <3>1, <3>2
  <2> QED
    BY <2>7, <2>14, <2>15 DEF BallotsListed
<1>3. SnapshotNext => \E h \in HeaderRec : AppendHeader(h)
  BY NextHeader DEF SnapshotInv
<1> QED
  BY <1>1, <1>2, <1>3

(***************************************************************************)
(* The list of votes that apply keeps by replacing, passing and dropping   *)
(* them one at a time is, after every chain of headers, the list that one  *)
(* reads off the headers: each signer's last header about an account, if   *)
(* it is of this epoch, later than any change of the two and asks for a    *)
(* change (snapshot.go, apply).                                            *)
(***************************************************************************)
THEOREM VotesAreHeaders == SnapshotSpec => []VotesMatchHeaders
<1>1. SnapshotInv /\ BallotsListed => VotesMatchHeaders
  BY ListedIsMatch DEF SnapshotInv
<1> QED
  BY <1>1, SnapshotInvariance, InitListed, NextListed, PTL DEF SnapshotSpec

--------------------------------------------------------------------------
(* The network of signers. *)

(***************************************************************************)
(* Nobody votes, so the snapshot of a block is determined by the signers   *)
(* of the last blocks of its chain.                                        *)
(***************************************************************************)
NoVotes == [a \in Addresses |-> NoTally]

QuietSnapshot(number, recents) ==
    [Number |-> number, Signers |-> InitSigners, Recents |-> recents,
     Votes |-> {}, Tally |-> NoVotes]

SignerLimit == (Cardinality(InitSigners) \div 2) + 1

\* The signers of the last SignerLimit of the first k blocks.
Window(b, k) == [i \in {j \in 1 .. k : j > k - SignerLimit} |-> b[i].Signer]

LEMMA InitSignersFinite == IsFiniteSet(InitSigners) /\ Cardinality(InitSigners) \in Nat
BY FS_Subset, FS_CardinalityType, AddressesAssumption, SignersAssumption

LEMMA SignerLimitType == SignerLimit \in Nat \ {0}
<1>1. Cardinality(InitSigners) \in Nat
  BY InitSignersFinite
<1>2. QED
  BY <1>1, SMT DEF SignerLimit

LEMMA QuietFields ==
    ASSUME NEW k, NEW R
    PROVE  LET s == QuietSnapshot(k, R)
           IN  /\ s.Number = k /\ s.Signers = InitSigners /\ s.Recents = R
               /\ s.Votes = {} /\ s.Tally = NoVotes
               /\ Limit(s) = SignerLimit
               /\ WithVotes(s, {}, NoVotes) = s
<1> DEFINE s == QuietSnapshot(k, R)
<1>1. /\ s.Number = k /\ s.Signers = InitSigners /\ s.Recents = R
      /\ s.Votes = {} /\ s.Tally = NoVotes
  BY DEF QuietSnapshot
<1>2. Limit(s) = SignerLimit
  BY <1>1 DEF Limit, SignerLimit
<1>3. WithVotes(s, {}, NoVotes) = s
  <2>1. [s EXCEPT !.Votes = {}] = s
    BY DEF QuietSnapshot
  <2>2. [s EXCEPT !.Tally = NoVotes] = s
    BY DEF QuietSnapshot
  <2> HIDE DEF s
  <2>3. QED
    BY <2>1, <2>2 DEF WithVotes
<1> HIDE DEF s
<1>6. /\ s.Number = k /\ s.Signers = InitSigners /\ s.Recents = R
      /\ s.Votes = {} /\ s.Tally = NoVotes
      /\ Limit(s) = SignerLimit
      /\ WithVotes(s, {}, NoVotes) = s
  BY <1>1, <1>2, <1>3
<1>7. QED
  BY <1>6 DEF s

LEMMA QuietExcept ==
    ASSUME NEW k, NEW R, NEW i, NEW Q
    PROVE  /\ [QuietSnapshot(k, R) EXCEPT !.Recents = Q] = QuietSnapshot(k, Q)
           /\ [QuietSnapshot(k, R) EXCEPT !.Number = i] = QuietSnapshot(i, R)
BY DEF QuietSnapshot

\* The tally of no votes with no votes reverted.
LEMMA UncastNone == uncast(NoVotes, {}) = NoVotes
<1>1. ASSUME NEW a \in Addresses
      PROVE  LET reverted == {v \in {} : v.Address = a /\ v.Authorize = NoVotes[a].Authorize}
             IN  ~(Cardinality(reverted) < NoVotes[a].Votes)
  <2>1. {v \in {} : v.Address = a /\ v.Authorize = NoVotes[a].Authorize} = {}
    OBVIOUS
  <2>2. Cardinality({}) = 0
    BY FS_EmptySet
  <2>3. NoVotes[a].Votes = 0
    BY DEF NoVotes, NoTally
  <2>4. QED
    BY <2>1, <2>2, <2>3
<1>2. QED
  BY <1>1 DEF uncast, NoVotes
\* The blocks whose signers apply keeps, and the recent signers after it.
Kept(R, k) == IF k >= SignerLimit THEN (DOMAIN R) \ {k - SignerLimit} ELSE DOMAIN R

Moved(R, k, signer) == [n \in Kept(R, k) \cup {k} |-> IF n = k THEN signer ELSE R[n]]

\* A header without a vote only moves the window of recent signers.
LEMMA QuietApply ==
    ASSUME NEW j, NEW R, NEW b, NEW k \in Nat
    PROVE  /\ DOMAIN Checked(QuietSnapshot(j, R), Header(b, k)).Recents = Kept(R, k)
           /\ \A n \in Kept(R, k) : Checked(QuietSnapshot(j, R), Header(b, k)).Recents[n] = R[n]
           /\ apply(QuietSnapshot(j, R), Header(b, k)) = QuietSnapshot(k, Moved(R, k, b[k].Signer))
<1> DEFINE h == Header(b, k)
<1>0. h.Number = k /\ h.Coinbase = ZeroAddress /\ h.Authorize = FALSE /\ h.Signer = b[k].Signer
  BY DEF Header
<1> HIDE DEF h
<1> DEFINE s == QuietSnapshot(j, R)
           D == Kept(R, k)
           C == IF k >= SignerLimit THEN [n \in (DOMAIN R) \ {k - SignerLimit} |-> R[n]] ELSE R
           c == QuietSnapshot(j, C)
           W == Moved(R, k, h.Signer)
           w == QuietSnapshot(j, W)
<1>1. ResetAtCheckpoint(s, k) = s
  BY QuietFields DEF ResetAtCheckpoint, NoVotes
<1>2. ShiftRecents(s, k) = c
  BY QuietFields, QuietExcept DEF ShiftRecents
<1>3. Checked(s, h) = c
  BY <1>0, <1>1, <1>2 DEF Checked
<1>4. DOMAIN C = D /\ \A n \in D : C[n] = R[n]
  BY DEF Kept
<1>5. RecordSigner(c, k, h.Signer) = w
  <2>1. c.Recents = C
    BY QuietFields
  <2>2. [n \in (DOMAIN C) \cup {k} |-> IF n = k THEN h.Signer ELSE C[n]] = W
    <3> HIDE DEF C
    <3>1. QED
      BY <1>4 DEF Moved
  <2>3. [c EXCEPT !.Recents = W] = w
    <3> HIDE DEF C, W
    <3>1. QED
      BY QuietExcept
  <2> HIDE DEF c, C, W, w
  <2>4. QED
    BY <2>1, <2>2, <2>3 DEF RecordSigner
<1>6. w.Votes = {} /\ w.Tally = NoVotes /\ w.Signers = InitSigners /\ WithVotes(w, {}, NoVotes) = w
  BY QuietFields
<1>7. [w EXCEPT !.Number = k] = QuietSnapshot(k, W)
  BY QuietExcept
<1>8. c.Recents = C
  BY QuietFields
<1> HIDE DEF s, c, w, W, C
<1>9. DiscardPrevious(w, h.Signer, ZeroAddress) = w
  <2>1. \A P : {v \in {} : P} = {}
    OBVIOUS
  <2> DEFINE previous == {v \in w.Votes : v.Signer = h.Signer /\ v.Address = ZeroAddress}
             first == {v \in previous : \A u \in previous : v.Block <= u.Block}
  <2>2. previous = {} /\ first = {} /\ w.Votes \ first = {}
    BY <1>6
  <2>3. uncast(w.Tally, first) = NoVotes
    BY <1>6, <2>2, UncastNone
  <2> HIDE DEF first
  <2>4. WithVotes(w, w.Votes \ first, uncast(w.Tally, first)) = w
    BY <1>6, <2>2, <2>3
  <2>5. QED
    BY <2>4 DEF DiscardPrevious, first
<1>10. cast(w, k, h.Signer, ZeroAddress, FALSE) = w
  BY <1>6, NoVoteAssumption DEF cast, validVote
<1>11. ~Passed(w, ZeroAddress)
  <2>1. w.Tally[ZeroAddress].Votes = 0
    BY <1>6, AddressesAssumption DEF NoVotes, NoTally
  <2>2. Cardinality(InitSigners) \div 2 >= 0
    BY InitSignersFinite, SMT
  <2>3. QED
    BY <1>6, <2>1, <2>2, InitSignersFinite DEF Passed
<1>12. Enact(w, k, ZeroAddress) = w
  BY <1>11 DEF Enact
<1>13. apply(s, h) = QuietSnapshot(k, W)
  BY <1>0, <1>3, <1>5, <1>7, <1>9, <1>10, <1>12 DEF apply
<1>14. DOMAIN Checked(s, h).Recents = D /\ \A n \in D : Checked(s, h).Recents[n] = R[n]
  BY <1>3, <1>4, <1>8
<1>15. QED
  BY <1>0, <1>13, <1>14 DEF s, W, h
(***************************************************************************)
(* The recursions along a chain.  Only the snapshot's has a closed form;   *)
(* the total difficulty is compared with that of the parent.               *)
(***************************************************************************)
AddDifficulty(td, seal) == td + seal.Difficulty

Sum == INSTANCE FoldTheorems WITH
  Op <- LAMBDA p, q, r, d, e : AddDifficulty(d, e)

Blocks == Seq(SealRec)

\* The first i blocks of a chain.
LEMMA PrefixFacts ==
    ASSUME NEW b \in Blocks, NEW i \in 0 .. Len(b)
    PROVE  /\ SubSeq(b, 1, i) \in Blocks /\ Len(SubSeq(b, 1, i)) = i
           /\ \A k \in 1 .. i : SubSeq(b, 1, i)[k] = b[k]
           /\ \A k \in 0 .. i : SubSeq(SubSeq(b, 1, i), 1, k) = SubSeq(b, 1, k)
           /\ i > 0 => Parent(SubSeq(b, 1, i)) = SubSeq(b, 1, i - 1)
<1>1. SubSeq(b, 1, i) \in Blocks /\ Len(SubSeq(b, 1, i)) = i
  BY DEF Blocks
<1>2. \A k \in 1 .. i : SubSeq(b, 1, i)[k] = b[k]
  BY DEF Blocks
<1>3. ASSUME NEW k \in 0 .. i PROVE SubSeq(SubSeq(b, 1, i), 1, k) = SubSeq(b, 1, k)
  <2> DEFINE p == SubSeq(b, 1, i)
  <2> HIDE DEF p
  <2>1. p \in Blocks /\ Len(p) = i /\ \A m \in 1 .. i : p[m] = b[m]
    BY <1>1, <1>2 DEF p
  <2>2. SubSeq(p, 1, k) = SubSeq(b, 1, k)
    BY <2>1 DEF Blocks
  <2>3. QED
    BY <2>2 DEF p
<1>4. i > 0 => Parent(SubSeq(b, 1, i)) = SubSeq(b, 1, i - 1)
  BY <1>1, <1>3 DEF Parent
<1>5. QED
  BY <1>1, <1>2, <1>3, <1>4

\* A block, its parent, and what is above the parent.
LEMMA ParentFacts ==
    ASSUME NEW b \in Blocks, b # genesis
    PROVE  /\ Len(b) \in Nat /\ Len(b) >= 1
           /\ Parent(b) \in Blocks /\ Len(Parent(b)) = Len(b) - 1
           /\ \A i \in 1 .. Len(b) - 1 : Parent(b)[i] = b[i]
           /\ \A i \in 1 .. Len(b) : b[i] \in SealRec
           /\ b = Append(Parent(b), b[Len(b)])
<1>1. Len(b) \in Nat /\ Len(b) >= 1
  BY DEF Blocks, genesis
<1>2. \A i \in 1 .. Len(b) : b[i] \in SealRec
  BY DEF Blocks
<1>3. /\ Parent(b) \in Blocks /\ Len(Parent(b)) = Len(b) - 1
      /\ \A i \in 1 .. Len(b) - 1 : Parent(b)[i] = b[i]
  <2> DEFINE i == Len(b) - 1
  <2>1. i \in 0 .. Len(b)
    BY <1>1
  <2> HIDE DEF i
  <2>2. /\ SubSeq(b, 1, i) \in Blocks /\ Len(SubSeq(b, 1, i)) = i
        /\ \A k \in 1 .. i : SubSeq(b, 1, i)[k] = b[k]
    BY <2>1, PrefixFacts
  <2>3. QED
    BY <2>2 DEF i, Parent
<1>4. b = Append(Parent(b), b[Len(b)])
  <2> DEFINE p == Parent(b)
             q == Append(p, b[Len(b)])
  <2> HIDE DEF p
  <2>1. p \in Seq(SealRec) /\ Len(p) = Len(b) - 1 /\ \A i \in 1 .. Len(b) - 1 : p[i] = b[i]
    BY <1>3 DEF Blocks, p
  <2>2. b[Len(b)] \in SealRec /\ b \in Seq(SealRec)
    BY <1>1, <1>2 DEF Blocks
  <2>3. q \in Seq(SealRec) /\ Len(q) = Len(b)
    BY <1>1, <2>1, <2>2
  <2>4. \A i \in 1 .. Len(b) : q[i] = b[i]
    BY <1>1, <2>1, <2>2
  <2> HIDE DEF q
  <2>5. q = b
    BY <2>2, <2>3, <2>4
  <2>6. QED
    BY <2>5 DEF p, q
<1>5. QED
  BY <1>1, <1>2, <1>3, <1>4

LEMMA AncestryFacts ==
    ASSUME NEW b \in Blocks
    PROVE  /\ b \in Ancestry(b) /\ genesis \in Ancestry(b)
           /\ Ancestry(b) \subseteq Blocks
           /\ \A p \in Ancestry(b) : Ancestry(p) \subseteq Ancestry(b) /\ Len(p) <= Len(b)
           /\ b # genesis => Parent(b) \in Ancestry(b) /\ Ancestry(b) = Ancestry(Parent(b)) \cup {b}
<1>0. Len(b) \in Nat
  BY DEF Blocks
<1>1. SubSeq(b, 1, Len(b)) = b /\ SubSeq(b, 1, 0) = <<>>
  BY DEF Blocks
<1>2. b \in Ancestry(b) /\ genesis \in Ancestry(b)
  <2>1. 0 \in 0 .. Len(b) /\ Len(b) \in 0 .. Len(b)
    BY <1>0
  <2>2. SubSeq(b, 1, Len(b)) \in Ancestry(b) /\ SubSeq(b, 1, 0) \in Ancestry(b)
    BY <2>1, Zenon DEF Ancestry
  <2>3. QED
    BY <1>1, <2>2, Zenon DEF genesis
<1>3. Ancestry(b) \subseteq Blocks
  BY PrefixFacts DEF Ancestry
<1>4. ASSUME NEW p \in Ancestry(b) PROVE Ancestry(p) \subseteq Ancestry(b) /\ Len(p) <= Len(b)
  <2>1. PICK i \in 0 .. Len(b) : p = SubSeq(b, 1, i)
    BY DEF Ancestry
  <2>2. Len(p) = i /\ \A k \in 0 .. i : SubSeq(p, 1, k) = SubSeq(b, 1, k)
    BY <2>1, PrefixFacts
  <2>3. QED
    BY <1>0, <2>1, <2>2 DEF Ancestry
<1>5. ASSUME b # genesis
      PROVE  Parent(b) \in Ancestry(b) /\ Ancestry(b) = Ancestry(Parent(b)) \cup {b}
  <2>1. Len(b) >= 1 /\ Len(Parent(b)) = Len(b) - 1
    BY <1>5, ParentFacts
  <2>2. Parent(b) \in Ancestry(b)
    BY <1>0, <2>1 DEF Parent, Ancestry
  <2>3. \A k \in 0 .. Len(b) - 1 : SubSeq(Parent(b), 1, k) = SubSeq(b, 1, k)
    BY <1>0, <2>1, PrefixFacts DEF Parent
  <2>4. Ancestry(b) \subseteq Ancestry(Parent(b)) \cup {b}
    BY <1>0, <1>1, <2>1, <2>3 DEF Ancestry
  <2>5. QED
    BY <1>2, <1>4, <2>2, <2>4
<1>6. QED
  BY <1>2, <1>3, <1>4, <1>5
\* The window moves with every header.
LEMMA WindowStep ==
    ASSUME NEW b, NEW i \in Nat, i >= 1
    PROVE  LET s == QuietSnapshot(i - 1, Window(b, i - 1))
               D == {j \in 1 .. i - 1 : j > i - SignerLimit}
           IN  /\ DOMAIN Checked(s, Header(b, i)).Recents = D
               /\ \A j \in D : Checked(s, Header(b, i)).Recents[j] = b[j].Signer
               /\ apply(s, Header(b, i)) = QuietSnapshot(i, Window(b, i))
<1> DEFINE R == Window(b, i - 1)
           s == QuietSnapshot(i - 1, R)
           h == Header(b, i)
           D == {j \in 1 .. i - 1 : j > i - SignerLimit}
           E == Kept(R, i)
           W == Moved(R, i, b[i].Signer)
<1>1. h.Number = i /\ h.Coinbase = ZeroAddress /\ h.Authorize = FALSE /\ h.Signer = b[i].Signer
  BY DEF Header
<1>2. SignerLimit \in Nat \ {0}
  BY SignerLimitType
<1>3. DOMAIN R = {j \in 1 .. i - 1 : j > (i - 1) - SignerLimit}
  BY DEF Window
<1>4. \A j \in DOMAIN R : R[j] = b[j].Signer
  BY <1>3 DEF Window
<1> HIDE DEF h, R
<1>5. E = D
  BY <1>2, <1>3 DEF Kept
<1>6. D \cup {i} = {j \in 1 .. i : j > i - SignerLimit}
  BY <1>2
<1>7. D \subseteq DOMAIN R /\ i \notin D
  BY <1>2, <1>3
<1>8. /\ DOMAIN Checked(s, h).Recents = E
      /\ \A n \in E : Checked(s, h).Recents[n] = R[n]
      /\ apply(s, h) = QuietSnapshot(i, W)
  BY QuietApply DEF h
<1> HIDE DEF D, E, s
<1>9. W = Window(b, i)
  <2>1. W = [n \in D \cup {i} |-> b[n].Signer]
    BY <1>1, <1>4, <1>5, <1>7 DEF Moved, E
  <2> HIDE DEF W
  <2>2. QED
    BY <1>6, <2>1 DEF Window
<1>10. /\ DOMAIN Checked(s, h).Recents = D
       /\ \A j \in D : Checked(s, h).Recents[j] = b[j].Signer
  BY <1>4, <1>5, <1>7, <1>8
<1> HIDE DEF W
<1>11. apply(s, h) = QuietSnapshot(i, Window(b, i))
  BY <1>8, <1>9
<1>12. QED
  BY <1>10, <1>11 DEF s, h, R, D

(***************************************************************************)
(* The snapshot of any block: its number, the signers of the genesis block *)
(* and the signers of the last SignerLimit blocks.                         *)
(***************************************************************************)
THEOREM SnapshotIsWindow ==
    ASSUME NEW b \in Blocks
    PROVE  snapshot(b) = QuietSnapshot(Len(b), Window(b, Len(b)))
<1> DEFINE N == Len(b)
           F(f, i) == IF i = 0 THEN newSnapshot(0, InitSigners) ELSE apply(f[i - 1], Header(b, i))
           Fix(f) == f = [i \in 0 .. N |-> F(f, i)]
           h == CHOOSE f : Fix(f)
           g == [i \in 0 .. N |-> QuietSnapshot(i, Window(b, i))]
<1>1. N \in Nat
  BY DEF Blocks
<1>2. snapshot(b) = h[N]
  BY DEF snapshot
<1> HIDE DEF N
<1>3. QuietSnapshot(0, Window(b, 0)) = newSnapshot(0, InitSigners)
  <2>1. {j \in 1 .. 0 : j > 0 - SignerLimit} = {}
    BY 1 .. 0 = {}
  <2>2. Window(b, 0) = [n \in {} |-> ZeroAddress]
    BY <2>1 DEF Window
  <2>3. QED
    BY <2>2 DEF newSnapshot, QuietSnapshot, NoVotes
<1>4. ASSUME NEW i \in 0 .. N, i # 0
      PROVE  apply(QuietSnapshot(i - 1, Window(b, i - 1)), Header(b, i)) = QuietSnapshot(i, Window(b, i))
  <2>1. i \in Nat /\ i >= 1
    BY <1>1, <1>4
  <2>2. QED
    BY <2>1, WindowStep
<1>5. \A i \in 0 .. N : g[i] = QuietSnapshot(i, Window(b, i)) /\ (i # 0 => i - 1 \in 0 .. N)
  BY <1>1
<1>6. Fix(g)
  <2>1. ASSUME NEW i \in 0 .. N PROVE QuietSnapshot(i, Window(b, i)) = F(g, i)
    <3> HIDE DEF g
    <3>1. CASE i = 0
      BY <1>3, <3>1
    <3>2. CASE i # 0
      <4>1. g[i - 1] = QuietSnapshot(i - 1, Window(b, i - 1))
        BY <1>5, <3>2
      <4>2. QED
        BY <1>4, <3>2, <4>1
    <3>3. QED
      BY <3>1, <3>2
  <2> HIDE DEF F
  <2>2. QED
    BY <2>1
<1>7. Fix(h)
  <2> HIDE DEF Fix, g
  <2>1. QED
    BY <1>6
<1> DEFINE S == {k \in Nat : k <= N => h[k] = g[k]}
<1> HIDE DEF g, h
<1>8. \A i \in 0 .. N : h[i] = F(h, i) /\ g[i] = F(g, i)
  <2> HIDE DEF F
  <2>1. QED
    BY <1>6, <1>7
<1>9. 0 \in S
  BY <1>1, <1>8
<1>10. ASSUME NEW k \in Nat, k \in S PROVE k + 1 \in S
  <2> SUFFICES ASSUME k + 1 <= N PROVE h[k + 1] = g[k + 1]
    OBVIOUS
  <2>1. k + 1 \in 0 .. N /\ k + 1 # 0 /\ (k + 1) - 1 = k /\ k <= N
    BY <1>1
  <2>2. h[k] = g[k]
    BY <1>10, <2>1
  <2>3. h[k + 1] = apply(h[k], Header(b, k + 1)) /\ g[k + 1] = apply(g[k], Header(b, k + 1))
    BY <1>8, <2>1
  <2>4. QED
    BY <2>2, <2>3
<1> HIDE DEF S
<1>11. N \in S
  BY <1>1, <1>9, <1>10, Sum!SetInduction
<1>12. h[N] = g[N]
  BY <1>1, <1>11 DEF S
<1>13. QED
  BY <1>1, <1>2, <1>5, <1>12 DEF N

LEMMA SumStep ==
    ASSUME NEW b, NEW p, NEW M \in Nat, \A i \in 1 .. M : b[i] = p[i]
    PROVE  Sum!Running(0, 0, 0, 0, b, M + 1) = AddDifficulty(Sum!Running(0, 0, 0, 0, p, M), b[M + 1])
BY Sum!RunningStep

\* The total difficulty of a block is that of its parent and its own.
LEMMA TdStep ==
    ASSUME NEW b \in Blocks, b # genesis
    PROVE  Td(b) = Td(Parent(b)) + b[Len(b)].Difficulty
<1> DEFINE p == Parent(b)
           M == Len(p)
<1>1. p \in Blocks /\ M \in Nat /\ Len(b) = M + 1 /\ \A i \in 1 .. M : b[i] = p[i]
  <2>1. /\ Len(b) \in Nat /\ Len(b) >= 1
        /\ p \in Blocks /\ M = Len(b) - 1 /\ \A i \in 1 .. Len(b) - 1 : p[i] = b[i]
    BY ParentFacts
  <2>2. QED
    BY <2>1
<1>2. Td(b) = Sum!Running(0, 0, 0, 0, b, Len(b)) /\ Td(p) = Sum!Running(0, 0, 0, 0, p, Len(p))
  BY DEF Td, Sum!Running, AddDifficulty
<1> HIDE DEF p, M
<1>3. Sum!Running(0, 0, 0, 0, b, M + 1) = AddDifficulty(Sum!Running(0, 0, 0, 0, p, M), b[M + 1])
  <2>1. M \in Nat /\ \A i \in 1 .. M : b[i] = p[i]
    BY <1>1
  <2>2. QED
    BY <2>1, SumStep
<1>4. Td(b) = Td(p) + b[Len(b)].Difficulty
  BY <1>1, <1>2, <1>3 DEF AddDifficulty, M
<1>5. QED
  BY <1>4 DEF p

LEMMA TdGenesis == Td(genesis) = 0
<1>1. Td(genesis) = Sum!Running(0, 0, 0, 0, genesis, Len(genesis)) /\ Len(genesis) = 0
  BY DEF Td, Sum!Running, AddDifficulty, genesis
<1>2. Sum!Running(0, 0, 0, 0, genesis, 0) = 0
  BY Sum!RunningStep, 0 \in Nat, 1 .. 0 = {}
<1>3. QED
  BY <1>1, <1>2
\* Total difficulties are naturals and grow along a chain.
LEMMA TdGrows ==
    ASSUME NEW b \in Blocks
    PROVE  Td(b) \in Nat /\ \A p \in Ancestry(b) : Td(p) \in Nat /\ Td(p) <= Td(b)
<1> DEFINE N == Len(b)
           P(i) == SubSeq(b, 1, i)
           T(k) == Td(P(k)) \in Nat /\ \A i \in 0 .. k : Td(P(i)) \in Nat /\ Td(P(i)) <= Td(P(k))
           S == {k \in Nat : k <= N => T(k)}
<1>1. N \in Nat /\ P(N) = b /\ P(0) = genesis
  BY DEF Blocks, genesis
<1>2. 0 \in S
  <2>1. Td(P(0)) = 0
    BY <1>1, TdGenesis
  <2> HIDE DEF P
  <2>2. \A i \in 0 .. 0 : i = 0
    OBVIOUS
  <2>3. T(0)
    BY <2>1, <2>2
  <2> HIDE DEF T
  <2>4. QED
    BY <2>3
<1>3. ASSUME NEW k \in Nat, k \in S PROVE k + 1 \in S
  <2> SUFFICES ASSUME k + 1 <= N PROVE T(k + 1)
    <3> HIDE DEF T
    <3>1. QED
      OBVIOUS
  <2>1. k <= N /\ k + 1 \in 0 .. N /\ (k + 1) - 1 = k /\ k + 1 > 0
    BY <1>1
  <2>2. T(k)
    <3> HIDE DEF T
    <3>1. QED
      BY <1>3, <2>1
  <2>3. P(k + 1) \in Blocks /\ Len(P(k + 1)) = k + 1 /\ Parent(P(k + 1)) = P(k)
    BY <2>1, PrefixFacts
  <2> HIDE DEF P
  <2>4. P(k + 1) # genesis
    BY <2>3 DEF genesis
  <2> DEFINE d == P(k + 1)[Len(P(k + 1))].Difficulty
  <2>5. d \in Nat
    <3>1. P(k + 1)[Len(P(k + 1))] \in SealRec
      BY <2>3, <2>4, ParentFacts
    <3>2. QED
      BY <3>1 DEF SealRec
  <2> HIDE DEF d
  <2>6. Td(P(k + 1)) = Td(P(k)) + d
    BY <2>3, <2>4, TdStep DEF d
  <2>7. \A i \in 0 .. k + 1 : i \in 0 .. k \/ i = k + 1
    OBVIOUS
  <2>8. QED
    BY <2>2, <2>5, <2>6, <2>7
<1> HIDE DEF S
<1>4. N \in S
  BY <1>1, <1>2, <1>3, Sum!SetInduction
<1>5. T(N)
  BY <1>1, <1>4 DEF S
<1>6. \A p \in Ancestry(b) : \E i \in 0 .. N : p = P(i)
  BY DEF Ancestry
<1> HIDE DEF P, N
<1>7. QED
  BY <1>1, <1>5, <1>6

----------------------------------------------------------------------------
(***************************************************************************)
(* Which blocks are valid.                                                 *)
(***************************************************************************)
Valid(b) ==
    /\ verifyHeader(b)
    /\ ApplyError(snapshot(Parent(b)), Header(b, Len(b))) = "nil"

\* The signer of a valid block signed none of the SignerLimit - 1 blocks before it.
LEMMA ValidSignerRested ==
    ASSUME NEW b \in Blocks, b # genesis, Valid(b),
           NEW i \in 1 .. Len(b) - 1, i > Len(b) - SignerLimit
    PROVE  b[i].Signer # b[Len(b)].Signer
<1> DEFINE p == Parent(b)
           k == Len(b)
           h == Header(b, k)
           s == snapshot(p)
           D == {j \in 1 .. k - 1 : j > k - SignerLimit}
<1>1. /\ k \in Nat /\ k >= 1 /\ p \in Blocks /\ Len(p) = k - 1
      /\ \A j \in 1 .. k - 1 : p[j] = b[j]
  BY ParentFacts
<1>2. s = QuietSnapshot(k - 1, Window(b, k - 1))
  <2>1. s = QuietSnapshot(k - 1, Window(p, k - 1))
    BY <1>1, SnapshotIsWindow
  <2>2. Window(p, k - 1) = Window(b, k - 1)
    <3> HIDE DEF p, k
    <3>1. QED
      BY <1>1 DEF Window
  <2>3. QED
    BY <2>1, <2>2
<1>3. h.Signer = b[k].Signer
  BY DEF Header
<1>4. ApplyError(s, h) = "nil"
  BY DEF Valid
<1> HIDE DEF p, k, s
<1>5. DOMAIN Checked(s, h).Recents = D /\ \A j \in D : Checked(s, h).Recents[j] = b[j].Signer
  BY <1>1, <1>2, WindowStep
<1> HIDE DEF h
<1>6. ~\E n \in DOMAIN Checked(s, h).Recents : Checked(s, h).Recents[n] = h.Signer
  BY <1>4 DEF ApplyError
<1>7. i \in D
  BY DEF k
<1>8. b[i].Signer # b[k].Signer
  BY <1>3, <1>5, <1>6, <1>7
<1>9. QED
  BY <1>8 DEF k
\* What Prepare and Seal make of a head is valid.
LEMMA PreparedValid ==
    ASSUME NEW p \in Blocks, NEW n \in Online,
           n \in snapshot(p).Signers,
           ~RecentForSeal(snapshot(p), Len(p) + 1, n)
    PROVE  LET b == Append(p, [Signer |-> n, Difficulty |-> CalcDifficulty(snapshot(p), n)])
           IN  Valid(b) /\ b \in Blocks /\ b # genesis /\ Parent(b) = p /\ Len(b) = Len(p) + 1
<1> DEFINE s == snapshot(p)
           d == CalcDifficulty(s, n)
           seal == [Signer |-> n, Difficulty |-> d]
           b == Append(p, seal)
           k == Len(p) + 1
           h == Header(b, k)
           D == {j \in 1 .. k - 1 : j > k - SignerLimit}
<1>1. d \in {1, 2}
  BY DEF CalcDifficulty
<1> HIDE DEF d
<1>2. seal \in SealRec /\ seal.Signer = n /\ seal.Difficulty = d
  BY <1>1 DEF SealRec
<1> HIDE DEF seal, s
<1>3. b \in Blocks /\ Len(b) = k /\ b[k] = seal /\ \A i \in 1 .. Len(p) : b[i] = p[i]
  BY <1>2 DEF Blocks
<1>4. k \in Nat /\ k >= 1 /\ k - 1 = Len(p)
  BY DEF Blocks
<1> HIDE DEF b
<1>5. b # genesis
  BY <1>3, <1>4 DEF genesis
<1>6. Parent(b) = p
  <2> DEFINE q == Parent(b)
  <2>1. q \in Blocks /\ Len(q) = Len(p) /\ \A i \in 1 .. Len(p) : q[i] = p[i]
    BY <1>3, <1>4, <1>5, ParentFacts
  <2> HIDE DEF q
  <2>2. q = p
    BY <2>1 DEF Blocks
  <2>3. QED
    BY <2>2 DEF q
<1>7. s = QuietSnapshot(k - 1, Window(b, k - 1))
  <2>1. s = QuietSnapshot(k - 1, Window(p, k - 1))
    BY <1>4, SnapshotIsWindow DEF s
  <2>2. Window(p, k - 1) = Window(b, k - 1)
    <3> HIDE DEF k
    <3>1. QED
      BY <1>3, <1>4 DEF Window
  <2>3. QED
    BY <2>1, <2>2
<1>8. h.Number = k /\ h.Signer = n /\ h.Coinbase = ZeroAddress /\ h.Authorize = FALSE
  BY <1>2, <1>3 DEF Header
<1>9. s.Number = k - 1 /\ s.Signers = InitSigners /\ Limit(s) = SignerLimit /\ s.Recents = Window(b, k - 1)
  BY <1>7, QuietFields
<1>10. /\ DOMAIN s.Recents = {j \in 1 .. k - 1 : j > (k - 1) - SignerLimit}
       /\ \A j \in DOMAIN s.Recents : s.Recents[j] = b[j].Signer
  BY <1>9 DEF Window
<1> HIDE DEF k
<1>11. DOMAIN Checked(s, h).Recents = D /\ \A j \in D : Checked(s, h).Recents[j] = b[j].Signer
  BY <1>4, <1>7, WindowStep
<1> HIDE DEF h
<1>12. n \in s.Signers /\ ~RecentForSeal(s, k, n)
  BY DEF s, k
<1>13. SignerLimit \in Nat \ {0}
  BY SignerLimitType
<1>14. verifySeal(s, h)
  BY <1>8, <1>12 DEF verifySeal, RecentForVerify, RecentForSeal
<1>15. VerifyVote(h)
  BY <1>8 DEF VerifyVote
<1>16. VerifyDifficulty(s, k, n, d)
  <2>1. s.Number + 1 = k
    BY <1>4, <1>9
  <2>2. QED
    BY <2>1 DEF VerifyDifficulty, CalcDifficulty, d
<1>17. verifyHeader(b)
  BY <1>2, <1>3, <1>6, <1>8, <1>14, <1>15, <1>16 DEF verifyHeader, h, s
<1>18. ApplyError(s, h) = "nil"
  <2>1. \A j \in D : j \in DOMAIN s.Recents /\ s.Recents[j] = b[j].Signer
    BY <1>4, <1>10, <1>13
  <2>2. ASSUME NEW j \in D, b[j].Signer = n PROVE FALSE
    <3>1. s.Recents[j] = n /\ j \in DOMAIN s.Recents /\ j > k - SignerLimit
      BY <2>1, <2>2
    <3>2. QED
      BY <1>9, <1>12, <3>1 DEF RecentForSeal
  <2>3. ~\E j \in DOMAIN Checked(s, h).Recents : Checked(s, h).Recents[j] = h.Signer
    BY <1>8, <1>11, <2>2
  <2>4. h.Number = s.Number + 1 /\ h.Signer \in s.Signers
    BY <1>4, <1>8, <1>9, <1>12
  <2>5. QED
    BY <2>3, <2>4 DEF ApplyError
<1>19. Valid(b)
  BY <1>3, <1>6, <1>17, <1>18 DEF Valid, h, s
<1>20. QED
  BY <1>3, <1>5, <1>6, <1>19 DEF b, seal, d, s, k

\* A chain of valid blocks keeps its signers apart.
LEMMA ValidChainRests ==
    ASSUME NEW b \in Blocks, \A p \in Ancestry(b) \ {genesis} : Valid(p),
           NEW i \in 1 .. Len(b), NEW j \in 1 .. Len(b), i < j, j - i < SignerLimit
    PROVE  b[i].Signer # b[j].Signer
<1> DEFINE p == SubSeq(b, 1, j)
<1>1. Len(b) \in Nat /\ j \in 0 .. Len(b) /\ j >= 1 /\ i \in 1 .. j - 1 /\ i > j - SignerLimit
  BY SignerLimitType DEF Blocks
<1>2. p \in Blocks /\ Len(p) = j /\ p[i] = b[i] /\ p[j] = b[j]
  BY <1>1, PrefixFacts
<1>3. p \in Ancestry(b)
  BY <1>1 DEF Ancestry
<1> HIDE DEF p
<1>4. p # genesis
  BY <1>1, <1>2 DEF genesis
<1>5. p[i].Signer # p[Len(p)].Signer
  BY <1>1, <1>2, <1>3, <1>4, ValidSignerRested
<1>6. QED
  BY <1>2, <1>5
----------------------------------------------------------------------------
(***************************************************************************)
(* The inductive invariant.  A task becomes a block of the chain after any *)
(* number of other steps, so it has to be valid, on a known parent, while  *)
(* it waits; and what a node missed is in the database of the peer that    *)
(* sent it, with all of its ancestors, when the node synchronises.         *)
(***************************************************************************)
Shape ==
    /\ known   \in [Online -> SUBSET Chains]
    /\ head    \in [Online -> Chains]
    /\ newWork \in [Online -> BOOLEAN]
    /\ task    \in [Online -> Chains]
    /\ missed  \in [Online -> SUBSET (Online \X Chains)]

Closed == \A n \in Online : \A b \in known[n] : Ancestry(b) \subseteq known[n]

HeadsKnown == \A n \in Online : head[n] \in known[n]

MissedElsewhere == \A n \in Online : \A m \in missed[n] : m[2] \in known[m[1]] \ known[n]

BlocksValid == \A n \in Online : \A b \in known[n] : b # genesis => Valid(b)

TasksValid == \A n \in Online : task[n] # NoTask => Valid(task[n]) /\ Parent(task[n]) \in known[n]

IInv ==
    /\ Shape /\ Closed /\ HeadsKnown /\ MissedElsewhere
    /\ BlocksValid /\ TasksValid /\ HeadIsHeaviest

LEMMA ChainFacts ==
    ASSUME NEW b \in Chains
    PROVE  /\ b \in Blocks /\ Len(b) \in Nat /\ Len(b) <= MaxNumber
           /\ Ancestry(b) \subseteq Chains
<1>1. b \in Blocks /\ Len(b) \in Nat /\ Len(b) <= MaxNumber
  BY DEF Chains, Blocks
<1>2. ASSUME NEW p \in Ancestry(b) PROVE p \in Chains
  <2>1. p \in Blocks /\ Len(p) <= Len(b)
    BY <1>1, AncestryFacts
  <2>2. Len(p) \in Nat
    BY <2>1 DEF Blocks
  <2>3. Len(p) <= MaxNumber
    BY <1>1, <2>1, <2>2, NetBoundsAssumption
  <2>4. QED
    BY <2>1, <2>3 DEF Chains, Blocks
<1>3. QED
  BY <1>1, <1>2

LEMMA GenesisFacts == genesis \in Chains /\ Ancestry(genesis) = {genesis}
<1>1. genesis \in Chains /\ Len(genesis) = 0
  BY NetBoundsAssumption DEF genesis, Chains
<1>2. \A i \in 0 .. 0 : i = 0
  OBVIOUS
<1>3. SubSeq(genesis, 1, 0) = genesis
  BY DEF genesis
<1>4. Ancestry(genesis) = {genesis}
  <2>1. Ancestry(genesis) = {SubSeq(genesis, 1, i) : i \in 0 .. 0}
    BY <1>1, Zenon DEF Ancestry
  <2>2. genesis \in Ancestry(genesis)
    BY <1>1, ChainFacts, AncestryFacts
  <2>3. QED
    BY <1>2, <1>3, <2>1, <2>2, Zenon
<1>5. QED
  BY <1>1, <1>4

LEMMA InitIInv == Init => IInv
<1> SUFFICES ASSUME Init PROVE IInv
  OBVIOUS
<1> USE DEF Init
<1>1. Shape
  BY GenesisFacts DEF Shape, NoTask
<1>2. Closed
  BY GenesisFacts DEF Closed
<1>3. HeadsKnown /\ MissedElsewhere /\ BlocksValid /\ TasksValid
  BY DEF HeadsKnown, MissedElsewhere, BlocksValid, TasksValid, NoTask
<1>4. HeadIsHeaviest
  BY TdGenesis DEF HeadIsHeaviest
<1>5. QED
  BY <1>1, <1>2, <1>3, <1>4 DEF IInv

\* Writing valid blocks whose ancestors are there or are written too.
LEMMA WriteKeeps ==
    ASSUME Shape, Closed, MissedElsewhere, BlocksValid,
           NEW n \in Online, NEW blocks \in SUBSET Chains,
           \A b \in blocks : Ancestry(b) \subseteq known[n] \cup blocks /\ (b # genesis => Valid(b)),
           WriteBlocks(n, blocks)
    PROVE  /\ known' \in [Online -> SUBSET Chains]
           /\ missed' \in [Online -> SUBSET (Online \X Chains)]
           /\ known'[n] = known[n] \cup blocks
           /\ \A o \in Online : known[o] \subseteq known'[o] /\ (o # n => known'[o] = known[o])
           /\ Closed' /\ MissedElsewhere' /\ BlocksValid'
<1>1. /\ known'[n] = known[n] \cup blocks
      /\ \A o \in Online : o # n => known'[o] = known[o]
      /\ known' \in [Online -> SUBSET Chains]
  BY DEF WriteBlocks, Shape
<1>2. /\ missed'[n] = {m \in missed[n] : m[2] \notin blocks}
      /\ \A o \in Online : o # n => missed'[o] = missed[o]
      /\ missed' \in [Online -> SUBSET (Online \X Chains)]
  BY DEF WriteBlocks, Shape
<1>3. \A o \in Online : known[o] \subseteq known'[o]
  BY <1>1
<1>4. Closed'
  BY <1>1, <1>3 DEF Closed
<1>5. BlocksValid'
  BY <1>1 DEF BlocksValid
<1>6. MissedElsewhere'
  <2> SUFFICES ASSUME NEW o \in Online, NEW m \in missed'[o]
               PROVE  m[2] \in known'[m[1]] /\ m[2] \notin known'[o]
    BY DEF MissedElsewhere
  <2>1. m \in missed[o] /\ (o = n => m[2] \notin blocks)
    BY <1>2
  <2>2. m[1] \in Online
    BY <2>1 DEF Shape
  <2>3. m[2] \in known[m[1]] /\ m[2] \notin known[o]
    BY <2>1 DEF MissedElsewhere
  <2>4. QED
    BY <1>1, <1>3, <2>1, <2>2, <2>3
<1>7. QED
  BY <1>1, <1>2, <1>3, <1>4, <1>5, <1>6
\* Td of what a node knows.
LEMMA KnownFacts ==
    ASSUME Shape, Closed, HeadsKnown, NEW n \in Online, NEW b \in known[n]
    PROVE  /\ b \in Chains /\ b \in Blocks /\ Td(b) \in Nat
           /\ Ancestry(b) \subseteq known[n]
           /\ Td(head[n]) \in Nat
<1>1. b \in Chains /\ head[n] \in Chains
  BY DEF Shape
<1>2. QED
  BY <1>1, ChainFacts, TdGrows DEF Closed

(***************************************************************************)
(* writeBlockWithState: the fork choice keeps a heaviest block.            *)
(***************************************************************************)
LEMMA WriteBlockKeeps ==
    ASSUME IInv, NEW n \in Online, NEW b \in Chains,
           b # genesis, Valid(b), Parent(b) \in known[n],
           writeBlockWithState(n, b)
    PROVE  /\ task' \in [Online -> Chains] => Shape'
           /\ Closed' /\ HeadsKnown' /\ MissedElsewhere' /\ BlocksValid' /\ HeadIsHeaviest'
           /\ \A o \in Online : known[o] \subseteq known'[o]
<1>0. Shape /\ Closed /\ HeadsKnown /\ MissedElsewhere /\ BlocksValid /\ HeadIsHeaviest
  BY DEF IInv
<1>1. /\ WriteBlocks(n, {b})
      /\ \/ MayReorg(n, b) /\ SetHead(n, b)
         \/ MayKeep(n, b) /\ UNCHANGED <<head, newWork>>
  BY DEF writeBlockWithState
<1>2. b \in Blocks /\ Td(b) \in Nat
  BY ChainFacts, TdGrows
<1>3. Ancestry(b) \subseteq known[n] \cup {b}
  <2>1. Ancestry(Parent(b)) \subseteq known[n]
    BY <1>0 DEF Closed
  <2>2. Ancestry(b) = Ancestry(Parent(b)) \cup {b}
    BY <1>2, AncestryFacts
  <2>3. QED
    BY <2>1, <2>2
<1>4. /\ known' \in [Online -> SUBSET Chains]
      /\ missed' \in [Online -> SUBSET (Online \X Chains)]
      /\ known'[n] = known[n] \cup {b}
      /\ \A o \in Online : known[o] \subseteq known'[o] /\ (o # n => known'[o] = known[o])
      /\ Closed' /\ MissedElsewhere' /\ BlocksValid'
  BY <1>0, <1>1, <1>3, WriteKeeps
<1>5. \A o \in Online : \A c \in known[o] : Td(c) \in Nat /\ Td(c) <= Td(head[o])
  BY <1>0, KnownFacts DEF HeadIsHeaviest
<1>6. Td(head[n]) \in Nat
  BY <1>0, <1>5 DEF HeadsKnown
<1>7. CASE MayReorg(n, b) /\ SetHead(n, b)
  <2>1. /\ head'[n] = b /\ \A o \in Online : o # n => head'[o] = head[o]
        /\ head' \in [Online -> Chains] /\ newWork' \in [Online -> BOOLEAN]
    BY <1>0, <1>7 DEF SetHead, Shape
  <2>2. Td(b) >= Td(head[n])
    BY <1>2, <1>6, <1>7 DEF MayReorg
  <2>3. HeadsKnown'
    BY <1>0, <1>4, <2>1 DEF HeadsKnown
  <2>4. HeadIsHeaviest'
    <3> SUFFICES ASSUME NEW o \in Online, NEW c \in known'[o] PROVE Td(c) <= Td(head'[o])
      BY DEF HeadIsHeaviest
    <3>1. CASE o # n
      BY <1>4, <1>5, <2>1, <3>1
    <3>2. CASE o = n
      <4>1. c = b \/ c \in known[n]
        BY <1>4, <3>2
      <4>2. QED
        BY <1>2, <1>5, <1>6, <2>1, <2>2, <3>2, <4>1
    <3>3. QED
      BY <3>1, <3>2
  <2>5. QED
    BY <1>4, <2>1, <2>3, <2>4 DEF Shape
<1>8. CASE MayKeep(n, b) /\ UNCHANGED <<head, newWork>>
  <2>1. Td(b) <= Td(head[n])
    BY <1>2, <1>6, <1>8 DEF MayKeep
  <2>2. HeadsKnown'
    BY <1>0, <1>4, <1>8 DEF HeadsKnown
  <2>3. HeadIsHeaviest'
    BY <1>4, <1>5, <1>8, <2>1 DEF HeadIsHeaviest
  <2>4. QED
    BY <1>0, <1>4, <1>8, <2>2, <2>3 DEF Shape
<1>9. QED
  BY <1>1, <1>7, <1>8
\* What a task waits for stays: databases only grow.
LEMMA TasksStay ==
    ASSUME TasksValid, NEW n \in Online, \A o \in Online : known[o] \subseteq known'[o],
           \/ UNCHANGED task
           \/ task \in [Online -> Chains] /\ task' = [task EXCEPT ![n] = NoTask]
    PROVE  TasksValid'
BY DEF TasksValid

LEMMA CommitKeeps == ASSUME IInv, NEW n \in Online, CommitNewWork(n) PROVE IInv'
<1> DEFINE s == snapshot(head[n])
           b == Append(head[n], [Signer |-> n, Difficulty |-> CalcDifficulty(s, n)])
           mine == n \in s.Signers /\ ~RecentForSeal(s, Len(b), n)
<1>1. /\ Shape /\ Closed /\ HeadsKnown /\ MissedElsewhere
      /\ BlocksValid /\ TasksValid /\ HeadIsHeaviest
  BY DEF IInv
<1>2. /\ Len(head[n]) < MaxNumber /\ UNCHANGED <<known, head, missed>>
      /\ newWork' = [newWork EXCEPT ![n] = FALSE]
      /\ task' = [task EXCEPT ![n] = IF mine THEN b ELSE NoTask]
  BY DEF CommitNewWork
<1>3. head[n] \in Chains /\ head[n] \in Blocks /\ head[n] \in known[n] /\ Len(head[n]) \in Nat
  BY <1>1, ChainFacts DEF Shape, HeadsKnown
<1>4. Len(b) = Len(head[n]) + 1
  BY <1>3 DEF Blocks
<1>5. ASSUME mine PROVE Valid(b) /\ b \in Chains /\ b # genesis /\ Parent(b) = head[n]
  <2>1. n \in s.Signers /\ ~RecentForSeal(s, Len(head[n]) + 1, n)
    <3> HIDE DEF b, s
    <3>1. QED
      BY <1>4, <1>5
  <2>2. Valid(b) /\ b \in Blocks /\ b # genesis /\ Parent(b) = head[n] /\ Len(b) = Len(head[n]) + 1
    BY <1>3, <2>1, PreparedValid
  <2> HIDE DEF b, s, mine
  <2>3. Len(b) <= MaxNumber
    BY <1>2, <1>3, <2>2, NetBoundsAssumption
  <2>4. QED
    BY <2>2, <2>3 DEF Chains, Blocks
<1> HIDE DEF b, s, mine
<1>6. Shape'
  <2>1. task' \in [Online -> Chains]
    BY <1>1, <1>2, <1>5, GenesisFacts DEF Shape, NoTask
  <2>2. newWork' \in [Online -> BOOLEAN]
    BY <1>1, <1>2 DEF Shape
  <2>3. QED
    BY <1>1, <1>2, <2>1, <2>2 DEF Shape
<1>7. TasksValid'
  <2>1. task'[n] = (IF mine THEN b ELSE NoTask) /\ \A o \in Online : o # n => task'[o] = task[o]
    BY <1>1, <1>2 DEF Shape
  <2>2. QED
    BY <1>1, <1>2, <1>3, <1>5, <2>1 DEF TasksValid
<1>8. Closed' /\ HeadsKnown' /\ MissedElsewhere' /\ BlocksValid' /\ HeadIsHeaviest'
  BY <1>1, <1>2 DEF Closed, HeadsKnown, MissedElsewhere, BlocksValid, HeadIsHeaviest
<1>9. QED
  BY <1>6, <1>7, <1>8 DEF IInv

LEMMA SealKeeps == ASSUME IInv, NEW n \in Online, SealResult(n) PROVE IInv'
<1>1. /\ Shape /\ Closed /\ HeadsKnown /\ MissedElsewhere
      /\ BlocksValid /\ TasksValid /\ HeadIsHeaviest
  BY DEF IInv
<1>2. task[n] # NoTask /\ task' = [task EXCEPT ![n] = NoTask]
  BY DEF SealResult
<1>3. task \in [Online -> Chains] /\ task' \in [Online -> Chains] /\ task[n] \in Chains
  BY <1>1, <1>2, GenesisFacts DEF Shape, NoTask
<1>4. CASE task[n] \in known[n]
  <2>1. UNCHANGED <<known, head, newWork, missed>>
    BY <1>4 DEF SealResult
  <2>2. TasksValid'
    BY <1>1, <1>2, <1>3, <2>1, TasksStay
  <2>3. Shape' /\ Closed' /\ HeadsKnown' /\ MissedElsewhere' /\ BlocksValid' /\ HeadIsHeaviest'
    BY <1>1, <1>3, <2>1 DEF Shape, Closed, HeadsKnown, MissedElsewhere, BlocksValid, HeadIsHeaviest
  <2>4. QED
    BY <2>2, <2>3 DEF IInv
<1>5. CASE task[n] \notin known[n]
  <2>1. writeBlockWithState(n, task[n])
    BY <1>5 DEF SealResult
  <2>2. task[n] # genesis /\ Valid(task[n]) /\ Parent(task[n]) \in known[n]
    BY <1>1, <1>2 DEF TasksValid, NoTask
  <2>3. /\ Shape' /\ Closed' /\ HeadsKnown' /\ MissedElsewhere' /\ BlocksValid' /\ HeadIsHeaviest'
        /\ \A o \in Online : known[o] \subseteq known'[o]
    BY <1>3, <2>1, <2>2, WriteBlockKeeps
  <2>4. TasksValid'
    BY <1>1, <1>2, <1>3, <2>3, TasksStay
  <2>5. QED
    BY <2>3, <2>4 DEF IInv
<1>6. QED
  BY <1>4, <1>5

LEMMA ImportKeeps ==
    ASSUME IInv, NEW n \in Online, NEW peer \in Online, NEW b \in known[peer], ImportBlock(n, peer, b)
    PROVE  IInv'
<1>1. /\ Shape /\ Closed /\ HeadsKnown /\ MissedElsewhere
      /\ BlocksValid /\ TasksValid /\ HeadIsHeaviest
  BY DEF IInv
<1>2. b \notin known[n] /\ Parent(b) \in known[n] /\ writeBlockWithState(n, b) /\ UNCHANGED task
  BY DEF ImportBlock, Arrives
<1>3. b \in Chains
  BY <1>1 DEF Shape
<1>4. b # genesis
  <2>1. head[n] \in known[n] /\ Ancestry(head[n]) \subseteq known[n] /\ head[n] \in Chains
    BY <1>1 DEF HeadsKnown, Closed, Shape
  <2>2. genesis \in known[n]
    BY <2>1, ChainFacts, AncestryFacts
  <2>3. QED
    BY <1>2, <2>2
<1>5. Valid(b)
  BY <1>1, <1>4 DEF BlocksValid
<1>6. /\ task' \in [Online -> Chains] => Shape'
      /\ Closed' /\ HeadsKnown' /\ MissedElsewhere' /\ BlocksValid' /\ HeadIsHeaviest'
      /\ \A o \in Online : known[o] \subseteq known'[o]
  BY <1>2, <1>3, <1>4, <1>5, WriteBlockKeeps
<1>7. Shape'
  BY <1>1, <1>2, <1>6 DEF Shape
<1>8. TasksValid'
  BY <1>1, <1>2, <1>6, TasksStay
<1>9. QED
  BY <1>6, <1>7, <1>8 DEF IInv

LEMMA DropKeeps ==
    ASSUME IInv, NEW n \in Online, NEW peer \in Online, NEW b \in known[peer], DropBlock(n, peer, b)
    PROVE  IInv'
<1>1. /\ Shape /\ Closed /\ HeadsKnown /\ MissedElsewhere
      /\ BlocksValid /\ TasksValid /\ HeadIsHeaviest
  BY DEF IInv
<1>2. /\ b \notin known[n] /\ UNCHANGED <<known, head, newWork, task>>
      /\ missed' = [missed EXCEPT ![n] = @ \cup {<<peer, b>>}]
  BY DEF DropBlock, Arrives
<1>3. <<peer, b>> \in Online \X Chains
  BY <1>1 DEF Shape
<1>4. /\ missed'[n] = missed[n] \cup {<<peer, b>>} /\ \A o \in Online : o # n => missed'[o] = missed[o]
      /\ missed' \in [Online -> SUBSET (Online \X Chains)]
  BY <1>1, <1>2, <1>3 DEF Shape
<1>5. Shape'
  BY <1>1, <1>2, <1>4 DEF Shape
<1>6. MissedElsewhere'
  BY <1>1, <1>2, <1>4 DEF MissedElsewhere
<1>7. Closed' /\ HeadsKnown' /\ BlocksValid' /\ TasksValid' /\ HeadIsHeaviest'
  BY <1>1, <1>2 DEF Closed, HeadsKnown, BlocksValid, TasksValid, HeadIsHeaviest
<1>8. QED
  BY <1>5, <1>6, <1>7 DEF IInv

LEMMA SynchroniseKeeps == ASSUME IInv, NEW n \in Online, Synchronise(n) PROVE IInv'
<1>1. /\ Shape /\ Closed /\ HeadsKnown /\ MissedElsewhere
      /\ BlocksValid /\ TasksValid /\ HeadIsHeaviest
  BY DEF IInv
<1>2. PICK m \in missed[n] :
         /\ Td(Parent(m[2])) > Td(head[n])
         /\ WriteBlocks(n, Ancestry(Parent(m[2])))
         /\ SetHead(n, Parent(m[2]))
  BY DEF Synchronise
<1>3. UNCHANGED task
  BY DEF Synchronise
<1> DEFINE peer == m[1]
           b == m[2]
           remote == Parent(b)
<1>4. peer \in Online /\ b \in known[peer] /\ b \notin known[n]
  BY <1>1 DEF Shape, MissedElsewhere
<1> HIDE DEF peer, b
<1>5. b \in Blocks /\ Ancestry(b) \subseteq known[peer]
  BY <1>1, <1>4, KnownFacts
<1>6. b # genesis
  <2>1. head[n] \in known[n] /\ Ancestry(head[n]) \subseteq known[n] /\ head[n] \in Chains
    BY <1>1 DEF HeadsKnown, Closed, Shape
  <2>2. genesis \in known[n]
    BY <2>1, ChainFacts, AncestryFacts
  <2>3. QED
    BY <1>4, <2>2
<1>7. remote \in known[peer]
  BY <1>5, <1>6, AncestryFacts
<1> HIDE DEF remote
<1>8. remote \in Chains /\ remote \in Blocks /\ Ancestry(remote) \subseteq known[peer] /\ Td(remote) \in Nat
  BY <1>1, <1>4, <1>7, KnownFacts
<1>9. /\ Ancestry(remote) \in SUBSET Chains
      /\ \A c \in Ancestry(remote) : /\ Ancestry(c) \subseteq known[n] \cup Ancestry(remote)
                                     /\ c # genesis => Valid(c)
  BY <1>1, <1>4, <1>8, ChainFacts, AncestryFacts DEF BlocksValid
<1>10. WriteBlocks(n, Ancestry(remote)) /\ SetHead(n, remote) /\ Td(remote) > Td(head[n])
  BY <1>2 DEF remote, b
<1>11. /\ known' \in [Online -> SUBSET Chains]
       /\ missed' \in [Online -> SUBSET (Online \X Chains)]
       /\ known'[n] = known[n] \cup Ancestry(remote)
       /\ \A o \in Online : known[o] \subseteq known'[o] /\ (o # n => known'[o] = known[o])
       /\ Closed' /\ MissedElsewhere' /\ BlocksValid'
  BY <1>1, <1>9, <1>10, WriteKeeps
<1>12. /\ head'[n] = remote /\ \A o \in Online : o # n => head'[o] = head[o]
       /\ head' \in [Online -> Chains] /\ newWork' \in [Online -> BOOLEAN]
  BY <1>1, <1>8, <1>10 DEF SetHead, Shape
<1>13. Shape'
  BY <1>1, <1>3, <1>11, <1>12 DEF Shape
<1>14. HeadsKnown'
  <2>1. remote \in Ancestry(remote)
    BY <1>8, AncestryFacts
  <2>2. QED
    BY <1>1, <1>11, <1>12, <2>1 DEF HeadsKnown
<1>15. TasksValid'
  BY <1>1, <1>3, <1>11, TasksStay
<1>16. HeadIsHeaviest'
  <2> SUFFICES ASSUME NEW o \in Online, NEW c \in known'[o] PROVE Td(c) <= Td(head'[o])
    BY DEF HeadIsHeaviest
  <2>1. CASE o # n
    BY <1>1, <1>11, <1>12, <2>1 DEF HeadIsHeaviest
  <2>2. CASE o = n /\ c \in Ancestry(remote)
    BY <1>8, <1>12, <2>2, TdGrows
  <2>3. CASE o = n /\ c \in known[n]
    <3>1. Td(c) \in Nat /\ Td(head[n]) \in Nat /\ Td(c) <= Td(head[n])
      BY <1>1, <2>3, KnownFacts DEF HeadIsHeaviest
    <3>2. QED
      BY <1>8, <1>10, <1>12, <2>3, <3>1
  <2>4. QED
    BY <1>11, <2>1, <2>2, <2>3
<1>17. QED
  BY <1>11, <1>13, <1>14, <1>15, <1>16 DEF IInv
LEMMA NextIInv == IInv /\ [Next]_vars => IInv'
<1> SUFFICES ASSUME IInv, [Next]_vars PROVE IInv'
  OBVIOUS
<1>1. CASE \E n \in Online : CommitNewWork(n)
  BY <1>1, CommitKeeps
<1>2. CASE \E n \in Online : SealResult(n)
  BY <1>2, SealKeeps
<1>3. CASE \E n, peer \in Online : \E b \in known[peer] : ImportBlock(n, peer, b)
  BY <1>3, ImportKeeps
<1>4. CASE \E n, peer \in Online : \E b \in known[peer] : DropBlock(n, peer, b)
  BY <1>4, DropKeeps
<1>5. CASE \E n \in Online : Synchronise(n)
  BY <1>5, SynchroniseKeeps
<1>6. CASE UNCHANGED vars
  BY <1>6 DEF vars, IInv, Shape, Closed, HeadsKnown, MissedElsewhere, BlocksValid, TasksValid,
              HeadIsHeaviest
<1>7. QED
  BY <1>1, <1>2, <1>3, <1>4, <1>5, <1>6 DEF Next, Terminated

\* The invariant holds in every reachable state of the network.
THEOREM Invariance == Spec => []IInv
<1>1. Init => IInv
  BY InitIInv
<1>2. IInv /\ [Next]_vars => IInv'
  BY NextIInv
<1>3. QED
  BY <1>1, <1>2, PTL DEF Spec

(***************************************************************************)
(* Whatever happens to a head while a seal waits, what honest nodes seal   *)
(* passes verifyHeader and apply on its branch, and no signer seals two of *)
(* any limit consecutive blocks: for any number of signers, so also where  *)
(* verifySeal's subtraction wraps.                                         *)
(***************************************************************************)
THEOREM BranchesStaySound == Spec => []BranchesSound
<1>1. IInv => BranchesSound
  <2> SUFFICES ASSUME IInv, NEW b \in Sealed
               PROVE  /\ Valid(b)
                      /\ \A i, j \in 1 .. Len(b) :
                            i < j /\ j - i < Limit(snapshot(genesis)) => b[i].Signer # b[j].Signer
    BY DEF BranchesSound, SealedBlocksVerify, SignersRest, Valid
  <2>1. Shape /\ Closed /\ HeadsKnown /\ BlocksValid
    BY DEF IInv
  <2>2. PICK n \in Online : b \in known[n] /\ b # genesis
    <3>1. b \in UNION {known[n] : n \in Online} /\ b # genesis
      BY DEF Sealed
    <3>2. PICK K \in {known[n] : n \in Online} : b \in K
      BY <3>1
    <3>3. QED
      BY <3>1, <3>2
  <2>3. b \in Blocks /\ Ancestry(b) \subseteq known[n]
    BY <2>1, <2>2, KnownFacts
  <2>4. \A p \in Ancestry(b) \ {genesis} : Valid(p)
    BY <2>1, <2>3 DEF BlocksValid
  <2>5. Limit(snapshot(genesis)) = SignerLimit
    <3>1. snapshot(genesis) = QuietSnapshot(Len(genesis), Window(genesis, Len(genesis)))
      BY GenesisFacts, ChainFacts, SnapshotIsWindow
    <3>2. QED
      BY <3>1, QuietFields
  <2>6. \A i, j \in 1 .. Len(b) : i < j /\ j - i < SignerLimit => b[i].Signer # b[j].Signer
    BY <2>3, <2>4, ValidChainRests
  <2>7. Valid(b)
    BY <2>1, <2>2 DEF BlocksValid
  <2>8. QED
    BY <2>5, <2>6, <2>7
<1>2. QED
  BY <1>1, Invariance, PTL

(***************************************************************************)
(* Every node's database is closed under parents and its head is a         *)
(* heaviest block of it, through imports, own seals, lost parents and      *)
(* synchronisations in any order.                                          *)
(***************************************************************************)
THEOREM HeadsStaySound == Spec => []HeadsSound
<1>1. IInv => HeadsSound
  BY DEF IInv, Shape, Closed, HeadsKnown, MissedElsewhere, HeadsSound, TypeOK
<1>2. QED
  BY <1>1, Invariance, PTL

(***************************************************************************)
(* No step of the network loses a block or moves a node to a lighter head, *)
(* although writeBlockWithState compares with the head only.               *)
(***************************************************************************)
NothingLost == [][\A n \in Online : known[n] \subseteq known'[n] /\ Td(head[n]) <= Td(head'[n])]_vars

\* Databases only grow and heads only get heavier, in every step that Spec allows.
THEOREM HeadsOnlyImprove == Spec => NothingLost
<1>1. IInv /\ IInv' /\ [Next]_vars
        => [\A n \in Online : known[n] \subseteq known'[n] /\ Td(head[n]) <= Td(head'[n])]_vars
  <2> SUFFICES ASSUME IInv, IInv', Next, NEW n \in Online
               PROVE  known[n] \subseteq known'[n] /\ Td(head[n]) <= Td(head'[n])
    BY DEF vars
  <2>1. known[n] \subseteq known'[n]
    <3>1. known \in [Online -> SUBSET Chains]
      BY DEF IInv, Shape
    <3>2. \A o \in Online : \A blocks : WriteBlocks(o, blocks) => known[n] \subseteq known'[n]
      BY <3>1 DEF WriteBlocks
    <3>3. (\E o \in Online : \E blocks : WriteBlocks(o, blocks)) \/ UNCHANGED known
      BY DEF Next, CommitNewWork, SealResult, ImportBlock, DropBlock, Synchronise, Terminated, vars,
             writeBlockWithState
    <3>4. QED
      BY <3>2, <3>3
  <2>2. head[n] \in known'[n]
    BY <2>1 DEF IInv, HeadsKnown
  <2>3. QED
    BY <2>1, <2>2 DEF IInv, HeadIsHeaviest
<1>2. QED
  BY <1>1, Invariance, PTL DEF Spec, NothingLost
=============================================================================
