----------------------------- MODULE AuraRules -----------------------------
(***************************************************************************)
(* The rules of the Aura engine (consensus/aura/aura.go): whose turn it is *)
(* at a time, the time that Prepare gives a header, and what verifyHeader  *)
(* demands of one.  A header is the time and the signer that ecrecover     *)
(* finds; the fields that Prepare fixes and verifyHeader compares with     *)
(* constants (extra data, mix digest, uncle hash, difficulty) are left     *)
(* out.  Times are whole seconds, as in SecondsNow.                        *)
(***************************************************************************)
EXTENDS Integers, Sequences

CONSTANTS
    Signers,        \* the accounts of the nodes
    Authorities,    \* config.Authorities: a sequence
    Period          \* config.Period

ASSUME AuraAssumption ==
    /\ Authorities \in Seq(Signers) /\ Len(Authorities) > 0
    /\ \A i, j \in DOMAIN Authorities : Authorities[i] = Authorities[j] => i = j
    /\ Period \in Nat \ {0}

\* len(config.Authorities)
authNum == Len(Authorities)

\* The index, counted from 0, of the authority that may sign at a time.  The
\* last second of a period still belongs to the authority of that period.
turn(time) ==
    LET step == (time \div Period) % authNum
    IN  IF time % Period = 0
        THEN (IF step = 0 THEN authNum ELSE step) - 1
        ELSE step

inTurn(signer, time) == signer = Authorities[turn(time) + 1]

\* Mutant: the distance from the parent is not kept.
PrepareTime_Now(parentTime, now) == now

\* Prepare: one period after the parent, or now if that is later.
PrepareTime(parentTime, now) ==
    IF parentTime + Period < now THEN now ELSE parentTime + Period

\* verifyHeader, verifyCascadingFields and verifySeal.
verifyHeader(header, parentTime, now) ==
    /\ header.time <= now
    /\ parentTime + Period <= header.time
    /\ inTurn(header.signer, header.time)
=============================================================================
