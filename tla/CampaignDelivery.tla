--------------------------- MODULE CampaignDelivery ---------------------------
(***************************************************************************)
(* What a campaign promises about each recipient, whatever its workers do: *)
(* a recipient waits, is claimed for one counted attempt at a time, may    *)
(* wait again while attempts are left, and keeps its outcome; the provider *)
(* is called at most once for each counted attempt.                        *)
(***************************************************************************)
EXTENDS Integers

CONSTANTS Recipients, MaxAttempts

VARIABLES phase, attempts, called
vars == <<phase, attempts, called>>

Init ==
    /\ phase = [r \in Recipients |-> "waiting"]
    /\ attempts = [r \in Recipients |-> 0]
    /\ called = [r \in Recipients |-> {}]

\* An attempt is counted before anything is sent.
Claim(r) ==
    /\ phase[r] = "waiting" /\ attempts[r] < MaxAttempts
    /\ phase' = [phase EXCEPT ![r] = "claimed"]
    /\ attempts' = [attempts EXCEPT ![r] = @ + 1]
    /\ UNCHANGED called

\* A counted attempt reaches the provider; it may be an old one, whose
\* worker was slow, and the recipient may have been settled meanwhile.
Call(r) ==
    /\ \E n \in (1 .. attempts[r]) \ called[r] :
            called' = [called EXCEPT ![r] = @ \cup {n}]
    /\ UNCHANGED <<phase, attempts>>

\* Some recipients get an outcome: an answer, a cancel, or no attempts left.
\* Unanswered claims with attempts left may wait again in the same step.
Settle(settled, again) ==
    /\ \A r \in again : phase[r] = "claimed" /\ attempts[r] < MaxAttempts
    /\ phase' = [r \in Recipients |->
                    IF r \in settled THEN "settled"
                    ELSE IF r \in again THEN "waiting" ELSE phase[r]]
    /\ UNCHANGED <<attempts, called>>

Next ==
    \/ \E r \in Recipients : Claim(r) \/ Call(r)
    \/ \E settled, again \in SUBSET Recipients : Settle(settled, again)

Spec == Init /\ [][Next]_vars
=============================================================================
