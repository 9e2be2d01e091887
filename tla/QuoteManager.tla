----------------------------- MODULE QuoteManager -----------------------------
(***************************************************************************)
(* The usage counters of services/QuoteManager.js: a manager serves every  *)
(* project and keeps the project of the call at hand in this.project.  A   *)
(* process has two, of app.js and of requestService; the model is of the   *)
(* calls of one.  Use is checked, charged and reported to the owner by     *)
(* calls of Redis with an await between any two.  The period of a project  *)
(* and its plan do not change; the figures of the mail are left out.       *)
(***************************************************************************)
EXTENDS Integers, FiniteSets

CONSTANTS
    Projects,
    Checked,     \* kinds of use that are checked before they are charged
    Reported,    \* kinds of use that are charged when they have happened
    Amounts,     \* what a report of use charges
    Limit,       \* limits of the projects' plans, by kind of use; -1 for none
    Callers,     \* bound: places of the calls being handled
    MaxCalls,    \* bound: calls made
    MaxFaults    \* bound: calls of Redis that fail

Kinds == Checked \cup Reported
Unlimited == -1

ASSUME QuoteAssumption ==
    /\ Checked \cap Reported = {}
    /\ Amounts \subseteq Nat
    /\ Limit \in [Projects -> [Kinds -> Nat \cup {Unlimited}]]
    /\ IsFiniteSet(Callers) /\ {MaxCalls, MaxFaults} \subseteq Nat

VARIABLES
    project,     \* this.project, which all calls of the manager share
    count,       \* Redis: the counter of a project and kind, in this period
    notified,    \* Redis: the notification keys that are set
    call,        \* calls in flight
    charged,     \* what was used, by project and kind
    mails,       \* checkpoints the owners were written of
    calls, faults

vars == <<project, count, notified, call, charged, mails, calls, faults>>

Keys == Projects \X Kinds
Nobody == "none"
NoKey == <<>>
Idle == [pc |-> "idle", of |-> NoKey, key |-> NoKey, amount |-> 0, checkpoint |-> 0]

Init ==
    /\ project = Nobody
    /\ count = [k \in Keys |-> 0] /\ charged = count
    /\ notified = {} /\ mails = {}
    /\ call = [c \in Callers |-> Idle]
    /\ calls = 0 /\ faults = 0

-----------------------------------------------------------------------------
(* Keys, limits and checkpoints                                            *)

LimitOf(k) == Limit[k[1]][k[2]]

\* Mutant of Key: the project is read before the call sets it.
KeyBefore(k) == <<IF project = Nobody THEN k[1] ELSE project, k[2]>>
\* generateKey: the project is the one the manager keeps, set in this step.
Key(k) == <<project', k[2]>>

\* Mutant of Available: the limit is inclusive.
AvailableAtLimit(k, n) == LimitOf(k) = Unlimited \/ n <= LimitOf(k)
Available(k, n) == LimitOf(k) = Unlimited \/ n < LimitOf(k)

\* Mutant of Checkpoint: the percentage itself.
CheckpointRaw(k, n) == IF LimitOf(k) <= 0 THEN 0 ELSE (100 * n) \div LimitOf(k)
\* percentageCalculator
Checkpoint(k, n) ==
    LET reached == {p \in {50, 75, 95, 100} : 100 * n >= p * LimitOf(k)} IN
    IF LimitOf(k) <= 0 \/ reached = {} THEN 0
    ELSE CHOOSE p \in reached : \A q \in reached : q <= p

\* Mutant of Seen: the use is looked at before it is charged.
SeenBefore(c) == count[call[c].key] - call[c].amount
Seen(c) == count[call[c].key]

-----------------------------------------------------------------------------
(* Calls                                                                   *)

Running(c, pc) == call[c].pc = pc
\* The next step of a call, with the key it has made.
Goto(c, pc, key) == call' = [call EXCEPT ![c].pc = pc, ![c].key = key]
Ends(c) == call' = [call EXCEPT ![c] = Idle]
Begins(c, pc, k, n) ==
    /\ Running(c, "idle") /\ calls < MaxCalls
    /\ \A d \in Callers : d < c => ~Running(d, "idle")
    /\ calls' = calls + 1
    /\ call' = [call EXCEPT ![c] = [pc |-> pc, of |-> k, key |-> NoKey, amount |-> n,
                                    checkpoint |-> 0]]
Redis == <<count, charged, notified, mails>>
Bounds == <<calls, faults>>

\* A conversation is created or routed: checkQuote comes first.
Asks(c) ==
    /\ \E k \in Projects \X Checked : Begins(c, "check", k, 1)
    /\ UNCHANGED project /\ UNCHANGED Redis /\ UNCHANGED faults
\* Tokens or minutes were used: incrementTokenCount, incrementVoiceDurationCount.
\* The mails of triggers are charged without a check in the same way, one each.
Reports(c) ==
    /\ \E k \in Projects \X Reported, n \in Amounts : Begins(c, "charge", k, n)
    /\ UNCHANGED project /\ UNCHANGED Redis /\ UNCHANGED faults

\* checkQuote and getCurrentQuote up to the call of Redis
MakesCheckKey(c) ==
    /\ Running(c, "check")
    /\ project' = call[c].of[1]
    /\ Goto(c, "quote", Key(call[c].of))
    /\ UNCHANGED Redis /\ UNCHANGED Bounds
\* The answer: the operation is refused, or goes on and may be charged.
ReadsQuote(c) ==
    /\ Running(c, "quote")
    /\ \/ Available(call[c].of, Seen(c)) /\ Goto(c, "charge", NoKey)
       \/ Ends(c)
    /\ UNCHANGED project /\ UNCHANGED Redis /\ UNCHANGED Bounds

\* incrementRequestsCount, incrementEmailCount, incrementTokenCount, up to incr
MakesKey(c) ==
    /\ Running(c, "charge")
    /\ project' = call[c].of[1]
    /\ Goto(c, "incr", Key(call[c].of))
    /\ UNCHANGED Redis /\ UNCHANGED Bounds
\* incr, incrby, incrbyfloat
Increments(c) ==
    /\ Running(c, "incr")
    /\ count' = [count EXCEPT ![call[c].key] = @ + call[c].amount]
    /\ charged' = [charged EXCEPT ![call[c].of] = @ + call[c].amount]
    /\ Goto(c, "alert", call[c].key)
    /\ UNCHANGED <<project, notified, mails>> /\ UNCHANGED Bounds

\* sendEmailIfQuotaExceeded and checkQuoteForAlert up to the call of Redis
MakesAlertKey(c) ==
    /\ Running(c, "alert")
    /\ project' = call[c].of[1]
    /\ Goto(c, "level", Key(call[c].of))
    /\ UNCHANGED Redis /\ UNCHANGED Bounds
ReadsLevel(c) ==
    LET checkpoint == Checkpoint(call[c].of, Seen(c)) IN
    /\ Running(c, "level")
    /\ IF checkpoint = 0 THEN Ends(c)
       ELSE call' = [call EXCEPT ![c].pc = "notified", ![c].checkpoint = checkpoint]
    /\ UNCHANGED project /\ UNCHANGED Redis /\ UNCHANGED Bounds

Note(c) == <<call[c].key, call[c].checkpoint>>
ReadsNotified(c) ==
    /\ Running(c, "notified")
    /\ IF Note(c) \in notified THEN Ends(c) ELSE Goto(c, "figures", call[c].key)
    /\ UNCHANGED project /\ UNCHANGED Redis /\ UNCHANGED Bounds
\* getAllQuotes sets the project and reads one counter after the other.
ReadsFigures(c) ==
    /\ Running(c, "figures")
    /\ project' = call[c].of[1]
    /\ Goto(c, "mail", call[c].key)
    /\ UNCHANGED Redis /\ UNCHANGED Bounds
\* email.send.quote.checkpoint
Mails(c) ==
    /\ Running(c, "mail")
    /\ mails' = mails \cup {<<call[c].of, call[c].checkpoint>>}
    /\ Goto(c, "mark", call[c].key)
    /\ UNCHANGED <<project, count, charged, notified>> /\ UNCHANGED Bounds
Marks(c) ==
    /\ Running(c, "mark")
    /\ notified' = notified \cup {Note(c)}
    /\ Ends(c)
    /\ UNCHANGED <<project, count, charged, mails>> /\ UNCHANGED Bounds

\* A call of Redis fails: the promise is rejected and the rest is not done.
Fails(c) ==
    /\ Running(c, "quote") \/ Running(c, "incr") \/ Running(c, "level")
       \/ Running(c, "notified") \/ Running(c, "figures") \/ Running(c, "mark")
    /\ faults < MaxFaults
    /\ faults' = faults + 1
    /\ Ends(c)
    /\ UNCHANGED project /\ UNCHANGED Redis /\ UNCHANGED calls

Next ==
    \E c \in Callers :
        \/ Asks(c) \/ Reports(c)
        \/ MakesCheckKey(c) \/ ReadsQuote(c)
        \/ MakesKey(c) \/ Increments(c)
        \/ MakesAlertKey(c) \/ ReadsLevel(c) \/ ReadsNotified(c)
        \/ ReadsFigures(c) \/ Mails(c) \/ Marks(c)
        \/ Fails(c)

Spec == Init /\ [][Next]_vars

-----------------------------------------------------------------------------
(* Properties                                                              *)

\* Types.
TypeOK ==
    /\ project \in Projects \cup {Nobody}
    /\ count \in [Keys -> Nat] /\ charged \in [Keys -> Nat]
    /\ notified \subseteq Keys \X {50, 75, 95, 100} /\ mails \subseteq Keys \X {50, 75, 95, 100}
    /\ call \in [Callers ->
            [pc : {"idle", "check", "quote", "charge", "incr", "alert", "level", "notified",
                   "figures", "mail", "mark"},
             of : Keys \cup {NoKey}, key : Keys \cup {NoKey}, amount : Nat,
             checkpoint : {0, 50, 75, 95, 100}]]
    /\ {calls, faults} \subseteq Nat

\* Every counter holds what its own project used, although the manager
\* keeps one project for all calls and every call waits for Redis.
ChargedToItsProject == count = charged

\* Use that is checked, as that of conversations is, exceeds its limit by less
\* than the calls handled at once: a check and its charge are two calls of
\* Redis.  Nothing of the kind holds of mails: those of triggers are not checked.
OverrunBounded ==
    \A k \in Projects \X Checked :
        LimitOf(k) # Unlimited /\ count[k] > 0
            => count[k] < LimitOf(k) + Cardinality(Callers)

\* The owner is told of no checkpoint that was not reached; and when the calls
\* are over he has been told of the highest one, whoever crossed it.
OwnerIsTold ==
    /\ \A k \in Keys, p \in {50, 75, 95, 100} :
        <<k, p>> \in mails => Checkpoint(k, charged[k]) >= p
    /\ faults = 0 /\ (\A c \in Callers : Running(c, "idle")) =>
        \A k \in Keys : Checkpoint(k, charged[k]) # 0 => <<k, Checkpoint(k, charged[k])>> \in mails
=============================================================================
