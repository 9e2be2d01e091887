-------------------------- MODULE QuoteManagerProofs --------------------------
(***************************************************************************)
(* Proofs about QuoteManager for every set of projects, kinds of use,      *)
(* limits and callers, and any number of calls and failures.               *)
(***************************************************************************)
EXTENDS QuoteManager, FiniteSetTheorems, TLAPS

-----------------------------------------------------------------------------
(* The inductive invariant                                                 *)

Places == {"idle", "check", "quote", "charge", "incr", "alert", "level", "notified",
           "figures", "mail", "mark"}
\* A call waits here for Redis, with a key it has made.
Keyed == {"quote", "incr", "level", "notified", "figures", "mail", "mark"}

\* A key is of the project and the kind of use its call is about.
KeysOK ==
    \A c \in Callers :
        /\ call[c].pc # "idle" => call[c].of \in Keys
        /\ call[c].pc \in Keyed => call[c].key = call[c].of
        /\ call[c].pc \in {"notified", "figures", "mail", "mark"} => call[c].checkpoint # 0

\* A use that is checked is charged once.
OnesOK == \A c \in Callers : call[c].of \in Projects \X Checked => call[c].amount = 1

\* Calls that were let through and are not charged yet.
Owed(k) == {c \in Callers : call[c].pc \in {"charge", "incr"} /\ call[c].of = k}

\* What was charged and what is owed stay below the limit and the callers.
BoundOf(k) ==
    LimitOf(k) # Unlimited /\ (count[k] > 0 \/ Owed(k) # {})
        => count[k] + Cardinality(Owed(k)) < LimitOf(k) + Cardinality(Callers)
OwedOK == \A k \in Projects \X Checked : BoundOf(k)

IInv == TypeOK /\ KeysOK /\ OnesOK /\ ChargedToItsProject /\ OwedOK

Checkpoints == {50, 75, 95, 100}

(* The mails. OwnerIsTold speaks of the states in which the calls are over;  *)
(* in between, who will still write of a checkpoint is a call that is on     *)
(* its way from the charge to the mail.                                     *)
Past == {"notified", "figures", "mail", "mark"}
\* What is written of, or will be, was reached.
ReachedOK ==
    /\ \A k \in Keys, p \in Checkpoints : <<k, p>> \in mails => Checkpoint(k, count[k]) >= p
    /\ \A c \in Callers :
        call[c].pc \in Past => Checkpoint(call[c].of, count[call[c].of]) >= call[c].checkpoint
\* A note is written after its mail.
NotesOK ==
    /\ notified \subseteq mails
    /\ \A c \in Callers : call[c].pc = "mark" => <<call[c].of, call[c].checkpoint>> \in mails
\* The call will write of checkpoint p of k, or see that it was written of.
Tells(c, k, p) ==
    /\ call[c].of = k
    /\ \/ call[c].pc \in {"alert", "level"}
       \/ call[c].pc \in {"notified", "figures", "mail"} /\ call[c].checkpoint = p
Told(k, p) == p = 0 \/ <<k, p>> \in mails \/ \E c \in Callers : Tells(c, k, p)
ToldOK == faults = 0 => \A k \in Keys : Told(k, Checkpoint(k, count[k]))
MailInv == ReachedOK /\ NotesOK /\ ToldOK

-----------------------------------------------------------------------------
(* Helpers                                                                 *)

CallType == [pc : Places, of : Keys \cup {NoKey}, key : Keys \cup {NoKey}, amount : Nat,
             checkpoint : {0} \cup Checkpoints]
CallsOK == call \in [Callers -> CallType]

(* The number of a set of callers is a natural number, and that of a part   *)
(* of it is not larger.                                                    *)
LEMMA Sizes ==
    ASSUME NEW S \in SUBSET Callers, NEW T \in SUBSET S
    PROVE  /\ Cardinality(Callers) \in Nat /\ Cardinality(S) \in Nat /\ Cardinality(T) \in Nat
           /\ Cardinality(T) <= Cardinality(S) /\ Cardinality(S) <= Cardinality(Callers)
<1>1. IsFiniteSet(Callers)
    BY QuoteAssumption
<1>2. IsFiniteSet(S) /\ Cardinality(S) <= Cardinality(Callers)
    BY <1>1, FS_Subset
<1>3. IsFiniteSet(T) /\ Cardinality(T) <= Cardinality(S)
    BY <1>2, FS_Subset
<1> QED  BY <1>1, <1>2, <1>3, FS_CardinalityType

(* percentageCalculator answers one of the checkpoints or nothing.          *)
LEMMA CheckpointType ==
    ASSUME NEW k \in Keys, NEW n \in Nat
    PROVE  Checkpoint(k, n) \in {0} \cup Checkpoints
<1> DEFINE reached == {p \in Checkpoints : 100 * n >= p * LimitOf(k)}
<1>1. CASE LimitOf(k) <= 0 \/ reached = {}
    BY <1>1 DEF Checkpoint, Checkpoints
<1>2. CASE ~(LimitOf(k) <= 0 \/ reached = {})
    <2>1. \E p \in reached : \A q \in reached : q <= p
        <3>1. CASE 100 \in reached
            BY <3>1 DEF Checkpoints
        <3>2. CASE 100 \notin reached /\ 95 \in reached
            BY <3>2 DEF Checkpoints
        <3>3. CASE 100 \notin reached /\ 95 \notin reached /\ 75 \in reached
            BY <3>3 DEF Checkpoints
        <3>4. CASE 100 \notin reached /\ 95 \notin reached /\ 75 \notin reached
            BY <1>2, <3>4 DEF Checkpoints
        <3> QED  BY <3>1, <3>2, <3>3, <3>4
    <2>2. Checkpoint(k, n) = CHOOSE p \in reached : \A q \in reached : q <= p
        BY <1>2 DEF Checkpoint, Checkpoints
    <2>3. Checkpoint(k, n) \in reached
        <3> HIDE DEF reached
        <3> QED  BY <2>1, <2>2
    <2> QED  BY <2>3
<1> QED  BY <1>1, <1>2

(* A higher counter reaches no lower checkpoint.                            *)
LEMMA CheckpointRises ==
    ASSUME NEW k \in Keys, NEW m \in Nat, NEW n \in Nat, m <= n
    PROVE  /\ Checkpoint(k, m) <= Checkpoint(k, n)
           /\ Checkpoint(k, 0) = 0
<1> DEFINE reached(x) == {p \in Checkpoints : 100 * x >= p * LimitOf(k)}
<1>1. LimitOf(k) \in Int
    BY QuoteAssumption DEF Keys, LimitOf, Unlimited
<1>2. ASSUME NEW x \in Nat, LimitOf(k) > 0, reached(x) # {}
      PROVE  Checkpoint(k, x) \in reached(x) /\ \A q \in reached(x) : q <= Checkpoint(k, x)
    <2>1. \E p \in reached(x) : \A q \in reached(x) : q <= p
        <3>1. CASE 100 \in reached(x)
            BY <3>1 DEF Checkpoints
        <3>2. CASE 100 \notin reached(x) /\ 95 \in reached(x)
            BY <3>2 DEF Checkpoints
        <3>3. CASE 100 \notin reached(x) /\ 95 \notin reached(x) /\ 75 \in reached(x)
            BY <3>3 DEF Checkpoints
        <3>4. CASE 100 \notin reached(x) /\ 95 \notin reached(x) /\ 75 \notin reached(x)
            BY <1>2, <3>4 DEF Checkpoints
        <3> QED  BY <3>1, <3>2, <3>3, <3>4
    <2>2. Checkpoint(k, x) = CHOOSE p \in reached(x) : \A q \in reached(x) : q <= p
        BY <1>1, <1>2 DEF Checkpoint, Checkpoints
    <2> HIDE DEF reached
    <2> QED  BY <2>1, <2>2
<1>3. ASSUME NEW x \in Nat, LimitOf(k) <= 0 \/ reached(x) = {} PROVE Checkpoint(k, x) = 0
    BY <1>3 DEF Checkpoint, Checkpoints
<1>4. LimitOf(k) > 0 => reached(m) \subseteq reached(n)
    BY <1>1 DEF Checkpoints
<1>5. Checkpoint(k, m) \in {0} \cup Checkpoints /\ Checkpoint(k, n) \in {0} \cup Checkpoints
    BY CheckpointType
<1>6. Checkpoint(k, m) <= Checkpoint(k, n)
    <2>1. CASE LimitOf(k) <= 0 \/ reached(m) = {}
        BY <1>3, <1>5, <2>1 DEF Checkpoints
    <2>2. CASE LimitOf(k) > 0 /\ reached(m) # {}
        <3>1. Checkpoint(k, m) \in reached(m)
            BY <1>2, <2>2
        <3>2. Checkpoint(k, m) \in reached(n) /\ reached(n) # {}
            BY <1>4, <2>2, <3>1
        <3> HIDE DEF reached
        <3> QED  BY <1>2, <2>2, <3>2
    <2> QED  BY <1>1, <2>1, <2>2
<1>7. Checkpoint(k, 0) = 0
    <2>1. LimitOf(k) <= 0 \/ reached(0) = {}
        BY <1>1 DEF Checkpoints
    <2> HIDE DEF reached
    <2> QED  BY <1>3, <2>1
<1> QED  BY <1>6, <1>7

(* What is put at the place of a call; the other places stay as they are.   *)
LEMMA Moves ==
    ASSUME CallsOK, NEW c \in Callers
    PROVE  /\ \A pc \in Places, key \in Keys \cup {NoKey} : Goto(c, pc, key) =>
                /\ CallsOK'
                /\ call'[c] = [pc |-> pc, of |-> call[c].of, key |-> key,
                               amount |-> call[c].amount, checkpoint |-> call[c].checkpoint]
                /\ \A d \in Callers : d # c => call'[d] = call[d]
           /\ Ends(c) => CallsOK' /\ call'[c] = Idle /\ \A d \in Callers : d # c => call'[d] = call[d]
<1> USE DEF CallsOK, CallType
<1>1. Idle \in CallType
    BY DEF Idle, Places, Checkpoints
<1>2. ASSUME NEW pc \in Places, NEW key \in Keys \cup {NoKey}, Goto(c, pc, key)
      PROVE  /\ CallsOK'
             /\ call'[c] = [pc |-> pc, of |-> call[c].of, key |-> key,
                            amount |-> call[c].amount, checkpoint |-> call[c].checkpoint]
             /\ \A d \in Callers : d # c => call'[d] = call[d]
    BY <1>2 DEF Goto
<1>3. ASSUME Ends(c) PROVE CallsOK' /\ call'[c] = Idle /\ \A d \in Callers : d # c => call'[d] = call[d]
    BY <1>1, <1>3 DEF Ends
<1> QED  BY <1>2, <1>3

(* The key that is made in the step that sets the project is of that project. *)
LEMMA OwnKey ==
    ASSUME NEW k \in Keys, project' = k[1]
    PROVE  Key(k) = k
BY DEF Key, Keys

-----------------------------------------------------------------------------
(* What a step does                                                        *)

\* A call ends, or goes on with its key if it has one.
Goes(c) ==
    /\ CallsOK'
    /\ \A d \in Callers : d # c => call'[d] = call[d]
    /\ \/ call'[c] = Idle
       \/ /\ call'[c].of \in Keys
          /\ call'[c].pc \in Keyed => call'[c].key = call'[c].of
          /\ call'[c].pc \in {"notified", "figures", "mail", "mark"} => call'[c].checkpoint # 0
          /\ call'[c].of \in Projects \X Checked => call'[c].amount = 1
\* Who owes a charge of a checked use is not changed, unless he pays or fails.
Owes(c) ==
    call'[c].pc \in {"charge", "incr"} /\ call'[c].of \in Projects \X Checked =>
        call[c].pc \in {"charge", "incr"} /\ call[c].of = call'[c].of

(* A call begins: a checked use with one unit, another one with its amount.  *)
LEMMA BeginsGoes ==
    ASSUME IInv, NEW c \in Callers, Asks(c) \/ Reports(c)
    PROVE  Goes(c) /\ Owes(c)
<1>0. CallsOK
    BY DEF IInv, TypeOK, CallsOK, CallType, Places, Checkpoints
<1>1. ASSUME NEW pc \in {"check", "charge"}, NEW k \in Keys, NEW n \in Nat, Begins(c, pc, k, n)
      PROVE  /\ CallsOK'
             /\ call'[c] = [pc |-> pc, of |-> k, key |-> NoKey, amount |-> n, checkpoint |-> 0]
             /\ \A d \in Callers : d # c => call'[d] = call[d]
    BY <1>0, <1>1 DEF Begins, CallsOK, CallType, Places
<1>2. CASE Asks(c)
    <2>1. PICK k \in Projects \X Checked : Begins(c, "check", k, 1)
        BY <1>2 DEF Asks
    <2>2. k \in Keys
        BY DEF Keys, Kinds
    <2>3. /\ CallsOK'
          /\ call'[c] = [pc |-> "check", of |-> k, key |-> NoKey, amount |-> 1, checkpoint |-> 0]
          /\ \A d \in Callers : d # c => call'[d] = call[d]
        BY <1>1, <2>1, <2>2
    <2> QED  BY <2>2, <2>3 DEF Goes, Owes, Keyed
<1>3. CASE Reports(c)
    <2>1. PICK k \in Projects \X Reported, n \in Amounts : Begins(c, "charge", k, n)
        BY <1>3 DEF Reports
    <2>2. k \in Keys /\ k \notin Projects \X Checked /\ n \in Nat
        BY QuoteAssumption DEF Keys, Kinds
    <2>3. /\ CallsOK'
          /\ call'[c] = [pc |-> "charge", of |-> k, key |-> NoKey, amount |-> n, checkpoint |-> 0]
          /\ \A d \in Callers : d # c => call'[d] = call[d]
        BY <1>1, <2>1, <2>2
    <2> QED  BY <2>2, <2>3 DEF Goes, Owes, Keyed
<1> QED  BY <1>2, <1>3

\* The steps of a call that only make keys, read or write a mail.
Minor(c) ==
    \/ MakesCheckKey(c) \/ MakesKey(c) \/ MakesAlertKey(c)
    \/ ReadsLevel(c) \/ ReadsNotified(c) \/ ReadsFigures(c)
    \/ Mails(c) \/ Marks(c) \/ Fails(c)

(* A call that makes a key makes its own; one that reads goes on or ends.   *)
LEMMA MinorGoes ==
    ASSUME IInv, NEW c \in Callers, Minor(c)
    PROVE  Goes(c) /\ Owes(c)
<1> DEFINE k == call[c].of
<1>0. CallsOK /\ k \in Keys /\ (k \in Projects \X Checked => call[c].amount = 1)
    BY DEF IInv, TypeOK, CallsOK, CallType, Places, Checkpoints, KeysOK, OnesOK, Minor, MakesCheckKey,
        MakesKey, MakesAlertKey, ReadsLevel, ReadsNotified, ReadsFigures, Mails, Marks, Fails, Running
<1>1. ASSUME Ends(c) PROVE Goes(c) /\ Owes(c)
    BY <1>0, <1>1, Moves DEF Goes, Owes, Idle
<1>2. ASSUME NEW pc \in Places, NEW key \in Keys, Goto(c, pc, key), key = k,
             pc \in {"notified", "figures", "mail", "mark"} => call[c].checkpoint # 0,
             pc # "charge", pc = "incr" => call[c].pc = "charge"
      PROVE  Goes(c) /\ Owes(c)
    <2>1. /\ CallsOK'
          /\ call'[c] = [pc |-> pc, of |-> call[c].of, key |-> key,
                         amount |-> call[c].amount, checkpoint |-> call[c].checkpoint]
          /\ \A d \in Callers : d # c => call'[d] = call[d]
        BY <1>0, <1>2, Moves
    <2>2. Goes(c)
        BY <1>0, <1>2, <2>1 DEF Goes
    <2>3. Owes(c)
        BY <1>0, <1>2, <2>1 DEF Owes
    <2> QED  BY <2>2, <2>3
<1> USE DEF Running
<1>3. CASE MakesCheckKey(c)
    <2>1. Goto(c, "quote", Key(k)) /\ Key(k) = k
        BY <1>0, <1>3, OwnKey DEF MakesCheckKey
    <2> QED  BY <1>0, <1>2, <2>1 DEF Places
<1>4. CASE MakesKey(c)
    <2>1. Goto(c, "incr", Key(k)) /\ Key(k) = k /\ call[c].pc = "charge"
        BY <1>0, <1>4, OwnKey DEF MakesKey
    <2> QED  BY <1>0, <1>2, <2>1 DEF Places
<1>5. CASE MakesAlertKey(c)
    <2>1. Goto(c, "level", Key(k)) /\ Key(k) = k
        BY <1>0, <1>5, OwnKey DEF MakesAlertKey
    <2> QED  BY <1>0, <1>2, <2>1 DEF Places
<1>6. CASE ReadsLevel(c)
    <2> DEFINE checkpoint == Checkpoint(k, Seen(c))
    <2>1. call[c].key = k /\ Seen(c) \in Nat
        BY <1>0, <1>6 DEF ReadsLevel, IInv, KeysOK, Keyed, TypeOK, Seen
    <2>2. checkpoint \in {0} \cup Checkpoints
        BY <1>0, <2>1, CheckpointType
    <2>3. CASE checkpoint = 0
        BY <1>1, <1>6, <2>3 DEF ReadsLevel
    <2>4. CASE checkpoint # 0
        <3>1. call' = [call EXCEPT ![c].pc = "notified", ![c].checkpoint = checkpoint]
            BY <1>6, <2>4 DEF ReadsLevel
        <3> HIDE DEF checkpoint
        <3> QED  BY <1>0, <2>1, <2>2, <2>4, <3>1 DEF Goes, Owes, CallsOK, CallType, Places
    <2> QED  BY <2>3, <2>4
<1>7. CASE ReadsNotified(c)
    <2>1. call[c].key = k /\ call[c].checkpoint # 0
        BY <1>7 DEF ReadsNotified, IInv, KeysOK, Keyed
    <2>2. Ends(c) \/ Goto(c, "figures", k)
        BY <1>7, <2>1 DEF ReadsNotified
    <2> QED  BY <1>0, <1>1, <1>2, <2>1, <2>2 DEF Places
<1>8. CASE ReadsFigures(c)
    <2>1. call[c].key = k /\ call[c].checkpoint # 0 /\ Goto(c, "mail", call[c].key)
        BY <1>8 DEF ReadsFigures, IInv, KeysOK, Keyed
    <2> QED  BY <1>0, <1>2, <2>1 DEF Places
<1>9. CASE Mails(c)
    <2>1. call[c].key = k /\ call[c].checkpoint # 0 /\ Goto(c, "mark", call[c].key)
        BY <1>9 DEF Mails, IInv, KeysOK, Keyed
    <2> QED  BY <1>0, <1>2, <2>1 DEF Places
<1>10. CASE Marks(c) \/ Fails(c)
    BY <1>1, <1>10 DEF Marks, Fails
<1> QED  BY <1>3, <1>4, <1>5, <1>6, <1>7, <1>8, <1>9, <1>10 DEF Minor

(* The answer of Redis: a call that is let through found room below the     *)
(* limit.                                                                  *)
LEMMA ReadsGoes ==
    ASSUME IInv, NEW c \in Callers, ReadsQuote(c)
    PROVE  /\ Goes(c)
           /\ \/ Owes(c)
              \/ call'[c].of = call[c].of /\ Available(call[c].of, count[call[c].of])
<1>0. CallsOK /\ call[c].pc = "quote" /\ call[c].of \in Keys /\ call[c].key = call[c].of
    /\ (call[c].of \in Projects \X Checked => call[c].amount = 1)
    BY DEF IInv, TypeOK, CallsOK, CallType, Places, Checkpoints, KeysOK, Keyed, OnesOK, ReadsQuote, Running
<1>1. CASE Ends(c)
    BY <1>0, <1>1, Moves DEF Goes, Owes, Idle
<1>2. CASE Available(call[c].of, Seen(c)) /\ Goto(c, "charge", NoKey)
    <2>1. CallsOK' /\ call'[c] = [pc |-> "charge", of |-> call[c].of, key |-> NoKey,
                                  amount |-> call[c].amount, checkpoint |-> call[c].checkpoint]
          /\ \A d \in Callers : d # c => call'[d] = call[d]
        BY <1>0, <1>2, Moves DEF Places
    <2>2. Goes(c) /\ call'[c].of = call[c].of
        BY <1>0, <2>1 DEF Goes, Keyed
    <2> QED  BY <1>0, <1>2, <2>2 DEF Seen
<1> QED  BY <1>1, <1>2 DEF ReadsQuote

(* A charge is made to the counter of the call's project and is not owed    *)
(* any more.                                                               *)
LEMMA IncrementsGoes ==
    ASSUME IInv, NEW c \in Callers, Increments(c)
    PROVE  /\ Goes(c) /\ call[c].pc = "incr" /\ call'[c].pc = "alert"
           /\ call[c].of \in Keys /\ call[c].amount \in Nat
           /\ call[c].of \in Projects \X Checked => call[c].amount = 1
           /\ count' = [count EXCEPT ![call[c].of] = @ + call[c].amount]
           /\ charged' = [charged EXCEPT ![call[c].of] = @ + call[c].amount]
<1>0. CallsOK /\ call[c].pc = "incr" /\ call[c].of \in Keys /\ call[c].key = call[c].of
    /\ (call[c].of \in Projects \X Checked => call[c].amount = 1) /\ call[c].amount \in Nat
    BY DEF IInv, TypeOK, CallsOK, CallType, Places, Checkpoints, KeysOK, Keyed, OnesOK, Increments, Running
<1>1. CallsOK' /\ call'[c] = [pc |-> "alert", of |-> call[c].of, key |-> call[c].key,
                              amount |-> call[c].amount, checkpoint |-> call[c].checkpoint]
      /\ \A d \in Callers : d # c => call'[d] = call[d]
    BY <1>0, Moves DEF Increments, Places
<1>2. Goes(c) /\ call'[c].pc = "alert"
    BY <1>0, <1>1 DEF Goes, Keyed
<1> QED  BY <1>0, <1>2 DEF Increments

-----------------------------------------------------------------------------
(* The invariant is preserved                                              *)

Acts(c) ==
    \/ Asks(c) \/ Reports(c) \/ Minor(c) \/ ReadsQuote(c) \/ Increments(c)

(* Every step is one of a call.                                            *)
LEMMA Acting == Next => \E c \in Callers : Acts(c)
BY DEF Next, Acts, Minor

(* A call keeps its place well formed, with its own key and its one unit.    *)
LEMMA GoesKeeps ==
    ASSUME IInv, NEW c \in Callers, Goes(c)
    PROVE  KeysOK' /\ OnesOK'
<1>1. NoKey \notin Projects \X Checked
    BY DEF NoKey
<1>2. KeysOK'
    BY DEF IInv, Goes, KeysOK, Idle, Keyed
<1>3. OnesOK'
    BY <1>1 DEF IInv, Goes, OnesOK, Idle
<1> QED  BY <1>2, <1>3

(* Types and the sums: only a charge changes the counters, and it changes    *)
(* both of them.                                                           *)
LEMMA TypeStep ==
    ASSUME IInv, NEW c \in Callers, Acts(c), Goes(c)
    PROVE  TypeOK' /\ ChargedToItsProject'
<1>0. TypeOK /\ ChargedToItsProject
    BY DEF IInv
<1>1. call' \in [Callers ->
            [pc : {"idle", "check", "quote", "charge", "incr", "alert", "level", "notified",
                   "figures", "mail", "mark"},
             of : Keys \cup {NoKey}, key : Keys \cup {NoKey}, amount : Nat,
             checkpoint : {0, 50, 75, 95, 100}]]
    <2>1. {0} \cup Checkpoints = {0, 50, 75, 95, 100}
        BY DEF Checkpoints
    <2> QED  BY <2>1 DEF Goes, CallsOK, CallType, Places
<1>2. project' \in Projects \cup {Nobody}
    <2>1. call[c].pc # "idle" => call[c].of[1] \in Projects
        BY DEF IInv, KeysOK, Keys
    <2> QED  BY <1>0, <2>1 DEF TypeOK, Acts, Minor, Asks, Reports, MakesCheckKey, ReadsQuote, MakesKey,
            Increments, MakesAlertKey, ReadsLevel, ReadsNotified, ReadsFigures, Mails, Marks, Fails, Running
<1>3. notified' \subseteq Keys \X Checkpoints /\ mails' \subseteq Keys \X Checkpoints
    <2>1. call[c].pc \in {"mail", "mark"} => <<call[c].of, call[c].checkpoint>> \in Keys \X Checkpoints
        BY <1>0 DEF IInv, KeysOK, TypeOK, Checkpoints
    <2>2. call[c].pc = "mark" => Note(c) \in Keys \X Checkpoints
        BY <2>1 DEF IInv, KeysOK, Keyed, Note
    <2> QED  BY <1>0, <2>1, <2>2 DEF TypeOK, Acts, Minor, Asks, Reports, MakesCheckKey, ReadsQuote, MakesKey,
            Increments, MakesAlertKey, ReadsLevel, ReadsNotified, ReadsFigures, Mails, Marks, Fails, Running,
            Redis, Checkpoints
<1>4. count' \in [Keys -> Nat] /\ charged' \in [Keys -> Nat] /\ count' = charged'
    <2>1. CASE Increments(c)
        <3>1. call[c].of \in Keys /\ call[c].amount \in Nat
              /\ count' = [count EXCEPT ![call[c].of] = @ + call[c].amount]
              /\ charged' = [charged EXCEPT ![call[c].of] = @ + call[c].amount]
            BY <2>1, IncrementsGoes
        <3>2. charged' = count'
            BY <1>0, <3>1, Zenon DEF ChargedToItsProject
        <3>3. count \in [Keys -> Nat] /\ count[call[c].of] + call[c].amount \in Nat
            BY <1>0, <3>1 DEF TypeOK
        <3>4. count' \in [Keys -> Nat]
            BY <3>1, <3>3
        <3> QED  BY <3>2, <3>4
    <2>2. CASE ~Increments(c)
        BY <1>0, <2>2 DEF TypeOK, ChargedToItsProject, Acts, Minor, Asks, Reports, MakesCheckKey,
            ReadsQuote, MakesKey, MakesAlertKey, ReadsLevel, ReadsNotified, ReadsFigures, Mails, Marks,
            Fails, Redis
    <2> QED  BY <2>1, <2>2
<1>5. {calls', faults'} \subseteq Nat
    BY <1>0 DEF TypeOK, Acts, Minor, Asks, Reports, Begins, MakesCheckKey, ReadsQuote, MakesKey, Increments,
        MakesAlertKey, ReadsLevel, ReadsNotified, ReadsFigures, Mails, Marks, Fails, Bounds
<1> QED  BY <1>1, <1>2, <1>3, <1>4, <1>5 DEF TypeOK, ChargedToItsProject, Checkpoints

(* Where the counter stays and nobody owes more, the bound stays.           *)
LEMMA BoundKept ==
    ASSUME TypeOK, NEW k \in Projects \X Checked, BoundOf(k),
           count'[k] = count[k], Owed(k)' \subseteq Owed(k)
    PROVE  BoundOf(k)'
<1> DEFINE before == Owed(k)
           after == Owed(k)'
<1>1. before \in SUBSET Callers /\ after \in SUBSET before
    BY DEF Owed
<1>2. /\ Cardinality(Callers) \in Nat /\ Cardinality(before) \in Nat /\ Cardinality(after) \in Nat
      /\ Cardinality(after) <= Cardinality(before)
    <2> HIDE DEF before, after
    <2> QED  BY <1>1, Sizes
<1>3. after # {} => before # {}
    BY <1>1
<1>4. k \in Keys /\ count[k] \in Nat /\ LimitOf(k) \in Int
    BY QuoteAssumption DEF TypeOK, Keys, Kinds, LimitOf, Unlimited
<1> HIDE DEF before, after
<1>5. LimitOf(k) # Unlimited /\ (count'[k] > 0 \/ after # {})
        => count'[k] + Cardinality(after) < LimitOf(k) + Cardinality(Callers)
    <2>1. LimitOf(k) # Unlimited /\ (count[k] > 0 \/ before # {})
            => count[k] + Cardinality(before) < LimitOf(k) + Cardinality(Callers)
        BY DEF BoundOf, before
    <2> QED  BY <1>2, <1>3, <1>4, <2>1
<1> QED  BY <1>5 DEF BoundOf, after, LimitOf

(* Who owed is among those who owe, but for the call that was let through.   *)
LEMMA OwedKept ==
    ASSUME NEW c \in Callers, Goes(c), NEW k \in Projects \X Checked,
           Owes(c) \/ call'[c].of # k
    PROVE  Owed(k)' \subseteq Owed(k)
<1>1. k # NoKey
    BY DEF NoKey
<1>2. ASSUME NEW d \in Owed(k)' PROVE d \in Owed(k)
    <2>1. d \in Callers /\ call'[d].pc \in {"charge", "incr"} /\ call'[d].of = k
        BY <1>2 DEF Owed
    <2>2. CASE d # c
        BY <2>1, <2>2 DEF Goes, Owed
    <2>3. CASE d = c
        BY <2>1, <2>3 DEF Owes, Owed
    <2> QED  BY <2>2, <2>3
<1> QED  BY <1>2

(* A call is let through below the limit: with all the others that may owe   *)
(* a charge the bound holds.                                               *)
LEMMA BoundRead ==
    ASSUME IInv, NEW c \in Callers, ReadsQuote(c), NEW k \in Projects \X Checked
    PROVE  BoundOf(k)'
<1>1. TypeOK /\ BoundOf(k) /\ Goes(c) /\ count' = count
    BY ReadsGoes DEF IInv, OwedOK, ReadsQuote, Redis
<1>2. CASE Owes(c) \/ call'[c].of # k
    BY <1>1, <1>2, OwedKept, BoundKept
<1>3. CASE call'[c].of = k /\ Available(k, count[k])
    <2> DEFINE after == Owed(k)'
    <2>1. after \in SUBSET Callers
        BY DEF Owed
    <2>2. Cardinality(after) \in Nat /\ Cardinality(Callers) \in Nat
          /\ Cardinality(after) <= Cardinality(Callers)
        <3> HIDE DEF after
        <3> QED  BY <2>1, Sizes
    <2>3. count[k] \in Nat /\ LimitOf(k) \in Int
        BY <1>1, QuoteAssumption DEF TypeOK, Keys, Kinds, LimitOf, Unlimited
    <2>4. LimitOf(k) = Unlimited \/ count[k] < LimitOf(k)
        BY <1>3 DEF Available
    <2> HIDE DEF after
    <2>5. LimitOf(k) # Unlimited => count'[k] + Cardinality(after) < LimitOf(k) + Cardinality(Callers)
        BY <1>1, <2>2, <2>3, <2>4
    <2> QED  BY <2>5 DEF BoundOf, after, LimitOf
<1> QED  BY <1>2, <1>3, ReadsGoes

(* A charge raises the counter by one and one call less owes it.            *)
LEMMA BoundPaid ==
    ASSUME IInv, NEW c \in Callers, Increments(c), NEW k \in Projects \X Checked
    PROVE  BoundOf(k)'
<1>1. /\ Goes(c) /\ call[c].pc = "incr" /\ call'[c].pc = "alert"
      /\ call[c].of \in Projects \X Checked => call[c].amount = 1
      /\ count' = [count EXCEPT ![call[c].of] = @ + call[c].amount]
    BY IncrementsGoes
<1>2. TypeOK /\ BoundOf(k) /\ k \in Keys
    BY DEF IInv, OwedOK, Keys, Kinds
<1>3. Owes(c)
    BY <1>1 DEF Owes
<1>4. CASE call[c].of # k
    <2>1. count'[k] = count[k]
        BY <1>1, <1>2, <1>4 DEF TypeOK
    <2> QED  BY <1>1, <1>2, <1>3, <2>1, OwedKept, BoundKept
<1>5. CASE call[c].of = k
    <2> DEFINE before == Owed(k)
               after == Owed(k)'
    <2>1. after \subseteq before /\ c \in before /\ c \notin after
        BY <1>1, <1>3, <1>5, OwedKept DEF Owed
    <2>2. before \in SUBSET Callers /\ before \ {c} \in SUBSET before /\ after \in SUBSET (before \ {c})
        BY <2>1 DEF Owed
    <2>3. Cardinality(before \ {c}) = Cardinality(before) - 1
        <3>1. IsFiniteSet(before)
            <4> HIDE DEF before
            <4> QED  BY <2>2, FS_Subset, QuoteAssumption
        <3> HIDE DEF before
        <3> QED  BY <2>1, <3>1, FS_RemoveElement
    <2>4. /\ Cardinality(Callers) \in Nat /\ Cardinality(before) \in Nat /\ Cardinality(after) \in Nat
          /\ Cardinality(after) <= Cardinality(before) - 1
        <3> HIDE DEF before, after
        <3>1. before \ {c} \in SUBSET Callers
            BY <2>2
        <3> QED  BY <2>2, <2>3, <3>1, Sizes
    <2>5. count'[k] = count[k] + 1 /\ count[k] \in Nat /\ LimitOf(k) \in Int
        BY <1>1, <1>2, <1>5, QuoteAssumption DEF TypeOK, LimitOf, Keys, Kinds, Unlimited
    <2>6. LimitOf(k) # Unlimited => count[k] + Cardinality(before) < LimitOf(k) + Cardinality(Callers)
        BY <1>2, <2>1 DEF BoundOf
    <2> HIDE DEF before, after
    <2>7. LimitOf(k) # Unlimited => count'[k] + Cardinality(after) < LimitOf(k) + Cardinality(Callers)
        BY <2>4, <2>5, <2>6
    <2> QED  BY <2>7 DEF BoundOf, after, LimitOf
<1> QED  BY <1>4, <1>5

(* No step lets what is charged and owed reach the limit and the callers.    *)
LEMMA OwedStep ==
    ASSUME IInv, NEW c \in Callers, Acts(c)
    PROVE  OwedOK'
<1> SUFFICES ASSUME NEW k \in Projects \X Checked PROVE BoundOf(k)'
    BY DEF OwedOK
<1>1. CASE ReadsQuote(c)
    BY <1>1, BoundRead
<1>2. CASE Increments(c)
    BY <1>2, BoundPaid
<1>3. CASE Asks(c) \/ Reports(c) \/ Minor(c)
    <2>1. Goes(c) /\ Owes(c)
        BY <1>3, BeginsGoes, MinorGoes
    <2>2. count' = count
        BY <1>3 DEF Asks, Reports, Minor, MakesCheckKey, MakesKey, MakesAlertKey, ReadsLevel, ReadsNotified,
            ReadsFigures, Mails, Marks, Fails, Redis
    <2> QED  BY <2>1, <2>2, OwedKept, BoundKept DEF IInv, OwedOK
<1> QED  BY <1>1, <1>2, <1>3 DEF Acts

-----------------------------------------------------------------------------
(* The mails                                                               *)

(* A call that goes on keeps its subject and its checkpoint.                *)
LEMMA Gone ==
    ASSUME CallsOK, NEW c \in Callers
    PROVE  /\ \A pc, key : Goto(c, pc, key) =>
                call'[c].pc = pc /\ call'[c].of = call[c].of /\ call'[c].checkpoint = call[c].checkpoint
           /\ Ends(c) => call'[c] = Idle
<1>1. c \in DOMAIN call
    BY DEF CallsOK
<1>2. ASSUME NEW pc, NEW key, Goto(c, pc, key)
      PROVE  call'[c].pc = pc /\ call'[c].of = call[c].of /\ call'[c].checkpoint = call[c].checkpoint
    <2>1. call[c] \in CallType
        BY DEF CallsOK
    <2>2. call'[c] = [call[c] EXCEPT !.pc = pc, !.key = key]
        BY <1>1, <1>2 DEF Goto, CallsOK
    <2> QED  BY <2>1, <2>2 DEF CallType
<1>3. Ends(c) => call'[c] = Idle
    BY <1>1 DEF Ends, CallsOK
<1> QED  BY <1>2, <1>3

(* The way of a call from its charge to its note, step by step.             *)
LEMMA AlertSteps ==
    ASSUME IInv, NEW c \in Callers
    PROVE  /\ Increments(c) => call[c].pc = "incr" /\ call'[c].pc = "alert"
                               /\ call'[c].of = call[c].of
           /\ MakesAlertKey(c) => call[c].pc = "alert" /\ call'[c].pc = "level"
                                  /\ call'[c].of = call[c].of
           /\ ReadsLevel(c) =>
                /\ call[c].pc = "level"
                /\ LET p == Checkpoint(call[c].of, count[call[c].of]) IN
                   IF p = 0 THEN call'[c] = Idle
                   ELSE call'[c].pc = "notified" /\ call'[c].checkpoint = p
                        /\ call'[c].of = call[c].of
           /\ ReadsNotified(c) =>
                /\ call[c].pc = "notified"
                /\ \/ call'[c] = Idle /\ <<call[c].of, call[c].checkpoint>> \in notified
                   \/ call'[c].pc = "figures" /\ call'[c].of = call[c].of
                      /\ call'[c].checkpoint = call[c].checkpoint
           /\ ReadsFigures(c) => call[c].pc = "figures" /\ call'[c].pc = "mail"
                                 /\ call'[c].of = call[c].of
                                 /\ call'[c].checkpoint = call[c].checkpoint
           /\ Mails(c) => call[c].pc = "mail" /\ call'[c].pc = "mark"
                          /\ call'[c].of = call[c].of /\ call'[c].checkpoint = call[c].checkpoint
                          /\ mails' = mails \cup {<<call[c].of, call[c].checkpoint>>}
           /\ Marks(c) => call[c].pc = "mark" /\ call'[c] = Idle
                          /\ notified' = notified \cup {<<call[c].of, call[c].checkpoint>>}
<1> USE DEF Running
<1>0. CallsOK /\ (call[c].pc # "idle" => call[c].of \in Keys)
      /\ (call[c].pc \in Keyed => call[c].key = call[c].of)
    BY DEF IInv, TypeOK, CallsOK, CallType, Places, Checkpoints, KeysOK
<1>1. Increments(c) => call[c].pc = "incr" /\ call'[c].pc = "alert" /\ call'[c].of = call[c].of
    BY <1>0, Gone DEF Increments
<1>2. MakesAlertKey(c) => call[c].pc = "alert" /\ call'[c].pc = "level" /\ call'[c].of = call[c].of
    BY <1>0, Gone DEF MakesAlertKey
<1>3. ASSUME ReadsLevel(c)
      PROVE  /\ call[c].pc = "level"
             /\ LET p == Checkpoint(call[c].of, count[call[c].of]) IN
                IF p = 0 THEN call'[c] = Idle
                ELSE call'[c].pc = "notified" /\ call'[c].checkpoint = p /\ call'[c].of = call[c].of
    <2> DEFINE p == Checkpoint(call[c].of, count[call[c].of])
    <2>1. call[c].pc = "level" /\ Checkpoint(call[c].of, Seen(c)) = p
        BY <1>0, <1>3 DEF ReadsLevel, Seen, Keyed
    <2>2. CASE p = 0
        BY <1>0, <1>3, <2>1, <2>2, Gone DEF ReadsLevel
    <2>3. CASE p # 0
        <3>1. call' = [call EXCEPT ![c].pc = "notified", ![c].checkpoint = p]
            BY <1>3, <2>1, <2>3 DEF ReadsLevel
        <3> HIDE DEF p
        <3>2. call'[c].pc = "notified" /\ call'[c].checkpoint = p /\ call'[c].of = call[c].of
            BY <1>0, <3>1 DEF CallsOK, CallType
        <3> QED  BY <2>1, <2>3, <3>2 DEF p
    <2> QED  BY <2>1, <2>2, <2>3
<1>4. ASSUME ReadsNotified(c)
      PROVE  /\ call[c].pc = "notified"
             /\ \/ call'[c] = Idle /\ <<call[c].of, call[c].checkpoint>> \in notified
                \/ call'[c].pc = "figures" /\ call'[c].of = call[c].of
                   /\ call'[c].checkpoint = call[c].checkpoint
    <2>1. call[c].pc = "notified" /\ call[c].key = call[c].of /\ call[c].of \in Keys
        BY <1>0, <1>4 DEF ReadsNotified, Keyed
    <2> QED  BY <1>0, <1>4, <2>1, Gone DEF ReadsNotified, Note
<1>5. ReadsFigures(c) => call[c].pc = "figures" /\ call'[c].pc = "mail"
                         /\ call'[c].of = call[c].of /\ call'[c].checkpoint = call[c].checkpoint
    BY <1>0, Gone DEF ReadsFigures
<1>6. Mails(c) => call[c].pc = "mail" /\ call'[c].pc = "mark"
                  /\ call'[c].of = call[c].of /\ call'[c].checkpoint = call[c].checkpoint
                  /\ mails' = mails \cup {<<call[c].of, call[c].checkpoint>>}
    BY <1>0, Gone DEF Mails
<1>7. Marks(c) => call[c].pc = "mark" /\ call'[c] = Idle
                  /\ notified' = notified \cup {<<call[c].of, call[c].checkpoint>>}
    BY <1>0, Gone DEF Marks, Note, Keyed
<1> QED  BY <1>1, <1>2, <1>3, <1>4, <1>5, <1>6, <1>7

\* The way of a call up to its charge, and the end of one that failed.
Early(c) ==
    Asks(c) \/ Reports(c) \/ MakesCheckKey(c) \/ ReadsQuote(c) \/ MakesKey(c)

(* A call that has not charged yet tells nobody.                            *)
LEMMA EarlySteps ==
    ASSUME IInv, NEW c \in Callers, Early(c)
    PROVE  /\ call[c].pc \in {"idle", "check", "quote", "charge"}
           /\ call'[c].pc \in {"idle", "check", "quote", "charge", "incr"}
<1> USE DEF Running
<1>0. CallsOK /\ (call[c].pc # "idle" => call[c].of \in Keys)
    BY DEF IInv, TypeOK, CallsOK, CallType, Places, Checkpoints, KeysOK
<1>1. CASE Asks(c) \/ Reports(c)
    BY <1>0, <1>1 DEF Asks, Reports, Begins, CallsOK, CallType
<1>2. CASE MakesCheckKey(c)
    BY <1>0, <1>2, Gone DEF MakesCheckKey
<1>3. CASE ReadsQuote(c)
    BY <1>0, <1>3, Gone DEF ReadsQuote, Idle
<1>4. CASE MakesKey(c)
    BY <1>0, <1>4, Gone DEF MakesKey
<1> QED  BY <1>1, <1>2, <1>3, <1>4 DEF Early

Acted(c) ==
    \/ Early(c) \/ Increments(c) \/ MakesAlertKey(c) \/ ReadsLevel(c) \/ ReadsNotified(c)
    \/ ReadsFigures(c) \/ Mails(c) \/ Marks(c) \/ Fails(c)

(* Counters only rise, and mails and notes stay.                            *)
LEMMA Rises ==
    ASSUME IInv, NEW c \in Callers, Acts(c)
    PROVE  /\ Acted(c)
           /\ \A k \in Keys : count[k] \in Nat /\ count'[k] \in Nat /\ count[k] <= count'[k]
           /\ ~Increments(c) => count' = count
           /\ ~Mails(c) => mails' = mails
           /\ ~Marks(c) => notified' = notified
           /\ Fails(c) => faults' # 0 /\ call'[c] = Idle
           /\ ~Fails(c) => faults' = faults
<1>1. Acted(c)
    BY DEF Acts, Acted, Minor, Early
<1>2. ASSUME NEW k \in Keys PROVE count[k] \in Nat /\ count'[k] \in Nat /\ count[k] <= count'[k]
    <2>1. count \in [Keys -> Nat]
        BY DEF IInv, TypeOK
    <2>2. CASE Increments(c)
        BY <2>1, <2>2, IncrementsGoes
    <2>3. CASE ~Increments(c)
        BY <1>1, <2>1, <2>3 DEF Acted, Early, Asks, Reports, MakesCheckKey, ReadsQuote, MakesKey,
            MakesAlertKey, ReadsLevel, ReadsNotified, ReadsFigures, Mails, Marks, Fails, Redis
    <2> QED  BY <2>2, <2>3
<1>3. /\ ~Increments(c) => count' = count
      /\ ~Mails(c) => mails' = mails
      /\ ~Marks(c) => notified' = notified
      /\ ~Fails(c) => faults' = faults
    BY <1>1 DEF Acted, Early, Asks, Reports, Begins, MakesCheckKey, ReadsQuote, MakesKey, Increments,
        MakesAlertKey, ReadsLevel, ReadsNotified, ReadsFigures, Mails, Marks, Fails, Redis, Bounds
<1>4. Fails(c) => faults' # 0 /\ call'[c] = Idle
    <2>1. CallsOK /\ faults \in Nat
        BY DEF IInv, TypeOK, CallsOK, CallType, Places, Checkpoints
    <2> QED  BY <2>1, Moves DEF Fails
<1> QED  BY <1>1, <1>2, <1>3, <1>4

(* What a mail speaks of was reached when the counter was read, and counters  *)
(* only rise.                                                              *)
LEMMA ReachedStep ==
    ASSUME IInv, ReachedOK, NEW c \in Callers, Acts(c), Goes(c)
    PROVE  ReachedOK'
<1>0. TypeOK /\ KeysOK
    BY DEF IInv
<1>1. \A k \in Keys, p \in Checkpoints : Checkpoint(k, count[k]) >= p => Checkpoint(k, count'[k]) >= p
    <2> SUFFICES ASSUME NEW k \in Keys, NEW p \in Checkpoints, Checkpoint(k, count[k]) >= p
                 PROVE  Checkpoint(k, count'[k]) >= p
        OBVIOUS
    <2>1. count[k] \in Nat /\ count'[k] \in Nat /\ count[k] <= count'[k]
        BY Rises
    <2>2. Checkpoint(k, count[k]) <= Checkpoint(k, count'[k])
        BY <2>1, CheckpointRises
    <2>3. Checkpoint(k, count[k]) \in Int /\ Checkpoint(k, count'[k]) \in Int
        BY <2>1, CheckpointType DEF Checkpoints
    <2> QED  BY <2>2, <2>3 DEF Checkpoints
<1>2. ASSUME NEW d \in Callers, call'[d].pc \in Past
      PROVE  Checkpoint(call'[d].of, count'[call'[d].of]) >= call'[d].checkpoint
    <2>1. CASE call[d].pc \in Past /\ call'[d].of = call[d].of /\ call'[d].checkpoint = call[d].checkpoint
        <3>1. call[d].of \in Keys /\ call[d].checkpoint \in Checkpoints
            BY <1>0, <2>1 DEF TypeOK, KeysOK, Past, Checkpoints
        <3> QED  BY <1>1, <2>1, <3>1 DEF ReachedOK
    <2>2. CASE d = c /\ ReadsLevel(c)
        <3>1. call[c].of \in Keys /\ count[call[c].of] \in Nat /\ count' = count
            BY <1>0, <2>2, Rises, AlertSteps DEF KeysOK, ReadsLevel, Redis
        <3>2. Checkpoint(call[c].of, count[call[c].of]) \in Int
            BY <3>1, CheckpointType DEF Checkpoints
        <3>3. call'[c].of = call[c].of /\ call'[c].checkpoint = Checkpoint(call[c].of, count[call[c].of])
            <4> DEFINE p == Checkpoint(call[c].of, count[call[c].of])
            <4>1. IF p = 0 THEN call'[c] = Idle
                  ELSE call'[c].pc = "notified" /\ call'[c].checkpoint = p /\ call'[c].of = call[c].of
                BY <2>2, AlertSteps
            <4>2. call'[c] # Idle
                BY <1>2, <2>2 DEF Past, Idle
            <4> HIDE DEF p
            <4>3. call'[c].of = call[c].of /\ call'[c].checkpoint = p
                BY <4>1, <4>2
            <4> QED  BY <4>3 DEF p
        <3> QED  BY <2>2, <3>1, <3>2, <3>3
    <2>3. CASE d # c
        BY <1>2, <2>1, <2>3 DEF Goes
    <2>4. CASE d = c /\ ~ReadsLevel(c)
        <3>1. call[c].pc \in Past /\ call'[c].of = call[c].of /\ call'[c].checkpoint = call[c].checkpoint
            <4>0. Idle.pc \notin Past
                BY DEF Idle, Past
            <4>1. Acted(c) /\ ~ReadsLevel(c) /\ call'[c].pc \in Past
                BY <1>2, <2>4, Rises
            <4>2. Early(c) => call'[c].pc \notin Past
                BY EarlySteps DEF Past
            <4>3. Fails(c) \/ Marks(c) => call'[c].pc \notin Past
                BY <4>0, Rises, AlertSteps
            <4>4. Increments(c) \/ MakesAlertKey(c) => call'[c].pc \notin Past
                BY AlertSteps DEF Past
            <4>5. CASE ReadsNotified(c)
                <5>1. call[c].pc = "notified" /\ call'[c] # Idle
                    BY <4>0, <4>1, <4>5, AlertSteps
                <5>2. call'[c].of = call[c].of /\ call'[c].checkpoint = call[c].checkpoint
                    BY <4>5, <5>1, AlertSteps
                <5> QED  BY <5>1, <5>2 DEF Past
            <4>6. CASE ReadsFigures(c) \/ Mails(c)
                BY <4>6, AlertSteps DEF Past
            <4> QED  BY <4>1, <4>2, <4>3, <4>4, <4>5, <4>6 DEF Acted
        <3> QED  BY <2>1, <2>4, <3>1
    <2> QED  BY <2>2, <2>3, <2>4
<1>3. ASSUME NEW k \in Keys, NEW p \in Checkpoints, <<k, p>> \in mails'
      PROVE  Checkpoint(k, count'[k]) >= p
    <2>1. CASE <<k, p>> \in mails
        BY <1>1, <2>1 DEF ReachedOK
    <2>2. CASE <<k, p>> \notin mails
        <3>1. Mails(c)
            BY <1>3, <2>2, Rises
        <3>2. call[c].pc = "mail" /\ k = call[c].of /\ p = call[c].checkpoint
            <4>1. call[c].pc = "mail" /\ mails' = mails \cup {<<call[c].of, call[c].checkpoint>>}
                BY <3>1, AlertSteps
            <4> QED  BY <1>3, <2>2, <4>1
        <3> QED  BY <1>1, <3>2 DEF ReachedOK, Past
    <2> QED  BY <2>1, <2>2
<1> QED  BY <1>2, <1>3 DEF ReachedOK

(* The note is written when the mail is.                                    *)
LEMMA NotesStep ==
    ASSUME IInv, NotesOK, NEW c \in Callers, Acts(c), Goes(c)
    PROVE  NotesOK'
<1>1. notified' \subseteq mails'
    <2>1. CASE Marks(c)
        <3>1. mails' = mails
            BY <2>1, Rises DEF Marks
        <3> QED  BY <2>1, <3>1, AlertSteps DEF NotesOK
    <2>2. CASE ~Marks(c)
        BY <2>2, Rises, AlertSteps DEF NotesOK
    <2> QED  BY <2>1, <2>2
<1>2. ASSUME NEW d \in Callers, call'[d].pc = "mark"
      PROVE  <<call'[d].of, call'[d].checkpoint>> \in mails'
    <2>1. mails \subseteq mails'
        BY Rises, AlertSteps
    <2>2. CASE d # c
        BY <1>2, <2>1, <2>2 DEF NotesOK, Goes
    <2>3. CASE d = c
        <3>1. Mails(c)
            <4>0. Idle.pc = "idle"
                BY DEF Idle
            <4>1. ReadsLevel(c) => call'[c] = Idle \/ call'[c].pc = "notified"
                BY AlertSteps
            <4>2. Acted(c) /\ call'[c].pc = "mark"
                BY <1>2, <2>3, Rises
            <4>3. Early(c) => call'[c].pc # "mark"
                BY EarlySteps
            <4>4. Fails(c) \/ Marks(c) \/ ReadsNotified(c) => call'[c].pc \in {"idle", "figures"}
                BY <4>0, Rises, AlertSteps
            <4>5. Increments(c) \/ MakesAlertKey(c) \/ ReadsFigures(c) => call'[c].pc # "mark"
                BY AlertSteps
            <4> QED  BY <4>0, <4>1, <4>2, <4>3, <4>4, <4>5 DEF Acted
        <3> QED  BY <2>3, <3>1, AlertSteps
    <2> QED  BY <2>2, <2>3
<1> QED  BY <1>1, <1>2 DEF NotesOK

(* Whoever charges the counter up to a checkpoint tells of it, or finds that  *)
(* another call has done so.                                               *)
LEMMA ToldStep ==
    ASSUME IInv, NotesOK, ToldOK, NEW c \in Callers, Acts(c), Goes(c)
    PROVE  ToldOK'
<1> SUFFICES ASSUME faults' = 0, NEW k \in Keys PROVE Told(k, Checkpoint(k, count[k]))'
    BY DEF ToldOK
<1> DEFINE p == Checkpoint(k, count[k])
<1>1. ~Fails(c) /\ faults = 0
    BY Rises
<1>2. CASE Increments(c) /\ call[c].of = k
    BY <1>2, AlertSteps DEF Told, Tells
<1>3. CASE ~(Increments(c) /\ call[c].of = k)
    <2>1. count'[k] = count[k]
        <3>1. CASE Increments(c)
            <4>1. count \in [Keys -> Nat]
                BY DEF IInv, TypeOK
            <4> QED  BY <1>3, <3>1, <4>1, IncrementsGoes
        <3>2. CASE ~Increments(c)
            BY <3>2, Rises
        <3> QED  BY <3>1, <3>2
    <2>2. Told(k, p) /\ mails \subseteq mails'
        BY <1>1, Rises, AlertSteps DEF ToldOK
    <2>3. ASSUME p # 0, NEW d \in Callers, Tells(d, k, p)
          PROVE  <<k, p>> \in mails' \/ \E e \in Callers : Tells(e, k, p)'
        <3>1. CASE d # c
            <4>1. Tells(d, k, p)'
                BY <2>1, <2>3, <3>1 DEF Goes, Tells, Checkpoint, LimitOf
            <4> QED  BY <4>1
        <3>2. CASE d = c
            <4>1. call[c].of = k
                BY <2>3, <3>2 DEF Tells
            <4>2. CASE MakesAlertKey(c)
                BY <4>1, <4>2, AlertSteps DEF Tells
            <4>3. CASE ReadsLevel(c)
                <5>1. call'[c].pc = "notified" /\ call'[c].checkpoint = p /\ call'[c].of = k
                    BY <2>3, <4>1, <4>3, AlertSteps
                <5>2. p' = p
                    BY <2>1 DEF Checkpoint, LimitOf
                <5> QED  BY <5>1, <5>2 DEF Tells
            <4>4. CASE ReadsNotified(c)
                <5>1. call[c].checkpoint = p
                    BY <2>3, <3>2, <4>4, AlertSteps DEF Tells
                <5>2. p' = p
                    BY <2>1 DEF Checkpoint, LimitOf
                <5> QED  BY <2>2, <4>1, <4>4, <5>1, <5>2, AlertSteps DEF Tells, NotesOK
            <4>5. CASE ReadsFigures(c)
                <5>1. call[c].checkpoint = p
                    BY <2>3, <3>2, <4>5, AlertSteps DEF Tells
                <5>2. p' = p
                    BY <2>1 DEF Checkpoint, LimitOf
                <5> QED  BY <4>1, <4>5, <5>1, <5>2, AlertSteps DEF Tells
            <4>6. CASE Mails(c)
                BY <2>3, <3>2, <4>1, <4>6, AlertSteps DEF Tells
            <4>7. CASE Early(c) \/ Increments(c) \/ Marks(c)
                BY <1>3, <2>3, <3>2, <4>7, AlertSteps, EarlySteps DEF Tells
            <4> QED  BY <1>1, <4>2, <4>3, <4>4, <4>5, <4>6, <4>7, Rises DEF Acted
        <3> QED  BY <3>1, <3>2
    <2>4. p' = p
        BY <2>1 DEF Checkpoint, LimitOf
    <2> QED  BY <2>2, <2>3, <2>4 DEF Told
<1> QED  BY <1>2, <1>3

-----------------------------------------------------------------------------
(* Theorems                                                                *)

(* A manager that was just started satisfies the invariant.                 *)
LEMMA IInvInit == Init => IInv
<1> SUFFICES ASSUME Init PROVE IInv
    OBVIOUS
<1>1. TypeOK /\ ChargedToItsProject
    BY QuoteAssumption DEF Init, TypeOK, Idle, ChargedToItsProject, Keys
<1>2. KeysOK /\ OnesOK
    BY DEF Init, KeysOK, OnesOK, Idle, Keyed, NoKey
<1>3. ASSUME NEW k \in Projects \X Checked PROVE BoundOf(k)
    <2>1. Owed(k) = {} /\ count[k] = 0
        BY DEF Init, Owed, Idle, Keys, Kinds
    <2> QED  BY <2>1 DEF BoundOf
<1> QED  BY <1>1, <1>2, <1>3 DEF IInv, OwedOK

(* The inductive invariant holds in every state that calls and failures can  *)
(* reach.                                                                  *)
THEOREM Invariant == Spec => []IInv
<1>1. ASSUME IInv, Next PROVE IInv'
    <2>1. PICK c \in Callers : Acts(c)
        BY <1>1, Acting
    <2>2. Goes(c)
        BY <1>1, <2>1, BeginsGoes, MinorGoes, ReadsGoes, IncrementsGoes DEF Acts
    <2> QED  BY <1>1, <2>1, <2>2, TypeStep, GoesKeeps, OwedStep DEF IInv
<1>2. ASSUME IInv, UNCHANGED vars PROVE IInv'
    BY <1>2 DEF vars, IInv, TypeOK, KeysOK, OnesOK, ChargedToItsProject, OwedOK, BoundOf, Owed, LimitOf
<1>3. IInv /\ [Next]_vars => IInv'
    BY <1>1, <1>2
<1> QED  BY <1>3, IInvInit, PTL DEF Spec

(* Types: a counter is a number and a checkpoint one of the four, whatever   *)
(* calls are handled at once.                                              *)
THEOREM TypeCorrect == Spec => []TypeOK
<1>1. IInv => TypeOK
    BY DEF IInv
<1> QED  BY <1>1, Invariant, PTL

(* One manager and its one project serve every call, and each counter holds  *)
(* what its own project used: a key is made in the step that sets the        *)
(* project.                                                                *)
THEOREM ChargedRight == Spec => []ChargedToItsProject
<1>1. IInv => ChargedToItsProject
    BY DEF IInv
<1> QED  BY <1>1, Invariant, PTL

(* Check and charge are two calls of Redis, and still a limit is exceeded by  *)
(* less than the calls that are handled at once.                           *)
THEOREM BoundedOverrun == Spec => []OverrunBounded
<1>1. ASSUME IInv PROVE OverrunBounded
    <2> SUFFICES ASSUME NEW k \in Projects \X Checked, LimitOf(k) # Unlimited, count[k] > 0
                 PROVE  count[k] < LimitOf(k) + Cardinality(Callers)
        BY DEF OverrunBounded
    <2> DEFINE owed == Owed(k)
    <2>1. count[k] + Cardinality(owed) < LimitOf(k) + Cardinality(Callers)
        BY <1>1 DEF IInv, OwedOK, BoundOf
    <2>2. Cardinality(owed) \in Nat /\ Cardinality(Callers) \in Nat
        <3>1. owed \in SUBSET Callers
            BY DEF Owed
        <3> HIDE DEF owed
        <3> QED  BY <3>1, Sizes
    <2>3. count[k] \in Nat /\ LimitOf(k) \in Int
        BY <1>1, QuoteAssumption DEF IInv, TypeOK, Keys, Kinds, LimitOf, Unlimited
    <2> HIDE DEF owed
    <2> QED  BY <2>1, <2>2, <2>3
<1> QED  BY <1>1, Invariant, PTL

(* The owner is told of no checkpoint that was not reached, and when the     *)
(* calls are over and none failed, of the highest one, whichever of the      *)
(* calls that were handled at once crossed it.                             *)
THEOREM OwnerTold == Spec => []OwnerIsTold
<1>1. ASSUME Init PROVE MailInv
    <2>1. ReachedOK /\ NotesOK
        BY <1>1 DEF Init, ReachedOK, NotesOK, Idle, Past
    <2>2. \A k \in Keys : count[k] = 0 /\ Checkpoint(k, 0) = 0
        BY <1>1, CheckpointRises DEF Init
    <2> QED  BY <2>1, <2>2 DEF MailInv, ToldOK, Told
<1>2. IInv /\ MailInv /\ [Next]_vars => MailInv'
    <2>1. ASSUME IInv, MailInv, Next PROVE MailInv'
        <3>1. PICK c \in Callers : Acts(c)
            BY <2>1, Acting
        <3>2. Goes(c)
            BY <2>1, <3>1, BeginsGoes, MinorGoes, ReadsGoes, IncrementsGoes DEF Acts
        <3> QED  BY <2>1, <3>1, <3>2, ReachedStep, NotesStep, ToldStep DEF MailInv
    <2>2. ASSUME MailInv, UNCHANGED vars PROVE MailInv'
        <3>1. \A k, n : Checkpoint(k, n)' = Checkpoint(k, n')
            BY DEF Checkpoint, LimitOf
        <3> QED  BY <2>2, <3>1 DEF vars, MailInv, ReachedOK, NotesOK, ToldOK, Told, Tells
    <2> QED  BY <2>1, <2>2
<1>3. ASSUME IInv, MailInv PROVE OwnerIsTold
    <2>1. count = charged
        BY <1>3 DEF IInv, ChargedToItsProject
    <2>2. ASSUME NEW k \in Keys, NEW p \in {50, 75, 95, 100}, <<k, p>> \in mails
          PROVE  Checkpoint(k, charged[k]) >= p
        <3>1. ReachedOK /\ p \in Checkpoints
            BY <1>3 DEF MailInv, Checkpoints
        <3>2. Checkpoint(k, count[k]) >= p
            BY <2>2, <3>1 DEF ReachedOK
        <3> QED  BY <2>1, <3>2
    <2>3. ASSUME faults = 0, \A c \in Callers : Running(c, "idle"), NEW k \in Keys,
                 Checkpoint(k, charged[k]) # 0
          PROVE  <<k, Checkpoint(k, charged[k])>> \in mails
        BY <1>3, <2>1, <2>3 DEF MailInv, ToldOK, Told, Tells, Running
    <2> QED  BY <2>2, <2>3 DEF OwnerIsTold
<1> QED  BY <1>1, <1>2, <1>3, Invariant, PTL DEF Spec
=============================================================================
