---------------------------- MODULE CasezapInbound ----------------------------
(***************************************************************************)
(* The inbound webhook of pubmodules/casezap/connector.js for the messages *)
(* of one contact: marks in Redis or in the process, the lock of a process *)
(* around the search and the creation of the conversation, the chat group  *)
(* and the message.  The provider delivers a message again until it is     *)
(* answered with 200.                                                      *)
(***************************************************************************)
EXTENDS Integers, FiniteSets, Sequences, SequencesExt

CONSTANTS
    Processes,        \* replicas of the server
    Messages,         \* ids the provider gives to the contact's messages
    Handlers,         \* bound: webhook calls in flight
    MaxCloses,        \* bound: conversations that an agent closes
    MaxDeliveries,    \* bound: webhook calls
    MaxFaults,        \* bound: handlers that fail, processes that restart
    MaxRedisFaults    \* bound: calls of Redis that fail

ASSUME CasezapAssumption ==
    /\ {MaxCloses, MaxDeliveries, MaxFaults, MaxRedisFaults} \subseteq Nat
    /\ "none" \notin Processes \cup Messages    \* it stands for no process, no message

VARIABLES
    requests,    \* conversations: open or closed, the process that created each
    groups,      \* conversations whose chat group exists
    marks,       \* messages marked in Redis
    localMarks,  \* messages marked in the cache of a process
    lock,        \* handlers of a process that queue for the lock, the holder first
    call,        \* webhook calls in flight
    stored,      \* conversations each message is stored in, one entry a time
    acked,       \* messages answered with 200
    delivered, faulted,  \* messages delivered, and with a handler that failed
    deliveries, faults, redisFaults, closes

history == <<delivered, faulted>>
bounds == <<deliveries, faults, redisFaults, closes>>
vars == <<requests, groups, marks, localMarks, lock, call, stored, acked, history, bounds>>

NoMessage == "none"
NoRequest == 0
Idle == [pc |-> "idle", proc |-> "none", msg |-> NoMessage, req |-> NoRequest]

Init ==
    /\ requests = <<>> /\ groups = {}
    /\ marks = {} /\ localMarks = [p \in Processes |-> {}]
    /\ lock = [p \in Processes |-> <<>>]
    /\ call = [h \in Handlers |-> Idle]
    /\ stored = [m \in Messages |-> <<>>]
    /\ acked = {} /\ delivered = {} /\ faulted = {}
    /\ deliveries = 0 /\ faults = 0 /\ redisFaults = 0 /\ closes = 0

-----------------------------------------------------------------------------
Running(h, pc) == call[h].pc = pc
InFlight(m) == \E h \in Handlers : call[h].msg = m
Goto(h, pc) == call' = [call EXCEPT ![h].pc = pc]
Ends(h) == call' = [call EXCEPT ![h] = Idle]
\* The call is answered with 200, or with 500.
Answers(h) == Ends(h) /\ acked' = acked \cup {call[h].msg}
Fails(h) ==
    /\ faults < MaxFaults /\ faults' = faults + 1
    /\ faulted' = faulted \cup {call[h].msg} /\ Ends(h)

Open == {r \in DOMAIN requests : requests[r].open}
\* Request.findOne, the newest first
Found == IF Open = {} THEN NoRequest ELSE CHOOSE r \in Open : \A s \in Open : s <= r
\* Mutant of IsFound: what findOne answers is not looked at.
IsFoundAlways(r) == TRUE
IsFound(r) == r # NoRequest

\* Mutants of IsStored: the mark is trusted, to keep repeats out; a mark is
\* taken for the stored message.
IsStoredNever(m) == FALSE
IsStoredWhenMarked(m) == m \in marks
\* hasStoredCaseZapMessage
IsStored(m) == stored[m] # <<>>

\* Mutant of HasLock: the operation does not wait for the previous one.
HasLockAlways(h) == TRUE
\* withCaseZapRequestLock: the operation runs when the previous one is over.
HasLock(h) == Head(lock[call[h].proc]) = h
Unlocked(p) == [lock EXCEPT ![p] = Tail(@)]
\* Mutant of UnlockedByFailure: the lock is freed when the operation succeeds.
UnlockedByFailureNot(p) == lock
UnlockedByFailure(p) == Unlocked(p)

-----------------------------------------------------------------------------
(* The webhook                                                             *)

Deliver(h, p, m) ==
    /\ Running(h, "idle") /\ m \notin acked
    /\ \A g \in Handlers : g < h => ~Running(g, "idle")
    /\ deliveries < MaxDeliveries /\ deliveries' = deliveries + 1
    /\ delivered' = delivered \cup {m}
    /\ call' = [call EXCEPT ![h] = [pc |-> "mark", proc |-> p, msg |-> m, req |-> NoRequest]]
    /\ UNCHANGED <<requests, groups, marks, localMarks, lock, stored, acked, faulted,
                   faults, redisFaults, closes>>

\* checkAndMarkProcessed
MarkRedis(h) ==
    LET m == call[h].msg IN
    /\ Running(h, "mark")
    /\ IF m \in marks THEN Answers(h) /\ UNCHANGED marks
       ELSE marks' = marks \cup {m} /\ Goto(h, "check") /\ UNCHANGED acked
    /\ UNCHANGED <<requests, groups, localMarks, lock, stored, history, bounds>>
\* Redis fails, before or after it has set the mark: the process has its own.
MarkLocal(h) ==
    LET m == call[h].msg
        p == call[h].proc IN
    /\ Running(h, "mark")
    /\ redisFaults < MaxRedisFaults /\ redisFaults' = redisFaults + 1
    /\ marks' \in {marks, marks \cup {m}}
    /\ localMarks' = [localMarks EXCEPT ![p] = @ \cup {m}]
    /\ IF m \in localMarks[p] THEN Answers(h) ELSE Goto(h, "check") /\ UNCHANGED acked
    /\ UNCHANGED <<requests, groups, lock, stored, history, deliveries, faults,
                   closes>>

\* hasStoredCaseZapMessage, then media and lead, then the queue for the lock
Check(h) ==
    /\ Running(h, "check")
    /\ IF IsStored(call[h].msg) THEN Answers(h) /\ UNCHANGED lock
       ELSE /\ lock' = [lock EXCEPT ![call[h].proc] = Append(@, h)]
            /\ Goto(h, "lock") /\ UNCHANGED acked
    /\ UNCHANGED <<requests, groups, marks, localMarks, stored, history, bounds>>

FindRequest(h) ==
    /\ Running(h, "lock") /\ HasLock(h)
    /\ IF IsFound(Found)
       THEN /\ call' = [call EXCEPT ![h].pc = "send", ![h].req = Found]
            /\ lock' = Unlocked(call[h].proc)
       ELSE Goto(h, "create") /\ UNCHANGED lock
    /\ UNCHANGED <<requests, groups, marks, localMarks, stored, acked, history, bounds>>

\* requestService.create
CreateRequest(h) ==
    /\ Running(h, "create")
    /\ requests' = Append(requests, [open |-> TRUE, by |-> call[h].proc])
    /\ call' = [call EXCEPT ![h].pc = "ensure", ![h].req = Len(requests) + 1]
    /\ lock' = Unlocked(call[h].proc)
    /\ UNCHANGED <<groups, marks, localMarks, stored, acked, history, bounds>>

\* ensureCaseZapChat21Group
EnsureGroup(h) ==
    /\ Running(h, "ensure")
    /\ groups' = groups \cup {call[h].req}
    /\ Goto(h, "send")
    /\ UNCHANGED <<requests, marks, localMarks, lock, stored, acked, history, bounds>>

\* messageService.send
SendMessage(h) ==
    LET m == call[h].msg
        r == call[h].req IN
    /\ Running(h, "send")
    /\ stored' = [stored EXCEPT ![m] = Append(@, r)]
    /\ Goto(h, "sync")
    /\ UNCHANGED <<requests, groups, marks, localMarks, lock, acked, history, bounds>>

\* syncCaseZapChat21LastMessage, syncCaseZapRequestLastMessage: whether they
\* update the group and the conversation, skip it or fail, nothing is thrown
\* and the call is answered.  What a conversation shows last is left out.
SyncLastMessage(h) ==
    /\ Running(h, "sync")
    /\ Answers(h)
    /\ UNCHANGED <<requests, groups, marks, localMarks, lock, stored, history, bounds>>

\* A step throws: the operation under the lock, or another one.
HandlerFails(h) ==
    /\ Fails(h)
    /\ \/ /\ Running(h, "create") \/ (Running(h, "lock") /\ HasLock(h))
          /\ lock' = UnlockedByFailure(call[h].proc)
       \/ /\ \E pc \in {"check", "ensure", "send"} : Running(h, pc)
          /\ UNCHANGED lock
    /\ UNCHANGED <<requests, groups, marks, localMarks, stored, acked, delivered,
                   deliveries, redisFaults, closes>>

-----------------------------------------------------------------------------
(* Around it                                                               *)

\* The process restarts: its calls, its locks and its marks are gone.
Restart(p) ==
    LET mine == {h \in Handlers : call[h].proc = p} IN
    /\ mine # {} /\ faults < MaxFaults /\ faults' = faults + 1
    /\ faulted' = faulted \cup {call[h].msg : h \in mine}
    /\ call' = [h \in Handlers |-> IF h \in mine THEN Idle ELSE call[h]]
    /\ lock' = [lock EXCEPT ![p] = <<>>]
    /\ localMarks' = [localMarks EXCEPT ![p] = {}]
    /\ UNCHANGED <<requests, groups, marks, stored, acked, delivered,
                   deliveries, redisFaults, closes>>

\* DEDUP_TTL: an hour, longer than a handler takes.
MarkExpires(m) ==
    /\ m \in marks /\ ~InFlight(m)
    /\ marks' = marks \ {m}
    /\ UNCHANGED <<requests, groups, localMarks, lock, call, stored, acked, history, bounds>>

\* The listener of request.create makes the group too, some time later.
ChatCreatesGroup(r) ==
    /\ r \in DOMAIN requests \ groups
    /\ groups' = groups \cup {r}
    /\ UNCHANGED <<requests, marks, localMarks, lock, call, stored, acked, history, bounds>>

\* An agent closes the conversation.
CloseRequest(r) ==
    /\ r \in Open /\ closes < MaxCloses /\ closes' = closes + 1
    /\ requests' = [requests EXCEPT ![r].open = FALSE]
    /\ UNCHANGED <<groups, marks, localMarks, lock, call, stored, acked, history,
                   deliveries, faults, redisFaults>>

Steps(h) ==
    \/ MarkRedis(h) \/ MarkLocal(h) \/ Check(h) \/ FindRequest(h) \/ CreateRequest(h)
    \/ EnsureGroup(h) \/ SendMessage(h) \/ SyncLastMessage(h)

Next ==
    \/ \E h \in Handlers : Steps(h) \/ HandlerFails(h)
    \/ \E h \in Handlers, p \in Processes, m \in Messages : Deliver(h, p, m)
    \/ \E p \in Processes : Restart(p)
    \/ \E m \in Messages : MarkExpires(m)
    \/ \E r \in DOMAIN requests : ChatCreatesGroup(r) \/ CloseRequest(r)

Spec == Init /\ [][Next]_vars
FairSpec == Spec /\ \A h \in Handlers : WF_vars(Steps(h))

-----------------------------------------------------------------------------
(* Properties                                                              *)

Requests == 1..MaxDeliveries
Places == {"idle", "mark", "check", "lock", "create", "ensure", "send", "sync"}

\* Types.
TypeOK ==
    /\ requests \in Seq([open : BOOLEAN, by : Processes])
    /\ groups \subseteq DOMAIN requests
    /\ marks \subseteq Messages /\ localMarks \in [Processes -> SUBSET Messages]
    /\ lock \in [Processes -> Seq(Handlers)]
    /\ call \in [Handlers -> [pc : Places, proc : Processes \cup {"none"},
                              msg : Messages \cup {NoMessage}, req : Requests \cup {NoRequest}]]
    /\ stored \in [Messages -> Seq(Requests)]
    /\ acked \subseteq Messages /\ delivered \subseteq Messages
    /\ faulted \subseteq Messages
    /\ {deliveries, faults, redisFaults, closes} \subseteq Nat

\* While Redis answers, a message is stored once, over replicas, deliveries
\* that overlap, restarts and marks that expire.
StoredOnce == redisFaults = 0 => \A m \in Messages : Len(stored[m]) <= 1

\* The lock is of the process: replicas can each open a conversation of the
\* contact at once, but no process opens a second one.
OneOpenPerProcess ==
    \A r, q \in Open : requests[r].by = requests[q].by => r = q

\* An answer of 200 is the provider's last word on a message: it is stored,
\* or a call that is past the mark is still to store it, unless one of its own
\* handlers failed.  The failures of other messages, of Redis, of the search
\* and of the last message do not lose it.
AnsweredIsStored ==
    \A m \in acked \ faulted :
        stored[m] # <<>> \/ \E h \in Handlers : call[h].msg = m /\ ~Running(h, "mark")

\* Some message was delivered and is not stored, though no handler of it failed.
Waiting == \E m \in delivered \ faulted : stored[m] = <<>>
\* A message that was delivered is stored, unless one of its own handlers
\* failed: a creation that fails does not block or fail those that wait.
StoredUnlessItFails == Waiting ~> ~Waiting
=============================================================================
