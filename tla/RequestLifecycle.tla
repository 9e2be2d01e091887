--------------------------- MODULE RequestLifecycle ---------------------------
(***************************************************************************)
(* One conversation: services/requestService adds, removes, sets, routes,  *)
(* closes and reopens it for the routes of routes/request.js, the webhook  *)
(* of chat21, the scheduled tasks and the concierge; a route patches its   *)
(* working status; the routing queue counts the conversations of an agent; *)
(* routes read through a cache.                                            *)
(* Every database operation is one action.  A handler keeps the document   *)
(* it loaded and saves what it changed: mongoose writes the changed fields *)
(* only, and an array write fails if another array write came in between.  *)
(***************************************************************************)
EXTENDS Integers, FiniteSets, Sequences, SequencesExt

CONSTANTS
    Agents, Bots,   \* possible participants
    Counted,        \* bound: the agents whose conversations are counted
    DepartmentBot,  \* the bot of the department, or NoBot
    NoBot,
    Pooled,         \* the department does not assign agents
    Draft,          \* the conversation is a test of a bot: request.draft
    MaxGiven,       \* bound: participants the conversation is created with
    Callers,        \* bound: places of the calls being handled
    MaxOps          \* bound: calls from outside

Members == Agents \cup Bots

ASSUME RequestAssumption ==
    /\ Agents \cap Bots = {} /\ IsFiniteSet(Agents) /\ NoBot \notin Members
    /\ DepartmentBot \in Bots \cup {NoBot} /\ Counted \subseteq Agents
    /\ {Pooled, Draft} \subseteq BOOLEAN /\ Callers \subseteq Nat
    /\ {MaxGiven, MaxOps} \subseteq Nat

VARIABLES
    request,     \* the stored document; version is mongoose's __v
    pending,     \* its workingStatus is 'pending', which no save writes
    cache,       \* the entry ":simple" of the request cache, or Nothing
    call,        \* calls in flight: operation, argument, loaded document
    concierge,   \* per bot: removals that the concierge has to make
    recount,     \* per agent: counts to make, and results not yet written
    counted,     \* number_assigned_requests of each agent
    told,        \* per member: joins less leaves, according to the events emitted
    \* what happened: a save failed on the version; a member was added twice
    conflicted, twice,
    ops

ghosts == <<conflicted, twice>>
counts == <<recount, counted>>
vars == <<request, pending, cache, call, concierge, counts, told, ghosts, ops>>

Nothing == [status |-> "none", participants |-> <<>>, version |-> 0,
            agents |-> <<>>, bots |-> <<>>]
Idle == [op |-> "idle", arg |-> NoBot, doc |-> Nothing]
Statuses == {"temp", "unassigned", "abandoned", "assigned", "closed"}

-----------------------------------------------------------------------------
(* Documents                                                               *)

\* The loop that fills the list of agents, or of bots, from the participants.
Only(members, kind) ==
    LET f[i \in 0 .. Len(members)] ==
            IF i = 0 THEN <<>>
            ELSE IF members[i] \in kind THEN Append(f[i - 1], members[i]) ELSE f[i - 1]
    IN  f[Len(members)]

\* listed: the participants the lists of agents and bots are filled from.
Document(status, members, listed) ==
    [status |-> status, participants |-> members, version |-> 0,
     agents |-> Only(listed, Agents), bots |-> Only(listed, Bots)]

StatusFor(members) == IF members = <<>> THEN "unassigned" ELSE "assigned"

\* request.participants = members, with the lists of agents and bots.
WithMembers(doc, members) ==
    [Document(StatusFor(members), members, members) EXCEPT !.version = doc.version]

\* Mutant of Without: the member stays in its own list.
WithoutParticipant(doc, m) ==
    LET rest == RemoveFirst(doc.participants, m) IN
    [doc EXCEPT !.participants = rest,
                !.status = IF @ = "closed" THEN @ ELSE StatusFor(rest)]
\* splice(indexOf(m), 1): a list without m, index -1, loses its last element.
Spliced(list, m) ==
    IF m \in ToSet(list) THEN RemoveFirst(list, m)
    ELSE IF list = <<>> THEN <<>> ELSE Front(list)
\* splice in the list of participants and in the one of agents or bots; a
\* closed request stays closed.
Without(doc, m) ==
    LET rest == RemoveFirst(doc.participants, m) IN
    [doc EXCEPT !.participants = rest,
                !.agents = IF m \in Agents THEN Spliced(@, m) ELSE @,
                !.bots = IF m \in Bots THEN Spliced(@, m) ELSE @,
                !.status = IF @ = "closed" THEN @ ELSE StatusFor(rest)]

Arrays(doc) == <<doc.participants, doc.agents, doc.bots>>

\* Mutant of MaySave: a save never fails.
MaySaveAlways(old, new) == TRUE
\* A changed array is written only over the version that was loaded.
MaySave(old, new) == Arrays(old) # Arrays(new) => request.version = old.version

\* The document after a save: fields that do not differ are not written.
Saved(old, new) ==
    [f \in DOMAIN request |->
        IF f = "version"
        THEN request.version + (IF Arrays(old) # Arrays(new) THEN 1 ELSE 0)
        ELSE IF old[f] # new[f] THEN new[f] ELSE request[f]]

\* push is written as $push: at the end of whatever is stored.
Pushed(old, m) ==
    [request EXCEPT
        !.participants = Append(@, m), !.version = @ + 1,
        !.agents = IF m \in Agents THEN Append(@, m) ELSE @,
        !.bots = IF m \in Bots THEN Append(@, m) ELSE @,
        !.status = IF old.status = "assigned" THEN @ ELSE "assigned"]

-----------------------------------------------------------------------------
(* Events                                                                  *)

\* updateProjectUser is called for every agent in who.
Recounts(who) ==
    recount' = [a \in Counted |->
        [recount[a] EXCEPT !.wait = @ + IF a \in who THEN 1 ELSE 0]]
Tells(joined, left) ==
    told' = [m \in Members |-> told[m] + (IF m \in joined THEN 1 ELSE 0)
                                       - (IF m \in left THEN 1 ELSE 0)]
Announces(joined, left) == Tells(joined, left) /\ Recounts(joined \cup left)

\* Mutant of AddedBy: what the request had is announced as added.
AddedByAll(old, members) == ToSet(old) \ ToSet(members)
AddedBy(old, members) == ToSet(members) \ ToSet(old)
RemovedBy(old, members) == ToSet(old) \ ToSet(members)

BotsIn(members) == Only(members, Bots)
\* Mutant of BotToLeave: the concierge looks at the bot that joins.
BotToLeaveInverted(m, members) ==
    IF m \in Bots /\ BotsIn(members) # <<>> THEN {Last(BotsIn(members))} ELSE {}
\* The concierge removes the bot when an agent joins.
BotToLeave(m, members) ==
    IF m \in Agents /\ BotsIn(members) # <<>> THEN {Last(BotsIn(members))} ELSE {}

-----------------------------------------------------------------------------
(* Creation and calls                                                      *)

\* departmentService.getOperators and resolveOperatorsForAssignment: the
\* department's bot; else an available agent, next to the last one assigned;
\* else the only agent there is.
Operators(nobot, available) ==
    IF DepartmentBot # NoBot /\ ~nobot THEN {DepartmentBot}
    ELSE IF ~Pooled /\ available # {} THEN available
    ELSE IF Cardinality(Agents) = 1 THEN Agents ELSE {}
Chosen(nobot, available) ==
    LET operators == Operators(nobot, available) IN
    IF operators = {} THEN {<<>>} ELSE {<<m>> : m \in operators}

\* bound: no longer lists, and nobody twice.
GivenLists ==
    {s \in UNION {[1 .. n -> Members] : n \in 0 .. MaxGiven} :
        \A i, j \in DOMAIN s : s[i] = s[j] => i = j}
\* requestService.create with the participants the caller names, or the chosen
\* operator.  A conversation that waits for its first message has nobody in the
\* lists of agents and bots, the others have the first participant only.
Waiting(members) == Document("temp", members, <<>>)
Created(members) ==
    Document(StatusFor(members), members, IF members = <<>> THEN <<>> ELSE <<Head(members)>>)

Init ==
    /\ \/ \E members \in GivenLists : request = Waiting(members)
       \/ \E available \in SUBSET Agents, skipDepartmentBot \in BOOLEAN :
            \E members \in (GivenLists \ {<<>>}) \cup Chosen(skipDepartmentBot, available) :
                request = Created(members)
    /\ pending = FALSE
    /\ cache \in {Nothing, request}
    /\ call = [c \in Callers |-> Idle]
    /\ concierge = [b \in Bots |-> 0]
    /\ recount = [a \in Counted |->
            [wait |-> IF a \in ToSet(request.agents) THEN 1 ELSE 0, zero |-> 0, one |-> 0]]
    /\ counted = [a \in Counted |-> 0]
    /\ told = [m \in Members |-> IF m \in ToSet(request.participants) THEN 1 ELSE 0]
    /\ conflicted = FALSE /\ twice = FALSE
    /\ ops = 0

Running(c, op) == call[c].op = op

\* A call takes the first free place: the places are alike.
Free(c) == Running(c, "idle") /\ \A d \in Callers : d < c => ~Running(d, "idle")

\* A call from outside loads the document.
Loads(c, op, arg, doc) ==
    /\ Free(c) /\ ops < MaxOps
    /\ ops' = ops + 1
    /\ call' = [call EXCEPT ![c] = [op |-> op, arg |-> arg, doc |-> doc]]
Quiet == UNCHANGED <<request, pending, concierge, counts, told, ghosts>>

Ends(c) == call' = [call EXCEPT ![c] = Idle]

\* A save, after which the call announces op; or the save fails on the version,
\* and the call with it.
Saves(c, old, new, op, arg) ==
    \/ /\ MaySave(old, new)
       /\ request' = Saved(old, new)
       /\ call' = [call EXCEPT ![c].op = op, ![c].arg = arg]
       /\ UNCHANGED conflicted
    \/ /\ ~MaySave(old, new)
       /\ conflicted' = TRUE
       /\ Ends(c) /\ UNCHANGED request

\* addParticipantByRequestId; also for join-member of the chat21 webhook.
AddLoads(c) ==
    /\ \E m \in Members :
        m \notin ToSet(request.participants) /\ Loads(c, "add", m, request)
    /\ Quiet /\ UNCHANGED cache
AddSaves(c) ==
    LET m == call[c].arg
        old == call[c].doc IN
    /\ Running(c, "add")
    /\ request' = Pushed(old, m)
    /\ twice' = (twice \/ m \in ToSet(request.participants))
    /\ call' = [call EXCEPT ![c].op = "added"]
    /\ UNCHANGED <<pending, cache, concierge, counts, told, conflicted, ops>>
\* request.participants.join, with the participants of the saved object
AddAnnounces(c) ==
    LET m == call[c].arg
        left == BotToLeave(m, Append(call[c].doc.participants, m)) IN
    /\ Running(c, "added")
    /\ Announces({m}, {})
    /\ concierge' = [b \in Bots |-> concierge[b] + IF b \in left THEN 1 ELSE 0]
    /\ Ends(c) /\ UNCHANGED <<request, pending, cache, counted, ghosts, ops>>

\* removeParticipantByRequestId; also for leave-member of the chat21 webhook.
RemoveLoads(c) ==
    /\ \E m \in ToSet(request.participants) : Loads(c, "remove", m, request)
    /\ Quiet /\ UNCHANGED cache
ConciergeLoads(c) ==
    /\ Free(c)
    /\ \E b \in Bots :
        /\ concierge[b] > 0
        /\ concierge' = [concierge EXCEPT ![b] = @ - 1]
        /\ IF b \in ToSet(request.participants)
           THEN call' = [call EXCEPT ![c] = [op |-> "remove", arg |-> b, doc |-> request]]
           ELSE UNCHANGED call
    /\ UNCHANGED <<request, pending, cache, counts, told, ghosts, ops>>
RemoveSaves(c) ==
    LET old == call[c].doc IN
    /\ Running(c, "remove")
    /\ Saves(c, old, Without(old, call[c].arg), "removed", call[c].arg)
    /\ UNCHANGED <<pending, cache, concierge, counts, told, twice, ops>>
\* request.participants.leave
RemoveAnnounces(c) ==
    /\ Running(c, "removed")
    /\ Announces({}, {call[c].arg})
    /\ Ends(c) /\ UNCHANGED <<request, pending, cache, concierge, counted, ghosts, ops>>

\* setParticipantsByRequestId: PUT participants, and replace with a bot.
ListsToSet == {<<>>} \cup {<<m>> : m \in Members}    \* bound: no longer lists
SetLoads(c) ==
    /\ \E members \in ListsToSet :
        members # request.participants /\ Loads(c, "set", members, request)
    /\ Quiet /\ UNCHANGED cache
SetSaves(c) ==
    LET old == call[c].doc IN
    /\ Running(c, "set")
    /\ Saves(c, old, WithMembers(old, call[c].arg), "replaced", call[c].arg)
    /\ UNCHANGED <<pending, cache, concierge, counts, told, twice, ops>>
\* request.participants.update
SetAnnounces(c) ==
    LET old == call[c].doc.participants IN
    /\ Running(c, "replaced")
    /\ Announces(AddedBy(old, call[c].arg), RemovedBy(old, call[c].arg))
    /\ Ends(c) /\ UNCHANGED <<request, pending, cache, concierge, counted, ghosts, ops>>

-----------------------------------------------------------------------------
(* route and reroute                                                       *)

\* PUT assign looks at the stored request before it routes.
AssignChecks(c) ==
    /\ request.status \notin {"assigned", "closed"}
    /\ \E nobot \in BOOLEAN : Loads(c, "assign", nobot, Nothing)
    /\ Quiet /\ UNCHANGED cache

\* The request is read through the cache, which a miss fills.
CachedRequest == IF cache = Nothing THEN request ELSE cache
RouteLoads(c) ==
    /\ \/ \E nobot \in BOOLEAN : Loads(c, "route", nobot, CachedRequest)
       \/ /\ Running(c, "assign")
          /\ call' = [call EXCEPT ![c].op = "route", ![c].doc = CachedRequest]
          /\ UNCHANGED ops
    /\ cache' = CachedRequest
    /\ Quiet

\* An unchanged request that no agent is left for is abandoned.
RouteChangesNothing(c, members) ==
    /\ \/ UNCHANGED request
       \/ members = <<>> /\ request' = [request EXCEPT !.status = "abandoned"]
    /\ Ends(c) /\ UNCHANGED conflicted
RouteSaves(c) ==
    LET old == call[c].doc IN
    /\ Running(c, "route")
    /\ \E available \in SUBSET Agents :
        \E members \in Chosen(call[c].arg, available) :
            LET new == WithMembers(old, members) IN
            IF old.status = new.status /\ Arrays(old) = Arrays(new)
            THEN RouteChangesNothing(c, members)
            ELSE Saves(c, old, new, "replaced", members)
    /\ UNCHANGED <<pending, cache, concierge, counts, told, twice, ops>>
\* The quota of the project is used up; a test of a bot is not charged.
RouteRefused(c) ==
    /\ Running(c, "route") /\ ~Draft
    /\ Ends(c) /\ Quiet /\ UNCHANGED <<cache, ops>>

\* Entries expire, and are dropped after request.update and request.close.
CacheDrops ==
    /\ cache # Nothing /\ cache' = Nothing
    /\ UNCHANGED <<request, pending, call, concierge, counts, told, ghosts, ops>>

-----------------------------------------------------------------------------
(* close and reopen                                                        *)

\* closeRequestByRequestId: the routes, the \close action, the scheduled tasks
\* and conversation-archived.  Without force a closed request is only announced.
CloseLoads(c) ==
    /\ \E force \in BOOLEAN :
        IF ~force /\ request.status = "closed"
        THEN /\ Free(c) /\ ops < MaxOps
             /\ ops' = ops + 1
             /\ Recounts(ToSet(request.agents))
             /\ UNCHANGED call
        ELSE Loads(c, "close", NoBot, Nothing) /\ UNCHANGED recount
    /\ UNCHANGED <<request, pending, cache, concierge, counted, told, ghosts>>
\* changeStatusByRequestId: findOneAndUpdate.
CloseChangesStatus(c) ==
    /\ Running(c, "close")
    /\ request' = [request EXCEPT !.status = "closed"]
    /\ call' = [call EXCEPT ![c].op = "closing"]
    /\ UNCHANGED <<pending, cache, concierge, counts, told, ghosts, ops>>
\* The transcript, closed_at, and request.close.
CloseEnds(c) ==
    /\ Running(c, "closing")
    /\ Recounts(ToSet(request.agents))
    /\ Ends(c)
    /\ UNCHANGED <<request, pending, cache, concierge, counted, told, ghosts, ops>>

ReopenLoads(c) ==
    /\ request.status \notin {"assigned", "unassigned"}
    /\ Loads(c, "reopen", NoBot, request)
    /\ Quiet /\ UNCHANGED cache
ReopenSaves(c) ==
    LET old == call[c].doc IN
    /\ Running(c, "reopen")
    /\ request' = Saved(old, [old EXCEPT !.status = StatusFor(old.participants)])
    /\ Ends(c)
    /\ UNCHANGED <<pending, cache, concierge, counts, told, conflicted, twice, ops>>

\* PATCH of the request with a workingStatus: findOneAndUpdate, and the agents
\* it returned are counted after request.workingStatus.update.
Patches ==
    /\ ops < MaxOps /\ ops' = ops + 1
    /\ pending' \in BOOLEAN
    /\ Recounts(ToSet(request.agents))
    /\ UNCHANGED <<request, cache, call, concierge, counted, told, ghosts>>

-----------------------------------------------------------------------------
(* The routing queue                                                       *)

\* Request.countDocuments: this conversation's part of the count.
CountDocuments(a) ==
    IF a \in ToSet(request.agents) /\ request.status # "closed" /\ ~Draft /\ ~pending
    THEN 1 ELSE 0

RecountReads(a) ==
    /\ recount[a].wait > 0
    /\ recount' = [recount EXCEPT ![a].wait = @ - 1,
            ![a].zero = @ + (1 - CountDocuments(a)), ![a].one = @ + CountDocuments(a)]
    /\ UNCHANGED <<request, pending, cache, call, concierge, counted, told, ghosts, ops>>

\* Mutant of CountAfter: as in the version before, by increments.
CountAfterStep(a, n) == IF n = 1 THEN counted[a] + 1 ELSE counted[a] - 1
CountAfter(a, n) == n
RecountWrites(a) ==
    /\ \/ /\ recount[a].zero > 0
          /\ recount' = [recount EXCEPT ![a].zero = @ - 1]
          /\ counted' = [counted EXCEPT ![a] = CountAfter(a, 0)]
       \/ /\ recount[a].one > 0
          /\ recount' = [recount EXCEPT ![a].one = @ - 1]
          /\ counted' = [counted EXCEPT ![a] = CountAfter(a, 1)]
    /\ UNCHANGED <<request, pending, cache, call, concierge, told, ghosts, ops>>

-----------------------------------------------------------------------------
Steps(c) ==
    \/ AddSaves(c) \/ RemoveSaves(c) \/ SetSaves(c) \/ ReopenSaves(c)
    \/ AddAnnounces(c) \/ RemoveAnnounces(c) \/ SetAnnounces(c)
    \/ RouteSaves(c) \/ (Running(c, "assign") /\ RouteLoads(c))
    \/ CloseChangesStatus(c) \/ CloseEnds(c)
Arrives(c) ==
    \/ AddLoads(c) \/ RemoveLoads(c) \/ SetLoads(c) \/ ReopenLoads(c)
    \/ AssignChecks(c) \/ RouteLoads(c) \/ CloseLoads(c)

Next ==
    \/ \E c \in Callers : Arrives(c) \/ Steps(c) \/ RouteRefused(c) \/ ConciergeLoads(c)
    \/ \E a \in Counted : RecountReads(a) \/ RecountWrites(a)
    \/ Patches \/ CacheDrops

Spec == Init /\ [][Next]_vars

\* As long as a call or the concierge has something to do, some of it is done.
Fairness == WF_vars(\E c \in Callers : Steps(c) \/ ConciergeLoads(c))
FairSpec == Spec /\ Fairness

-----------------------------------------------------------------------------
(* Properties                                                              *)

Documents ==
    [status : Statuses, version : Nat, participants : Seq(Members),
     agents : Seq(Agents), bots : Seq(Bots)]

TypeOK ==
    /\ request \in Documents /\ pending \in BOOLEAN /\ cache \in Documents \cup {Nothing}
    /\ \A c \in Callers :
        /\ call[c].op \in {"idle", "add", "remove", "set", "assign", "route", "close",
                           "closing", "reopen", "added", "removed", "replaced"}
        /\ call[c].doc \in Documents \cup {Nothing}
    /\ concierge \in [Bots -> Nat]
    /\ recount \in [Counted -> [wait : Nat, zero : Nat, one : Nat]]
    /\ counted \in [Counted -> Nat]
    /\ told \in [Members -> Int]
    /\ {conflicted, twice} \subseteq BOOLEAN
    /\ ops \in Nat

\* The lists of agents and of bots are those of the participants.
ListsAgree ==
    /\ request.agents = Only(request.participants, Agents)
    /\ request.bots = Only(request.participants, Bots)
\* A conversation may be created with lists that do not agree.  But adds,
\* removals, sets and routes from different, stale documents, however they
\* interleave, never take the agreement away from one that has it.
ListsStayAligned == [][ListsAgree => ListsAgree']_vars

\* A call that never saw a participant never drops it: what another call added
\* after the document was loaded, or cached, survives.
NoBlindRemoval ==
    [][\A m \in ToSet(request.participants) \ ToSet(request'.participants) :
         \E c \in Callers :
            /\ call'[c].op # call[c].op /\ call[c].doc # Nothing
            /\ m \in ToSet(call[c].doc.participants)]_vars

Announcing(c) == call[c].op \in {"added", "removed", "replaced", "closing"}

\* Once every event is out, the joins and leaves told to chat21, the routing
\* queue, triggers and notifications, in whatever order, add up to the
\* participants; but for a member added twice.
EventsTellParticipants ==
    \/ twice \/ \E c \in Callers : Announcing(c)
    \/ \A m \in Members :
        told[m] = IF m \in ToSet(request.participants) THEN 1 ELSE 0

\* The comment at listenerQueued.js 46-47: number_assigned_requests is the exact
\* number.  When nothing is left to announce, to count or to write, it is what
\* a count would find now.
CountExact ==
    \A a \in Counted :
        \/ recount[a] # [wait |-> 0, zero |-> 0, one |-> 0]
        \/ \E c \in Callers : Announcing(c)
        \/ counted[a] = CountDocuments(a)

\* When an agent joins, the bot that was there leaves, unless a save met
\* another version or a member was added twice.
JoinsBot(b) ==
    \E c \in Callers :
        /\ Running(c, "added") /\ call[c].arg \in Agents
        /\ BotsIn(call[c].doc.participants) # <<>>
        /\ b = Last(BotsIn(call[c].doc.participants))
AgentTakesOver ==
    \A b \in Bots :
        JoinsBot(b) ~> (b \notin ToSet(request.participants) \/ conflicted \/ twice)
=============================================================================
