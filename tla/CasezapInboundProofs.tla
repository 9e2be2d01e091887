------------------------- MODULE CasezapInboundProofs -------------------------
(***************************************************************************)
(* Proofs about CasezapInbound for any processes, messages and handlers.   *)
(***************************************************************************)
EXTENDS CasezapInbound, FiniteSetTheorems, SequenceTheorems, WellFoundedInduction, TLAPS

-----------------------------------------------------------------------------
(* The inductive invariant                                                 *)

\* An idle place is empty; a call in flight has a process and a message; the
\* conversations that calls, groups and stored messages name exist.
CallsOK ==
    /\ \A h \in Handlers :
        /\ call[h].pc = "idle" => call[h] = Idle
        /\ call[h].pc # "idle" => call[h].proc \in Processes /\ call[h].msg \in Messages
        /\ call[h].pc \in {"ensure", "send", "sync"} => call[h].req \in DOMAIN requests
    /\ \A m \in Messages : \A i \in DOMAIN stored[m] : stored[m][i] \in DOMAIN requests

\* A delivery opens one conversation at most.
EarlyPlaces == {"mark", "check", "lock", "create"}
Early == {h \in Handlers : call[h].pc \in EarlyPlaces}
BoundOK ==
    /\ IsFiniteSet(Early)
    /\ Len(requests) + Cardinality(Early) <= deliveries
    /\ deliveries <= MaxDeliveries

\* While Redis answers, the calls past the mark hold one message each, and
\* those that have not stored theirs are the only ones that can.
Past(h) == call[h].pc \notin {"idle", "mark"}
MarksOK ==
    redisFaults = 0 =>
        /\ \A h \in Handlers : Past(h) => call[h].msg \in marks
        /\ \A g, h \in Handlers : Past(g) /\ Past(h) /\ call[g].msg = call[h].msg => g = h
        /\ \A h \in Handlers :
            call[h].pc \in {"lock", "create", "ensure", "send"} => stored[call[h].msg] = <<>>

\* The queue of a process holds the calls at the lock, once each.
LocksOK ==
    /\ \A p \in Processes : \A i \in DOMAIN lock[p] :
        call[lock[p][i]].proc = p /\ call[lock[p][i]].pc \in {"lock", "create"}
    /\ \A p \in Processes : \A i, j \in DOMAIN lock[p] : lock[p][i] = lock[p][j] => i = j
    /\ \A h \in Handlers : call[h].pc \in {"lock", "create"} =>
        \E i \in DOMAIN lock[call[h].proc] : lock[call[h].proc][i] = h
\* The call that creates holds the lock, and its process has nothing open.
CreatesOK ==
    \A h \in Handlers : call[h].pc = "create" =>
        /\ Head(lock[call[h].proc]) = h
        /\ \A r \in Open : requests[r].by # call[h].proc

\* A message that is marked or answered is stored, or a call past the mark has
\* it, or one of its handlers failed.
Kept(m) == stored[m] # <<>> \/ m \in faulted \/ \E h \in Handlers : Past(h) /\ call[h].msg = m
Marked(m) == m \in acked \/ m \in marks \/ \E p \in Processes : m \in localMarks[p]
KeptOK ==
    /\ \A m \in Messages : Marked(m) => Kept(m)
    /\ \A h \in Handlers : call[h].pc = "sync" => stored[call[h].msg] # <<>>

IInv ==
    /\ TypeOK /\ CallsOK /\ BoundOK
    /\ MarksOK /\ StoredOnce
    /\ LocksOK /\ CreatesOK /\ OneOpenPerProcess
    /\ KeptOK

-----------------------------------------------------------------------------
(* What a step does to the calls                                           *)

CallType == [pc : Places, proc : Processes \cup {"none"},
             msg : Messages \cup {NoMessage}, req : Requests \cup {NoRequest}]
Conversation == [open : BOOLEAN, by : Processes]

\* The types without the sets that only collect what happened.
CoreTypes ==
    /\ requests \in Seq(Conversation)
    /\ lock \in [Processes -> Seq(Handlers)]
    /\ call \in [Handlers -> CallType]
    /\ stored \in [Messages -> Seq(Requests)]
    /\ deliveries \in Nat /\ redisFaults \in Nat

(* TypeOK names these types.                                               *)
LEMMA CoreTyped == (TypeOK => CoreTypes) /\ (TypeOK' => CoreTypes')
<1>1. TypeOK => CoreTypes
    BY DEF TypeOK, CoreTypes, Conversation, CallType
<1>2. TypeOK' => CoreTypes'
    BY DEF TypeOK, CoreTypes, Conversation, CallType
<1> QED  BY <1>1, <1>2

(* Idle is a call.                                                         *)
LEMMA IdleType == Idle \in CallType /\ Idle.pc = "idle"
BY DEF Idle, CallType, Places

(* A call that goes to another place keeps the rest.                       *)
LEMMA GotoType ==
    ASSUME call \in [Handlers -> CallType], NEW h \in Handlers, NEW pc \in Places, Goto(h, pc)
    PROVE  /\ call' \in [Handlers -> CallType]
           /\ call'[h] = [call[h] EXCEPT !.pc = pc]
           /\ call'[h].pc = pc /\ call'[h].proc = call[h].proc
           /\ call'[h].msg = call[h].msg /\ call'[h].req = call[h].req
           /\ \A g \in Handlers \ {h} : call'[g] = call[g]
BY DEF Goto, CallType

(* A call that ends leaves its place empty.                                *)
LEMMA EndsType ==
    ASSUME call \in [Handlers -> CallType], NEW h \in Handlers, Ends(h)
    PROVE  /\ call' \in [Handlers -> CallType]
           /\ call'[h] = Idle /\ call'[h].pc = "idle"
           /\ \A g \in Handlers \ {h} : call'[g] = call[g]
BY IdleType DEF Ends

(* A call that has found, or made, its conversation goes on with it.       *)
LEMMA TakesType ==
    ASSUME call \in [Handlers -> CallType], NEW h \in Handlers, NEW pc \in Places,
           NEW r \in Requests, call' = [call EXCEPT ![h].pc = pc, ![h].req = r]
    PROVE  /\ call' \in [Handlers -> CallType]
           /\ call'[h].pc = pc /\ call'[h].proc = call[h].proc
           /\ call'[h].msg = call[h].msg /\ call'[h].req = r
           /\ \A g \in Handlers \ {h} : call'[g] = call[g]
BY DEF CallType

(* A nonempty set of natural numbers has a least element.                  *)
LEMMA LeastNatural ==
    ASSUME NEW S, S \subseteq Nat, S # {}
    PROVE  \E m \in S : \A n \in S : m <= n
<1>1. PICK m \in S : \A n \in S : ~(<<n, m>> \in OpToRel(<, Nat))
    BY NatLessThanWellFounded, WFMin, Zenon
<1>2. \A n \in S : ~(n < m)
    BY <1>1, Zenon DEF OpToRel
<1> QED  BY <1>2

(* findOne answers an open conversation if there is one.                   *)
LEMMA FoundOpen ==
    ASSUME CoreTypes
    PROVE  /\ Open # {} => Found \in Open
           /\ IsFound(Found) <=> Open # {}
           /\ Open \subseteq DOMAIN requests
           /\ DOMAIN requests = 1 .. Len(requests) /\ Len(requests) \in Nat
<1>1. DOMAIN requests = 1 .. Len(requests) /\ Len(requests) \in Nat
    BY DEF CoreTypes
<1>2. Open \subseteq 1 .. Len(requests)
    BY <1>1 DEF Open
<1>3. ASSUME Open # {} PROVE \E r \in Open : \A s \in Open : s <= r
    <2> DEFINE Below == {Len(requests) - r : r \in Open}
    <2>1. Below \subseteq Nat /\ Below # {}
        BY <1>1, <1>2, <1>3
    <2>2. PICK n \in Below : \A k \in Below : n <= k
        BY <2>1, LeastNatural
    <2>3. PICK r \in Open : n = Len(requests) - r
        BY <2>2
    <2>4. ASSUME NEW s \in Open PROVE s <= r
        <3>1. n <= Len(requests) - s
            BY <2>2
        <3> QED  BY <3>1, <2>3, <1>1, <1>2
    <2> QED  BY <2>4
<1>4. Open # {} => Found \in Open
    BY <1>3 DEF Found
<1>5. IsFound(Found) <=> Open # {}
    <2>1. Open = {} => Found = NoRequest
        BY DEF Found
    <2>2. Open # {} => Found # NoRequest
        BY <1>1, <1>2, <1>4 DEF NoRequest
    <2> QED  BY <2>1, <2>2 DEF IsFound
<1> QED  BY <1>1, <1>2, <1>4, <1>5

-----------------------------------------------------------------------------
(* Types, the calls and the bound                                          *)

(* The first call of a nonempty queue leaves it.                           *)
LEMMA UnlockedType ==
    ASSUME lock \in [Processes -> Seq(Handlers)], NEW p \in Processes, lock[p] # <<>>
    PROVE  Unlocked(p) \in [Processes -> Seq(Handlers)]
BY DEF Unlocked

(* A call at the lock is in the queue of its process.                      *)
LEMMA InQueue ==
    ASSUME CoreTypes, CallsOK, LocksOK,
           NEW h \in Handlers, call[h].pc \in {"lock", "create"}
    PROVE  call[h].proc \in Processes /\ lock[call[h].proc] # <<>>
BY DEF CoreTypes, CallsOK, LocksOK

(* A call past its creation is not early; one that becomes so is one less. *)
LEMMA EarlyKept ==
    ASSUME CoreTypes, BoundOK, Early' \subseteq Early,
           UNCHANGED <<deliveries>>, requests' \in Seq(Conversation),
           Len(requests') = Len(requests)
    PROVE  BoundOK'
<1>1. IsFiniteSet(Early') /\ Cardinality(Early') <= Cardinality(Early)
    BY FS_Subset DEF BoundOK
<1>2. Cardinality(Early) \in Nat /\ Cardinality(Early') \in Nat
    BY <1>1, FS_CardinalityType DEF BoundOK
<1> QED  BY <1>1, <1>2 DEF BoundOK, CoreTypes

(* A conversation is created within the bound.                             *)
LEMMA RoomToCreate ==
    ASSUME CoreTypes, BoundOK, NEW h \in Early
    PROVE  /\ Len(requests) + 1 \in Requests
           /\ IsFiniteSet(Early \ {h})
           /\ Cardinality(Early \ {h}) = Cardinality(Early) - 1
           /\ Cardinality(Early) \in Nat
<1>1. /\ IsFiniteSet(Early \ {h})
      /\ Cardinality(Early \ {h}) = Cardinality(Early) - 1
    BY FS_RemoveElement DEF BoundOK
<1>2. Cardinality(Early) \in Nat /\ Cardinality(Early \ {h}) \in Nat
    BY <1>1, FS_CardinalityType DEF BoundOK
<1>3. MaxDeliveries \in Nat /\ Len(requests) \in Nat /\ deliveries \in Nat
    BY CasezapAssumption DEF CoreTypes
<1> QED  BY <1>1, <1>2, <1>3 DEF BoundOK, Requests

(* A conversation that changes leaves the others as they are.              *)
LEMMA ConversationChanged ==
    ASSUME NEW s \in Seq(Conversation), NEW r \in DOMAIN s, NEW v \in Conversation
    PROVE  /\ [s EXCEPT ![r] = v] \in Seq(Conversation)
           /\ Len([s EXCEPT ![r] = v]) = Len(s)
           /\ DOMAIN [s EXCEPT ![r] = v] = DOMAIN s
BY ExceptSeq

(* The types, the calls and the bound are kept by every step.              *)
LEMMA TypeStep ==
    ASSUME TypeOK, CallsOK, BoundOK, LocksOK, [Next]_vars
    PROVE  TypeOK' /\ CallsOK' /\ BoundOK'
<1>0. CoreTypes
    BY CoreTyped
<1> DEFINE Goal == TypeOK' /\ CallsOK' /\ BoundOK'
<1>1. ASSUME NEW h \in Handlers, NEW p \in Processes, NEW m \in Messages, Deliver(h, p, m)
      PROVE  Goal
    <2> DEFINE new == [pc |-> "mark", proc |-> p, msg |-> m, req |-> NoRequest]
    <2>1. new \in CallType
        BY DEF CallType, Places
    <2>2. /\ call' \in [Handlers -> CallType] /\ call'[h] = new
          /\ \A g \in Handlers \ {h} : call'[g] = call[g]
        BY <1>0, <1>1, <2>1 DEF Deliver, CoreTypes
    <2>3. TypeOK'
        BY <1>1, <2>2 DEF TypeOK, Deliver, CallType, bounds, history
    <2>4. CallsOK'
        BY <1>1, <2>2 DEF CallsOK, Deliver
    <2>5. Early' = Early \cup {h} /\ h \notin Early
        BY <1>1, <2>2 DEF Early, EarlyPlaces, Deliver, Running
    <2>6. /\ IsFiniteSet(Early') /\ Cardinality(Early') = Cardinality(Early) + 1
        BY <2>5, FS_AddElement DEF BoundOK
    <2>7. Cardinality(Early) \in Nat
        BY FS_CardinalityType DEF BoundOK
    <2>8. BoundOK'
        BY <1>0, <1>1, <2>6, <2>7, CasezapAssumption DEF BoundOK, Deliver, CoreTypes
    <2> QED  BY <2>3, <2>4, <2>8
<1>2. ASSUME NEW h \in Handlers, MarkRedis(h) PROVE Goal
    <2>1. CASE Answers(h) /\ marks' = marks
        <3>1. /\ call' \in [Handlers -> CallType] /\ call'[h] = Idle /\ call'[h].pc = "idle"
              /\ \A g \in Handlers \ {h} : call'[g] = call[g]
            BY <1>0, <2>1, EndsType DEF Answers, CoreTypes
        <3>2. TypeOK'
            BY <1>2, <2>1, <3>1 DEF TypeOK, CallsOK, MarkRedis, Running, Answers, CallType, bounds, history
        <3>3. CallsOK'
            BY <1>2, <3>1 DEF CallsOK, MarkRedis
        <3>4. BoundOK'
            BY <1>0, <1>2, <3>1, <3>2, EarlyKept, CoreTyped
            DEF CoreTypes, Early, EarlyPlaces, MarkRedis, bounds
        <3> QED  BY <3>2, <3>3, <3>4
    <2>2. CASE marks' = marks \cup {call[h].msg} /\ Goto(h, "check") /\ UNCHANGED acked
        <3>1. /\ call' \in [Handlers -> CallType]
              /\ call'[h].pc = "check" /\ call'[h].proc = call[h].proc
              /\ call'[h].msg = call[h].msg /\ call'[h].req = call[h].req
              /\ \A g \in Handlers \ {h} : call'[g] = call[g]
            BY <1>0, <2>2, GotoType DEF CoreTypes, Places
        <3>2. TypeOK'
            BY <1>2, <2>2, <3>1 DEF TypeOK, CallsOK, MarkRedis, Running, CallType, bounds, history
        <3>3. CallsOK'
            BY <1>2, <3>1 DEF CallsOK, MarkRedis, Running
        <3>4. BoundOK'
            BY <1>0, <1>2, <3>1, <3>2, EarlyKept, CoreTyped
            DEF CoreTypes, Early, EarlyPlaces, MarkRedis, Running, bounds
        <3> QED  BY <3>2, <3>3, <3>4
    <2> QED  BY <1>2, <2>1, <2>2 DEF MarkRedis
<1>3. ASSUME NEW h \in Handlers, MarkLocal(h) PROVE Goal
    <2>1. CASE Answers(h)
        <3>1. /\ call' \in [Handlers -> CallType] /\ call'[h] = Idle /\ call'[h].pc = "idle"
              /\ \A g \in Handlers \ {h} : call'[g] = call[g]
            BY <1>0, <2>1, EndsType DEF Answers, CoreTypes
        <3>2. TypeOK'
            BY <1>3, <2>1, <3>1 DEF TypeOK, CallsOK, MarkLocal, Running, Answers, CallType, history
        <3>3. CallsOK'
            BY <1>3, <3>1 DEF CallsOK, MarkLocal
        <3>4. BoundOK'
            BY <1>0, <1>3, <3>1, <3>2, EarlyKept, CoreTyped
            DEF CoreTypes, Early, EarlyPlaces, MarkLocal
        <3> QED  BY <3>2, <3>3, <3>4
    <2>2. CASE Goto(h, "check") /\ UNCHANGED acked
        <3>1. /\ call' \in [Handlers -> CallType]
              /\ call'[h].pc = "check" /\ call'[h].proc = call[h].proc
              /\ call'[h].msg = call[h].msg /\ call'[h].req = call[h].req
              /\ \A g \in Handlers \ {h} : call'[g] = call[g]
            BY <1>0, <2>2, GotoType DEF CoreTypes, Places
        <3>2. TypeOK'
            BY <1>3, <2>2, <3>1 DEF TypeOK, CallsOK, MarkLocal, Running, CallType, history
        <3>3. CallsOK'
            BY <1>3, <3>1 DEF CallsOK, MarkLocal, Running
        <3>4. BoundOK'
            BY <1>0, <1>3, <3>1, <3>2, EarlyKept, CoreTyped
            DEF CoreTypes, Early, EarlyPlaces, MarkLocal, Running
        <3> QED  BY <3>2, <3>3, <3>4
    <2> QED  BY <1>3, <2>1, <2>2 DEF MarkLocal
<1>4. ASSUME NEW h \in Handlers, Check(h) PROVE Goal
    <2>1. CASE Answers(h) /\ UNCHANGED lock
        <3>1. /\ call' \in [Handlers -> CallType] /\ call'[h] = Idle /\ call'[h].pc = "idle"
              /\ \A g \in Handlers \ {h} : call'[g] = call[g]
            BY <1>0, <2>1, EndsType DEF Answers, CoreTypes
        <3>2. TypeOK'
            BY <1>4, <2>1, <3>1 DEF TypeOK, CallsOK, Check, Running, Answers, CallType, bounds, history
        <3>3. CallsOK'
            BY <1>4, <3>1 DEF CallsOK, Check
        <3>4. BoundOK'
            BY <1>0, <1>4, <3>1, <3>2, EarlyKept, CoreTyped
            DEF CoreTypes, Early, EarlyPlaces, Check, bounds
        <3> QED  BY <3>2, <3>3, <3>4
    <2>2. CASE /\ lock' = [lock EXCEPT ![call[h].proc] = Append(@, h)]
               /\ Goto(h, "lock") /\ UNCHANGED acked
        <3>1. /\ call' \in [Handlers -> CallType]
              /\ call'[h].pc = "lock" /\ call'[h].proc = call[h].proc
              /\ call'[h].msg = call[h].msg /\ call'[h].req = call[h].req
              /\ \A g \in Handlers \ {h} : call'[g] = call[g]
            BY <1>0, <2>2, GotoType DEF CoreTypes, Places
        <3>2. lock' \in [Processes -> Seq(Handlers)]
            <4>1. call[h].proc \in Processes
                BY <1>4 DEF CallsOK, Check, Running
            <4>2. Append(lock[call[h].proc], h) \in Seq(Handlers)
                BY <1>0, <4>1 DEF CoreTypes
            <4> QED  BY <1>0, <2>2, <4>2 DEF CoreTypes
        <3>3. TypeOK'
            BY <1>4, <2>2, <3>1, <3>2 DEF TypeOK, Check, CallType, bounds, history
        <3>4. CallsOK'
            BY <1>4, <3>1 DEF CallsOK, Check, Running
        <3>5. BoundOK'
            BY <1>0, <1>4, <3>1, <3>3, EarlyKept, CoreTyped
            DEF CoreTypes, Early, EarlyPlaces, Check, Running, bounds
        <3> QED  BY <3>3, <3>4, <3>5
    <2> QED  BY <1>4, <2>1, <2>2 DEF Check
<1>5. ASSUME NEW h \in Handlers, FindRequest(h) PROVE Goal
    <2>0. call[h].proc \in Processes /\ lock[call[h].proc] # <<>>
        BY <1>0, <1>5, InQueue DEF FindRequest, Running
    <2>1. CASE /\ IsFound(Found)
               /\ call' = [call EXCEPT ![h].pc = "send", ![h].req = Found]
               /\ lock' = Unlocked(call[h].proc)
        <3>1. Found \in DOMAIN requests
            BY <1>0, <2>1, FoundOpen
        <3>2. Len(requests) <= MaxDeliveries /\ MaxDeliveries \in Nat
            <4>1. Cardinality(Early) \in Nat
                BY FS_CardinalityType DEF BoundOK
            <4> QED  BY <1>0, <4>1, CasezapAssumption DEF BoundOK, CoreTypes
        <3>3. Found \in Requests
            BY <1>0, <3>1, <3>2, FoundOpen DEF Requests
        <3>4. /\ call' \in [Handlers -> CallType]
              /\ call'[h].pc = "send" /\ call'[h].proc = call[h].proc
              /\ call'[h].msg = call[h].msg /\ call'[h].req = Found
              /\ \A g \in Handlers \ {h} : call'[g] = call[g]
            BY <1>0, <2>1, <3>3, TakesType DEF CoreTypes, Places
        <3>5. lock' \in [Processes -> Seq(Handlers)]
            BY <1>0, <2>0, <2>1, UnlockedType DEF CoreTypes
        <3>6. TypeOK'
            BY <1>5, <3>4, <3>5 DEF TypeOK, FindRequest, CallType, bounds, history
        <3>7. CallsOK'
            BY <1>5, <3>1, <3>4 DEF CallsOK, FindRequest, Running
        <3>8. BoundOK'
            BY <1>0, <1>5, <3>4, <3>6, EarlyKept, CoreTyped
            DEF CoreTypes, Early, EarlyPlaces, FindRequest, Running, bounds
        <3> QED  BY <3>6, <3>7, <3>8
    <2>2. CASE Goto(h, "create") /\ UNCHANGED lock
        <3>1. /\ call' \in [Handlers -> CallType]
              /\ call'[h].pc = "create" /\ call'[h].proc = call[h].proc
              /\ call'[h].msg = call[h].msg /\ call'[h].req = call[h].req
              /\ \A g \in Handlers \ {h} : call'[g] = call[g]
            BY <1>0, <2>2, GotoType DEF CoreTypes, Places
        <3>2. TypeOK'
            BY <1>5, <2>2, <3>1 DEF TypeOK, FindRequest, CallType, bounds, history
        <3>3. CallsOK'
            BY <1>5, <3>1 DEF CallsOK, FindRequest, Running
        <3>4. BoundOK'
            BY <1>0, <1>5, <3>1, <3>2, EarlyKept, CoreTyped
            DEF CoreTypes, Early, EarlyPlaces, FindRequest, Running, bounds
        <3> QED  BY <3>2, <3>3, <3>4
    <2> QED  BY <1>5, <2>1, <2>2 DEF FindRequest
<1>6. ASSUME NEW h \in Handlers, CreateRequest(h) PROVE Goal
    <2> DEFINE new == [open |-> TRUE, by |-> call[h].proc]
    <2>1. call[h].proc \in Processes /\ lock[call[h].proc] # <<>> /\ h \in Early
        BY <1>0, <1>6, InQueue DEF CreateRequest, Running, Early, EarlyPlaces
    <2>2. /\ Len(requests) + 1 \in Requests
          /\ IsFiniteSet(Early \ {h})
          /\ Cardinality(Early \ {h}) = Cardinality(Early) - 1
          /\ Cardinality(Early) \in Nat
        BY <1>0, <2>1, RoomToCreate
    <2>3. new \in Conversation
        BY <2>1 DEF Conversation
    <2>4. /\ requests' \in Seq(Conversation) /\ Len(requests') = Len(requests) + 1
          /\ DOMAIN requests \subseteq DOMAIN requests' /\ Len(requests) + 1 \in DOMAIN requests'
        BY <1>0, <1>6, <2>3 DEF CreateRequest, CoreTypes
    <2>5. /\ call' \in [Handlers -> CallType]
          /\ call'[h].pc = "ensure" /\ call'[h].proc = call[h].proc
          /\ call'[h].msg = call[h].msg /\ call'[h].req = Len(requests) + 1
          /\ \A g \in Handlers \ {h} : call'[g] = call[g]
        BY <1>0, <1>6, <2>2, TakesType DEF CoreTypes, Places, CreateRequest
    <2>6. lock' \in [Processes -> Seq(Handlers)]
        BY <1>0, <1>6, <2>1, UnlockedType DEF CoreTypes, CreateRequest
    <2>7. groups' \subseteq DOMAIN requests'
        BY <1>6, <2>4 DEF TypeOK, CreateRequest
    <2>8. TypeOK'
        BY <1>6, <2>4, <2>5, <2>6, <2>7
        DEF TypeOK, CreateRequest, CallType, Conversation, bounds, history
    <2>9. CallsOK'
        BY <1>0, <1>6, <2>4, <2>5 DEF CallsOK, CreateRequest, Running
    <2>10. Early' = Early \ {h}
        BY <2>5 DEF Early, EarlyPlaces
    <2>11. BoundOK'
        BY <1>0, <1>6, <2>2, <2>4, <2>10 DEF BoundOK, CreateRequest, bounds, CoreTypes
    <2> QED  BY <2>8, <2>9, <2>11
<1>7. ASSUME NEW h \in Handlers, EnsureGroup(h) PROVE Goal
    <2>1. /\ call' \in [Handlers -> CallType]
          /\ call'[h].pc = "send" /\ call'[h].proc = call[h].proc
          /\ call'[h].msg = call[h].msg /\ call'[h].req = call[h].req
          /\ \A g \in Handlers \ {h} : call'[g] = call[g]
        BY <1>0, <1>7, GotoType DEF CoreTypes, Places, EnsureGroup
    <2>2. groups' \subseteq DOMAIN requests
        BY <1>7 DEF TypeOK, CallsOK, EnsureGroup, Running
    <2>3. TypeOK'
        BY <1>7, <2>1, <2>2 DEF TypeOK, EnsureGroup, CallType, bounds, history
    <2>4. CallsOK'
        BY <1>7, <2>1 DEF CallsOK, EnsureGroup, Running
    <2>5. BoundOK'
        BY <1>0, <1>7, <2>1, <2>3, EarlyKept, CoreTyped
        DEF CoreTypes, Early, EarlyPlaces, EnsureGroup, bounds
    <2> QED  BY <2>3, <2>4, <2>5
<1>8. ASSUME NEW h \in Handlers, SendMessage(h) PROVE Goal
    <2>1. /\ call' \in [Handlers -> CallType]
          /\ call'[h].pc = "sync" /\ call'[h].proc = call[h].proc
          /\ call'[h].msg = call[h].msg /\ call'[h].req = call[h].req
          /\ \A g \in Handlers \ {h} : call'[g] = call[g]
        BY <1>0, <1>8, GotoType DEF CoreTypes, Places, SendMessage
    <2>2. call[h].msg \in Messages /\ call[h].req \in DOMAIN requests
        BY <1>8 DEF CallsOK, SendMessage, Running
    <2>3. call[h].req \in Requests
        BY <1>0, <2>2, FoundOpen DEF CoreTypes, CallType, NoRequest
    <2>4. /\ stored' \in [Messages -> Seq(Requests)]
          /\ \A m \in Messages : \A i \in DOMAIN stored'[m] :
                stored'[m][i] = call[h].req \/ (i \in DOMAIN stored[m] /\ stored'[m][i] = stored[m][i])
        BY <1>0, <1>8, <2>2, <2>3 DEF CoreTypes, SendMessage
    <2>5. TypeOK'
        BY <1>8, <2>1, <2>4 DEF TypeOK, SendMessage, CallType, bounds, history
    <2>6. CallsOK'
        <3>1. UNCHANGED requests /\ call[h].pc = "send"
            BY <1>8 DEF SendMessage, Running
        <3>2. \A m \in Messages : \A i \in DOMAIN stored'[m] : stored'[m][i] \in DOMAIN requests
            BY <2>2, <2>4 DEF CallsOK
        <3>3. \A g \in Handlers :
                /\ call'[g].pc = "idle" => call'[g] = Idle
                /\ call'[g].pc # "idle" => call'[g].proc \in Processes /\ call'[g].msg \in Messages
                /\ call'[g].pc \in {"ensure", "send", "sync"} => call'[g].req \in DOMAIN requests
            BY <2>1, <2>2, <3>1 DEF CallsOK
        <3> QED  BY <3>1, <3>2, <3>3 DEF CallsOK
    <2>7. BoundOK'
        BY <1>0, <1>8, <2>1, <2>5, EarlyKept, CoreTyped
        DEF CoreTypes, Early, EarlyPlaces, SendMessage, bounds
    <2> QED  BY <2>5, <2>6, <2>7
<1>9. ASSUME NEW h \in Handlers, SyncLastMessage(h) PROVE Goal
    <2>1. /\ call' \in [Handlers -> CallType] /\ call'[h] = Idle /\ call'[h].pc = "idle"
          /\ \A g \in Handlers \ {h} : call'[g] = call[g]
        BY <1>0, <1>9, EndsType DEF Answers, CoreTypes, SyncLastMessage
    <2>2. TypeOK'
        BY <1>9, <2>1
        DEF TypeOK, CallsOK, SyncLastMessage, Running, Answers, CallType, bounds, history
    <2>3. CallsOK'
        BY <1>9, <2>1 DEF CallsOK, SyncLastMessage
    <2>4. BoundOK'
        BY <1>0, <1>9, <2>1, <2>2, EarlyKept, CoreTyped
        DEF CoreTypes, Early, EarlyPlaces, SyncLastMessage, bounds
    <2> QED  BY <2>2, <2>3, <2>4
<1>10. ASSUME NEW h \in Handlers, HandlerFails(h) PROVE Goal
    <2>1. /\ call' \in [Handlers -> CallType] /\ call'[h] = Idle /\ call'[h].pc = "idle"
          /\ \A g \in Handlers \ {h} : call'[g] = call[g]
        BY <1>0, <1>10, EndsType DEF Fails, CoreTypes, HandlerFails
    <2>2. call[h].msg \in Messages
        BY <1>10 DEF CallsOK, HandlerFails, Running
    <2>3. lock' \in [Processes -> Seq(Handlers)]
        <3>1. CASE (Running(h, "create") \/ Running(h, "lock")) /\ lock' = Unlocked(call[h].proc)
            BY <1>0, <3>1, InQueue, UnlockedType DEF CoreTypes, Running
        <3> QED  BY <1>0, <1>10, <3>1 DEF CoreTypes, HandlerFails, UnlockedByFailure
    <2>4. TypeOK'
        BY <1>10, <2>1, <2>2, <2>3 DEF TypeOK, HandlerFails, Fails, CallType, bounds, history
    <2>5. CallsOK'
        BY <1>10, <2>1 DEF CallsOK, HandlerFails
    <2>6. BoundOK'
        BY <1>0, <1>10, <2>1, EarlyKept DEF CoreTypes, Early, EarlyPlaces, HandlerFails
    <2> QED  BY <2>4, <2>5, <2>6
<1>11. ASSUME NEW p \in Processes, Restart(p) PROVE Goal
    <2>1. /\ call' \in [Handlers -> CallType]
          /\ \A h \in Handlers : call'[h] = IF call[h].proc = p THEN Idle ELSE call[h]
        BY <1>0, <1>11, IdleType DEF Restart, CoreTypes
    <2>2. \A h \in Handlers : call[h].proc = p => call[h].msg \in Messages
        <3>1. Idle.proc # p
            BY CasezapAssumption DEF Idle
        <3> QED  BY <3>1 DEF CallsOK
    <2>3. faulted' \subseteq Messages
        BY <1>11, <2>2 DEF TypeOK, Restart
    <2>4. TypeOK'
        BY <1>11, <2>1, <2>3 DEF TypeOK, Restart, CallType, bounds, history
    <2>5. CallsOK'
        BY <1>11, <2>1, IdleType DEF CallsOK, Restart
    <2>6. BoundOK'
        BY <1>0, <1>11, <2>1, IdleType, EarlyKept DEF CoreTypes, Early, EarlyPlaces, Restart
    <2> QED  BY <2>4, <2>5, <2>6
<1>12. ASSUME NEW m \in Messages, MarkExpires(m) PROVE Goal
    BY <1>12 DEF MarkExpires, TypeOK, CallsOK, BoundOK, Early, bounds, history
<1>13. ASSUME NEW r \in DOMAIN requests, ChatCreatesGroup(r) PROVE Goal
    BY <1>13 DEF ChatCreatesGroup, TypeOK, CallsOK, BoundOK, Early, bounds, history
<1>14. ASSUME NEW r \in DOMAIN requests, CloseRequest(r) PROVE Goal
    <2>1. requests' \in Seq(Conversation) /\ Len(requests') = Len(requests)
          /\ DOMAIN requests' = DOMAIN requests
        <3>0. requests[r] \in Conversation
            BY <1>0 DEF CoreTypes
        <3>1. [requests[r] EXCEPT !.open = FALSE] \in Conversation
            BY <3>0 DEF Conversation
        <3> QED  BY <1>0, <1>14, <3>1, ConversationChanged DEF CoreTypes, CloseRequest
    <2>2. TypeOK'
        BY <1>14, <2>1 DEF TypeOK, CloseRequest, Conversation, history
    <2>3. CallsOK'
        BY <1>14, <2>1 DEF CallsOK, CloseRequest
    <2>4. BoundOK'
        BY <1>14, <2>1 DEF BoundOK, Early, CloseRequest
    <2> QED  BY <2>2, <2>3, <2>4
<1>15. CASE UNCHANGED vars
    BY <1>15 DEF TypeOK, CallsOK, BoundOK, Early, vars, history, bounds
<1> QED
    BY <1>1, <1>2, <1>3, <1>4, <1>5, <1>6, <1>7, <1>8, <1>9, <1>10, <1>11, <1>12, <1>13,
       <1>14, <1>15 DEF Next, Steps

-----------------------------------------------------------------------------
(* Every message is stored once                                            *)

(* Most steps store nothing, take no mark of a call in flight away, and     *)
(* bring no call past the mark (<1>2); the mark (<1>4), the check (<1>5)   *)
(* and the store (<1>6) are what the invariant is about.                   *)
LEMMA StoreStep ==
    ASSUME TypeOK, CallsOK, TypeOK', CallsOK', MarksOK, StoredOnce, [Next]_vars
    PROVE  MarksOK' /\ StoredOnce'
<1>0. CoreTypes /\ CoreTypes'
    BY CoreTyped
<1>1. CASE redisFaults' # 0
    BY <1>1 DEF MarksOK, StoredOnce
<1> SUFFICES ASSUME redisFaults' = 0 PROVE MarksOK' /\ StoredOnce'
    BY <1>1
<1> DEFINE Unstored == {"lock", "create", "ensure", "send"}
           Goal == MarksOK' /\ StoredOnce'
<1>2. ASSUME redisFaults = 0, UNCHANGED stored,
             \A m \in Messages : m \in marks /\ InFlight(m) => m \in marks',
             \A h \in Handlers :
                \/ call'[h].pc \in {"idle", "mark"}
                \/ /\ call'[h].msg = call[h].msg /\ Past(h)
                   /\ call'[h].pc \in Unstored => call[h].pc \in Unstored
      PROVE  Goal
    <2>1. \A h \in Handlers : Past(h)' =>
            /\ Past(h) /\ call'[h].msg = call[h].msg
            /\ call'[h].pc \in Unstored => call[h].pc \in Unstored
        BY <1>2 DEF Past
    <2>2. \A h \in Handlers : call'[h].pc \in Unstored => Past(h)'
        BY DEF Past
    <2>3. \A h \in Handlers : Past(h)' => call'[h].msg \in marks'
        BY <1>2, <2>1 DEF MarksOK, InFlight, CallsOK, Past
    <2> QED  BY <1>2, <2>1, <2>2, <2>3 DEF MarksOK, StoredOnce
<1>3. ASSUME NEW h \in Handlers, MarkLocal(h) PROVE FALSE
    BY <1>0, <1>3 DEF MarkLocal, CoreTypes
<1>4. ASSUME NEW h \in Handlers, MarkRedis(h) PROVE Goal
    <2>1. redisFaults = 0 /\ UNCHANGED stored /\ call[h].pc = "mark"
        BY <1>4 DEF MarkRedis, bounds, Running
    <2>2. CASE Answers(h) /\ UNCHANGED marks
        <3>1. /\ call'[h].pc = "idle"
              /\ \A g \in Handlers \ {h} : call'[g] = call[g]
            BY <1>0, <2>2, EndsType DEF Answers, CoreTypes
        <3> QED  BY <1>2, <2>1, <2>2, <3>1 DEF Past
    <2>3. CASE marks' = marks \cup {call[h].msg} /\ Goto(h, "check") /\ call[h].msg \notin marks
        <3>1. /\ call'[h].pc = "check" /\ call'[h].msg = call[h].msg
              /\ \A g \in Handlers \ {h} : call'[g] = call[g]
            BY <1>0, <2>3, GotoType DEF CoreTypes, Places
        <3>2. \A g \in Handlers \ {h} : Past(g)' => Past(g) /\ call[g].msg # call[h].msg
            BY <2>1, <2>3, <3>1 DEF MarksOK, Past
        <3>3. \A g \in Handlers : Past(g)' => call'[g].msg \in marks'
            BY <2>1, <2>3, <3>1, <3>2 DEF MarksOK
        <3>4. \A f, g \in Handlers : Past(f)' /\ Past(g)' /\ call'[f].msg = call'[g].msg => f = g
            BY <2>1, <3>1, <3>2 DEF MarksOK
        <3>5. \A g \in Handlers : call'[g].pc \in Unstored => stored'[call'[g].msg] = <<>>
            BY <2>1, <3>1 DEF MarksOK
        <3> QED  BY <2>1, <3>3, <3>4, <3>5 DEF MarksOK, StoredOnce
    <2> QED  BY <1>4, <2>2, <2>3 DEF MarkRedis
<1>5. ASSUME NEW h \in Handlers, Check(h) PROVE Goal
    <2>1. redisFaults = 0 /\ UNCHANGED <<stored, marks>> /\ call[h].pc = "check"
        BY <1>5 DEF Check, bounds, Running
    <2>2. CASE Answers(h)
        <3>1. /\ call'[h].pc = "idle"
              /\ \A g \in Handlers \ {h} : call'[g] = call[g]
            BY <1>0, <2>2, EndsType DEF Answers, CoreTypes
        <3> QED  BY <1>2, <2>1, <3>1 DEF Past
    <2>3. CASE Goto(h, "lock") /\ stored[call[h].msg] = <<>>
        <3>1. /\ call'[h].pc = "lock" /\ call'[h].msg = call[h].msg
              /\ \A g \in Handlers \ {h} : call'[g] = call[g]
            BY <1>0, <2>3, GotoType DEF CoreTypes, Places
        <3>2. \A g \in Handlers : (Past(g)' <=> Past(g)) /\ call'[g].msg = call[g].msg
            BY <2>1, <3>1 DEF Past
        <3>3. \A g \in Handlers : call'[g].pc \in Unstored => stored'[call'[g].msg] = <<>>
            BY <2>1, <2>3, <3>1 DEF MarksOK
        <3> QED  BY <2>1, <3>2, <3>3 DEF MarksOK, StoredOnce
    <2> QED  BY <1>5, <2>2, <2>3 DEF Check, IsStored
<1>6. ASSUME NEW h \in Handlers, SendMessage(h) PROVE Goal
    <2>1. redisFaults = 0 /\ UNCHANGED marks /\ call[h].pc = "send"
        BY <1>6 DEF SendMessage, bounds, Running
    <2>2. call[h].msg \in Messages /\ stored[call[h].msg] = <<>> /\ call[h].req \in DOMAIN requests
        BY <2>1 DEF CallsOK, MarksOK
    <2>3. /\ call'[h].pc = "sync" /\ call'[h].msg = call[h].msg
          /\ \A g \in Handlers \ {h} : call'[g] = call[g]
        BY <1>0, <1>6, GotoType DEF CoreTypes, Places, SendMessage
    <2>4. \A g \in Handlers : (Past(g)' <=> Past(g)) /\ call'[g].msg = call[g].msg
        BY <2>1, <2>3 DEF Past
    <2>5. /\ stored'[call[h].msg] = Append(<<>>, call[h].req)
          /\ \A m \in Messages \ {call[h].msg} : stored'[m] = stored[m]
        BY <1>0, <1>6, <2>2 DEF SendMessage, CoreTypes
    <2>6. \A g \in Handlers \ {h} : Past(g) => call[g].msg # call[h].msg
        BY <2>1 DEF MarksOK, Past
    <2>7. \A g \in Handlers : call'[g].pc \in Unstored => stored'[call'[g].msg] = <<>>
        <3> SUFFICES ASSUME NEW g \in Handlers, call'[g].pc \in Unstored
                     PROVE  stored'[call'[g].msg] = <<>>
            OBVIOUS
        <3>1. g # h /\ call'[g] = call[g]
            BY <2>3
        <3>2. call[g].msg \in Messages /\ call[g].msg # call[h].msg
            BY <2>6, <3>1 DEF Past, CallsOK
        <3>3. stored[call[g].msg] = <<>>
            BY <2>1, <3>1 DEF MarksOK
        <3> QED  BY <2>5, <3>1, <3>2, <3>3
    <2>8. Len(stored'[call[h].msg]) <= 1
        BY <2>5, AppendProperties, EmptySeq
    <2>9. \A m \in Messages : Len(stored'[m]) <= 1
        BY <2>1, <2>5, <2>8 DEF StoredOnce
    <2> QED  BY <2>1, <2>4, <2>7, <2>9 DEF MarksOK, StoredOnce
<1>7. ASSUME NEW h \in Handlers, NEW p \in Processes, NEW m \in Messages, Deliver(h, p, m)
      PROVE  Goal
    <2>1. /\ call'[h].pc = "mark"
          /\ \A g \in Handlers \ {h} : call'[g] = call[g]
        BY <1>0, <1>7 DEF Deliver, CoreTypes
    <2>2. redisFaults = 0 /\ UNCHANGED <<stored, marks>>
        BY <1>7 DEF Deliver
    <2> QED  BY <1>2, <2>1, <2>2 DEF Past
<1>8. ASSUME NEW h \in Handlers, FindRequest(h) \/ CreateRequest(h) \/ EnsureGroup(h)
      PROVE  Goal
    <2>1. redisFaults = 0 /\ UNCHANGED <<stored, marks>>
        BY <1>8 DEF FindRequest, CreateRequest, EnsureGroup, bounds
    <2>2. /\ call[h].pc \in Unstored /\ call'[h].msg = call[h].msg
          /\ \A g \in Handlers \ {h} : call'[g] = call[g]
        BY <1>0, <1>8 DEF FindRequest, CreateRequest, EnsureGroup, Goto, Running, CoreTypes, CallType
    <2> QED  BY <1>2, <2>1, <2>2 DEF Past
<1>9. ASSUME NEW h \in Handlers, SyncLastMessage(h) \/ HandlerFails(h) PROVE Goal
    <2>1. redisFaults = 0 /\ UNCHANGED <<stored, marks>>
        BY <1>9 DEF SyncLastMessage, HandlerFails, bounds
    <2>2. /\ call'[h].pc = "idle"
          /\ \A g \in Handlers \ {h} : call'[g] = call[g]
        BY <1>0, <1>9, EndsType DEF SyncLastMessage, HandlerFails, Answers, Fails, CoreTypes
    <2> QED  BY <1>2, <2>1, <2>2 DEF Past
<1>10. ASSUME NEW p \in Processes, Restart(p) PROVE Goal
    <2>1. redisFaults = 0 /\ UNCHANGED <<stored, marks>>
        BY <1>10 DEF Restart
    <2>2. \A g \in Handlers : call'[g].pc = "idle" \/ call'[g] = call[g]
        BY <1>10, IdleType DEF Restart
    <2> QED  BY <1>2, <2>1, <2>2 DEF Past
<1>11. ASSUME UNCHANGED <<call, stored, redisFaults>>,
              \A m \in Messages : m \in marks /\ InFlight(m) => m \in marks'
       PROVE  Goal
    BY <1>2, <1>11 DEF Past
<1>12. ASSUME NEW m \in Messages, MarkExpires(m) PROVE Goal
    BY <1>11, <1>12 DEF MarkExpires, bounds
<1>13. ASSUME NEW r \in DOMAIN requests, ChatCreatesGroup(r) \/ CloseRequest(r) PROVE Goal
    BY <1>11, <1>13 DEF ChatCreatesGroup, CloseRequest, bounds
<1>14. CASE UNCHANGED vars
    BY <1>11, <1>14 DEF vars, bounds
<1> QED
    BY <1>3, <1>4, <1>5, <1>6, <1>7, <1>8, <1>9, <1>10, <1>12, <1>13, <1>14 DEF Next, Steps

-----------------------------------------------------------------------------
(* A process opens one conversation                                        *)

AtLock(h) == call[h].pc \in {"lock", "create"}
LockInv == LocksOK /\ CreatesOK /\ OneOpenPerProcess

(* Steps that neither reach nor leave the lock, and open nothing.          *)
LEMMA QueueKept ==
    ASSUME CoreTypes, CallsOK, LockInv, UNCHANGED lock,
           \A h \in Handlers : AtLock(h) \/ AtLock(h)' => call'[h] = call[h],
           \A r \in Open' : r \in Open /\ requests'[r].by = requests[r].by
    PROVE  LockInv'
<1>1. \A h \in Handlers : (AtLock(h) <=> AtLock(h)') /\ (AtLock(h) => call'[h] = call[h])
    BY DEF AtLock
<1>2. \A p \in Processes : \A i \in DOMAIN lock[p] : lock[p][i] \in Handlers /\ AtLock(lock[p][i])
    BY DEF LockInv, LocksOK, CoreTypes, AtLock
<1>3. LocksOK'
    BY <1>1, <1>2 DEF LockInv, LocksOK, AtLock
<1>4. CreatesOK'
    BY <1>1 DEF LockInv, CreatesOK, AtLock
<1>5. OneOpenPerProcess'
    BY DEF LockInv, OneOpenPerProcess
<1> QED  BY <1>3, <1>4, <1>5 DEF LockInv

(* The holder of the lock leaves it.                                       *)
LEMMA HolderLeaves ==
    ASSUME CoreTypes, CallsOK, LocksOK, NEW h \in Handlers, AtLock(h), HasLock(h),
           lock' = Unlocked(call[h].proc), ~AtLock(h)',
           \A g \in Handlers \ {h} : call'[g] = call[g]
    PROVE  /\ LocksOK'
           /\ \A g \in Handlers : call'[g].pc = "create" /\ CreatesOK =>
                /\ call'[g] = call[g] /\ call[g].proc # call[h].proc
                /\ Head(lock'[call[g].proc]) = g
<1> DEFINE p == call[h].proc
<1>1. /\ p \in Processes /\ lock[p] \in Seq(Handlers) /\ lock[p] # <<>> /\ lock[p][1] = h
      /\ lock'[p] = Tail(lock[p]) /\ \A q \in Processes \ {p} : lock'[q] = lock[q]
    BY InQueue DEF CoreTypes, AtLock, HasLock, Unlocked
<1>2. /\ Len(lock[p]) \in Nat /\ DOMAIN lock[p] = 1 .. Len(lock[p])
      /\ DOMAIN lock'[p] = 1 .. Len(lock[p]) - 1
      /\ \A i \in DOMAIN lock'[p] :
            i + 1 \in DOMAIN lock[p] /\ lock'[p][i] = lock[p][i + 1] /\ i + 1 # 1
    BY <1>1
<1>3. \A i \in DOMAIN lock'[p] : lock'[p][i] \in Handlers \ {h}
    <2>1. \A i \in DOMAIN lock'[p] : lock[p][i + 1] # h
        <3>1. 1 \in DOMAIN lock[p]
            BY <1>1, <1>2
        <3> QED  BY <1>1, <1>2, <3>1 DEF LocksOK
    <2> QED  BY <1>1, <1>2, <2>1
<1>4. \A q \in Processes \ {p} : \A i \in DOMAIN lock[q] : lock[q][i] \in Handlers \ {h}
    BY DEF LocksOK, CoreTypes
<1>5. \A q \in Processes : \A i \in DOMAIN lock'[q] :
        call'[lock'[q][i]].proc = q /\ call'[lock'[q][i]].pc \in {"lock", "create"}
    <2>1. \A i \in DOMAIN lock'[p] :
            call[lock'[p][i]].proc = p /\ call[lock'[p][i]].pc \in {"lock", "create"}
        BY <1>1, <1>2 DEF LocksOK
    <2>2. \A q \in Processes \ {p} : \A i \in DOMAIN lock'[q] :
            call'[lock'[q][i]] = call[lock[q][i]]
        BY <1>1, <1>4
    <2>3. \A i \in DOMAIN lock'[p] : call'[lock'[p][i]] = call[lock'[p][i]]
        BY <1>3
    <2>4. ASSUME NEW q \in Processes, q # p, NEW i \in DOMAIN lock'[q]
          PROVE  call'[lock'[q][i]].proc = q /\ call'[lock'[q][i]].pc \in {"lock", "create"}
        <3>1. lock'[q] = lock[q] /\ i \in DOMAIN lock[q]
            BY <1>1, <2>4
        <3> QED  BY <2>2, <2>4, <3>1 DEF LocksOK
    <2>5. ASSUME NEW i \in DOMAIN lock'[p]
          PROVE  call'[lock'[p][i]].proc = p /\ call'[lock'[p][i]].pc \in {"lock", "create"}
        BY <2>1, <2>3
    <2> QED  BY <2>4, <2>5
<1>6. \A q \in Processes : \A i, j \in DOMAIN lock'[q] : lock'[q][i] = lock'[q][j] => i = j
    <2>1. ASSUME NEW i \in DOMAIN lock'[p], NEW j \in DOMAIN lock'[p], lock'[p][i] = lock'[p][j]
          PROVE  i = j
        <3>1. i + 1 = j + 1
            BY <1>1, <1>2, <2>1 DEF LocksOK
        <3>2. i \in Int /\ j \in Int
            BY <1>2
        <3> QED  BY <3>1, <3>2
    <2>2. ASSUME NEW q \in Processes, q # p
          PROVE  \A i, j \in DOMAIN lock'[q] : lock'[q][i] = lock'[q][j] => i = j
        <3>1. lock'[q] = lock[q]
            BY <1>1, <2>2
        <3> QED  BY <3>1 DEF LocksOK
    <2> QED  BY <2>1, <2>2
<1>7. ASSUME NEW g \in Handlers, AtLock(g)'
      PROVE  \E i \in DOMAIN lock'[call'[g].proc] : lock'[call'[g].proc][i] = g
    <2>1. g # h /\ call'[g] = call[g] /\ AtLock(g) /\ call[g].proc \in Processes
        BY <1>7, InQueue DEF AtLock
    <2>2. PICK i \in DOMAIN lock[call[g].proc] : lock[call[g].proc][i] = g
        BY <2>1 DEF LocksOK, AtLock
    <2>3. CASE call[g].proc # p
        BY <1>1, <2>1, <2>2, <2>3
    <2>4. CASE call[g].proc = p
        <3>1. i # 1 /\ i - 1 \in DOMAIN lock'[p] /\ (i - 1) + 1 = i
            BY <1>1, <1>2, <2>1, <2>2, <2>4
        <3> QED  BY <1>2, <2>1, <2>2, <2>4, <3>1
    <2> QED  BY <2>3, <2>4
<1>8. ASSUME NEW g \in Handlers, call'[g].pc = "create", CreatesOK
      PROVE  /\ call'[g] = call[g] /\ call[g].proc # p /\ Head(lock'[call[g].proc]) = g
    <2>1. g # h /\ call'[g] = call[g] /\ call[g].proc \in Processes
        BY <1>8, InQueue DEF AtLock
    <2>2. Head(lock[call[g].proc]) = g
        BY <1>8, <2>1 DEF CreatesOK
    <2>3. call[g].proc # p
        BY <2>1, <2>2 DEF HasLock
    <2> QED  BY <1>1, <2>1, <2>2, <2>3
<1> QED  BY <1>5, <1>6, <1>7, <1>8 DEF LocksOK, AtLock

(* The lock and what it protects are kept by every step.                   *)
LEMMA LockStep ==
    ASSUME TypeOK, CallsOK, TypeOK', CallsOK', LockInv, [Next]_vars
    PROVE  LockInv'
<1>0. CoreTypes /\ CoreTypes' /\ LocksOK /\ CreatesOK /\ OneOpenPerProcess
    BY CoreTyped DEF LockInv
<1>1. UNCHANGED requests => \A r \in Open' : r \in Open /\ requests'[r].by = requests[r].by
    BY DEF Open
<1>2. ASSUME NEW h \in Handlers, NEW p \in Processes, NEW m \in Messages, Deliver(h, p, m)
      PROVE  LockInv'
    <2>1. /\ call[h].pc = "idle" /\ call'[h].pc = "mark"
          /\ \A g \in Handlers \ {h} : call'[g] = call[g]
        BY <1>0, <1>2 DEF Deliver, Running, CoreTypes
    <2> QED  BY <1>0, <1>1, <1>2, <2>1, QueueKept DEF Deliver, AtLock
<1>3. ASSUME NEW h \in Handlers,
             MarkRedis(h) \/ MarkLocal(h) \/ EnsureGroup(h) \/ SendMessage(h)
      PROVE  LockInv'
    <2>1. /\ UNCHANGED <<requests, lock>> /\ ~AtLock(h)
          /\ \/ \E pc \in {"check", "send", "sync"} : Goto(h, pc)
             \/ Ends(h)
        BY <1>3 DEF MarkRedis, MarkLocal, EnsureGroup, SendMessage, Running, AtLock, Answers
    <2>2. ~AtLock(h)' /\ \A g \in Handlers \ {h} : call'[g] = call[g]
        BY <1>0, <2>1, EndsType, GotoType DEF AtLock, CoreTypes, Places
    <2> QED  BY <1>0, <1>1, <2>1, <2>2, QueueKept
<1>4. ASSUME NEW h \in Handlers, Check(h) PROVE LockInv'
    <2>0. UNCHANGED requests /\ call[h].pc = "check" /\ ~AtLock(h) /\ call[h].proc \in Processes
        BY <1>4 DEF Check, Running, AtLock, CallsOK
    <2>1. CASE Answers(h) /\ UNCHANGED lock
        <3>1. ~AtLock(h)' /\ \A g \in Handlers \ {h} : call'[g] = call[g]
            BY <1>0, <2>1, EndsType DEF AtLock, CoreTypes, Answers
        <3> QED  BY <1>0, <1>1, <2>0, <2>1, <3>1, QueueKept
    <2>2. CASE lock' = [lock EXCEPT ![call[h].proc] = Append(@, h)] /\ Goto(h, "lock")
        <3> DEFINE p == call[h].proc
        <3>1. /\ call'[h].pc = "lock" /\ call'[h].proc = p
              /\ \A g \in Handlers \ {h} : call'[g] = call[g]
            BY <1>0, <2>2, GotoType DEF CoreTypes, Places
        <3>2. /\ lock'[p] = Append(lock[p], h) /\ \A q \in Processes \ {p} : lock'[q] = lock[q]
              /\ lock[p] \in Seq(Handlers) /\ Len(lock[p]) \in Nat
              /\ DOMAIN lock[p] = 1 .. Len(lock[p]) /\ DOMAIN lock'[p] = 1 .. Len(lock[p]) + 1
              /\ lock'[p][Len(lock[p]) + 1] = h
              /\ \A i \in DOMAIN lock[p] : lock'[p][i] = lock[p][i]
            BY <1>0, <2>0, <2>2 DEF CoreTypes
        <3>3. \A q \in Processes : \A i \in DOMAIN lock[q] : lock[q][i] \in Handlers \ {h}
            <4>1. \A q \in Processes : \A i \in DOMAIN lock[q] :
                    lock[q][i] \in Handlers /\ call[lock[q][i]].pc # "check"
                <5>1. \A q \in Processes : \A i \in DOMAIN lock[q] : lock[q][i] \in Handlers
                    BY <1>0 DEF CoreTypes
                <5> QED  BY <1>0, <5>1 DEF LocksOK
            <4> QED  BY <2>0, <4>1
        <3>4. \A q \in Processes : \A i \in DOMAIN lock'[q] :
                \/ i \in DOMAIN lock[q] /\ lock'[q][i] = lock[q][i]
                \/ q = p /\ i = Len(lock[p]) + 1 /\ lock'[q][i] = h
            <4>1. \A i \in DOMAIN lock'[p] : i \in DOMAIN lock[p] \/ i = Len(lock[p]) + 1
                BY <3>2
            <4> QED  BY <3>2, <4>1
        <3>5. \A q \in Processes : \A i \in DOMAIN lock'[q] :
                call'[lock'[q][i]].proc = q /\ call'[lock'[q][i]].pc \in {"lock", "create"}
            BY <1>0, <3>1, <3>3, <3>4 DEF LocksOK
        <3>6. \A q \in Processes : \A i, j \in DOMAIN lock'[q] : lock'[q][i] = lock'[q][j] => i = j
            BY <1>0, <3>3, <3>4 DEF LocksOK
        <3>7. \A q \in Processes : \A i \in DOMAIN lock[q] :
                i \in DOMAIN lock'[q] /\ lock'[q][i] = lock[q][i]
            BY <3>2
        <3>8. \A g \in Handlers : AtLock(g)' =>
                \E i \in DOMAIN lock'[call'[g].proc] : lock'[call'[g].proc][i] = g
            <4> SUFFICES ASSUME NEW g \in Handlers, AtLock(g)'
                         PROVE  \E i \in DOMAIN lock'[call'[g].proc] : lock'[call'[g].proc][i] = g
                OBVIOUS
            <4>1. CASE g = h
                BY <3>1, <3>2, <4>1
            <4>2. CASE g # h
                <5>1. call'[g] = call[g] /\ AtLock(g) /\ call[g].proc \in Processes
                    BY <1>0, <3>1, <4>2, InQueue DEF AtLock
                <5> QED  BY <1>0, <3>7, <5>1 DEF LocksOK, AtLock
            <4> QED  BY <4>1, <4>2
        <3>9. LocksOK'
            BY <3>5, <3>6, <3>8 DEF LocksOK, AtLock
        <3>10. \A g \in Handlers : call'[g].pc = "create" =>
                call'[g] = call[g] /\ Head(lock'[call[g].proc]) = Head(lock[call[g].proc])
            <4> SUFFICES ASSUME NEW g \in Handlers, call'[g].pc = "create"
                         PROVE  call'[g] = call[g] /\ Head(lock'[call[g].proc]) = Head(lock[call[g].proc])
                OBVIOUS
            <4>1. call'[g] = call[g]
                BY <3>1
            <4>2. call[g].proc \in Processes /\ lock[call[g].proc] # <<>>
                BY <1>0, <4>1, InQueue
            <4>3. lock'[call[g].proc] # <<>> /\ lock'[call[g].proc][1] = lock[call[g].proc][1]
                <5>1. lock[call[g].proc] \in Seq(Handlers) /\ lock'[call[g].proc] \in Seq(Handlers)
                    BY <1>0, <4>2 DEF CoreTypes
                <5>2. 1 \in DOMAIN lock[call[g].proc]
                    BY <4>2, <5>1
                <5>3. 1 \in DOMAIN lock'[call[g].proc]
                        /\ lock'[call[g].proc][1] = lock[call[g].proc][1]
                    BY <3>7, <4>2, <5>2
                <5> QED  BY <5>1, <5>3
            <4> QED  BY <1>0, <4>1, <4>2, <4>3 DEF CoreTypes
        <3>11. CreatesOK' /\ OneOpenPerProcess'
            BY <1>0, <1>1, <2>0, <3>10 DEF CreatesOK, OneOpenPerProcess
        <3> QED  BY <3>9, <3>11 DEF LockInv
    <2> QED  BY <1>4, <2>1, <2>2 DEF Check
<1>5. ASSUME NEW h \in Handlers, FindRequest(h) PROVE LockInv'
    <2>0. UNCHANGED requests /\ call[h].pc = "lock" /\ AtLock(h) /\ HasLock(h)
        BY <1>5 DEF FindRequest, Running, AtLock
    <2>1. CASE /\ call' = [call EXCEPT ![h].pc = "send", ![h].req = Found]
               /\ lock' = Unlocked(call[h].proc)
        <3>1. ~AtLock(h)' /\ \A g \in Handlers \ {h} : call'[g] = call[g]
            BY <1>0, <2>1 DEF AtLock, CoreTypes, CallType
        <3>2. /\ LocksOK'
              /\ \A g \in Handlers : call'[g].pc = "create" =>
                    call'[g] = call[g] /\ Head(lock'[call[g].proc]) = g
            BY <1>0, <2>0, <2>1, <3>1, HolderLeaves
        <3> QED  BY <1>0, <1>1, <2>0, <3>2 DEF LockInv, CreatesOK, OneOpenPerProcess
    <2>2. CASE ~IsFound(Found) /\ Goto(h, "create") /\ UNCHANGED lock
        <3>1. Open = {}
            BY <1>0, <2>2, FoundOpen
        <3>2. /\ call'[h].pc = "create" /\ call'[h].proc = call[h].proc
              /\ \A g \in Handlers \ {h} : call'[g] = call[g]
            BY <1>0, <2>2, GotoType DEF CoreTypes, Places
        <3>3. \A g \in Handlers : (AtLock(g) <=> AtLock(g)') /\ call'[g].proc = call[g].proc
            BY <2>0, <3>2 DEF AtLock
        <3>4. LocksOK'
            <4>1. \A p \in Processes : \A i \in DOMAIN lock[p] : lock[p][i] \in Handlers
                BY <1>0 DEF CoreTypes
            <4>2. UNCHANGED lock
                BY <2>2
            <4> QED  BY <1>0, <3>3, <4>1, <4>2 DEF LocksOK, AtLock
        <3>5. Open' = {}
            BY <2>0, <3>1 DEF Open
        <3>6. \A g \in Handlers : call'[g].pc = "create" => Head(lock'[call'[g].proc]) = g
            BY <1>0, <2>0, <2>2, <3>2 DEF CreatesOK, HasLock
        <3> QED  BY <3>4, <3>5, <3>6 DEF LockInv, CreatesOK, OneOpenPerProcess
    <2> QED  BY <1>5, <2>1, <2>2 DEF FindRequest
<1>6. ASSUME NEW h \in Handlers, CreateRequest(h) PROVE LockInv'
    <2> DEFINE p == call[h].proc
               n == Len(requests) + 1
    <2>0. call[h].pc = "create" /\ AtLock(h) /\ HasLock(h) /\ p \in Processes
        BY <1>0, <1>6, InQueue DEF CreateRequest, Running, AtLock, HasLock, CreatesOK
    <2>1. ~AtLock(h)' /\ \A g \in Handlers \ {h} : call'[g] = call[g]
        BY <1>0, <1>6 DEF CreateRequest, AtLock, CoreTypes, CallType
    <2>2. /\ LocksOK'
          /\ \A g \in Handlers : call'[g].pc = "create" =>
                call'[g] = call[g] /\ call[g].proc # p /\ Head(lock'[call[g].proc]) = g
        BY <1>0, <1>6, <2>0, <2>1, HolderLeaves DEF CreateRequest
    <2>3. /\ n \notin DOMAIN requests /\ DOMAIN requests' = DOMAIN requests \cup {n}
          /\ requests'[n].by = p /\ \A r \in DOMAIN requests : requests'[r] = requests[r]
        BY <1>0, <1>6 DEF CreateRequest, CoreTypes
    <2>4. \A r \in Open' : \/ r = n
                           \/ r \in Open /\ requests'[r] = requests[r]
        BY <2>3 DEF Open
    <2>5. \A r \in Open : requests[r].by # p
        BY <1>0, <2>0 DEF CreatesOK
    <2>6. OneOpenPerProcess'
        BY <1>0, <2>3, <2>4, <2>5 DEF OneOpenPerProcess
    <2>7. CreatesOK'
        BY <1>0, <2>2, <2>3, <2>4 DEF CreatesOK
    <2> QED  BY <2>2, <2>6, <2>7 DEF LockInv
<1>7. ASSUME NEW h \in Handlers, SyncLastMessage(h) PROVE LockInv'
    <2>1. /\ UNCHANGED lock /\ ~AtLock(h)
          /\ ~AtLock(h)' /\ \A g \in Handlers \ {h} : call'[g] = call[g]
        BY <1>0, <1>7, EndsType DEF SyncLastMessage, Running, AtLock, Answers, CoreTypes
    <2> QED  BY <1>0, <1>1, <1>7, <2>1, QueueKept DEF SyncLastMessage
<1>8. ASSUME NEW h \in Handlers, HandlerFails(h) PROVE LockInv'
    <2>1. /\ UNCHANGED requests /\ ~AtLock(h)' /\ \A g \in Handlers \ {h} : call'[g] = call[g]
        BY <1>0, <1>8, EndsType DEF HandlerFails, Fails, AtLock, CoreTypes
    <2>2. CASE ~AtLock(h) /\ UNCHANGED lock
        BY <1>0, <1>1, <2>1, <2>2, QueueKept
    <2>3. CASE AtLock(h) /\ HasLock(h) /\ lock' = Unlocked(call[h].proc)
        <3>1. /\ LocksOK'
              /\ \A g \in Handlers : call'[g].pc = "create" =>
                    call'[g] = call[g] /\ Head(lock'[call[g].proc]) = g
            BY <1>0, <2>1, <2>3, HolderLeaves
        <3> QED  BY <1>0, <1>1, <2>1, <3>1 DEF LockInv, CreatesOK, OneOpenPerProcess
    <2>4. Running(h, "create") => HasLock(h)
        BY <1>0 DEF Running, HasLock, CreatesOK
    <2> QED  BY <1>8, <2>2, <2>3, <2>4 DEF HandlerFails, Running, AtLock, UnlockedByFailure
<1>9. ASSUME NEW p \in Processes, Restart(p) PROVE LockInv'
    <2>1. /\ \A h \in Handlers : call[h].proc = p => ~AtLock(h)'
          /\ \A h \in Handlers : call[h].proc # p => call'[h] = call[h]
        BY <1>9, IdleType DEF Restart, AtLock
    <2>2. lock'[p] = <<>> /\ \A q \in Processes \ {p} : lock'[q] = lock[q]
        BY <1>0, <1>9 DEF Restart, CoreTypes
    <2>3. DOMAIN lock'[p] = {}
        BY <2>2
    <2>4. \A q \in Processes \ {p} : \A i \in DOMAIN lock[q] :
            lock[q][i] \in Handlers /\ call[lock[q][i]].proc = q /\ AtLock(lock[q][i])
        BY <1>0 DEF CoreTypes, LocksOK, AtLock
    <2>5. ASSUME NEW q \in Processes
          PROVE  /\ \A i \in DOMAIN lock'[q] :
                    call'[lock'[q][i]].proc = q /\ call'[lock'[q][i]].pc \in {"lock", "create"}
                 /\ \A i, j \in DOMAIN lock'[q] : lock'[q][i] = lock'[q][j] => i = j
        <3>1. CASE q = p
            BY <2>3, <3>1
        <3>2. CASE q # p
            <4>1. \A i \in DOMAIN lock[q] :
                    call'[lock[q][i]].proc = q /\ call'[lock[q][i]].pc \in {"lock", "create"}
                BY <2>1, <2>4, <3>2 DEF AtLock
            <4>2. lock'[q] = lock[q]
                BY <2>2, <3>2
            <4>3. \A i, j \in DOMAIN lock[q] : lock[q][i] = lock[q][j] => i = j
                BY <1>0 DEF LocksOK
            <4> QED  BY <4>1, <4>2, <4>3
        <3> QED  BY <3>1, <3>2
    <2>6. ASSUME NEW h \in Handlers, AtLock(h)'
          PROVE  /\ call'[h] = call[h] /\ call[h].proc \in Processes \ {p}
                 /\ \E i \in DOMAIN lock'[call[h].proc] : lock'[call[h].proc][i] = h
        <3>1. call'[h] = call[h] /\ AtLock(h) /\ call[h].proc \in Processes \ {p}
            BY <1>0, <2>1, <2>6, InQueue DEF AtLock
        <3> QED  BY <1>0, <2>2, <3>1 DEF LocksOK, AtLock
    <2>7. LocksOK'
        BY <2>5, <2>6 DEF LocksOK, AtLock
    <2>8. UNCHANGED requests
        BY <1>9 DEF Restart
    <2>9. CreatesOK' /\ OneOpenPerProcess'
        <3>1. ASSUME NEW h \in Handlers, call'[h].pc = "create"
              PROVE  /\ Head(lock'[call'[h].proc]) = h
                     /\ \A r \in Open' : requests'[r].by # call'[h].proc
            <4>1. call'[h] = call[h] /\ lock'[call[h].proc] = lock[call[h].proc]
                BY <2>2, <2>6, <3>1 DEF AtLock
            <4> QED  BY <1>0, <1>1, <2>8, <3>1, <4>1 DEF CreatesOK
        <3> QED  BY <1>0, <1>1, <2>8, <3>1 DEF CreatesOK, OneOpenPerProcess
    <2> QED  BY <2>7, <2>9 DEF LockInv
<1>10. ASSUME UNCHANGED <<call, lock>>,
              \A r \in Open' : r \in Open /\ requests'[r].by = requests[r].by
       PROVE  LockInv'
    BY <1>0, <1>10, QueueKept
<1>11. ASSUME NEW m \in Messages, MarkExpires(m) PROVE LockInv'
    BY <1>1, <1>10, <1>11 DEF MarkExpires
<1>12. ASSUME NEW r \in DOMAIN requests, ChatCreatesGroup(r) PROVE LockInv'
    BY <1>1, <1>10, <1>12 DEF ChatCreatesGroup
<1>13. ASSUME NEW r \in DOMAIN requests, CloseRequest(r) PROVE LockInv'
    <2>1. \A s \in Open' : s \in Open /\ requests'[s].by = requests[s].by
        BY <1>13 DEF CloseRequest, Open
    <2> QED  BY <1>10, <1>13, <2>1 DEF CloseRequest
<1>14. CASE UNCHANGED vars
    BY <1>1, <1>10, <1>14 DEF vars
<1> QED
    BY <1>2, <1>3, <1>4, <1>5, <1>6, <1>7, <1>8, <1>9, <1>11, <1>12, <1>13, <1>14 DEF Next, Steps

-----------------------------------------------------------------------------
(* What is answered is kept                                                *)

(* A step that marks and answers nothing new keeps the invariant if it     *)
(* loses no stored message, and no call past the mark without a failure.   *)
LEMMA KeptStays ==
    ASSUME CoreTypes, KeptOK, UNCHANGED stored, faulted \subseteq faulted',
           \A m \in Messages : Marked(m)' => Marked(m) \/ Kept(m)',
           \A m \in Messages : \A h \in Handlers : Past(h) /\ call[h].msg = m =>
              (Past(h)' /\ call'[h].msg = m) \/ Kept(m)',
           \A h \in Handlers : call'[h].pc = "sync" => call'[h] = call[h]
    PROVE  KeptOK'
<1>1. ASSUME NEW m \in Messages, Kept(m) PROVE Kept(m)'
    <2>1. CASE stored[m] # <<>> \/ m \in faulted
        BY <2>1 DEF Kept
    <2>2. ASSUME NEW h \in Handlers, Past(h), call[h].msg = m PROVE Kept(m)'
        <3>1. CASE Past(h)' /\ call'[h].msg = m
            BY <3>1 DEF Kept
        <3> QED  BY <2>2, <3>1
    <2> QED  BY <1>1, <2>1, <2>2 DEF Kept
<1>2. \A m \in Messages : Marked(m)' => Kept(m)'
    BY <1>1 DEF KeptOK
<1>3. \A h \in Handlers : call'[h].pc = "sync" => stored'[call'[h].msg] # <<>>
    BY DEF KeptOK
<1> QED  BY <1>2, <1>3 DEF KeptOK

(* A new mark belongs to the call that goes on past it (<1>2, <1>3), a     *)
(* repeat is answered because of an old one, or because of the stored      *)
(* message (<1>4), and a call that has stored its message may end (<1>7).  *)
LEMMA KeptStep ==
    ASSUME TypeOK, CallsOK, TypeOK', CallsOK', KeptOK, [Next]_vars
    PROVE  KeptOK'
<1>0. CoreTypes /\ CoreTypes'
    BY CoreTyped
<1>1. ASSUME NEW h \in Handlers, NEW p \in Processes, NEW m \in Messages, Deliver(h, p, m)
      PROVE  KeptOK'
    <2>1. /\ call[h].pc = "idle" /\ call'[h].pc = "mark"
          /\ \A g \in Handlers \ {h} : call'[g] = call[g]
        BY <1>0, <1>1 DEF Deliver, Running, CoreTypes
    <2>2. UNCHANGED <<stored, faulted>> /\ \A n \in Messages : Marked(n)' => Marked(n)
        BY <1>1 DEF Deliver, Marked
    <2> QED  BY <1>0, <2>1, <2>2, KeptStays DEF Past
<1>2. ASSUME NEW h \in Handlers, MarkRedis(h) PROVE KeptOK'
    <2>1. /\ UNCHANGED <<stored, faulted, localMarks>> /\ call[h].pc = "mark"
          /\ call[h].msg \in Messages
        BY <1>2 DEF MarkRedis, history, Running, CallsOK
    <2>2. CASE call[h].msg \in marks /\ Answers(h) /\ UNCHANGED marks
        <3>1. call'[h].pc = "idle" /\ \A g \in Handlers \ {h} : call'[g] = call[g]
            BY <1>0, <2>2, EndsType DEF Answers, CoreTypes
        <3>2. \A n \in Messages : Marked(n)' => Marked(n)
            BY <2>1, <2>2 DEF Marked, Answers
        <3> QED  BY <1>0, <2>1, <3>1, <3>2, KeptStays DEF Past
    <2>3. CASE marks' = marks \cup {call[h].msg} /\ Goto(h, "check") /\ UNCHANGED acked
        <3>1. /\ call'[h].pc = "check" /\ call'[h].msg = call[h].msg
              /\ \A g \in Handlers \ {h} : call'[g] = call[g]
            BY <1>0, <2>3, GotoType DEF CoreTypes, Places
        <3>2. \A n \in Messages : n = call[h].msg => Kept(n)'
            BY <3>1 DEF Kept, Past
        <3>3. \A n \in Messages : Marked(n)' => Marked(n) \/ Kept(n)'
            BY <2>1, <2>3, <3>2 DEF Marked
        <3> QED  BY <1>0, <2>1, <3>1, <3>3, KeptStays DEF Past
    <2> QED  BY <1>2, <2>2, <2>3 DEF MarkRedis
<1>3. ASSUME NEW h \in Handlers, MarkLocal(h) PROVE KeptOK'
    <2> DEFINE m == call[h].msg
               p == call[h].proc
    <2>1. /\ UNCHANGED <<stored, faulted>> /\ call[h].pc = "mark"
          /\ m \in Messages /\ p \in Processes
        BY <1>3 DEF MarkLocal, history, Running, CallsOK
    <2>2. /\ marks' \subseteq marks \cup {m}
          /\ \A q \in Processes : localMarks'[q] \subseteq localMarks[q] \cup {m}
        BY <1>3 DEF MarkLocal, TypeOK
    <2>3. CASE m \in localMarks[p] /\ Answers(h)
        <3>1. call'[h].pc = "idle" /\ \A g \in Handlers \ {h} : call'[g] = call[g]
            BY <1>0, <2>3, EndsType DEF Answers, CoreTypes
        <3>2. Marked(m) /\ acked' = acked \cup {m}
            BY <2>1, <2>3 DEF Marked, Answers
        <3>3. \A n \in Messages : Marked(n)' => Marked(n)
            BY <2>2, <3>2 DEF Marked
        <3> QED  BY <1>0, <2>1, <3>1, <3>3, KeptStays DEF Past
    <2>4. CASE Goto(h, "check") /\ UNCHANGED acked
        <3>1. /\ call'[h].pc = "check" /\ call'[h].msg = m
              /\ \A g \in Handlers \ {h} : call'[g] = call[g]
            BY <1>0, <2>4, GotoType DEF CoreTypes, Places
        <3>2. \A n \in Messages : n = m => Kept(n)'
            BY <3>1 DEF Kept, Past
        <3>3. \A n \in Messages : Marked(n)' => Marked(n) \/ Kept(n)'
            BY <2>2, <2>4, <3>2 DEF Marked
        <3> QED  BY <1>0, <2>1, <3>1, <3>3, KeptStays DEF Past
    <2> QED  BY <1>3, <2>3, <2>4 DEF MarkLocal
<1>4. ASSUME NEW h \in Handlers, Check(h) PROVE KeptOK'
    <2>1. /\ UNCHANGED <<stored, faulted, marks, localMarks>> /\ call[h].pc = "check"
        BY <1>4 DEF Check, history, Running
    <2>2. CASE stored[call[h].msg] # <<>> /\ Answers(h)
        <3>1. call'[h].pc = "idle" /\ \A g \in Handlers \ {h} : call'[g] = call[g]
            BY <1>0, <2>2, EndsType DEF Answers, CoreTypes
        <3>2. (\A n \in Messages : n = call[h].msg => Kept(n)') /\ acked' = acked \cup {call[h].msg}
            BY <2>1, <2>2 DEF Kept, Answers
        <3>3. \A n \in Messages : Marked(n)' => Marked(n) \/ Kept(n)'
            BY <2>1, <3>2 DEF Marked
        <3> QED  BY <1>0, <2>1, <3>1, <3>2, <3>3, KeptStays DEF Past
    <2>3. CASE Goto(h, "lock") /\ UNCHANGED acked
        <3>1. /\ call'[h].pc = "lock" /\ call'[h].msg = call[h].msg
              /\ \A g \in Handlers \ {h} : call'[g] = call[g]
            BY <1>0, <2>3, GotoType DEF CoreTypes, Places
        <3>2. \A n \in Messages : Marked(n)' => Marked(n)
            BY <2>1, <2>3 DEF Marked
        <3> QED  BY <1>0, <2>1, <3>1, <3>2, KeptStays DEF Past
    <2> QED  BY <1>4, <2>2, <2>3 DEF Check, IsStored
<1>5. ASSUME NEW h \in Handlers, FindRequest(h) \/ CreateRequest(h) \/ EnsureGroup(h)
      PROVE  KeptOK'
    <2>1. UNCHANGED <<stored, faulted, marks, localMarks, acked>>
        BY <1>5 DEF FindRequest, CreateRequest, EnsureGroup, history
    <2>2. /\ call'[h].pc \in {"create", "ensure", "send"} /\ call'[h].msg = call[h].msg
          /\ \A g \in Handlers \ {h} : call'[g] = call[g]
        BY <1>0, <1>5 DEF FindRequest, CreateRequest, EnsureGroup, Goto, CoreTypes, CallType
    <2>3. \A n \in Messages : Marked(n)' => Marked(n)
        BY <2>1 DEF Marked
    <2> QED  BY <1>0, <2>1, <2>2, <2>3, KeptStays DEF Past
<1>6. ASSUME NEW h \in Handlers, SendMessage(h) PROVE KeptOK'
    <2> DEFINE m == call[h].msg
    <2>1. /\ UNCHANGED <<faulted, marks, localMarks, acked>>
          /\ call[h].pc = "send" /\ m \in Messages /\ call[h].req \in DOMAIN requests
        BY <1>6 DEF SendMessage, history, Running, CallsOK
    <2>2. /\ call'[h].pc = "sync" /\ call'[h].msg = m
          /\ \A g \in Handlers \ {h} : call'[g] = call[g]
        BY <1>0, <1>6, GotoType DEF CoreTypes, Places, SendMessage
    <2>3. stored'[m] # <<>> /\ \A n \in Messages \ {m} : stored'[n] = stored[n]
        <3>1. stored'[m] = Append(stored[m], call[h].req) /\ stored[m] \in Seq(Requests)
                /\ \A n \in Messages \ {m} : stored'[n] = stored[n]
            BY <1>0, <1>6, <2>1 DEF SendMessage, CoreTypes
        <3>2. Len(stored'[m]) = Len(stored[m]) + 1 /\ Len(stored[m]) \in Nat
            BY <3>1
        <3> QED  BY <3>1, <3>2
    <2>4. ASSUME NEW n \in Messages, Marked(n)' PROVE Kept(n)'
        <3>1. CASE n = m
            BY <2>3, <3>1 DEF Kept
        <3>2. CASE n # m
            <4>1. Kept(n)
                BY <2>1, <2>4 DEF KeptOK, Marked
            <4>2. \A g \in Handlers : Past(g) /\ call[g].msg = n => Past(g)' /\ call'[g].msg = n
                BY <2>2, <3>2 DEF Past
            <4> QED  BY <2>1, <2>3, <3>2, <4>1, <4>2 DEF Kept
        <3> QED  BY <3>1, <3>2
    <2>5. ASSUME NEW g \in Handlers, call'[g].pc = "sync" PROVE stored'[call'[g].msg] # <<>>
        <3>1. CASE call'[g].msg = m
            BY <2>3, <3>1
        <3>2. CASE call'[g].msg # m
            <4>1. g # h /\ call'[g] = call[g] /\ call[g].msg \in Messages
                BY <2>2, <2>5, <3>2 DEF CallsOK
            <4> QED  BY <2>3, <2>5, <3>2, <4>1 DEF KeptOK
        <3> QED  BY <3>1, <3>2
    <2> QED  BY <2>4, <2>5 DEF KeptOK
<1>7. ASSUME NEW h \in Handlers, SyncLastMessage(h) PROVE KeptOK'
    <2>1. /\ UNCHANGED <<stored, faulted, marks, localMarks>>
          /\ acked' = acked \cup {call[h].msg} /\ stored[call[h].msg] # <<>>
        BY <1>7 DEF SyncLastMessage, Answers, history, Running, KeptOK
    <2>2. call'[h].pc = "idle" /\ \A g \in Handlers \ {h} : call'[g] = call[g]
        BY <1>0, <1>7, EndsType DEF SyncLastMessage, Answers, CoreTypes
    <2>3. \A n \in Messages : n = call[h].msg => Kept(n)'
        BY <2>1 DEF Kept
    <2>4. \A n \in Messages : Marked(n)' => Marked(n) \/ Kept(n)'
        BY <2>1, <2>3 DEF Marked
    <2> QED  BY <1>0, <2>1, <2>2, <2>3, <2>4, KeptStays DEF Past
<1>8. ASSUME NEW h \in Handlers, HandlerFails(h) PROVE KeptOK'
    <2>1. /\ UNCHANGED <<stored, marks, localMarks, acked>>
          /\ faulted' = faulted \cup {call[h].msg}
        BY <1>8 DEF HandlerFails, Fails
    <2>2. call'[h].pc = "idle" /\ \A g \in Handlers \ {h} : call'[g] = call[g]
        BY <1>0, <1>8, EndsType DEF HandlerFails, Fails, CoreTypes
    <2>3. \A n \in Messages : n = call[h].msg => Kept(n)'
        BY <2>1 DEF Kept
    <2>4. \A n \in Messages : Marked(n)' => Marked(n)
        BY <2>1 DEF Marked
    <2> QED  BY <1>0, <2>1, <2>2, <2>3, <2>4, KeptStays DEF Past
<1>9. ASSUME NEW p \in Processes, Restart(p) PROVE KeptOK'
    <2>1. /\ UNCHANGED <<stored, marks, acked>> /\ faulted \subseteq faulted'
          /\ \A q \in Processes : localMarks'[q] \subseteq localMarks[q]
        BY <1>9 DEF Restart, TypeOK
    <2>2. \A h \in Handlers : \/ call'[h].pc = "idle" /\ call[h].msg \in faulted'
                             \/ call'[h] = call[h]
        BY <1>9, IdleType DEF Restart
    <2>3. \A n \in Messages : (Marked(n)' => Marked(n)) /\ (n \in faulted' => Kept(n)')
        BY <2>1 DEF Marked, Kept
    <2>4. \A n \in Messages : \A h \in Handlers : Past(h) /\ call[h].msg = n =>
            (Past(h)' /\ call'[h].msg = n) \/ Kept(n)'
        BY <2>2, <2>3 DEF Past
    <2>5. \A h \in Handlers : call'[h].pc = "sync" => call'[h] = call[h]
        BY <2>2
    <2> QED  BY <1>0, <2>1, <2>3, <2>4, <2>5, KeptStays
<1>10. ASSUME UNCHANGED <<call, stored, faulted, localMarks, acked>>, marks' \subseteq marks
       PROVE  KeptOK'
    <2>1. \A n \in Messages : Marked(n)' => Marked(n)
        BY <1>10 DEF Marked
    <2> QED  BY <1>0, <1>10, <2>1, KeptStays DEF Past
<1>11. ASSUME NEW m \in Messages, MarkExpires(m) PROVE KeptOK'
    BY <1>10, <1>11 DEF MarkExpires, history
<1>12. ASSUME NEW r \in DOMAIN requests, ChatCreatesGroup(r) \/ CloseRequest(r) PROVE KeptOK'
    BY <1>10, <1>12 DEF ChatCreatesGroup, CloseRequest, history
<1>13. CASE UNCHANGED vars
    BY <1>10, <1>13 DEF vars, history
<1> QED
    BY <1>1, <1>2, <1>3, <1>4, <1>5, <1>6, <1>7, <1>8, <1>9, <1>11, <1>12, <1>13 DEF Next, Steps

-----------------------------------------------------------------------------
(* Theorems                                                                *)

(* The invariant holds of every reachable state.                           *)
THEOREM Invariant == Spec => []IInv
<1>1. Init => IInv
    <2> SUFFICES ASSUME Init PROVE IInv
        OBVIOUS
    <2>1. /\ requests = <<>> /\ DOMAIN requests = {} /\ Len(requests) = 0 /\ Open = {}
          /\ \A h \in Handlers : call[h] = Idle /\ call[h].pc = "idle"
          /\ \A m \in Messages : stored[m] = <<>> /\ DOMAIN stored[m] = {} /\ Len(stored[m]) = 0
          /\ \A p \in Processes : lock[p] = <<>> /\ DOMAIN lock[p] = {}
        BY IdleType DEF Init, Open
    <2>2. TypeOK
        BY IdleType DEF Init, TypeOK, CallType
    <2>3. BoundOK
        <3>1. Early = {}
            BY <2>1 DEF Early, EarlyPlaces
        <3>2. IsFiniteSet(Early) /\ Cardinality(Early) = 0
            BY <3>1, FS_EmptySet
        <3> QED  BY <2>1, <3>2, CasezapAssumption DEF BoundOK, Init
    <2>4. CallsOK /\ LocksOK /\ CreatesOK /\ OneOpenPerProcess
        BY <2>1 DEF CallsOK, LocksOK, CreatesOK, OneOpenPerProcess
    <2>5. MarksOK /\ StoredOnce
        BY <2>1 DEF MarksOK, StoredOnce, Past
    <2>6. KeptOK
        BY <2>1 DEF KeptOK, Marked, Init
    <2> QED  BY <2>2, <2>3, <2>4, <2>5, <2>6 DEF IInv
<1>2. IInv /\ [Next]_vars => IInv'
    <2> SUFFICES ASSUME IInv, [Next]_vars PROVE IInv'
        OBVIOUS
    <2>1. TypeOK' /\ CallsOK' /\ BoundOK'
        BY TypeStep DEF IInv
    <2>2. MarksOK' /\ StoredOnce'
        BY <2>1, StoreStep DEF IInv
    <2>3. LockInv'
        BY <2>1, LockStep DEF IInv, LockInv
    <2>4. KeptOK'
        BY <2>1, KeptStep DEF IInv
    <2> QED  BY <2>1, <2>2, <2>3, <2>4 DEF IInv, LockInv
<1> QED  BY <1>1, <1>2, PTL DEF Spec

(* Types, for any number of calls in flight.                               *)
THEOREM TypeCorrect == Spec => []TypeOK
<1>1. IInv => TypeOK
    BY DEF IInv
<1> QED  BY <1>1, Invariant, PTL

(* While Redis answers, a message is stored once: the mark of a call in    *)
(* flight keeps every other delivery of its message out, on any replica,   *)
(* and when the mark is gone the stored message does.                      *)
THEOREM MessageStoredOnce == Spec => []StoredOnce
<1>1. IInv => StoredOnce
    BY DEF IInv
<1> QED  BY <1>1, Invariant, PTL

(* No process opens a second conversation of the contact: what the search  *)
(* under the lock found is still so when the conversation is created.      *)
THEOREM OneConversation == Spec => []OneOpenPerProcess
<1>1. IInv => OneOpenPerProcess
    BY DEF IInv
<1> QED  BY <1>1, Invariant, PTL

(* An answer of 200 does not lose a message: when it is given the message  *)
(* is stored or a call past the mark has it, and no step but a failure of  *)
(* that call changes this.                                                 *)
THEOREM AnsweredStored == Spec => []AnsweredIsStored
<1>1. IInv => AnsweredIsStored
    <2> SUFFICES ASSUME IInv, NEW m \in acked \ faulted
                 PROVE  stored[m] # <<>> \/ \E h \in Handlers : call[h].msg = m /\ ~Running(h, "mark")
        BY DEF AnsweredIsStored
    <2>1. m \in Messages
        BY DEF IInv, TypeOK
    <2> QED  BY <2>1 DEF IInv, KeptOK, Marked, Kept, Past, Running
<1> QED  BY <1>1, Invariant, PTL
=============================================================================
