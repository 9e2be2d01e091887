--------------------------- MODULE VictorOrderProofs ---------------------------
(***************************************************************************)
(* Proofs about VictorOrder for every set of messages, fields and places   *)
(* of calls, however often messages are handled and handlers stop.         *)
(***************************************************************************)
EXTENDS VictorOrder, TLAPS

-----------------------------------------------------------------------------
(* The inductive invariant                                                 *)

\* A call handles the kind of message its step is about, with a request it loaded.
KindsOK ==
    /\ \A c \in Callers : Running(c, "store") => call[c].msg \in Inbound
    /\ \A c \in Callers : Running(c, "customer") => call[c].msg \in Customer
    /\ \A c \in Callers : call[c].pc \in {"quote", "manualShopee", "claimQuote"} =>
        call[c].msg \in Quotes
    /\ \A c \in Callers : ~Running(c, "idle") => call[c].doc \in LoadedType

\* A call that is about to tell the team of a message has counted it, alone
\* and for the first time.
OrdersOK ==
    /\ \A c \in Callers : Running(c, "tellOrder") =>
        /\ call[c].msg \in Customer \cap attributes.ids
        /\ told.order[call[c].msg] = 0
    /\ \A c, d \in Callers :
        Running(c, "tellOrder") /\ Running(d, "tellOrder") /\ call[c].msg = call[d].msg => c = d
    /\ \A m \in Customer : told.order[m] <= 1
    /\ \A m \in Customer : told.order[m] > 0 => m \in attributes.ids

\* States before a quote, and the steps of the call whose quote was taken.
Unquoted == {"none", "collecting_order", "awaiting_quote"}
Quoting(c) == call[c].pc \in {"tellQuote", "automation", "sendFree"}

\* Before a quote is taken nothing is told or sent of one; then one call is at it.
QuotesOK ==
    /\ attributes.state \in Unquoted =>
        told.quote = 0 /\ sent.free = 0 /\ \A c \in Callers : ~Quoting(c)
    /\ \A c, d \in Callers : Quoting(c) /\ Quoting(d) => c = d
    /\ \A c \in Callers : Quoting(c) => sent.free = 0
    /\ \A c \in Callers : Running(c, "tellQuote") => told.quote = 0
    /\ OneQuoteAnswered

\* The flags of the freight and of the prompt stand for one sender each.
FreightOK ==
    /\ \A c \in Callers : Running(c, "sendShopee") => attributes.shopee /\ sent.shopee = 0
    /\ \A c, d \in Callers : Running(c, "sendShopee") /\ Running(d, "sendShopee") => c = d
    /\ sent.shopee > 0 => attributes.shopee
    /\ \A c \in Callers : Running(c, "sendPrompt") => attributes.prompted /\ sent.prompt = 0
    /\ \A c, d \in Callers : Running(c, "sendPrompt") /\ Running(d, "sendPrompt") => c = d
    /\ sent.prompt > 0 => attributes.prompted
    /\ FreightSentOnce

\* What a call has read of the address was given and is never taken back.
AddressOK ==
    /\ \A c \in Callers : call[c].doc.given \subseteq attributes.given
    /\ AddressBeforeReceipt

\* States before the address is complete.
Addressless == Unquoted \cup {"awaiting_address"}

\* The team hears of the address and of the receipt from the call whose claim
\* left the state that waits for them.
NewsOK ==
    /\ attributes.state \in Addressless =>
        told.address = 0 /\ \A c \in Callers : ~Running(c, "tellAddress")
    /\ \A c, d \in Callers : Running(c, "tellAddress") /\ Running(d, "tellAddress") => c = d
    /\ \A c \in Callers : Running(c, "tellAddress") => told.address = 0
    /\ told.address <= 1
    /\ attributes.state # "receipt_review" =>
        told.receipt = 0 /\ \A c \in Callers : ~Running(c, "tellReceipt")
    /\ \A c, d \in Callers : Running(c, "tellReceipt") /\ Running(d, "tellReceipt") => c = d
    /\ \A c \in Callers : Running(c, "tellReceipt") => told.receipt = 0
    /\ told.receipt <= 1

IInv ==
    /\ TypeOK
    /\ KindsOK
    /\ NewsOK
    /\ OrdersOK
    /\ QuotesOK
    /\ FreightOK
    /\ AddressOK

-----------------------------------------------------------------------------
(* Types                                                                   *)

\* What call holds at one place.
CallType == [pc : Places, msg : Inbound \cup {NoMessage}, doc : LoadedType \cup {Nothing}]
CallsOK == call \in [Callers -> CallType]

(* A conversation without messages satisfies the invariant.                *)
LEMMA IInvInit == Init => IInv
<1> SUFFICES ASSUME Init PROVE IInv
    OBVIOUS
<1>1. TypeOK
    BY OrderAssumption DEF Init, TypeOK, NewAttributes, AttributesType, States, Idle, Places
<1>2. KindsOK /\ OrdersOK
    BY DEF Init, KindsOK, OrdersOK, Running, Idle
<1>3. QuotesOK /\ FreightOK
    BY DEF Init, QuotesOK, FreightOK, Running, Idle, Quoting, OneQuoteAnswered, FreightSentOnce,
           NewAttributes
<1>4. AddressOK
    BY DEF Init, AddressOK, AddressBeforeReceipt, Idle, Nothing, NewAttributes
<1>5. NewsOK
    BY DEF Init, NewsOK, Running, Idle, NewAttributes
<1> QED  BY <1>1, <1>2, <1>3, <1>4, <1>5 DEF IInv

(* What is put at the place of a call is well typed, and the other places    *)
(* stay as they are.                                                       *)
LEMMA Moves ==
    ASSUME CallsOK, NEW c \in Callers
    PROVE  /\ \A next \in Places : Goto(c, next) =>
                /\ CallsOK'
                /\ call'[c] = [pc |-> next, msg |-> call[c].msg, doc |-> call[c].doc]
                /\ \A d \in Callers : d # c => call'[d] = call[d]
           /\ Ends(c) => CallsOK' /\ call'[c] = Idle /\ \A d \in Callers : d # c => call'[d] = call[d]
<1> USE DEF CallsOK, CallType
<1>1. Idle \in CallType
    BY DEF Idle, Places
<1>2. ASSUME NEW next \in Places, Goto(c, next)
      PROVE  /\ CallsOK'
             /\ call'[c] = [pc |-> next, msg |-> call[c].msg, doc |-> call[c].doc]
             /\ \A d \in Callers : d # c => call'[d] = call[d]
    BY <1>2 DEF Goto
<1>3. ASSUME Ends(c) PROVE CallsOK' /\ call'[c] = Idle /\ \A d \in Callers : d # c => call'[d] = call[d]
    BY <1>1, <1>3 DEF Ends
<1> QED  BY <1>2, <1>3

(* A call begins with the request as it is loaded.                         *)
LEMMA Beginnings ==
    ASSUME TypeOK, NEW c \in Callers, NEW next \in Places,
           NEW m \in Inbound \cup {NoMessage}, Begins(c, next, m)
    PROVE  /\ CallsOK'
           /\ call[c].pc = "idle"
           /\ call'[c] = [pc |-> next, msg |-> m, doc |-> Loaded]
           /\ \A d \in Callers : d # c => call'[d] = call[d]
<1>1. Loaded \in LoadedType
    BY DEF TypeOK, AttributesType, Loaded, LoadedType
<1> QED  BY <1>1 DEF TypeOK, CallsOK, CallType, Begins, Free, Running

(* A claim sets what it asked for and goes on, or changes nothing and ends. *)
LEMMA Claiming ==
    ASSUME CallsOK, attributes \in AttributesType,
           NEW c \in Callers, NEW granted, NEW new \in AttributesType, NEW next \in Places,
           Claims(c, granted, new, next)
    PROVE  /\ CallsOK' /\ attributes' \in AttributesType
           /\ \A d \in Callers : d # c => call'[d] = call[d]
           /\ \/ granted /\ attributes' = new
                 /\ call'[c] = [pc |-> next, msg |-> call[c].msg, doc |-> call[c].doc]
              \/ attributes' = attributes /\ call'[c] = Idle
BY Moves DEF Claims

(* What the claims set is well typed.                                      *)
LEMMA Claimed ==
    ASSUME TypeOK, NEW m \in Inbound \cup Prompts, NEW state \in States
    PROVE  /\ Ordered(m, state) \in AttributesType
           /\ \A free \in BOOLEAN : [Ordered(m, state) EXCEPT !.free = free] \in AttributesType
           /\ \A given \in SUBSET Fields : [Ordered(m, state) EXCEPT !.given = @ \cup given] \in AttributesType
           /\ [attributes EXCEPT !.shopee = TRUE] \in AttributesType
           /\ [attributes EXCEPT !.prompted = TRUE] \in AttributesType
BY DEF TypeOK, AttributesType, Ordered

(* Every step of a call is well typed.                                     *)
LEMMA TypeSteps ==
    ASSUME TypeOK, KindsOK, NEW c \in Callers, Steps(c)
    PROVE  TypeOK'
<1> USE OrderAssumption DEF Quiet, Bounds
<1>0. CallsOK
    BY DEF TypeOK, CallsOK, CallType
<1>1. CASE Stores(c)
    <2>1. "quote" \in Places /\ "customer" \in Places
        BY DEF Places
    <2>2. CallsOK'
        BY <1>0, <1>1, <2>1, Moves DEF Stores
    <2> QED  BY <1>1, <2>2 DEF Stores, TypeOK, CallsOK, CallType
<1>2. CASE CustomerClaims(c)
    <2>1. CallsOK' /\ attributes' \in AttributesType
        <3> DEFINE m == call[c].msg
                   complete == Missing(m, call[c].doc) = {}
        <3>1. m \in Customer
            BY <1>2 DEF CustomerClaims, KindsOK
        <3>2. \A next \in {"awaiting_receipt", "awaiting_address", "receipt_review", "awaiting_quote"} :
                Ordered(m, next) \in AttributesType
            BY <3>1, Claimed DEF States, Inbound
        <3>3. ASSUME m \in Texts
              PROVE  [Ordered(m, IF complete THEN "awaiting_receipt" ELSE "awaiting_address")
                        EXCEPT !.given = @ \cup TextFields[m]] \in AttributesType
            BY <3>1, <3>3, Claimed DEF States, Inbound
        <3>4. {"tellAddress", "askAddress", "tellReceipt", "tellOrder"} \subseteq Places
            BY DEF Places
        <3> QED  BY <1>0, <1>2, <3>2, <3>3, <3>4, Moves DEF CustomerClaims, Claims, TypeOK
    <2> QED  BY <1>2, <2>1 DEF CustomerClaims, TypeOK, CallsOK, CallType
<1>3. CASE ConsidersQuote(c)
    <2>1. "manualShopee" \in Places /\ "claimQuote" \in Places
        BY DEF Places
    <2>2. CallsOK'
        BY <1>0, <1>3, <2>1, Moves DEF ConsidersQuote
    <2> QED  BY <1>3, <2>2 DEF ConsidersQuote, TypeOK, CallsOK, CallType
<1>4. CASE ClaimsManualShopee(c)
    <2>1. attributes' \in AttributesType
        BY <1>4 DEF ClaimsManualShopee, TypeOK, AttributesType
    <2> DEFINE doc == call[c].doc
               known == IF ShopeeFree(doc) THEN [doc EXCEPT !.shopee = TRUE] ELSE doc
    <2>2. doc \in LoadedType
        BY <1>4 DEF ClaimsManualShopee, KindsOK, Running
    <2>3. known \in LoadedType
        BY <2>2 DEF LoadedType
    <2>4. call' = [call EXCEPT ![c].pc = "claimQuote", ![c].doc = known]
        BY <1>4, Zenon DEF ClaimsManualShopee
    <2> HIDE DEF known
    <2>5. "claimQuote" \in Places
        BY DEF Places
    <2>6. CallsOK'
        BY <1>0, <2>3, <2>4, <2>5 DEF CallsOK, CallType
    <2>7. sent' \in [free : Nat, shopee : Nat, prompt : Nat]
        BY <1>4 DEF ClaimsManualShopee, TypeOK
    <2> QED  BY <1>4, <2>1, <2>6, <2>7 DEF ClaimsManualShopee, TypeOK, CallsOK, CallType
<1>5. CASE ClaimsQuote(c)
    <2>1. call[c].msg \in Quotes
        BY <1>5 DEF ClaimsQuote, KindsOK, Running
    <2>2. CallsOK' /\ attributes' \in AttributesType
        <3> DEFINE m == call[c].msg
                   free == m \in FreeQuotes
                   next == IF free THEN "awaiting_address" ELSE "awaiting_receipt"
        <3>1. [Ordered(m, next) EXCEPT !.free = free] \in AttributesType
            <4>1. free \in BOOLEAN /\ next \in States /\ m \in Inbound
                BY <2>1 DEF States, Inbound
            <4> HIDE DEF m, free, next
            <4> QED  BY <4>1, Claimed
        <3>2. "tellQuote" \in Places
            BY DEF Places
        <3> QED  BY <1>0, <1>5, <3>1, <3>2, Moves DEF ClaimsQuote, Claims, TypeOK
    <2> QED  BY <1>5, <2>2 DEF ClaimsQuote, TypeOK, CallsOK, CallType
<1>6. CASE ClaimsAutomation(c)
    <2>1. "sendFree" \in Places /\ "sendShopee" \in Places
        BY DEF Places
    <2>2. CallsOK' /\ attributes' \in AttributesType
        BY <1>0, <1>6, <2>1, Moves DEF ClaimsAutomation, Claims, TypeOK, AttributesType
    <2> QED  BY <1>6, <2>2 DEF ClaimsAutomation, TypeOK, CallsOK, CallType
<1>7. CASE ClaimsAddressPrompt(c)
    <2>1. "sendPrompt" \in Places
        BY DEF Places
    <2>2. CallsOK' /\ attributes' \in AttributesType
        BY <1>0, <1>7, <2>1, Moves DEF ClaimsAddressPrompt, Claims, TypeOK, AttributesType
    <2> QED  BY <1>7, <2>2 DEF ClaimsAddressPrompt, TypeOK, CallsOK, CallType
<1>8. CASE Notifies(c)
    <2>1. "automation" \in Places
        BY DEF Places
    <2>2. CallsOK'
        BY <1>0, <1>8, <2>1, Moves DEF Notifies, Notify
    <2>3. told' \in [order : [Customer -> Nat], quote : Nat, address : Nat, receipt : Nat]
        BY <1>8 DEF Notifies, Notify, TypeOK
    <2> QED  BY <1>8, <2>2, <2>3 DEF Notifies, TypeOK, CallsOK, CallType
<1>9. CASE Sends(c)
    <2>1. CallsOK'
        BY <1>0, <1>9, Moves DEF Sends
    <2>2. sent' \in [free : Nat, shopee : Nat, prompt : Nat]
        BY <1>9 DEF Sends, TypeOK
    <2> QED  BY <1>9, <2>1, <2>2 DEF Sends, TypeOK, CallsOK, CallType
<1>10. CASE ClaimsShopee(c)
    <2>1. "sendShopee" \in Places
        BY DEF Places
    <2>2. CallsOK' /\ attributes' \in AttributesType
        BY <1>0, <1>10, <2>1, Moves DEF ClaimsShopee, Claims, TypeOK, AttributesType
    <2> QED  BY <1>10, <2>2 DEF ClaimsShopee, TypeOK, CallsOK, CallType
<1> QED  BY <1>1, <1>2, <1>3, <1>4, <1>5, <1>6, <1>7, <1>8, <1>9, <1>10 DEF Steps

(* A step goes on to another place or ends; one also looks at the flag.      *)
LEMMA Goes ==
    ASSUME NEW c \in Callers, Steps(c)
    PROVE  \/ ClaimsManualShopee(c)
           \/ Ends(c)
           \/ \E next \in Places : Goto(c, next)
<1> USE DEF Places
<1>1. CASE Stores(c)
    BY <1>1 DEF Stores, Claims
<1>2. CASE CustomerClaims(c)
    BY <1>2 DEF CustomerClaims, Claims
<1>3. CASE ConsidersQuote(c)
    BY <1>3 DEF ConsidersQuote, Claims
<1>4. CASE ClaimsQuote(c)
    BY <1>4 DEF ClaimsQuote, Claims
<1>5. CASE ClaimsAutomation(c)
    BY <1>5 DEF ClaimsAutomation, Claims
<1>6. CASE ClaimsAddressPrompt(c)
    BY <1>6 DEF ClaimsAddressPrompt, Claims
<1>7. CASE Notifies(c)
    BY <1>7 DEF Notifies, Notify
<1>8. CASE Sends(c)
    BY <1>8 DEF Sends, Claims
<1>9. CASE ClaimsShopee(c)
    BY <1>9 DEF ClaimsShopee, Claims
<1> QED  BY <1>1, <1>2, <1>3, <1>4, <1>5, <1>6, <1>7, <1>8, <1>9 DEF Steps

(* A call that has begun keeps the message and the request it loaded until  *)
(* it ends, and the other calls stay as they are.                          *)
LEMMA Carries ==
    ASSUME TypeOK, NEW c \in Callers, Steps(c)
    PROVE  /\ \A d \in Callers : d # c => call'[d] = call[d]
           /\ call'[c].pc = "idle" \/ call'[c].msg = call[c].msg
           /\ call'[c].doc.given \subseteq call[c].doc.given
<1>0. CallsOK
    BY DEF TypeOK, CallsOK, CallType
<1>1. CASE ClaimsManualShopee(c)
    <2>1. call[c].doc \in LoadedType \cup {Nothing}
        BY <1>0 DEF CallsOK, CallType
    <2> DEFINE known == IF ShopeeFree(call[c].doc) THEN [call[c].doc EXCEPT !.shopee = TRUE]
                        ELSE call[c].doc
    <2>2. known.given = call[c].doc.given
        BY <2>1 DEF LoadedType, Nothing
    <2>3. call' = [call EXCEPT ![c].pc = "claimQuote", ![c].doc = known]
        BY <1>1, Zenon DEF ClaimsManualShopee
    <2> HIDE DEF known
    <2> QED  BY <1>0, <2>2, <2>3 DEF CallsOK, CallType
<1>2. CASE Ends(c)
    BY <1>0, <1>2, Moves DEF Idle, Nothing
<1>3. CASE \E next \in Places : Goto(c, next)
    <2>1. PICK next \in Places : Goto(c, next)
        BY <1>3
    <2>2. /\ call'[c] = [pc |-> next, msg |-> call[c].msg, doc |-> call[c].doc]
          /\ \A d \in Callers : d # c => call'[d] = call[d]
        BY <1>0, <2>1, Moves
    <2> QED  BY <2>2
<1> QED  BY <1>1, <1>2, <1>3, Goes

(* Where a step leads.                                                     *)
LEMMA Lands ==
    ASSUME TypeOK, NEW c \in Callers
    PROVE  /\ \A next : Goto(c, next) => call'[c].pc = next
           /\ Ends(c) => call'[c].pc = "idle"
           /\ ClaimsManualShopee(c) => call'[c].pc = "claimQuote"
<1>1. ASSUME NEW next, Goto(c, next) PROVE call'[c].pc = next
    BY <1>1 DEF TypeOK, Goto
<1>2. Ends(c) => call'[c].pc = "idle"
    BY DEF TypeOK, Ends, Idle
<1>3. ASSUME ClaimsManualShopee(c) PROVE call'[c].pc = "claimQuote"
    BY <1>3 DEF TypeOK, ClaimsManualShopee
<1> QED  BY <1>1, <1>2, <1>3

(* Only a call that has begun takes a step.                                *)
LEMMA Busy == ASSUME NEW c \in Callers, Steps(c) PROVE ~Running(c, "idle")
<1> USE DEF Running
<1>1. CASE Stores(c)
    BY <1>1 DEF Stores
<1>2. CASE CustomerClaims(c)
    BY <1>2 DEF CustomerClaims
<1>3. CASE ConsidersQuote(c)
    BY <1>3 DEF ConsidersQuote
<1>4. CASE ClaimsManualShopee(c)
    BY <1>4 DEF ClaimsManualShopee
<1>5. CASE ClaimsQuote(c)
    BY <1>5 DEF ClaimsQuote
<1>6. CASE ClaimsAutomation(c)
    BY <1>6 DEF ClaimsAutomation
<1>7. CASE ClaimsAddressPrompt(c)
    BY <1>7 DEF ClaimsAddressPrompt
<1>8. CASE Notifies(c)
    BY <1>8 DEF Notifies
<1>9. CASE Sends(c)
    BY <1>9 DEF Sends
<1>10. CASE ClaimsShopee(c)
    BY <1>10 DEF ClaimsShopee
<1> QED  BY <1>1, <1>2, <1>3, <1>4, <1>5, <1>6, <1>7, <1>8, <1>9, <1>10 DEF Steps

(* The request in hand stays one that was loaded.                          *)
LEMMA KeepsLoaded ==
    ASSUME TypeOK, KindsOK, NEW c \in Callers, Steps(c)
    PROVE  call'[c].pc # "idle" => call'[c].doc \in LoadedType
<1>0. CallsOK
    BY DEF TypeOK, CallsOK, CallType
<1>1. CASE ClaimsManualShopee(c)
    <2> DEFINE known == IF ShopeeFree(call[c].doc) THEN [call[c].doc EXCEPT !.shopee = TRUE]
                        ELSE call[c].doc
    <2>1. call[c].doc \in LoadedType
        BY <1>1 DEF ClaimsManualShopee, KindsOK, Running
    <2>2. known \in LoadedType
        BY <2>1 DEF LoadedType
    <2>3. call' = [call EXCEPT ![c].pc = "claimQuote", ![c].doc = known]
        BY <1>1, Zenon DEF ClaimsManualShopee
    <2> HIDE DEF known
    <2> QED  BY <1>0, <2>2, <2>3 DEF CallsOK, CallType
<1>2. CASE Ends(c)
    BY <1>0, <1>2, Moves DEF Idle
<1>3. CASE \E next \in Places : Goto(c, next)
    <2>1. PICK next \in Places : Goto(c, next)
        BY <1>3
    <2>2. call'[c] = [pc |-> next, msg |-> call[c].msg, doc |-> call[c].doc]
        BY <1>0, <2>1, Moves
    <2>3. ~Running(c, "idle")
        BY Busy
    <2> QED  BY <2>2, <2>3 DEF KindsOK
<1> QED  BY <1>1, <1>2, <1>3, Goes

(* What the claim of a quote changes.                                      *)
LEMMA QuoteClaimed ==
    ASSUME TypeOK, KindsOK, NEW c \in Callers, ClaimsQuote(c)
    PROVE  \/ attributes' = attributes /\ call'[c].pc = "idle"
           \/ /\ MayQuote(call[c].msg, call[c].doc)
              /\ call'[c].pc = "tellQuote"
              /\ attributes'.ids = attributes.ids \cup {call[c].msg}
              /\ attributes'.state = IF attributes'.free THEN "awaiting_address"
                                     ELSE "awaiting_receipt"
              /\ attributes'.given = attributes.given
              /\ attributes'.shopee = attributes.shopee
              /\ attributes'.prompted = attributes.prompted
<1> DEFINE free == call[c].msg \in FreeQuotes
           next == IF free THEN "awaiting_address" ELSE "awaiting_receipt"
           new == [Ordered(call[c].msg, next) EXCEPT !.free = free]
<1>1. Claims(c, MayQuote(call[c].msg, call[c].doc), new, "tellQuote")
    BY DEF ClaimsQuote
<1>2. /\ new.ids = attributes.ids \cup {call[c].msg}
      /\ new.state = IF new.free THEN "awaiting_address" ELSE "awaiting_receipt"
      /\ new.given = attributes.given
      /\ new.shopee = attributes.shopee
      /\ new.prompted = attributes.prompted
    <2>1. free \in BOOLEAN
        OBVIOUS
    <2> HIDE DEF free
    <2> QED  BY <2>1 DEF Ordered, TypeOK, AttributesType
<1> HIDE DEF new
<1> QED  BY <1>1, <1>2, Lands DEF Claims

(* What the claim of a customer's message changes: the order, the address  *)
(* or the receipt.                                                         *)
LEMMA CustomerClaimed ==
    ASSUME TypeOK, KindsOK, NEW c \in Callers, CustomerClaims(c)
    PROVE  \/ attributes' = attributes /\ call'[c].pc = "idle"
           \/ /\ Unseen(call[c].msg)
              /\ attributes'.ids = attributes.ids \cup {call[c].msg}
              /\ attributes'.free = attributes.free
              /\ attributes'.shopee = attributes.shopee
              /\ attributes'.prompted = attributes.prompted
              /\ \/ /\ MayOrder(call[c].msg)
                    /\ attributes'.state = "awaiting_quote"
                    /\ attributes'.given = attributes.given
                    /\ call'[c].pc = "tellOrder"
                 \/ /\ MayGiveAddress(call[c].msg)
                    /\ call[c].msg \in Texts
                    /\ attributes'.state = IF Missing(call[c].msg, call[c].doc) = {}
                                           THEN "awaiting_receipt" ELSE "awaiting_address"
                    /\ attributes'.given = attributes.given \cup TextFields[call[c].msg]
                    /\ call'[c].pc = IF attributes'.state = "awaiting_receipt"
                                     THEN "tellAddress" ELSE "askAddress"
                 \/ /\ MayReceive(call[c].msg)
                    /\ attributes'.state = "receipt_review"
                    /\ attributes'.given = attributes.given
                    /\ call'[c].pc = "tellReceipt"
<1> DEFINE m == call[c].msg
           complete == Missing(m, call[c].doc) = {}
           next == IF complete THEN "awaiting_receipt" ELSE "awaiting_address"
           address == [Ordered(m, next) EXCEPT !.given = @ \cup TextFields[m]]
<1>1. \A state : Ordered(m, state).ids = attributes.ids \cup {m}
              /\ Ordered(m, state).state = state
              /\ Ordered(m, state).free = attributes.free
              /\ Ordered(m, state).given = attributes.given
              /\ Ordered(m, state).shopee = attributes.shopee
              /\ Ordered(m, state).prompted = attributes.prompted
    BY DEF Ordered, TypeOK, AttributesType
<1>2. /\ address.ids = attributes.ids \cup {m}
      /\ address.state = next
      /\ address.free = attributes.free
      /\ address.given = attributes.given \cup TextFields[m]
      /\ address.shopee = attributes.shopee
      /\ address.prompted = attributes.prompted
    BY DEF Ordered, TypeOK, AttributesType
<1>3. \/ Ends(c) /\ attributes' = attributes
      \/ /\ m \in Texts /\ MayGiveAddress(m) /\ attributes' = address
         /\ Goto(c, IF complete THEN "tellAddress" ELSE "askAddress")
      \/ MayReceive(m) /\ attributes' = Ordered(m, "receipt_review") /\ Goto(c, "tellReceipt")
      \/ MayOrder(m) /\ attributes' = Ordered(m, "awaiting_quote") /\ Goto(c, "tellOrder")
    BY DEF CustomerClaims, Claims
<1>4. /\ MayGiveAddress(m) => Unseen(m)
      /\ MayReceive(m) => Unseen(m)
      /\ MayOrder(m) => Unseen(m)
    BY DEF MayGiveAddress, MayReceive, MayOrder
<1> HIDE DEF address
<1> QED  BY <1>1, <1>2, <1>3, <1>4, Lands

(* What a step may be about next.                                          *)
LEMMA KindsEffect ==
    ASSUME TypeOK, KindsOK, NEW c \in Callers, Steps(c)
    PROVE  /\ call'[c].pc # "store"
           /\ call'[c].pc = "customer" => call[c].msg \in Customer
           /\ call'[c].pc \in {"quote", "manualShopee", "claimQuote"} => call[c].msg \in Quotes
<1> USE Lands DEF Running, Claims, Quiet, Notify
<1>1. CASE Stores(c)
    BY <1>1 DEF Stores, KindsOK, Inbound
<1>2. CASE CustomerClaims(c)
    BY <1>2 DEF CustomerClaims, KindsOK, Inbound
<1>3. CASE ConsidersQuote(c)
    BY <1>3 DEF ConsidersQuote, KindsOK, Inbound
<1>4. CASE ClaimsManualShopee(c)
    BY <1>4 DEF ClaimsManualShopee, KindsOK, Inbound
<1>5. CASE ClaimsQuote(c)
    BY <1>5 DEF ClaimsQuote, KindsOK, Inbound
<1>6. CASE ClaimsAutomation(c)
    BY <1>6 DEF ClaimsAutomation, KindsOK, Inbound
<1>7. CASE ClaimsAddressPrompt(c)
    BY <1>7 DEF ClaimsAddressPrompt, KindsOK, Inbound
<1>8. CASE Notifies(c)
    BY <1>8 DEF Notifies, KindsOK, Inbound
<1>9. CASE Sends(c)
    BY <1>9 DEF Sends, KindsOK, Inbound
<1>10. CASE ClaimsShopee(c)
    BY <1>10 DEF ClaimsShopee, KindsOK, Inbound
<1> QED  BY <1>1, <1>2, <1>3, <1>4, <1>5, <1>6, <1>7, <1>8, <1>9, <1>10 DEF Steps

(* What a step does to the messages that are counted.                      *)
LEMMA OrdersEffect ==
    ASSUME TypeOK, KindsOK, NEW c \in Callers, Steps(c)
    PROVE  /\ attributes.ids \subseteq attributes'.ids
           /\ call'[c].pc = "tellOrder" =>
                /\ call[c].msg \in Customer \ attributes.ids
                /\ call[c].msg \in attributes'.ids
           /\ \/ told'.order = told.order
              \/ /\ call[c].pc = "tellOrder" /\ call'[c].pc = "idle"
                 /\ told'.order = [told.order EXCEPT ![call[c].msg] = @ + 1]
<1> USE Lands DEF Running, Claims, Quiet, Notify
<1>1. CASE Stores(c)
    BY <1>1 DEF Stores, TypeOK, AttributesType, KindsOK, Ordered, Unseen, MayOrder, MayGiveAddress, MayReceive, MayQuote
<1>2. CASE CustomerClaims(c)
    <2>1. told' = told /\ call[c].msg \in Customer
        BY <1>2 DEF CustomerClaims, KindsOK
    <2>2. \/ attributes' = attributes /\ call'[c].pc = "idle"
          \/ /\ call[c].msg \notin attributes.ids
             /\ attributes'.ids = attributes.ids \cup {call[c].msg}
        BY <1>2, CustomerClaimed DEF Unseen
    <2> QED  BY <2>1, <2>2
<1>3. CASE ConsidersQuote(c)
    BY <1>3 DEF ConsidersQuote, TypeOK, AttributesType, KindsOK, Ordered, Unseen, MayOrder, MayGiveAddress, MayReceive, MayQuote
<1>4. CASE ClaimsManualShopee(c)
    BY <1>4 DEF ClaimsManualShopee, TypeOK, AttributesType, KindsOK, Ordered, Unseen, MayOrder, MayGiveAddress, MayReceive, MayQuote
<1>5. CASE ClaimsQuote(c)
    <2>1. told' = told
        BY <1>5 DEF ClaimsQuote
    <2>2. attributes.ids \subseteq attributes'.ids /\ call'[c].pc # "tellOrder"
        BY <1>5, QuoteClaimed
    <2> QED  BY <2>1, <2>2
<1>6. CASE ClaimsAutomation(c)
    BY <1>6 DEF ClaimsAutomation, TypeOK, AttributesType, KindsOK, Ordered, Unseen, MayOrder, MayGiveAddress, MayReceive, MayQuote
<1>7. CASE ClaimsAddressPrompt(c)
    BY <1>7 DEF ClaimsAddressPrompt, TypeOK, AttributesType, KindsOK, Ordered, Unseen, MayOrder, MayGiveAddress, MayReceive, MayQuote
<1>8. CASE Notifies(c)
    <2>1. CASE Running(c, "tellOrder")
        <3>1. /\ Ends(c) /\ attributes' = attributes
              /\ told' \in {[told EXCEPT !.order[call[c].msg] = @ + 1], told}
            BY <1>8, <2>1 DEF Notifies
        <3>2. \/ told' = told
              \/ told'.order = [told.order EXCEPT ![call[c].msg] = @ + 1]
            BY <3>1 DEF TypeOK
        <3> QED  BY <2>1, <3>1, <3>2
    <2>2. CASE ~Running(c, "tellOrder")
        BY <1>8, <2>2 DEF Notifies, TypeOK
    <2> QED  BY <2>1, <2>2
<1>9. CASE Sends(c)
    BY <1>9 DEF Sends, TypeOK, AttributesType, KindsOK, Ordered, Unseen, MayOrder, MayGiveAddress, MayReceive, MayQuote
<1>10. CASE ClaimsShopee(c)
    BY <1>10 DEF ClaimsShopee, TypeOK, AttributesType, KindsOK, Ordered, Unseen, MayOrder, MayGiveAddress, MayReceive, MayQuote
<1> QED  BY <1>1, <1>2, <1>3, <1>4, <1>5, <1>6, <1>7, <1>8, <1>9, <1>10 DEF Steps

(* What a step does to the quotes that are told and answered.              *)
LEMMA QuotesEffect ==
    ASSUME TypeOK, KindsOK, NEW c \in Callers, Steps(c)
    PROVE  /\ (attributes.state \in Unquoted \/ attributes'.state \notin Unquoted)
           /\ Quoting(c)' /\ ~Quoting(c) =>
                /\ call'[c].pc = "tellQuote"
                /\ attributes.state \in Unquoted /\ attributes'.state \notin Unquoted
           /\ Quoting(c) /\ attributes' # attributes => attributes'.state = attributes.state
           /\ call'[c].pc = "tellQuote" => ~Quoting(c)
           /\ \/ told'.quote = told.quote
              \/ call[c].pc = "tellQuote" /\ told'.quote = told.quote + 1
           /\ \/ sent'.free = sent.free
              \/ call[c].pc = "sendFree" /\ call'[c].pc = "idle" /\ sent'.free = sent.free + 1
<1> USE Lands DEF Running, Claims, Quiet, Notify
<1>1. CASE Stores(c)
    BY <1>1 DEF Stores, TypeOK, AttributesType, KindsOK, Ordered, Unquoted, Quoting, MayOrder, MayGiveAddress, MayReceive, MayQuote
<1>2. CASE CustomerClaims(c)
    BY <1>2 DEF CustomerClaims, TypeOK, AttributesType, KindsOK, Ordered, Unquoted, Quoting, MayOrder, MayGiveAddress, MayReceive, MayQuote
<1>3. CASE ConsidersQuote(c)
    BY <1>3 DEF ConsidersQuote, TypeOK, AttributesType, KindsOK, Ordered, Unquoted, Quoting, MayOrder, MayGiveAddress, MayReceive, MayQuote
<1>4. CASE ClaimsManualShopee(c)
    BY <1>4 DEF ClaimsManualShopee, TypeOK, AttributesType, KindsOK, Ordered, Unquoted, Quoting, MayOrder, MayGiveAddress, MayReceive, MayQuote
<1>5. CASE ClaimsQuote(c)
    <2>1. told' = told /\ sent' = sent /\ call[c].pc = "claimQuote"
        BY <1>5 DEF ClaimsQuote
    <2>2. \/ attributes' = attributes /\ call'[c].pc = "idle"
          \/ /\ attributes.state \in Unquoted /\ attributes'.state \notin Unquoted
             /\ call'[c].pc = "tellQuote"
        BY <1>5, QuoteClaimed DEF MayQuote, Unquoted
    <2> QED  BY <2>1, <2>2 DEF Quoting
<1>6. CASE ClaimsAutomation(c)
    BY <1>6 DEF ClaimsAutomation, TypeOK, AttributesType, KindsOK, Ordered, Unquoted, Quoting, MayOrder, MayGiveAddress, MayReceive, MayQuote
<1>7. CASE ClaimsAddressPrompt(c)
    BY <1>7 DEF ClaimsAddressPrompt, TypeOK, AttributesType, KindsOK, Ordered, Unquoted, Quoting, MayOrder, MayGiveAddress, MayReceive, MayQuote
<1>8. CASE Notifies(c)
    BY <1>8 DEF Notifies, TypeOK, AttributesType, KindsOK, Ordered, Unquoted, Quoting, MayOrder, MayGiveAddress, MayReceive, MayQuote
<1>9. CASE Sends(c)
    BY <1>9 DEF Sends, TypeOK, AttributesType, KindsOK, Ordered, Unquoted, Quoting, MayOrder, MayGiveAddress, MayReceive, MayQuote
<1>10. CASE ClaimsShopee(c)
    BY <1>10 DEF ClaimsShopee, TypeOK, AttributesType, KindsOK, Ordered, Unquoted, Quoting, MayOrder, MayGiveAddress, MayReceive, MayQuote
<1> QED  BY <1>1, <1>2, <1>3, <1>4, <1>5, <1>6, <1>7, <1>8, <1>9, <1>10 DEF Steps

(* What a step does to the address and the receipt the team hears of.       *)
LEMMA NewsEffect ==
    ASSUME TypeOK, KindsOK, NEW c \in Callers, Steps(c)
    PROVE  /\ attributes.state \in Addressless \/ attributes'.state \notin Addressless
           /\ call'[c].pc = "tellAddress" =>
                attributes.state \in Addressless /\ attributes'.state \notin Addressless
           /\ \/ told'.address = told.address
              \/ /\ call[c].pc = "tellAddress" /\ call'[c].pc = "idle"
                 /\ told'.address = told.address + 1
           /\ attributes.state = "receipt_review" => attributes'.state = "receipt_review"
           /\ call'[c].pc = "tellReceipt" =>
                attributes.state # "receipt_review" /\ attributes'.state = "receipt_review"
           /\ \/ told'.receipt = told.receipt
              \/ /\ call[c].pc = "tellReceipt" /\ call'[c].pc = "idle"
                 /\ told'.receipt = told.receipt + 1
<1> USE Lands DEF Running, Claims, Quiet, Notify, Addressless, Unquoted
<1>1. CASE Stores(c)
    BY <1>1 DEF Stores, TypeOK, AttributesType
<1>2. CASE CustomerClaims(c)
    <2>1. told' = told
        BY <1>2 DEF CustomerClaims
    <2> QED  BY <1>2, <2>1, CustomerClaimed DEF MayOrder, MayGiveAddress, MayReceive
<1>3. CASE ConsidersQuote(c)
    BY <1>3 DEF ConsidersQuote, TypeOK, AttributesType
<1>4. CASE ClaimsManualShopee(c)
    BY <1>4 DEF ClaimsManualShopee, TypeOK, AttributesType
<1>5. CASE ClaimsQuote(c)
    <2>1. told' = told
        BY <1>5 DEF ClaimsQuote
    <2>2. \/ attributes' = attributes /\ call'[c].pc = "idle"
          \/ /\ attributes.state \in Unquoted /\ call'[c].pc = "tellQuote"
             /\ attributes'.state \in {"awaiting_address", "awaiting_receipt"}
        BY <1>5, QuoteClaimed DEF MayQuote
    <2> QED  BY <2>1, <2>2
<1>6. CASE ClaimsAutomation(c)
    BY <1>6 DEF ClaimsAutomation, TypeOK, AttributesType
<1>7. CASE ClaimsAddressPrompt(c)
    BY <1>7 DEF ClaimsAddressPrompt, TypeOK, AttributesType
<1>8. CASE Notifies(c)
    BY <1>8 DEF Notifies, TypeOK, AttributesType
<1>9. CASE Sends(c)
    BY <1>9 DEF Sends, TypeOK, AttributesType
<1>10. CASE ClaimsShopee(c)
    BY <1>10 DEF ClaimsShopee, TypeOK, AttributesType
<1> QED  BY <1>1, <1>2, <1>3, <1>4, <1>5, <1>6, <1>7, <1>8, <1>9, <1>10 DEF Steps

(* What a step does to the flags and to what they stand for.               *)
LEMMA FreightEffect ==
    ASSUME TypeOK, KindsOK, NEW c \in Callers, Steps(c)
    PROVE  /\ (attributes.shopee => attributes'.shopee)
           /\ (attributes.prompted => attributes'.prompted)
           /\ call'[c].pc = "sendShopee" => ~attributes.shopee /\ attributes'.shopee
           /\ call'[c].pc = "sendPrompt" => ~attributes.prompted /\ attributes'.prompted
           /\ \/ sent'.shopee = sent.shopee
              \/ /\ call[c].pc = "sendShopee" /\ call'[c].pc = "idle"
                 /\ sent'.shopee = sent.shopee + 1
              \/ /\ ~attributes.shopee /\ attributes'.shopee /\ call'[c].pc = "claimQuote"
                 /\ sent'.shopee = sent.shopee + 1
           /\ \/ sent'.prompt = sent.prompt
              \/ /\ call[c].pc = "sendPrompt" /\ call'[c].pc = "idle"
                 /\ sent'.prompt = sent.prompt + 1
<1> USE Lands DEF Running, Claims, Quiet, Notify
<1>1. CASE Stores(c)
    BY <1>1 DEF Stores, TypeOK, AttributesType, ShopeeFree
<1>2. CASE CustomerClaims(c)
    <2>1. sent' = sent
        BY <1>2 DEF CustomerClaims
    <2>2. /\ attributes'.shopee = attributes.shopee /\ attributes'.prompted = attributes.prompted
          /\ call'[c].pc \in {"idle", "tellOrder", "tellAddress", "askAddress", "tellReceipt"}
        BY <1>2, CustomerClaimed
    <2> QED  BY <2>1, <2>2
<1>3. CASE ConsidersQuote(c)
    BY <1>3 DEF ConsidersQuote, TypeOK, AttributesType, ShopeeFree
<1>4. CASE ClaimsManualShopee(c)
    BY <1>4 DEF ClaimsManualShopee, TypeOK, AttributesType, ShopeeFree
<1>5. CASE ClaimsQuote(c)
    <2>1. sent' = sent
        BY <1>5 DEF ClaimsQuote
    <2>2. /\ attributes'.shopee = attributes.shopee /\ attributes'.prompted = attributes.prompted
          /\ call'[c].pc \in {"idle", "tellQuote"}
        BY <1>5, QuoteClaimed
    <2> QED  BY <2>1, <2>2
<1>6. CASE ClaimsAutomation(c)
    BY <1>6 DEF ClaimsAutomation, TypeOK, AttributesType, ShopeeFree
<1>7. CASE ClaimsAddressPrompt(c)
    BY <1>7 DEF ClaimsAddressPrompt, TypeOK, AttributesType, ShopeeFree
<1>8. CASE Notifies(c)
    BY <1>8 DEF Notifies, TypeOK, AttributesType, ShopeeFree
<1>9. CASE Sends(c)
    BY <1>9 DEF Sends, TypeOK, AttributesType, ShopeeFree
<1>10. CASE ClaimsShopee(c)
    BY <1>10 DEF ClaimsShopee, TypeOK, AttributesType, ShopeeFree
<1> QED  BY <1>1, <1>2, <1>3, <1>4, <1>5, <1>6, <1>7, <1>8, <1>9, <1>10 DEF Steps

(* What a step does to the address that was given.                         *)
LEMMA AddressEffect ==
    ASSUME TypeOK, KindsOK, AddressOK, NEW c \in Callers, Steps(c)
    PROVE  /\ attributes.given \subseteq attributes'.given
           /\ AddressBeforeReceipt'
<1> USE Lands DEF Running, Claims, Quiet, Notify
<1>1. CASE Stores(c)
    BY <1>1 DEF Stores, TypeOK, AttributesType, AddressOK, AddressBeforeReceipt
<1>2. CASE CustomerClaims(c)
    <2> DEFINE m == call[c].msg
    <2>1. /\ call[c].doc.given \subseteq attributes.given
          /\ m \in Texts => TextFields[m] \subseteq Fields
          /\ attributes.given \subseteq Fields
        BY OrderAssumption DEF AddressOK, TypeOK, AttributesType
    <2>2. Missing(m, call[c].doc) = {} => Fields \subseteq call[c].doc.given \cup TextFields[m]
        BY DEF Missing
    <2>3. AddressBeforeReceipt
        BY DEF AddressOK
    <2> QED  BY <1>2, <2>1, <2>2, <2>3, CustomerClaimed
             DEF MayOrder, MayReceive, AddressBeforeReceipt
<1>3. CASE ConsidersQuote(c)
    BY <1>3 DEF ConsidersQuote, TypeOK, AttributesType, AddressOK, AddressBeforeReceipt
<1>4. CASE ClaimsManualShopee(c)
    BY <1>4 DEF ClaimsManualShopee, TypeOK, AttributesType, AddressOK, AddressBeforeReceipt
<1>5. CASE ClaimsQuote(c)
    <2>1. /\ attributes'.given = attributes.given
          /\ attributes' = attributes \/ (attributes'.free => attributes'.state = "awaiting_address")
        BY <1>5, QuoteClaimed
    <2> QED  BY <2>1 DEF AddressOK, AddressBeforeReceipt
<1>6. CASE ClaimsAutomation(c)
    BY <1>6 DEF ClaimsAutomation, TypeOK, AttributesType, AddressOK, AddressBeforeReceipt
<1>7. CASE ClaimsAddressPrompt(c)
    BY <1>7 DEF ClaimsAddressPrompt, TypeOK, AttributesType, AddressOK, AddressBeforeReceipt
<1>8. CASE Notifies(c)
    BY <1>8 DEF Notifies, TypeOK, AttributesType, AddressOK, AddressBeforeReceipt
<1>9. CASE Sends(c)
    BY <1>9 DEF Sends, TypeOK, AttributesType, AddressOK, AddressBeforeReceipt
<1>10. CASE ClaimsShopee(c)
    BY <1>10 DEF ClaimsShopee, TypeOK, AttributesType, AddressOK, AddressBeforeReceipt
<1> QED  BY <1>1, <1>2, <1>3, <1>4, <1>5, <1>6, <1>7, <1>8, <1>9, <1>10 DEF Steps

(* A call begins, or stops half way.                                       *)
Comes(c) == Arrives(c) \/ BotSendsShopee(c) \/ Stops(c)
LEMMA Begun ==
    ASSUME TypeOK, NEW c \in Callers, Comes(c)
    PROVE  /\ TypeOK'
           /\ attributes' = attributes /\ told' = told /\ sent' = sent
           /\ \A d \in Callers : d # c => call'[d] = call[d]
           /\ \/ call'[c] = Idle
              \/ /\ call'[c].pc \in {"store", "outboundShopee"}
                 /\ call'[c].doc = Loaded
                 /\ call'[c].pc = "store" => call'[c].msg \in Inbound
<1> USE OrderAssumption DEF Bounds
<1>0. CallsOK /\ {"store", "outboundShopee"} \subseteq Places
    BY DEF TypeOK, CallsOK, CallType, Places
<1>1. ASSUME Stops(c) PROVE call'[c] = Idle /\ CallsOK' /\ \A d \in Callers : d # c => call'[d] = call[d]
    BY <1>0, <1>1, Moves DEF Stops
<1>2. CASE Stops(c)
    BY <1>1, <1>2 DEF Stops, TypeOK, CallsOK, CallType
<1>3. CASE Arrives(c)
    <2>1. PICK m \in Inbound : Begins(c, "store", m)
        BY <1>3 DEF Arrives
    <2>2. CallsOK' /\ call'[c] = [pc |-> "store", msg |-> m, doc |-> Loaded]
          /\ \A d \in Callers : d # c => call'[d] = call[d]
        BY <1>0, <2>1, Beginnings
    <2> QED  BY <1>3, <2>2 DEF Arrives, TypeOK, CallsOK, CallType
<1>4. CASE BotSendsShopee(c)
    <2>1. CallsOK' /\ call'[c] = [pc |-> "outboundShopee", msg |-> NoMessage, doc |-> Loaded]
          /\ \A d \in Callers : d # c => call'[d] = call[d]
        BY <1>0, <1>4, Beginnings DEF BotSendsShopee
    <2> QED  BY <1>4, <2>1 DEF BotSendsShopee, TypeOK, CallsOK, CallType
<1> QED  BY <1>2, <1>3, <1>4 DEF Comes

(* The bot asks for the order.                                             *)
LEMMA Asked ==
    ASSUME TypeOK, NEW m \in Prompts, BotAsksOrder(m)
    PROVE  /\ TypeOK'
           /\ call' = call /\ told' = told /\ sent' = sent
           /\ attributes.state \in {"none", "collecting_order"}
           /\ attributes'.state = "collecting_order"
           /\ attributes.ids \subseteq attributes'.ids
           /\ attributes'.given = attributes.given
           /\ attributes'.shopee = attributes.shopee
           /\ attributes'.prompted = attributes.prompted
<1>1. attributes' \in AttributesType
    BY Claimed DEF BotAsksOrder, States
<1>2. UNCHANGED <<stored, call, told, sent, deliveries, faults>>
    BY DEF BotAsksOrder, Quiet, Bounds
<1>3. TypeOK'
    BY <1>1, <1>2 DEF TypeOK
<1>4. attributes' = Ordered(m, "collecting_order") /\ MayPrompt(m)
    BY DEF BotAsksOrder
<1> QED  BY <1>2, <1>3, <1>4 DEF MayPrompt, Ordered, TypeOK, AttributesType

(* The steps of the system, by what they can do to a part of the invariant. *)
LEMMA Moving ==
    ASSUME Next
    PROVE  \/ \E c \in Callers : Steps(c)
           \/ \E c \in Callers : Comes(c)
           \/ \E m \in Prompts : BotAsksOrder(m)
BY DEF Next, Comes

(* Every step is well typed.                                               *)
LEMMA TypeStep == ASSUME TypeOK, KindsOK, Next PROVE TypeOK'
BY TypeSteps, Begun, Asked, Moving

(* Messages are counted once.                                              *)
LEMMA OrdersStep == ASSUME IInv, Next PROVE OrdersOK'
<1>0. TypeOK /\ KindsOK /\ OrdersOK
    BY DEF IInv
<1>1. ASSUME NEW c \in Callers, Steps(c) PROVE OrdersOK'
    <2> USE DEF Running
    <2>0. /\ told.order \in [Customer -> Nat]
          /\ \A m \in Customer : told.order[m] # 0 => m \in attributes.ids
        BY <1>0 DEF TypeOK, OrdersOK
    <2>3. /\ attributes.ids \subseteq attributes'.ids
          /\ call'[c].pc = "tellOrder" =>
                /\ call[c].msg \in Customer \ attributes.ids
                /\ call'[c].msg = call[c].msg /\ call[c].msg \in attributes'.ids
          /\ \A d \in Callers : d # c => call'[d] = call[d]
        BY <1>0, <1>1, Carries, OrdersEffect
    <2>1. CASE told'.order = told.order
        <3>1. ASSUME NEW d \in Callers, call'[d].pc = "tellOrder"
              PROVE  /\ call'[d].msg \in Customer \cap attributes'.ids
                     /\ told.order[call'[d].msg] = 0
            <4>1. CASE d = c
                BY <2>0, <2>3, <3>1, <4>1
            <4>2. CASE d # c
                BY <1>0, <2>3, <3>1, <4>2 DEF OrdersOK
            <4> QED  BY <4>1, <4>2
        <3>2. ASSUME NEW d \in Callers, NEW e \in Callers, call'[d].pc = "tellOrder",
                     call'[e].pc = "tellOrder", call'[d].msg = call'[e].msg
              PROVE  d = e
            BY <1>0, <2>3, <3>2 DEF OrdersOK
        <3> QED  BY <1>0, <2>0, <2>1, <2>3, <3>1, <3>2 DEF OrdersOK
    <2>2. CASE told'.order # told.order
        <3> DEFINE m == call[c].msg
        <3>1. /\ call[c].pc = "tellOrder" /\ call'[c].pc = "idle"
              /\ told'.order = [told.order EXCEPT ![m] = @ + 1]
            BY <1>0, <1>1, <2>2, OrdersEffect
        <3>2. m \in Customer \cap attributes.ids /\ told.order[m] = 0
            BY <1>0, <3>1 DEF OrdersOK
        <3>3. /\ told'.order[m] = 1
              /\ \A n \in Customer : n # m => told'.order[n] = told.order[n]
            BY <2>0, <3>1, <3>2
        <3>4. \A d \in Callers : call'[d].pc = "tellOrder" =>
                d # c /\ call'[d] = call[d] /\ call[d].msg # m
            BY <1>0, <2>3, <3>1 DEF OrdersOK
        <3> QED  BY <1>0, <2>0, <2>3, <3>2, <3>3, <3>4 DEF OrdersOK
    <2> QED  BY <2>1, <2>2
<1>2. ASSUME NEW c \in Callers, Comes(c) PROVE OrdersOK'
    BY <1>0, <1>2, Begun DEF OrdersOK, Running, Idle
<1>3. ASSUME NEW m \in Prompts, BotAsksOrder(m) PROVE OrdersOK'
    BY <1>0, <1>3, Asked DEF OrdersOK, Running
<1> QED  BY <1>1, <1>2, <1>3, Moving

(* One quote is taken.                                                     *)
LEMMA QuotesStep == ASSUME IInv, Next PROVE QuotesOK'
<1>0. TypeOK /\ KindsOK /\ QuotesOK
    BY DEF IInv
<1>1. ASSUME NEW c \in Callers, Steps(c) PROVE QuotesOK'
    BY <1>0, <1>1, Carries, QuotesEffect DEF QuotesOK, Running, Quoting, OneQuoteAnswered, TypeOK
<1>2. ASSUME NEW c \in Callers, Comes(c) PROVE QuotesOK'
    BY <1>0, <1>2, Begun DEF QuotesOK, Running, Idle, Quoting, OneQuoteAnswered
<1>3. ASSUME NEW m \in Prompts, BotAsksOrder(m) PROVE QuotesOK'
    BY <1>0, <1>3, Asked DEF QuotesOK, Running, Quoting, Unquoted, OneQuoteAnswered
<1> QED  BY <1>1, <1>2, <1>3, Moving

(* The address and the receipt are told once.                              *)
LEMMA NewsStep == ASSUME IInv, Next PROVE NewsOK'
<1>0. TypeOK /\ KindsOK /\ NewsOK
    BY DEF IInv
<1>1. ASSUME NEW c \in Callers, Steps(c) PROVE NewsOK'
    <2>1. told.address \in Nat /\ told.receipt \in Nat
        BY <1>0 DEF TypeOK
    <2> QED  BY <1>0, <1>1, <2>1, Carries, NewsEffect DEF NewsOK, Running
<1>2. ASSUME NEW c \in Callers, Comes(c) PROVE NewsOK'
    BY <1>0, <1>2, Begun DEF NewsOK, Running, Idle
<1>3. ASSUME NEW m \in Prompts, BotAsksOrder(m) PROVE NewsOK'
    BY <1>0, <1>3, Asked DEF NewsOK, Running, Addressless, Unquoted
<1> QED  BY <1>1, <1>2, <1>3, Moving

(* The flags are set before what they stand for.                           *)
LEMMA FreightStep == ASSUME IInv, Next PROVE FreightOK'
<1>0. TypeOK /\ KindsOK /\ FreightOK
    BY DEF IInv
<1>1. ASSUME NEW c \in Callers, Steps(c) PROVE FreightOK'
    BY <1>0, <1>1, Carries, FreightEffect DEF FreightOK, Running, FreightSentOnce, TypeOK
<1>2. ASSUME NEW c \in Callers, Comes(c) PROVE FreightOK'
    BY <1>0, <1>2, Begun DEF FreightOK, Running, Idle, FreightSentOnce
<1>3. ASSUME NEW m \in Prompts, BotAsksOrder(m) PROVE FreightOK'
    BY <1>0, <1>3, Asked DEF FreightOK, Running, FreightSentOnce
<1> QED  BY <1>1, <1>2, <1>3, Moving

(* Calls are about the messages their steps are for.                       *)
LEMMA KindsStep == ASSUME IInv, Next PROVE KindsOK'
<1>0. TypeOK /\ KindsOK /\ TypeOK'
    BY TypeStep DEF IInv
<1>1. ASSUME NEW c \in Callers, Steps(c) PROVE KindsOK'
    <2>1. \A d \in Callers : call'[d].pc = "store" => call'[d].msg \in Inbound
        BY <1>0, <1>1, Carries, KindsEffect DEF KindsOK, Running
    <2>2. \A d \in Callers : call'[d].pc = "customer" => call'[d].msg \in Customer
        BY <1>0, <1>1, Carries, KindsEffect DEF KindsOK, Running
    <2>3. \A d \in Callers : call'[d].pc \in {"quote", "manualShopee", "claimQuote"} =>
            call'[d].msg \in Quotes
        BY <1>0, <1>1, Carries, KindsEffect DEF KindsOK, Running
    <2>4. \A d \in Callers : call'[d].pc # "idle" => call'[d].doc \in LoadedType
        BY <1>0, <1>1, Carries, KeepsLoaded DEF KindsOK, Running
    <2> QED  BY <2>1, <2>2, <2>3, <2>4 DEF KindsOK, Running
<1>2. ASSUME NEW c \in Callers, Comes(c) PROVE KindsOK'
    <2>1. Loaded \in LoadedType
        BY <1>0 DEF TypeOK, AttributesType, Loaded, LoadedType
    <2> QED  BY <1>0, <1>2, <2>1, Begun DEF KindsOK, Running, Idle
<1>3. ASSUME NEW m \in Prompts, BotAsksOrder(m) PROVE KindsOK'
    BY <1>0, <1>3, Asked DEF KindsOK, Running
<1> QED  BY <1>1, <1>2, <1>3, Moving

(* The address that was read was given.                                    *)
LEMMA AddressStep == ASSUME IInv, Next PROVE AddressOK'
<1>0. TypeOK /\ KindsOK /\ AddressOK
    BY DEF IInv
<1>1. ASSUME NEW c \in Callers, Steps(c) PROVE AddressOK'
    <2>1. \A d \in Callers : call'[d].doc.given \subseteq attributes'.given
        BY <1>0, <1>1, Carries, AddressEffect DEF AddressOK
    <2> QED  BY <1>0, <1>1, <2>1, AddressEffect DEF AddressOK
<1>2. ASSUME NEW c \in Callers, Comes(c) PROVE AddressOK'
    BY <1>0, <1>2, Begun DEF AddressOK, AddressBeforeReceipt, Idle, Nothing, Loaded
<1>3. ASSUME NEW m \in Prompts, BotAsksOrder(m) PROVE AddressOK'
    BY <1>0, <1>3, Asked DEF AddressOK, AddressBeforeReceipt
<1> QED  BY <1>1, <1>2, <1>3, Moving

-----------------------------------------------------------------------------
(* Theorems                                                                *)

(* A stutter changes nothing the invariant looks at.                       *)
LEMMA Stutters == ASSUME IInv, UNCHANGED vars PROVE IInv'
<1> USE DEF vars
<1>1. TypeOK' /\ KindsOK'
    BY DEF IInv, TypeOK, KindsOK, Running
<1>2. OrdersOK' /\ QuotesOK'
    BY DEF IInv, OrdersOK, QuotesOK, Running, Quoting, OneQuoteAnswered
<1>3. FreightOK' /\ AddressOK'
    BY DEF IInv, FreightOK, AddressOK, Running, FreightSentOnce, AddressBeforeReceipt
<1>4. NewsOK'
    BY DEF IInv, NewsOK, Running
<1> QED  BY <1>1, <1>2, <1>3, <1>4 DEF IInv

(* The inductive invariant holds in every state that calls, prompts and     *)
(* stops can reach.                                                        *)
THEOREM Invariant == Spec => []IInv
<1>1. ASSUME IInv, Next PROVE IInv'
    <2>1. TypeOK' /\ KindsOK'
        BY <1>1, TypeStep, KindsStep DEF IInv
    <2>2. OrdersOK' /\ QuotesOK' /\ NewsOK'
        BY <1>1, OrdersStep, QuotesStep, NewsStep
    <2>3. FreightOK' /\ AddressOK'
        BY <1>1, FreightStep, AddressStep
    <2> QED  BY <2>1, <2>2, <2>3 DEF IInv
<1>2. IInv /\ [Next]_vars => IInv'
    BY <1>1, Stutters
<1> QED  BY <1>2, IInvInit, PTL DEF Spec

(* Types: the state of the order and of every call is well formed, whatever  *)
(* handleInboundMessage and sendOutboundMessage do at the same time.       *)
THEOREM TypeCorrect == Spec => []TypeOK
<1>1. IInv => TypeOK
    BY DEF IInv
<1> QED  BY <1>1, Invariant, PTL

(* The team hears once of a customer's message, however often and at         *)
(* whatever state of the loaded request it is handled, and once of the       *)
(* address and of the receipt.                                             *)
THEOREM MessagesCountOnce == Spec => []MessageCountsOnce
<1>1. IInv => MessageCountsOnce
    BY DEF IInv, OrdersOK, NewsOK, MessageCountsOnce
<1> QED  BY <1>1, Invariant, PTL

(* Of all quotes, from the phone and from the dashboard, one is told and     *)
(* answered: claimVictorQuote decides.                                     *)
THEOREM OneQuote == Spec => []OneQuoteAnswered
<1>1. IInv => OneQuoteAnswered
    BY DEF IInv, QuotesOK
<1> QED  BY <1>1, Invariant, PTL

(* The freight flow and the prompt for the address go out once:             *)
(* claimCaseZapShopeeFlow and claimAddressPrompt decide.                   *)
THEOREM FreightOnce == Spec => []FreightSentOnce
<1>1. IInv => FreightSentOnce
    BY DEF IInv, FreightOK
<1> QED  BY <1>1, Invariant, PTL

(* With free freight the messages that were counted make a complete address  *)
(* before a receipt is awaited, though the address is checked on old copies. *)
THEOREM AddressFirst == Spec => []AddressBeforeReceipt
<1>1. IInv => AddressBeforeReceipt
    BY DEF IInv, AddressOK
<1> QED  BY <1>1, Invariant, PTL

(* The states in their order.                                              *)
LEMMA Ranks ==
    /\ Rank("none") = 0 /\ Rank("collecting_order") = 1 /\ Rank("awaiting_quote") = 2
    /\ Rank("awaiting_address") = 3 /\ Rank("awaiting_receipt") = 4
    /\ Rank("receipt_review") = 5
BY DEF Rank

(* What a step does to the order: every claim asks for a state that is not   *)
(* later than the one it sets.                                             *)
LEMMA Forward ==
    ASSUME IInv, NEW c \in Callers, Steps(c)
    PROVE  Rank(attributes'.state) >= Rank(attributes.state)
<1> USE Ranks
<1>0. TypeOK /\ KindsOK /\ attributes.state \in States
    BY DEF IInv, TypeOK, AttributesType
<1>1. CASE CustomerClaims(c)
    <2>1. \/ attributes'.state = attributes.state
          \/ /\ attributes.state \in {"collecting_order", "awaiting_quote"}
             /\ attributes'.state = "awaiting_quote"
          \/ /\ attributes.state = "awaiting_address"
             /\ attributes'.state \in {"awaiting_address", "awaiting_receipt"}
          \/ attributes.state = "awaiting_receipt" /\ attributes'.state = "receipt_review"
        BY <1>0, <1>1, CustomerClaimed DEF MayOrder, MayGiveAddress, MayReceive
    <2> QED  BY <1>0, <2>1 DEF States
<1>2. CASE ClaimsQuote(c)
    <2>1. \/ attributes'.state = attributes.state
          \/ /\ attributes.state \in {"none", "awaiting_quote"}
             /\ attributes'.state \in {"awaiting_address", "awaiting_receipt"}
        BY <1>0, <1>2, QuoteClaimed DEF MayQuote
    <2> QED  BY <1>0, <2>1 DEF States
<1>3. CASE ~CustomerClaims(c) /\ ~ClaimsQuote(c)
    <2>1. attributes'.state = attributes.state
        BY <1>0, <1>3 DEF Steps, Stores, ConsidersQuote, ClaimsManualShopee, ClaimsAutomation,
            ClaimsAddressPrompt, Notifies, Sends, ClaimsShopee, Claims, Quiet, TypeOK, AttributesType
    <2> QED  BY <1>0, <2>1 DEF States
<1> QED  BY <1>1, <1>2, <1>3

(* The order never goes back: no claim, made from whatever request was       *)
(* loaded, and no prompt of the bot, puts it into an earlier state.        *)
THEOREM MovesForward == Spec => OrderMovesForward
<1>1. ASSUME IInv, [Next]_vars PROVE [Rank(attributes'.state) >= Rank(attributes.state)]_vars
    <2>0. TypeOK /\ attributes.state \in States
        BY <1>1 DEF IInv, TypeOK, AttributesType
    <2>1. ASSUME NEW c \in Callers, Steps(c) PROVE Rank(attributes'.state) >= Rank(attributes.state)
        BY <1>1, <2>1, Forward
    <2>2. ASSUME NEW c \in Callers, Comes(c) PROVE Rank(attributes'.state) >= Rank(attributes.state)
        BY <2>0, <2>2, Begun DEF Rank, States
    <2>3. ASSUME NEW m \in Prompts, BotAsksOrder(m)
          PROVE Rank(attributes'.state) >= Rank(attributes.state)
        BY <2>0, <2>3, Asked DEF Rank
    <2> QED  BY <1>1, <2>1, <2>2, <2>3, Moving
<1> QED  BY <1>1, Invariant, PTL DEF Spec, OrderMovesForward
=============================================================================
