------------------------------ MODULE VictorOrder ------------------------------
(***************************************************************************)
(* The order automation of pubmodules/casezap/victorOrderAutomation for    *)
(* one conversation: the customer's messages and Victor's quotes reach     *)
(* handleInboundMessage with the request as it was loaded earlier, the     *)
(* bot's prompts reach it through sendOutboundMessage of connector.js, and *)
(* every change of the order is claimed by one findOneAndUpdate of         *)
(* request.attributes.  The claims of the customer's origin and of the     *)
(* handoff to a person have the form of claimAddressPrompt and are left    *)
(* out.                                                                    *)
(***************************************************************************)
EXTENDS Integers, FiniteSets

CONSTANTS
    Texts, Proofs,    \* messages of the customer: texts, images and files
    Quotes,           \* manual messages with the PIX key and an amount, typed
                      \* on the phone or in the dashboard
    FreeQuotes,       \* quotes above the free-freight threshold
    ShopeeQuotes,     \* quotes that mention the Shopee freight themselves
    Prompts,          \* messages of the bot that ask for the order
    Fields,           \* what a complete address has
    TextFields,       \* the fields each text has
    Callers,          \* bound: places of the calls being handled
    MaxDeliveries,    \* bound: messages handled, repeats included
    MaxFaults         \* bound: handlers that stop half way

Customer == Texts \cup Proofs
Inbound == Customer \cup Quotes
States == {"none", "collecting_order", "awaiting_quote", "awaiting_address",
           "awaiting_receipt", "receipt_review"}

ASSUME OrderAssumption ==
    /\ Texts \cap Proofs = {} /\ Customer \cap Quotes = {} /\ Inbound \cap Prompts = {}
    /\ FreeQuotes \subseteq Quotes /\ ShopeeQuotes \subseteq Quotes
    /\ TextFields \in [Texts -> SUBSET Fields] /\ Fields # {}
    /\ {MaxDeliveries, MaxFaults} \subseteq Nat

VARIABLES
    attributes,  \* request.attributes: the order and the flags beside it
    stored,      \* customer texts in the messages collection
    call,        \* calls in flight: step, message, and the request as loaded
    told,        \* what the team has heard of
    sent,        \* what the automation gave to be sent to the customer
    deliveries, faults

vars == <<attributes, stored, call, told, sent, deliveries, faults>>

NewAttributes ==
    [state |-> "none", ids |-> {}, free |-> FALSE, given |-> {}, prompted |-> FALSE,
     shopee |-> FALSE]
\* Mutant of Loaded: an order without a state is not told from no state.
LoadedUndefined ==
    [state |-> IF attributes.state = "none" THEN "undefined" ELSE attributes.state,
     given |-> attributes.given, shopee |-> attributes.shopee]
\* What a handler looks at in the request it loaded.
Loaded == [state |-> attributes.state, given |-> attributes.given,
           shopee |-> attributes.shopee]
Nothing == [state |-> "nothing", given |-> {}, shopee |-> FALSE]
NoMessage == "none"
Idle == [pc |-> "idle", msg |-> NoMessage, doc |-> Nothing]

Init ==
    /\ attributes = NewAttributes
    /\ stored = {}
    /\ call = [c \in Callers |-> Idle]
    /\ told = [order |-> [m \in Customer |-> 0], quote |-> 0, address |-> 0,
               receipt |-> 0]
    /\ sent = [free |-> 0, shopee |-> 0, prompt |-> 0]
    /\ deliveries = 0 /\ faults = 0

-----------------------------------------------------------------------------
(* Claims: a query on the stored attributes, and what it sets              *)

\* Mutant of Unseen: repeats are left to the webhook's own check.
UnseenAlways(m) == TRUE
\* buildIdClauses
Unseen(m) == m \notin attributes.ids
\* updateOrder
Ordered(m, state) == [attributes EXCEPT !.state = state, !.ids = @ \cup {m}]

\* Mutant of MayPrompt: a prompt starts a new order.
MayPromptAgain(m) == attributes.state # "awaiting_quote" /\ Unseen(m)
MayPrompt(m) == attributes.state \in {"none", "collecting_order"} /\ Unseen(m)
MayOrder(m) == attributes.state \in {"collecting_order", "awaiting_quote"} /\ Unseen(m)
\* Mutant of MayQuote: the state is looked at in the loaded request only.
MayQuoteLoaded(m, doc) == doc.state \in {"awaiting_quote", "none"} /\ Unseen(m)
MayQuote(m, doc) ==
    /\ attributes.state = "awaiting_quote" \/ (doc.state = "none" /\ attributes.state = "none")
    /\ Unseen(m)
MayGiveAddress(m) == attributes.state = "awaiting_address" /\ Unseen(m)
MayReceive(m) == attributes.state = "awaiting_receipt" /\ Unseen(m)

\* Mutant of Missing: what was missing is read back from the last check.
MissingOfLast(m, doc) == IF doc.given = {} THEN {} ELSE Fields \ TextFields[m]
\* validateCustomerAddress of the loaded messages and this one
Missing(m, doc) == Fields \ (doc.given \cup TextFields[m])

\* Mutant of ShopeeFree: only the loaded request is looked at.
ShopeeFreeLoaded(doc) == ~doc.shopee
\* claimCaseZapShopeeFlow
ShopeeFree(doc) == ~doc.shopee /\ ~attributes.shopee

-----------------------------------------------------------------------------
(* Calls                                                                   *)

Running(c, pc) == call[c].pc = pc
Free(c) == Running(c, "idle") /\ \A d \in Callers : d < c => ~Running(d, "idle")
Goto(c, pc) == call' = [call EXCEPT ![c].pc = pc]
Ends(c) == call' = [call EXCEPT ![c] = Idle]
Begins(c, pc, m) == Free(c) /\ call' = [call EXCEPT ![c] = [pc |-> pc, msg |-> m, doc |-> Loaded]]

\* The findOneAndUpdate finds the request, or the call is over.
Claims(c, granted, new, next) ==
    \/ granted /\ attributes' = new /\ Goto(c, next)
    \/ ~granted /\ Ends(c) /\ UNCHANGED attributes
Quiet == UNCHANGED <<told, sent>>
Bounds == <<deliveries, faults>>

\* handleWebhook, or an agent's message in the dashboard, has the request.
Arrives(c) ==
    /\ deliveries < MaxDeliveries
    /\ deliveries' = deliveries + 1
    /\ \E m \in Inbound : Begins(c, "store", m)
    /\ UNCHANGED <<attributes, stored, told, sent, faults>>

\* messageService.send
Stores(c) ==
    /\ Running(c, "store")
    /\ stored' = stored \cup ({call[c].msg} \cap Texts)
    /\ Goto(c, IF call[c].msg \in Quotes THEN "quote" ELSE "customer")
    /\ UNCHANGED attributes /\ Quiet /\ UNCHANGED Bounds

\* handleInboundMessage, fromMe false: the loaded state says what it is.
CustomerClaims(c) ==
    LET m == call[c].msg
        doc == call[c].doc
        complete == Missing(m, doc) = {} IN
    /\ Running(c, "customer")
    /\ CASE doc.state = "awaiting_address" /\ m \in Texts ->
                Claims(c, MayGiveAddress(m),
                       [Ordered(m, IF complete THEN "awaiting_receipt" ELSE "awaiting_address")
                            EXCEPT !.given = @ \cup TextFields[m]],
                       IF complete THEN "tellAddress" ELSE "askAddress")
         [] doc.state = "awaiting_receipt" /\ m \in Proofs ->
                Claims(c, MayReceive(m), Ordered(m, "receipt_review"), "tellReceipt")
         [] doc.state \in {"collecting_order", "awaiting_quote"} ->
                Claims(c, MayOrder(m), Ordered(m, "awaiting_quote"), "tellOrder")
         [] OTHER -> Ends(c) /\ UNCHANGED attributes
    /\ UNCHANGED stored /\ Quiet /\ UNCHANGED Bounds

\* fromMe true: the state, or no state and a customer's order in the messages.
ConsidersQuote(c) ==
    LET m == call[c].msg
        doc == call[c].doc IN
    /\ Running(c, "quote")
    /\ IF doc.state = "awaiting_quote" \/ (doc.state = "none" /\ stored # {})
       THEN Goto(c, IF m \in ShopeeQuotes THEN "manualShopee" ELSE "claimQuote")
       ELSE Ends(c)
    /\ UNCHANGED <<attributes, stored>> /\ Quiet /\ UNCHANGED Bounds
\* Victor sent the freight text: the automation must not send it again.
ClaimsManualShopee(c) ==
    /\ Running(c, "manualShopee")
    /\ attributes' = IF ShopeeFree(call[c].doc)
                     THEN [attributes EXCEPT !.shopee = TRUE] ELSE attributes
    /\ call' = [call EXCEPT ![c].pc = "claimQuote",
                    ![c].doc = IF ShopeeFree(@) THEN [@ EXCEPT !.shopee = TRUE] ELSE @]
    /\ sent' = [sent EXCEPT !.shopee = IF ShopeeFree(call[c].doc) THEN @ + 1 ELSE @]
    /\ UNCHANGED <<stored, told>> /\ UNCHANGED Bounds
\* claimVictorQuote
ClaimsQuote(c) ==
    LET m == call[c].msg
        free == m \in FreeQuotes IN
    /\ Running(c, "claimQuote")
    /\ Claims(c, MayQuote(m, call[c].doc),
              [Ordered(m, IF free THEN "awaiting_address" ELSE "awaiting_receipt")
                    EXCEPT !.free = free], "tellQuote")
    /\ UNCHANGED stored /\ Quiet /\ UNCHANGED Bounds

\* sendVictorAutomationToClient: free-freight messages are not claimed.
ClaimsAutomation(c) ==
    /\ Running(c, "automation")
    /\ IF call[c].msg \in FreeQuotes THEN Goto(c, "sendFree") /\ UNCHANGED attributes
       ELSE Claims(c, ShopeeFree(call[c].doc), [attributes EXCEPT !.shopee = TRUE],
                   "sendShopee")
    /\ UNCHANGED stored /\ Quiet /\ UNCHANGED Bounds

\* claimAddressPrompt
ClaimsAddressPrompt(c) ==
    /\ Running(c, "askAddress")
    /\ Claims(c, attributes.state = "awaiting_address" /\ ~attributes.prompted,
              [attributes EXCEPT !.prompted = TRUE], "sendPrompt")
    /\ UNCHANGED stored /\ Quiet /\ UNCHANGED Bounds

\* Mutant of Notify: a notification that reaches nobody ends the handler.
NotifyOrFail(c, new, next) ==
    \/ told' = new /\ IF next = "idle" THEN Ends(c) ELSE Goto(c, next)
    \/ Ends(c) /\ UNCHANGED told
\* notifyVictorNumbers: sends that fail are passed over; when they all fail
\* the team has not heard, and the handler goes on all the same.
Notify(c, new, next) ==
    /\ told' \in {new, told}
    /\ IF next = "idle" THEN Ends(c) ELSE Goto(c, next)
Notifies(c) ==
    /\ \/ /\ Running(c, "tellOrder")
          /\ Notify(c, [told EXCEPT !.order[call[c].msg] = @ + 1], "idle")
       \/ /\ Running(c, "tellQuote")
          /\ Notify(c, [told EXCEPT !.quote = @ + 1], "automation")
       \/ /\ Running(c, "tellAddress")
          /\ Notify(c, [told EXCEPT !.address = @ + 1], "idle")
       \/ /\ Running(c, "tellReceipt")
          /\ Notify(c, [told EXCEPT !.receipt = @ + 1], "idle")
    /\ UNCHANGED <<attributes, stored, sent>> /\ UNCHANGED Bounds

\* messageService.send and sendOutboundWithRetry: the message is part of the
\* conversation, whether or not the provider takes it.
Sends(c) ==
    /\ \/ Running(c, "sendFree") /\ sent' = [sent EXCEPT !.free = @ + 1]
       \/ Running(c, "sendShopee") /\ sent' = [sent EXCEPT !.shopee = @ + 1]
       \/ Running(c, "sendPrompt") /\ sent' = [sent EXCEPT !.prompt = @ + 1]
    /\ Ends(c)
    /\ UNCHANGED <<attributes, stored, told>> /\ UNCHANGED Bounds

-----------------------------------------------------------------------------
(* sendOutboundMessage: messages of the bot                                *)

\* markOrderPrompt
BotAsksOrder(m) ==
    /\ MayPrompt(m)
    /\ attributes' = Ordered(m, "collecting_order")
    /\ UNCHANGED <<stored, call>> /\ Quiet /\ UNCHANGED Bounds
\* A message of the bot with the Shopee freight: the request in hand may be old.
BotSendsShopee(c) ==
    /\ deliveries < MaxDeliveries
    /\ deliveries' = deliveries + 1
    /\ Begins(c, "outboundShopee", NoMessage)
    /\ UNCHANGED <<attributes, stored, told, sent, faults>>
ClaimsShopee(c) ==
    /\ Running(c, "outboundShopee")
    /\ Claims(c, ShopeeFree(call[c].doc), [attributes EXCEPT !.shopee = TRUE], "sendShopee")
    /\ UNCHANGED stored /\ Quiet /\ UNCHANGED Bounds

-----------------------------------------------------------------------------
Stops(c) ==
    /\ ~Running(c, "idle") /\ faults < MaxFaults
    /\ faults' = faults + 1
    /\ Ends(c)
    /\ UNCHANGED <<attributes, stored, told, sent, deliveries>>

Steps(c) ==
    \/ Stores(c) \/ CustomerClaims(c)
    \/ ConsidersQuote(c) \/ ClaimsManualShopee(c) \/ ClaimsQuote(c)
    \/ ClaimsAutomation(c) \/ ClaimsAddressPrompt(c)
    \/ Notifies(c) \/ Sends(c) \/ ClaimsShopee(c)

Next ==
    \/ \E c \in Callers : Arrives(c) \/ Steps(c) \/ BotSendsShopee(c) \/ Stops(c)
    \/ \E m \in Prompts : BotAsksOrder(m)

Spec == Init /\ [][Next]_vars
FairSpec == Spec /\ \A c \in Callers : WF_vars(Steps(c))

-----------------------------------------------------------------------------
(* Properties                                                              *)

AttributesType ==
    [state : States, ids : SUBSET (Inbound \cup Prompts), free : BOOLEAN,
     given : SUBSET Fields, prompted : BOOLEAN, shopee : BOOLEAN]
LoadedType == [state : States, given : SUBSET Fields, shopee : BOOLEAN]
Places ==
    {"idle", "store", "customer", "quote", "manualShopee", "claimQuote",
     "automation", "askAddress", "tellOrder", "tellQuote", "tellAddress",
     "tellReceipt", "sendFree", "sendShopee", "sendPrompt", "outboundShopee"}

\* Types.
TypeOK ==
    /\ attributes \in AttributesType /\ stored \subseteq Texts
    /\ call \in [Callers -> [pc : Places, msg : Inbound \cup {NoMessage},
                             doc : LoadedType \cup {Nothing}]]
    /\ told \in [order : [Customer -> Nat], quote : Nat, address : Nat, receipt : Nat]
    /\ sent \in [free : Nat, shopee : Nat, prompt : Nat]
    /\ {deliveries, faults} \subseteq Nat

\* A customer's message enters the order, and the team hears of it at most once,
\* however often and at whatever state it is handled; nor does the team hear
\* twice of the complete address or of the receipt.
MessageCountsOnce ==
    /\ \A m \in Customer : told.order[m] <= 1
    /\ told.address <= 1 /\ told.receipt <= 1

\* One quote is accepted, of all those that Victor types on the phone and in
\* the dashboard, and answered once.
OneQuoteAnswered == told.quote <= 1 /\ sent.free <= 1

\* The Shopee freight flow goes on once: with Victor's own text, with the bot's
\* or with the automation's, whichever claims it; and the customer is asked
\* once for what the address lacks.
FreightSentOnce == sent.shopee <= 1 /\ sent.prompt <= 1

\* With free freight nobody waits for a receipt, or reviews one, before the
\* messages that were counted make a complete address.
AddressBeforeReceipt ==
    attributes.free /\ attributes.state \in {"awaiting_receipt", "receipt_review"}
        => attributes.given = Fields

Rank(state) ==
    CASE state = "none" -> 0 [] state = "collecting_order" -> 1
      [] state = "awaiting_quote" -> 2 [] state = "awaiting_address" -> 3
      [] state = "awaiting_receipt" -> 4 [] state = "receipt_review" -> 5
\* The order never goes back.
OrderMovesForward == [][Rank(attributes'.state) >= Rank(attributes.state)]_vars

\* A quote was accepted and the customer has not been answered, by the
\* free-freight text or by the Shopee freight flow.
Unanswered ==
    /\ faults = 0 /\ Rank(attributes.state) >= 3
    /\ IF attributes.free THEN sent.free = 0 ELSE sent.shopee = 0
\* The customer is answered, whoever has claimed the freight flow, and although
\* the team cannot be reached; only a handler that stops leaves him without.
AcceptedQuoteIsAnswered == Unanswered ~> ~Unanswered
=============================================================================
