\* Two texts, a proof, a free and a paid quote.
CONSTANTS
    t1 = t1
    t2 = t2
    street = street
    cep = cep
    Texts = {t1, t2}
    Proofs = {p1}
    Quotes = {freeQuote, paidQuote}
    FreeQuotes = {freeQuote}
    ShopeeQuotes = {paidQuote}
    Prompts = {b1}
    Fields = {street, cep}
    TextFields <- MCTextFields
    Callers = {1, 2}
    MaxDeliveries = 5
    MaxFaults = 1
SPECIFICATION FairSpec
INVARIANTS
    TypeOK
    MessageCountsOnce
    OneQuoteAnswered
    FreightSentOnce
    AddressBeforeReceipt
PROPERTIES
    OrderMovesForward
    AcceptedQuoteIsAnswered
CHECK_DEADLOCK FALSE
