---------------------------- MODULE MCQuoteManager ----------------------------
(* QuoteManager with a plan that has limits and one without a limit for      *)
(* conversations.                                                          *)
EXTENDS QuoteManager, TLC

CONSTANTS small, large

MCLimit == (small :> ("requests" :> 1 @@ "tokens" :> 3))
           @@ (large :> ("requests" :> Unlimited @@ "tokens" :> 4))
=============================================================================
