-------------------------- MODULE MCBillingLifecycle --------------------------
(***************************************************************************)
(* Small instances of BillingLifecycle for TLC.                            *)
(***************************************************************************)
EXTENDS BillingLifecycle

ASSUME ShortPeriods == Grace <= SuspendAfter /\ SuspendAfter < DowngradeAfter
=============================================================================
