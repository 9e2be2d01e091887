-------------------------- MODULE MCRequestLifecycle --------------------------
(***************************************************************************)
(* The instance of RequestLifecycle that TLC checks.                       *)
(***************************************************************************)
EXTENDS RequestLifecycle
=============================================================================
