------------------------- MODULE MCOperationalMonitor -------------------------
(***************************************************************************)
(* A small instance of OperationalMonitor for TLC: processes are           *)
(* interchangeable.                                                        *)
(***************************************************************************)
EXTENDS OperationalMonitor, TLC

Symmetry == Permutations(Procs)
=============================================================================
