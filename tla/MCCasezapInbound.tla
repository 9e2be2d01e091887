--------------------------- MODULE MCCasezapInbound ---------------------------
(* CasezapInbound on small sets.                                           *)
EXTENDS CasezapInbound, TLC
=============================================================================
