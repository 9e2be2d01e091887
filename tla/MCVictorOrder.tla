----------------------------- MODULE MCVictorOrder -----------------------------
(* VictorOrder with two texts that give one field of the address each.     *)
EXTENDS VictorOrder, TLC

CONSTANTS t1, t2, street, cep

MCTextFields == (t1 :> {street}) @@ (t2 :> {cep})
=============================================================================
