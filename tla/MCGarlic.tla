------------------------------ MODULE MCGarlic ------------------------------
(* Model-checking instance of Garlic: one remote destination.             *)
EXTENDS Garlic

CONSTANTS d1

MC_Dests == {d1}

=============================================================================
