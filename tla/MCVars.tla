-------------------------------- MODULE MCVars --------------------------------
(* Vars for TLC: the first variable has no GATT handler. *)
EXTENDS Vars

CONSTANTS a, b

AllDefault == [k \in Keys |-> a]
=============================================================================
