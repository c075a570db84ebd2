------------------------------ MODULE MCRadioLeds ------------------------------
(* RadioLeds with a queue shorter than the number of its senders. *)
EXTENDS RadioLeds
=============================================================================
