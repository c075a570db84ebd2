------------------------------ MODULE MCLoraTask ------------------------------
(* The names of the pushing threads; the configurations say how many push and
   how short the queue is, so that it fills.  The pushing threads are alike. *)
EXTENDS LoraTask, TLC
CONSTANTS p1, p2
Alike == Permutations({p1, p2})
=============================================================================
