-------------------------------- MODULE TxPipe --------------------------------
(***************************************************************************)
(* What the LoRa transmit path promises: a bounded pipe.  A message that   *)
(* a thread offers is decided once: accepted, or refused, which happens    *)
(* only to a pipe that is full or has its last place in transit.  What was *)
(* accepted is handed to the radio stack once, in the order of acceptance. *)
(***************************************************************************)
EXTENDS Naturals, Sequences

CONSTANTS Messages, Capacity

VARIABLES
    decided,    \* messages accepted or refused so far
    pipe,       \* messages accepted and not yet handed over
    out         \* the last one handed over, {} before the first

pipeVars == <<decided, pipe, out>>

Init == decided = {} /\ pipe = <<>> /\ out = {}

Decide(m) == m \notin decided /\ decided' = decided \cup {m}

Accept(m) ==
    /\ Decide(m) /\ Len(pipe) < Capacity
    /\ pipe' = Append(pipe, m) /\ UNCHANGED out

Refuse(m) ==
    /\ Decide(m) /\ Len(pipe) + 1 >= Capacity
    /\ UNCHANGED <<pipe, out>>

HandOver ==
    /\ pipe # <<>>
    /\ out' = {Head(pipe)} /\ pipe' = Tail(pipe) /\ UNCHANGED decided

Next == HandOver \/ \E m \in Messages : Accept(m) \/ Refuse(m)

Spec == Init /\ [][Next]_pipeVars
=============================================================================
