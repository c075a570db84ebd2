------------------------------- MODULE Watchdog -------------------------------
(***************************************************************************)
(* What the watchdog component promises, wdt_task.c with its bytes, loads  *)
(* and stores left out: threads enrol and report, and the hardware is fed  *)
(* when everyone enrolled has reported since the last time.  One thing the *)
(* code cannot promise shows: a report may undo those of threads that      *)
(* precede the reporter.                                                   *)
(*                                                                         *)
(* WdtTask implements it with split instructions, WdtTiming in time.       *)
(***************************************************************************)
EXTENDS Integers

CONSTANTS
    Threads,   \* the client threads
    Prio       \* their priorities, a lower number runs first

VARIABLES
    enrolled,  \* the threads that have to report
    reported   \* those that have, since the hardware was fed

Init == enrolled = {} /\ reported = {}

\* A thread enrols; its first report may come with it.
Enrol(t) ==
    /\ t \notin enrolled /\ enrolled' = enrolled \cup {t}
    /\ reported' \in {reported, reported \cup {t}}

Report(t) ==
    /\ t \in enrolled
    /\ \E undone \in SUBSET {u \in reported : Prio[u] < Prio[t]} :
          reported' = (reported \ undone) \cup {t}
    /\ UNCHANGED enrolled

\* A thread that leaves pardons the others, unless it comes too late for that.
Leave(t) ==
    /\ t \in enrolled /\ enrolled' = enrolled \ {t}
    /\ reported' \in {enrolled', reported \ {t}}

\* The hardware is fed, and everyone has to report again.
Feed ==
    /\ reported = enrolled /\ reported' = {}
    /\ UNCHANGED enrolled

\* The device was reset.
Restart == enrolled' = {} /\ reported' = {}

Next ==
    \/ \E t \in Threads : Enrol(t) \/ Report(t) \/ Leave(t)
    \/ Feed \/ Restart

Spec == Init /\ [][Next]_<<enrolled, reported>>
=============================================================================
