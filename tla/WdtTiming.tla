------------------------------ MODULE WdtTiming ------------------------------
(***************************************************************************)
(* The timing of the watchdog, wdt_task.c: does a device whose threads are *)
(* alive ever reset, and how soon does one with a hung thread?             *)
(*                                                                         *)
(* Time is a tick.  A client thread is reduced to the time left until its  *)
(* next report, renewed to anything up to its Gap.  WdtTask models the     *)
(* registration and the report instruction by instruction; here they are   *)
(* atomic, except that any report, the first one too, may be lost to a     *)
(* thread of a lower priority that was storing its own (FeedLost), which   *)
(* WdtTask shows can happen, and happen again and again.                   *)
(***************************************************************************)
EXTENDS Integers

CONSTANTS
    Threads,    \* the client threads
    Prio,       \* their priorities, a lower number runs first
    Gap,        \* the longest time a live thread lets pass between two reports
    Timeout,    \* WDT_TIMEOUT_MS
    Half,       \* the watchdog thread's sleep after it fed the hardware
    Tenth       \* its sleep when a report is missing

ASSUME ThreadAssumption ==
    /\ Prio \in [Threads -> Int]
    /\ Gap \in [Threads -> Nat \ {0}]
ASSUME TimeAssumption ==
    /\ Timeout \in Nat /\ Half \in Nat \ {0} /\ Tenth \in Nat \ {0}
    /\ Half < Timeout /\ Tenth < Timeout

\* A report that comes by then is seen before the hardware expires.
Deadline == Timeout - Tenth

\* The timing rule the code relies on but states nowhere: the slowest report
\* and one short sleep of the watchdog thread fit in the timeout.
ASSUME GapAssumption == \A t \in Threads : Gap[t] <= Deadline

VARIABLES
    dog,      \* the hardware: "off", "on", or "dead" when it could not be set up
    age,      \* time since the hardware was last fed
    wtimer,   \* time until the watchdog thread looks again
    callback, \* the driver supports the expiry callback
    handled,  \* handled_event
    mask,     \* the threads registered
    agg,      \* the threads in wdt_aggregate
    left,     \* time until the next report of each registered thread
    hung,     \* threads that never report again
    spin,     \* a hung thread keeps the CPU
    slip,     \* history: since the hardware was fed, or the device started, a
              \* report was lost so late that the next may miss the deadline
    hangFor   \* history: time since the first hang under a running watchdog

vars == <<dog, age, wtimer, callback, handled, mask, agg, left, hung, spin, slip, hangFor>>
hardware == <<dog, age, callback, handled>>

HangCap == 3 * Timeout + 1  \* bound of the history clock

Init ==
    /\ dog = "off" /\ age = 0 /\ wtimer = 0
    /\ callback = FALSE /\ handled = FALSE
    /\ mask = {} /\ agg = {}
    /\ left = [t \in Threads |-> 0]
    /\ hung = {} /\ spin = FALSE /\ slip = FALSE /\ hangFor = 0

Live == mask \ hung
Due == {t \in Live : left[t] = 0}

\* Registration, at any time.  The first report is due at once: the thread does
\* not block before it.
Enrol(t) ==
    /\ t \notin mask \cup hung
    /\ mask' = mask \cup {t} /\ left' = [left EXCEPT ![t] = 0]
    /\ UNCHANGED <<hardware, wtimer, agg, hung, spin, slip, hangFor>>

Feed(t) ==
    /\ t \in Due
    /\ agg' = agg \cup {t}
    /\ \E g \in 1 .. Gap[t] : left' = [left EXCEPT ![t] = g]
    /\ UNCHANGED <<hardware, wtimer, mask, hung, spin, slip, hangFor>>

\* t interrupts u between the load and the store of u's report, which then
\* stores back an aggregate without t.
FeedLost(t) ==
    /\ t \in Due \ agg
    /\ \E u \in Due : Prio[t] < Prio[u]
    /\ \E g \in 1 .. Gap[t] : left' = [left EXCEPT ![t] = g]
    /\ slip' = (slip \/ age + Gap[t] > Deadline)
    /\ UNCHANGED <<hardware, wtimer, mask, agg, hung, spin, hangFor>>

\* A thread blocks for ever, or loops for ever and starves those it precedes.
Hang(t) ==
    /\ t \in Live
    /\ \/ hung' = hung \cup {t} /\ UNCHANGED spin
       \/ hung' = hung \cup {u \in Threads : Prio[t] <= Prio[u]} /\ spin' = TRUE
    /\ UNCHANGED <<hardware, wtimer, mask, agg, left, slip, hangFor>>

\* wdt_thread up to its loop.  A driver without callbacks answers -ENOTSUP and
\* is installed without one; an error leaves the hardware off for good.
Setup ==
    /\ dog = "off" /\ ~spin /\ Due = {}
    /\ \/ dog' = "on" /\ callback' \in BOOLEAN
       \/ dog' = "dead" /\ UNCHANGED callback
    /\ age' = 0 /\ wtimer' = 0
    /\ UNCHANGED <<handled, mask, agg, left, hung, spin, slip, hangFor>>

\* Mutants of Look: the long sleep in both branches; any one report is enough;
\* the long sleep is the whole timeout.
LookSeldom ==
    /\ dog = "on" /\ wtimer = 0 /\ ~spin /\ Due = {}
    /\ wtimer' = Half
    /\ IF agg = mask THEN age' = 0 /\ agg' = {} /\ slip' = FALSE ELSE UNCHANGED <<age, agg, slip>>
    /\ UNCHANGED <<dog, callback, handled, mask, left, hung, spin, hangFor>>
LookLenient ==
    /\ dog = "on" /\ wtimer = 0 /\ ~spin /\ Due = {}
    /\ IF agg # {} \/ mask = {}
       THEN age' = 0 /\ agg' = {} /\ slip' = FALSE /\ wtimer' = Half
       ELSE wtimer' = Tenth /\ UNCHANGED <<age, agg, slip>>
    /\ UNCHANGED <<dog, callback, handled, mask, left, hung, spin, hangFor>>
LookLate ==
    /\ dog = "on" /\ wtimer = 0 /\ ~spin /\ Due = {}
    /\ IF agg = mask
       THEN age' = 0 /\ agg' = {} /\ slip' = FALSE /\ wtimer' = Timeout
       ELSE wtimer' = Tenth /\ UNCHANGED <<age, agg, slip>>
    /\ UNCHANGED <<dog, callback, handled, mask, left, hung, spin, hangFor>>

\* One pass of the watchdog thread's loop; it runs when nobody else does.
Look ==
    /\ dog = "on" /\ wtimer = 0 /\ ~spin /\ Due = {}
    /\ IF agg = mask
       THEN age' = 0 /\ agg' = {} /\ slip' = FALSE /\ wtimer' = Half
       ELSE wtimer' = Tenth /\ UNCHANGED <<age, agg, slip>>
    /\ UNCHANGED <<dog, callback, handled, mask, left, hung, spin, hangFor>>

\* Mutant: the callback feeds every time.
RescueAlways ==
    /\ dog = "on" /\ age = Timeout /\ callback
    /\ handled' = TRUE /\ age' = 0
    /\ UNCHANGED <<dog, wtimer, callback, mask, agg, left, hung, spin, slip, hangFor>>

\* The hardware expires.  The callback feeds it, once; whether a feed that late
\* is accepted is the driver's matter.
Rescue ==
    /\ dog = "on" /\ age = Timeout /\ callback /\ ~handled
    /\ handled' = TRUE /\ age' = 0
    /\ UNCHANGED <<dog, wtimer, callback, mask, agg, left, hung, spin, slip, hangFor>>

\* Mutant: wdt_aggregate survives the reset.
ResetKeepsAgg ==
    /\ dog = "on" /\ age = Timeout
    /\ dog' = "off" /\ age' = 0 /\ wtimer' = 0
    /\ callback' = FALSE /\ handled' = FALSE /\ mask' = {}
    /\ left' = [t \in Threads |-> 0]
    /\ hung' = {} /\ spin' = FALSE /\ slip' = FALSE /\ hangFor' = 0 /\ UNCHANGED agg

\* WDT_FLAG_RESET_SOC: everything starts again.
Reset ==
    /\ dog = "on" /\ age = Timeout
    /\ dog' = "off" /\ age' = 0 /\ wtimer' = 0
    /\ callback' = FALSE /\ handled' = FALSE
    /\ mask' = {} /\ agg' = {}
    /\ left' = [t \in Threads |-> 0]
    /\ hung' = {} /\ spin' = FALSE /\ slip' = FALSE /\ hangFor' = 0

\* Time passes: never past a due report, a look or an expiry.
Tick ==
    /\ Due = {}
    /\ dog = "on" => age < Timeout /\ (spin \/ wtimer > 0)
    /\ dog = "off" => spin
    /\ left' = [t \in Threads |-> IF t \in Live THEN left[t] - 1 ELSE left[t]]
    /\ IF dog = "on"
       THEN /\ age' = age + 1
            /\ wtimer' = IF wtimer > 0 THEN wtimer - 1 ELSE 0
            /\ hangFor' = IF hung # {} /\ hangFor < HangCap THEN hangFor + 1 ELSE hangFor
       ELSE UNCHANGED <<age, wtimer, hangFor>>
    /\ UNCHANGED <<dog, callback, handled, mask, agg, hung, spin, slip>>

Next ==
    \/ \E t \in Threads : Enrol(t) \/ Feed(t) \/ FeedLost(t) \/ Hang(t)
    \/ Setup \/ Look \/ Rescue \/ Reset \/ Tick

\* Time passes, the hardware expires, and runnable threads get the CPU; no
\* thread has to register or to hang.
Fairness ==
    /\ WF_vars(Tick) /\ WF_vars(Look) /\ WF_vars(Setup)
    /\ WF_vars(Rescue \/ Reset)
    /\ \A t \in Threads : WF_vars(Feed(t) \/ FeedLost(t))

Spec == Init /\ [][Next]_vars
FairSpec == Spec /\ Fairness

-----------------------------------------------------------------------------
(* Properties. *)

\* Every clock is within its range.
TypeOK ==
    /\ dog \in {"off", "on", "dead"} /\ callback \in BOOLEAN /\ handled \in BOOLEAN
    /\ age \in 0 .. Timeout /\ wtimer \in Nat
    /\ mask \subseteq Threads /\ agg \subseteq mask
    /\ left \in [Threads -> Nat] /\ \A t \in Threads : left[t] <= Gap[t]
    /\ hung \subseteq Threads /\ {spin, slip} \subseteq BOOLEAN /\ hangFor \in Nat

\* A device all of whose threads are alive lets the hardware expire only when a
\* report was lost so late after the last feed that the next one of its thread
\* may miss the deadline.  Any number of reports lost before that, and any thread
\* that registers late, are harmless (wdt_task.c:46, 122, 154).
NoSpuriousExpiry == dog = "on" /\ age = Timeout => hung # {} \/ slip

\* A hung thread resets the device within two timeouts of the hang, three when
\* the callback's feed is accepted: 40 s and 60 s.
DetectBound ==
    dog = "on" => hangFor <= IF handled THEN 3 * Timeout ELSE 2 * Timeout

\* A device with a hung thread under a running watchdog is reset.
HangRecovers == dog = "on" /\ hung # {} ~> dog = "off"

\* In time as instruction by instruction (WdtTask), the component implements
\* Watchdog.
W == INSTANCE Watchdog WITH enrolled <- mask, reported <- agg
IsWatchdog == W!Spec

\* The inductive invariant behind NoSpuriousExpiry: while nobody is hung and no
\* loss came too late, the missing reports come by the deadline, and the watchdog
\* thread looks before the hardware expires.
OnTime ==
    hung = {} =>
        /\ ~spin
        /\ ~slip =>
            /\ dog = "on" => age + wtimer < Timeout
            /\ \A t \in mask \ agg : left[t] > 0 => age + left[t] <= Deadline

\* The one behind DetectBound.  The hardware was last fed before the hang, but for
\* one feed of the loop, after which a hung thread's report is missing, and one of
\* the callback.
Accounted == hung \cap mask \subseteq agg
Detected ==
    /\ dog # "on" => age = 0 /\ hangFor = 0 /\ ~handled
    /\ dog = "on" /\ hung = {} => hangFor = 0
    /\ dog = "on" /\ hung # {} =>
        hangFor <= age + (IF Accounted THEN 0 ELSE Timeout) + (IF handled THEN Timeout ELSE 0)
    /\ hung \cap mask = {} => hung = {} /\ ~spin
=============================================================================
