-------------------------------- MODULE LedTask --------------------------------
(***************************************************************************)
(* led_task.c: the LED thread shows the last message of led_msgq, unless   *)
(* var_leds is FALSE.  It looks at var_leds once per message; vars_set of  *)
(* "leds" changes it at any time and wakes nobody.                         *)
(*                                                                         *)
(* A message is the set of the colours it switches on.  Its field enable   *)
(* is left out: the code that would use it is not compiled.                *)
(***************************************************************************)
EXTENDS Naturals, Sequences

CONSTANT QueueSize   \* messages led_msgq holds, 5 in the code

ASSUME QueueAssumption == QueueSize \in Nat \ {0}

VARIABLES
    led,      \* where led_thread is: "test", "light", "darken", "wait"
    ledMsg,   \* led_msg, static: the last message taken
    shown,    \* the pins that are on
    queue,    \* led_msgq
    leds,     \* var_leds
    flipped   \* history: var_leds was set since led_thread last tested it

ledVars == <<led, ledMsg, shown, queue, leds, flipped>>

Colours == {"red", "green", "blue"}

\* The pins are configured as inactive; led_msg is initialised to blue.
LedInit ==
    /\ led = "test" /\ ledMsg = {"blue"} /\ shown = {}
    /\ queue = <<>> /\ leds = TRUE /\ flipped = FALSE

Step(from, to) == led = from /\ led' = to

\* if (var_leds)
Test ==
    /\ Step("test", IF leds THEN "light" ELSE "darken")
    /\ flipped' = FALSE
    /\ UNCHANGED <<ledMsg, shown, queue, leds>>

\* Mutant: the pins of a message are switched on, and those of the last not off.
LightMore ==
    /\ Step("light", "wait") /\ shown' = shown \cup ledMsg
    /\ UNCHANGED <<ledMsg, queue, leds, flipped>>

Light ==
    /\ Step("light", "wait") /\ shown' = ledMsg
    /\ UNCHANGED <<ledMsg, queue, leds, flipped>>

\* The pins are set to var_leds & 4, & 2 and & 1: a bool that was set in the
\* meantime leaves the blue one on.
Darken ==
    /\ Step("darken", "wait") /\ shown' = IF leds THEN {"blue"} ELSE {}
    /\ UNCHANGED <<ledMsg, queue, leds, flipped>>

\* Mutant: the new message is shown without a look at var_leds.
GetShows ==
    /\ Step("wait", "light") /\ queue # <<>>
    /\ ledMsg' = Head(queue) /\ queue' = Tail(queue)
    /\ UNCHANGED <<shown, leds, flipped>>

\* k_msgq_get(&led_msgq, &led_msg, K_FOREVER)
Get ==
    /\ Step("wait", "test") /\ queue # <<>>
    /\ ledMsg' = Head(queue) /\ queue' = Tail(queue)
    /\ UNCHANGED <<shown, leds, flipped>>

LedThread == Test \/ Light \/ Darken \/ Get

\* vars_set of "leds".
SetLeds ==
    /\ leds' = ~leds /\ flipped' = TRUE
    /\ UNCHANGED <<led, ledMsg, shown, queue>>

\* Mutant: a message is dropped while another one is queued.
PutAlone(m) ==
    /\ Len(queue) < QueueSize
    /\ queue' = IF queue = <<>> THEN <<m>> ELSE queue
    /\ UNCHANGED <<led, ledMsg, shown, leds, flipped>>

\* Mutant: the queue is filled beyond its buffer.
PutOver(m) ==
    /\ Len(queue) <= QueueSize /\ queue' = Append(queue, m)
    /\ UNCHANGED <<led, ledMsg, shown, leds, flipped>>

\* k_msgq_put(&led_msgq, &m, K_MSEC(100)) finds room, at once or in time ...
Put(m) ==
    /\ Len(queue) < QueueSize /\ queue' = Append(queue, m)
    /\ UNCHANGED <<led, ledMsg, shown, leds, flipped>>

\* Mutant: K_FOREVER for K_MSEC(100).
PutForever == FALSE /\ UNCHANGED ledVars

\* ... or not: the message is dropped and the sender told, who ignores it.
PutExpired == Len(queue) = QueueSize /\ UNCHANGED ledVars

-----------------------------------------------------------------------------
(* Properties. *)

\* Every variable has the values the code can give it.
LedTypeOK ==
    /\ led \in {"test", "light", "darken", "wait"}
    /\ {ledMsg, shown} \subseteq SUBSET Colours
    /\ queue \in Seq(SUBSET Colours) /\ Len(queue) <= QueueSize
    /\ {leds, flipped} \subseteq BOOLEAN

\* While the thread waits the LEDs are its message's, or dark, as var_leds says.
\* When var_leds was set since the test they may be either, or blue alone, which
\* no message asks for (led_task.c:126, 140).
LampsRight ==
    led = "wait" =>
        shown \in IF flipped THEN {ledMsg, {}, {"blue"}}
                  ELSE {IF leds THEN ledMsg ELSE {}}

\* Why LampsRight holds: which way the test went is var_leds, until it is set.
Tested == ~flipped => (led = "light" => leds) /\ (led = "darken" => ~leds)
=============================================================================
