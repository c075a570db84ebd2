------------------------------- MODULE RadioLeds -------------------------------
(***************************************************************************)
(* LedTask with those who fill its queue: lora_thread around lorawan_send, *)
(* and the callbacks lorawan_tx_data and lorawan_rx_data.  Each puts a     *)
(* message and waits up to 100 ms for room, on the way to what matters:    *)
(* the report to the watchdog, the give of sem_tx_busy, the return to the  *)
(* radio stack.  Semaphores, UART and settings are LoraTask's subject; the *)
(* stack is external.                                                      *)
(***************************************************************************)
EXTENDS LedTask

CONSTANT MaxAir   \* bound: sends on the air

ASSUME AirAssumption == MaxAir \in Nat

VARIABLES
    lora,   \* where lora_thread is: "top", or at one of its puts or the send
    txCb,   \* where lorawan_tx_data is: "idle", "put", "give"
    rxCb,   \* where lorawan_rx_data is: "idle", "put", "lines", "again"
    air,    \* sends the stack accepted and has not called back for
    event   \* history: the last message that led_msgq accepted

vars == <<ledVars, lora, txCb, rxCb, air, event>>

\* The messages: tx and tx done look the same, since enable is not used.
Sending == {"red", "blue"}
Failing == {"red"}
Receiving == {"green"}

Init ==
    /\ LedInit
    /\ lora = "top" /\ txCb = "idle" /\ rxCb = "idle"
    /\ air = 0 /\ event = {"blue"}

\* A put of m, accepted or given up after 100 ms.
Show(m) ==
    \/ Put(m) /\ event' = m
    \/ PutExpired /\ UNCHANGED event

-----------------------------------------------------------------------------
(* lora_thread, from the message it takes to its next watchdog report. *)

Goto(from, to) == lora = from /\ lora' = to

TakeMessage ==
    /\ Goto("top", "put")
    /\ UNCHANGED <<ledVars, txCb, rxCb, air, event>>

ShowSending ==
    /\ Goto("put", "send") /\ Show(Sending)
    /\ UNCHANGED <<txCb, rxCb, air>>

\* lorawan_send accepts or refuses.
Send ==
    /\ \/ Goto("send", "top") /\ air < MaxAir /\ air' = air + 1
       \/ Goto("send", "failed") /\ UNCHANGED air
    /\ UNCHANGED <<ledVars, txCb, rxCb, event>>

ShowFailing ==
    /\ Goto("failed", "failed2") /\ Show(Failing)
    /\ UNCHANGED <<txCb, rxCb, air>>

\* After a second, with enable = false.
ShowFailed ==
    /\ Goto("failed2", "top") /\ Show(Failing)
    /\ UNCHANGED <<txCb, rxCb, air>>

Thread == ShowSending \/ Send \/ ShowFailing \/ ShowFailed

-----------------------------------------------------------------------------
(* The callbacks. *)

TxDone ==
    /\ txCb = "idle" /\ air > 0 /\ txCb' = "put" /\ air' = air - 1
    /\ UNCHANGED <<ledVars, lora, rxCb, event>>

TxShow ==
    /\ txCb = "put" /\ txCb' = "give" /\ Show(Sending)
    /\ UNCHANGED <<lora, rxCb, air>>

\* k_sem_give(&sem_tx_busy) and the line.
TxGive ==
    /\ txCb = "give" /\ txCb' = "idle"
    /\ UNCHANGED <<ledVars, lora, rxCb, air, event>>

RxData ==
    /\ rxCb = "idle" /\ rxCb' = "put"
    /\ UNCHANGED <<ledVars, lora, txCb, air, event>>

RxShow ==
    /\ rxCb = "put" /\ rxCb' = "lines" /\ Show(Receiving)
    /\ UNCHANGED <<lora, txCb, air>>

\* The line, when there is data.
RxLines ==
    /\ rxCb = "lines" /\ rxCb' = "again"
    /\ UNCHANGED <<ledVars, lora, txCb, air, event>>

\* The same message with enable = false.
RxShowAgain ==
    /\ rxCb = "again" /\ rxCb' = "idle" /\ Show(Receiving)
    /\ UNCHANGED <<lora, txCb, air>>

TxSteps == TxDone \/ TxShow \/ TxGive
RxSteps == RxShow \/ RxLines \/ RxShowAgain

Next ==
    \/ TakeMessage \/ Thread \/ TxSteps \/ RxSteps \/ RxData
    \/ (LedThread \/ SetLeds) /\ UNCHANGED <<lora, txCb, rxCb, air, event>>

\* The waits for room end after 100 ms, the stack answers and calls back, and who
\* has begun goes on.  Messages and downlinks need not come.  Nothing is assumed
\* of the LED thread: one of its own priority (the UART thread) or a higher one
\* may keep it from the CPU.
Fairness == WF_vars(Thread) /\ WF_vars(TxSteps) /\ WF_vars(RxSteps)

Spec == Init /\ [][Next]_vars
FairSpec == Spec /\ Fairness

-----------------------------------------------------------------------------
(* Properties. *)

\* Every variable has the values the code can give it.
TypeOK ==
    /\ LedTypeOK
    /\ lora \in {"top", "put", "send", "failed", "failed2"}
    /\ txCb \in {"idle", "put", "give"}
    /\ rxCb \in {"idle", "put", "lines", "again"}
    /\ air \in 0 .. MaxAir /\ event \in SUBSET Colours

\* The LEDs never hold the radio: even if the LED thread never runs again, the
\* LoRa thread comes back to its watchdog report, sem_tx_busy is given and the
\* callbacks return (LoRa_task.c:169, 200, 338).
RadioGoesOn == []<>(lora = "top") /\ []<>(txCb = "idle") /\ []<>(rxCb = "idle")

LedThreadRuns == WF_vars(LedThread /\ UNCHANGED <<lora, txCb, rxCb, air, event>>)

\* When var_leds is cleared for good the LEDs go dark for good, with the next
\* message at the latest: none that comes later can light them (led_task.c:135).
DarkForGood ==
    LedThreadRuns /\ <>[]~leds /\ []<>(queue # <<>>) => <>[](shown = {})

\* When the radio falls quiet the LEDs come to show the last message that was
\* accepted, however the senders and the LED thread interleaved.
LastShown ==
    LedThreadRuns /\ []leds /\ <>[](lora = "top" /\ txCb = "idle" /\ rxCb = "idle")
        => <>[](shown = event)

\* Once the LED thread waits on an empty queue the LEDs are those of the last
\* message that was accepted, whichever of the three senders put it, or dark, as
\* var_leds says: no message is left behind or overtaken (led_task.c:147).
\* When var_leds was set since the test they may be either, or blue alone.
CaughtUp ==
    led = "wait" /\ queue = <<>> =>
        shown \in IF flipped THEN {event, {}, {"blue"}}
                  ELSE {IF leds THEN event ELSE {}}

-----------------------------------------------------------------------------
(* Why CaughtUp holds, with LampsRight. *)

\* The last message accepted is the last one queued, or the one in the thread's hand.
LastAccepted == event = IF queue = <<>> THEN ledMsg ELSE queue[Len(queue)]
=============================================================================
