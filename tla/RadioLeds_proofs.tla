--------------------------- MODULE RadioLeds_proofs ---------------------------
(***************************************************************************)
(* RadioLeds keeps its types, and the LEDs show what they should, for any  *)
(* size of the queue and any number of sends on the air.                   *)
(***************************************************************************)
EXTENDS RadioLeds, SequenceTheorems, TLAPS

\* The steps of lora_thread and of the callbacks leave the LED thread and var_leds
\* alone, and at most append a message to the queue.
LEMMA SendersOnlyPut ==
    ASSUME Next, ~(LedThread \/ SetLeds)
    PROVE  UNCHANGED <<led, ledMsg, shown, leds, flipped>>
BY DEF Next, Thread, TxSteps, RxSteps, TakeMessage, ShowSending, Send, ShowFailing,
       ShowFailed, TxDone, TxShow, TxGive, RxData, RxShow, RxLines, RxShowAgain,
       Show, Put, PutExpired, ledVars

\* The types of the LED thread's variables are kept by its own steps.
LEMMA LedTypes ==
    ASSUME LedTypeOK, LedThread \/ SetLeds
    PROVE  LedTypeOK'
<1> USE QueueAssumption DEF LedTypeOK, Step
<1>1. CASE Test
    BY <1>1 DEF Test
<1>2. CASE Light
    BY <1>2 DEF Light
<1>3. CASE Darken
    BY <1>3 DEF Darken, Colours
<1>4. CASE Get
    <2>1. Head(queue) \in SUBSET Colours /\ Tail(queue) \in Seq(SUBSET Colours)
            /\ Len(Tail(queue)) = Len(queue) - 1 /\ Len(queue) \in Nat
        BY <1>4 DEF Get
    <2> QED BY <1>4, <2>1 DEF Get
<1>5. CASE SetLeds
    BY <1>5 DEF SetLeds
<1> QED BY <1>1, <1>2, <1>3, <1>4, <1>5 DEF LedThread

\* So they are by the puts of the senders.
LEMMA PutTypes ==
    ASSUME LedTypeOK, NEW m \in SUBSET Colours, Put(m)
    PROVE  LedTypeOK'
<1>1. Append(queue, m) \in Seq(SUBSET Colours) /\ Len(Append(queue, m)) = Len(queue) + 1
        /\ Len(queue) \in Nat
    BY DEF LedTypeOK
<1> QED BY <1>1, QueueAssumption DEF LedTypeOK, Put

\* Of the three messages each is one, and the history keeps it.
LEMMA ShowTypes ==
    ASSUME LedTypeOK, event \in SUBSET Colours,
           NEW m \in {Sending, Failing, Receiving}, Show(m)
    PROVE  LedTypeOK' /\ event' \in SUBSET Colours
<1>1. m \in SUBSET Colours
    BY DEF Sending, Failing, Receiving, Colours
<1>2. CASE Put(m) /\ event' = m
    BY <1>1, <1>2, PutTypes
<1>3. CASE PutExpired /\ UNCHANGED event
    BY <1>3 DEF PutExpired, ledVars, LedTypeOK
<1> QED BY <1>2, <1>3 DEF Show

\* Every variable keeps its type, whoever takes the step.
THEOREM TypeCorrect == Spec => []TypeOK
<1>1. Init => TypeOK
    <2> SUFFICES ASSUME Init PROVE TypeOK
        OBVIOUS
    <2>1. queue \in Seq(SUBSET Colours) /\ Len(queue) = 0
        BY DEF Init, LedInit
    <2>2. ledMsg \in SUBSET Colours /\ shown \in SUBSET Colours
        BY DEF Init, LedInit, Colours
    <2>3. leds \in BOOLEAN /\ flipped \in BOOLEAN
        BY DEF Init, LedInit
    <2>4. LedTypeOK
        BY <2>1, <2>2, <2>3, QueueAssumption DEF Init, LedInit, LedTypeOK
    <2> QED BY <2>4, AirAssumption DEF Init, TypeOK, Colours
<1>2. TypeOK /\ [Next]_vars => TypeOK'
    <2> SUFFICES ASSUME TypeOK, [Next]_vars PROVE TypeOK'
        OBVIOUS
    <2> USE AirAssumption DEF TypeOK
    <2>1. ASSUME UNCHANGED ledVars PROVE LedTypeOK'
        BY <2>1 DEF ledVars, LedTypeOK
    <2>2. CASE TakeMessage \/ Send
        BY <2>1, <2>2 DEF TakeMessage, Send, Goto
    <2>3. CASE ShowSending \/ ShowFailing \/ ShowFailed
        BY <2>3, ShowTypes DEF ShowSending, ShowFailing, ShowFailed, Goto
    <2>4. CASE TxDone \/ TxGive \/ RxData \/ RxLines
        BY <2>1, <2>4 DEF TxDone, TxGive, RxData, RxLines
    <2>5. CASE TxShow \/ RxShow \/ RxShowAgain
        BY <2>5, ShowTypes DEF TxShow, RxShow, RxShowAgain
    <2>6. CASE (LedThread \/ SetLeds) /\ UNCHANGED <<lora, txCb, rxCb, air, event>>
        BY <2>6, LedTypes
    <2>7. CASE UNCHANGED vars
        BY <2>1, <2>7 DEF vars
    <2> QED BY <2>2, <2>3, <2>4, <2>5, <2>6, <2>7 DEF Next, Thread, TxSteps, RxSteps
<1> QED BY <1>1, <1>2, PTL DEF Spec

\* While the LED thread waits, the LEDs are those of its message, or dark, as
\* var_leds said when it looked (led_task.c:126-147).
THEOREM LampsAreRight == Spec => []LampsRight
<1>1. Init => Tested /\ LampsRight
    BY DEF Init, LedInit, Tested, LampsRight
<1>2. TypeOK /\ Tested /\ LampsRight /\ [Next]_vars => Tested' /\ LampsRight'
    <2> SUFFICES ASSUME TypeOK, Tested, LampsRight, [Next]_vars
                 PROVE  Tested' /\ LampsRight'
        OBVIOUS
    <2> USE DEF TypeOK, LedTypeOK, Tested, LampsRight, Step
    <2>1. CASE Test
        BY <2>1 DEF Test
    <2>2. CASE Light
        BY <2>2 DEF Light
    <2>3. CASE Darken
        BY <2>3 DEF Darken
    <2>4. CASE Get
        BY <2>4 DEF Get
    <2>5. CASE SetLeds
        BY <2>5 DEF SetLeds
    <2>6. CASE Next /\ ~(LedThread \/ SetLeds)
        BY <2>6, SendersOnlyPut
    <2>7. CASE UNCHANGED vars
        BY <2>7 DEF vars, ledVars
    <2> QED BY <2>1, <2>2, <2>3, <2>4, <2>5, <2>6, <2>7 DEF LedThread
<1> QED BY <1>1, <1>2, TypeCorrect, PTL DEF Spec

-----------------------------------------------------------------------------
(* The last message accepted. *)

\* The last element of a sequence is that of its tail, or the head.
LEMMA LastOfTail ==
    ASSUME NEW S, NEW q \in Seq(S), q # <<>>
    PROVE  q[Len(q)] = IF Tail(q) = <<>> THEN Head(q) ELSE Tail(q)[Len(Tail(q))]
<1>1. Tail(q) \in Seq(S) /\ Len(Tail(q)) = Len(q) - 1 /\ Len(q) \in Nat /\ Len(q) # 0
    OBVIOUS
<1>2. Head(q) = q[1] /\ \A k \in 1 .. Len(q) - 1 : Tail(q)[k] = q[k + 1]
    OBVIOUS
<1>3. Tail(q) = <<>> <=> Len(q) = 1
    <2>1. Tail(q) = <<>> <=> Len(Tail(q)) = 0
        BY <1>1, EmptySeq
    <2>2. Len(q) - 1 = 0 <=> Len(q) = 1
        BY <1>1
    <2> QED BY <1>1, <2>1, <2>2
<1>4. CASE Len(q) = 1
    BY <1>2, <1>3, <1>4
<1>5. CASE Len(q) # 1
    <2>1. Len(q) - 1 \in 1 .. Len(q) - 1 /\ Len(q) - 1 + 1 = Len(q)
        BY <1>1, <1>5
    <2>2. Tail(q)[Len(q) - 1] = q[Len(q)]
        BY <1>2, <2>1
    <2> QED BY <1>1, <1>3, <1>5, <2>2
<1> QED BY <1>4, <1>5

LEMMA GetTakes ==
    ASSUME LedTypeOK, LastAccepted, Get, event' = event
    PROVE  LastAccepted'
<1>1. queue \in Seq(SUBSET Colours) /\ queue # <<>> /\ queue' = Tail(queue) /\ ledMsg' = Head(queue)
    BY DEF LedTypeOK, Get
<1>2. event = queue[Len(queue)]
    BY <1>1 DEF LastAccepted
<1>3. queue[Len(queue)] = IF queue' = <<>> THEN ledMsg' ELSE queue'[Len(queue')]
    BY <1>1, LastOfTail
<1> QED BY <1>2, <1>3 DEF LastAccepted

LEMMA PutAdds ==
    ASSUME LedTypeOK, LastAccepted, NEW m \in SUBSET Colours, Show(m)
    PROVE  LastAccepted'
<1>1. queue \in Seq(SUBSET Colours)
    BY DEF LedTypeOK
<1>2. CASE Put(m) /\ event' = m
    <2>1. queue' = Append(queue, m)
        BY <1>2 DEF Put
    <2>2. queue' # <<>> /\ queue'[Len(queue')] = m
        BY <1>1, <2>1
    <2> QED BY <1>2, <2>2 DEF LastAccepted
<1>3. CASE PutExpired /\ UNCHANGED event
    BY <1>3 DEF PutExpired, ledVars, LastAccepted
<1> QED BY <1>2, <1>3 DEF Show

LEMMA LastAcceptedStep == TypeOK /\ LastAccepted /\ [Next]_vars => LastAccepted'
<1> SUFFICES ASSUME TypeOK, LastAccepted, [Next]_vars PROVE LastAccepted'
    OBVIOUS
<1> USE DEF TypeOK
<1>1. ASSUME UNCHANGED <<queue, ledMsg, event>> PROVE LastAccepted'
    BY <1>1 DEF LastAccepted
<1>2. \A m \in {Sending, Failing, Receiving} : m \in SUBSET Colours
    BY DEF Sending, Failing, Receiving, Colours
<1>3. CASE TakeMessage \/ Send \/ TxDone \/ TxGive \/ RxData \/ RxLines
    BY <1>1, <1>3 DEF TakeMessage, Send, TxDone, TxGive, RxData, RxLines, ledVars
<1>4. CASE ShowSending \/ ShowFailing \/ ShowFailed \/ TxShow \/ RxShow \/ RxShowAgain
    BY <1>2, <1>4, PutAdds DEF ShowSending, ShowFailing, ShowFailed, TxShow, RxShow, RxShowAgain
<1>5. CASE Get /\ UNCHANGED event
    BY <1>5, GetTakes
<1>6. CASE (Test \/ Light \/ Darken \/ SetLeds) /\ UNCHANGED event
    BY <1>1, <1>6 DEF Test, Light, Darken, SetLeds
<1>7. CASE UNCHANGED vars
    BY <1>1, <1>7 DEF vars, ledVars
<1> QED BY <1>3, <1>4, <1>5, <1>6, <1>7 DEF Next, Thread, TxSteps, RxSteps, LedThread

\* A LED thread that has emptied its queue shows the last message accepted from
\* any of the senders, or nothing, as var_leds said when it looked.
THEOREM CatchesUp == Spec => []CaughtUp
<1>1. Init => LastAccepted
    BY DEF Init, LedInit, LastAccepted
<1>2. LastAccepted /\ LampsRight => CaughtUp
    BY DEF LastAccepted, LampsRight, CaughtUp
<1> QED BY <1>1, <1>2, LastAcceptedStep, LampsAreRight, TypeCorrect, PTL DEF Spec
=============================================================================
