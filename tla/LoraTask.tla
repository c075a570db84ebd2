------------------------------- MODULE LoraTask -------------------------------
(***************************************************************************)
(* LoRa_task.c: the LoRa thread joins the network when var_enabled is set, *)
(* then moves messages from lora_tx_queue to the radio stack; lora_push    *)
(* and loratest_thread fill it; lorawan_tx_data and lorawan_rx_data are    *)
(* called back by the stack.  var_enabled and the configuration are        *)
(* changed at any time by the UART, Bluetooth and test threads.            *)
(*                                                                         *)
(* One action per stretch of code between two places where another thread  *)
(* can interfere.  Messages are numbered in the order of the pushes.  The  *)
(* LED messages are left out; the radio stack and the UART are external:   *)
(* uartUp says whether uart_thread ever gave sem_tty.                      *)
(***************************************************************************)
EXTENDS Naturals, Sequences, FiniteSets

CONSTANTS
    Producers,   \* threads that call lora_push
    QueueSize,   \* messages lora_tx_queue holds, 4 in the code
    MaxMessages  \* bound: messages pushed in a behaviour

ASSUME QueueAssumption == QueueSize \in Nat \ {0} /\ MaxMessages \in Nat

VARIABLES
    pc,         \* where lora_thread is
    uartUp,     \* sem_tty was given: uart_send returns; else it blocks for ever
    enabled,    \* var_enabled
    connected,  \* var_connected
    class,      \* var_lora_class
    auth,       \* var_lora_auth
    joinCfg,    \* lw_config: the activation it was last filled for, or "none"
    queue,      \* lora_tx_queue
    msg,        \* the message taken from the queue: at most one
    semPush,    \* sem_lora_push
    semTx,      \* sem_tx_busy
    semCb,      \* sem_rx_cb
    push,       \* where each producer is in lora_push
    held,       \* the message it pushes
    txCb,       \* where lorawan_tx_data is
    rxCb,       \* where lorawan_rx_data is
    air,        \* sends the stack accepted and has not called back for
    pushed,     \* messages pushed so far
    last,       \* history: the last message handed to lorawan_send
    late,       \* history: sends since var_enabled was last cleared
    expired     \* history: waits for sem_tx_busy that ran out since the radio was
                \* last idle: nothing on the air and no send under way

config == <<uartUp, enabled, class, auth>>
link == <<connected, joinCfg>>
queues == <<queue, msg>>
producers == <<semPush, push, held, pushed>>
callbacks == <<semCb, txCb, rxCb>>
radio == <<semTx, air, last, late, expired>>
vars == <<pc, config, link, queues, producers, callbacks, radio>>

Classes == {"A", "C", "other"}
Auths == {"ABP", "OTAA", "other"}

Init ==
    /\ pc = "boot" /\ uartUp \in BOOLEAN
    /\ enabled = FALSE /\ connected = FALSE
    /\ class = "A" /\ auth = "ABP" /\ joinCfg = "none"
    /\ queue = <<>> /\ msg = {}
    /\ semPush = 0 /\ semTx = 0 /\ semCb = 0
    /\ push = [p \in Producers |-> "idle"] /\ held = [p \in Producers |-> 0]
    /\ txCb = "idle" /\ rxCb = "idle"
    /\ air = 0 /\ pushed = 0 /\ last = {} /\ late = 0 /\ expired = 0

-----------------------------------------------------------------------------
(* lora_thread *)

Step(from, to) == pc = from /\ pc' = to

\* No radio device: the thread returns.  Else it gives the two semaphores.
Boot ==
    /\ \/ Step("boot", "gone") /\ UNCHANGED <<semPush, semCb>>
       \/ Step("boot", "top") /\ semPush' = 1 /\ semCb' = 1
    /\ UNCHANGED <<config, link, queues, push, held, pushed, txCb, rxCb, radio>>

\* The top of the loop, after the watchdog is fed: join?
StartJoin ==
    /\ Step("top", "configure") /\ ~connected /\ enabled
    /\ UNCHANGED <<config, link, queues, producers, callbacks, radio>>

NoJoin ==
    /\ Step("top", "retest") /\ (connected \/ ~enabled)
    /\ UNCHANGED <<config, link, queues, producers, callbacks, radio>>

\* Mutant: the sending branch does not look at var_enabled.
StartSendAnyway ==
    /\ Step("retest", "pace")
    /\ UNCHANGED <<config, link, queues, producers, callbacks, radio>>

\* var_enabled is read again: a device enabled since the first test goes on to
\* send although it is not connected.
StartSend ==
    /\ Step("retest", "pace") /\ enabled
    /\ UNCHANGED <<config, link, queues, producers, callbacks, radio>>

Disconnect ==
    /\ Step("retest", "nap") /\ ~enabled
    /\ connected' = FALSE
    /\ UNCHANGED <<config, joinCfg, queues, producers, callbacks, radio>>

\* lora_configure reads class for a first comparison and, when that fails, again
\* for the second; then auth in the same way.  At "badClass" and "badClassNotABP"
\* its result is already -1.
ConfigValid == class # "other" /\ auth # "other"

ClassA ==
    /\ uartUp /\ Step("configure", IF class = "A" THEN "auth" ELSE "notA")
    /\ UNCHANGED <<config, link, queues, producers, callbacks, radio>>

ClassC ==
    /\ Step("notA", IF class = "C" THEN "auth" ELSE "badClass")
    /\ UNCHANGED <<config, link, queues, producers, callbacks, radio>>

\* A match fills the join configuration.
CompareAuth(a, from, yes, no) ==
    /\ Step(from, IF auth = a THEN yes ELSE no)
    /\ joinCfg' = IF auth = a THEN a ELSE joinCfg
    /\ UNCHANGED <<config, connected, queues, producers, callbacks, radio>>

AuthABP ==
    \/ CompareAuth("ABP", "auth", "joining", "notABP")
    \/ CompareAuth("ABP", "badClass", "nap", "badClassNotABP")

\* Mutant: the result of lora_configure is ignored.
AuthIgnored ==
    \/ CompareAuth("OTAA", "notABP", "joining", "joining")
    \/ CompareAuth("OTAA", "badClassNotABP", "joining", "joining")

\* When neither matches, memset(&join_cfg, ...) clears the pointer and leaves the
\* structure.
AuthOTAA ==
    \/ CompareAuth("OTAA", "notABP", "joining", "nap")
    \/ CompareAuth("OTAA", "badClassNotABP", "nap", "nap")

Configure == ClassA \/ ClassC \/ AuthABP \/ AuthOTAA

\* Mutant: a join that succeeded is not recorded.
JoinForgotten(ok) ==
    /\ uartUp /\ Step("joining", "nap")
    /\ UNCHANGED <<config, link, queues, producers, callbacks, radio>>

\* lorawan_join returns; only 0 connects.
Join(ok) ==
    /\ uartUp /\ Step("joining", "nap")
    /\ connected' = (ok \/ connected)
    /\ UNCHANGED <<config, joinCfg, queues, producers, callbacks, radio>>

\* The sleep of one second at the end of the join and the disabled branches.
Nap ==
    /\ Step("nap", "top")
    /\ UNCHANGED <<config, link, queues, producers, callbacks, radio>>

\* After the sleep of the sending branch: k_msgq_get with K_NO_WAIT.
GetNone ==
    /\ Step("pace", "top") /\ queue = <<>>
    /\ UNCHANGED <<config, link, queues, producers, callbacks, radio>>

\* Mutant: the message is read and stays in the queue.
GetPeeks ==
    /\ Step("pace", "await") /\ queue # <<>>
    /\ msg' = {Head(queue)}
    /\ UNCHANGED <<config, link, queue, producers, callbacks, radio>>

Get ==
    /\ Step("pace", "await") /\ queue # <<>>
    /\ msg' = {Head(queue)} /\ queue' = Tail(queue)
    /\ UNCHANGED <<config, link, producers, callbacks, radio>>

\* Mutant: the semaphore is tested and not taken.
TakeTxTests ==
    /\ Step("await", "send") /\ semTx = 1
    /\ UNCHANGED <<config, link, queues, producers, callbacks, radio>>

\* k_sem_take(&sem_tx_busy, K_SECONDS(10)); its result is ignored.
TakeTx ==
    /\ Step("await", "send") /\ semTx = 1
    /\ semTx' = 0
    /\ UNCHANGED <<config, link, queues, producers, callbacks, air, last, late, expired>>

\* Mutant: K_FOREVER for K_SECONDS(10).
TakeTxForever ==
    /\ Step("await", "send") /\ semTx = 1
    /\ UNCHANGED <<config, link, queues, producers, callbacks, radio>>

TakeTxExpired ==
    /\ Step("await", "send") /\ semTx = 0
    /\ expired' = expired + 1
    /\ UNCHANGED <<config, link, queues, producers, callbacks, semTx, air, last, late>>

\* lorawan_send, accepted or refused; var_enabled is not looked at again.  The
\* stack refuses a device that was never configured to join.
Send(accepted) ==
    /\ uartUp /\ (accepted => joinCfg # "none")
    /\ IF accepted THEN /\ Step("send", "top") /\ air' = air + 1
                        /\ UNCHANGED expired
                   ELSE /\ Step("send", "failed") /\ UNCHANGED air
                        /\ expired' = IF air = 0 THEN 0 ELSE expired
    /\ last' = msg /\ msg' = {}
    /\ late' = IF enabled THEN late ELSE late + 1
    /\ UNCHANGED <<config, link, queue, producers, callbacks, semTx>>

\* The failure is notified, the LED blinks; the message is not tried again.
ReportFailure ==
    /\ uartUp /\ Step("failed", "top")
    /\ UNCHANGED <<config, link, queues, producers, callbacks, radio>>

Thread ==
    \/ Boot \/ StartJoin \/ NoJoin \/ StartSend \/ Disconnect \/ Configure
    \/ \E ok \in BOOLEAN : Join(ok) \/ Send(ok)
    \/ Nap \/ GetNone \/ Get \/ TakeTx \/ TakeTxExpired \/ ReportFailure

-----------------------------------------------------------------------------
(* lora_push.  A missing radio device or an undecodable value returns early. *)

GotoPush(p, from, to) == push[p] = from /\ push' = [push EXCEPT ![p] = to]

PushTake(p) ==
    /\ pc # "gone" /\ GotoPush(p, "idle", "put") /\ pushed < MaxMessages
    /\ semPush = 1 /\ semPush' = 0
    /\ pushed' = pushed + 1 /\ held' = [held EXCEPT ![p] = pushed + 1]
    /\ UNCHANGED <<pc, config, link, queues, callbacks, radio>>

\* Mutant: the queue has no limit.
PushPutAlways(p) ==
    /\ GotoPush(p, "put", "give")
    /\ queue' = Append(queue, held[p])
    /\ UNCHANGED <<pc, config, link, msg, semPush, held, pushed, callbacks, radio>>

\* k_msgq_put with K_NO_WAIT: a full queue refuses the message.
PushPut(p) ==
    /\ GotoPush(p, "put", "give")
    /\ queue' = IF Len(queue) < QueueSize THEN Append(queue, held[p]) ELSE queue
    /\ UNCHANGED <<pc, config, link, msg, semPush, held, pushed, callbacks, radio>>

PushGive(p) ==
    /\ GotoPush(p, "give", "idle")
    /\ semPush' = 1 /\ held' = [held EXCEPT ![p] = 0]
    /\ UNCHANGED <<pc, config, link, queues, pushed, callbacks, radio>>

\* loratest_thread puts its message without the semaphore.
TestPut ==
    /\ pushed < MaxMessages /\ pushed' = pushed + 1
    /\ queue' = IF Len(queue) < QueueSize THEN Append(queue, pushed + 1) ELSE queue
    /\ UNCHANGED <<pc, config, link, msg, semPush, push, held, callbacks, radio>>

-----------------------------------------------------------------------------
(* lorawan_tx_data and lorawan_rx_data *)

\* The stack reports one send: sem_tx_busy is given, then the line is written
\* under sem_rx_cb.
TxDone ==
    /\ air > 0 /\ txCb = "idle" /\ txCb' = "wait"
    /\ air' = air - 1 /\ semTx' = 1
    /\ expired' = IF air = 1 /\ pc # "send" THEN 0 ELSE expired
    /\ UNCHANGED <<pc, config, link, queues, producers, semCb, rxCb, last, late>>

TxCbTake ==
    /\ txCb = "wait" /\ semCb = 1 /\ txCb' = "lines" /\ semCb' = 0
    /\ UNCHANGED <<pc, config, link, queues, producers, rxCb, radio>>

TxCbGive ==
    /\ uartUp /\ txCb = "lines" /\ txCb' = "idle" /\ semCb' = 1
    /\ UNCHANGED <<pc, config, link, queues, producers, rxCb, radio>>

\* The callbacks are registered by the first join; data with sz = 0 writes no
\* line and is not distinguished from no data.
RxData ==
    /\ joinCfg # "none" /\ rxCb = "idle" /\ rxCb' = "wait"
    /\ UNCHANGED <<pc, config, link, queues, producers, semCb, txCb, radio>>

\* Mutant: lorawan_rx_data does not wait for the other callback.
RxCbBarges ==
    /\ rxCb = "wait" /\ rxCb' = "lines" /\ semCb' = 0
    /\ UNCHANGED <<pc, config, link, queues, producers, txCb, radio>>

RxCbTake ==
    /\ rxCb = "wait" /\ semCb = 1 /\ rxCb' = "lines" /\ semCb' = 0
    /\ UNCHANGED <<pc, config, link, queues, producers, txCb, radio>>

RxCbGive ==
    /\ uartUp /\ rxCb = "lines" /\ rxCb' = "idle" /\ semCb' = 1
    /\ UNCHANGED <<pc, config, link, queues, producers, txCb, radio>>

Callback == TxDone \/ TxCbTake \/ TxCbGive \/ RxData \/ RxCbTake \/ RxCbGive

-----------------------------------------------------------------------------
(* The other threads: vars_set of "enabled", "class" and "auth". *)

SetEnabled ==
    /\ enabled' = ~enabled
    /\ late' = IF enabled THEN 0 ELSE late
    /\ UNCHANGED <<pc, uartUp, class, auth, link, queues, producers, callbacks,
                   semTx, air, last, expired>>

SetConfig ==
    /\ \/ class' \in Classes \ {class} /\ UNCHANGED auth
       \/ auth' \in Auths \ {auth} /\ UNCHANGED class
    /\ UNCHANGED <<pc, uartUp, enabled, link, queues, producers, callbacks, radio>>

Next ==
    \/ Thread \/ Callback \/ SetEnabled \/ SetConfig \/ TestPut
    \/ \E p \in Producers : PushTake(p) \/ PushPut(p) \/ PushGive(p)

\* The LoRa thread gets the CPU, sleeps and waits end, the stack's calls return
\* and a network that is asked again and again lets the device join.  A give of
\* a Zephyr semaphore wakes the thread that waits, so a waiter is not overtaken
\* for ever.  Nothing is assumed of the users, who may stop in the middle of a push.
Fairness ==
    /\ WF_vars(Thread)
    /\ SF_vars(Join(TRUE))
    /\ WF_vars(TxDone) /\ WF_vars(TxCbGive) /\ WF_vars(RxCbGive)
    /\ SF_vars(TxCbTake) /\ SF_vars(RxCbTake)

Spec == Init /\ [][Next]_vars
FairSpec == Spec /\ Fairness

-----------------------------------------------------------------------------
(* Properties. *)

\* Every variable has the values the code can give it.
TypeOK ==
    /\ pc \in {"boot", "gone", "top", "retest", "configure", "notA", "auth", "notABP",
               "badClass", "badClassNotABP", "joining", "nap", "pace", "await", "send", "failed"}
    /\ {uartUp, enabled, connected} \subseteq BOOLEAN
    /\ class \in Classes /\ auth \in Auths /\ joinCfg \in Auths \cup {"none"}
    /\ queue \in Seq(1 .. MaxMessages) /\ Len(queue) <= QueueSize
    /\ msg \subseteq 1 .. MaxMessages /\ Cardinality(msg) <= 1
    /\ <<semPush, semTx, semCb>> \in {0, 1} \X {0, 1} \X {0, 1}
    /\ push \in [Producers -> {"idle", "put", "give"}]
    /\ held \in [Producers -> 0 .. MaxMessages]
    /\ {txCb, rxCb} \subseteq {"idle", "wait", "lines"}
    /\ <<air, pushed, late, expired>> \in Nat \X (0 .. MaxMessages) \X Nat \X Nat
    /\ last \subseteq 1 .. MaxMessages

\* The transmit path is a bounded FIFO pipe: a pushed message is accepted or
\* refused once, refused only by a full queue, and the message the thread holds
\* while it waits is the head of the pipe (LoRa_task.c:329-344, 475-483).
Pending == IF msg = {} THEN queue ELSE <<CHOOSE m \in msg : TRUE>> \o queue
Offering == {held[p] : p \in {q \in Producers : push[q] = "put"}}
Pipe == INSTANCE TxPipe WITH
            Messages <- 1 .. MaxMessages, Capacity <- QueueSize + 1,
            decided <- (1 .. pushed) \ Offering, pipe <- Pending, out <- last
IsPipe == Pipe!Spec

\* Unless a wait for sem_tx_busy has run out since the radio was last idle, at
\* most one send is on the air or under way; each wait that runs out admits one
\* more, for good: the give of the late callback stays in the semaphore.  The
\* ignored result of the wait makes the bound grow (LoRa_task.c:170, 337).
UnderWay == IF pc = "send" THEN 1 ELSE 0
Pacing == air + semTx + UnderWay <= 1 + expired

\* At most one message is sent after a disable: the one the thread was already
\* past its test of var_enabled for (LoRa_task.c:326, 344).
OneLateSend == late <= 1

\* Lines of the two callbacks never mix, and sem_rx_cb is never given twice.
CallbackLines ==
    Cardinality({c \in {1, 2} : <<txCb, rxCb>>[c] = "lines"}) + semCb
        = IF pc \in {"boot", "gone"} THEN 0 ELSE 1

\* Configured for a join only with settings lora_configure accepts.
JoinsConfigured == pc = "joining" \/ connected => joinCfg \in {"ABP", "OTAA"}

\* With a UART the thread comes back to the top of its loop, where it feeds the
\* watchdog, for ever: no semaphore, queue or call can hold it.
FeedsForever == uartUp => []<>(pc \in {"top", "gone"})

\* Once the device stays enabled with valid settings that come to rest, every
\* message in the queue is handed over.  While class or auth go on changing, from
\* one valid value to another, each of the two comparisons may just miss it
\* (LoRa_task.c:102-106, 129-139).
Settled == <>[](enabled /\ ConfigValid) /\ <>[][FALSE]_<<class, auth>>
Drains == uartUp /\ Settled => <>[](queue = <<>> \/ pc = "gone")

\* LoRa_task.c:379, "prohibit sending if lora access now disabled".
NoSendWhenDisabled == late = 0

\* LoRa_task.c:149, "Invalid option, clear the configuration structure".
InvalidAuthClears ==
    [][AuthOTAA /\ auth = "other" => joinCfg' = "none"]_vars

-----------------------------------------------------------------------------
(* Why the invariants hold and the path is a pipe: an inductive invariant. *)

\* The thread holds a message from k_msgq_get to lorawan_send.
MessageInHand ==
    IF pc \in {"await", "send"} THEN \E m \in 1 .. MaxMessages : msg = {m} ELSE msg = {}

\* What the producers are about to put has been pushed, each its own message.
Offers ==
    \A p \in Producers : push[p] = "put" =>
        /\ held[p] \in 1 .. pushed
        /\ \A q \in Producers \ {p} : push[q] = "put" => held[q] # held[p]

\* A thread past its test of var_enabled has sent nothing since the disable.
PastTheTest == pc \in {"pace", "await", "send"} /\ ~enabled => late = 0

IInv ==
    /\ TypeOK /\ MessageInHand /\ Offers /\ PastTheTest
    /\ Pacing /\ OneLateSend /\ CallbackLines /\ JoinsConfigured
=============================================================================
