---------------------------- MODULE LoraTask_proofs ----------------------------
(***************************************************************************)
(* The invariants of LoraTask, and that its transmit path implements       *)
(* TxPipe, for any producers, size of the queue and number of messages.    *)
(***************************************************************************)
EXTENDS LoraTask, FiniteSetTheorems, TLAPS

-----------------------------------------------------------------------------
(* Types. *)

Places == {"boot", "gone", "top", "retest", "configure", "notA", "auth", "notABP",
           "badClass", "badClassNotABP", "joining", "nap", "pace", "await", "send", "failed"}

\* TypeOK variable by variable.
Types ==
    /\ pc \in Places
    /\ uartUp \in BOOLEAN /\ enabled \in BOOLEAN /\ connected \in BOOLEAN
    /\ class \in Classes /\ auth \in Auths /\ joinCfg \in Auths \cup {"none"}
    /\ queue \in Seq(1 .. MaxMessages) /\ Len(queue) <= QueueSize
    /\ msg \in SUBSET (1 .. MaxMessages) /\ Cardinality(msg) <= 1
    /\ semPush \in {0, 1} /\ semTx \in {0, 1} /\ semCb \in {0, 1}
    /\ push \in [Producers -> {"idle", "put", "give"}]
    /\ held \in [Producers -> 0 .. MaxMessages]
    /\ txCb \in {"idle", "wait", "lines"} /\ rxCb \in {"idle", "wait", "lines"}
    /\ air \in Nat /\ pushed \in 0 .. MaxMessages /\ late \in Nat /\ expired \in Nat
    /\ last \in SUBSET (1 .. MaxMessages)

LEMMA TypesAreTypeOK == Types <=> TypeOK
<1>1. \A S : {txCb, rxCb} \subseteq S <=> txCb \in S /\ rxCb \in S
    OBVIOUS
<1>2. {uartUp, enabled, connected} \subseteq BOOLEAN <=>
        uartUp \in BOOLEAN /\ enabled \in BOOLEAN /\ connected \in BOOLEAN
    OBVIOUS
<1>3. \A S : <<semPush, semTx, semCb>> \in S \X S \X S <=> semPush \in S /\ semTx \in S /\ semCb \in S
    OBVIOUS
<1>4. <<air, pushed, late, expired>> \in Nat \X (0 .. MaxMessages) \X Nat \X Nat <=>
        air \in Nat /\ pushed \in 0 .. MaxMessages /\ late \in Nat /\ expired \in Nat
    OBVIOUS
<1>5. \A s, S : s \subseteq S <=> s \in SUBSET S
    OBVIOUS
<1> QED BY <1>1, <1>2, <1>3, <1>4, <1>5, Zenon DEF Types, TypeOK, Places

\* No message and one message are what msg may hold.
LEMMA AtMostOne == Cardinality({}) <= 1 /\ \A m : Cardinality({m}) <= 1
BY FS_EmptySet, FS_Singleton

\* What a get and a put leave of a queue within its size.
LEMMA Dequeue ==
    ASSUME NEW S, NEW q \in Seq(S), q # <<>>
    PROVE  /\ Head(q) \in S /\ Tail(q) \in Seq(S) /\ Len(Tail(q)) = Len(q) - 1
           /\ Len(q) \in Nat /\ <<Head(q)>> \o Tail(q) = q
OBVIOUS

LEMMA Enqueue ==
    ASSUME NEW S, NEW q \in Seq(S), NEW m \in S
    PROVE  /\ Append(q, m) \in Seq(S) /\ Len(Append(q, m)) = Len(q) + 1
           /\ Len(q) \in Nat
OBVIOUS

\* k_msgq_put with K_NO_WAIT keeps the queue within its size.
LEMMA PutInQueue ==
    ASSUME Types, NEW m \in 1 .. MaxMessages,
           queue' = IF Len(queue) < QueueSize THEN Append(queue, m) ELSE queue
    PROVE  queue' \in Seq(1 .. MaxMessages) /\ Len(queue') <= QueueSize
<1>1. queue \in Seq(1 .. MaxMessages) /\ Len(queue) <= QueueSize
    BY DEF Types
<1>2. Append(queue, m) \in Seq(1 .. MaxMessages)
        /\ Len(Append(queue, m)) = Len(queue) + 1 /\ Len(queue) \in Nat
    BY <1>1, Enqueue
<1>3. CASE Len(queue) < QueueSize
    <2>1. queue' = Append(queue, m)
        BY <1>3
    <2> QED BY <1>2, <1>3, <2>1, QueueAssumption
<1>4. CASE ~(Len(queue) < QueueSize)
    BY <1>1, <1>4
<1> QED BY <1>3, <1>4

\* The variables of each part are typed after a step of that part.
LEMMA ThreadTypes == ASSUME Types, Thread PROVE Types'
<1> USE DEF Types, Places, Classes, Auths, Step, config, link, queues, producers, callbacks, radio
<1>1. CASE Boot
    BY <1>1 DEF Boot
<1>2. CASE StartJoin
    BY <1>2 DEF StartJoin
<1>14. CASE NoJoin
    BY <1>14 DEF NoJoin
<1>10. CASE StartSend
    BY <1>10 DEF StartSend
<1>11. CASE Disconnect
    <2>1. connected' \in BOOLEAN
        BY <1>11 DEF Disconnect
    <2>2. pc' \in Places
        BY <1>11 DEF Disconnect
    <2>3. UNCHANGED <<config, joinCfg, queues, producers, callbacks, radio>>
        BY <1>11 DEF Disconnect
    <2> QED BY <2>1, <2>2, <2>3
<1>12. CASE Nap
    BY <1>12 DEF Nap
<1>13. CASE GetNone
    BY <1>13 DEF GetNone
<1>3. CASE ClassA
    BY <1>3 DEF ClassA
<1>15. CASE ClassC
    BY <1>15 DEF ClassC
<1>16. ASSUME NEW a \in Auths, NEW from, NEW yes \in Places, NEW no \in Places,
              CompareAuth(a, from, yes, no)
       PROVE  Types'
    <2>1. pc' \in Places
        BY <1>16 DEF CompareAuth
    <2>2. joinCfg' \in Auths \cup {"none"}
        BY <1>16 DEF CompareAuth
    <2>3. UNCHANGED <<config, connected, queues, producers, callbacks, radio>>
        BY <1>16 DEF CompareAuth
    <2> QED BY <2>1, <2>2, <2>3
<1>17. CASE AuthABP
    BY <1>17, <1>16 DEF AuthABP
<1>18. CASE AuthOTAA
    BY <1>18, <1>16 DEF AuthOTAA
<1>4. ASSUME NEW ok \in BOOLEAN, Join(ok) PROVE Types'
    BY <1>4 DEF Join
<1>5. CASE Get
    <2>1. queue # <<>> /\ queue' = Tail(queue) /\ msg' = {Head(queue)}
        BY <1>5 DEF Get
    <2>2. Head(queue) \in 1 .. MaxMessages /\ queue' \in Seq(1 .. MaxMessages)
            /\ Len(queue') <= QueueSize
        BY <2>1, Dequeue, QueueAssumption
    <2>3. msg' \in SUBSET (1 .. MaxMessages) /\ Cardinality(msg') <= 1
        BY <2>1, <2>2, AtMostOne
    <2> QED BY <1>5, <2>2, <2>3 DEF Get
<1>6. CASE TakeTx
    BY <1>6 DEF TakeTx
<1>8. CASE TakeTxExpired
    BY <1>8 DEF TakeTxExpired
<1>9. CASE ReportFailure
    BY <1>9 DEF ReportFailure
<1>7. ASSUME NEW ok \in BOOLEAN, Send(ok) PROVE Types'
    <2>1. msg' = {} /\ last' = msg /\ Cardinality(msg') <= 1
        BY <1>7, AtMostOne DEF Send
    <2>2. pc' \in Places /\ air' \in Nat /\ expired' \in Nat /\ late' \in Nat
        BY <1>7 DEF Send
    <2> QED BY <1>7, <2>1, <2>2 DEF Send
<1> QED BY <1>1, <1>2, <1>3, <1>4, <1>5, <1>6, <1>7, <1>8, <1>9,
          <1>10, <1>11, <1>12, <1>13, <1>14, <1>15, <1>17, <1>18 DEF Thread, Configure

LEMMA PushTypes ==
    ASSUME Types, NEW p \in Producers, PushTake(p) \/ PushPut(p) \/ PushGive(p),
           push[p] = "put" => held[p] \in 1 .. MaxMessages
    PROVE  Types'
<1> USE DEF Types, Places, Classes, Auths, GotoPush, config, link, queues, producers, callbacks, radio
<1>1. CASE PushTake(p)
    <2>1. pushed + 1 \in 0 .. MaxMessages
        BY <1>1, QueueAssumption DEF PushTake
    <2> QED BY <1>1, <2>1 DEF PushTake
<1>2. CASE PushPut(p)
    <2>1. held[p] \in 1 .. MaxMessages
        BY <1>2 DEF PushPut
    <2>2. queue' \in Seq(1 .. MaxMessages) /\ Len(queue') <= QueueSize
        BY <1>2, <2>1, PutInQueue DEF PushPut
    <2> QED BY <1>2, <2>2 DEF PushPut
<1>3. CASE PushGive(p)
    BY <1>3, QueueAssumption DEF PushGive
<1> QED BY <1>1, <1>2, <1>3

LEMMA OtherTypes ==
    ASSUME Types, Callback \/ SetEnabled \/ SetConfig \/ TestPut
    PROVE  Types'
<1> USE DEF Types, Places, Classes, Auths, config, link, queues, producers, callbacks, radio
<1>1. CASE TxDone
    BY <1>1 DEF TxDone
<1>2. CASE TxCbTake
    BY <1>2 DEF TxCbTake
<1>6. CASE TxCbGive
    BY <1>6 DEF TxCbGive
<1>3. CASE RxData
    BY <1>3 DEF RxData
<1>7. CASE RxCbTake
    BY <1>7 DEF RxCbTake
<1>8. CASE RxCbGive
    BY <1>8 DEF RxCbGive
<1>4. CASE SetEnabled
    BY <1>4 DEF SetEnabled
<1>9. CASE SetConfig
    <2>1. auth' \in Auths
        BY <1>9 DEF SetConfig
    <2>2. class' \in Classes
        BY <1>9 DEF SetConfig
    <2>3. UNCHANGED <<pc, uartUp, enabled, link, queues, producers, callbacks, radio>>
        BY <1>9 DEF SetConfig
    <2> QED BY <2>1, <2>2, <2>3
<1>5. CASE TestPut
    <2>1. pushed + 1 \in 1 .. MaxMessages /\ pushed' = pushed + 1
        BY <1>5, QueueAssumption DEF TestPut
    <2>2. queue' \in Seq(1 .. MaxMessages) /\ Len(queue') <= QueueSize
        BY <1>5, <2>1, PutInQueue DEF TestPut
    <2> QED BY <1>5, <2>1, <2>2 DEF TestPut
<1> QED BY <1>1, <1>2, <1>3, <1>4, <1>5, <1>6, <1>7, <1>8, <1>9 DEF Callback

-----------------------------------------------------------------------------
(* One invariant at a time.  A step that leaves the variables of an         *)
(* invariant alone keeps it.                                                *)

\* A step is one of the thread's, a producer's, or another's.
LEMMA NextCases ==
    Next <=> \/ Thread \/ Callback \/ SetEnabled \/ SetConfig \/ TestPut
             \/ \E p \in Producers : PushTake(p) \/ PushPut(p) \/ PushGive(p)
BY DEF Next

\* Only the thread moves itself, joins, configures and takes a message.
LEMMA OthersLeaveThread ==
    ASSUME [Next]_vars, ~Thread
    PROVE  UNCHANGED <<pc, connected, joinCfg, msg>>
<1> USE DEF config, link, queues, producers, callbacks, radio
<1>1. CASE Callback
    BY <1>1 DEF Callback, TxDone, TxCbTake, TxCbGive, RxData, RxCbTake, RxCbGive
<1>2. CASE SetEnabled \/ SetConfig \/ TestPut
    BY <1>2 DEF SetEnabled, SetConfig, TestPut
<1>3. ASSUME NEW p \in Producers, PushTake(p) \/ PushPut(p) \/ PushGive(p)
      PROVE  UNCHANGED <<pc, connected, joinCfg, msg>>
    BY <1>3 DEF PushTake, PushPut, PushGive
<1>4. CASE UNCHANGED vars
    BY <1>4 DEF vars
<1> QED BY <1>1, <1>2, <1>3, <1>4 DEF Next

\* A join that was configured stays so until the next one is.
LEMMA JoinsConfiguredStep ==
    ASSUME JoinsConfigured, [Next]_vars
    PROVE  JoinsConfigured'
<1> USE DEF JoinsConfigured, Step, link
<1>1. CASE Configure
    BY <1>1 DEF Configure, ClassA, ClassC, AuthABP, AuthOTAA, CompareAuth
<1>2. ASSUME NEW ok \in BOOLEAN, Join(ok) PROVE JoinsConfigured'
    BY <1>2 DEF Join
<1>3. CASE Disconnect
    BY <1>3 DEF Disconnect
<1>4. CASE Boot \/ StartJoin \/ NoJoin \/ StartSend \/ Nap \/ GetNone
    BY <1>4 DEF Boot, StartJoin, NoJoin, StartSend, Nap, GetNone
<1>5. CASE Get \/ TakeTx \/ TakeTxExpired \/ ReportFailure
    BY <1>5 DEF Get, TakeTx, TakeTxExpired, ReportFailure
<1>6. ASSUME NEW ok \in BOOLEAN, Send(ok) PROVE JoinsConfigured'
    BY <1>6 DEF Send
<1>7. CASE ~Thread
    BY <1>7, OthersLeaveThread
<1> QED BY <1>1, <1>2, <1>3, <1>4, <1>5, <1>6, <1>7 DEF Thread

\* The thread takes a message at "pace" and gives it away at "send".
LEMMA MessageInHandStep ==
    ASSUME Types, MessageInHand, [Next]_vars
    PROVE  MessageInHand'
<1> USE DEF MessageInHand, Step, queues
<1>1. CASE Get
    <2>1. queue # <<>> /\ queue \in Seq(1 .. MaxMessages)
        BY <1>1 DEF Get, Types
    <2>2. Head(queue) \in 1 .. MaxMessages
        BY <2>1, Dequeue
    <2> QED BY <1>1, <2>2 DEF Get
<1>2. ASSUME NEW ok \in BOOLEAN, Send(ok) PROVE MessageInHand'
    BY <1>2 DEF Send
<1>3. CASE TakeTx \/ TakeTxExpired
    BY <1>3 DEF TakeTx, TakeTxExpired
<1>4. CASE Boot \/ StartJoin \/ NoJoin \/ StartSend \/ Disconnect \/ Nap \/ GetNone \/ ReportFailure
    BY <1>4 DEF Boot, StartJoin, NoJoin, StartSend, Disconnect, Nap, GetNone, ReportFailure
<1>5. CASE Configure
    BY <1>5 DEF Configure, ClassA, ClassC, AuthABP, AuthOTAA, CompareAuth
<1>6. ASSUME NEW ok \in BOOLEAN, Join(ok) PROVE MessageInHand'
    BY <1>6 DEF Join
<1>7. CASE ~Thread
    BY <1>7, OthersLeaveThread
<1> QED BY <1>1, <1>2, <1>3, <1>4, <1>5, <1>6, <1>7 DEF Thread

\* Nobody but a producer changes what the producers offer; a put of the test
\* thread only counts.
LEMMA OffersStep ==
    ASSUME Types, Offers, [Next]_vars
    PROVE  Offers'
<1> USE DEF Offers, producers
<1>1. ASSUME NEW p \in Producers, PushTake(p) PROVE Offers'
    BY <1>1, QueueAssumption DEF PushTake, GotoPush, Types
<1>2. ASSUME NEW p \in Producers, PushPut(p) PROVE Offers'
    BY <1>2 DEF PushPut, GotoPush, Types
<1>3. ASSUME NEW p \in Producers, PushGive(p) PROVE Offers'
    BY <1>3 DEF PushGive, GotoPush, Types
<1>4. CASE TestPut
    BY <1>4, QueueAssumption DEF TestPut, Types
<1>5. ASSUME UNCHANGED <<push, held, pushed>> PROVE Offers'
    BY <1>5
<1>6. CASE Thread \/ Callback \/ SetEnabled \/ SetConfig \/ UNCHANGED vars
    <2>1. UNCHANGED <<push, held, pushed>>
        BY <1>6 DEF Thread, Boot, StartJoin, NoJoin, StartSend, Disconnect, Configure, ClassA,
                    ClassC, AuthABP, AuthOTAA, CompareAuth, Join, Nap, GetNone, Get, TakeTx,
                    TakeTxExpired, Send, ReportFailure, Callback, TxDone, TxCbTake, TxCbGive,
                    RxData, RxCbTake, RxCbGive, SetEnabled, SetConfig, vars
    <2> QED BY <1>5, <2>1
<1> QED BY <1>1, <1>2, <1>3, <1>4, <1>6 DEF Next

\* The second send after a disable would need a test that found the device
\* enabled, and then a disable, which counts from 0 again.
LEMMA LateStep ==
    ASSUME Types, PastTheTest, OneLateSend, [Next]_vars
    PROVE  PastTheTest' /\ OneLateSend'
<1> USE DEF Types, PastTheTest, OneLateSend, Step, config, radio
<1>1. ASSUME NEW ok \in BOOLEAN, Send(ok) PROVE PastTheTest' /\ OneLateSend'
    BY <1>1 DEF Send
<1>2. CASE SetEnabled
    BY <1>2 DEF SetEnabled
<1>3. CASE StartSend
    BY <1>3 DEF StartSend
<1>4. CASE Get \/ TakeTx \/ TakeTxExpired
    BY <1>4 DEF Get, TakeTx, TakeTxExpired
<1>5. CASE Boot \/ StartJoin \/ NoJoin \/ Disconnect \/ Nap \/ GetNone \/ ReportFailure
    BY <1>5 DEF Boot, StartJoin, NoJoin, Disconnect, Nap, GetNone, ReportFailure
<1>6. CASE Configure
    BY <1>6 DEF Configure, ClassA, ClassC, AuthABP, AuthOTAA, CompareAuth
<1>7. ASSUME NEW ok \in BOOLEAN, Join(ok) PROVE PastTheTest' /\ OneLateSend'
    BY <1>7 DEF Join
<1>8. ASSUME ~Thread, ~SetEnabled PROVE PastTheTest' /\ OneLateSend'
    <2>1. UNCHANGED <<pc, enabled, late>>
        BY <1>8 DEF Next, Callback, TxDone, TxCbTake, TxCbGive, RxData, RxCbTake, RxCbGive,
                    SetConfig, TestPut, PushTake, PushPut, PushGive, vars
    <2> QED BY <2>1
<1> QED BY <1>1, <1>2, <1>3, <1>4, <1>5, <1>6, <1>7, <1>8 DEF Thread

\* How many of two callbacks write a line.
LEMMA TwoCallbacks ==
    ASSUME NEW a, NEW b
    PROVE  Cardinality({c \in {1, 2} : <<a, b>>[c] = "lines"})
             = (IF a = "lines" THEN 1 ELSE 0) + (IF b = "lines" THEN 1 ELSE 0)
<1> DEFINE S == {c \in {1, 2} : <<a, b>>[c] = "lines"}
<1>5. (1 \in S <=> a = "lines") /\ (2 \in S <=> b = "lines") /\ S \subseteq {1, 2}
    OBVIOUS
<1> HIDE DEF S
<1>1. CASE a = "lines" /\ b = "lines"
    <2>1. S = {1} \cup {2}
        BY <1>1, <1>5
    <2>2. IsFiniteSet({1}) /\ Cardinality({1}) = 1
        BY FS_Singleton
    <2>3. Cardinality({1} \cup {2}) = 2
        BY <2>2, FS_AddElement
    <2> QED BY <1>1, <2>1, <2>3
<1>2. CASE a = "lines" /\ b # "lines"
    <2>1. S = {1}
        BY <1>2, <1>5
    <2> QED BY <1>2, <2>1, FS_Singleton
<1>3. CASE a # "lines" /\ b = "lines"
    <2>1. S = {2}
        BY <1>3, <1>5
    <2> QED BY <1>3, <2>1, FS_Singleton
<1>4. CASE a # "lines" /\ b # "lines"
    <2>1. S = {}
        BY <1>4, <1>5
    <2> QED BY <1>4, <2>1, FS_EmptySet
<1> QED BY <1>1, <1>2, <1>3, <1>4 DEF S

\* CallbackLines without the cardinality.
Writing(a, b) == (IF a = "lines" THEN 1 ELSE 0) + (IF b = "lines" THEN 1 ELSE 0)
LinesCount ==
    Writing(txCb, rxCb) + semCb = IF pc \in {"boot", "gone"} THEN 0 ELSE 1

LEMMA LinesCounted == (LinesCount <=> CallbackLines) /\ (LinesCount' <=> CallbackLines')
BY TwoCallbacks DEF LinesCount, CallbackLines, Writing

\* A callback writes only with the semaphore taken, once Boot has given it.
LEMMA LinesStep ==
    ASSUME Types, LinesCount, [Next]_vars
    PROVE  LinesCount'
<1> USE DEF Types, LinesCount, Writing, Step, callbacks
<1>1. CASE Boot
    BY <1>1 DEF Boot
<1>2. CASE TxCbTake
    BY <1>2 DEF TxCbTake
<1>3. CASE TxCbGive
    BY <1>3 DEF TxCbGive
<1>4. CASE RxCbTake
    BY <1>4 DEF RxCbTake
<1>5. CASE RxCbGive
    BY <1>5 DEF RxCbGive
<1>6. CASE TxDone
    BY <1>6 DEF TxDone
<1>7. CASE RxData
    BY <1>7 DEF RxData
<1>8. ASSUME ~Boot, ~Callback
      PROVE  /\ UNCHANGED callbacks
             /\ pc \in {"boot", "gone"} <=> pc' \in {"boot", "gone"}
    BY <1>8 DEF Next, Thread, StartJoin, NoJoin, StartSend, Disconnect, Configure, ClassA,
                ClassC, AuthABP, AuthOTAA, CompareAuth, Join, Nap, GetNone, Get, TakeTx, TakeTxExpired, Send, ReportFailure, SetEnabled, SetConfig,
                TestPut, PushTake, PushPut, PushGive, vars
<1> QED BY <1>1, <1>2, <1>3, <1>4, <1>5, <1>6, <1>7, <1>8 DEF Callback

\* The sum changes with the semaphore, the radio and the thread's place only, and
\* grows by a wait that ran out alone.
LEMMA PacingStep ==
    ASSUME Types, Pacing, [Next]_vars
    PROVE  Pacing'
<1> USE DEF Types, Pacing, UnderWay, Step, radio
<1>1. CASE TakeTx
    BY <1>1 DEF TakeTx
<1>2. CASE TakeTxExpired
    BY <1>2 DEF TakeTxExpired
<1>3. ASSUME NEW ok \in BOOLEAN, Send(ok) PROVE Pacing'
    BY <1>3 DEF Send
<1>4. CASE TxDone
    BY <1>4 DEF TxDone
<1>5. CASE Boot \/ StartJoin \/ NoJoin \/ StartSend \/ Disconnect \/ Nap \/ GetNone \/ Get \/ ReportFailure
    BY <1>5 DEF Boot, StartJoin, NoJoin, StartSend, Disconnect, Nap, GetNone, Get, ReportFailure
<1>6. CASE Configure
    BY <1>6 DEF Configure, ClassA, ClassC, AuthABP, AuthOTAA, CompareAuth
<1>7. ASSUME NEW ok \in BOOLEAN, Join(ok) PROVE Pacing'
    BY <1>7 DEF Join
<1>8. ASSUME ~Thread, ~TxDone PROVE Pacing'
    <2>1. UNCHANGED <<pc, semTx, air, expired>>
        BY <1>8 DEF Next, Callback, TxCbTake, TxCbGive, RxData, RxCbTake, RxCbGive,
                    SetConfig, SetEnabled, TestPut, PushTake, PushPut, PushGive, vars
    <2> QED BY <2>1
<1> QED BY <1>1, <1>2, <1>3, <1>4, <1>5, <1>6, <1>7, <1>8 DEF Thread

-----------------------------------------------------------------------------
(* The invariant. *)

LEMMA InitIInv == Init => IInv
<1> SUFFICES ASSUME Init PROVE IInv
    OBVIOUS
<1>1. queue \in Seq(1 .. MaxMessages) /\ Len(queue) = 0
    BY DEF Init
<1>2. Cardinality(msg) <= 1
    BY AtMostOne DEF Init
<1>3. Types
    <2>1. pc \in Places /\ class \in Classes /\ auth \in Auths /\ joinCfg \in Auths \cup {"none"}
        BY DEF Init, Places, Classes, Auths
    <2>2. /\ uartUp \in BOOLEAN /\ enabled \in BOOLEAN
          /\ connected \in BOOLEAN
        BY DEF Init
    <2>3. /\ push \in [Producers -> {"idle", "put", "give"}]
          /\ held \in [Producers -> 0 .. MaxMessages]
        BY QueueAssumption DEF Init
    <2>4. /\ msg \subseteq 1 .. MaxMessages /\ last \subseteq 1 .. MaxMessages
          /\ semPush \in {0, 1} /\ semTx \in {0, 1} /\ semCb \in {0, 1}
          /\ txCb \in {"idle", "wait", "lines"} /\ rxCb \in {"idle", "wait", "lines"}
          /\ air \in Nat /\ pushed \in 0 .. MaxMessages /\ late \in Nat /\ expired \in Nat
        BY QueueAssumption DEF Init
    <2> QED BY <1>1, <1>2, <2>1, <2>2, <2>3, <2>4, QueueAssumption DEF Types
<1>4. MessageInHand /\ Offers /\ PastTheTest /\ OneLateSend /\ JoinsConfigured
    BY DEF Init, MessageInHand, Offers, PastTheTest, OneLateSend, JoinsConfigured
<1>5. Pacing
    BY DEF Init, Pacing, UnderWay
<1>6. LinesCount
    BY DEF Init, LinesCount, Writing
<1> QED BY <1>3, <1>4, <1>5, <1>6, TypesAreTypeOK, LinesCounted DEF IInv

LEMMA TypeStep == ASSUME Types, Offers, [Next]_vars PROVE Types'
<1>1. CASE UNCHANGED vars
    BY <1>1 DEF vars, config, link, queues, producers, callbacks, radio, Types
<1>2. ASSUME NEW p \in Producers, PushTake(p) \/ PushPut(p) \/ PushGive(p)
      PROVE  Types'
    <2>1. push[p] = "put" => held[p] \in 1 .. MaxMessages
        BY QueueAssumption DEF Offers, Types
    <2> QED BY <1>2, <2>1, PushTypes
<1> QED BY <1>1, <1>2, ThreadTypes, OtherTypes, NextCases

LEMMA StepIInv == IInv /\ [Next]_vars => IInv'
<1>1. Types' <=> TypeOK'
    BY TypesAreTypeOK, PTL
<1> QED BY <1>1, TypesAreTypeOK, LinesCounted, TypeStep, MessageInHandStep, OffersStep, LateStep,
   PacingStep, LinesStep, JoinsConfiguredStep DEF IInv

\* The inductive invariant.
THEOREM IInvariant == Spec => []IInv
BY InitIInv, StepIInv, PTL DEF Spec

\* Every variable keeps its type, the queue its size.
THEOREM TypeCorrect == Spec => []TypeOK
<1>1. IInv => TypeOK
    BY DEF IInv
<1> QED BY <1>1, IInvariant, PTL

\* At most one send is under way, and one more for each wait that ran out since
\* the radio was idle (LoRa_task.c:170, 337).
THEOREM SendsArePaced == Spec => []Pacing
<1>1. IInv => Pacing
    BY DEF IInv
<1> QED BY <1>1, IInvariant, PTL

\* At most one message leaves after a disable (LoRa_task.c:326, 344).
THEOREM LateSendIsOne == Spec => []OneLateSend
<1>1. IInv => OneLateSend
    BY DEF IInv
<1> QED BY <1>1, IInvariant, PTL

\* The callbacks' lines never mix (LoRa_task.c:174, 208).
THEOREM LinesAreWhole == Spec => []CallbackLines
<1>1. IInv => CallbackLines
    BY DEF IInv
<1> QED BY <1>1, IInvariant, PTL

\* No join without settings lora_configure accepts (LoRa_task.c:296-305).
THEOREM JoinsAreConfigured == Spec => []JoinsConfigured
<1>1. IInv => JoinsConfigured
    BY DEF IInv
<1> QED BY <1>1, IInvariant, PTL

-----------------------------------------------------------------------------
(* The refinement of TxPipe. *)

Decided == (1 .. pushed) \ Offering

\* With one message in hand the pipe is that message and the queue behind it.
LEMMA PendingIs ==
    /\ msg = {} => Pending = queue
    /\ \A m : msg = {m} => Pending = <<m>> \o queue
    /\ msg' = {} => Pending' = queue'
    /\ \A m : msg' = {m} => Pending' = <<m>> \o queue'
BY DEF Pending

\* The pipe behind the message in hand.
LEMMA InFront ==
    ASSUME NEW S, NEW q \in Seq(S), NEW m \in S
    PROVE  /\ <<m>> \o q # <<>> /\ Head(<<m>> \o q) = m /\ Tail(<<m>> \o q) = q
           /\ Len(<<m>> \o q) = Len(q) + 1
           /\ \A n \in S : Append(<<m>> \o q, n) = <<m>> \o Append(q, n)
OBVIOUS

\* A step that touches neither the queue, the message in hand nor a push does
\* nothing to the pipe.
LEMMA Stutters ==
    ASSUME UNCHANGED <<queue, msg, last, pushed, push, held>>
    PROVE  UNCHANGED <<Decided, Pending, last>>
BY DEF Decided, Pending, Offering

\* A put into the queue is accepted or refused by the pipe: the queue is full
\* exactly when the pipe is, or lacks the place of the message in hand.
LEMMA PutDecides ==
    ASSUME Types, MessageInHand, NEW m \in 1 .. MaxMessages, UNCHANGED <<msg, last>>,
           queue' = IF Len(queue) < QueueSize THEN Append(queue, m) ELSE queue,
           m \notin Decided, Decided' = Decided \cup {m}
    PROVE  Pipe!Accept(m) \/ Pipe!Refuse(m)
<1> DEFINE Cap == QueueSize + 1
<1>1. /\ queue \in Seq(1 .. MaxMessages) /\ Len(queue) \in Nat /\ Len(queue) <= QueueSize
      /\ QueueSize \in Nat
    BY QueueAssumption DEF Types
<1>2. Pipe!Decide(m)
    BY DEF Pipe!Decide, Decided
<1>3. /\ Len(Pending) \in Nat /\ Len(queue) <= Len(Pending) /\ Len(Pending) <= Len(queue) + 1
      /\ queue' = queue => Pending' = Pending
      /\ queue' = Append(queue, m) => Pending' = Append(Pending, m)
    <2>1. CASE msg = {}
        BY <2>1, <1>1, PendingIs
    <2>2. CASE msg # {}
        <3>1. PICK n \in 1 .. MaxMessages : msg = {n}
            BY <2>2 DEF MessageInHand
        <3>2. Pending = <<n>> \o queue /\ Pending' = <<n>> \o queue'
            BY <3>1, PendingIs
        <3>3. /\ Len(<<n>> \o queue) = Len(queue) + 1
              /\ Append(<<n>> \o queue, m) = <<n>> \o Append(queue, m)
            BY <1>1, InFront
        <3> QED BY <3>2, <3>3, <1>1
    <2> QED BY <2>1, <2>2
<1>4. CASE Len(queue) < QueueSize
    <2>1. queue' = Append(queue, m)
        BY <1>4
    <2>2. Len(Pending) < Cap
        BY <1>1, <1>3, <1>4
    <2> QED BY <1>2, <1>3, <2>1, <2>2 DEF Pipe!Accept
<1>5. CASE ~(Len(queue) < QueueSize)
    <2>1. queue' = queue
        BY <1>5
    <2>2. Len(Pending) + 1 >= Cap
        BY <1>1, <1>3, <1>5
    <2> QED BY <1>2, <1>3, <2>1, <2>2 DEF Pipe!Refuse
<1> QED BY <1>4, <1>5

LEMMA PipeInit == Init => Pipe!Init
<1> SUFFICES ASSUME Init PROVE Pipe!Init
    OBVIOUS
<1>1. 1 .. pushed = {}
    BY DEF Init
<1>2. Pending = <<>>
    BY PendingIs DEF Init
<1> QED BY <1>1, <1>2 DEF Init, Pipe!Init

LEMMA PipeStep ==
    ASSUME Types, MessageInHand, Offers, [Next]_vars
    PROVE  Pipe!Next \/ UNCHANGED <<Decided, Pending, last>>
<1>1. pushed \in 0 .. MaxMessages /\ MaxMessages \in Nat
    BY QueueAssumption DEF Types
<1>2. CASE Get
    <2>1. queue \in Seq(1 .. MaxMessages) /\ queue # <<>> /\ msg = {}
        BY <1>2 DEF Get, Step, Types, MessageInHand
    <2>2. msg' = {Head(queue)} /\ queue' = Tail(queue) /\ <<Head(queue)>> \o Tail(queue) = queue
        BY <1>2, <2>1, Dequeue DEF Get
    <2>3. Pending = queue /\ Pending' = queue
        BY <2>1, <2>2, PendingIs
    <2>4. UNCHANGED <<Decided, last>>
        BY <1>2 DEF Get, producers, radio, Decided, Offering
    <2> QED BY <2>3, <2>4
<1>3. ASSUME NEW ok \in BOOLEAN, Send(ok) PROVE Pipe!Next
    <2>1. PICK m \in 1 .. MaxMessages : msg = {m}
        BY <1>3 DEF Send, Step, MessageInHand
    <2>2. last' = {m} /\ msg' = {} /\ queue' = queue
        BY <1>3, <2>1 DEF Send
    <2>3. /\ <<m>> \o queue # <<>> /\ Head(<<m>> \o queue) = m
          /\ Tail(<<m>> \o queue) = queue
        BY InFront DEF Types
    <2>4. Pending = <<m>> \o queue /\ Pending' = queue
        BY <2>1, <2>2, PendingIs
    <2>5. UNCHANGED Decided
        BY <1>3 DEF Send, producers, Decided, Offering
    <2> QED BY <2>2, <2>3, <2>4, <2>5 DEF Pipe!Next, Pipe!HandOver, Decided
<1>4. ASSUME NEW p \in Producers, PushTake(p)
      PROVE  UNCHANGED <<Decided, Pending, last>>
    <2>1. UNCHANGED <<Pending, last>>
        BY <1>4 DEF PushTake, queues, radio, Pending
    <2>2. /\ pushed' = pushed + 1 /\ push[p] = "idle"
          /\ push' = [push EXCEPT ![p] = "put"] /\ held' = [held EXCEPT ![p] = pushed + 1]
        BY <1>4 DEF PushTake, GotoPush
    <2>3. Offering' = Offering \cup {pushed + 1}
        BY <2>2 DEF Offering, Types
    <2>4. \A n \in Offering : n \in 1 .. pushed
        BY DEF Offering, Offers
    <2>5. 1 .. pushed' = (1 .. pushed) \cup {pushed + 1} /\ pushed + 1 \notin 1 .. pushed
        BY <1>1, <2>2
    <2>6. UNCHANGED Decided
        BY <2>3, <2>4, <2>5 DEF Decided
    <2> QED BY <2>1, <2>6
<1>5. ASSUME NEW p \in Producers, PushPut(p) PROVE Pipe!Next
    <2>1. /\ push[p] = "put" /\ push' = [push EXCEPT ![p] = "give"]
          /\ UNCHANGED <<held, pushed, msg, last>>
          /\ queue' = IF Len(queue) < QueueSize THEN Append(queue, held[p]) ELSE queue
        BY <1>5 DEF PushPut, GotoPush, radio
    <2>2. held[p] \in 1 .. pushed /\ held[p] \in 1 .. MaxMessages
        BY <2>1, <1>1 DEF Offers
    <2>3. held[p] \in Offering /\ Offering' = Offering \ {held[p]}
        BY <2>1 DEF Offering, Types, Offers
    <2>4. held[p] \notin Decided /\ Decided' = Decided \cup {held[p]}
        BY <2>1, <2>2, <2>3 DEF Decided
    <2>5. Pipe!Accept(held[p]) \/ Pipe!Refuse(held[p])
        BY <2>1, <2>2, <2>4, PutDecides
    <2> QED BY <2>2, <2>5 DEF Pipe!Next
<1>6. ASSUME NEW p \in Producers, PushGive(p)
      PROVE  UNCHANGED <<Decided, Pending, last>>
    <2>1. UNCHANGED <<Pending, last>>
        BY <1>6 DEF PushGive, queues, radio, Pending
    <2>2. /\ UNCHANGED pushed /\ push[p] = "give"
          /\ push' = [push EXCEPT ![p] = "idle"] /\ held' = [held EXCEPT ![p] = 0]
        BY <1>6 DEF PushGive, GotoPush
    <2>3. Offering' = Offering
        BY <2>2 DEF Offering, Types
    <2> QED BY <2>1, <2>2, <2>3 DEF Decided
<1>7. CASE TestPut
    <2>1. /\ pushed < MaxMessages /\ pushed' = pushed + 1
          /\ UNCHANGED <<push, held, msg, last>>
          /\ queue' = IF Len(queue) < QueueSize THEN Append(queue, pushed + 1) ELSE queue
        BY <1>7 DEF TestPut, radio
    <2>2. pushed + 1 \in 1 .. MaxMessages
        BY <1>1, <2>1
    <2>3. Offering' = Offering /\ \A n \in Offering : n \in 1 .. pushed
        BY <2>1 DEF Offering, Offers
    <2>4. 1 .. pushed' = (1 .. pushed) \cup {pushed + 1} /\ pushed + 1 \notin 1 .. pushed
        BY <1>1, <2>1
    <2>5. pushed + 1 \notin Decided /\ Decided' = Decided \cup {pushed + 1}
        BY <2>3, <2>4 DEF Decided
    <2>6. Pipe!Accept(pushed + 1) \/ Pipe!Refuse(pushed + 1)
        BY <2>1, <2>2, <2>5, PutDecides
    <2> QED BY <2>2, <2>6 DEF Pipe!Next
<1>8. ASSUME \/ Boot \/ StartJoin \/ NoJoin \/ StartSend \/ Disconnect \/ Configure \/ Nap \/ GetNone
             \/ TakeTx \/ TakeTxExpired \/ ReportFailure \/ \E ok \in BOOLEAN : Join(ok)
             \/ Callback \/ SetEnabled \/ SetConfig \/ UNCHANGED vars
      PROVE  UNCHANGED <<Decided, Pending, last>>
    <2>1. UNCHANGED <<queue, msg, last, pushed, push, held>>
        BY <1>8 DEF Boot, StartJoin, NoJoin, StartSend, Disconnect, Configure, ClassA, ClassC, AuthABP,
                    AuthOTAA, CompareAuth, Nap, GetNone, TakeTx,
                    TakeTxExpired, ReportFailure, Join, Callback, TxDone, TxCbTake, TxCbGive,
                    RxData, RxCbTake, RxCbGive, SetEnabled, SetConfig, vars, queues, producers,
                    radio
    <2> QED BY <2>1, Stutters
<1> QED BY <1>2, <1>3, <1>4, <1>5, <1>6, <1>7, <1>8 DEF Next, Thread

\* The transmit path is a bounded pipe: no message is lost after it was accepted,
\* none is sent twice or out of order (LoRa_task.c:329-344, 475-483).
THEOREM ImplementsPipe == Spec => IsPipe
<1>1. IInv /\ [Next]_vars => [Pipe!Next]_(Pipe!pipeVars)
    BY TypesAreTypeOK, PipeStep DEF IInv, Pipe!pipeVars, Decided
<1> QED BY <1>1, PipeInit, IInvariant, PTL DEF Spec, IsPipe, Pipe!Spec
================================================================================
