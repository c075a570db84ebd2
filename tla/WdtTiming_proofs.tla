-------------------------- MODULE WdtTiming_proofs --------------------------
(***************************************************************************)
(* What the timing rule of WdtTiming is worth, for any threads, gaps,      *)
(* sleeps and timeout that satisfy its assumptions.                        *)
(***************************************************************************)
EXTENDS WdtTiming, TLAPS

LEMMA GapType == \A t \in Threads : Gap[t] \in Nat /\ 1 <= Gap[t]
BY ThreadAssumption

LEMMA TypeStep == TypeOK /\ [Next]_vars => TypeOK'
<1> SUFFICES ASSUME TypeOK, [Next]_vars PROVE TypeOK'
  OBVIOUS
<1> USE GapType, TimeAssumption DEF TypeOK, hardware, Live, Due
<1>1. CASE UNCHANGED vars
  BY <1>1 DEF vars
<1>2. ASSUME NEW t \in Threads, Enrol(t) PROVE TypeOK'
  BY <1>2 DEF Enrol
<1>3. ASSUME NEW t \in Threads, Feed(t) PROVE TypeOK'
  BY <1>3 DEF Feed
<1>4. ASSUME NEW t \in Threads, FeedLost(t) PROVE TypeOK'
  BY <1>4 DEF FeedLost
<1>5. ASSUME NEW t \in Threads, Hang(t) PROVE TypeOK'
  BY <1>5 DEF Hang
<1>6. CASE Setup
  BY <1>6 DEF Setup
<1>7. CASE Look
  <2>1. age' \in 0 .. Timeout /\ wtimer' \in Nat /\ agg' \subseteq mask
    BY <1>7 DEF Look
  <2>2. slip' \in BOOLEAN
    BY <1>7 DEF Look
  <2> QED BY <1>7, <2>1, <2>2 DEF Look
<1>8. CASE Rescue
  BY <1>8 DEF Rescue
<1>9. CASE Reset
  <2>1. left' \in [Threads -> Nat] /\ \A t \in Threads : left'[t] <= Gap[t]
    BY <1>9 DEF Reset
  <2>2. age' \in 0 .. Timeout /\ wtimer' \in Nat /\ hangFor' \in Nat
    BY <1>9 DEF Reset
  <2> QED BY <1>9, <2>1, <2>2 DEF Reset
<1>10. CASE Tick
  <2>1. left' \in [Threads -> Nat] /\ \A t \in Threads : left'[t] <= Gap[t]
    BY <1>10 DEF Tick
  <2>2. age' \in 0 .. Timeout /\ wtimer' \in Nat /\ hangFor' \in Nat
    BY <1>10 DEF Tick
  <2> QED BY <1>10, <2>1, <2>2 DEF Tick
<1> QED
  BY <1>1, <1>2, <1>3, <1>4, <1>5, <1>6, <1>7, <1>8, <1>9, <1>10 DEF Next

\* Every clock stays within its range.
THEOREM TypeCorrect == Spec => []TypeOK
<1>1. Init => TypeOK
  <2> SUFFICES ASSUME Init PROVE TypeOK
    OBVIOUS
  <2>1. left \in [Threads -> Nat] /\ \A t \in Threads : left[t] <= Gap[t]
    BY GapType DEF Init
  <2>2. age \in 0 .. Timeout /\ wtimer \in Nat /\ hangFor \in Nat
    BY TimeAssumption DEF Init
  <2> QED BY <2>1, <2>2 DEF Init, TypeOK
<1> QED BY <1>1, TypeStep, PTL DEF Spec

LEMMA OnTimeStep == TypeOK /\ OnTime /\ [Next]_vars => OnTime'
<1> SUFFICES ASSUME TypeOK, OnTime, [Next]_vars, hung' = {} PROVE OnTime'
  BY DEF OnTime
<1> DEFINE Ready == dog = "on" => age + wtimer < Timeout
           Fits == \A t \in mask \ agg : left[t] > 0 => age + left[t] <= Deadline
<1> USE GapType, TimeAssumption DEF TypeOK, hardware, Live, Due, Deadline
<1>f. \A t \in Threads : left[t] <= Deadline
  BY GapAssumption
<1>s. SUFFICES hung = {} => ~spin' /\ (~slip' => Ready' /\ Fits')
  <2>1. ASSUME hung # {} PROVE OnTime'
    <3>1. UNCHANGED vars \/ Reset \/ (Next /\ hung \subseteq hung')
      BY DEF Next, Enrol, Feed, FeedLost, Hang, Setup, Look, Rescue, Tick
    <3>2. CASE Reset
      BY <3>2 DEF Reset, OnTime
    <3> QED BY <2>1, <3>1, <3>2 DEF vars
  <2> QED BY <2>1 DEF OnTime
<1> SUFFICES ASSUME hung = {} PROVE ~spin' /\ (~slip' => Ready' /\ Fits')
  OBVIOUS
<1>a. ~spin /\ (~slip => Ready /\ Fits)
  BY DEF OnTime
<1>1. CASE UNCHANGED vars
  BY <1>1, <1>a DEF vars
<1>2. ASSUME NEW t \in Threads, Enrol(t) PROVE ~spin' /\ (~slip' => Ready' /\ Fits')
  BY <1>2, <1>a DEF Enrol
<1>3. ASSUME NEW t \in Threads, Feed(t) PROVE ~spin' /\ (~slip' => Ready' /\ Fits')
  BY <1>3, <1>a DEF Feed
<1>4. ASSUME NEW t \in Threads, FeedLost(t) PROVE ~spin' /\ (~slip' => Ready' /\ Fits')
  <2>1. PICK g \in 1 .. Gap[t] : left' = [left EXCEPT ![t] = g]
    BY <1>4 DEF FeedLost
  <2>2. /\ UNCHANGED <<dog, age, wtimer, mask, agg, spin>>
        /\ slip' = (slip \/ age + Gap[t] > Deadline)
    BY <1>4 DEF FeedLost
  <2>3. \A u \in Threads : left'[u] = IF u = t THEN g ELSE left[u]
    BY <2>1
  <2>4. ~slip' => ~slip /\ ~(age + Gap[t] > Deadline)
    BY <2>2, Zenon
  <2> QED BY <1>a, <2>2, <2>3, <2>4
<1>5. ASSUME NEW t \in Threads, Hang(t) PROVE FALSE
  <2>1. Prio[t] <= Prio[t]
    BY ThreadAssumption
  <2> QED BY <1>5, <2>1 DEF Hang
<1>6. CASE Setup
  BY <1>6, <1>a, <1>f DEF Setup
<1>7. CASE Look
  <2>1. UNCHANGED <<dog, mask, left, spin>> /\ \A t \in mask : left[t] > 0
    BY <1>7 DEF Look
  <2>2. CASE agg = mask
    BY <1>7, <1>a, <1>f, <2>1, <2>2 DEF Look
  <2>3. CASE agg # mask
    <3>1. UNCHANGED <<age, agg, slip>> /\ wtimer' = Tenth
      BY <1>7, <2>3 DEF Look
    <3>2. PICK t \in mask : t \notin agg
      BY <2>3
    <3>3. ~slip => age + Tenth < Timeout
      BY <1>a, <2>1, <3>2
    <3> QED BY <1>a, <2>1, <3>1, <3>3
  <2> QED BY <2>2, <2>3
<1>8. CASE Rescue
  BY <1>8, <1>a DEF Rescue
<1>9. CASE Reset
  BY <1>9 DEF Reset
<1>10. CASE Tick
  <2>1. UNCHANGED <<dog, mask, agg, spin, slip>> /\ dog # "off"
    BY <1>10, <1>a DEF Tick
  <2>2. \A t \in mask : left'[t] = left[t] - 1 /\ left[t] > 0
    BY <1>10 DEF Tick
  <2>3. CASE dog = "on"
    <3>1. age' = age + 1 /\ age' + wtimer' = age + wtimer
      BY <1>10, <1>a, <2>3 DEF Tick
    <3> QED BY <1>a, <2>1, <2>2, <3>1
  <2>4. CASE dog # "on"
    <3>1. UNCHANGED <<age, wtimer>>
      BY <1>10, <2>4 DEF Tick
    <3> QED BY <1>a, <2>1, <2>2, <2>4, <3>1
  <2> QED BY <2>3, <2>4
<1> QED
  BY <1>1, <1>2, <1>3, <1>4, <1>5, <1>6, <1>7, <1>8, <1>9, <1>10 DEF Next

\* While nobody is hung and no loss came too late, the missing reports are due by
\* the deadline and the watchdog thread looks before the hardware expires.
THEOREM AlwaysOnTime == Spec => []OnTime
<1>1. Init => OnTime
  BY TimeAssumption DEF Init, OnTime
<1> QED BY <1>1, OnTimeStep, TypeCorrect, PTL DEF Spec

\* A device whose threads are all alive lets the hardware expire only after a
\* report was lost too late for the next to meet the deadline: otherwise the rule
\* GapAssumption is enough, whatever the threads, gaps and sleeps, however many
\* reports are lost and whenever threads register.
THEOREM NeverSpurious == Spec => []NoSpuriousExpiry
<1>1. TypeOK /\ OnTime => NoSpuriousExpiry
  BY TimeAssumption DEF TypeOK, OnTime, NoSpuriousExpiry
<1> QED BY <1>1, AlwaysOnTime, TypeCorrect, PTL

-----------------------------------------------------------------------------
(* How soon a hung thread is noticed. *)

LEMMA DetectedStep == TypeOK /\ Detected /\ [Next]_vars => Detected'
<1> SUFFICES ASSUME TypeOK, Detected, [Next]_vars PROVE Detected'
  OBVIOUS
<1> USE TimeAssumption DEF TypeOK, hardware, Live
<1>1. CASE UNCHANGED vars
  BY <1>1 DEF vars, Detected, Accounted
<1>2. ASSUME NEW t \in Threads, Enrol(t) \/ Feed(t) \/ FeedLost(t) PROVE Detected'
  <2>1. UNCHANGED <<dog, age, handled, hung, spin, hangFor>>
    BY <1>2 DEF Enrol, Feed, FeedLost
  <2>2. hung' \cap mask' = hung \cap mask /\ (Accounted' <=> Accounted)
    BY <1>2 DEF Enrol, Feed, FeedLost, Due, Accounted
  <2> QED BY <2>1, <2>2 DEF Detected
<1>3. ASSUME NEW t \in Threads, Hang(t) PROVE Detected'
  <2>1. UNCHANGED <<dog, age, handled, mask, agg, hangFor>>
    BY <1>3 DEF Hang
  <2>2. t \in hung' \cap mask' /\ hung \subseteq hung' /\ (Accounted' => Accounted)
    BY <1>3, <2>1, ThreadAssumption DEF Hang, Accounted
  <2> QED BY <2>1, <2>2 DEF Detected
<1>4. CASE Setup
  BY <1>4 DEF Setup, Detected
<1>5. CASE Look
  <2>1. dog = "on" /\ UNCHANGED <<dog, handled, mask, hung, spin, hangFor>>
    BY <1>5 DEF Look
  <2>2. CASE agg = mask
    <3>1. age' = 0 /\ agg' = {} /\ Accounted
      BY <1>5, <2>2 DEF Look, Accounted
    <3>2. hung # {} => ~Accounted'
      BY <2>1, <3>1 DEF Detected, Accounted
    <3> QED BY <2>1, <3>1, <3>2 DEF Detected
  <2>3. CASE agg # mask
    <3>1. UNCHANGED <<age, agg>>
      BY <1>5, <2>3 DEF Look
    <3> QED BY <2>1, <3>1 DEF Detected, Accounted
  <2> QED BY <2>2, <2>3
<1>6. CASE Rescue
  BY <1>6 DEF Rescue, Detected, Accounted
<1>7. CASE Reset
  BY <1>7 DEF Reset, Detected
<1>8. CASE Tick
  <2>1. UNCHANGED <<dog, handled, mask, agg, hung, spin>> /\ (Accounted' <=> Accounted)
    BY <1>8 DEF Tick, Accounted
  <2>2. CASE dog # "on"
    BY <1>8, <2>1, <2>2 DEF Tick, Detected
  <2>3. CASE dog = "on"
    <3>1. /\ age' = age + 1 /\ hangFor' <= hangFor + 1
          /\ hung = {} => hangFor' = hangFor
      BY <1>8, <2>3 DEF Tick
    <3>2. hangFor' \in Nat
      BY <1>8 DEF Tick
    <3> QED BY <2>1, <2>3, <3>1, <3>2 DEF Detected
  <2> QED BY <2>2, <2>3
<1> QED
  BY <1>1, <1>2, <1>3, <1>4, <1>5, <1>6, <1>7, <1>8 DEF Next

\* A thread hung under a running watchdog resets the device within two timeouts
\* of the hang, three when the callback's feed is accepted: for any threads and
\* any lengths that satisfy the timing rule, whatever reports are lost.
THEOREM DetectedInTime == Spec => []DetectBound
<1>1. Init => Detected
  BY DEF Init, Detected
<1>2. TypeOK /\ Detected => DetectBound
  BY TimeAssumption DEF TypeOK, Detected, DetectBound
<1> QED BY <1>1, <1>2, DetectedStep, TypeCorrect, PTL DEF Spec

-----------------------------------------------------------------------------
(* In time, too, the component is the Watchdog of the abstract module. *)

LEMMA WatchdogStep == TypeOK /\ [Next]_vars => [W!Next]_<<mask, agg>>
<1> SUFFICES ASSUME TypeOK, [Next]_vars PROVE W!Next \/ UNCHANGED <<mask, agg>>
  OBVIOUS
<1>1. CASE UNCHANGED vars
  BY <1>1 DEF vars
<1>2. ASSUME NEW t \in Threads, Enrol(t) PROVE W!Enrol(t)
  BY <1>2 DEF Enrol, W!Enrol
<1>3. ASSUME NEW t \in Threads, Feed(t) PROVE W!Report(t)
  <2>1. t \in mask /\ mask' = mask /\ agg' = (agg \ {}) \cup {t}
    BY <1>3 DEF Feed, Due, Live
  <2> QED BY <2>1 DEF W!Report
<1>4. ASSUME NEW t \in Threads, FeedLost(t) \/ Hang(t) PROVE UNCHANGED <<mask, agg>>
  BY <1>4 DEF FeedLost, Hang
<1>5. CASE Look
  BY <1>5 DEF Look, W!Feed, W!Next
<1>6. CASE Reset
  BY <1>6 DEF Reset, W!Restart, W!Next
<1>7. CASE Setup \/ Rescue \/ Tick
  BY <1>7 DEF Setup, Rescue, Tick
<1> QED BY <1>1, <1>2, <1>3, <1>4, <1>5, <1>6, <1>7 DEF Next, W!Next

\* The hardware is fed by the thread's loop only when everyone registered has
\* reported since it was last fed or reset.
THEOREM ImplementsWatchdog == Spec => IsWatchdog
<1>1. Init => W!Init
  BY DEF Init, W!Init
<1> QED BY <1>1, WatchdogStep, TypeCorrect, PTL DEF Spec, IsWatchdog, W!Spec
=============================================================================
