--------------------------- MODULE WdtTask_proofs ---------------------------
(***************************************************************************)
(* Theorems about WdtTask for every set of client threads, every priority  *)
(* and every width.  Registrations overlap only when a late thread         *)
(* interrupts one; as long as none do the threads report in separately,    *)
(* the hardware is fed only when all of them did, and the bytes implement  *)
(* Watchdog.                                                               *)
(***************************************************************************)
EXTENDS WdtTask, FiniteSetTheorems, TLAPS

\* All the program-counter sets, to be expanded together.
LEMMA PcSets ==
    /\ Blocked = {"boot", "asleep", "gone"}
    /\ Runnable = {"start", "awake"}
    /\ Registering = {"scanned", "masked"}
    /\ Enrolled = {"enrolled", "awake", "loaded", "asleep"}
    /\ Leaving = {"leaving", "unmasked", "uncounted"}
BY DEF Blocked, Runnable, Registering, Enrolled, Leaving

\* wdt_register_thread's scan, when the bits in use are 0 .. c - 1 and one is
\* free: it returns bit c.
LEMMA NewIdLemma ==
    ASSUME NEW c \in Nat, c < Width
    PROVE  NewId(0 .. c - 1, c) = {c} /\ c \in Bits
<1>1. c \in Bits
  BY WidthAssumption DEF Bits
<1>2. \A i \in 0 .. c : Byte(i) = {i}
  BY WidthAssumption DEF Byte, Bits
<1>3. OpenBits(0 .. c - 1, c) = {c}
  <2>1. \A i \in 0 .. c : Byte(i) \cap (0 .. c - 1) = {} <=> i = c
    BY <1>2
  <2> QED BY <2>1 DEF OpenBits
<1> QED BY <1>1, <1>2, <1>3 DEF NewId

\* Every thread that is not enrolled leaves a bit to spare.
LEMMA CountBound ==
    ASSUME EnoughBits, TypeOK, Numbering, NEW t \in Threads, pc[t] \notin Enrolled
    PROVE  count \in Nat /\ count < Width
<1>1. IsFiniteSet(Threads)
  BY ThreadsAssumption
<1>2. Counted \subseteq Threads /\ t \notin Counted
  BY DEF Counted
<1>3. Cardinality(Counted) < Cardinality(Threads) /\ IsFiniteSet(Counted)
  <2>1. Counted # Threads
    BY <1>2
  <2>2. Counted \in SUBSET Threads
    BY <1>2
  <2>3. IsFiniteSet(Counted) /\ Cardinality(Counted) <= Cardinality(Threads)
    BY <1>1, <2>2, FS_Subset
  <2>4. Cardinality(Counted) = Cardinality(Threads) => Counted = Threads
    BY <1>1, <2>2, FS_Subset
  <2>5. Cardinality(Counted) \in Nat /\ Cardinality(Threads) \in Nat
    BY <1>1, <2>3, FS_CardinalityType
  <2> QED BY <2>1, <2>3, <2>4, <2>5
<1>4. Cardinality(Counted) \in Nat /\ Cardinality(Threads) \in Nat
  BY <1>1, <1>3, FS_CardinalityType
<1> QED BY <1>3, <1>4, WidthAssumption DEF EnoughBits, Numbering

LEMMA InitIInv == Init => IInv
<1> SUFFICES ASSUME Init PROVE IInv
  OBVIOUS
<1> USE PcSets, ThreadsAssumption, WidthAssumption DEF Init
<1>1. TypeOK
  BY DEF TypeOK, Bits, Wrap
<1>2. NobodyLeaves
  BY DEF NobodyLeaves
<1>3. Numbering
  <2>1. Counted = {}
    BY DEF Counted
  <2>2. Cardinality(Counted) = 0
    BY <2>1, FS_EmptySet
  <2> QED BY <2>1, <2>2 DEF Numbering
<1>4. Reports
  BY DEF Reports, HonestAgg, Counted
<1>5. Nested
  BY DEF Nested
<1> QED BY <1>1, <1>2, <1>3, <1>4, <1>5 DEF IInv

-----------------------------------------------------------------------------
(* Type correctness needs no assumption on the order of registration. *)

LEMMA NewIdType == \A m, c : NewId(m, c) \subseteq Bits
BY DEF NewId, Byte

LEMMA TypeStep == TypeOK /\ [Next]_vars => TypeOK'
<1> SUFFICES ASSUME TypeOK, [Next]_vars PROVE TypeOK'
  OBVIOUS
<1> USE PcSets, ThreadsAssumption DEF TypeOK, Goto, client
<1>1. CASE UNCHANGED vars
  BY <1>1 DEF vars
<1>2. CASE WdtSetup \/ WdtFeed \/ WdtClear
  BY <1>2 DEF WdtSetup, WdtFeed, WdtClear
<1>3. ASSUME NEW t \in Threads, Wake(t) \/ Quit(t) PROVE TypeOK'
  BY <1>3 DEF Wake, Quit
<1>4. ASSUME NEW t \in Threads, RegScan(t) PROVE TypeOK'
  BY <1>4, NewIdType DEF RegScan
<1>5. ASSUME NEW t \in Threads, RegMask(t) PROVE TypeOK'
  BY <1>5 DEF RegMask
<1>6. ASSUME NEW t \in Threads, RegCount(t) PROVE TypeOK'
  BY <1>6 DEF RegCount, Wrap
<1>7. ASSUME NEW t \in Threads, FeedLoad(t) PROVE TypeOK'
  BY <1>7 DEF FeedLoad
<1>8. ASSUME NEW t \in Threads, FeedStore(t) PROVE TypeOK'
  BY <1>8 DEF FeedStore
<1>9. ASSUME NEW t \in Threads, DeregTest(t) PROVE TypeOK'
  BY <1>9 DEF DeregTest
<1>10. ASSUME NEW t \in Threads, DeregMask(t) PROVE TypeOK'
  BY <1>10 DEF DeregMask
<1>11. ASSUME NEW t \in Threads, DeregCount(t) PROVE TypeOK'
  BY <1>11 DEF DeregCount, Wrap
<1>12. ASSUME NEW t \in Threads, DeregPardon(t) PROVE TypeOK'
  BY <1>12 DEF DeregPardon
<1> QED
  BY <1>1, <1>2, <1>3, <1>4, <1>5, <1>6, <1>7, <1>8, <1>9, <1>10, <1>11, <1>12
     DEF Next, Client

\* The statics stay bytes whatever the threads do (wdt_task.c:50-52).
THEOREM TypeCorrect == Spec => []TypeOK
<1>1. Init => TypeOK
  BY PcSets, WidthAssumption DEF Init, TypeOK, Bits, Wrap
<1> QED BY <1>1, TypeStep, PTL DEF Spec

-----------------------------------------------------------------------------
(* How registrations come to overlap. *)

LEMMA LateStep == TypeOK /\ LateComers /\ [Next]_vars => LateComers'
<1> SUFFICES ASSUME TypeOK, LateComers, [Next]_vars PROVE LateComers'
  OBVIOUS
<1> USE PcSets, ThreadsAssumption DEF LateComers, TypeOK, Goto, client
<1>1. CASE UNCHANGED vars \/ WdtSetup \/ WdtFeed \/ WdtClear
  BY <1>1 DEF vars, WdtSetup, WdtFeed, WdtClear
<1>2. ASSUME NEW t \in Threads, RegScan(t) PROVE LateComers'
  <2>1. \A u \in Threads \ {t} : pc[u] = "start" => ~(Prio[u] < Prio[t])
    BY <1>2 DEF RegScan, CanRun
  <2> QED BY <1>2, <2>1 DEF RegScan
<1>3. ASSUME NEW t \in Threads, Wake(t) PROVE LateComers'
  BY <1>3 DEF Wake
<1>4. ASSUME NEW t \in Threads, Quit(t) \/ RegMask(t) \/ RegCount(t) PROVE LateComers'
  BY <1>4 DEF Quit, RegMask, RegCount
<1>5. ASSUME NEW t \in Threads, FeedLoad(t) \/ FeedStore(t) PROVE LateComers'
  BY <1>5 DEF FeedLoad, FeedStore
<1>6. ASSUME NEW t \in Threads,
             DeregTest(t) \/ DeregMask(t) \/ DeregCount(t) \/ DeregPardon(t)
      PROVE  LateComers'
  BY <1>6 DEF DeregTest, DeregMask, DeregCount, DeregPardon
<1> QED
  BY <1>1, <1>2, <1>3, <1>4, <1>5, <1>6 DEF Next, Client

\* Only the scan of one thread in the middle of another's registration ends
\* Exclusive; it is a thread that comes late and precedes the other.
LEMMA OverlapStep ==
    ASSUME TypeOK, LateComers, [Next]_vars, Exclusive, ~Exclusive'
    PROVE  \E l \in Late, t \in Threads :
              /\ Prio[l] < Prio[t] /\ pc[t] \in Registering
              /\ pc[l] = "start" /\ pc'[l] = "scanned"
<1> USE PcSets, ThreadsAssumption DEF TypeOK, Goto, client
<1>1. PICK l \in Threads : pc[l] \notin Registering /\ pc'[l] \in Registering
  BY DEF Exclusive
<1>2. PICK v \in Threads : RegScan(v)
  BY <1>1 DEF vars, Next, Client, WdtSetup, WdtFeed, WdtClear, Wake, Quit, RegMask, RegCount,
     FeedLoad, FeedStore, DeregTest, DeregMask, DeregCount, DeregPardon
<1>3. pc[v] = "start" /\ pc'[v] = "scanned" /\ \A u \in Threads \ {v} : pc'[u] = pc[u]
  BY <1>2 DEF RegScan
<1>4. PICK t \in Threads \ {v} : pc[t] \in Registering
  BY <1>3 DEF Exclusive
<1>5. Prio[v] < Prio[t]
  BY <1>2, <1>4 DEF RegScan, CanRun
<1>6. v \in Late
  BY <1>3, <1>4, <1>5 DEF LateComers
<1> QED BY <1>3, <1>4, <1>5, <1>6

\* Whatever the priorities, two registrations come to overlap only when a thread
\* that blocked before its own preempts that of a thread it precedes: in the build,
\* the Bluetooth thread (bt_task.c:160).
THEOREM OverlapsAreLate == Spec => OnlyLateOverlaps
<1>1. Init => LateComers
  BY PcSets DEF Init, LateComers
<1>2. TypeOK /\ LateComers /\ [Next]_vars =>
        [Exclusive /\ ~Exclusive' =>
           \E l \in Late, t \in Threads :
              /\ Prio[l] < Prio[t] /\ pc[t] \in Registering
              /\ pc[l] = "start" /\ pc'[l] = "scanned"]_vars
  BY OverlapStep
<1> QED BY <1>1, <1>2, LateStep, TypeCorrect, PTL DEF Spec, OnlyLateOverlaps

-----------------------------------------------------------------------------
(* The inductive step, one lemma per part of IInv. *)

LEMMA StayStep == EnoughBits /\ NobodyLeaves /\ TypeOK /\ [Next]_vars => NobodyLeaves'
<1> SUFFICES ASSUME EnoughBits, NobodyLeaves, TypeOK, [Next]_vars PROVE NobodyLeaves'
  OBVIOUS
<1> USE PcSets DEF NobodyLeaves, TypeOK, Goto, client
<1>1. CASE UNCHANGED vars \/ WdtSetup \/ WdtFeed \/ WdtClear
  BY <1>1 DEF vars, WdtSetup, WdtFeed, WdtClear
<1>2. ASSUME NEW t \in Threads, Client(t) PROVE NobodyLeaves'
  BY <1>2 DEF Client, Wake, Quit, RegScan, RegMask, RegCount, FeedLoad, FeedStore,
     DeregTest, DeregMask, DeregCount, DeregPardon, EnoughBits
<1> QED BY <1>1, <1>2 DEF Next

\* Below the width the thread counter does not wrap.
LEMMA NoWrap == ASSUME NEW n \in Nat, n + 1 < Wrap PROVE (n + 1) % Wrap = n + 1
  BY DEF Wrap

\* A step that enrols nobody and leaves the bits alone keeps the numbering.
LEMMA NumberingFrame ==
    ASSUME Numbering, Counted' = Counted, UNCHANGED <<mask, count>>,
           \A u \in Counted : id'[u] = id[u],
           \A u \in Threads : pc'[u] = "masked" <=> pc[u] = "masked",
           \A u \in Threads : pc'[u] \in Registering =>
               id'[u] = {count} /\ cnt'[u] = count /\ seen'[u] = 0 .. count - 1
    PROVE  Numbering'
<1>1. count' = Cardinality(Counted')
  BY DEF Numbering
<1>2. mask' = IF \E t \in Threads : pc'[t] = "masked" THEN 0 .. count' ELSE 0 .. count' - 1
  <2>1. (\E t \in Threads : pc'[t] = "masked") <=> (\E t \in Threads : pc[t] = "masked")
    OBVIOUS
  <2> QED BY <2>1 DEF Numbering
<1>3. \A t \in Counted' : \E k \in 0 .. count' - 1 : id'[t] = {k}
  BY DEF Numbering
<1>4. \A t, u \in Counted' : t # u => id'[t] # id'[u]
  BY DEF Numbering
<1>5. ASSUME NEW k \in 0 .. count' - 1 PROVE \E t \in Counted' : id'[t] = {k}
  <2>1. PICK t \in Counted : id[t] = {k}
    BY DEF Numbering
  <2> QED BY <2>1
<1> QED BY <1>1, <1>2, <1>3, <1>4, <1>5 DEF Numbering

\* Every enrolled thread's bit is one single bit, and it is in the mask.
LEMMA EnrolledBits ==
    ASSUME TypeOK, Numbering, NEW t \in Counted
    PROVE  /\ id[t] # {} /\ id[t] \subseteq mask /\ id[t] \subseteq 0 .. count - 1
           /\ \A u \in Counted \ {t} : id[t] \cap id[u] = {}
<1>1. PICK k \in 0 .. count - 1 : id[t] = {k}
  BY DEF Numbering
<1>2. 0 .. count - 1 \subseteq mask
  <2>1. count \in Nat
    BY DEF TypeOK, Wrap
  <2> QED BY <2>1 DEF Numbering
<1>3. ASSUME NEW u \in Counted \ {t} PROVE id[t] \cap id[u] = {}
  <2>1. PICK j \in 0 .. count - 1 : id[u] = {j}
    BY DEF Numbering
  <2>2. id[t] # id[u]
    BY DEF Numbering
  <2> QED BY <1>1, <2>1, <2>2
<1> QED BY <1>1, <1>2, <1>3

LEMMA NumberingStep ==
    EnoughBits /\ TypeOK /\ NobodyLeaves /\ Exclusive /\ Exclusive' /\ Numbering /\ [Next]_vars
        => Numbering'
<1> SUFFICES ASSUME EnoughBits, TypeOK, NobodyLeaves, Exclusive, Exclusive', Numbering, [Next]_vars
             PROVE  Numbering'
  OBVIOUS
<1> USE PcSets, ThreadsAssumption DEF TypeOK, Goto, client
<1> DEFINE Same == Counted' = Counted /\ UNCHANGED <<mask, count>>
<1>1. CASE UNCHANGED vars \/ WdtSetup \/ WdtFeed \/ WdtClear
  <2>1. Same /\ UNCHANGED client
    BY <1>1 DEF vars, WdtSetup, WdtFeed, WdtClear, Counted
  <2> QED BY <2>1, NumberingFrame DEF Numbering
<1>2. ASSUME NEW t \in Threads, Wake(t) \/ Quit(t) PROVE Numbering'
  <2>1. Same /\ UNCHANGED <<id, seen, cnt>>
    BY <1>2 DEF Wake, Quit, Counted
  <2>2. \A u \in Threads : pc'[u] \in Registering <=> pc[u] \in Registering
    BY <1>2 DEF Wake, Quit
  <2>3. \A u \in Threads : pc'[u] = "masked" <=> pc[u] = "masked"
    BY <1>2 DEF Wake, Quit
  <2>4. \A u \in Threads : pc'[u] \in Registering =>
           id'[u] = {count} /\ cnt'[u] = count /\ seen'[u] = 0 .. count - 1
    BY <2>1, <2>2 DEF Numbering
  <2> QED BY <2>1, <2>3, <2>4, NumberingFrame
<1>3. ASSUME NEW t \in Threads, RegScan(t) PROVE Numbering'
  <2>1. count \in Nat /\ count < Width
    BY <1>3, CountBound DEF RegScan
  <2>2. \A u \in Threads : pc[u] \notin Registering
    BY <1>3 DEF RegScan, CanRun, Exclusive
  <2>3. mask = 0 .. count - 1 /\ NewId(mask, count) = {count}
    BY <2>1, <2>2, NewIdLemma DEF Numbering
  <2>4. Same
    BY <1>3 DEF RegScan, Counted
  <2>5. \A u \in Threads : pc'[u] \in Registering => u = t
    BY <1>3, <2>2 DEF RegScan
  <2>6. \A u \in Threads : pc'[u] # "masked"
    BY <1>3, <2>2 DEF RegScan
  <2>7. id'[t] = {count} /\ seen'[t] = 0 .. count - 1 /\ cnt'[t] = count
    BY <1>3, <2>3 DEF RegScan
  <2>8. \A u \in Counted : id'[u] = id[u]
    BY <1>3 DEF RegScan, Counted
  <2>9. \A u \in Threads : pc'[u] = "masked" <=> pc[u] = "masked"
    BY <2>2, <2>6
  <2>10. \A u \in Threads : pc'[u] \in Registering =>
           id'[u] = {count} /\ cnt'[u] = count /\ seen'[u] = 0 .. count - 1
    BY <2>5, <2>7
  <2> QED BY <2>4, <2>8, <2>9, <2>10, NumberingFrame
<1>4. ASSUME NEW t \in Threads, RegMask(t) PROVE Numbering'
  <2>1. count \in Nat /\ count < Width
    BY <1>4, CountBound DEF RegMask
  <2>2. \A u \in Threads \ {t} : pc[u] \notin Registering
    BY <1>4 DEF RegMask, Exclusive
  <2>3. mask = 0 .. count - 1 /\ seen[t] = 0 .. count - 1 /\ id[t] = {count}
    BY <1>4, <2>2 DEF RegMask, Numbering
  <2>4. mask' = 0 .. count
    BY <1>4, <2>1, <2>3 DEF RegMask
  <2>5. Counted' = Counted /\ UNCHANGED <<count, id, cnt, seen>>
    BY <1>4 DEF RegMask, Counted
  <2>6. \A u \in Threads : pc'[u] \in Registering <=> pc[u] \in Registering
    BY <1>4 DEF RegMask
  <2>7. pc'[t] = "masked"
    BY <1>4 DEF RegMask
  <2>8. mask' = IF \E u \in Threads : pc'[u] = "masked" THEN 0 .. count' ELSE 0 .. count' - 1
    BY <2>4, <2>5, <2>7
  <2>9. \A u \in Threads : pc'[u] \in Registering =>
           id'[u] = {count'} /\ cnt'[u] = count' /\ seen'[u] = 0 .. count' - 1
    BY <2>5, <2>6 DEF Numbering
  <2>10. count' = Cardinality(Counted')
    BY <2>5 DEF Numbering
  <2>11. /\ \A u \in Counted' : \E k \in 0 .. count' - 1 : id'[u] = {k}
         /\ \A u, v \in Counted' : u # v => id'[u] # id'[v]
         /\ \A k \in 0 .. count' - 1 : \E u \in Counted' : id'[u] = {k}
    BY <2>5 DEF Numbering
  <2> QED BY <2>8, <2>9, <2>10, <2>11 DEF Numbering
<1>5. ASSUME NEW t \in Threads, RegCount(t) PROVE Numbering'
  <2>1. count \in Nat /\ count < Width /\ count + 1 < Wrap
    BY <1>5, CountBound, WidthAssumption DEF RegCount, Wrap
  <2>2. \A u \in Threads : pc'[u] \notin Registering
    BY <1>5 DEF RegCount, Exclusive
  <2>3. mask = 0 .. count /\ cnt[t] = count /\ id[t] = {count}
    BY <1>5 DEF RegCount, Numbering
  <2>4. count' = count + 1
    <3>1. count' = (count + 1) % Wrap
      BY <1>5, <2>3 DEF RegCount
    <3> QED BY <3>1, <2>1, NoWrap
  <2>5. Counted' = Counted \cup {t} /\ t \notin Counted
    BY <1>5 DEF RegCount, Counted
  <2>6. UNCHANGED <<mask, id>>
    BY <1>5 DEF RegCount
  <2>7. count' = Cardinality(Counted')
    <3>1. IsFiniteSet(Counted)
      BY FS_Subset DEF Counted
    <3> QED BY <3>1, <2>4, <2>5, FS_AddElement DEF Numbering
  <2>8. mask' = 0 .. count' - 1
    BY <2>1, <2>3, <2>4, <2>6
  <2>9. \A u \in Counted' : \E k \in 0 .. count' - 1 : id'[u] = {k}
    <3>1. \A u \in Counted : \E k \in 0 .. count - 1 : id'[u] = {k}
      BY <2>6 DEF Numbering
    <3>2. count \in 0 .. count' - 1 /\ 0 .. count - 1 \subseteq 0 .. count' - 1
      BY <2>1, <2>4
    <3>3. id'[t] = {count}
      BY <2>3, <2>6
    <3> QED BY <3>1, <3>2, <3>3, <2>5
  <2>10. \A u \in Counted : id[u] # id[t]
    <3> SUFFICES ASSUME NEW u \in Counted PROVE id[u] # id[t]
      OBVIOUS
    <3>1. PICK k \in 0 .. count - 1 : id[u] = {k}
      BY DEF Numbering
    <3>2. k # count
      BY <2>1
    <3> QED BY <3>1, <3>2, <2>3
  <2>11. \A u, v \in Counted' : u # v => id'[u] # id'[v]
    BY <2>5, <2>6, <2>10 DEF Numbering
  <2>12. \A u \in Threads : pc'[u] # "masked"
    BY <2>2
  <2>13. \A k \in 0 .. count' - 1 : \E u \in Counted' : id'[u] = {k}
    <3>1. \A k \in 0 .. count' - 1 : k = count \/ k \in 0 .. count - 1
      BY <2>1, <2>4
    <3> QED BY <3>1, <2>3, <2>5, <2>6 DEF Numbering
  <2> QED BY <2>2, <2>7, <2>8, <2>9, <2>11, <2>12, <2>13 DEF Numbering
<1>6. ASSUME NEW t \in Threads, FeedLoad(t) \/ FeedStore(t) PROVE Numbering'
  <2>1. Same /\ UNCHANGED <<id, cnt>>
    BY <1>6 DEF FeedLoad, FeedStore, Counted
  <2>2. \A u \in Threads : pc'[u] \in Registering => pc[u] \in Registering /\ seen'[u] = seen[u]
    BY <1>6 DEF FeedLoad, FeedStore
  <2>3. \A u \in Threads : pc'[u] = "masked" <=> pc[u] = "masked"
    BY <1>6 DEF FeedLoad, FeedStore
  <2>4. \A u \in Threads : pc'[u] \in Registering =>
           id'[u] = {count} /\ cnt'[u] = count /\ seen'[u] = 0 .. count - 1
    BY <2>1, <2>2 DEF Numbering
  <2> QED BY <2>1, <2>3, <2>4, NumberingFrame
<1>7. ASSUME NEW t \in Threads,
             DeregTest(t) \/ DeregMask(t) \/ DeregCount(t) \/ DeregPardon(t)
      PROVE  FALSE
  BY <1>7 DEF DeregTest, DeregMask, DeregCount, DeregPardon, EnoughBits, NobodyLeaves
<1> QED
  BY <1>1, <1>2, <1>3, <1>4, <1>5, <1>6, <1>7 DEF Next, Client

\* A step that enrols nobody and moves neither the aggregate nor a loaded byte
\* keeps what they say.
LEMMA ReportsFrame ==
    ASSUME Reports, UNCHANGED <<agg, count, fed>>, Counted' = Counted,
           \A u \in Counted : id'[u] = id[u],
           \A u \in Threads : pc'[u] = "loaded" => pc[u] = "loaded" /\ seen'[u] = seen[u]
    PROVE  Reports'
<1>1. agg' \subseteq 0 .. count' - 1
  BY DEF Reports
<1>2. HonestAgg'
  <2> SUFFICES ASSUME NEW t \in Counted, id[t] \subseteq agg PROVE t \in fed
    BY DEF HonestAgg, Counted
  <2> QED BY DEF Reports, HonestAgg, Counted
<1>3. ASSUME NEW u \in Threads, pc'[u] = "loaded"
      PROVE  /\ seen'[u] \subseteq 0 .. count' - 1
             /\ \A t \in Counted' : id'[t] \subseteq seen'[u] => t \in fed'
  <2>1. pc[u] = "loaded" /\ seen'[u] = seen[u]
    BY <1>3
  <2>2. /\ seen[u] \subseteq 0 .. count - 1
        /\ \A t \in Counted : id[t] \subseteq seen[u] => t \in fed
    BY <2>1 DEF Reports
  <2> QED BY <2>1, <2>2
<1> QED BY <1>1, <1>2, <1>3 DEF Reports

LEMMA ReportsStep ==
    EnoughBits /\ IInv /\ [Next]_vars => Reports'
<1> SUFFICES ASSUME EnoughBits, IInv, [Next]_vars PROVE Reports'
  OBVIOUS
<1> USE PcSets, ThreadsAssumption DEF TypeOK, Goto, client, IInv, HonestAgg, Counted
<1>1. CASE UNCHANGED vars \/ WdtSetup \/ WdtFeed
  BY <1>1 DEF vars, WdtSetup, WdtFeed, Reports
<1>2. CASE WdtClear
  <2>1. \A u \in Threads : pc[u] # "loaded"
    BY <1>2 DEF WdtClear, WdtCanRun
  <2>2. \A t \in Counted : id[t] # {}
    BY EnrolledBits
  <2> QED BY <1>2, <2>1, <2>2 DEF WdtClear, Reports
<1>3. ASSUME NEW t \in Threads, Wake(t) \/ Quit(t) PROVE Reports'
  <2>1. UNCHANGED <<agg, count, fed, id, seen>> /\ Counted' = Counted
    BY <1>3 DEF Wake, Quit
  <2>2. \A u \in Threads : pc'[u] = "loaded" => pc[u] = "loaded"
    BY <1>3 DEF Wake, Quit
  <2> QED BY <2>1, <2>2, ReportsFrame
<1>4. ASSUME NEW t \in Threads, RegScan(t) PROVE Reports'
  <2>1. UNCHANGED <<agg, count, fed>> /\ Counted' = Counted /\ \A u \in Counted : id'[u] = id[u]
    BY <1>4 DEF RegScan
  <2>2. \A u \in Threads : pc'[u] = "loaded" => pc[u] = "loaded" /\ seen'[u] = seen[u]
    BY <1>4 DEF RegScan
  <2> QED BY <2>1, <2>2, ReportsFrame
<1>5. ASSUME NEW t \in Threads, RegMask(t) PROVE Reports'
  <2>1. UNCHANGED <<agg, count, fed>> /\ Counted' = Counted /\ \A u \in Counted : id'[u] = id[u]
    BY <1>5 DEF RegMask
  <2>2. \A u \in Threads : pc'[u] = "loaded" => pc[u] = "loaded" /\ seen'[u] = seen[u]
    BY <1>5 DEF RegMask
  <2> QED BY <2>1, <2>2, ReportsFrame
<1>6. ASSUME NEW t \in Threads, RegCount(t) PROVE Reports'
  <2>1. count \in Nat /\ count + 1 < Wrap
    BY <1>6, CountBound, WidthAssumption DEF RegCount, Wrap
  <2>2. cnt[t] = count /\ id[t] = {count}
    BY <1>6 DEF RegCount, Numbering
  <2>3. count' = count + 1
    <3>1. count' = (count + 1) % Wrap
      BY <1>6, <2>2 DEF RegCount
    <3> QED BY <3>1, <2>1, NoWrap
  <2>4. 0 .. count - 1 \subseteq 0 .. count' - 1 /\ ~(id[t] \subseteq 0 .. count - 1)
    BY <2>1, <2>2, <2>3
  <2> QED BY <1>6, <2>4 DEF RegCount, Reports
<1>7. ASSUME NEW t \in Threads, FeedLoad(t) PROVE Reports'
  <2>1. UNCHANGED <<agg, count, fed, id>> /\ Counted' = Counted /\ t \in Counted
    BY <1>7 DEF FeedLoad
  <2>2. \A u \in Counted : id[u] \subseteq agg => u \in fed
    BY DEF Reports
  <2>3. seen'[t] = agg
    BY <1>7 DEF FeedLoad
  <2>4. \A u \in Threads \ {t} : pc'[u] = "loaded" => pc[u] = "loaded" /\ seen'[u] = seen[u]
    BY <1>7 DEF FeedLoad
  <2>5. HonestAgg'
    BY <2>1, <2>2
  <2>6. ASSUME NEW u \in Threads, pc'[u] = "loaded"
        PROVE  /\ seen'[u] \subseteq 0 .. count' - 1
               /\ \A v \in Counted' : id'[v] \subseteq seen'[u] => v \in fed'
    <3>1. CASE u = t
      BY <3>1, <2>1, <2>2, <2>3 DEF Reports
    <3>2. CASE u # t
      <4>1. pc[u] = "loaded" /\ seen'[u] = seen[u]
        BY <3>2, <2>4, <2>6
      <4> QED BY <4>1, <2>1 DEF Reports
    <3> QED BY <3>1, <3>2
  <2> QED BY <2>1, <2>5, <2>6 DEF Reports
<1>8. ASSUME NEW t \in Threads, FeedStore(t) PROVE Reports'
  <2>1. t \in Counted /\ pc[t] = "loaded" /\ pc'[t] = "asleep"
    BY <1>8 DEF FeedStore
  <2>2. id[t] \subseteq 0 .. count - 1
    BY <2>1, EnrolledBits
  <2>3. agg' \subseteq 0 .. count - 1
    BY <1>8, <2>1, <2>2 DEF FeedStore, Reports
  <2>4. \A u \in Counted \ {t} : id[u] \subseteq agg' => id[u] \subseteq seen[t]
    BY <1>8, <2>1, EnrolledBits DEF FeedStore
  <2>5. Counted' = Counted /\ UNCHANGED <<count, id, seen>> /\ fed' = fed \cup {t}
    BY <1>8, <2>1 DEF FeedStore
  <2>6. HonestAgg'
    BY <2>1, <2>4, <2>5 DEF Reports
  <2>7. \A u \in Threads : pc'[u] = "loaded" => pc[u] = "loaded"
    BY <1>8 DEF FeedStore
  <2> QED BY <2>3, <2>5, <2>6, <2>7 DEF Reports
<1>9. ASSUME NEW t \in Threads,
             DeregTest(t) \/ DeregMask(t) \/ DeregCount(t) \/ DeregPardon(t)
      PROVE  FALSE
  BY <1>9 DEF DeregTest, DeregMask, DeregCount, DeregPardon, EnoughBits, NobodyLeaves
<1> QED
  BY <1>1, <1>2, <1>3, <1>4, <1>5, <1>6, <1>7, <1>8, <1>9 DEF Next, Client

\* A thread that runs precedes every thread that holds a loaded byte.
LEMMA RunsBefore ==
    ASSUME TypeOK, NEW t \in Threads, CanRun(t), NEW u \in Threads \ {t}, pc[u] = "loaded"
    PROVE  Prio[t] < Prio[u]
BY PcSets DEF CanRun

\* A step that enrols nobody and touches neither the aggregate nor a loaded
\* byte keeps Nested.
LEMMA NestedFrame ==
    ASSUME Nested, agg' = agg, Counted' = Counted,
           \A u \in Counted : id'[u] = id[u],
           \A u \in Threads : pc'[u] = "loaded" => pc[u] = "loaded" /\ seen'[u] = seen[u]
    PROVE  Nested'
BY DEF Nested

LEMMA NestedStep == EnoughBits /\ IInv /\ [Next]_vars => Nested'
<1> SUFFICES ASSUME EnoughBits, IInv, [Next]_vars PROVE Nested'
  OBVIOUS
<1> USE PcSets DEF TypeOK, Goto, client, IInv, Counted
<1>1. CASE UNCHANGED vars \/ WdtSetup \/ WdtFeed
  BY <1>1, NestedFrame DEF vars, WdtSetup, WdtFeed
<1>2. CASE WdtClear
  BY <1>2 DEF WdtClear, WdtCanRun, Nested
<1>3. ASSUME NEW t \in Threads, Wake(t) \/ Quit(t) PROVE Nested'
  <2>1. UNCHANGED <<agg, id, seen>> /\ Counted' = Counted
    BY <1>3 DEF Wake, Quit
  <2>2. \A u \in Threads : pc'[u] = "loaded" => pc[u] = "loaded"
    BY <1>3 DEF Wake, Quit
  <2> QED BY <2>1, <2>2, NestedFrame
<1>4. ASSUME NEW t \in Threads, RegScan(t) \/ RegMask(t) PROVE Nested'
  <2>1. agg' = agg /\ Counted' = Counted /\ \A u \in Counted : id'[u] = id[u]
    BY <1>4 DEF RegScan, RegMask
  <2>2. \A u \in Threads : pc'[u] = "loaded" => pc[u] = "loaded" /\ seen'[u] = seen[u]
    BY <1>4 DEF RegScan, RegMask
  <2> QED BY <2>1, <2>2, NestedFrame
<1>5. ASSUME NEW t \in Threads, RegCount(t) PROVE Nested'
  <2>1. Counted' = Counted \cup {t} /\ UNCHANGED <<agg, id, seen>>
    BY <1>5 DEF RegCount
  <2>2. \A u \in Threads : pc'[u] = "loaded" => pc[u] = "loaded"
    BY <1>5 DEF RegCount
  <2>3. ~(id[t] \subseteq agg)
    <3>1. id[t] = {count}
      BY <1>5 DEF RegCount, Numbering
    <3>2. agg \subseteq 0 .. count - 1
      BY DEF Reports
    <3>3. count \notin 0 .. count - 1
      BY DEF Wrap
    <3> QED BY <3>1, <3>2, <3>3
  <2> QED BY <2>1, <2>2, <2>3 DEF Nested
<1>6. ASSUME NEW t \in Threads, FeedLoad(t) PROVE Nested'
  <2>1. UNCHANGED <<agg, id>> /\ Counted' = Counted /\ seen'[t] = agg
    BY <1>6 DEF FeedLoad
  <2>2. \A u \in Threads \ {t} : pc'[u] = pc[u] /\ seen'[u] = seen[u]
    BY <1>6 DEF FeedLoad
  <2>3. \A u \in Threads \ {t} : pc[u] = "loaded" => Prio[t] < Prio[u]
    BY <1>6, RunsBefore DEF FeedLoad
  <2>4. \A u \in Threads : pc'[u] = "loaded" => ~(Prio[u] < Prio[t])
    BY <2>2, <2>3, ThreadsAssumption
  <2> QED BY <2>1, <2>2, <2>4 DEF Nested
<1>7. ASSUME NEW t \in Threads, FeedStore(t) PROVE Nested'
  <2>1. /\ t \in Counted /\ pc[t] = "loaded" /\ agg' = seen[t] \cup id[t]
        /\ Counted' = Counted /\ UNCHANGED <<id, seen>>
    BY <1>7 DEF FeedStore
  <2>2. \A u \in Threads : pc'[u] = "loaded" => pc[u] = "loaded" /\ u # t
    BY <1>7 DEF FeedStore
  <2>3. \A u \in Threads : pc'[u] = "loaded" => Prio[t] < Prio[u] /\ seen[u] \subseteq seen[t]
    BY <1>7, <2>1, <2>2, RunsBefore DEF FeedStore, Nested
  <2>4. \A v \in Counted \ {t} : id[v] \subseteq agg' => id[v] \subseteq agg
    <3>1. seen[t] \subseteq agg
      BY <2>1 DEF Nested
    <3>2. \A v \in Counted \ {t} : id[v] \cap id[t] = {}
      BY <2>1, EnrolledBits
    <3> QED BY <2>1, <3>1, <3>2
  <2> QED BY <2>1, <2>2, <2>3, <2>4 DEF Nested
<1>8. ASSUME NEW t \in Threads,
             DeregTest(t) \/ DeregMask(t) \/ DeregCount(t) \/ DeregPardon(t)
      PROVE  FALSE
  BY <1>8 DEF DeregTest, DeregMask, DeregCount, DeregPardon, EnoughBits, NobodyLeaves
<1> QED
  BY <1>1, <1>2, <1>3, <1>4, <1>5, <1>6, <1>7, <1>8 DEF Next, Client

\* Until two registrations overlap IInv holds, whatever the priorities: the
\* overlap of run wdt_late_bt is the only way to go wrong.
THEOREM Sound == ASSUME EnoughBits PROVE Spec => SoundWhileExclusive
<1>1. IInv /\ Exclusive /\ Exclusive' /\ [Next]_vars => IInv'
  BY TypeStep, StayStep, NumberingStep, ReportsStep, NestedStep DEF IInv
<1> QED BY <1>1, InitIInv, PTL DEF Spec, SoundWhileExclusive

-----------------------------------------------------------------------------
(* What follows from it. *)

\* The threads report in separately (wdt_task.c:49).
THEOREM SeparateReports == ASSUME EnoughBits PROVE Spec /\ []Exclusive => []UniqueIds
<1>1. IInv => UniqueIds
  BY EnrolledBits DEF IInv, Counted, UniqueIds
<1> QED BY <1>1, Sound, PTL DEF SoundWhileExclusive

\* No bit of THREAD_MASK is lost and none is without an owner.
THEOREM MaskIsExact == ASSUME EnoughBits PROVE Spec /\ []Exclusive => []MaskExact
<1>1. IInv => MaskExact
  <2> SUFFICES ASSUME IInv PROVE MaskExact
    OBVIOUS
  <2> USE PcSets, ThreadsAssumption DEF IInv, Counted
  <2>1. \A t \in Counted : id[t] \subseteq mask
    BY EnrolledBits
  <2>2. ASSUME NEW k \in mask
        PROVE  \E t \in Threads : k \in id[t] /\ pc[t] \in Enrolled \cup {"masked", "leaving"}
    <3>1. CASE \E t \in Threads : pc[t] = "masked" /\ k = count
      BY <3>1 DEF Numbering
    <3>2. CASE k \in 0 .. count - 1
      BY <3>2 DEF Numbering
    <3>3. count \in Nat
      BY DEF TypeOK, Wrap
    <3>4. mask = IF \E t \in Threads : pc[t] = "masked" THEN 0 .. count ELSE 0 .. count - 1
      BY DEF Numbering
    <3> HIDE DEF IInv, Counted
    <3>5. \/ \E t \in Threads : pc[t] = "masked" /\ k = count
          \/ k \in 0 .. count - 1
      BY <3>3, <3>4
    <3> QED BY <3>1, <3>2, <3>5
  <2> QED BY <2>1, <2>2 DEF MaskExact
<1> QED BY <1>1, Sound, PTL DEF SoundWhileExclusive

\* A set bit is its owner's own report.
THEOREM AggIsHonest == ASSUME EnoughBits PROVE Spec /\ []Exclusive => []HonestAgg
<1>1. IInv => HonestAgg
  BY DEF IInv, Reports
<1> QED BY <1>1, Sound, PTL DEF SoundWhileExclusive

\* Which steps change the aggregate, and how the watchdog thread moves.
LEMMA AggSteps ==
    ASSUME NobodyLeaves, TypeOK, Next
    PROVE  \/ WdtFeed \/ WdtClear
           \/ \E u \in Threads : FeedStore(u)
           \/ agg' = agg /\ (wpc' # wpc => wpc = "init")
<1>1. \A t \in Threads : ~DeregPardon(t)
  BY PcSets DEF DeregPardon, Goto, NobodyLeaves
<1> QED BY <1>1 DEF Next, Client, WdtSetup, Wake, Quit, RegScan, RegMask, RegCount,
           FeedLoad, DeregTest, DeregMask, DeregCount

\* The hardware is fed only when every registered thread reported in since the
\* previous feed: the point of the component.
THEOREM FeedsAreAccounted == ASSUME EnoughBits PROVE Spec /\ []Exclusive => FeedAccounts
<1> DEFINE A == wpc = "check" /\ wpc' = "clear" =>
                  \A t \in Threads : pc[t] \in Enrolled => t \in fed
<1>1. IInv /\ [Next]_vars => [A]_vars
  <2> SUFFICES ASSUME IInv, Next, wpc = "check", wpc' = "clear",
                      NEW t \in Threads, pc[t] \in Enrolled
               PROVE  t \in fed
    BY DEF vars
  <2>1. agg = mask
    BY AggSteps DEF IInv, WdtFeed, WdtClear, FeedStore
  <2>2. id[t] \subseteq mask
    BY EnrolledBits DEF IInv, Counted
  <2> QED BY <2>1, <2>2 DEF IInv, Reports, HonestAgg
<1> QED BY <1>1, Sound, PTL DEF Spec, FeedAccounts, SoundWhileExclusive

\* A store undoes the reports of threads that precede the reporter, no others.
LEMMA StoreUndoes ==
    ASSUME IInv, NEW t \in Threads, FeedStore(t), NEW u \in Counted \ {t}, id[u] \subseteq agg
    PROVE  id[u] \subseteq agg' \/ Prio[u] < Prio[t]
<1>1. pc[t] = "loaded" /\ agg' = seen[t] \cup id[t]
  BY DEF FeedStore, Goto, IInv, TypeOK
<1> QED BY <1>1 DEF IInv, Nested

\* A report is undone only by the watchdog's clear, or by the store of a thread
\* of a lower priority that the reporter interrupted.
THEOREM UndoneFromBelow == ASSUME EnoughBits PROVE Spec /\ []Exclusive => LostOnlyToLower
<1> DEFINE A == \A t \in Threads :
                  pc[t] \in Enrolled /\ pc'[t] \in Enrolled
                    /\ id[t] \subseteq agg /\ ~(id[t] \subseteq agg')
                  => \/ wpc = "clear" /\ wpc' = "check"
                     \/ \E u \in Threads : \/ pc[u] = "uncounted"
                                           \/ pc[u] = "loaded" /\ pc'[u] = "asleep"
                                                 /\ Prio[t] < Prio[u]
<1>1. IInv /\ [Next]_vars => [A]_vars
  <2> SUFFICES ASSUME IInv, Next, NEW t \in Counted,
                      id[t] \subseteq agg, ~(id[t] \subseteq agg')
               PROVE  \/ wpc = "clear" /\ wpc' = "check"
                      \/ \E u \in Threads : pc[u] = "loaded" /\ pc'[u] = "asleep"
                                                 /\ Prio[t] < Prio[u]
    BY DEF vars, Counted
  <2>1. CASE WdtClear
    BY <2>1 DEF WdtClear
  <2>2. ASSUME NEW u \in Threads, FeedStore(u)
        PROVE  pc[u] = "loaded" /\ pc'[u] = "asleep" /\ Prio[t] < Prio[u]
    <3>1. /\ pc[u] = "loaded" /\ pc'[u] = "asleep" /\ agg' = seen[u] \cup id[u]
      BY <2>2 DEF FeedStore, Goto, IInv, TypeOK
    <3>2. t # u
      BY <3>1
    <3> QED BY <2>2, <3>1, <3>2, StoreUndoes
  <2> QED BY <2>1, <2>2, AggSteps DEF IInv, WdtFeed
<1> QED BY <1>1, Sound, PTL DEF Spec, LostOnlyToLower, SoundWhileExclusive

-----------------------------------------------------------------------------
(* The bytes implement Watchdog. *)

\* The threads that Watchdog counts as having reported.
Heard == IF wpc = "clear" THEN {} ELSE {t \in OnRolls : id[t] \subseteq agg}

LEMMA RollsAreCounted == ASSUME NobodyLeaves PROVE OnRolls = Counted
BY PcSets DEF NobodyLeaves, OnRolls, Counted

\* A step that moves neither the bytes nor the rolls is invisible.
LEMMA Unheard ==
    ASSUME NobodyLeaves, NobodyLeaves', Counted' = Counted, UNCHANGED <<agg, wpc>>,
           \A t \in Counted : id'[t] = id[t]
    PROVE  UNCHANGED <<OnRolls, Heard>>
<1>1. OnRolls = Counted /\ OnRolls' = Counted
  BY RollsAreCounted, PcSets DEF NobodyLeaves, OnRolls, Counted
<1> QED BY <1>1 DEF Heard

\* A thread enrols: its bit is new, so it has not reported yet.
LEMMA CountIsEnrol ==
    ASSUME IInv, NobodyLeaves', NEW t \in Threads, RegCount(t)
    PROVE  W!Enrol(t)
<1> USE PcSets DEF IInv, TypeOK, Goto
<1>1. OnRolls = Counted /\ OnRolls' = Counted' /\ Counted' = Counted \cup {t} /\ t \notin Counted
  BY RollsAreCounted DEF NobodyLeaves, OnRolls, Counted, RegCount
<1>2. UNCHANGED <<agg, wpc, id>>
  BY DEF RegCount
<1>3. ~(id[t] \subseteq agg)
  <2>1. id[t] = {count}
    BY DEF RegCount, Numbering
  <2>2. agg \subseteq 0 .. count - 1
    BY DEF Reports
  <2>3. count \notin 0 .. count - 1
    BY DEF Wrap
  <2> QED BY <2>1, <2>2, <2>3
<1>4. Heard' = Heard
  BY <1>1, <1>2, <1>3 DEF Heard
<1> QED BY <1>1, <1>4 DEF W!Enrol, Heard

\* A store adds the reporter, and undoes only those it may; between the feed and
\* the clear nobody hears it.
LEMMA StoreIsReport ==
    ASSUME IInv, NobodyLeaves', NEW t \in Threads, FeedStore(t)
    PROVE  W!Report(t) \/ UNCHANGED <<OnRolls, Heard>>
<1> USE PcSets DEF IInv, TypeOK, Goto
<1>1. OnRolls = Counted /\ OnRolls' = Counted /\ t \in Counted
  BY RollsAreCounted DEF NobodyLeaves, OnRolls, Counted, FeedStore
<1>2. UNCHANGED <<wpc, id>> /\ pc[t] = "loaded" /\ agg' = seen[t] \cup id[t]
  BY DEF FeedStore
<1>3. CASE wpc = "clear"
  BY <1>1, <1>2, <1>3 DEF Heard
<1>4. CASE wpc # "clear"
  <2> DEFINE undone == Heard \ Heard'
  <2>1. Heard = {u \in Counted : id[u] \subseteq agg}
    BY <1>1, <1>4 DEF Heard
  <2>2. Heard' = {u \in Counted : id[u] \subseteq agg'}
    BY <1>1, <1>2, <1>4 DEF Heard
  <2>3. t \in Heard'
    BY <1>1, <1>2, <2>2
  <2>4. \A u \in Heard' \ {t} : u \in Heard
    <3>1. seen[t] \subseteq agg
      BY <1>2 DEF Nested
    <3>2. \A u \in Counted \ {t} : id[u] \cap id[t] = {}
      BY <1>1, EnrolledBits
    <3> QED BY <1>2, <2>1, <2>2, <3>1, <3>2
  <2>5. undone \in SUBSET {u \in Heard : Prio[u] < Prio[t]}
    BY <2>1, <2>2, <2>3, StoreUndoes
  <2>6. Heard' = (Heard \ undone) \cup {t}
    BY <2>3, <2>4
  <2> QED BY <1>1, <2>5, <2>6 DEF W!Report, Heard
<1> QED BY <1>3, <1>4

\* The hardware is fed when the bytes are equal, that is when all are heard.
LEMMA FeedIsFeed ==
    ASSUME IInv, WdtFeed
    PROVE  W!Feed
<1> USE PcSets DEF IInv
<1>1. OnRolls = Counted /\ OnRolls' = OnRolls
  BY RollsAreCounted DEF WdtFeed, client, OnRolls
<1>2. wpc = "check" /\ wpc' = "clear" /\ agg = mask
  BY DEF WdtFeed
<1>3. Heard = OnRolls
  BY <1>1, <1>2, EnrolledBits DEF Heard
<1>4. Heard' = {}
  BY <1>2 DEF Heard
<1> QED BY <1>1, <1>3, <1>4 DEF W!Feed, Heard

\* The clear changes nothing that was not forgotten at the feed.
LEMMA ClearIsUnheard ==
    ASSUME IInv, WdtClear
    PROVE  UNCHANGED <<OnRolls, Heard>>
<1> USE DEF IInv
<1>1. OnRolls = Counted /\ UNCHANGED <<OnRolls, id>>
  BY RollsAreCounted DEF WdtClear, client, OnRolls
<1>2. wpc = "clear" /\ wpc' = "check" /\ agg' = {}
  BY DEF WdtClear
<1>3. \A t \in Counted : id[t] # {}
  BY EnrolledBits
<1> QED BY <1>1, <1>2, <1>3 DEF Heard

LEMMA WatchdogStep ==
    ASSUME EnoughBits, IInv, IInv', [Next]_vars
    PROVE  [W!Next]_<<OnRolls, Heard>>
<1> SUFFICES W!Next \/ UNCHANGED <<OnRolls, Heard>>
  OBVIOUS
<1> USE PcSets DEF Goto, client
<1>a. TypeOK /\ NobodyLeaves /\ NobodyLeaves'
  BY DEF IInv
<1>1. CASE UNCHANGED vars
  BY <1>1 DEF vars, OnRolls, Heard
<1>2. CASE WdtSetup
  BY <1>2 DEF WdtSetup, OnRolls, Heard
<1>3. CASE WdtFeed
  BY <1>3, FeedIsFeed DEF W!Next
<1>4. CASE WdtClear
  BY <1>4, ClearIsUnheard
<1>5. ASSUME NEW t \in Threads,
             Wake(t) \/ Quit(t) \/ RegScan(t) \/ RegMask(t) \/ FeedLoad(t)
      PROVE  UNCHANGED <<OnRolls, Heard>>
  <2>1. UNCHANGED <<agg, wpc>> /\ Counted' = Counted /\ \A u \in Counted : id'[u] = id[u]
    BY <1>5, <1>a DEF Wake, Quit, RegScan, RegMask, FeedLoad, Counted, TypeOK
  <2> QED BY <1>a, <2>1, Unheard
<1>6. ASSUME NEW t \in Threads, RegCount(t) PROVE W!Next
  BY <1>6, <1>a, CountIsEnrol DEF W!Next
<1>7. ASSUME NEW t \in Threads, FeedStore(t) PROVE W!Next \/ UNCHANGED <<OnRolls, Heard>>
  BY <1>7, <1>a, StoreIsReport DEF W!Next
<1>8. ASSUME NEW t \in Threads,
             DeregTest(t) \/ DeregMask(t) \/ DeregCount(t) \/ DeregPardon(t)
      PROVE  FALSE
  BY <1>8, <1>a DEF DeregTest, DeregMask, DeregCount, DeregPardon, NobodyLeaves, TypeOK, EnoughBits
<1> QED
  BY <1>1, <1>2, <1>3, <1>4, <1>5, <1>6, <1>7, <1>8 DEF Next, Client

\* The plain bytes, with every load and store of theirs open to interruption,
\* implement Watchdog, while no two registrations overlap.
THEOREM ImplementsWatchdog == ASSUME EnoughBits PROVE Spec /\ []Exclusive => IsWatchdog
<1>1. Init => W!Init
  BY PcSets DEF Init, W!Init, OnRolls
<1>2. IInv /\ IInv' /\ [Next]_vars => [W!Next]_<<OnRolls, Heard>>
  BY WatchdogStep
<1> QED BY <1>1, <1>2, Sound, PTL DEF Spec, IsWatchdog, W!Spec, Heard, SoundWhileExclusive
=============================================================================
