----------------------------- MODULE Vars_proofs -----------------------------
(***************************************************************************)
(* What a save that reports success has written, and what a restart        *)
(* restores, for any number of variables and any values.                   *)
(***************************************************************************)
EXTENDS Vars, TLAPS

USE DEF Keys, Clients, Idle, Saving

\* The histories keep their type through Watch.
LEMMA WatchType ==
    ASSUME TypeOK, Watch
    PROVE  good' \in [Clients -> SUBSET Keys]
  BY DEF Watch

\* What one variable's read leaves in the RAM.
LEMMA ReadType ==
    ASSUME TypeOK, NEW k \in Keys
    PROVE  /\ Read(k) \in [Keys -> Values]
           /\ Read(k)[k] = IF ready /\ flash[k] # Missing THEN flash[k] ELSE ram[k]
           /\ \A j \in Keys \ {k} : Read(k)[j] = ram[j]
  BY DEF TypeOK, Read

LEMMA StoreType ==
    ASSUME TypeOK, NEW k \in Keys
    PROVE  /\ Store(k) \in [Keys -> Values \cup {Missing}]
           /\ Store(k)[k] = ram[k]
           /\ \A j \in Keys \ {k} : Store(k)[j] = flash[j]
  BY DEF TypeOK, Store

LEMMA InitTypeOK == Init => TypeOK
<1> SUFFICES ASSUME Init PROVE TypeOK
  OBVIOUS
<1>1. 1 \in Keys
  BY VarsAssumption
<1>2. at \in [Clients \cup {"boot"} -> Keys]
  BY <1>1 DEF Init
<1>3. ram \in [Keys -> Values] /\ flash \in [Keys -> Values \cup {Missing}]
  BY VarsAssumption DEF Init
<1>4. good \in [Clients -> SUBSET Keys]
  BY DEF Init
<1> QED BY <1>2, <1>3, <1>4 DEF Init, TypeOK

\* No step leaves the types.
LEMMA NextTypeOK == TypeOK /\ [Next]_vars => TypeOK'
<1> SUFFICES ASSUME TypeOK, [Next]_vars PROVE TypeOK'
  OBVIOUS
<1>0. 1 \in Keys /\ N \in Keys
  BY VarsAssumption
<1>1. CASE FlashInit
  BY <1>0, <1>1, WatchType DEF FlashInit, TypeOK, MoveTo
<1>2. CASE BootLoad
  <2>1. at["boot"] \in Keys /\ (at["boot"] < N => at["boot"] + 1 \in Keys)
    BY VarsAssumption DEF TypeOK
  <2> QED BY <1>2, <2>1, ReadType, WatchType DEF BootLoad, TypeOK, MoveTo
<1>3. CASE Restart
  BY <1>0, <1>3, VarsAssumption, WatchType DEF Restart, TypeOK
<1>4. CASE LoadStart
  BY <1>0, <1>4, WatchType DEF LoadStart, Free, Goto, MoveTo, TypeOK
<1>5. CASE LoadItem
  <2>1. at["uart"] \in Keys /\ (at["uart"] < N => at["uart"] + 1 \in Keys)
    BY VarsAssumption DEF TypeOK
  <2> QED BY <1>5, <2>1, ReadType, WatchType DEF LoadItem, TypeOK, Goto, MoveTo
<1>6. CASE Clear
  BY <1>6, WatchType DEF Clear, TypeOK
<1>7. ASSUME NEW k \in Keys, NEW v \in Values, Set(k, v) \/ GattWrite(k, v)
      PROVE TypeOK'
  <2>1. ram' \in [Keys -> Values]
    BY <1>7 DEF Set, GattWrite, TypeOK
  <2>2. Watch /\ touched' = TRUE /\ UNCHANGED <<flash, ready, boot, job, at, wiped>>
    BY <1>7 DEF Set, GattWrite
  <2> QED BY <2>1, <2>2, WatchType DEF TypeOK
<1>8. ASSUME NEW c \in Clients, SaveStart(c) PROVE TypeOK'
  BY <1>0, <1>8, WatchType DEF SaveStart, Goto, MoveTo, TypeOK
<1>9. ASSUME NEW c \in Clients, SaveItem(c) \/ SaveRetry(c) PROVE TypeOK'
  <2>1. at[c] \in Keys /\ (at[c] < N => at[c] + 1 \in Keys)
    BY VarsAssumption DEF TypeOK
  <2>2. flash' \in [Keys -> Values \cup {Missing}]
    BY <1>9, <2>1, StoreType DEF SaveItem, SaveRetry, TypeOK
  <2>3. job' \in [Clients -> Idle \cup Saving \cup {"load"}]
    BY <1>9 DEF SaveItem, SaveRetry, Advance, Goto, TypeOK
  <2>4. at' \in [Clients \cup {"boot"} -> Keys]
    BY <1>9, <2>1 DEF SaveItem, SaveRetry, Advance, MoveTo, TypeOK
  <2>5. Watch /\ UNCHANGED <<ram, ready, boot, wiped, touched>>
    BY <1>9 DEF SaveItem, SaveRetry
  <2> QED BY <2>2, <2>3, <2>4, <2>5, WatchType DEF TypeOK
<1>10. CASE UNCHANGED vars
  BY <1>10 DEF vars, TypeOK
<1> QED BY <1>1, <1>2, <1>3, <1>4, <1>5, <1>6, <1>7, <1>8, <1>9, <1>10 DEF Next

\* The statics, the flash and the loops' indices stay in range (vars.c:320-412).
THEOREM TypeCorrect == Spec => []TypeOK
  BY InitTypeOK, NextTypeOK, PTL DEF Spec

-----------------------------------------------------------------------------
(* The inductive invariant. *)

\* What the histories record of a step, for a client that is saving after it.
LEMMA WatchKeeps ==
    ASSUME Watch, NEW c \in Clients, job'[c] \in Saving, NEW k \in Keys,
           \/ flash'[k] = ram'[k]
           \/ k \in good[c] /\ flash'[k] = flash[k]
    PROVE  k \in good'[c]
  BY DEF Watch

\* A step of another client stores only what the RAM holds.
LEMMA StoreKeeps ==
    ASSUME TypeOK, NEW c \in Clients, SaveItem(c) \/ SaveRetry(c), NEW k \in Keys
    PROVE  flash'[k] = flash[k] \/ flash'[k] = ram'[k]
<1>1. at[c] \in Keys
  BY DEF TypeOK
<1> QED BY <1>1, StoreType DEF SaveItem, SaveRetry

\* What a save has passed stays accounted for.
LEMMA SavedStep ==
    TypeOK /\ SavedSoFar /\ LoadedSoFar /\ [Next]_vars => SavedSoFar'
<1> SUFFICES ASSUME TypeOK, SavedSoFar, LoadedSoFar, [Next]_vars,
                    NEW c \in Clients \ wiped', job'[c] \in Saving
             PROVE  boot' = "done" /\ \A k \in 1 .. at'[c] - 1 : k \in good'[c]
  BY DEF SavedSoFar
<1>a. \A k \in 1 .. at[c] - 1 : k \in Keys
  BY VarsAssumption DEF TypeOK
<1>b. \A d \in Clients : job[d] \in Saving \cup {"load"} => boot = "done"
  BY DEF LoadedSoFar
\* A step that leaves c where it is, in a save that was not wiped, is harmless
\* when it leaves the items alone or stores variables.
<1>c. ASSUME Watch, job'[c] = job[c], at'[c] = at[c], c \notin wiped, boot' = boot,
             \A k \in Keys : flash'[k] = flash[k] \/ flash'[k] = ram'[k]
      PROVE  boot' = "done" /\ \A k \in 1 .. at'[c] - 1 : k \in good'[c]
  <2>1. boot = "done" /\ \A k \in 1 .. at[c] - 1 : k \in good[c]
    BY <1>c DEF SavedSoFar
  <2> QED BY <1>c, <2>1, <1>a, WatchKeeps
<1>1. CASE FlashInit \/ BootLoad
  BY <1>1 DEF FlashInit, BootLoad, LoadedSoFar
<1>2. CASE Restart
  BY <1>2 DEF Restart
<1>3. CASE LoadStart \/ LoadItem
  <2>1. c # "uart"
    BY <1>3 DEF LoadStart, LoadItem, Goto, TypeOK
  <2>2. job'[c] = job[c] /\ at'[c] = at[c] /\ wiped' = wiped /\ flash' = flash
    BY <1>3, <2>1 DEF LoadStart, LoadItem, Goto, MoveTo, TypeOK
  <2>3. Watch /\ boot' = boot
    BY <1>3 DEF LoadStart, LoadItem
  <2> QED BY <2>2, <2>3, <1>c
<1>4. CASE Clear
  BY <1>4 DEF Clear
<1>5. ASSUME NEW k \in Keys, NEW v \in Values, Set(k, v) \/ GattWrite(k, v)
      PROVE  boot' = "done" /\ \A j \in 1 .. at'[c] - 1 : j \in good'[c]
  BY <1>5, <1>c DEF Set, GattWrite
<1>6. ASSUME NEW d \in Clients, SaveStart(d)
      PROVE  boot' = "done" /\ \A j \in 1 .. at'[c] - 1 : j \in good'[c]
  <2>1. CASE c = d
    <3>1. at'[c] = 1 /\ boot' = "done"
      BY <1>6, <2>1 DEF SaveStart, Free, MoveTo, TypeOK
    <3> QED BY <3>1
  <2>2. CASE c # d
    <3>1. job'[c] = job[c] /\ at'[c] = at[c] /\ c \notin wiped
      BY <1>6, <2>2 DEF SaveStart, Goto, MoveTo, TypeOK
    <3>2. Watch /\ boot' = boot /\ flash' = flash
      BY <1>6 DEF SaveStart
    <3> QED BY <3>1, <3>2, <1>c
  <2> QED BY <2>1, <2>2
<1>7. ASSUME NEW d \in Clients, SaveItem(d) \/ SaveRetry(d)
      PROVE  boot' = "done" /\ \A j \in 1 .. at'[c] - 1 : j \in good'[c]
  <2>0. Watch /\ wiped' = wiped /\ boot' = boot /\ ram' = ram
    BY <1>7 DEF SaveItem, SaveRetry
  <2>1. CASE c # d
    <3>1. job'[c] = job[c] /\ at'[c] = at[c]
      BY <1>7, <2>1 DEF SaveItem, SaveRetry, Advance, Goto, MoveTo, TypeOK
    <3> QED BY <1>7, <2>0, <3>1, <1>c, StoreKeeps
  <2>2. CASE c = d
    <3>1. job[c] \in Saving
      BY <1>7, <2>2 DEF SaveItem, SaveRetry
    <3>2. boot = "done" /\ \A k \in 1 .. at[c] - 1 : k \in good[c]
      BY <2>0, <3>1 DEF SavedSoFar
    <3>3. CASE at'[c] = at[c]
      <4>1. ASSUME NEW k \in 1 .. at'[c] - 1 PROVE k \in good'[c]
        BY <4>1, <1>7, <2>0, <3>2, <3>3, <1>a, StoreKeeps, WatchKeeps
      <4> QED BY <2>0, <3>2, <4>1
    <3>4. CASE at'[c] # at[c]
      <4>1. at'[c] = at[c] + 1 /\ flash'[at[c]] = ram[at[c]] /\ at[c] \in Keys
        <5>1. at[c] \in Keys
          BY DEF TypeOK
        <5> QED BY <1>7, <2>2, <3>4, <5>1, StoreType
                DEF SaveItem, SaveRetry, Advance, MoveTo, Goto, TypeOK
      <4>2. ASSUME NEW k \in 1 .. at'[c] - 1 PROVE k \in good'[c]
        <5>1. CASE k = at[c]
          BY <5>1, <4>1, <2>0, WatchKeeps
        <5>2. CASE k # at[c]
          <6>1. k \in 1 .. at[c] - 1
            BY <5>2, <4>1, <4>2
          <6> QED BY <6>1, <1>7, <2>0, <3>2, <1>a, StoreKeeps, WatchKeeps
        <5> QED BY <5>1, <5>2
      <4> QED BY <2>0, <3>2, <4>2
    <3> QED BY <3>3, <3>4
  <2> QED BY <2>1, <2>2
<1>8. CASE UNCHANGED vars
  BY <1>8 DEF vars, SavedSoFar
<1> QED BY <1>1, <1>2, <1>3, <1>4, <1>5, <1>6, <1>7, <1>8 DEF Next

\* What the boot has loaded, and what it finds loaded at its end.
LEMMA LoadedStep ==
    TypeOK /\ LoadedSoFar /\ Booted /\ [Next]_vars => LoadedSoFar' /\ Booted'
<1> SUFFICES ASSUME TypeOK, LoadedSoFar, Booted, [Next]_vars
             PROVE  LoadedSoFar' /\ Booted'
  OBVIOUS
<1>a. \A d \in Clients : job[d] \in Saving \cup {"load"} => boot = "done"
  BY DEF LoadedSoFar
<1>1. CASE FlashInit
  <2>1. boot = "init" /\ UNCHANGED <<ram, flash, job, touched>> /\ at'["boot"] = 1
    BY <1>1 DEF FlashInit, MoveTo, TypeOK
  <2>2. \A k \in Keys : ~(k < 1)
    OBVIOUS
  <2>3. ram = Default /\ ~touched /\ \A d \in Clients : job[d] = "idle"
    BY <2>1 DEF LoadedSoFar
  <2>4. CASE boot' = "load"
    BY <1>1, <2>1, <2>2, <2>3, <2>4 DEF FlashInit, LoadedSoFar, Booted
  <2>5. CASE boot' = "done"
    BY <1>1, <2>5 DEF FlashInit, LoadedSoFar, Booted
  <2> QED BY <1>1, <2>4, <2>5 DEF FlashInit
<1>2. CASE BootLoad
  <2>1. at["boot"] \in Keys
    BY DEF TypeOK
  <2>2. /\ ready' = ready /\ flash' = flash /\ job' = job /\ touched' = touched
        /\ ready /\ ~touched /\ boot = "load"
    BY <1>2 DEF BootLoad, LoadedSoFar
  <2>3. \A k \in Keys :
           ram'[k] = IF k <= at["boot"] /\ flash[k] # Missing THEN flash[k] ELSE Default[k]
    BY <1>2, <2>1, <2>2, ReadType DEF BootLoad, LoadedSoFar
  <2>4. CASE at["boot"] < N
    <3>1. at'["boot"] = at["boot"] + 1 /\ boot' = "load"
      BY <1>2, <2>2, <2>4 DEF BootLoad, MoveTo, TypeOK
    <3>2. \A k \in Keys : k < at["boot"] + 1 <=> k <= at["boot"]
      BY <2>1
    <3> QED BY <2>2, <2>3, <3>1, <3>2 DEF LoadedSoFar, Booted
  <2>5. CASE ~(at["boot"] < N)
    <3>1. \A k \in Keys : k <= at["boot"]
      BY <2>1, <2>5, VarsAssumption
    <3>2. boot' = "done"
      BY <1>2, <2>5 DEF BootLoad
    <3> QED BY <2>2, <2>3, <3>1, <3>2 DEF LoadedSoFar, Booted
  <2> QED BY <2>4, <2>5
<1>3. CASE Restart
  BY <1>3 DEF Restart, LoadedSoFar, Booted
<1>4. CASE LoadStart
  BY <1>4 DEF LoadStart, Free, LoadedSoFar, Booted
<1>5. CASE LoadItem
  <2>1. boot = "done" /\ UNCHANGED <<flash, ready, boot, touched>>
    BY <1>5, <1>a DEF LoadItem
  <2>2. at["uart"] \in Keys
    BY DEF TypeOK
  <2>3. \A k \in Keys : ram'[k] = ram[k] \/ (flash[k] # Missing /\ ram'[k] = flash[k])
    BY <1>5, <2>2, ReadType DEF LoadItem
  <2> QED BY <2>1, <2>3 DEF LoadedSoFar, Booted
<1>6. CASE Clear
  BY <1>6 DEF Clear, Free, LoadedSoFar, Booted
<1>7. ASSUME NEW k \in Keys, NEW v \in Values, Set(k, v) \/ GattWrite(k, v)
      PROVE  LoadedSoFar' /\ Booted'
  BY <1>7 DEF Set, GattWrite, Free, LoadedSoFar, Booted
<1>8. ASSUME NEW d \in Clients, SaveStart(d) PROVE LoadedSoFar' /\ Booted'
  BY <1>8 DEF SaveStart, Free, LoadedSoFar, Booted
<1>9. ASSUME NEW d \in Clients, SaveItem(d) \/ SaveRetry(d)
      PROVE  LoadedSoFar' /\ Booted'
  <2>1. boot = "done" /\ UNCHANGED <<ram, ready, boot, touched>>
    BY <1>9, <1>a DEF SaveItem, SaveRetry
  <2>2. \A k \in Keys : ram[k] # Missing
    BY VarsAssumption DEF TypeOK
  <2> QED BY <1>9, <2>1, <2>2, StoreKeeps DEF LoadedSoFar, Booted
<1>10. CASE UNCHANGED vars
  BY <1>10 DEF vars, LoadedSoFar, Booted
<1> QED BY <1>1, <1>2, <1>3, <1>4, <1>5, <1>6, <1>7, <1>8, <1>9, <1>10 DEF Next

\* The invariant of flash_save's and flash_load's loops (vars.c:320-412).
THEOREM IInvariant == Spec => []IInv
<1>1. Init => IInv
  <2> SUFFICES ASSUME Init PROVE IInv
    OBVIOUS
  <2>1. SavedSoFar
    BY DEF Init, SavedSoFar
  <2>2. LoadedSoFar /\ Booted
    BY DEF Init, LoadedSoFar, Booted
  <2> QED BY <2>1, <2>2, InitTypeOK DEF IInv
<1>2. IInv /\ [Next]_vars => IInv'
  BY NextTypeOK, SavedStep, LoadedStep DEF IInv
<1> QED BY <1>1, <1>2, PTL DEF Spec

\* A device that restarts comes up with what is in flash and the defaults of
\* the rest, wherever the restart fell (vars.c:237-248, 320-366).
THEOREM RestartRestores == Spec => []Booted
  BY IInvariant, PTL DEF IInv

\* A save that reports "1" has stored every variable as it was during the save,
\* whatever the other client did, short of a clear (vars.c:368-412).
THEOREM SavesAreKept == Spec => SaveKept
<1> DEFINE Kept ==
      \A c \in Clients \ wiped :
         job[c] \in Saving /\ job'[c] = "saved" =>
            \A k \in Keys : k \in good[c] \/ flash'[k] = ram'[k]
<1>1. IInv /\ [Next]_vars => [Kept]_vars
  <2> SUFFICES ASSUME IInv, Next, NEW c \in Clients \ wiped,
                      job[c] \in Saving, job'[c] = "saved", NEW k \in Keys
               PROVE  k \in good[c] \/ flash'[k] = ram'[k]
    OBVIOUS
  <2>1. SaveItem(c) \/ SaveRetry(c)
    <3>1. TypeOK /\ (boot # "done" => job[c] = "idle")
      BY DEF IInv, LoadedSoFar
    <3> QED BY <3>1 DEF Next, FlashInit, BootLoad, Restart, LoadStart, LoadItem,
             Clear, Set, GattWrite, SaveStart, SaveItem, SaveRetry, Advance, Goto, Free, TypeOK
  <2>2. at[c] = N /\ flash'[at[c]] = ram'[at[c]]
    <3>1. TypeOK /\ at[c] \in Keys
      BY DEF IInv, TypeOK
    <3> QED BY <2>1, <3>1, VarsAssumption, StoreType
            DEF SaveItem, SaveRetry, Advance, Goto, MoveTo, TypeOK
  <2>3. \A j \in 1 .. N - 1 : j \in good[c]
    BY <2>2 DEF IInv, SavedSoFar
  <2> QED BY <2>2, <2>3, VarsAssumption
<1> QED BY <1>1, IInvariant, PTL DEF Spec, SaveKept
=============================================================================
