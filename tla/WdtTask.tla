------------------------------- MODULE WdtTask -------------------------------
(***************************************************************************)
(* The watchdog component, wdt_task.c: client threads register for a bit   *)
(* of THREAD_MASK and report in by setting it in wdt_aggregate; the        *)
(* watchdog thread feeds the hardware when every registered bit is set.    *)
(*                                                                         *)
(* The three statics are plain uint8_t: every read-modify-write of them is *)
(* a load and a store that a higher-priority thread may split.  The model  *)
(* is untimed and has one action per such step; which thread may take the  *)
(* next one follows Zephyr's preemptive scheduling (CanRun).  A byte is    *)
(* the set of its one bits.                                                *)
(***************************************************************************)
EXTENDS Integers, FiniteSets

CONSTANTS
    Threads,        \* the client threads that call wdt_register_thread
    Prio,           \* their Zephyr priorities: a lower number runs first
    Late,           \* threads that may block before they register (bt_enable)
    MayDeregister,  \* threads that may call wdt_deregister_thread
    Width           \* usable bits of a uint8_t, 8 in the code

ASSUME ThreadsAssumption ==
    /\ IsFiniteSet(Threads)
    /\ Prio \in [Threads -> Int]
    /\ Late \subseteq Threads
    /\ MayDeregister \subseteq Threads
ASSUME WidthAssumption == Width \in 1 .. 8

VARIABLES
    mask,   \* THREAD_MASK
    count,  \* num_threads, a uint8_t: kept modulo 256
    agg,    \* wdt_aggregate
    pc,     \* where each client thread is
    id,     \* thread_id, as returned by wdt_register_thread
    seen,   \* the byte a thread holds in a register between load and store
    cnt,    \* num_threads as the thread loaded it
    wpc,    \* where the watchdog thread is
    fed     \* history: who reported in, or was pardoned, since the last clear

vars == <<mask, count, agg, pc, id, seen, cnt, wpc, fed>>
client == <<pc, id, seen, cnt>>

Bits == 0 .. Width - 1
Wrap == 256
Byte(i) == {i} \cap Bits       \* (uint8_t)(1 << i)

Blocked == {"boot", "asleep", "gone"}
Runnable == {"start", "awake"}                        \* woken, not yet run
Registering == {"scanned", "masked"}
Enrolled == {"enrolled", "awake", "loaded", "asleep"}
Leaving == {"leaving", "unmasked", "uncounted"}

\* t has the CPU: no thread that precedes it is runnable, and none of its own
\* priority is in the middle of a run (equal priorities are not time-sliced).
CanRun(t) ==
    \A u \in Threads \ {t} :
        \/ pc[u] \in Blocked
        \/ Prio[t] < Prio[u]
        \/ Prio[t] = Prio[u] /\ pc[u] \in Runnable

\* The watchdog thread has the lowest priority of all.
WdtCanRun == \A t \in Threads : pc[t] \in Blocked

\* Mutant: every thread may block before it registers.
InitAllBoot ==
    /\ mask = {} /\ count = 0 /\ agg = {}
    /\ pc = [t \in Threads |-> "boot"]
    /\ id = [t \in Threads |-> {}]
    /\ seen = [t \in Threads |-> {}]
    /\ cnt = [t \in Threads |-> 0]
    /\ wpc = "init" /\ fed = {}

Init ==
    /\ mask = {} /\ count = 0 /\ agg = {}
    /\ pc = [t \in Threads |-> IF t \in Late THEN "boot" ELSE "start"]
    /\ id = [t \in Threads |-> {}]
    /\ seen = [t \in Threads |-> {}]
    /\ cnt = [t \in Threads |-> 0]
    /\ wpc = "init" /\ fed = {}

-----------------------------------------------------------------------------
(* A client thread. *)

Goto(t, from, to) == pc[t] = from /\ pc' = [pc EXCEPT ![t] = to]

\* An interrupt (timer, HCI event) makes a blocked thread runnable.
Wake(t) ==
    /\ \/ Goto(t, "boot", "start")
       \/ Goto(t, "asleep", "awake")
    /\ UNCHANGED <<mask, count, agg, id, seen, cnt, wpc, fed>>

\* The thread's device is missing: it returns without registering.
Quit(t) ==
    /\ CanRun(t) /\ Goto(t, "start", "gone")
    /\ UNCHANGED <<mask, count, agg, id, seen, cnt, wpc, fed>>

\* The scan of wdt_register_thread: the first i in 0..num_threads whose byte
\* meets no bit of the mask, else the byte of num_threads itself.  The byte of
\* an i past the width is empty, meets no bit, and so is taken.
OpenBits(m, c) == {i \in 0 .. c : Byte(i) \cap m = {}}
NewId(m, c) ==
    IF OpenBits(m, c) = {} THEN Byte(c)
    ELSE Byte(CHOOSE i \in OpenBits(m, c) : \A j \in OpenBits(m, c) : i <= j)

RegScan(t) ==
    /\ CanRun(t) /\ Goto(t, "start", "scanned")
    /\ id' = [id EXCEPT ![t] = NewId(mask, count)]
    /\ seen' = [seen EXCEPT ![t] = mask]
    /\ cnt' = [cnt EXCEPT ![t] = count]
    /\ UNCHANGED <<mask, count, agg, wpc, fed>>

\* Mutant: the mask keeps only the newest bit (= for |=).
RegMaskAssigns(t) ==
    /\ CanRun(t) /\ Goto(t, "scanned", "masked")
    /\ mask' = id[t]
    /\ UNCHANGED <<count, agg, id, seen, cnt, wpc, fed>>

\* THREAD_MASK |= new_thread_id.  The compiler may load the mask again or use
\* the byte the scan loaded.
RegMask(t) ==
    /\ CanRun(t) /\ Goto(t, "scanned", "masked")
    /\ \E base \in {mask, seen[t]} : mask' = base \cup id[t]
    /\ UNCHANGED <<count, agg, id, seen, cnt, wpc, fed>>

\* Mutant: num_threads++ is missing.
RegCountMissing(t) ==
    /\ CanRun(t) /\ Goto(t, "masked", "enrolled")
    /\ UNCHANGED <<mask, count, agg, id, seen, cnt, wpc, fed>>

\* num_threads++, from a fresh load or from the scan's.
RegCount(t) ==
    /\ CanRun(t) /\ Goto(t, "masked", "enrolled")
    /\ \E base \in {count, cnt[t]} : count' = (base + 1) % Wrap
    /\ UNCHANGED <<mask, agg, id, seen, cnt, wpc, fed>>

\* wdt_feed_watchdog: wdt_aggregate |= thread_id.
FeedLoad(t) ==
    /\ CanRun(t) /\ (Goto(t, "enrolled", "loaded") \/ Goto(t, "awake", "loaded"))
    /\ seen' = [seen EXCEPT ![t] = agg]
    /\ UNCHANGED <<mask, count, agg, id, cnt, wpc, fed>>

\* Mutant: the report replaces the aggregate (= for |=).
FeedStoreAssigns(t) ==
    /\ CanRun(t) /\ Goto(t, "loaded", "asleep")
    /\ agg' = id[t] /\ fed' = fed \cup {t}
    /\ UNCHANGED <<mask, count, id, seen, cnt, wpc>>

FeedStore(t) ==
    /\ CanRun(t) /\ Goto(t, "loaded", "asleep")
    /\ agg' = seen[t] \cup id[t]
    /\ fed' = fed \cup {t}
    /\ UNCHANGED <<mask, count, id, seen, cnt, wpc>>

\* wdt_deregister_thread: the test of the mask, then the three assignments.
DeregTest(t) ==
    /\ t \in MayDeregister /\ CanRun(t)
    /\ IF id[t] \subseteq mask THEN Goto(t, "awake", "leaving")
                               ELSE Goto(t, "awake", "gone")
    /\ seen' = [seen EXCEPT ![t] = mask]
    /\ cnt' = [cnt EXCEPT ![t] = count]
    /\ UNCHANGED <<mask, count, agg, id, wpc, fed>>

\* Mutant: the bit stays in the mask.
DeregMaskMissing(t) ==
    /\ CanRun(t) /\ Goto(t, "leaving", "unmasked")
    /\ UNCHANGED <<mask, count, agg, id, seen, cnt, wpc, fed>>

DeregMask(t) ==
    /\ CanRun(t) /\ Goto(t, "leaving", "unmasked")
    /\ \E base \in {mask, seen[t]} : mask' = base \ id[t]
    /\ UNCHANGED <<count, agg, id, seen, cnt, wpc, fed>>

DeregCount(t) ==
    /\ CanRun(t) /\ Goto(t, "unmasked", "uncounted")
    /\ \E base \in {count, cnt[t]} : count' = (base + Wrap - 1) % Wrap
    /\ UNCHANGED <<mask, agg, id, seen, cnt, wpc, fed>>

\* wdt_aggregate = THREAD_MASK: every thread is pardoned for this loop.
DeregPardon(t) ==
    /\ CanRun(t) /\ Goto(t, "uncounted", "gone")
    /\ agg' = mask
    /\ fed' = Threads
    /\ UNCHANGED <<mask, count, id, seen, cnt, wpc>>

-----------------------------------------------------------------------------
(* The watchdog thread. *)

\* Bind the device, install the timeout, set it up; on an error the thread
\* returns and the hardware watchdog is never started.
WdtSetup ==
    /\ WdtCanRun /\ wpc = "init"
    /\ wpc' \in {"check", "dead"}
    /\ UNCHANGED <<mask, count, agg, client, fed>>

\* Mutant: one report is enough.
WdtFeedAny ==
    /\ WdtCanRun /\ wpc = "check" /\ (agg # {} \/ mask = {})
    /\ wpc' = "clear"
    /\ UNCHANGED <<mask, count, agg, client, fed>>

\* wdt_aggregate == THREAD_MASK: the hardware is fed.  When they differ the
\* thread sleeps and looks again: a step that changes nothing here.
WdtFeed ==
    /\ WdtCanRun /\ wpc = "check" /\ agg = mask
    /\ wpc' = "clear"
    /\ UNCHANGED <<mask, count, agg, client, fed>>

\* Mutant: the aggregate is not cleared.
WdtClearMissing ==
    /\ WdtCanRun /\ wpc = "clear"
    /\ wpc' = "check" /\ fed' = {}
    /\ UNCHANGED <<mask, count, agg, client>>

\* wdt_aggregate = 0, a step of its own: a client may run in between.
WdtClear ==
    /\ WdtCanRun /\ wpc = "clear"
    /\ wpc' = "check"
    /\ agg' = {} /\ fed' = {}
    /\ UNCHANGED <<mask, count, client>>

Client(t) ==
    \/ Wake(t) \/ Quit(t)
    \/ RegScan(t) \/ RegMask(t) \/ RegCount(t)
    \/ FeedLoad(t) \/ FeedStore(t)
    \/ DeregTest(t) \/ DeregMask(t) \/ DeregCount(t) \/ DeregPardon(t)

Next == WdtSetup \/ WdtFeed \/ WdtClear \/ \E t \in Threads : Client(t)

Spec == Init /\ [][Next]_vars

-----------------------------------------------------------------------------
(* Properties. *)

\* The statics stay bytes, the program counters stay in the code.
TypeOK ==
    /\ mask \subseteq Bits /\ agg \subseteq Bits
    /\ count \in 0 .. Wrap - 1
    /\ pc \in [Threads -> Blocked \cup Runnable \cup Registering
                            \cup Enrolled \cup Leaving]
    /\ id \in [Threads -> SUBSET Bits]
    /\ seen \in [Threads -> SUBSET Bits]
    /\ cnt \in [Threads -> 0 .. Wrap - 1]
    /\ wpc \in {"init", "check", "clear", "dead"}
    /\ fed \subseteq Threads

\* wdt_task.c:49, "All threads report in separately.": two threads that report
\* in never share a bit, and none reports with the empty byte.
UniqueIds ==
    \A t \in Threads : pc[t] \in Enrolled =>
        /\ id[t] # {}
        /\ \A u \in Threads \ {t} : pc[u] \in Enrolled => id[t] \cap id[u] = {}

\* The mask is exactly the bits of the threads that report in, or are about to:
\* a lost bit or a bit without an owner leaves the aggregate unequal to the
\* mask for ever, and the device resets (wdt_task.c:126).
MaskExact ==
    /\ \A t \in Threads : pc[t] \in Enrolled => id[t] \subseteq mask
    /\ mask \subseteq UNION {id[t] : t \in
            {u \in Threads : pc[u] \in Enrolled \cup {"masked", "leaving"}}}

\* A set bit of the aggregate is the owner's own report since the last clear,
\* never a stale byte stored back by a thread that was interrupted.
HonestAgg == \A t \in Threads : pc[t] \in Enrolled /\ id[t] \subseteq agg => t \in fed

\* The hardware is fed only when every registered thread reported in since the
\* previous feed (wdt_task.c:122).
FeedAccounts ==
    [][wpc = "check" /\ wpc' = "clear" =>
          \A t \in Threads : pc[t] \in Enrolled => t \in fed]_vars

\* A report is forgotten only by the watchdog's clear, by a deregistration, or
\* by the store of a thread of a lower priority that the reporter interrupted:
\* the reports of the lowest-priority client are never lost.
LostOnlyToLower ==
    [][\A t \in Threads :
          pc[t] \in Enrolled /\ pc'[t] \in Enrolled
            /\ id[t] \subseteq agg /\ ~(id[t] \subseteq agg')
          => \/ wpc = "clear" /\ wpc' = "check"
             \/ \E u \in Threads : \/ pc[u] = "uncounted"
                                   \/ pc[u] = "loaded" /\ pc'[u] = "asleep"
                                         /\ Prio[t] < Prio[u]]_vars

\* The component implements Watchdog: what its threads do to three bytes, one
\* load and one store at a time, is to enrol, report, leave and feed.  The feed
\* of the hardware is what takes the reports; one that comes between it and the
\* clear does not count (wdt_task.c:122-135).
OnRolls == {t \in Threads : pc[t] \in Enrolled \cup Leaving}
W == INSTANCE Watchdog WITH
        enrolled <- OnRolls,
        reported <- IF wpc = "clear" THEN {} ELSE {t \in OnRolls : id[t] \subseteq agg}
IsWatchdog == W!Spec

-----------------------------------------------------------------------------
(* Why the properties hold: an inductive invariant. *)

\* True of the build: nobody deregisters, and the bits suffice.
EnoughBits == MayDeregister = {} /\ Cardinality(Threads) <= Width

\* No registration begins in the middle of another.  No lock says so.
Exclusive == \A t, u \in Threads : pc[t] \in Registering /\ t # u => pc[u] \notin Registering

Counted == {t \in Threads : pc[t] \in Enrolled}

NobodyLeaves == \A t \in Threads : pc[t] \notin Leaving

\* Who is on its way to register: only a late thread still boots, and while one
\* thread registers no thread before it is about to, but a late one.
LateComers ==
    /\ \A t \in Threads : pc[t] = "boot" => t \in Late
    /\ \A t, u \in Threads :
          pc[t] \in Registering /\ pc[u] = "start" /\ Prio[u] < Prio[t] => u \in Late

\* The bits handed out are 0 .. count - 1, one for each enrolled thread.
Numbering ==
    /\ count = Cardinality(Counted)
    /\ mask = IF \E t \in Threads : pc[t] = "masked" THEN 0 .. count ELSE 0 .. count - 1
    /\ \A t \in Counted : \E k \in 0 .. count - 1 : id[t] = {k}
    /\ \A t, u \in Counted : t # u => id[t] # id[u]
    /\ \A k \in 0 .. count - 1 : \E t \in Counted : id[t] = {k}
    /\ \A t \in Threads : pc[t] \in Registering =>
          id[t] = {count} /\ cnt[t] = count /\ seen[t] = 0 .. count - 1

\* What the aggregate, or a byte loaded from it, says is true.
Reports ==
    /\ agg \subseteq 0 .. count - 1
    /\ HonestAgg
    /\ \A u \in Threads : pc[u] = "loaded" =>
          /\ seen[u] \subseteq 0 .. count - 1
          /\ \A t \in Counted : id[t] \subseteq seen[u] => t \in fed

\* A byte that u has loaded holds no more than the aggregate, misses only the
\* reports of threads that precede u, and holds no more than the byte of a thread
\* that interrupted u.
Nested ==
    \A u \in Threads : pc[u] = "loaded" =>
        /\ seen[u] \subseteq agg
        /\ \A t \in Counted \ {u} :
              id[t] \subseteq agg /\ ~(id[t] \subseteq seen[u]) => Prio[t] < Prio[u]
        /\ \A v \in Threads : pc[v] = "loaded" /\ Prio[v] < Prio[u] => seen[u] \subseteq seen[v]

\* The inductive invariant from which WdtTask_proofs derives the others.
IInv == TypeOK /\ NobodyLeaves /\ Numbering /\ Reports /\ Nested

\* Two registrations at once are the only way to go wrong: until that happens
\* all is well, whatever the priorities and whoever comes late (bt_task.c:160).
SoundWhileExclusive == []Exclusive => []IInv

\* And only a late thread makes it happen: two registrations come to overlap when
\* a thread that blocked before its own (bt_enable, bt_task.c:150-160) preempts
\* that of a thread it precedes.  The start-up keeps all others apart.
OnlyLateOverlaps ==
    [][Exclusive /\ ~Exclusive' =>
          \E l \in Late, t \in Threads :
             /\ Prio[l] < Prio[t] /\ pc[t] \in Registering
             /\ pc[l] = "start" /\ pc'[l] = "scanned"]_vars
=============================================================================
