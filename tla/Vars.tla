-------------------------------- MODULE Vars --------------------------------
(***************************************************************************)
(* vars.c: the configuration variables in RAM, and the copies of the       *)
(* persisted ones in flash.  main loads them before it starts the threads; *)
(* then the UART thread (commands) and the Bluetooth host's thread (GATT   *)
(* writes) set, save, load and clear them with no lock, and power may fail *)
(* at any time.                                                            *)
(*                                                                         *)
(* One action per variable of the loops of flash_save and flash_load: a    *)
(* flash operation blocks its thread, so others run in between.  NVS is    *)
(* external: an item is stored whole or not at all, an error stores        *)
(* nothing, and reads of stored items succeed.                             *)
(***************************************************************************)
EXTENDS Integers

CONSTANTS
    N,         \* persisted variables, numbered in the order of setget[]
    Gatt,      \* those with a GATT write handler
    Values,    \* what a variable may hold
    Default,   \* what each holds at boot
    Missing    \* not a value: nothing stored under the variable's save_id

Keys == 1 .. N
Clients == {"uart", "bt"}

ASSUME VarsAssumption ==
    /\ N \in Nat \ {0} /\ Gatt \subseteq Keys
    /\ Default \in [Keys -> Values] /\ Missing \notin Values

VARIABLES
    ram,      \* the variables
    flash,    \* the items of the NVS file system fs
    ready,    \* fs is initialised; if not, every operation on it fails
    boot,     \* where main is in vars_init: "init", "load", "done"
    job,      \* what each client is doing, or how its last save ended
    at,       \* hindex: the variable main ("boot") or a client works on
    good,     \* history: keys whose item is a value the variable has had since
              \* the client's save began
    wiped,    \* history: clients during whose save the flash was cleared
    touched   \* history: a variable was set, or the flash cleared, since boot

vars == <<ram, flash, ready, boot, job, at, good, wiped, touched>>

Idle == {"idle", "saved", "failed"}
Saving == {"save", "retry"}

Init ==
    /\ ram = Default /\ flash = [k \in Keys |-> Missing] /\ ready = FALSE
    /\ boot = "init" /\ job = [c \in Clients |-> "idle"]
    /\ at = [c \in Clients \cup {"boot"} |-> 1]
    /\ good = [c \in Clients |-> {}] /\ wiped = {} /\ touched = FALSE

\* Part of every step: the histories.
Watch ==
    good' = [c \in Clients |->
        IF job'[c] \in Saving
        THEN {k \in Keys : flash'[k] = ram'[k] \/ (k \in good[c] /\ flash'[k] = flash[k])}
        ELSE {}]

Goto(c, to) == job' = [job EXCEPT ![c] = to]
MoveTo(c, k) == at' = [at EXCEPT ![c] = k]

\* What the RAM holds after vars_flash_read of k: an item not found is skipped.
Read(k) == IF ready /\ flash[k] # Missing THEN [ram EXCEPT ![k] = flash[k]] ELSE ram
Store(k) == [flash EXCEPT ![k] = ram[k]]

-----------------------------------------------------------------------------
(* Boot and power loss. *)

\* vars_flash_init: when it fails nothing is loaded, and main goes on.
FlashInit ==
    /\ boot = "init" /\ MoveTo("boot", 1)
    /\ \/ ready' = TRUE /\ boot' = "load"
       \/ ready' = FALSE /\ boot' = "done"
    /\ UNCHANGED <<ram, flash, job, wiped, touched>> /\ Watch

\* Mutant: the loop stops at the first item that is not found, as in flash_save.
BootLoadStops ==
    /\ boot = "load" /\ ram' = Read(at["boot"])
    /\ IF at["boot"] < N /\ flash[at["boot"]] # Missing
       THEN MoveTo("boot", at["boot"] + 1) /\ UNCHANGED boot
       ELSE boot' = "done" /\ UNCHANGED at
    /\ UNCHANGED <<flash, ready, job, wiped, touched>> /\ Watch

\* flash_load, called by vars_init.
BootLoad ==
    /\ boot = "load" /\ ram' = Read(at["boot"])
    /\ IF at["boot"] < N THEN MoveTo("boot", at["boot"] + 1) /\ UNCHANGED boot
                         ELSE boot' = "done" /\ UNCHANGED at
    /\ UNCHANGED <<flash, ready, job, wiped, touched>> /\ Watch

\* Power fails, the watchdog expires, or "reboot" is set: the RAM is lost.
Restart ==
    /\ ram' = Default /\ ready' = FALSE /\ boot' = "init"
    /\ job' = [c \in Clients |-> "idle"]
    /\ at' = [c \in Clients \cup {"boot"} |-> 1]
    /\ wiped' = {} /\ touched' = FALSE
    /\ UNCHANGED flash /\ Watch

-----------------------------------------------------------------------------
(* The clients. *)

Free(c) == boot = "done" /\ job[c] \in Idle

\* vars_set of a persisted variable.  A value that is refused changes nothing.
Set(k, v) ==
    /\ Free("uart")
    /\ ram' = [ram EXCEPT ![k] = v] /\ touched' = TRUE
    /\ UNCHANGED <<flash, ready, boot, job, at, wiped>> /\ Watch

\* A write_lora_ handler, of all or a part of the variable: any value may result.
GattWrite(k, v) ==
    /\ Free("bt") /\ k \in Gatt
    /\ ram' = [ram EXCEPT ![k] = v] /\ touched' = TRUE
    /\ UNCHANGED <<flash, ready, boot, job, at, wiped>> /\ Watch

\* Mutant: hindex is static and not reset, as in list_next_command.
SaveStartStatic(c) ==
    /\ Free(c) /\ Goto(c, "save") /\ UNCHANGED at
    /\ wiped' = wiped \ {c}
    /\ UNCHANGED <<ram, flash, ready, boot, touched>> /\ Watch

\* vars_set "save", or the save characteristic: flash_save begins.
SaveStart(c) ==
    /\ Free(c) /\ Goto(c, "save") /\ MoveTo(c, 1)
    /\ wiped' = wiped \ {c}
    /\ UNCHANGED <<ram, flash, ready, boot, touched>> /\ Watch

\* The variable was written: the next one, or "1".
Advance(c) ==
    IF at[c] < N THEN MoveTo(c, at[c] + 1) /\ Goto(c, "save")
                 ELSE Goto(c, "saved") /\ UNCHANGED at

\* vars_flash_write, the first nvs_write: stored (or the same already: 0 bytes
\* written), or an error, after which it is tried again.
SaveItem(c) ==
    /\ job[c] = "save"
    /\ \/ ready /\ flash' = Store(at[c]) /\ Advance(c)
       \/ UNCHANGED <<flash, at>> /\ Goto(c, "retry")
    /\ UNCHANGED <<ram, ready, boot, wiped, touched>> /\ Watch

\* Mutant: the error of one variable does not end the loop, and the result of
\* the last one is reported.
RetryGoesOn(c) ==
    /\ job[c] = "retry"
    /\ \/ ready /\ flash' = Store(at[c])
       \/ UNCHANGED flash
    /\ IF at[c] < N THEN MoveTo(c, at[c] + 1) /\ Goto(c, "save")
                    ELSE Goto(c, "failed") /\ UNCHANGED at
    /\ UNCHANGED <<ram, ready, boot, wiped, touched>> /\ Watch

\* The second nvs_write: if (rc) takes a count of bytes written for an error.
\* The loop ends with "-1" at the first variable reported as failed.
SaveRetry(c) ==
    /\ job[c] = "retry"
    /\ \/ ready /\ flash[at[c]] = ram[at[c]] /\ UNCHANGED flash /\ Advance(c)
       \/ /\ ready /\ flash[at[c]] # ram[at[c]]
          /\ flash' = Store(at[c]) /\ Goto(c, "failed") /\ UNCHANGED at
       \/ UNCHANGED <<flash, at>> /\ Goto(c, "failed")
    /\ UNCHANGED <<ram, ready, boot, wiped, touched>> /\ Watch

\* vars_get "save": flash_load, over what is in the RAM.
LoadStart ==
    /\ Free("uart") /\ Goto("uart", "load") /\ MoveTo("uart", 1)
    /\ UNCHANGED <<ram, flash, ready, boot, wiped, touched>> /\ Watch

LoadItem ==
    /\ job["uart"] = "load" /\ ram' = Read(at["uart"])
    /\ IF at["uart"] < N THEN MoveTo("uart", at["uart"] + 1) /\ UNCHANGED job
                         ELSE Goto("uart", "idle") /\ UNCHANGED at
    /\ UNCHANGED <<flash, ready, boot, wiped, touched>> /\ Watch

\* vars_set "flashclear": nvs_clear.  In some Zephyr versions the file system
\* has to be initialised again after it, which only a restart does.
Clear ==
    /\ Free("uart")
    /\ IF ready THEN flash' = [k \in Keys |-> Missing] /\ ready' \in BOOLEAN
                ELSE UNCHANGED <<flash, ready>>
    /\ wiped' = wiped \cup {c \in Clients : job[c] \in Saving}
    /\ touched' = TRUE
    /\ UNCHANGED <<ram, boot, job, at>> /\ Watch

Next ==
    \/ FlashInit \/ BootLoad \/ Restart \/ LoadStart \/ LoadItem \/ Clear
    \/ \E k \in Keys, v \in Values : Set(k, v) \/ GattWrite(k, v)
    \/ \E c \in Clients : SaveStart(c) \/ SaveItem(c) \/ SaveRetry(c)

Spec == Init /\ [][Next]_vars

-----------------------------------------------------------------------------
(* Properties. *)

\* Every variable has the values the code can give it.
TypeOK ==
    /\ ram \in [Keys -> Values] /\ flash \in [Keys -> Values \cup {Missing}]
    /\ ready \in BOOLEAN /\ boot \in {"init", "load", "done"}
    /\ job \in [Clients -> Idle \cup Saving \cup {"load"}]
    /\ at \in [Clients \cup {"boot"} -> Keys]
    /\ good \in [Clients -> SUBSET Keys]
    /\ wiped \subseteq Clients /\ touched \in BOOLEAN

\* A save that reports "1" has left every variable in flash with a value it had
\* during the save, whatever the other thread set or saved meanwhile, unless it
\* cleared the flash (vars.c:375, 407).
SaveKept ==
    [][\A c \in Clients \ wiped :
          job[c] \in Saving /\ job'[c] = "saved" =>
             \A k \in Keys : k \in good[c] \/ flash'[k] = ram'[k]]_vars

\* A device that restarts with its flash readable comes up with exactly what is
\* in flash, and with the default where nothing is; also after a restart in the
\* middle of a save, or with items missing (vars.c:327).
Booted ==
    boot = "done" /\ ready /\ ~touched =>
        \A k \in Keys : ram[k] = IF flash[k] = Missing THEN Default[k] ELSE flash[k]

\* vars.c:307, "Flash write of id %d failed": a variable reported as failed is
\* not in flash.
FailureHonest ==
    [][\A c \in Clients :
          job[c] = "retry" /\ job'[c] = "failed" => flash'[at[c]] # ram[at[c]]]_vars

-----------------------------------------------------------------------------
(* Why SaveKept and Booted hold: an inductive invariant. *)

\* What a client's save has passed is in flash.
SavedSoFar ==
    \A c \in Clients \ wiped : job[c] \in Saving =>
        boot = "done" /\ \A k \in 1 .. at[c] - 1 : k \in good[c]

\* The RAM is the flash as far as the boot has loaded it.
LoadedSoFar ==
    /\ boot = "init" => ram = Default
    /\ boot = "load" => ready
    /\ boot # "done" => ~touched /\ \A c \in Clients : job[c] = "idle"
    /\ boot = "load" => \A k \in Keys :
          ram[k] = IF k < at["boot"] /\ flash[k] # Missing THEN flash[k] ELSE Default[k]

IInv == TypeOK /\ SavedSoFar /\ LoadedSoFar /\ Booted
=============================================================================
