# Verification of the Signetik LoRa client

TLA+ models of the firmware in `src/client/src`, the TLC runs that check them on
small instances, and the theorems about them that TLAPS has checked. Every
definition is translated from the C source; `PROJECT.json` names the lines.

## 1. The system

A Zephyr application for a LoRa module. `main` loads the configuration from
flash, starts one thread per part and sleeps.

| Part | State | Operations | Talks to |
|---|---|---|---|
| Watchdog, `wdt_task.c` | `THREAD_MASK`, `num_threads`, `wdt_aggregate` (plain bytes, no lock), `handled_event` | register, deregister, feed (by the clients); compare, feed the hardware, clear (by its thread); the expiry callback | UART, LoRa, Bluetooth threads; the hardware |
| LoRa, `LoRa_task.c` | `lora_tx_queue`, three semaphores, `lw_config`, the message in hand, `var_connected` | join, take, pace, send; `lora_push`; the stack's two callbacks | radio stack, UART, LEDs, variables, watchdog |
| Variables, `vars.c` | 17 persisted variables and others in RAM, their items in NVS flash | set, get, save, load, clear, reboot | commands on the UART, GATT writes |
| GATT service, `gatt_config_service.c` | none of its own | read and write ten of the variables, save | Bluetooth host thread, `vars.c` |
| UART, `uart_task.c` | `sem_tty`, the tty | read bytes for the command parser (a library outside the repository), `uart_send` | everybody |
| Bluetooth, `bt_task.c` | advertising | enable, register, report | watchdog |
| LEDs, `led_task.c` | `led_msgq` (5), last message, `var_leds` | show, wait | LoRa thread and callbacks |
| Test application, `loratest_task.c` | none | enable, put "TEST" every 10 s | `lora_tx_queue`, `var_enabled` |

What is hard in it: there is no mutex. Threads of different priorities preempt
each other inside read-modify-writes of shared bytes; settings change between a
test and the action it guards; results are ignored (`k_sem_take` with a timeout,
`save_vars_config`, `vars_init`); two threads walk the variables at once; and a
device that gets any of it wrong is reset by its own watchdog. `PROJECT.json`
lists each hazard at its line, with the properties that cover it or why none does.

What makes each part correct:

- **watchdog:** one bit per thread; the mask is the registered threads; a feed
  of the hardware accounts for every one of them; healthy devices are not reset,
  hung ones are, in bounded time;
- **LoRa:** an accepted message is handed over once and in order; sends are paced;
  a disable stops sending; lines are not mixed; the thread never hangs;
- **variables:** a save that reports success has stored everything; a restart at
  any point restores what is stored; the clients do not disturb each other's saves;
- **LEDs:** what is shown follows the messages and `var_leds`; showing it never
  holds up the radio;
- **one variable:** what is read back is what was set, or the setting is refused;
  what is saved is what a restart reads.

## 2. The modules

| Module | Models | Extends |
|---|---|---|
| `Watchdog` | abstract: threads enrol and report, the hardware is fed when all have | |
| `WdtTask` | the watchdog's bytes, instruction by instruction; implements `Watchdog` | |
| `WdtTiming` | the watchdog in time; implements `Watchdog` | |
| `TxPipe` | abstract: a bounded FIFO pipe, each message decided once | |
| `LoraTask` | LoRa thread, pushers, callbacks, semaphores; implements `TxPipe` | |
| `LedTask` | LED thread, its queue, `var_leds` | |
| `RadioLeds` | LED thread composed with the LoRa thread and callbacks that feed its queue | `LedTask` |
| `Vars` | all persisted variables, flash, two clients, power loss | |
| `Setting` | one variable byte by byte: parsing, copies, lengths, its item in flash | |
| `MC...` | the instances TLC checks | the module named |
| `..._proofs` | the theorems | the module named |

### WdtTask

A byte is the set of its one bits. `THREAD_MASK |= id`, `num_threads++` and
`wdt_aggregate |= id` are separate loads and stores, so each is one or two
actions: `RegScan`, `RegMask`, `RegCount`; `FeedLoad`, `FeedStore`; `DeregTest`,
`DeregMask`, `DeregCount`, `DeregPardon`. In the registration the compiler may
load a static again or use what the scan loaded: both are allowed. Which thread
may take the next step is `CanRun`: Zephyr's strict priorities (a lower number
runs first; equal ones are not time-sliced), from `signetik.h`. An interrupt
(`Wake`) may make a blocked thread runnable between any two steps; that is how
one thread lands inside another's read-modify-write. The watchdog thread has the
lowest priority: it runs when all clients are blocked, but a client may come
between its comparison (`WdtFeed`) and its clear (`WdtClear`). `fed` is a history
variable: who has really reported in.

Constants: the client threads, their priorities, `Late` (those that may block
before they register: the Bluetooth thread, in `bt_enable`), `MayDeregister`
(nobody in this source) and the width of a byte.

The registration is only correct when no other one begins in its middle
(`Exclusive`), which no lock ensures; run `wdt_late_bt` shows what follows in the
build, whose late thread, the Bluetooth thread, has the highest priority.
`EnoughBits` (nobody deregisters, no more threads than bits) is true of this
source. That overlap is the only thing that can go wrong is
`SoundWhileExclusive`: for any priorities and any late threads, the inductive
invariant holds as long as `Exclusive` has held. Who can bring an overlap about is
`OnlyLateOverlaps`: a thread that blocked before its registration and precedes
the one it interrupts. The threads that register as soon as they start never
overlap, in any build, because one that starts first and can be interrupted is
preceded only by threads that have registered, have quit or block (`LateComers`).

`IsWatchdog` says that these steps implement `Watchdog`, in which a report and a
feed are one step each. `enrolled` is the threads whose registration was counted;
`reported` those of them whose bit is in the aggregate, and nobody between the
feed of the hardware and the clear: what is stored there is lost with the clear,
so it counts neither for this feed nor for the next. `RegCount` is `Enrol`, `FeedStore`
a `Report` (one that may undo the reports of threads that interrupted it, which is
all the abstract module grants) or, after the feed, nothing; `WdtFeed` is `Feed`,
`DeregPardon` is `Leave`, the others stutter.

### WdtTiming

Time is a tick of 2 s (`Timeout` 10, `Half` 5, `Tenth` 1 stand for 20 s, 10 s,
2 s). A client is the time left until its next report, any value up to its
`Gap`; it registers at any time and its first report is due at once. Every
thread has a bit of its own here (`wdt_late_bt` shows when it has not), and reports
and looks are atomic. That a report can be overwritten, which `WdtTask` shows,
is `FeedLost`: a thread that interrupts another one's report may lose its own,
the first after its registration like any later one, any number of times in a
row. `GapAssumption` is the rule the code relies on and states nowhere: the
longest gap and one short sleep of the watchdog thread fit in the timeout, so a
report that comes by `Deadline` (18 s) after the last feed is seen in time.

No such rule can rule out lost reports: one that is lost at an age of the
hardware from which the thread's next report may miss the deadline can cost a
healthy device a reset. `slip` is the history variable that says such a loss has happened since
the last feed, and `NoSpuriousExpiry` says that nothing else lets the hardware
of a healthy device expire. In this build only the Bluetooth and UART threads
interrupt another client, and both report about once a second: a loss slips only
in the second before the deadline, at an age the hardware reaches when the LoRa
thread's report has been missing for almost as long as it may.

`Hang` stops a thread for ever, blocked or spinning (a spinning thread starves
those of its own or a lower priority, the watchdog thread among them). `Watchdog` is implemented directly:
the mask is `enrolled`, the aggregate `reported`, and a reset is `Restart`; the feed
by the expiry callback is none of its feeds, since nobody has to report for it.

### LoraTask and TxPipe

`pc` follows `lora_thread` from one place where others can interfere to the
next. `enabled`, `class` and `auth` change at any time. A message is a number.
The radio stack is `air`, the number of sends it accepted and has not called
back for; it may refuse a send, answer after the 10 s wait, or bring data at any
time after the callbacks are set. `uartUp` is FALSE in the behaviours where
`sem_tty` is never given. The two reads of `var_enabled` at the top of the loop are
two steps (`StartJoin` or `NoJoin`, then `StartSend` or `Disconnect`), so a device
enabled in between goes on to send without being connected; the stack refuses
that until `lora_configure` has once filled the join configuration (an external
choice). `lora_configure` reads class and auth for each of its comparisons, four
steps (`ClassA`, `ClassC`, `AuthABP`, `AuthOTAA`): a change in between may have a
valid configuration refused.

`IsPipe` is a refinement: the queue with the message in hand in front of it is `TxPipe`'s pipe, the last message given to `lorawan_send` its
output, and the messages whose `k_msgq_put` has returned are the decided ones;
every step of the code accepts or refuses a message nobody has offered before,
hands over the head, or changes nothing. A refusal needs a full queue.

### Vars

The persisted variables are numbered in the order of `setget[]`; a value is
opaque. `SaveItem` and `SaveRetry` are the two `nvs_write` calls of
`vars_flash_write` for one variable, `LoadItem` and `BootLoad` one `nvs_read`:
a flash operation blocks its thread, so the other client runs in between. The
UART client sets any variable, saves, loads and clears; the Bluetooth client
writes those with a GATT handler and saves. `Restart` (power loss, watchdog,
"reboot") may come at any point and keeps only the flash. NVS is external: an
item is stored whole or not at all and as the variable was at one moment (`Store`;
a value set while `nvs_write` blocks is stored as before or after, not torn), an
error stores nothing, a read of a stored item succeeds, and after `nvs_clear` the
file system may need a new initialisation, as in later Zephyr versions. `good` and `wiped` are history
variables for `SaveKept`, `touched` for `Booted`.

### LedTask and RadioLeds

`led_thread` tests `var_leds` once per message (`Test`), then sets the pins
(`Light`, `Darken`) and waits (`Get`). `SetLeds` comes at any time and wakes
nobody; `flipped` remembers that it came since the test. `Darken` reads
`var_leds` again, as the code does, so a value set in between lights the blue
LED. A message is the set of colours it switches on: the field `enable` is in
the message, but the code that would use it is not compiled.

`RadioLeds` adds who sends messages: `lora_thread` before and after
`lorawan_send`, `lorawan_tx_data` before it gives `sem_tx_busy`,
`lorawan_rx_data` before and after its lines. Each put either finds room or
gives up after 100 ms (`Show`); `PutExpired` drops the message, as the code
does, since nobody looks at the result. `event` is a history variable, the last
message accepted. Everything else of these threads is `LoraTask`'s.

### Setting

One variable of each kind, in one module because the kind only chooses the
conversion: a string (`var_lora_auth`), a key (`VAR_BIN_CREATE`), a number of
one byte (`var_lora_datarate`). `kind` is chosen in `Init` and stays.

- A command is parsed (`Parsed`, `Refused`) and copied byte by byte (`CopyByte`),
  and a string is measured after that (`CopyEnd`): vars.c:502-534. The answer is
  formed from the value as typed, except for numbers, which are truncated first.
- `GattWrite` is a handler of the Bluetooth host's thread, which none of the
  other threads interrupts: it may come between any two bytes of a copy. It does
  not set the length.
- `Save` writes `length + 1` bytes of a string (`Image`), `Load` and `Restart`
  put them over what is there and measure again. Flash errors and the loop over
  many variables are `Vars`'s.
- `UprLoad` and `UprStore` are one round of `strupr`, which `lora_configure`
  applies to the variable itself. The LoRa thread is below the UART thread, so it
  gets no further while a command is being copied.

`strncpy`, `memcpy`, `strlen` and `strupr` are the C library's, taken byte by
byte. Characters are numbers and a lower-case letter is its upper-case one plus
10; a value after `0x` is a sequence of hexadecimal digits, `Bad` for any other
character; the digit's own conversion is left out. `minsize` and `maxsize` are
equal for every key in `setget[]`, so a key has all its digits or is refused.
`SettingAssumption` says what the inputs are: a command leaves a string its
terminating NUL; a GATT write may begin at any byte of a string and have any
length, and only its last byte has to stay NUL; a write of the number brings a
byte. What the code does otherwise depends on the memory behind the variable (see
"Not modelled"). The history variables are `reply` (the last answer, until
someone else writes), `want` (byte by byte, what clients wrote last), `by` (byte
by byte, the range of the write it comes from) and `saved` (what a get would have
answered at the last save). `by` is there for `OneStaleChar`: two partial writes
that each interrupt `strupr` can leave one stale character each, so the promise
is one for each write, and it was false without the label.

## 3. The runs

| Run | Instance | Shows |
|---|---|---|
| `wdt_orderly` | 3 threads, 8 bits, the lowest-priority one late and deregistering; 29 k states | `UniqueIds`, `MaskExact`, `HonestAgg`, `FeedAccounts`, `LostOnlyToLower`, `IsWatchdog` |
| `wdt_build` | the build's three clients with their real priorities, Bluetooth late; 89 k states | `SoundWhileExclusive`, `OnlyLateOverlaps` |
| `wdt_late_bt` | the real priorities, Bluetooth late | **violated** `UniqueIds` |
| `wdt_timing` | 2 threads (gaps of 18 s and 4 s), reports of the faster one lost at any time; 297 k states | `NoSpuriousExpiry`, `DetectBound`, `HangRecovers`, `OnTime`, `IsWatchdog` |
| `lora` | 2 pushing threads and the test thread, 1 place in the queue, 3 messages, the pushing threads symmetric; 2.3 M states | `Pacing`, `OneLateSend`, `CallbackLines`, `JoinsConfigured`, `IsPipe` |
| `lora_live` | 1 pushing thread and the test thread, 2 places, 2 messages; 365 k states | `FeedsForever`, `Drains` |
| `lora_disabled` | 1 message | **violated** `NoSendWhenDisabled` |
| `lora_clear` | 1 message | **violated** `InvalidAuthClears` |
| `vars` | 3 variables of 2 values, one without a GATT handler; 77 k states | `IInv`, `Booted`, `SaveKept` |
| `vars_retry` | the same | **violated** `FailureHonest` |
| `leds` | a queue of 2 places for 3 senders, 1 send on the air; 255 k states | `LampsRight`, `CaughtUp`, `RadioGoesOn`, `DarkForGood`, `LastShown` |
| `setting` | a string of 4 bytes, a key of 2, a number of 1; 1.6 M states | `Kept`, `ReplyIsGet`, `OneStaleChar` |

What the properties of the two last mean: `LampsRight`, the lit LEDs are the
message's, or none, or the blue one of a race on `var_leds`; `CaughtUp`, the message
that is shown on an empty queue is the last one accepted from any sender; `RadioGoesOn`, the
LoRa thread comes back to its report and the callbacks return even if the LED
thread never runs again; `DarkForGood`, a device whose LEDs are disabled goes
dark with the next message and stays dark; `LastShown`, when the radio falls
quiet the LEDs come to show the last accepted message. `Kept`, what was saved is
what a restart or a load brings back although GATT writes leave the length as it
was; `ReplyIsGet`, a get answers what the last successful set was answered;
`OneStaleChar`, of what one set, load or GATT write left, `strupr` changes back at
most one character.

Why the bounds suffice. Three threads give one that is interrupted, one that
interrupts it and one that waits; `WdtTask_proofs` covers any number. In
`wdt_timing` the gap of 18 s is exactly the largest that `GapAssumption` allows,
and losses come before and after the age from which they slip. In `lora` one place in the queue and the
message in hand hold two messages, so the third meets a full queue, and three
sends suffice for one wait that runs out and the two sends it leaves in flight.
In `vars` the first, a middle and the last variable differ. In `leds` the queue
has fewer places than there are senders, so that it is full while all three
wait; in the code it has five. In `setting` the typed strings have one
and three letters and the first value two, so that a length may be shorter than, equal to or
longer than that of the text a GATT write leaves, and the string is one byte
longer than the longest; GATT writes begin at its first or second byte, with and
without a NUL; keys are written whole and in either part, refused for a digit and
for their length; the numbers are above and below the range of a byte. Named
bounds: `MaxMessages` (messages pushed in a behaviour), `MaxAir` (sends on the
air), `HangCap` (of the clock `hangFor`, above what `DetectBound` allows).

`CHECK_DEADLOCK FALSE` where the system may stop: a watchdog that could not be
set up with every thread gone, a device without a radio, the bound on messages.
`Vars`, `RadioLeds` and `Setting` never stop.

Each property of a passing run has a mutant, a plausible slip in the code it is
about, that the run rejects. The mutants stand before the definitions they
replace, marked as such.

### Findings

- `wdt_late_bt`: two threads register with the same bit when the Bluetooth
  thread finishes `bt_enable` during another registration
  (`wdt_task.c:49`, "All threads report in separately.").
- `lora_disabled`: a message is sent after a disable (`LoRa_task.c:379`,
  "prohibit sending if lora access now disabled"). One at most: `OneLateSend`.
- `lora_clear`: `memset(&join_cfg, ...)` clears the pointer
  (`LoRa_task.c:149`, "clear the configuration structure"). The return value
  keeps the thread from using the stale structure: `JoinsConfigured`.
- `vars_retry`: a second `nvs_write` that succeeds is reported as failed
  (`vars.c:307`) and the save stops there.

Seen while modelling, with no line of the source to hold them against: a save
during which the other client clears the flash reports success with variables
missing (excepted by `SaveKept`); after one wait for `sem_tx_busy` ran out, two
sends stay in flight until the radio has been idle (`Pacing` states the exact
bound); a refused send costs the next message ten seconds; with a thread that
deregisters while others with a higher priority run, the mask can keep a bit
without an owner (nobody in this source deregisters).

Of the LEDs: since `enable` is not used, the LEDs stay lit after an event, until
the next one; the comment at `led_task.c:137` says that a message should be sent
when `var_leds` changes, and nobody sends one, so the change shows with the next
message (`DarkForGood` needs one). When `var_leds` is set between the test and
`Darken`, the blue LED is lit (excepted by `LampsRight`).

Of a variable: `strupr` on the shared `var_lora_auth` can put one character of
the old value back over a new one (`OneStaleChar`: of what one write left, never
two; two partial GATT writes can leave one each). A GATT write
leaves the length alone, so a typed value of one or two letters, or a short text
written over Bluetooth and then a restart, leaves a length with which the next save
cuts a longer text written over Bluetooth; `Kept` excepts lengths shorter by
more than one than the longest string, and holds from there on because
`length + 1` bytes are saved. A key written over Bluetooth into the middle of a
copy, or in two parts around a save, leaves a mix of two keys, which is then
kept faithfully. The data rate's handler takes a write of length 0, and one at
offset 1. The buffer of `LoRa_task.c:224` has 64 characters for up to 72 of
base64. When a command changes the UART to the binary API, the bytes that were
read together with it still go to the text parser.

### Fairness

`WdtTiming`: time passes, the hardware expires, and runnable threads get the CPU
(they have strict priorities and the model lets no time pass before they ran);
nothing makes a thread register or hang. `LoraTask`: the LoRa thread gets the
CPU and its sleeps and waits end (weak fairness); the stack calls back for an
accepted send; a join that is tried again and again succeeds some time (strong
fairness of `Join(TRUE)`, without which no message can be promised); a waiter on
a Zephyr semaphore is not overtaken for ever, as a give hands it to the longest
waiter (strong fairness of the takes). Nothing is assumed of users; `Drains` has as
its premise that class and auth come to rest (`Settled`), because while they go on
changing between valid values `lora_configure` may refuse them each time.
`RadioLeds`: a wait of 100 ms ends, the stack answers and calls back; messages
and downlinks need not come, and nothing is assumed of the LED thread, which
threads of its own or a higher priority may keep from the CPU. `DarkForGood` and
`LastShown` name `LedThreadRuns` as their premise. `Setting`, `Vars` and `WdtTask`
state no fairness: their properties are safety.

## 4. The proofs

For every value of the constants that satisfies the named assumptions. Each
follows from an inductive invariant, stated at the end of the component's module;
`wdt_build`, `wdt_timing` and `vars` check theirs on their instances.

- **`WdtTask_proofs`**: `TypeCorrect` and `OverlapsAreLate` (`OnlyLateOverlaps`, by
  the invariant `LateComers`) without a precondition. `Sound`: under
  `EnoughBits`, while no two overlap, `IInv` holds. From it, with the same
  premises, `SeparateReports`, `MaskIsExact`, `AggIsHonest` and `FeedsAreAccounted`.
  These are not inductive: that two bits differ depends on how they are chosen
  (`Numbering`: the bits in use are 0 .. count - 1, and the one being handed out
  is `count`), and that a set bit is honest depends on the bytes held in registers
  by threads that were interrupted (`Reports`). `UndoneFromBelow` (the action
  property `LostOnlyToLower`) needs one more, `Nested`: a byte held by a thread
  is contained in the aggregate and in the byte of any thread that interrupted
  its holder, and misses only reports of threads that precede its holder.
  `ImplementsWatchdog` is the refinement, one lemma per kind of step (`CountIsEnrol`,
  `StoreIsReport`, `FeedIsFeed`, `ClearIsUnheard`); that a store
  adds its own report and undoes only those from above is `Nested` again.
- **`WdtTiming_proofs`**: `TypeCorrect`; `AlwaysOnTime`, the inductive invariant
  `OnTime`: while nobody is hung and no loss has slipped, the time since the last
  feed plus the time to the next look is below the timeout, and a missing report
  comes by the deadline. `NeverSpurious` follows. `DetectedInTime` (`DetectBound`)
  rests on `Detected`: as long as every hung thread's report is in the aggregate the
  hardware has not been fed since the hang, except once by the callback; once one
  is missing the watchdog thread feeds no more, and at most a timeout had passed
  by then. `ImplementsWatchdog` is the refinement, step by step.
- **`LoraTask_proofs`**: `TypeCorrect`; `IInvariant`, with `MessageInHand` (the
  thread has a message exactly from the get to the send), `Offers` (what the
  producers are about to put has been counted, each its own) and `PastTheTest`
  (a thread past its test of `var_enabled` has sent nothing since the disable).
  From it `SendsArePaced`, `LateSendIsOne`, `LinesAreWhole`,
  `JoinsAreConfigured`, and the refinement `ImplementsPipe`: `Spec => IsPipe`, each action one of `TxPipe`'s or a stutter.
- **`RadioLeds_proofs`**: `TypeCorrect`; `LampsAreRight`, by `Tested`: which way
  the test went is `var_leds`, until it is set; and `CatchesUp` (`CaughtUp`, what
  `LastShown` comes to), by `LastAccepted`: the last message accepted is the last
  one queued, or the one the LED thread has in hand.
- **`Setting_proofs`**: `IInvariant`, and from it `TypeCorrect`, `SavedIsKept`,
  `RepliesAreGets` and `StaleCharIsOne`, for variables of any size and any inputs
  within `SettingAssumption`. `Shape`: sizes, NULs, and a length for each item;
  `SavedIsRead`: what flash holds reads as what was answered at the save;
  `StaleOrMine`: while `strupr` has a character in hand that is no longer the
  variable's, none of the same write is stale, and none the copy has passed is;
  `Answered`: an answered value is the one being copied, or is in the variable up to case.
- **`Vars_proofs`**: `TypeCorrect`; `IInvariant` (`SavedSoFar`: the variables a
  save has passed are in flash; `LoadedSoFar`: those the boot has passed are in
  RAM); `RestartRestores` and `SavesAreKept`, for any number of variables.

Every safety property of a passing run is proved. Model-checked only, because
liveness under fairness is out of the prover's reach: `HangRecovers`,
`FeedsForever`, `Drains`, `RadioGoesOn`, `DarkForGood` and `LastShown`. The
theorems of the watchdog's bytes, but for `TypeCorrect` and `OverlapsAreLate`, hold
under `EnoughBits` while registrations do not overlap; what is known of a build with deregistration is what `wdt_orderly`
checks.

## 5. Not modelled, and what could follow

- Logging, the attribute table, advertising and pairing: no state that anything
  depends on.
- The command parser (outside the repository), NVS and its layout, the radio
  stack, the C library: external, modelled by how the source uses them.
- A string as long as its buffer, whose length then depends on the memory behind
  it, and a write of the data rate at offset 1, which goes there: what is there
  is the linker's choice.
- Base64: a library's; which characters a short buffer gets depends on its version.
- Whether NVS and the Bluetooth settings share a partition: the board's partition
  table is not in the repository.
- The lines `lora_thread` writes without `sem_rx_cb` (`LoRa_task.c:341`), and the
  result of a save over Bluetooth, which is dropped (`gatt_config_service.c:666`):
  the code makes no promise there to check.
- Numbers of 16 and 32 bits, which differ from those of one byte in the width
  only, and booleans.

What could follow: `System`, the start-up with `sem_tty`, the watchdog and the LoRa
thread in one module: without a UART the registered LoRa thread blocks in
`uart_send` for ever and the device resets again and again. Today `LoraTask` says
that the thread blocks (`uartUp`), `WdtTiming` that a blocked thread resets the
device. Longer instances of `setting`, with strings of the real size, add no case
the theorems do not cover.
