-------------------------------- MODULE Setting --------------------------------
(***************************************************************************)
(* One configuration variable of vars.c, byte by byte: a string            *)
(* (var_lora_auth), a key (the VAR_BIN_CREATE ones) or a number of one     *)
(* byte (var_lora_datarate).  The UART thread parses a command and copies  *)
(* the value; a GATT write handler, which nobody interrupts, writes bytes  *)
(* in the middle of it; both save; lora_configure turns the string into    *)
(* upper case where it is.  Vars has the loops over many variables and the *)
(* errors of the flash.                                                    *)
(*                                                                         *)
(* Characters are numbers: 0 is NUL, a lower-case letter is its upper-case *)
(* one plus 10.  A command's value is a sequence of characters, of hex     *)
(* digits (Bad for any other character) after the 0x, or one integer.      *)
(***************************************************************************)
EXTENDS Integers, Sequences

CONSTANTS
    Default,   \* the bytes of each kind of variable at boot
    Typed,     \* the values of the commands, for each kind
    Sent       \* the GATT writes for each kind: [offset, bytes]

Kinds == {"str", "bin", "num"}
Byte == 0 .. 255
Bad == -1
None == <<>>

Letters == (1 .. 9) \cup (11 .. 19)

\* A command leaves a string its terminating NUL (strncpy does not add one to a
\* value as long as the buffer), and so does a GATT write that reaches the last
\* byte; it may begin anywhere and have any length.  A number is one byte.
ASSUME SettingAssumption ==
    /\ DOMAIN Default = Kinds /\ DOMAIN Typed = Kinds /\ DOMAIN Sent = Kinds
    /\ \A k \in Kinds : Default[k] \in Seq(Byte) /\ Len(Default[k]) > 0
    /\ \A k \in Kinds : \A w \in Sent[k] : w.offset \in Nat /\ w.bytes \in Seq(Byte)
    /\ LET size == Len(Default["str"]) IN
       /\ Default["str"][size] = 0
       /\ \A t \in Typed["str"] : t \in Seq(Letters) /\ Len(t) \in 1 .. size - 1
       /\ \A w \in Sent["str"] :
            \A i \in 1 .. Len(w.bytes) : w.offset + i = size => w.bytes[i] = 0
    /\ \A t \in Typed["bin"] : t \in Seq((0 .. 15) \cup {Bad})
    /\ Len(Default["num"]) = 1
    /\ \A t \in Typed["num"] : t \in Seq(Int) /\ Len(t) = 1
    /\ \A w \in Sent["num"] : Len(w.bytes) > 0

VARIABLES
    kind,    \* which of the three the variable is; it stays that
    data,    \* the bytes: vstr->data, vbin->data, the number
    len,     \* vstr->length, vbin->length
    item,    \* its item in flash, or None
    copy,    \* the copy of a command under way: [to, at], at = 0 when there is none
    upr,     \* strupr under way: [at, reg], the character loaded or 0
    reply,   \* history: the answer to the last set, None after someone else's write
    want,    \* history: byte by byte, what the clients wrote last
    by,      \* history: byte by byte, the range of the GATT write it comes from,
             \* {} when it comes from a command or from flash
    saved    \* history: what a get would have answered at the last save, and len then

vars == <<kind, data, len, item, copy, upr, reply, want, by, saved>>

Size == Len(Default[kind])

-----------------------------------------------------------------------------
(* The conversions. *)

StrLen(s) ==
    CHOOSE n \in 0 .. Len(s) :
        /\ \A i \in 1 .. n : s[i] # 0
        /\ n = Len(s) \/ s[n + 1] = 0

\* strncpy: cut or padded to the size of the buffer.
Padded(text) == [i \in 1 .. Size |-> IF i <= Len(text) THEN text[i] ELSE 0]

Decoded(digits) == [i \in 1 .. Len(digits) \div 2 |-> 16 * digits[2 * i - 1] + digits[2 * i]]

\* sprintf "%02x" of n bytes.
Encoded(s, n) ==
    [i \in 1 .. 2 * n |-> IF i % 2 = 1 THEN s[(i + 1) \div 2] \div 16 ELSE s[i \div 2] % 16]

\* Mutant: atoi's int goes into a variable wide enough for it.
NumberWide(n) == n

\* atoi's int in a uint8_t.
Number(n) == n % 256

\* A key must have all its digits, since minsize = maxsize for every one.
Refused(value) ==
    kind = "bin" /\ (Len(value) # 2 * Size \/ \E i \in 1 .. Len(value) : value[i] = Bad)

Parsed(value) ==
    CASE kind = "str" -> Padded(value)
      [] kind = "bin" -> Decoded(value)
      [] kind = "num" -> <<Number(value[1])>>

\* What vars_set answers: the string, the digits as typed, the number it kept.
Answer(value) == IF kind = "num" THEN <<Number(value[1])>> ELSE value

\* What vars_get answers of the bytes s and the length n.
Text(s, n) ==
    CASE kind = "str" -> SubSeq(s, 1, StrLen(s))
      [] kind = "bin" -> Encoded(s, n)
      [] kind = "num" -> s

\* The length after a set or a load.
Measure(s) == IF kind = "str" THEN StrLen(s) ELSE Len(s)

\* bytes written over those of s from offset on.
Over(s, offset, bytes) ==
    [i \in 1 .. Len(s) |-> IF i - offset \in 1 .. Len(bytes) THEN bytes[i - offset] ELSE s[i]]

Upper(c) == IF c > 10 THEN c - 10 ELSE c

-----------------------------------------------------------------------------
(* Boot.  flash_load measures a string it found no item for, too. *)

NoCopy == [to |-> <<>>, at |-> 0]
NoUpr == [at |-> 0, reg |-> 0]
NoGatt == [i \in 1 .. Size |-> {}]

Init ==
    /\ kind \in Kinds
    /\ data = Default[kind] /\ want = data /\ by = NoGatt /\ len = Measure(data)
    /\ item = None /\ saved = [text |-> None, len |-> 0] /\ reply = None
    /\ copy = NoCopy /\ upr = NoUpr

\* The bytes become s, from flash.
Reload(s) == data' = s /\ want' = s /\ by' = NoGatt /\ len' = Measure(s) /\ reply' = None

Restart ==
    /\ Reload(Over(Default[kind], 0, item)) /\ copy' = NoCopy /\ upr' = NoUpr
    /\ UNCHANGED <<kind, item, saved>>

-----------------------------------------------------------------------------
(* The UART thread. *)

Free == copy.at = 0

SetStart(value) ==
    /\ Free /\ ~Refused(value)
    /\ copy' = [to |-> Parsed(value), at |-> 1] /\ reply' = Answer(value)
    /\ UNCHANGED <<kind, data, len, item, upr, want, by, saved>>

\* Mutant: the digits before the bad one are decoded where the key is.
SetRefusedInPlace(value) ==
    /\ Free /\ Refused(value)
    /\ data' = Over(data, 0, SelectSeq(Decoded(value), LAMBDA b : b \in Byte))
    /\ UNCHANGED <<kind, len, item, copy, upr, reply, want, by, saved>>

\* The digits before the bad one went to a buffer of vars_set.
SetRefused(value) ==
    /\ Free /\ Refused(value)
    /\ UNCHANGED vars

CopyByte ==
    /\ copy.at \in 1 .. Size
    /\ LET b == <<copy.to[copy.at]>> IN
       /\ data' = Over(data, copy.at - 1, b) /\ want' = Over(want, copy.at - 1, b)
    /\ by' = [by EXCEPT ![copy.at] = {}]
    /\ copy' = [copy EXCEPT !.at = @ + 1]
    /\ UNCHANGED <<kind, len, item, upr, reply, saved>>

CopyEnd ==
    /\ copy.at = Size + 1 /\ copy' = NoCopy /\ len' = Measure(data)
    /\ UNCHANGED <<kind, data, item, upr, reply, want, by, saved>>

\* vars_get "save".
Load ==
    /\ Free /\ Reload(Over(data, 0, item))
    /\ UNCHANGED <<kind, item, copy, upr, saved>>

-----------------------------------------------------------------------------
(* The Bluetooth host's thread, at any time. *)

\* The number's handler takes one byte of the two that come.
GattWrite(w) ==
    LET bytes == IF kind = "num" THEN SubSeq(w.bytes, 1, 1) ELSE w.bytes
        range == w.offset + 1 .. w.offset + Len(bytes)
    IN
    /\ w.offset + Len(bytes) <= Size
    /\ data' = Over(data, w.offset, bytes) /\ want' = Over(want, w.offset, bytes)
    /\ by' = [i \in 1 .. Size |-> IF i \in range THEN range ELSE by[i]]
    /\ reply' = None
    /\ UNCHANGED <<kind, len, item, copy, upr, saved>>

\* Mutant: a string is written without its terminating NUL.
ImageShort == SubSeq(data, 1, len)

\* What flash_save writes: length + 1 bytes of a string.
Image == SubSeq(data, 1, IF kind = "str" THEN len + 1 ELSE len)

\* The save of either client.
Save ==
    /\ item' = Image /\ saved' = [text |-> Text(data, len), len |-> len]
    /\ UNCHANGED <<kind, data, len, copy, upr, reply, want, by>>

-----------------------------------------------------------------------------
(* lora_thread, below the UART thread: strupr of the string, the library's. *)

UprStart ==
    /\ kind = "str" /\ Free /\ upr.at = 0 /\ upr' = [at |-> 1, reg |-> 0]
    /\ UNCHANGED <<kind, data, len, item, copy, reply, want, by, saved>>

UprLoad ==
    /\ Free /\ upr.at > 0 /\ upr.reg = 0
    /\ upr' = IF data[upr.at] = 0 THEN NoUpr ELSE [upr EXCEPT !.reg = data[upr.at]]
    /\ UNCHANGED <<kind, data, len, item, copy, reply, want, by, saved>>

\* Mutant: the pointer moves before the store.
UprStoreNext ==
    /\ Free /\ upr.reg > 0
    /\ data' = Over(data, upr.at, <<Upper(upr.reg)>>)
    /\ upr' = [at |-> upr.at + 1, reg |-> 0]
    /\ UNCHANGED <<kind, len, item, copy, reply, want, by, saved>>

\* A value that was set since the load has this character replaced.
UprStore ==
    /\ Free /\ upr.reg > 0
    /\ data' = Over(data, upr.at - 1, <<Upper(upr.reg)>>)
    /\ reply' = IF Upper(data[upr.at]) = Upper(upr.reg) THEN reply ELSE None
    /\ upr' = [at |-> upr.at + 1, reg |-> 0]
    /\ UNCHANGED <<kind, len, item, copy, want, by, saved>>

Next ==
    \/ Restart \/ CopyByte \/ CopyEnd \/ Load \/ Save
    \/ \E value \in Typed[kind] : SetStart(value) \/ SetRefused(value)
    \/ \E w \in Sent[kind] : GattWrite(w)
    \/ UprStart \/ UprLoad \/ UprStore

Spec == Init /\ [][Next]_vars

-----------------------------------------------------------------------------
(* Properties. *)

\* Every variable has the values the code can give it.
TypeOK ==
    /\ kind \in Kinds
    /\ {data, want} \subseteq [1 .. Size -> Byte] /\ len \in 0 .. Size
    /\ by \in [1 .. Size -> SUBSET (1 .. Size)]
    /\ item \in Seq(Byte) /\ Len(item) <= Size /\ saved.len \in 0 .. Size
    /\ copy \in [to : {<<>>} \cup [1 .. Size -> Byte], at : 0 .. Size + 1]
    /\ upr \in [at : 0 .. Size, reg : Byte]

\* What was saved is what a restart, or a load over whatever the variable holds
\* by then, brings back, although GATT writes do not set the length that says how
\* much of a string is saved (vars.c:399, gatt_config_service.c:577).  A length
\* too short for the longest string by more than one is excepted: see the README.
Kept ==
    item # None /\ (kind = "str" => saved.len >= Size - 2) =>
        \A s \in {Default[kind], data} :
            LET read == Over(s, 0, item) IN Text(read, Measure(read)) = saved.text

\* The same letters.
Alike(s, t) ==
    IF kind = "str" THEN Len(s) = Len(t) /\ \A i \in 1 .. Len(s) : s[i] % 10 = t[i] % 10
                    ELSE s = t

\* A get answers what the last successful set was answered (in upper case,
\* perhaps), however the value was cut to the variable's width and whatever sets
\* were refused since (vars.c:488, 524, 535), until someone else writes.
ReplyIsGet == Free /\ reply # None => Alike(Text(data, len), reply)

\* lora_configure's strupr works on the variable itself, and sets and GATT writes
\* can come between a load and a store of it: of what any one of them left in the
\* variable at most one character is then an old one's (LoRa_task.c:129).
Stale == {i \in 1 .. Size : ~Alike(<<data[i]>>, <<want[i]>>)}
OneStaleChar == \A i, j \in Stale : by[i] = by[j] => i = j

-----------------------------------------------------------------------------
(* Why they hold: an inductive invariant. *)

\* Bytes the variable may hold, and a length it may have: a string always ends
\* in a NUL.
Good(s) == s \in [1 .. Size -> Byte] /\ (kind = "str" => s[Size] = 0)
Fits(n) == n \in Nat /\ IF kind = "str" THEN n < Size ELSE n = Size

\* An item in flash that was written with the length n.
Stored(s, n) ==
    /\ s \in Seq(Byte) /\ Len(s) <= Size /\ n \in 0 .. Size
    /\ s # None => Fits(n) /\ Len(s) = IF kind = "str" THEN n + 1 ELSE Size
    /\ kind = "str" /\ Len(s) = Size => s[Size] = 0

\* A copy has what it copies; strupr has loaded a character before the NUL.
Copying(c) ==
    /\ c \in [to : {<<>>} \cup [1 .. Size -> Byte], at : 0 .. Size + 1]
    /\ c.at > 0 => Good(c.to)
Raising(u) ==
    /\ u \in [at : 0 .. Size, reg : Byte]
    /\ u.at > 0 => kind = "str"
    /\ u.reg > 0 => u.at \in 1 .. Size - 1

\* A byte is in the range of the write it comes from.
Labelled(b) ==
    /\ b \in [1 .. Size -> SUBSET (1 .. Size)]
    /\ \A i \in 1 .. Size : b[i] # {} => i \in b[i]

Shape ==
    /\ kind \in Kinds /\ Good(data) /\ Good(want) /\ Labelled(by) /\ Fits(len)
    /\ Stored(item, saved.len) /\ Copying(copy) /\ Raising(upr)

\* What a restart reads, if a string's item says all that does not end it.
FromFlash == Over([i \in 1 .. Size |-> 0], 0, item)
SavedIsRead ==
    item # None /\ (kind = "str" => saved.len >= Size - 2) =>
        saved.text = Text(FromFlash, Measure(FromFlash))

\* The character strupr has in hand is the variable's, or none that was written
\* with it is stale; nor is one the copy has passed.
StaleOrMine ==
    /\ \A i \in Stale : i >= copy.at
    /\ Free /\ upr.reg > 0 /\ ~Alike(<<data[upr.at]>>, <<upr.reg>>) =>
          \A i \in Stale : by[i] # by[upr.at]
    /\ kind # "str" => Stale = {}

\* The same character, or both the end.
SameChar(a, b) == IF kind = "str" THEN a % 10 = b % 10 /\ (a = 0 <=> b = 0) ELSE a = b

\* A value that was answered is the one under way, or is in the variable.
Answered ==
    reply # None => \E value \in Typed[kind] :
        /\ ~Refused(value) /\ reply = Answer(value)
        /\ IF Free THEN \A i \in 1 .. Size : SameChar(data[i], Parsed(value)[i])
                   ELSE /\ copy.to = Parsed(value)
                        /\ \A i \in 1 .. copy.at - 1 : data[i] = copy.to[i]

IInv ==
    Shape /\ SavedIsRead /\ StaleOrMine /\ OneStaleChar /\ Answered
=============================================================================
