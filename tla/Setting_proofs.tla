---------------------------- MODULE Setting_proofs ----------------------------
(***************************************************************************)
(* The invariants of Setting, for any sizes, defaults, commands and writes *)
(* that satisfy SettingAssumption.                                         *)
(***************************************************************************)
EXTENDS Setting, SequenceTheorems, WellFoundedInduction, TLAPS

-----------------------------------------------------------------------------
(* The conversions. *)

Bytes == [1 .. Size -> Byte]

\* A function on 1 .. n is a sequence of length n.
LEMMA FunSeq ==
    ASSUME NEW n \in Nat, NEW S, NEW s \in [1 .. n -> S]
    PROVE  s \in Seq(S) /\ Len(s) = n
OBVIOUS

\* What Over is on values as long as the variable.
LEMMA OverIs ==
    ASSUME NEW n \in Nat, NEW s \in [1 .. n -> Byte], NEW o \in Nat, NEW b \in Seq(Byte)
    PROVE  /\ Over(s, o, b) \in [1 .. n -> Byte]
           /\ \A i \in 1 .. n : Over(s, o, b)[i] = IF i - o \in 1 .. Len(b) THEN b[i - o] ELSE s[i]
<1>1. Len(s) = n
    BY FunSeq
<1>2. Len(b) \in Nat /\ \A j \in 1 .. Len(b) : b[j] \in Byte
    OBVIOUS
<1> QED BY <1>1, <1>2 DEF Over

\* The place of the first NUL is the length.
LEMMA StrLenIs ==
    ASSUME NEW n \in Nat, NEW S, NEW s \in [1 .. n -> S], NEW m \in 0 .. n,
           \A i \in 1 .. m : s[i] # 0, m = n \/ s[m + 1] = 0
    PROVE  StrLen(s) = m
<1>1. Len(s) = n
    BY FunSeq
<1>2. \A k \in 0 .. n :
        (\A i \in 1 .. k : s[i] # 0) /\ (k = n \/ s[k + 1] = 0) => k = m
    <2> SUFFICES ASSUME NEW k \in 0 .. n, \A i \in 1 .. k : s[i] # 0, k = n \/ s[k + 1] = 0
                 PROVE  k = m
        OBVIOUS
    <2>1. CASE k < m
        <3>1. k + 1 \in 1 .. m /\ k # n
            BY <2>1
        <3> QED BY <3>1
    <2>2. CASE m < k
        <3>1. m + 1 \in 1 .. k /\ m # n
            BY <2>2
        <3> QED BY <3>1
    <2> QED BY <2>1, <2>2
<1> QED BY <1>1, <1>2 DEF StrLen

\* A set of numbers that is not empty has a least one.
LEMMA LeastOf ==
    ASSUME NEW T \in SUBSET Nat, T # {}
    PROVE  \E m \in T : \A k \in T : m <= k
<1> DEFINE Less == {ss \in Nat \X Nat : ss[1] < ss[2]}
<1>1. IsWellFoundedOn(Less, Nat)
    BY NatLessThanWellFounded DEF OpToRel
<1>2. PICK m \in T : \A k \in T : <<k, m>> \notin Less
    <2> HIDE DEF Less
    <2> QED BY <1>1, WFMin
<1>3. ASSUME NEW k \in T, k < m PROVE FALSE
    <2>1. <<k, m>> \in Nat \X Nat /\ <<k, m>>[1] < <<k, m>>[2]
        BY <1>3
    <2>2. <<k, m>> \in Less
        BY <2>1
    <2> QED BY <1>2, <2>2
<1> QED BY <1>3

\* A string that ends in a NUL is shorter than its buffer.
LEMMA StrLenEnds ==
    ASSUME NEW n \in Nat \ {0}, NEW S, NEW s \in [1 .. n -> S], s[n] = 0
    PROVE  StrLen(s) \in 0 .. n - 1
<1> DEFINE NULs == {k \in 0 .. n - 1 : s[k + 1] = 0}
<1>1. n - 1 \in NULs /\ NULs \in SUBSET Nat
    OBVIOUS
<1>2. PICK m \in NULs : \A k \in NULs : m <= k
    BY <1>1, LeastOf
<1>3. \A i \in 1 .. m : s[i] # 0
    <2> SUFFICES ASSUME NEW i \in 1 .. m, s[i] = 0 PROVE FALSE
        OBVIOUS
    <2>1. i - 1 \in NULs
        BY <1>2
    <2> QED BY <1>2, <2>1
<1>4. StrLen(s) = m
    <2>1. m \in 0 .. n /\ s[m + 1] = 0
        BY <1>2
    <2> QED BY <1>3, <2>1, StrLenIs
<1> QED BY <1>2, <1>4

-----------------------------------------------------------------------------
(* Bytes and lengths keep their shape. *)

LEMMA SizeIs ==
    ASSUME kind \in Kinds
    PROVE  /\ Size \in Nat \ {0} /\ Good(Default[kind])
           /\ kind = "num" => Size = 1
BY SettingAssumption DEF Size, Good, Kinds

\* Measuring bytes the variable may hold gives a length it may have.
LEMMA MeasureFits ==
    ASSUME kind \in Kinds, NEW s, Good(s)
    PROVE  Fits(Measure(s))
<1>1. Size \in Nat \ {0} /\ s \in [1 .. Size -> Byte]
    BY SizeIs DEF Good
<1>2. CASE kind = "str"
    <2>1. StrLen(s) \in 0 .. Size - 1
        BY <1>1, <1>2, StrLenEnds DEF Good
    <2> QED BY <1>1, <1>2, <2>1 DEF Fits, Measure
<1>3. CASE kind # "str"
    <2>1. Len(s) = Size
        BY <1>1, FunSeq
    <2> QED BY <1>1, <1>3, <2>1 DEF Fits, Measure
<1> QED BY <1>2, <1>3

\* What a command is parsed to is as long as the variable.
LEMMA ParsedGood ==
    ASSUME kind \in Kinds, NEW value \in Typed[kind], ~Refused(value)
    PROVE  Good(Parsed(value))
<1>1. Size \in Nat \ {0}
    BY SizeIs
<1>2. CASE kind = "str"
    <2>1. value \in Seq(Letters) /\ Len(value) \in 1 .. Size - 1
        BY <1>2, SettingAssumption DEF Size
    <2>2. \A i \in 1 .. Len(value) : value[i] \in Byte
        <3>1. \A i \in 1 .. Len(value) : value[i] \in Letters
            BY <2>1
        <3>2. \A c \in Letters : c \in Byte
            BY DEF Letters, Byte
        <3> QED BY <3>1, <3>2
    <2>3. Padded(value) \in [1 .. Size -> Byte] /\ Padded(value)[Size] = 0
        BY <1>1, <2>1, <2>2 DEF Padded, Byte
    <2> QED BY <1>2, <2>3 DEF Parsed, Good
<1>3. CASE kind = "bin"
    <2>1. value \in Seq((0 .. 15) \cup {Bad}) /\ Len(value) = 2 * Size
        BY <1>3, SettingAssumption DEF Refused
    <2>2. \A i \in 1 .. 2 * Size : value[i] \in 0 .. 15
        BY <1>3, <2>1 DEF Refused
    <2>3. Len(value) \div 2 = Size
        BY <1>1, <2>1
    <2>4. \A i \in 1 .. Size : 16 * value[2 * i - 1] + value[2 * i] \in Byte
        BY <1>1, <2>2 DEF Byte
    <2>5. Decoded(value) \in [1 .. Size -> Byte]
        BY <2>3, <2>4 DEF Decoded
    <2> QED BY <1>3, <2>5 DEF Parsed, Good
<1>4. CASE kind = "num"
    <2>1. Size = 1 /\ value[1] \in Int
        BY <1>4, SizeIs, SettingAssumption
    <2>2. Number(value[1]) \in Byte
        BY <2>1 DEF Number, Byte
    <2>3. <<Number(value[1])>> \in [1 .. Size -> Byte]
        BY <2>1, <2>2
    <2> QED BY <1>4, <2>3 DEF Parsed, Good
<1> QED BY <1>2, <1>3, <1>4 DEF Kinds

\* What is read over the bytes from flash.
LEMMA ReadGood ==
    ASSUME Shape, NEW s, Good(s)
    PROVE  Good(Over(s, 0, item))
<1>1. Size \in Nat \ {0} /\ item \in Seq(Byte) /\ Len(item) \in Nat /\ Len(item) <= Size
    BY SizeIs DEF Shape, Stored
<1>2. /\ Over(s, 0, item) \in [1 .. Size -> Byte]
      /\ \A i \in 1 .. Size : Over(s, 0, item)[i] = IF i - 0 \in 1 .. Len(item) THEN item[i - 0] ELSE s[i]
    BY <1>1, OverIs DEF Good
<1>3. CASE kind = "str"
    <2>1. s[Size] = 0 /\ (Len(item) = Size => item[Size] = 0)
        BY <1>3 DEF Good, Shape, Stored
    <2>2. Over(s, 0, item)[Size] = 0
        BY <1>1, <1>2, <2>1
    <2> QED BY <1>2, <2>2 DEF Good
<1> QED BY <1>2, <1>3 DEF Good

\* A GATT write, of a string or of any part of another variable.
Part(w) == IF kind = "num" THEN SubSeq(w.bytes, 1, 1) ELSE w.bytes

LEMMA PartIs ==
    ASSUME kind \in Kinds, NEW w \in Sent[kind]
    PROVE  w.offset \in Nat /\ Part(w) \in Seq(Byte)
<1>1. w.offset \in Nat /\ w.bytes \in Seq(Byte)
    BY SettingAssumption
<1>2. CASE kind = "num"
    <2>1. Len(w.bytes) > 0
        BY <1>2, SettingAssumption
    <2>2. \A i \in 1 .. 1 : w.bytes[i] \in Byte
        BY <1>1, <2>1
    <2>3. SubSeq(w.bytes, 1, 1) \in Seq(Byte)
        BY <2>2, SubSeqProperties
    <2> QED BY <1>1, <1>2, <2>3 DEF Part
<1>3. CASE kind # "num"
    BY <1>1, <1>3 DEF Part
<1> QED BY <1>2, <1>3

LEMMA WriteGood ==
    ASSUME kind \in Kinds, NEW w \in Sent[kind], w.offset + Len(Part(w)) <= Size, NEW s, Good(s)
    PROVE  Good(Over(s, w.offset, Part(w)))
<1>1. /\ Size \in Nat /\ Size # 0 /\ w.offset \in Nat /\ Part(w) \in Seq(Byte)
      /\ Len(Part(w)) \in Nat /\ s \in [1 .. Size -> Byte]
    BY SizeIs, PartIs DEF Good
<1>2. /\ Over(s, w.offset, Part(w)) \in [1 .. Size -> Byte]
      /\ \A i \in 1 .. Size : Over(s, w.offset, Part(w))[i] =
            IF i - w.offset \in 1 .. Len(Part(w)) THEN Part(w)[i - w.offset] ELSE s[i]
    BY <1>1, OverIs
<1>3. CASE kind = "str"
    <2>1. /\ Part(w) = w.bytes
          /\ \A i \in 1 .. Len(w.bytes) : w.offset + i = Size => w.bytes[i] = 0
        BY <1>3, SettingAssumption DEF Part, Size
    <2>2. Size - w.offset \in 1 .. Len(Part(w)) => Part(w)[Size - w.offset] = 0
        BY <1>1, <2>1
    <2>3. Over(s, w.offset, Part(w))[Size] = 0
        BY <1>1, <1>2, <1>3, <2>2 DEF Good
    <2> QED BY <1>2, <2>3 DEF Good
<1> QED BY <1>2, <1>3 DEF Good

\* The bytes a write reaches, and the labels it leaves.
Reach(w) == w.offset + 1 .. w.offset + Len(Part(w))

LEMMA WriteLabels ==
    ASSUME Shape, NEW w \in Sent[kind], GattWrite(w)
    PROVE  /\ by' = [i \in 1 .. Size |-> IF i \in Reach(w) THEN Reach(w) ELSE by[i]]
           /\ Labelled(by') /\ Reach(w) \subseteq 1 .. Size
<1>1. /\ Size \in Nat /\ w.offset \in Nat /\ Part(w) \in Seq(Byte) /\ Len(Part(w)) \in Nat
      /\ w.offset + Len(Part(w)) <= Size
    BY SizeIs, PartIs DEF Shape, GattWrite, Part
<1>2. by' = [i \in 1 .. Size |-> IF i \in Reach(w) THEN Reach(w) ELSE by[i]]
    BY DEF GattWrite, Part, Reach
<1>3. Reach(w) \subseteq 1 .. Size
    BY <1>1 DEF Reach
<1> QED BY <1>2, <1>3 DEF Shape, Labelled

\* One byte written over another.
LEMMA ByteIs ==
    ASSUME NEW n \in Nat, NEW s \in [1 .. n -> Byte], NEW p \in 1 .. n, NEW b \in Byte
    PROVE  /\ Over(s, p - 1, <<b>>) \in [1 .. n -> Byte]
           /\ \A i \in 1 .. n : Over(s, p - 1, <<b>>)[i] = IF i = p THEN b ELSE s[i]
<1>1. Len(s) = n
    BY FunSeq
<1>2. \A i \in 1 .. n : (i - (p - 1) \in 1 .. Len(<<b>>)) <=> i = p
    OBVIOUS
<1>3. \A i \in 1 .. n : i = p => <<b>>[i - (p - 1)] = b
    OBVIOUS
<1>4. Over(s, p - 1, <<b>>) =
        [i \in 1 .. n |-> IF i - (p - 1) \in 1 .. Len(<<b>>) THEN <<b>>[i - (p - 1)] ELSE s[i]]
    BY <1>1 DEF Over
<1>5. Over(s, p - 1, <<b>>) = [i \in 1 .. n |-> IF i = p THEN b ELSE s[i]]
    BY <1>2, <1>3, <1>4
<1> QED BY <1>5

LEMMA ByteGood ==
    ASSUME kind \in Kinds, NEW s, Good(s), NEW p \in 1 .. Size, NEW b \in Byte,
           kind = "str" /\ p = Size => b = 0
    PROVE  /\ Good(Over(s, p - 1, <<b>>))
           /\ \A i \in 1 .. Size : Over(s, p - 1, <<b>>)[i] = IF i = p THEN b ELSE s[i]
<1>1. Size \in Nat \ {0} /\ s \in [1 .. Size -> Byte] /\ (kind = "str" => s[Size] = 0)
    BY SizeIs DEF Good
<1>2. /\ Over(s, p - 1, <<b>>) \in [1 .. Size -> Byte]
      /\ \A i \in 1 .. Size : Over(s, p - 1, <<b>>)[i] = IF i = p THEN b ELSE s[i]
    BY <1>1, ByteIs
<1> QED BY <1>1, <1>2 DEF Good

\* What a save writes.
LEMMA ImageStored ==
    ASSUME Shape
    PROVE  Stored(Image, len) /\ Image # None /\ \A i \in 1 .. Len(Image) : Image[i] = data[i]
<1> DEFINE n == IF kind = "str" THEN len + 1 ELSE len
<1>1. /\ Size \in Nat \ {0} /\ n \in 1 .. Size /\ len \in 0 .. Size /\ Fits(len)
      /\ n = IF kind = "str" THEN len + 1 ELSE Size
    <2>1. Size \in Nat \ {0} /\ Fits(len)
        BY SizeIs DEF Shape
    <2>2. CASE kind = "str"
        BY <2>1, <2>2 DEF Fits
    <2>3. CASE kind # "str"
        BY <2>1, <2>3 DEF Fits
    <2> QED BY <2>2, <2>3
<1>2. \A i \in 1 .. n : data[i] \in Byte
    BY <1>1 DEF Shape, Good
<1>3. /\ Image \in Seq(Byte) /\ Len(Image) = n
      /\ \A i \in 1 .. n : Image[i] = data[i]
    <2>1. Image = SubSeq(data, 1, n)
        BY DEF Image
    <2> HIDE DEF n
    <2>2. /\ SubSeq(data, 1, n) \in Seq(Byte)
          /\ Len(SubSeq(data, 1, n)) = IF 1 <= n THEN n - 1 + 1 ELSE 0
          /\ \A i \in 1 .. n - 1 + 1 : SubSeq(data, 1, n)[i] = data[1 + i - 1]
        BY <1>1, <1>2, SubSeqProperties
    <2> QED BY <1>1, <2>1, <2>2
<1>4. kind = "str" /\ Len(Image) = Size => Image[Size] = 0
    BY <1>1, <1>3 DEF Shape, Good
<1>5. Image # None
    BY <1>1, <1>3 DEF None
<1> HIDE DEF n
<1> QED BY <1>1, <1>3, <1>4, <1>5 DEF Stored

LEMMA KindStays ==
    ASSUME [Next]_vars
    PROVE  kind' = kind /\ Size' = Size
<1>1. kind' = kind
    BY DEF Next, Restart, CopyByte, CopyEnd, Load, Save, SetStart, SetRefused, GattWrite,
           UprStart, UprLoad, UprStore, Reload, vars
<1> QED BY <1>1 DEF Size

LEMMA ShapeIn ==
    ASSUME kind \in Kinds, kind' = kind, Size' = Size,
           Good(data'), Good(want'), Labelled(by'), Fits(len'), Stored(item', saved'.len),
           Copying(copy'), Raising(upr')
    PROVE  Shape'
BY DEF Shape, Good, Labelled, Fits, Stored, Copying, Raising

\* A load, from the flash or over what is there.
LEMMA ReloadShape ==
    ASSUME Shape, NEW s, Good(s), Reload(Over(s, 0, item))
    PROVE  /\ Good(data') /\ Good(want') /\ data' = want' /\ Labelled(by')
           /\ Fits(len') /\ reply' = None
<1>1. Good(Over(s, 0, item))
    BY ReadGood
<1>2. Labelled(NoGatt)
    BY DEF Labelled, NoGatt
<1> QED BY <1>1, <1>2, MeasureFits DEF Reload, Shape

LEMMA ShapeStep == ASSUME Shape, [Next]_vars PROVE Shape'
<1> USE KindStays
<1>1. /\ kind \in Kinds /\ Good(data) /\ Good(want) /\ Labelled(by) /\ Fits(len)
      /\ Stored(item, saved.len) /\ Copying(copy) /\ Raising(upr)
      /\ Size \in Nat \ {0}
    BY SizeIs DEF Shape
<1>2. Copying(NoCopy) /\ Raising(NoUpr)
    BY <1>1 DEF Copying, Raising, NoCopy, NoUpr, Byte
<1>3. CASE Restart
    BY <1>1, <1>2, <1>3, SizeIs, ReloadShape, ShapeIn DEF Restart
<1>4. CASE Load
    BY <1>1, <1>4, ReloadShape, ShapeIn DEF Load
<1>5. CASE CopyByte
    <2>1. copy.at \in 1 .. Size /\ Good(copy.to)
        BY <1>1, <1>5 DEF CopyByte, Copying
    <2>2. copy.to[copy.at] \in Byte /\ (kind = "str" /\ copy.at = Size => copy.to[copy.at] = 0)
        BY <2>1 DEF Good
    <2>3. Good(data') /\ Good(want')
        BY <1>1, <1>5, <2>1, <2>2, ByteGood DEF CopyByte
    <2>4. Copying(copy')
        BY <1>1, <1>5, <2>1 DEF CopyByte, Copying
    <2>5. Labelled(by')
        BY <1>1, <1>5 DEF CopyByte, Labelled
    <2> QED BY <1>1, <1>5, <2>3, <2>4, <2>5, ShapeIn DEF CopyByte
<1>6. CASE CopyEnd
    BY <1>1, <1>2, <1>6, MeasureFits, ShapeIn DEF CopyEnd
<1>7. CASE Save
    <2>1. Stored(item', saved'.len)
        BY <1>7, ImageStored DEF Save
    <2> QED BY <1>1, <1>7, <2>1, ShapeIn DEF Save
<1>8. ASSUME NEW value \in Typed[kind], SetStart(value) PROVE Shape'
    <2>1. Good(Parsed(value))
        BY <1>1, <1>8, ParsedGood DEF SetStart
    <2>2. Copying(copy')
        BY <1>1, <1>8, <2>1 DEF SetStart, Copying, Good
    <2> QED BY <1>1, <1>8, <2>2, ShapeIn DEF SetStart
<1>9. ASSUME NEW w \in Sent[kind], GattWrite(w) PROVE Shape'
    <2>1. /\ w.offset + Len(Part(w)) <= Size
          /\ data' = Over(data, w.offset, Part(w)) /\ want' = Over(want, w.offset, Part(w))
        BY <1>9 DEF GattWrite, Part
    <2>2. Good(data') /\ Good(want')
        BY <1>1, <2>1, WriteGood
    <2>3. Labelled(by')
        BY <1>9, WriteLabels
    <2> QED BY <1>1, <1>9, <2>2, <2>3, ShapeIn DEF GattWrite
<1>10. CASE UprStart
    <2>1. Raising(upr')
        BY <1>1, <1>10 DEF UprStart, Raising, Byte
    <2> QED BY <1>1, <1>10, <2>1, ShapeIn DEF UprStart
<1>11. CASE UprLoad
    <2>1. upr.at \in 1 .. Size /\ kind = "str" /\ data[upr.at] \in Byte /\ data[Size] = 0
        BY <1>1, <1>11 DEF UprLoad, Raising, Good
    <2>2. CASE data[upr.at] = 0
        BY <1>1, <1>2, <1>11, <2>2, ShapeIn DEF UprLoad
    <2>3. CASE data[upr.at] # 0
        <3>1. upr' = [upr EXCEPT !.reg = data[upr.at]] /\ upr.at \in 1 .. Size - 1
            BY <1>1, <1>11, <2>1, <2>3 DEF UprLoad
        <3>2. Raising(upr')
            BY <1>1, <2>1, <3>1 DEF Raising
        <3> QED BY <1>1, <1>11, <3>2, ShapeIn DEF UprLoad
    <2> QED BY <2>2, <2>3
<1>12. CASE UprStore
    <2>1. upr.at \in 1 .. Size - 1 /\ kind = "str" /\ Upper(upr.reg) \in Byte
        BY <1>1, <1>12 DEF UprStore, Raising, Upper, Byte
    <2>2. Good(data')
        BY <1>1, <1>12, <2>1, ByteGood DEF UprStore
    <2>3. Raising(upr')
        BY <1>1, <1>12, <2>1 DEF UprStore, Raising, Byte
    <2> QED BY <1>1, <1>12, <2>2, <2>3, ShapeIn DEF UprStore
<1>13. CASE UNCHANGED vars
    BY <1>1, <1>13, ShapeIn DEF vars
<1> QED BY <1>3, <1>4, <1>5, <1>6, <1>7, <1>8, <1>9, <1>10, <1>11, <1>12, <1>13
        DEF Next, SetRefused

-----------------------------------------------------------------------------
(* What was saved is what is read. *)

\* Bytes that differ under what is written over them only.
LEMMA SameOver ==
    ASSUME NEW n \in Nat, NEW s \in [1 .. n -> Byte], NEW z \in [1 .. n -> Byte],
           NEW o, NEW t, \A i \in 1 .. n : i - o \notin 1 .. Len(t) => s[i] = z[i]
    PROVE  Over(s, o, t) = Over(z, o, t)
<1>1. Len(s) = n /\ Len(z) = n
    BY FunSeq
<1> QED BY <1>1 DEF Over

\* An item that is long enough is read whole, whatever it is read over.
LEMMA FlashIs ==
    ASSUME kind \in Kinds, NEW s, Good(s), NEW t \in Seq(Byte), Len(t) <= Size,
           kind = "str" => Len(t) >= Size - 1, kind # "str" => Len(t) = Size,
           NEW z, Good(z)
    PROVE  Over(s, 0, t) = Over(z, 0, t)
<1>1. /\ Size \in Nat /\ Size # 0 /\ Len(t) \in Nat
      /\ s \in [1 .. Size -> Byte] /\ z \in [1 .. Size -> Byte]
    BY SizeIs DEF Good
<1>2. ASSUME NEW i \in 1 .. Size, i - 0 \notin 1 .. Len(t) PROVE s[i] = z[i]
    <2>1. kind = "str" /\ i = Size
        BY <1>1, <1>2
    <2> QED BY <2>1 DEF Good
<1> QED BY <1>1, <1>2, SameOver

Blank == [i \in 1 .. Size |-> 0]

LEMMA BlankGood == ASSUME kind \in Kinds PROVE Good(Blank)
BY SizeIs DEF Good, Blank, Byte

LEMMA KeptFollows == Shape /\ SavedIsRead => Kept
<1> SUFFICES ASSUME Shape, SavedIsRead, item # None, kind = "str" => saved.len >= Size - 2,
                    NEW s \in {Default[kind], data}
             PROVE  LET read == Over(s, 0, item) IN Text(read, Measure(read)) = saved.text
    BY DEF Kept
<1>1. kind \in Kinds /\ Good(s) /\ Good(Blank) /\ Size \in Nat
    BY SizeIs, BlankGood DEF Shape
<1>2. /\ item \in Seq(Byte) /\ Len(item) <= Size /\ Fits(saved.len)
      /\ Len(item) = IF kind = "str" THEN saved.len + 1 ELSE Size
    BY DEF Shape, Stored
<1>3. Over(s, 0, item) = Over(Blank, 0, item)
    <2>1. (kind = "str" => Len(item) >= Size - 1) /\ (kind # "str" => Len(item) = Size)
        BY <1>1, <1>2 DEF Fits
    <2> QED BY <1>1, <1>2, <2>1, FlashIs
<1>4. saved.text = Text(FromFlash, Measure(FromFlash))
    BY DEF SavedIsRead
<1> QED BY <1>3, <1>4 DEF FromFlash, Blank

\* A save reads back as what is there.
LEMMA SaveIsRead ==
    ASSUME Shape, kind = "str" => len >= Size - 2
    PROVE  Over(Blank, 0, Image) = data /\ Text(data, len) = Text(data, Measure(data))
<1>1. /\ kind \in Kinds /\ Good(data) /\ Good(Blank) /\ Size \in Nat \ {0} /\ Fits(len)
      /\ data \in [1 .. Size -> Byte]
    BY SizeIs, BlankGood DEF Shape, Good
<1>2. /\ Image \in Seq(Byte) /\ Len(Image) \in Nat /\ Len(Image) <= Size
      /\ Len(Image) = IF kind = "str" THEN len + 1 ELSE Size
      /\ \A i \in 1 .. Len(Image) : Image[i] = data[i]
    BY ImageStored DEF Stored
<1>3. Over(Blank, 0, Image) = Over(data, 0, Image)
    <2>1. (kind = "str" => Len(Image) >= Size - 1) /\ (kind # "str" => Len(Image) = Size)
        BY <1>1, <1>2 DEF Fits
    <2> QED BY <1>1, <1>2, <2>1, FlashIs
<1>4. Over(data, 0, Image) = data
    <2>1. /\ Over(data, 0, Image) \in [1 .. Size -> Byte]
          /\ \A i \in 1 .. Size :
                Over(data, 0, Image)[i] = IF i - 0 \in 1 .. Len(Image) THEN Image[i - 0] ELSE data[i]
        BY <1>1, <1>2, OverIs
    <2>2. \A i \in 1 .. Size : Over(data, 0, Image)[i] = data[i]
        BY <1>2, <2>1
    <2> QED BY <1>1, <2>1, <2>2
<1>5. Text(data, len) = Text(data, Measure(data))
    <2>1. CASE kind = "str"
        BY <2>1 DEF Text
    <2>2. CASE kind # "str"
        <3>1. Len(data) = Size /\ len = Size
            BY <1>1, <2>2, FunSeq DEF Fits
        <3> QED BY <2>2, <3>1 DEF Measure
    <2> QED BY <2>1, <2>2
<1> QED BY <1>3, <1>4, <1>5

LEMMA SavedStep == ASSUME Shape, SavedIsRead, [Next]_vars PROVE SavedIsRead'
<1>1. kind' = kind /\ Size' = Size
    BY KindStays
<1>2. CASE Save
    <2>1. item' = Image /\ saved' = [text |-> Text(data, len), len |-> len]
        BY <1>2 DEF Save
    <2>2. ASSUME kind = "str" => len >= Size - 2
          PROVE  saved'.text = Text(Over(Blank, 0, item'), Measure(Over(Blank, 0, item')))
        BY <2>1, <2>2, SaveIsRead
    <2>3. FromFlash' = Over(Blank, 0, item')
        BY <1>1 DEF FromFlash, Blank
    <2>4. \A s : Text(s, Measure(s))' = Text(s, Measure(s))
        BY <1>1 DEF Text, Measure
    <2> QED BY <1>1, <2>1, <2>2, <2>3, <2>4 DEF SavedIsRead, Text, Measure
<1>3. ASSUME ~Save PROVE SavedIsRead'
    <2>1. UNCHANGED <<kind, item, saved>>
        BY <1>1, <1>3 DEF Next, Restart, CopyByte, CopyEnd, Load, SetStart, SetRefused, GattWrite,
                     UprStart, UprLoad, UprStore, vars
    <2> QED BY <1>1, <2>1 DEF SavedIsRead, FromFlash, Text, Measure
<1> QED BY <1>2, <1>3

-----------------------------------------------------------------------------
(* Of what one write left strupr makes at most one character stale. *)

LEMMA AlikeChar ==
    \A a, b : Alike(<<a>>, <<b>>) <=> IF kind = "str" THEN a % 10 = b % 10 ELSE a = b
BY DEF Alike

LEMMA StaleIs ==
    /\ \A i : i \in Stale <=> i \in 1 .. Size /\ ~Alike(<<data[i]>>, <<want[i]>>)
    /\ OneStaleChar <=> \A i, j \in Stale : by[i] = by[j] => i = j
BY DEF Stale, OneStaleChar

LEMMA AlikeStays == ASSUME kind' = kind PROVE \A a, b : Alike(<<a>>, <<b>>)' <=> Alike(<<a>>, <<b>>)
BY DEF Alike

\* The same, of the next state.
LEMMA StaleNext ==
    ASSUME [Next]_vars
    PROVE  /\ \A i : i \in Stale' <=> i \in 1 .. Size /\ ~Alike(<<data'[i]>>, <<want'[i]>>)
           /\ OneStaleChar' <=> \A i, j \in Stale' : by'[i] = by'[j] => i = j
<1>1. kind' = kind /\ Size' = Size
    BY KindStays
<1> QED BY <1>1 DEF Stale, OneStaleChar, Alike

\* A write changes the bytes in its reach, to the same whatever they were.
LEMMA OverReach ==
    ASSUME kind \in Kinds, NEW w \in Sent[kind], w.offset + Len(Part(w)) <= Size,
           NEW s, Good(s), NEW i \in 1 .. Size
    PROVE  Over(s, w.offset, Part(w))[i] = IF i \in Reach(w) THEN Part(w)[i - w.offset] ELSE s[i]
<1>1. /\ Size \in Nat /\ w.offset \in Nat /\ Part(w) \in Seq(Byte) /\ Len(Part(w)) \in Nat
      /\ s \in [1 .. Size -> Byte]
    BY SizeIs, PartIs DEF Good
<1>2. i - w.offset \in 1 .. Len(Part(w)) <=> i \in Reach(w)
    BY <1>1 DEF Reach
<1> QED BY <1>1, <1>2, OverIs

LEMMA StaleStep ==
    ASSUME Shape, StaleOrMine, OneStaleChar, [Next]_vars
    PROVE  StaleOrMine' /\ OneStaleChar'
<1>12. Restart \/ Load => data' = want'
    BY DEF Restart, Load, Reload
<1> USE StaleIs, StaleNext
<1>0. /\ kind' = kind /\ Size' = Size /\ kind \in Kinds /\ Size \in Nat \ {0}
      /\ Good(data) /\ Good(want) /\ Copying(copy) /\ Raising(upr)
      /\ \A i, j \in Stale : by[i] = by[j] => i = j
      /\ \A i \in Stale : i \in 1 .. Size /\ i >= copy.at
    BY KindStays, SizeIs DEF Shape, StaleOrMine
<1>1. ASSUME Stale' = {} PROVE StaleOrMine' /\ OneStaleChar'
    BY <1>1 DEF StaleOrMine
<1>2. ASSUME data' = want' PROVE StaleOrMine' /\ OneStaleChar'
    <2>1. \A i : Alike(<<data'[i]>>, <<want'[i]>>)
        BY <1>2, AlikeChar
    <2>2. Stale' = {}
        BY <2>1
    <2> QED BY <1>1, <2>2
<1>3. CASE Restart \/ Load
    <2>1. data' = want'
        BY <1>3, <1>12
    <2> QED BY <1>2, <2>1
<1>4. CASE CopyByte
    <2>1. copy.at \in 1 .. Size /\ copy'.at = copy.at + 1 /\ UNCHANGED upr
        BY <1>0, <1>4 DEF CopyByte, Copying
    <2>2. PICK b \in Byte : /\ data' = Over(data, copy.at - 1, <<b>>)
                            /\ want' = Over(want, copy.at - 1, <<b>>)
                            /\ (kind = "str" /\ copy.at = Size => b = 0)
        <3>1. Good(copy.to)
            BY <1>0, <2>1 DEF Copying
        <3> QED BY <1>4, <2>1, <3>1 DEF CopyByte, Good
    <2>3. \A i \in 1 .. Size : /\ data'[i] = IF i = copy.at THEN b ELSE data[i]
                               /\ want'[i] = IF i = copy.at THEN b ELSE want[i]
        <3>1. \A i \in 1 .. Size : data'[i] = IF i = copy.at THEN b ELSE data[i]
            BY <1>0, <2>1, <2>2, ByteGood
        <3>2. \A i \in 1 .. Size : want'[i] = IF i = copy.at THEN b ELSE want[i]
            BY <1>0, <2>1, <2>2, ByteGood
        <3> QED BY <3>1, <3>2
    <2>4. \A i \in Stale' : i \in Stale /\ i # copy.at
        <3> SUFFICES ASSUME NEW i \in Stale' PROVE i \in Stale /\ i # copy.at
            OBVIOUS
        <3>1. i \in 1 .. Size /\ ~Alike(<<data'[i]>>, <<want'[i]>>)
            OBVIOUS
        <3>2. i # copy.at
            BY <2>3, <3>1, AlikeChar
        <3> QED BY <2>3, <3>1, <3>2
    <2>5. \A i \in Stale' : i \in 1 .. Size /\ i >= copy.at + 1
        BY <1>0, <2>1, <2>4
    <2>6. ~Free'
        BY <2>1 DEF Free
    <2>7. kind # "str" => Stale' = {}
        BY <2>4 DEF StaleOrMine
    <2>8. \A i \in Stale' : by'[i] = by[i]
        BY <1>4, <2>4 DEF CopyByte, Labelled, Shape
    <2> QED BY <1>0, <2>1, <2>4, <2>5, <2>6, <2>7, <2>8 DEF StaleOrMine
<1>5. CASE CopyEnd
    <2>1. copy.at = Size + 1 /\ UNCHANGED <<data, want>>
        BY <1>5 DEF CopyEnd
    <2>2. Stale = {}
        BY <1>0, <2>1
    <2> QED BY <1>1, <2>1, <2>2
<1>6. ASSUME NEW value \in Typed[kind], SetStart(value) PROVE StaleOrMine' /\ OneStaleChar'
    <2>1. UNCHANGED <<data, want, by, upr>> /\ copy'.at = 1
        BY <1>6 DEF SetStart
    <2>2. Stale' = Stale
        BY <2>1
    <2> QED BY <1>0, <2>1, <2>2 DEF StaleOrMine, Free
<1>7. ASSUME NEW w \in Sent[kind], GattWrite(w) PROVE StaleOrMine' /\ OneStaleChar'
    <2>1. /\ w.offset + Len(Part(w)) <= Size
          /\ data' = Over(data, w.offset, Part(w)) /\ want' = Over(want, w.offset, Part(w))
        BY <1>7 DEF GattWrite, Part
    <2>2. CASE kind # "str"
        <3>1. \A i \in 1 .. Size : data[i] = want[i]
            BY <2>2, AlikeChar DEF StaleOrMine
        <3>2. data = want
            BY <1>0, <3>1 DEF Good
        <3> QED BY <1>2, <2>1, <3>2
    <2>3. CASE kind = "str"
        <3>1. /\ \A i \in 1 .. Size : by'[i] = IF i \in Reach(w) THEN Reach(w) ELSE by[i]
              /\ \A i \in 1 .. Size : by'[i] # {} => i \in by'[i]
            BY <1>7, WriteLabels DEF Labelled
        <3>2. \A i \in 1 .. Size : i \in Reach(w) => data'[i] = want'[i]
            BY <1>0, <2>1, OverReach
        <3>3. \A i \in 1 .. Size : i \notin Reach(w) => data'[i] = data[i] /\ want'[i] = want[i]
            BY <1>0, <2>1, OverReach
        <3>4. \A i \in Stale' : i \in Stale /\ i \notin Reach(w) /\ by'[i] = by[i]
            BY <3>1, <3>2, <3>3, AlikeChar
        <3>5. UNCHANGED <<copy, upr>>
            BY <1>7 DEF GattWrite
        <3>6. ASSUME Free', upr'.reg > 0, ~Alike(<<data[upr.at]>>, <<upr.reg>>)',
                     NEW i \in Stale', by'[i] = by'[upr.at]
              PROVE  FALSE
            <4>1. upr.at \in 1 .. Size /\ Free /\ upr.reg > 0
                BY <1>0, <3>5, <3>6 DEF Raising, Free
            <4>2. upr.at \notin Reach(w)
                <5>1. CASE upr.at \in Reach(w)
                    <6>1. i \in 1 .. Size /\ i \notin Reach(w)
                        BY <1>0, <3>4, <3>6
                    <6>2. by'[i] = Reach(w)
                        BY <3>1, <3>6, <4>1, <5>1
                    <6>3. i \in by'[i]
                        BY <3>1, <5>1, <6>1, <6>2
                    <6> QED BY <6>1, <6>2, <6>3
                <5> QED BY <5>1
            <4>3. ~Alike(<<data[upr.at]>>, <<upr.reg>>)
                BY <1>0, <3>3, <3>5, <3>6, <4>1, <4>2 DEF Alike
            <4>4. by[i] # by[upr.at]
                BY <3>4, <4>1, <4>3 DEF StaleOrMine
            <4> QED BY <3>1, <3>4, <3>6, <4>1, <4>2, <4>4
        <3>7. OneStaleChar'
            BY <1>0, <3>4
        <3>8. \A i \in Stale' : i >= copy'.at
            BY <1>0, <3>4, <3>5
        <3> QED BY <1>0, <2>3, <3>5, <3>6, <3>7, <3>8 DEF StaleOrMine
    <2> QED BY <2>2, <2>3
<1>8. CASE Save \/ UNCHANGED vars
    <2>1. UNCHANGED <<kind, data, want, by, copy, upr>>
        BY <1>8, <1>0 DEF Save, vars
    <2>2. Stale' = Stale /\ Free' = Free
        BY <2>1 DEF Free
    <2> QED BY <1>0, <2>1, <2>2, AlikeStays DEF StaleOrMine
<1>9. CASE UprStart
    <2>1. UNCHANGED <<data, want, by, copy>> /\ upr'.reg = 0
        BY <1>9 DEF UprStart
    <2>2. Stale' = Stale
        BY <2>1
    <2> QED BY <1>0, <2>1, <2>2 DEF StaleOrMine
<1>10. CASE UprLoad
    <2>1. UNCHANGED <<data, want, by, copy>>
        BY <1>10 DEF UprLoad
    <2>2. Stale' = Stale
        BY <2>1
    <2>3. upr'.reg = 0 \/ (upr'.reg = data[upr.at] /\ upr'.at = upr.at)
        BY <1>0, <1>10 DEF UprLoad, NoUpr, Raising
    <2>4. upr'.reg > 0 => Alike(<<data[upr.at]>>, <<upr.reg>>)'
        <3>1. Alike(<<data'[upr'.at]>>, <<upr'.reg>>) <=> Alike(<<data[upr.at]>>, <<upr.reg>>)'
            BY <1>0 DEF Alike
        <3>2. CASE upr'.reg = 0
            BY <3>2
        <3>3. CASE upr'.reg = data[upr.at] /\ upr'.at = upr.at
            BY <2>1, <3>1, <3>3, AlikeChar
        <3> QED BY <2>3, <3>2, <3>3
    <2> QED BY <1>0, <2>1, <2>2, <2>4 DEF StaleOrMine
<1>11. CASE UprStore
    <2>1. /\ upr.at \in 1 .. Size - 1 /\ kind = "str" /\ upr.reg \in Byte /\ upr.reg > 0
          /\ UNCHANGED <<want, by, copy>> /\ upr'.reg = 0 /\ Free
          /\ data' = Over(data, upr.at - 1, <<Upper(upr.reg)>>) /\ Upper(upr.reg) \in Byte
        BY <1>0, <1>11 DEF UprStore, Raising, Upper, Byte
    <2>2. \A i \in 1 .. Size : data'[i] = IF i = upr.at THEN Upper(upr.reg) ELSE data[i]
        BY <1>0, <2>1, ByteGood
    <2>3. \A i \in Stale' : i = upr.at \/ i \in Stale
        BY <2>1, <2>2
    <2>4. CASE Alike(<<data[upr.at]>>, <<upr.reg>>)
        <3>1. data[upr.at] \in Byte /\ want[upr.at] \in Byte
            BY <1>0, <2>1 DEF Good
        <3>2. data'[upr.at] % 10 = data[upr.at] % 10
            <4>1. Upper(upr.reg) % 10 = upr.reg % 10
                BY <2>1 DEF Upper, Byte
            <4>2. data'[upr.at] = Upper(upr.reg)
                BY <1>0, <2>1, <2>2
            <4>3. data[upr.at] % 10 = upr.reg % 10
                BY <2>1, <2>4, AlikeChar
            <4> QED BY <4>1, <4>2, <4>3
        <3>3. \A i \in Stale' : i \in Stale
            <4> SUFFICES ASSUME NEW i \in Stale', i = upr.at PROVE i \in Stale
                BY <2>3
            <4>1. i \in 1 .. Size /\ ~Alike(<<data'[i]>>, <<want'[i]>>)
                OBVIOUS
            <4>2. ~Alike(<<data[i]>>, <<want[i]>>)
                BY <2>1, <3>2, <4>1, AlikeChar
            <4> QED BY <4>1, <4>2
        <3> QED BY <1>0, <2>1, <3>3 DEF StaleOrMine
    <2>5. CASE ~Alike(<<data[upr.at]>>, <<upr.reg>>)
        <3>1. \A i \in Stale : by[i] # by[upr.at]
            BY <2>1, <2>5 DEF StaleOrMine
        <3>2. \A i, j \in Stale' : by'[i] = by'[j] => i = j
            BY <1>0, <2>1, <2>3, <3>1
        <3>3. \A i \in Stale' : i >= copy'.at
            BY <1>0, <2>1, <2>3 DEF Free
        <3> QED BY <1>0, <2>1, <3>2, <3>3 DEF StaleOrMine
    <2> QED BY <2>4, <2>5
<1> QED BY <1>3, <1>4, <1>5, <1>6, <1>7, <1>8, <1>9, <1>10, <1>11 DEF Next, SetRefused

-----------------------------------------------------------------------------
(* A get answers what the last set was answered. *)

\* The value that was answered, as Answered has it.
Given(value) ==
    /\ value \in Typed[kind] /\ ~Refused(value) /\ reply = Answer(value)
    /\ IF Free THEN \A i \in 1 .. Size : SameChar(data[i], Parsed(value)[i])
               ELSE /\ copy.to = Parsed(value)
                    /\ \A i \in 1 .. copy.at - 1 : data[i] = copy.to[i]

LEMMA AnsweredIs == Answered <=> (reply = None \/ \E value : Given(value))
BY DEF Answered, Given

\* The operators mean the same in the next state.
LEMMA GivenNext ==
    ASSUME [Next]_vars
    PROVE  /\ Answered' <=> (reply' = None \/ \E value : Given(value)')
           /\ \A value : Given(value)' <=>
                /\ value \in Typed[kind] /\ ~Refused(value) /\ reply' = Answer(value)
                /\ IF copy'.at = 0 THEN \A i \in 1 .. Size : SameChar(data'[i], Parsed(value)[i])
                                   ELSE /\ copy'.to = Parsed(value)
                                        /\ \A i \in 1 .. copy'.at - 1 : data'[i] = copy'.to[i]
<1>1. kind' = kind /\ Size' = Size
    BY KindStays
<1>2. Answered' <=> (reply' = None \/ \E value : Given(value)')
    BY <1>1 DEF Answered, Given
<1>3. \A value : /\ Refused(value)' <=> Refused(value)
                 /\ Parsed(value)' = Parsed(value) /\ Answer(value)' = Answer(value)
    BY <1>1 DEF Refused, Parsed, Answer, Padded
<1>4. \A a, b : SameChar(a, b)' <=> SameChar(a, b)
    BY <1>1 DEF SameChar
<1> QED BY <1>1, <1>2, <1>3, <1>4 DEF Given, Free, SameChar

LEMMA AnsweredStep == ASSUME Shape, Answered, [Next]_vars PROVE Answered'
<1> USE GivenNext
<1>0. /\ kind' = kind /\ Size' = Size /\ kind \in Kinds /\ Size \in Nat \ {0}
      /\ Good(data) /\ Copying(copy) /\ Raising(upr)
    BY KindStays, SizeIs DEF Shape
<1>1. CASE reply' = None
    BY <1>1
<1>2. ASSUME NEW value \in Typed[kind], SetStart(value) PROVE Answered'
    <2>1. /\ ~Refused(value) /\ reply' = Answer(value)
          /\ copy'.to = Parsed(value) /\ copy'.at = 1
        BY <1>2 DEF SetStart
    <2>2. Given(value)'
        BY <2>1
    <2> QED BY <2>2
<1>3. ASSUME NEW value, Given(value), reply' = reply,
             CopyByte \/ CopyEnd \/ Save \/ UprStart \/ UprLoad \/ UprStore \/ UNCHANGED vars
      PROVE  Answered'
    <2>0. value \in Typed[kind] /\ ~Refused(value) /\ reply' = Answer(value)
        BY <1>3 DEF Given
    <2>1. CASE CopyByte
        <3>1. copy.at \in 1 .. Size /\ Good(copy.to)
            BY <1>0, <2>1 DEF CopyByte, Copying
        <3>2. /\ copy'.at = copy.at + 1 /\ copy'.to = copy.to
              /\ data' = Over(data, copy.at - 1, <<copy.to[copy.at]>>)
            BY <1>0, <2>1, <3>1 DEF CopyByte, Copying
        <3>3. copy.to[copy.at] \in Byte /\ (kind = "str" /\ copy.at = Size => copy.to[copy.at] = 0)
            BY <3>1 DEF Good
        <3>4. \A i \in 1 .. Size : data'[i] = IF i = copy.at THEN copy.to[copy.at] ELSE data[i]
            BY <1>0, <3>1, <3>2, <3>3, ByteGood
        <3>5. copy.to = Parsed(value) /\ \A i \in 1 .. copy.at - 1 : data[i] = copy.to[i]
            BY <1>3, <3>1 DEF Given, Free
        <3>6. \A i \in 1 .. copy'.at - 1 : data'[i] = copy'.to[i]
            <4>1. ASSUME NEW i \in 1 .. copy.at PROVE data'[i] = copy.to[i]
                <5>1. i \in 1 .. Size /\ (i = copy.at \/ i \in 1 .. copy.at - 1)
                    BY <1>0, <3>1
                <5> QED BY <3>4, <3>5, <5>1
            <4>2. copy'.at - 1 = copy.at
                BY <3>1, <3>2
            <4> QED BY <3>2, <4>1, <4>2
        <3>7. Given(value)'
            BY <2>0, <3>1, <3>2, <3>5, <3>6
        <3> QED BY <3>7
    <2>2. CASE CopyEnd
        <3>1. copy.at = Size + 1 /\ copy'.at = 0 /\ data' = data
            BY <2>2 DEF CopyEnd, NoCopy
        <3>2. copy.to = Parsed(value) /\ \A i \in 1 .. copy.at - 1 : data[i] = copy.to[i]
            BY <1>0, <1>3, <3>1 DEF Given, Free
        <3>3. \A i \in 1 .. Size : SameChar(data'[i], Parsed(value)[i])
            BY <1>0, <3>1, <3>2 DEF SameChar
        <3>4. Given(value)'
            BY <2>0, <3>1, <3>3
        <3> QED BY <3>4
    <2>3. CASE Save \/ UprStart \/ UprLoad \/ UNCHANGED vars
        <3>1. UNCHANGED <<kind, data, copy>>
            BY <2>3, <1>0 DEF Save, UprStart, UprLoad, vars
        <3>2. Given(value)'
            BY <1>3, <2>0, <3>1 DEF Given, Free
        <3> QED BY <3>2
    <2>4. CASE UprStore /\ reply # None
        <3>1. /\ upr.at \in 1 .. Size - 1 /\ kind = "str" /\ upr.reg \in Byte /\ upr.reg > 0
              /\ copy' = copy /\ Free /\ Upper(upr.reg) \in Byte
              /\ data' = Over(data, upr.at - 1, <<Upper(upr.reg)>>)
            BY <1>0, <2>4 DEF UprStore, Raising, Upper, Byte
        <3>2. Upper(data[upr.at]) = Upper(upr.reg)
            BY <1>3, <2>4 DEF UprStore
        <3>3. \A i \in 1 .. Size : data'[i] = IF i = upr.at THEN Upper(upr.reg) ELSE data[i]
            BY <1>0, <3>1, ByteGood
        <3>4. \A i \in 1 .. Size : SameChar(data'[i], data[i])
            <4>1. data[upr.at] \in Byte
                BY <1>0, <3>1 DEF Good
            <4>2. \A c \in Byte : Upper(c) % 10 = c % 10 /\ (Upper(c) = 0 <=> c = 0)
                BY DEF Upper, Byte
            <4>3. Upper(upr.reg) % 10 = data[upr.at] % 10 /\ (Upper(upr.reg) = 0 <=> data[upr.at] = 0)
                BY <3>2, <4>1, <4>2
            <4> QED BY <3>1, <3>3, <4>3 DEF SameChar
        <3>5. \A i \in 1 .. Size : SameChar(data'[i], Parsed(value)[i])
            BY <1>3, <3>1, <3>4 DEF Given, SameChar
        <3>6. Given(value)'
            BY <2>0, <3>1, <3>5 DEF Free
        <3> QED BY <3>6
    <2>5. CASE UprStore /\ reply = None
        BY <1>3, <2>5
    <2> QED BY <1>3, <2>1, <2>2, <2>3, <2>4, <2>5
<1>4. ASSUME reply' # None, ~\E value \in Typed[kind] : SetStart(value)
      PROVE  /\ reply' = reply
             /\ CopyByte \/ CopyEnd \/ Save \/ UprStart \/ UprLoad \/ UprStore \/ UNCHANGED vars
    BY <1>4 DEF Next, Restart, Load, Reload, GattWrite, SetRefused, CopyByte, CopyEnd, Save,
                UprStart, UprLoad, UprStore, vars
<1>5. ASSUME reply' # None, ~\E value \in Typed[kind] : SetStart(value) PROVE Answered'
    <2>1. PICK value : Given(value)
        BY <1>4, <1>5, AnsweredIs
    <2> QED BY <1>3, <1>4, <1>5, <2>1
<1> QED BY <1>1, <1>2, <1>5

LEMMA ReplyFollows == Shape /\ Answered => ReplyIsGet
<1> SUFFICES ASSUME Shape, Answered, Free, reply # None
             PROVE  Alike(Text(data, len), reply)
    BY DEF ReplyIsGet
<1>1. PICK value : Given(value)
    BY AnsweredIs
<1>2. /\ value \in Typed[kind] /\ ~Refused(value) /\ reply = Answer(value)
      /\ \A i \in 1 .. Size : SameChar(data[i], Parsed(value)[i])
    BY <1>1 DEF Given
<1>3. kind \in Kinds /\ Size \in Nat \ {0} /\ data \in [1 .. Size -> Byte] /\ Fits(len)
    BY SizeIs DEF Shape, Good
<1>4. CASE kind = "str"
    <2>1. /\ value \in Seq(Letters) /\ Len(value) \in 1 .. Size - 1 /\ reply = value
          /\ Parsed(value) = Padded(value)
        BY <1>2, <1>4, SettingAssumption DEF Size, Answer, Parsed
    <2>2. \A i \in 1 .. Len(value) : value[i] \in Letters /\ value[i] # 0
        <3>1. \A i \in 1 .. Len(value) : value[i] \in Letters
            BY <2>1
        <3>2. \A c \in Letters : c # 0
            BY DEF Letters
        <3> QED BY <3>1, <3>2
    <2>3. \A i \in 1 .. Size : Padded(value)[i] = IF i <= Len(value) THEN value[i] ELSE 0
        BY <1>3 DEF Padded
    <2>4. \A i \in 1 .. Len(value) : data[i] # 0 /\ data[i] % 10 = value[i] % 10
        <3> SUFFICES ASSUME NEW i \in 1 .. Len(value)
                     PROVE  data[i] # 0 /\ data[i] % 10 = value[i] % 10
            OBVIOUS
        <3>1. i \in 1 .. Size /\ Padded(value)[i] = value[i]
            BY <1>3, <2>1, <2>3
        <3>2. SameChar(data[i], value[i])
            BY <1>2, <2>1, <3>1
        <3> QED BY <1>4, <2>2, <3>2 DEF SameChar
    <2>5. data[Len(value) + 1] = 0
        <3>1. Len(value) + 1 \in 1 .. Size /\ Padded(value)[Len(value) + 1] = 0
            BY <1>3, <2>1, <2>3
        <3>2. SameChar(data[Len(value) + 1], 0)
            BY <1>2, <2>1, <3>1
        <3> QED BY <1>4, <3>2 DEF SameChar
    <2>6. StrLen(data) = Len(value)
        <3>1. Size \in Nat /\ Len(value) \in 0 .. Size
            BY <1>3, <2>1
        <3> QED BY <1>3, <2>4, <2>5, <3>1, StrLenIs
    <2>7. Text(data, len) = SubSeq(data, 1, Len(value))
        BY <1>4, <2>6 DEF Text
    <2>8. /\ Len(SubSeq(data, 1, Len(value))) = Len(value)
          /\ \A i \in 1 .. Len(value) : SubSeq(data, 1, Len(value))[i] = data[i]
        <3>1. \A i \in 1 .. Len(value) : data[i] \in Byte
            BY <1>3, <2>1
        <3>2. /\ Len(SubSeq(data, 1, Len(value))) = IF 1 <= Len(value) THEN Len(value) - 1 + 1 ELSE 0
              /\ \A i \in 1 .. Len(value) - 1 + 1 : SubSeq(data, 1, Len(value))[i] = data[1 + i - 1]
            BY <2>1, <3>1, SubSeqProperties
        <3> QED BY <2>1, <3>2
    <2> QED BY <1>4, <2>1, <2>4, <2>7, <2>8 DEF Alike
<1>5. CASE kind = "bin"
    <2>1. /\ value \in Seq((0 .. 15) \cup {Bad}) /\ Len(value) = 2 * Size /\ reply = value
          /\ Parsed(value) = Decoded(value)
        BY <1>2, <1>5, SettingAssumption DEF Refused, Answer, Parsed
    <2>2. \A i \in 1 .. 2 * Size : value[i] \in 0 .. 15
        BY <1>2, <1>5, <2>1 DEF Refused
    <2>3. \A i \in 1 .. Size : data[i] = 16 * value[2 * i - 1] + value[2 * i]
        <3>1. Len(value) \div 2 = Size
            BY <1>3, <2>1
        <3> QED BY <1>2, <1>5, <2>1, <3>1 DEF Decoded, SameChar
    <2>4. Text(data, len) = Encoded(data, Size)
        BY <1>3, <1>5 DEF Text, Fits
    <2>5. ASSUME NEW i \in 1 .. 2 * Size
          PROVE  value[i] = IF i % 2 = 1 THEN data[(i + 1) \div 2] \div 16 ELSE data[i \div 2] % 16
        <3>1. CASE i % 2 = 1
            <4>1. PICK j \in 1 .. Size : i = 2 * j - 1 /\ (i + 1) \div 2 = j
                BY <1>3, <3>1
            <4>2. value[i] \in 0 .. 15 /\ value[i + 1] \in 0 .. 15
                BY <1>3, <2>2, <4>1
            <4>3. data[j] = 16 * value[i] + value[i + 1]
                BY <2>3, <4>1
            <4>4. data[j] \div 16 = value[i]
                BY <4>2, <4>3
            <4> QED BY <3>1, <4>1, <4>4
        <3>2. CASE i % 2 # 1
            <4>1. PICK j \in 1 .. Size : i = 2 * j /\ i \div 2 = j
                BY <1>3, <3>2
            <4>2. value[i] \in 0 .. 15 /\ value[i - 1] \in 0 .. 15
                BY <1>3, <2>2, <4>1
            <4>3. data[j] = 16 * value[i - 1] + value[i]
                BY <2>3, <4>1
            <4>4. data[j] % 16 = value[i]
                BY <4>2, <4>3
            <4> QED BY <3>2, <4>1, <4>4
        <3> QED BY <3>1, <3>2
    <2>6. value = [i \in 1 .. 2 * Size |-> value[i]]
        BY <1>3, <2>1
    <2>7. Encoded(data, Size) = value
        BY <2>5, <2>6 DEF Encoded
    <2> QED BY <1>5, <2>1, <2>4, <2>7 DEF Alike
<1>6. CASE kind = "num"
    <2>1. Size = 1 /\ Text(data, len) = data
        BY <1>3, <1>6, SizeIs DEF Text
    <2>2. data[1] = Number(value[1]) /\ reply = <<Number(value[1])>>
        BY <1>2, <1>6, <2>1 DEF Parsed, Answer, SameChar
    <2>3. data \in Seq(Byte) /\ Len(data) = 1
        BY <1>3, <2>1, FunSeq
    <2>4. data = <<Number(value[1])>>
        BY <2>2, <2>3
    <2> QED BY <1>6, <2>1, <2>2, <2>4 DEF Alike
<1> QED BY <1>3, <1>4, <1>5, <1>6 DEF Kinds

-----------------------------------------------------------------------------
(* The theorems. *)

LEMMA InitIInv == Init => IInv
<1> SUFFICES ASSUME Init PROVE IInv
    OBVIOUS
<1>1. kind \in Kinds /\ Good(data) /\ Good(want) /\ data = want /\ Size \in Nat \ {0}
    BY SizeIs DEF Init
<1>2. Fits(len)
    BY <1>1, MeasureFits DEF Init
<1>3. Stored(item, saved.len)
    <2>1. item = <<>> /\ saved.len = 0 /\ <<>> \in Seq(Byte) /\ Len(<<>>) = 0
        BY DEF Init, None
    <2> QED BY <1>1, <2>1 DEF Stored, None
<1>4. Copying(copy) /\ Raising(upr)
    BY <1>1 DEF Init, Copying, Raising, NoCopy, NoUpr, Byte
<1>5. Stale = {}
    <2>1. \A i \in 1 .. Size : Alike(<<data[i]>>, <<want[i]>>)
        BY <1>1, AlikeChar
    <2> QED BY <2>1, StaleIs
<1>6. StaleOrMine /\ OneStaleChar
    BY <1>5, StaleIs DEF StaleOrMine
<1>8. Labelled(by)
    BY DEF Init, NoGatt, Labelled
<1>7. SavedIsRead /\ Answered
    BY DEF Init, SavedIsRead, Answered
<1> QED BY <1>1, <1>2, <1>3, <1>4, <1>6, <1>7, <1>8 DEF IInv, Shape

LEMMA StepIInv == IInv /\ [Next]_vars => IInv'
BY ShapeStep, SavedStep, StaleStep, AnsweredStep DEF IInv

\* The inductive invariant.
THEOREM IInvariant == Spec => []IInv
BY InitIInv, StepIInv, PTL DEF Spec

\* The bytes, the length, the item and the copies keep their sizes.
THEOREM TypeCorrect == Spec => []TypeOK
<1>1. IInv => TypeOK
    <2> SUFFICES ASSUME IInv PROVE TypeOK
        OBVIOUS
    <2>1. /\ kind \in Kinds /\ Good(data) /\ Good(want) /\ Labelled(by) /\ Fits(len) /\ Size \in Nat
          /\ Stored(item, saved.len) /\ Copying(copy) /\ Raising(upr)
        BY SizeIs DEF IInv, Shape
    <2>2. len \in 0 .. Size
        BY <2>1 DEF Fits
    <2> QED BY <2>1, <2>2 DEF TypeOK, Good, Labelled, Stored, Copying, Raising
<1> QED BY <1>1, IInvariant, PTL

\* What was saved is what a restart or a load brings back (vars.c:399,
\* gatt_config_service.c:577).
THEOREM SavedIsKept == Spec => []Kept
<1>1. IInv => Kept
    BY KeptFollows DEF IInv
<1> QED BY <1>1, IInvariant, PTL

\* A get answers what the last set was answered (vars.c:488, 524, 535).
THEOREM RepliesAreGets == Spec => []ReplyIsGet
<1>1. IInv => ReplyIsGet
    BY ReplyFollows DEF IInv
<1> QED BY <1>1, IInvariant, PTL

\* Of what one command, load or GATT write left in the variable strupr makes at
\* most one character an old one (LoRa_task.c:129).
THEOREM StaleCharIsOne == Spec => []OneStaleChar
<1>1. IInv => OneStaleChar
    BY DEF IInv
<1> QED BY <1>1, IInvariant, PTL

================================================================================
