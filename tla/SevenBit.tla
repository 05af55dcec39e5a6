------------------------------ MODULE SevenBit -----------------------------
(***************************************************************************)
(* The 7-bit ASCII and Unicode cells (ese/_sevenbit.py, sevenbit_ascii.py, *)
(* sevenbit_unicode.py): units of seven bits packed into bytes, lowest bit *)
(* first, behind a header whose three flag bits say how many bits of the   *)
(* last byte count.  The reader knows nothing else of the number of units. *)
(*                                                                         *)
(* Accumulators are sequences of bits, the lowest first.                   *)
(***************************************************************************)
EXTENDS Integers, Sequences

CONSTANT Texts   \* sequences of units

UnitBits == 7
ByteBits == 8
UnitValues == [1..UnitBits -> {0, 1}]
Bytes      == [1..ByteBits -> {0, 1}]
Dirty == << >>   \* a unit above 0x7f, or the odd byte of a wide text

ASSUME SevenBitAssumption == Texts \subseteq Seq(UnitValues \union {Dirty})

VARIABLES
  units,    \* the text
  wide,     \* UTF-16: each unit came as two bytes
  fed,      \* _pack_units: units taken
  acc,      \* _pack_units: accumulator
  packed,   \* bytes behind the header
  flags,    \* the header's flag bits
  rat,      \* _unpack_units: bytes taken
  racc,     \* _unpack_units: accumulator
  read,     \* _unpack_units: units
  stage     \* "text", "pack", "cell", "unpack", then "done", "refused" or "error"

packVars   == <<units, wide, fed, acc, packed, flags>>
unpackVars == <<rat, racc, read>>
sevenVars  == <<packVars, unpackVars, stage>>

TextLen == Len(units)

----------------------------------------------------------------------------
(* compress *)

\* compressed_size, foretold; what does not shrink is not packed.
CompressedSize == (TextLen * UnitBits + ByteBits - 1) \div ByteBits + 1

Accept ==
  /\ stage = "text"
  /\ stage' = IF \/ \E i \in DOMAIN units : units[i] = Dirty
                 \/ CompressedSize >= (IF wide THEN 2 * TextLen ELSE TextLen)
              THEN "refused" ELSE "pack"
  /\ UNCHANGED <<packVars, unpackVars>>

First(bits, k) == SubSeq(bits, 1, k)
After(bits, k) == SubSeq(bits, k + 1, Len(bits))

PackUnit ==
  /\ stage = "pack" /\ fed < TextLen
  /\ LET filled == acc \o units[fed + 1]
     IN IF Len(filled) >= ByteBits
        THEN packed' = Append(packed, First(filled, ByteBits)) /\ acc' = After(filled, ByteBits)
        ELSE acc' = filled /\ UNCHANGED packed
  /\ fed' = fed + 1
  /\ UNCHANGED <<units, wide, flags, unpackVars, stage>>

\* The variant counts the bits of the last byte without the bias.
Unbiased7(k) == (k * UnitBits) % ByteBits
FinalBitsBiased(k) == (k * UnitBits - 1) % ByteBits

Padded(bits) == [i \in 1..ByteBits |-> IF i <= Len(bits) THEN bits[i] ELSE 0]

PackEnd ==
  /\ stage = "pack" /\ fed = TextLen
  /\ packed' = IF acc = << >> THEN packed ELSE Append(packed, Padded(acc))
  /\ flags' = FinalBitsBiased(TextLen)
  /\ stage' = "cell"
  /\ UNCHANGED <<units, wide, fed, acc, unpackVars>>

\* Other producers count the bits of the last byte in their own way.
Relabel ==
  /\ stage = "cell" /\ \E f \in 0..(ByteBits - 1) : flags' = f
  /\ UNCHANGED <<units, wide, fed, acc, packed, unpackVars, stage>>

----------------------------------------------------------------------------
(* decompress *)

FinalBits == flags + 1
\* decompressed_size, in units
UnitCount == ((Len(packed) - 1) * ByteBits + FinalBits) \div UnitBits

Parse ==
  /\ stage = "cell"
  /\ stage' = IF packed = << >> \/ \E i \in (FinalBits + 1)..ByteBits : packed[Len(packed)][i] = 1
              THEN "error" ELSE "unpack"
  /\ UNCHANGED <<packVars, unpackVars>>

FeedByte ==
  /\ stage = "unpack" /\ Len(racc) < UnitBits /\ rat < Len(packed)
  /\ racc' = racc \o packed[rat + 1] /\ rat' = rat + 1
  /\ UNCHANGED <<packVars, read, stage>>

TakeUnit ==
  /\ stage = "unpack" /\ Len(racc) >= UnitBits /\ Len(read) # UnitCount
  /\ read' = Append(read, First(racc, UnitBits)) /\ racc' = After(racc, UnitBits)
  /\ UNCHANGED <<packVars, rat, stage>>

\* Enough units, or no more bytes.  The wide reader assigns the units to every
\* second byte of a result of UnitCount units; another number is an error.
Unpacked ==
  /\ stage = "unpack"
  /\ IF Len(racc) >= UnitBits THEN Len(read) = UnitCount ELSE rat = Len(packed)
  /\ stage' = IF wide /\ Len(read) # UnitCount THEN "error" ELSE "done"
  /\ UNCHANGED <<packVars, unpackVars>>

----------------------------------------------------------------------------

SevenBitInit ==
  /\ units \in Texts /\ wide \in BOOLEAN
  /\ fed = 0 /\ acc = << >> /\ packed = << >> /\ flags = 0
  /\ rat = 0 /\ racc = << >> /\ read = << >> /\ stage = "text"

SevenBitNext == Accept \/ PackUnit \/ PackEnd \/ Relabel \/ Parse \/ FeedByte \/ TakeUnit \/ Unpacked
SevenBitSpec == SevenBitInit /\ [][SevenBitNext]_sevenVars

----------------------------------------------------------------------------

(***************************************************************************)
(* Types; an accumulator never holds more than the bits of one byte and    *)
(* one unit.                                                               *)
(***************************************************************************)
SevenBitTypeOK ==
  /\ wide \in BOOLEAN /\ fed \in 0..TextLen /\ flags \in 0..(ByteBits - 1)
  /\ units \in Seq(UnitValues \union {Dirty})
  /\ stage \notin {"text", "refused"} => units \in Seq(UnitValues)
  /\ packed \in Seq(Bytes) /\ rat \in 0..Len(packed) /\ read \in Seq(UnitValues)
  /\ acc \in Seq({0, 1}) /\ Len(acc) < ByteBits
  /\ racc \in Seq({0, 1}) /\ Len(racc) < UnitBits + ByteBits
  /\ stage \in {"text", "refused", "pack", "cell", "unpack", "done", "error"}

(***************************************************************************)
(* The size compress decides by is the size of the cell it makes; a cell   *)
(* as it was made is accepted.  Whatever the flag bits of an accepted cell *)
(* say, as many units come back as decompressed_size announces, and they   *)
(* are those of the text: all of them for the flags compress wrote, some   *)
(* left out or a zero added for others.                                    *)
(***************************************************************************)
UnitsComeBack ==
  /\ stage \in {"cell", "unpack", "done"} => 1 + Len(packed) = CompressedSize
  /\ stage = "error" => flags < FinalBitsBiased(TextLen)
  /\ stage = "done" =>
       /\ Len(read) = UnitCount
       /\ \A i \in 1..Len(read) : read[i] = IF i <= TextLen THEN units[i] ELSE [b \in 1..UnitBits |-> 0]
       /\ flags = FinalBitsBiased(TextLen) => read = units
============================================================================
