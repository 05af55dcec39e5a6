--------------------------- MODULE CompactXpress9 --------------------------
(***************************************************************************)
(* The compact XPRESS9 codec (ntdll/xpress9.py): a second encoder for the  *)
(* XPRESS9 tokens, with a list of recent offsets and an escape of long     *)
(* lengths of its own, and a decoder that takes its list handling and its  *)
(* lengths from ese/xpress9.py.  Header and checksum are modelled by what  *)
(* they tell the decoder; the Huffman tables are flat and carry every      *)
(* symbol.                                                                 *)
(*                                                                         *)
(* A field of no bits on the wire is no field.                             *)
(***************************************************************************)
EXTENDS LzText, Functions

CONSTANTS
  Sources,    \* plaintexts
  StoredMax,  \* longest plaintext that is stored
  Slots,      \* _MAX_MTF
  PtrMin,     \* _PTR_MIN_MATCH
  MtfMin,     \* _MTF_MIN_MATCH
  MaxShort, MaxLong, LitCount, MaxWindow   \* the wire alphabets

ASSUME CompactAssumption ==
  /\ StoredMax \in Nat /\ Slots \in Nat \ {0} /\ PtrMin \in Nat \ {0} /\ MtfMin \in Nat \ {0}
  /\ MaxShort \in Nat /\ MaxShort >= 2 /\ MaxLong \in Nat \ {0} /\ LitCount \in Nat \ {0}
  /\ \A text \in Sources : text \in Seq(0..(LitCount - 1)) /\ Len(text) < 2^30

\* The powers of two that Wire!Msb looks at are whole numbers.
ASSUME PowersAssumption == 2^0 = 1 /\ \A k \in 0..30 : 2^k \in Nat

Wire == INSTANCE Xpress9Symbols WITH MtfSlots <- Slots, PtrBase <- PtrMin, MtfBase <- MtfMin

VARIABLES
  source,      \* plain
  place,       \* compress: pos
  recent,      \* compress: mtf
  written,     \* the tokens as fields
  got,         \* decompress: tokens read
  known,       \* decompress: mtf
  lastWasPtr,  \* decompress
  produced,    \* decompress: out
  phase        \* "encode", "stored" or "decode", then "done" or "error"

writerVars  == <<source, place, recent, written>>
readerVars  == <<got, known, lastWasPtr, produced>>
compactVars == <<writerVars, readerVars, phase>>

Pushed(list, off) == SubSeq(<<off>> \o list, 1, IF Len(list) < Slots THEN Len(list) + 1 ELSE Slots)

----------------------------------------------------------------------------
(* compress *)

Reach(off) == MatchLength(source, place - off, place, Len(source) - place)

\* Recent offsets come first; others are looked at only if none of them fits.
Repeated == {i \in DOMAIN recent : recent[i] <= place /\ Reach(recent[i]) >= MtfMin}
Fresh == {off \in 1..place : off < 2^MaxWindow /\ off \notin Range(recent) /\ Reach(off) >= PtrMin}

\* The longest, among equals the first in the list or the nearest.
BestSlot ==
  CHOOSE i \in Repeated : \A j \in Repeated :
    Reach(recent[i]) > Reach(recent[j]) \/ (Reach(recent[i]) = Reach(recent[j]) /\ i <= j)
BestOffset ==
  CHOOSE o \in Fresh : \A p \in Fresh : Reach(o) > Reach(p) \/ (Reach(o) = Reach(p) /\ o <= p)

\* A length that fills the short slot; the escape is taken relative to half
\* the base that the reader adds.
LongPart(long) ==
  LET extra == long - (MaxLong - 1)
      width == Wire!Msb(extra) + 1
  IN IF long < MaxLong THEN <<Wire!Long(long)>>
     ELSE <<Wire!Long(MaxLong + width), Wire!Raw(width, extra - 2^(width - 1))>>

\* In the variant both kinds of match have the same shortest length.
MatchPartOneBase(class, len) ==
  LET adj  == len - PtrMin
      base == LitCount + class * MaxShort
  IN IF adj < MaxShort - 1 THEN <<Wire!Short(base + adj)>>
     ELSE <<Wire!Short(base + MaxShort - 1)>> \o LongPart(adj - (MaxShort - 1))
MatchPart(class, len) ==
  LET adj  == len - (IF class < Slots THEN MtfMin ELSE PtrMin)
      base == LitCount + class * MaxShort
  IN IF adj < MaxShort - 1 THEN <<Wire!Short(base + adj)>>
     ELSE <<Wire!Short(base + MaxShort - 1)>> \o LongPart(adj - (MaxShort - 1))

Write(fields, len, list) ==
  /\ written' = Append(written, fields) /\ place' = place + len /\ recent' = list
  /\ UNCHANGED <<source, readerVars, phase>>

Encoding == phase = "encode" /\ Len(source) > StoredMax /\ place < Len(source)

\* The list keeps its order when an offset of it is used.
WriteRepeat ==
  /\ Encoding /\ Repeated # {}
  /\ LET i == BestSlot IN Write(MatchPart(i - 1, Reach(recent[i])), Reach(recent[i]), recent)

WritePointer ==
  /\ Encoding /\ Repeated = {} /\ Fresh # {}
  /\ LET off == BestOffset
     IN Write(MatchPart(Slots + Wire!Msb(off), Reach(off)) \o <<Wire!LowBits(off)>>,
              Reach(off), Pushed(recent, off))

WriteLiteral ==
  /\ Encoding /\ Repeated = {} /\ Fresh = {}
  /\ Write(<<Wire!Short(source[place + 1])>>, 1, recent)

EndOfWriting ==
  /\ phase = "encode"
  /\ \/ Len(source) <= StoredMax /\ phase' = "stored"
     \/ Len(source) > StoredMax /\ place = Len(source) /\ phase' = "decode"
  /\ UNCHANGED <<writerVars, readerVars>>

----------------------------------------------------------------------------
(* decompress *)

ReadStored ==
  /\ phase = "stored"
  /\ produced' = source /\ phase' = "done"
  /\ UNCHANGED <<writerVars, got, known, lastWasPtr>>

Reading == phase = "decode" /\ got < Len(written)
Token == Wire!Decoded(written[got + 1])

ReadLiteral ==
  /\ Reading /\ Token.kind = "lit"
  /\ produced' = Append(produced, Token.sym)
  /\ got' = got + 1 /\ lastWasPtr' = FALSE
  /\ UNCHANGED <<writerVars, known, phase>>

Toward(list, slot) == <<list[slot]>> \o SubSeq(list, 1, slot - 1) \o SubSeq(list, slot + 1, Len(list))

\* _take_mtf_offset, then the copy or a refusal.
ReadMatch ==
  /\ Reading /\ Token.kind # "lit"
  /\ LET slot == Token.sym + (IF lastWasPtr THEN 2 ELSE 1)
         list == IF Token.kind = "ptr" THEN Pushed(known, Token.off) ELSE Toward(known, slot)
     IN IF Token.kind = "mtf" /\ slot > Len(known)
        THEN phase' = "error" /\ UNCHANGED readerVars
        ELSE IF list[1] > Len(produced) THEN phase' = "error" /\ UNCHANGED readerVars
        ELSE /\ produced' = CopyMatch(produced, list[1], Token.len)
             /\ known' = list
             /\ got' = got + 1 /\ lastWasPtr' = TRUE /\ UNCHANGED phase
  /\ UNCHANGED writerVars

\* With verify the checksum must be that of the output.
EndOfReading ==
  /\ phase = "decode" /\ got = Len(written)
  /\ \E verify \in BOOLEAN : phase' = IF verify /\ produced # source THEN "error" ELSE "done"
  /\ UNCHANGED <<writerVars, readerVars>>

----------------------------------------------------------------------------

CompactStart(text) ==
  /\ source = text /\ place = 0 /\ recent = << >> /\ written = << >>
  /\ got = 0 /\ known = << >> /\ lastWasPtr = FALSE /\ produced = << >> /\ phase = "encode"
CompactInit == \E text \in Sources : CompactStart(text)

Finished == phase \in {"done", "error"} /\ UNCHANGED compactVars

CompactNext ==
  \/ WriteRepeat \/ WritePointer \/ WriteLiteral \/ EndOfWriting
  \/ ReadStored \/ ReadLiteral \/ ReadMatch \/ EndOfReading \/ Finished
CompactSpec == CompactInit /\ [][CompactNext]_compactVars

----------------------------------------------------------------------------

(***************************************************************************)
(* "Produces valid streams" (compress, ntdll/xpress9.py): what compress    *)
(* wrote, decompress reads back.                                           *)
(***************************************************************************)
CompactRoundTrip ==
  /\ phase # "error"
  /\ phase = "done" => produced = source

(***************************************************************************)
(* It does as long as the two sides' lists and lengths cannot differ: each *)
(* repeated offset named so far is the first of the list and follows a     *)
(* literal, and no length is escaped.                                      *)
(***************************************************************************)
Agreed(k) ==
  LET w == written[k]
  IN /\ Wire!Decoded(w).kind = "mtf" =>
          Wire!Decoded(w).sym = 0 /\ k > 1 /\ Wire!Decoded(written[k - 1]).kind = "lit"
     /\ ~Wire!HasEscape(w)

CompactFollows ==
  (\A k \in DOMAIN written : k <= got + 1 => Agreed(k)) =>
    /\ produced = SubSeq(source, 1, Len(produced))
    /\ CompactRoundTrip
============================================================================
