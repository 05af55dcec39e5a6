------------------------------ MODULE EseCells -----------------------------
(***************************************************************************)
(* A plaintext becomes a framed cell and the cell a plaintext again (ese/  *)
(* __init__.py with the codec modules it dispatches to): the refusals of   *)
(* compress, the header fields and checksums of each format, what may      *)
(* befall a cell in between, dispatch by the first byte, and each codec's  *)
(* checks around its decoder.  The 7-bit formats are in SevenBit.          *)
(*                                                                         *)
(* A checksum is modelled by what it is taken over: no two contents of the *)
(* model have the same one.                                                *)
(***************************************************************************)
EXTENDS Xpress9Session

CONSTANTS
  Plaintexts,
  Sessions,     \* plaintexts with XPRESS9 payloads of several blocks
  Factored(_),   \* token sequences a match finder may make of a plaintext
  HeaderSize,   \* what each codec's frame costs, in cells
  MaxUncompressed  \* of the 16-bit size field

Codecs    == {"XPRESS", "XPRESS9", "XPRESS10", "LZ4"}
Sized     == Codecs \ {"XPRESS9"}
Sentinels == {"NONE", "SCRUB", "MAXIMUM"}
Ids       == Codecs \union Sentinels \union {"UNKNOWN"}
ByFirstByte      == "AUTO"

\* How many cells of the plaintext the first cells of a payload stand for, and
\* how many blocks begin in them.
CountedTo(p, Weight(_)) ==
  LET sum[k \in 0..Len(p)] == IF k = 0 THEN 0 ELSE sum[k - 1] + Weight(p[k])
  IN sum
Reached(p) == CountedTo(p, LAMBDA c : IF c.kind = "token" THEN c.len ELSE 0)
Begun(p)   == CountedTo(p, LAMBDA c : IF c.kind = "header" THEN 1 ELSE 0)

\* The tokens of a payload are true of the plaintext d and cover it; upto says
\* where they stand.
Spells(d, p, upto) ==
  /\ upto \in [0..Len(p) -> 0..Len(d)]
  /\ upto[0] = 0 /\ upto[Len(p)] = Len(d)
  /\ \A k \in 1..Len(p) :
       IF p[k].kind # "token" THEN upto[k] = upto[k - 1]
       ELSE /\ p[k].len > 0 /\ upto[k] = upto[k - 1] + p[k].len
            /\ IF p[k].back = 0 THEN p[k].value = d[upto[k]]
               ELSE /\ p[k].back <= upto[k - 1]
                    /\ \A i \in 1..p[k].len : d[upto[k - 1] + i] = d[upto[k - 1] + i - p[k].back]

\* The header in cell h is that of the next block, and says what the block holds.
HeaderTrue(p, upto, nth, ends, h) ==
  LET last == h + p[h].cells
  IN /\ p[h].faults = {} /\ p[h].index = nth[h - 1]
     /\ p[h].signature = p[1].signature /\ p[h].params = p[1].params
     /\ p[h].cells > 0 /\ last <= Len(p)
     /\ \A k \in (h + 1)..last : p[k].kind = "token"
     /\ last < Len(p) => p[last + 1].kind = "header"
     /\ p[h].size = upto[last] - upto[h] /\ upto[last] \in ends

\* A payload consists of blocks; nth counts them.
InBlocks(p, upto, nth, ends) ==
  /\ nth \in [0..Len(p) -> Nat] /\ nth[0] = 0
  /\ \A k \in 1..Len(p) : nth[k] = nth[k - 1] + (IF p[k].kind = "header" THEN 1 ELSE 0)
  /\ p # << >> /\ p[1].kind = "header"
  /\ \A h \in 1..Len(p) : p[h].kind = "header" => HeaderTrue(p, upto, nth, ends, h)

\* What is factored is spelled out: Lz4Block and Xpress9Stream show it of the
\* matches their encoders find.  An encoder that made no mistake spells out its
\* plaintext in blocks; every encoder gives a session one signature.
ASSUME CellsAssumption ==
  /\ HeaderSize \in [Codecs -> Nat] /\ MaxUncompressed \in Nat
  /\ \A d \in Plaintexts :
       /\ d \in Seq(Nat)
       /\ \A p \in Factored(d) : p \in Seq(Tokens) /\ Spells(d, p, Reached(p))
  /\ \A s \in Sessions :
       /\ s.payload \in Payloads /\ s.data \in Seq(Nat) /\ s.sound \in BOOLEAN
       /\ s.sound => /\ Spells(s.data, s.payload, Reached(s.payload))
                     /\ InBlocks(s.payload, Reached(s.payload), Begun(s.payload), s.ends)
       /\ \A k \in 1..Len(s.payload) :
            s.payload[k].kind = "header" => s.payload[k].signature = s.payload[1].signature

VARIABLES
  data,     \* the plaintext
  fmt,      \* compress: the format asked for
  id,       \* cell: the format id in its first byte
  field,    \* cell: size and checksums, those that the format has
  damage,   \* what befell the cell, "none" so far
  sound,    \* the cell's encoder made no mistake
  ends,     \* history: where blocks of the session end in the plaintext
  want,     \* decompress: the format asked for, or ByFirstByte
  verify    \* decompress: check sizes and checksums

cellVars == <<data, fmt, id, field, damage, sound, ends, want, verify>>
vars     == <<sessionVars, cellVars>>

Go(s) == step' = s /\ UNCHANGED <<payload, readingVars, cellVars>>

----------------------------------------------------------------------------
(* compress *)

\* One block for XPRESS9, the tokens alone otherwise.
Framed(text, tokens) ==
  IF fmt = "XPRESS9" THEN <<Header(Len(text), Len(tokens), 1, 0, 0, {})>> \o tokens ELSE tokens

Shrinks(p) == HeaderSize[fmt] + Len(p) < Len(data)

Compress ==
  /\ step = "compress" /\ fmt \in Codecs
  /\ IF data = << >> \/ (fmt \in Sized /\ Len(data) > MaxUncompressed) THEN Go("refused")
     ELSE \E tokens \in Factored(data) :
            IF ~Shrinks(Framed(data, tokens)) THEN Go("refused")
            ELSE /\ payload' = Framed(data, tokens)
                 /\ id' = fmt
                 /\ field' = [size |-> Len(data), plain |-> data, packed |-> payload']
                 /\ step' = "stored"
                 /\ UNCHANGED <<readingVars, data, fmt, damage, sound, ends, want, verify>>

CompressSentinel == step = "compress" /\ fmt \in Sentinels /\ Go("refused")

----------------------------------------------------------------------------
(* What may befall a cell, once *)

Befalls(kind) ==
  /\ step = "stored" /\ damage = "none"
  /\ damage' = kind
  /\ UNCHANGED <<readingVars, step, data, fmt, sound, ends, want, verify>>

Cut ==
  /\ Befalls("cut") /\ UNCHANGED <<id, field>>
  /\ \E n \in 0..(Len(payload) - 1) : payload' = SubSeq(payload, 1, n)

\* A literal becomes another, or the size another.
AlterToken ==
  /\ Befalls("token") /\ UNCHANGED <<id, field>>
  /\ \E k \in DOMAIN payload :
       /\ payload[k].kind = "token" /\ payload[k].back = 0
       /\ payload' = [payload EXCEPT ![k].value = @ + 1]

AlterSize ==
  /\ Befalls("size") /\ UNCHANGED <<id, payload>> /\ id \in Sized
  /\ \E n \in {field.size - 1, field.size + 1} : field' = [field EXCEPT !.size = n]

AlterHeader ==
  /\ Befalls("header") /\ UNCHANGED <<id, field>>
  /\ \E k \in DOMAIN payload, f \in Faults :
       /\ payload[k].kind = "header"
       /\ payload' = [payload EXCEPT ![k].faults = {f}]

\* The blocks from the header at h on.
Heads == {k \in DOMAIN payload : payload[k].kind = "header"}
From(h) == SubSeq(payload, h, Len(payload))

\* Blocks of a session are lost, change places, or come twice.
Rearrange ==
  /\ Befalls("blocks") /\ UNCHANGED <<id, field>>
  /\ \E g, h \in Heads :
       \/ g < h /\ payload' = SubSeq(payload, 1, g - 1) \o From(h)
       \/ g < h /\ payload' = From(h) \o SubSeq(payload, 1, h - 1)
       \/ payload' = payload \o From(h)

\* Blocks of one session, then of another.
Splice ==
  /\ Befalls("splice") /\ UNCHANGED <<id, field>>
  /\ \E s \in Sessions, h \in Heads :
       /\ h > 1 /\ s.payload[1].signature # payload[1].signature
       /\ \E k \in DOMAIN s.payload :
            /\ s.payload[k].kind = "header"
            /\ payload' = SubSeq(payload, 1, h - 1) \o SubSeq(s.payload, k, Len(s.payload))

\* make_scrub over the whole cell; another first byte.
Erase == Befalls("erased") /\ id' = "SCRUB" /\ payload' = << >> /\ UNCHANGED field

AlterId ==
  /\ Befalls("id") /\ UNCHANGED <<payload, field>>
  /\ id' \in Ids \ Codecs

Damage ==
  Cut \/ AlterToken \/ AlterSize \/ AlterHeader \/ Rearrange \/ Splice \/ Erase \/ AlterId

----------------------------------------------------------------------------
(* decompress *)

Asked == IF want = ByFirstByte THEN id ELSE want

\* The codec looks at the first byte again.
IsCodecs == Asked \in Codecs /\ id = Asked

\* _format_of and the sentinels
Dispatch ==
  /\ step = "stored"
  /\ Go(CASE Asked = "SCRUB" -> "scrub"
          [] Asked # "SCRUB" /\ ~IsCodecs -> "error"
          [] IsCodecs /\ Asked = "XPRESS10" -> "packed"
          [] IsCodecs /\ Asked = "XPRESS9" -> "walk"
          [] IsCodecs /\ Asked \in {"XPRESS", "LZ4"} -> "plain")

\* XPRESS10 checks its payload before decoding it.
CheckPacked ==
  /\ step = "packed"
  /\ Go(IF verify /\ field.packed # payload THEN "error" ELSE "plain")

\* The LZ4 block decoder goes on to the size of the header and takes no more
\* of a token than that, in the variant all of it; plain LZ77 goes on to the
\* end of its input and refuses to pass the size.
Room == field.size - Len(out)
TakenWhole(t) == t.len
Taken(t) == IF t.len > Room THEN Room ELSE t.len

PlainToken ==
  /\ step = "plain" /\ at < Len(payload) /\ (id # "XPRESS" => Room > 0)
  /\ LET t == payload[at + 1]
     IN IF t.back > Len(out) \/ (id = "XPRESS" /\ t.len > Room) THEN Go("error")
        ELSE /\ out' = SubSeq(Expanded(t), 1, Len(out) + Taken(t))
             /\ at' = at + 1
             /\ UNCHANGED <<payload, spans, offset, total, block, target, step, cellVars>>

PlainEnd ==
  /\ step = "plain"
  /\ at = Len(payload) \/ (id # "XPRESS" /\ Room = 0)
  /\ Go(IF id # "XPRESS" /\ Room > 0 THEN "error" ELSE "whole")

\* What verify adds, after decoding.  The variant leaves out the checksum.
WithoutChecksum == id = "XPRESS" => Len(out) = field.size
Verified ==
  /\ id = "XPRESS" => Len(out) = field.size
  /\ id \in {"XPRESS9", "XPRESS10"} => out = field.plain

CheckPlain ==
  /\ step \in {"decoded", "whole"}
  /\ Go(IF verify /\ ~Verified THEN "error" ELSE "done")

----------------------------------------------------------------------------

NoField == [size |-> 0, plain |-> << >>, packed |-> << >>]

\* A plaintext to compress, or an XPRESS9 cell with blocks made elsewhere.
Init ==
  /\ ReadingInit
  /\ verify \in BOOLEAN /\ want \in Ids \union {ByFirstByte} /\ want # "UNKNOWN"
  /\ damage = "none"
  /\ \/ /\ data \in Plaintexts /\ fmt \in Codecs \union Sentinels
        /\ payload = << >> /\ id = "NONE" /\ field = NoField
        /\ sound = TRUE /\ ends = {Len(data)} /\ step = "compress"
     \/ \E s \in Sessions :
          /\ data = s.data /\ fmt = "XPRESS9" /\ payload = s.payload /\ id = "XPRESS9"
          /\ field = [NoField EXCEPT !.plain = s.data]
          /\ sound = s.sound /\ ends = s.ends /\ step = "stored"

CompressCell == Compress \/ CompressSentinel
DecompressCell ==
  \/ Dispatch \/ CheckPacked \/ PlainToken \/ PlainEnd \/ CheckPlain
  \/ SessionNext /\ UNCHANGED cellVars

Returned == step \in {"done", "error", "scrub", "refused"} /\ UNCHANGED vars

Next == CompressCell \/ Damage \/ DecompressCell \/ Returned
Spec == Init /\ [][Next]_vars
----------------------------------------------------------------------------

(***************************************************************************)
(* An undamaged cell, read as what it is, gives back its plaintext, with   *)
(* or without verify, unless it declares more than _MAX_DECODED_SIZE.      *)
(***************************************************************************)
CellsComeBack ==
  sound /\ damage = "none" /\ id \in Codecs =>
    /\ step = "done" => out = data
    /\ step = "error" => Asked # id \/ (id = "XPRESS9" /\ Len(data) > MaxDecoded)

(***************************************************************************)
(* What decompress makes of a damaged cell.  With verify a checksum leaves *)
(* only the plaintext; XPRESS then still notices a wrong length.  Without  *)
(* it, XPRESS9 blocks that were lost, moved or repeated leave at worst a   *)
(* plaintext that ends between blocks; LZ4 notices that its end is gone.   *)
(* A record header or first byte that is wrong is always noticed.          *)
(***************************************************************************)
Prefix(n) == out = SubSeq(data, 1, n)
DamageNoticed ==
  sound /\ damage # "none" /\ step = "done" =>
    /\ damage \notin {"id", "erased", "header"}
    /\ verify /\ id \in {"XPRESS9", "XPRESS10"} => out = data
    /\ verify /\ id = "XPRESS" => damage = "token" /\ Len(out) = Len(data)
    /\ id = "XPRESS9" /\ damage # "token" => \E n \in ends : Prefix(n)
    /\ id # "XPRESS9" /\ damage = "cut" => id = "XPRESS" /\ Prefix(Len(out))

(***************************************************************************)
(* decompressed_size, which decodes nothing, bounds what decompress        *)
(* produces at any time, whatever the tokens say, and is the length of     *)
(* what it returns.  XPRESS needs verify for the latter.                   *)
(***************************************************************************)
DecompressedSize == IF id = "XPRESS9" THEN total ELSE field.size
SizesAgree ==
  /\ Len(out) <= DecompressedSize
  /\ step = "done" /\ (id = "XPRESS" => verify) => Len(out) = DecompressedSize
============================================================================
