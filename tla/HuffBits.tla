------------------------------ MODULE HuffBits ------------------------------
(***************************************************************************)
(* One block of an XPRESS_HUFF stream (ntdll/xpress_huff.py) between the   *)
(* bit writer and the bit reader.  Huffman bits travel in words, extra     *)
(* length bytes lie raw between them, and neither carries a mark.  The     *)
(* writer reserves two words ahead of the bits it fills in; the reader     *)
(* fetches a word whenever its register runs short.  The block can be read *)
(* only if both advance the same cursor at the same operation.             *)
(*                                                                         *)
(* A cell is half a word (a byte in the code).  Positions are zero-based.  *)
(***************************************************************************)
EXTENDS Integers, Sequences

CONSTANTS
  CellBits,   \* bits of a cell: 8
  TableSize,  \* cells of the code-length table in front: TABLE_SIZE
  Items,      \* the operations a block may be made of
  MaxItems    \* bound on the length of a block

WordBits == 2 * CellBits

\* size bits of a value, or a value in size raw cells.
ItemType == [kind : {"bits", "raw"}, size : Nat, value : Nat]

\* Bit counts stay below the width of a word: code lengths and offset bits
\* are at most 15 (MAX_CODE_LENGTH, MAX_OFFSET).  Raw values take at most four
\* cells.
ASSUME HuffBitsAssumption ==
  /\ CellBits \in Nat \ {0} /\ TableSize \in Nat /\ MaxItems \in Nat
  /\ Items \subseteq ItemType
  /\ \A it \in Items :
       /\ it.kind = "bits" => it.size < WordBits /\ it.value < 2^it.size
       /\ it.kind = "raw" => it.size \in 1..4 /\ it.value < 2^(it.size * CellBits)

\* The powers of two the module computes with; the provers know none.
ASSUME PowersAssumption == 2^0 = 1 /\ \A k \in 0..(4 * CellBits - 1) : 2^(k + 1) = 2 * 2^k

VARIABLES
  script,            \* the operations written so far
  buf,               \* _BitWriter.buf: one entry per cell
  pos1, pos2, pos,   \* _BitWriter: the two deferred words, the raw cursor
  free, word,        \* _BitWriter: room in the pending word, its bits
  trail,             \* history: where the writer stood after each operation
  phase,             \* "write", then "read"
  register, extra,   \* _BitReader: two words of lookahead, spare bits
  rpos,              \* _BitReader.pos
  got,               \* the values read so far
  fault              \* the reader ran past the end: DecompressionError

writeVars == <<script, buf, pos1, pos2, pos, free, word, trail>>
readVars == <<register, extra, rpos, got, fault>>
vars == <<writeVars, phase, readVars>>

----------------------------------------------------------------------------
(* The writer *)

\* A value's cells, least significant first.
Cells(k, v) == [i \in 1..k |-> (v \div 2^((i - 1) * CellBits)) % 2^CellBits]

PutWord(b, p, w) == [b EXCEPT ![p + 1] = Cells(2, w)[1], ![p + 2] = Cells(2, w)[2]]

Place == [pos1 |-> pos1, pos2 |-> pos2, pos |-> pos, free |-> free]
Places == [pos1 : Nat, pos2 : Nat, pos : Nat, free : 0..WordBits]

Logged(item) ==
  /\ phase = "write" /\ Len(script) < MaxItems
  /\ script' = Append(script, item)
  /\ trail' = Append(trail, Place')
  /\ UNCHANGED <<phase, readVars>>

\* write_bits(0, _) returns at once.
WriteNothing(item) ==
  /\ item.kind = "bits" /\ item.size = 0
  /\ UNCHANGED <<buf, pos1, pos2, pos, free, word>>
  /\ Logged(item)

WriteFitting(item) ==
  /\ item.kind = "bits" /\ item.size > 0 /\ item.size <= free
  /\ free' = free - item.size
  /\ word' = word * 2^item.size + item.value
  /\ UNCHANGED <<buf, pos1, pos2, pos>>
  /\ Logged(item)

\* The word that overflows goes to its reserved place, the next reserved word
\* becomes the current one and a new one is reserved at the raw cursor.  The
\* pending word keeps all the item's bits; only the low ones will count.  In
\* the variant the words are placed in the wrong order.
WriteSplitSwapped(item) ==
  /\ item.kind = "bits" /\ item.size > free
  /\ LET full == word * 2^free + item.value \div 2^(item.size - free)
     IN buf' = PutWord(buf, pos2, full) \o <<0, 0>>
  /\ pos1' = pos2 /\ pos2' = pos /\ pos' = pos + 2
  /\ free' = free - item.size + WordBits
  /\ word' = item.value
  /\ Logged(item)

WriteSplit(item) ==
  /\ item.kind = "bits" /\ item.size > free
  /\ LET full == word * 2^free + item.value \div 2^(item.size - free)
     IN buf' = PutWord(buf, pos1, full) \o <<0, 0>>
  /\ pos1' = pos2 /\ pos2' = pos /\ pos' = pos + 2
  /\ free' = free - item.size + WordBits
  /\ word' = item.value
  /\ Logged(item)

\* write_byte, write_u16, write_u32; the variant leaves the cursor behind.
WriteRawUnmoved(item) ==
  /\ item.kind = "raw"
  /\ buf' = buf \o Cells(item.size, item.value)
  /\ UNCHANGED <<pos1, pos2, pos, free, word>>
  /\ Logged(item)

WriteRaw(item) ==
  /\ item.kind = "raw"
  /\ buf' = buf \o Cells(item.size, item.value)
  /\ pos' = pos + item.size
  /\ UNCHANGED <<pos1, pos2, free, word>>
  /\ Logged(item)

\* finish, then the reader's __init__ on the finished block.
WordAt(b, p) == b[p + 1] + b[p + 2] * 2^CellBits

Finish ==
  /\ phase = "write"
  /\ buf' = PutWord(PutWord(buf, pos1, word * 2^free), pos2, 0)
  /\ word' = word * 2^free
  /\ phase' = "read"
  /\ register' = WordAt(buf', TableSize) * 2^WordBits + WordAt(buf', TableSize + 2)
  /\ rpos' = TableSize + 4
  /\ extra' = WordBits
  /\ UNCHANGED <<script, pos1, pos2, pos, free, trail, got, fault>>

----------------------------------------------------------------------------
(* The reader *)

Reading == phase = "read" /\ ~fault /\ Len(got) < Len(script)

\* The next operation; the decoder knows its kind and width from the symbols.
Asked == script[Len(got) + 1]

Truncated ==
  /\ fault' = TRUE
  /\ UNCHANGED <<writeVars, phase, register, extra, rpos, got>>

Delivered(v) ==
  /\ got' = Append(got, v)
  /\ UNCHANGED <<writeVars, phase, fault>>

\* _BitReader.take: the register loses count bits and is refilled as soon as
\* fewer than a word's worth remain.  The variants refill one bit too early or
\* too late.
RefillsEarly(count) == extra - count <= 0
RefillsLate(count) == extra - count < -1
Refills(count) == extra - count < 0

TopBits(count) == register \div 2^(2 * WordBits - count)
Shifted(count) == (register * 2^count) % 2^(2 * WordBits)

TakeNothing ==
  /\ Reading /\ Asked.kind = "bits" /\ Asked.size = 0
  /\ UNCHANGED <<register, extra, rpos>>
  /\ Delivered(0)

TakeSpare ==
  /\ Reading /\ Asked.kind = "bits" /\ Asked.size > 0 /\ ~Refills(Asked.size)
  /\ register' = Shifted(Asked.size)
  /\ extra' = extra - Asked.size
  /\ UNCHANGED rpos
  /\ Delivered(TopBits(Asked.size))

TakeAndRefill ==
  /\ Reading /\ Asked.kind = "bits" /\ Asked.size > 0 /\ Refills(Asked.size)
  /\ IF rpos + 2 <= Len(buf)
     THEN /\ register' = Shifted(Asked.size) + WordAt(buf, rpos) * 2^(Asked.size - extra)
          /\ extra' = extra - Asked.size + WordBits
          /\ rpos' = rpos + 2
          /\ Delivered(TopBits(Asked.size))
     ELSE Truncated

\* The integer whose k cells (four at most) lie at p, least significant first.
CellValue(p, k, i) == IF i <= k THEN buf[p + i] * 2^((i - 1) * CellBits) ELSE 0
RawValue(p, k) ==
  CellValue(p, k, 1) + CellValue(p, k, 2) + CellValue(p, k, 3) + CellValue(p, k, 4)

\* read_byte, read_u16, read_u32.
ReadRaw ==
  /\ Reading /\ Asked.kind = "raw"
  /\ IF rpos + Asked.size <= Len(buf)
     THEN /\ rpos' = rpos + Asked.size
          /\ UNCHANGED <<register, extra>>
          /\ Delivered(RawValue(rpos, Asked.size))
     ELSE Truncated

----------------------------------------------------------------------------

Init ==
  /\ script = << >>
  /\ buf = [i \in 1..(TableSize + 4) |-> 0]
  /\ pos1 = TableSize /\ pos2 = TableSize + 2 /\ pos = TableSize + 4
  /\ free = WordBits /\ word = 0
  /\ trail = <<Place>>
  /\ phase = "write"
  /\ register = 0 /\ extra = 0 /\ rpos = 0
  /\ got = << >> /\ fault = FALSE

Write(item) == WriteNothing(item) \/ WriteFitting(item) \/ WriteSplit(item) \/ WriteRaw(item)

Read == TakeNothing \/ TakeSpare \/ TakeAndRefill \/ ReadRaw

\* The block has been read, or could not be.
Over == phase = "read" /\ ~Reading /\ UNCHANGED vars

Next == (\E item \in Items : Write(item)) \/ Finish \/ Read \/ Over

Spec == Init /\ [][Next]_vars

----------------------------------------------------------------------------

(***************************************************************************)
(* Type invariant.                                                         *)
(***************************************************************************)
TypeOK ==
  /\ script \in Seq(Items)
  /\ pos \in Nat /\ pos1 \in Nat /\ pos2 \in Nat
  /\ buf \in Seq(Int) /\ Len(buf) = pos
  /\ pos1 + 2 <= pos /\ pos2 + 2 <= pos
  /\ free \in 0..WordBits /\ word \in Int
  /\ trail \in Seq(Places)
  /\ phase \in {"write", "read"}
  /\ register \in Int /\ extra \in 0..WordBits /\ rpos \in Nat
  /\ got \in Seq(Int) /\ Len(got) <= Len(script)
  /\ fault \in BOOLEAN

(***************************************************************************)
(* Before each operation the reader's cursor stands where the writer's     *)
(* stood, with as many spare bits as the writer had room for: the two      *)
(* classes fetch and reserve words at the same operations.                 *)
(***************************************************************************)
CursorsAgree ==
  phase = "read" => /\ rpos = trail[Len(got) + 1].pos
                    /\ extra = trail[Len(got) + 1].free

(***************************************************************************)
(* The reader never runs past the end of a block _BitWriter made, although *)
(* it keeps two words of lookahead.                                        *)
(***************************************************************************)
NeverTruncated == ~fault

(***************************************************************************)
(* A reader that has read everything stands exactly at the end, where the  *)
(* next block's table begins (decompress continues at reader.pos).         *)
(***************************************************************************)
EndsAtNextBlock == phase = "read" /\ Len(got) = Len(script) => rpos = Len(buf)

(***************************************************************************)
(* Every value read is the value written: words come back from the places  *)
(* they were deferred to, and the high bits a split item leaves in the     *)
(* pending word never reach the buffer.                                    *)
(***************************************************************************)
ValuesSurvive == \A k \in 1..Len(got) : got[k] = script[k].value
============================================================================
