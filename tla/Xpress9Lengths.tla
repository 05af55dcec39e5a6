--------------------------- MODULE Xpress9Lengths --------------------------
(***************************************************************************)
(* How the code lengths of an XPRESS9 Huffman alphabet travel (ese/        *)
(* xpress9.py): the writer (_encode_huffman_table, _write_length_sequence) *)
(* turns them into opcodes relative to the length before, to the length    *)
(* one row above, and to the rest of the row; the reader                   *)
(* (_decode_coded_lengths) undoes that with a position and a previous      *)
(* length of its own.  Opcodes carry no position.                          *)
(*                                                                         *)
(* The writer's two passes, one to count opcodes and one to write them,    *)
(* apply the same rules and are one here.                                  *)
(***************************************************************************)
EXTENDS Integers, Sequences

CONSTANTS
  Vectors,    \* the tables of lengths to write
  Foreign,    \* opcode streams of other encoders
  Size,       \* alphabet_size
  Row,        \* fill_boundary, _TABLE_FILL_BOUNDARY
  MaxLen,     \* _MAX_CODEWORD_LENGTH
  ZeroMin,    \* _TABLE_ZERO_REPT_MIN_COUNT
  Extend,     \* _ZERO_REPT_EXTEND: the count that announces extensions
  Continue,   \* _ZERO_REPT_CONTINUE: the extension that announces another
  FirstPrev   \* _MAIN_TABLE_INITIAL_PREV

Symbols == 0..(Size - 1)

\* Opcodes: the lengths 0..MaxLen themselves, and
FillOp == MaxLen + 1   \* zeros to the end of the row
ZeroOp == MaxLen + 2   \* a run of zeros; its first count is part of the element
PrevOp == MaxLen + 3   \* the length before
Row0Op == MaxLen + 4   \* the length one row above
Row1Op == MaxLen + 5   \* the same plus one
MoreOp == MaxLen + 6   \* no opcode: an extension of the run before it

Element(s, n) == [op |-> s, n |-> n]
Elements == [op : 0..MoreOp, n : Nat]

ASSUME LengthsAssumption ==
  /\ Size \in Nat \ {0} /\ Row \in Nat \ {0} /\ MaxLen \in Nat
  /\ ZeroMin \in Nat \ {0} /\ Extend \in Nat /\ Continue \in Nat \ {0}
  /\ FirstPrev \in 1..MaxLen
  /\ Vectors \subseteq [Symbols -> 0..MaxLen]
  /\ Foreign \subseteq Seq(Elements)

VARIABLES
  lengths,   \* writer: the table
  own,       \* the stream is the writer's, not a foreign one
  wpos,      \* writer: k_pos, or i outside of a run of zeros
  wend,      \* writer: i, the end of the run of zeros around wpos
  wprev,     \* writer: prev_sym
  left,      \* writer: what a run of zeros still has to say, or -1
  stream,    \* the elements written
  expected,  \* history: where the reader should be before each element
  consumed,  \* reader: elements read
  rpos,      \* reader: position
  rprev,     \* reader: prev
  run,       \* reader: the run of zeros being read, or -1
  read,      \* reader: lengths
  phase      \* "write", "read", then "done", "error" or "garbled"

writerVars == <<lengths, own, wpos, wend, wprev, left, stream, expected>>
readerVars == <<consumed, rpos, rprev, run, read>>
tableVars  == <<writerVars, readerVars, phase>>

\* (a ^ b) >= fill_boundary, for a <= b and a boundary that is a power of two.
NextRow(a)    == a - (a % Row) + Row
Crosses(a, b) == b >= NextRow(a)

----------------------------------------------------------------------------
(* The writer *)

Writing == phase = "write" /\ left = -1
KeepRest == UNCHANGED <<lengths, own, readerVars, phase>>

\* The reader should go on at p with previous length q, having read r of a run.
Put(element, p, q, r) ==
  /\ stream' = Append(stream, element)
  /\ expected' = Append(expected, [pos |-> p, prev |-> q, run |-> r])
  /\ wpos' = p /\ wprev' = q

\* The shortest opcode for a length that is not zero.
Above(k, d) == wpos >= Row /\ k = lengths[wpos - Row] + d

LengthOp(k) ==
  CASE k = wprev -> PrevOp
    [] k # wprev /\ Above(k, 0) -> Row0Op
    [] k # wprev /\ Above(k, 1) -> Row1Op
    [] OTHER -> k

WriteLength ==
  /\ Writing /\ KeepRest /\ wpos = wend /\ wpos < Size /\ lengths[wpos] # 0
  /\ Put(Element(LengthOp(lengths[wpos]), 0), wpos + 1, lengths[wpos], -1)
  /\ wend' = wpos + 1
  /\ UNCHANGED left

\* The run of zeros at wpos ends before e.
ScanZeros ==
  /\ Writing /\ KeepRest /\ wpos = wend /\ wpos < Size
  /\ \E e \in (wpos + 1)..Size :
       /\ \A j \in wpos..(e - 1) : lengths[j] = 0
       /\ e < Size => lengths[e] # 0
       /\ wend' = e
  /\ UNCHANGED <<wpos, wprev, left, stream, expected>>

WriteFill ==
  /\ Writing /\ KeepRest /\ wpos < wend /\ Crosses(wpos, wend)
  /\ Put(Element(FillOp, 0), NextRow(wpos), wprev, -1)
  /\ UNCHANGED <<wend, left>>

\* A rest too short for a run is written zero by zero.
WriteZero ==
  /\ Writing /\ KeepRest /\ wpos < wend /\ ~Crosses(wpos, wend) /\ wend - wpos < ZeroMin
  /\ Put(Element(0, 0), wpos + 1, wprev, -1)
  /\ UNCHANGED <<wend, left>>

WriteRun ==
  /\ Writing /\ KeepRest /\ wpos < wend /\ ~Crosses(wpos, wend) /\ wend - wpos >= ZeroMin
  /\ LET excess == wend - wpos - ZeroMin
     IN IF excess < Extend
        THEN /\ Put(Element(ZeroOp, excess), wend, wprev, -1)
             /\ UNCHANGED left
        ELSE /\ Put(Element(ZeroOp, Extend), wpos, wprev, ZeroMin + Extend)
             /\ left' = excess - Extend
  /\ UNCHANGED wend

\* An extension that is full is followed by another, be it zero.  The variant
\* leaves out the zero.
LastZeroDropped(n) == n < Continue \/ n = Continue
Last(n) == n < Continue

WriteMore ==
  /\ phase = "write" /\ left >= 0
  /\ IF Last(left)
     THEN /\ Put(Element(MoreOp, left), wend, wprev, -1)
          /\ left' = -1
     ELSE /\ Put(Element(MoreOp, Continue), wpos, wprev, expected[Len(expected)].run + Continue)
          /\ left' = left - Continue
  /\ KeepRest /\ UNCHANGED wend

StartReading ==
  /\ Writing /\ wpos = Size
  /\ phase' = "read"
  /\ UNCHANGED <<writerVars, readerVars>>

----------------------------------------------------------------------------
(* The reader *)

\* The element the reader comes to, a value that no element has at the end.
Due == IF consumed < Len(stream) THEN stream[consumed + 1] ELSE Element(-1, 0)

\* The reader's turn with one of the opcodes.
Reading(ops) ==
  /\ phase = "read" /\ run = -1 /\ rpos < Size
  /\ Due.op \in ops
  /\ UNCHANGED writerVars

Keep(len, prev) ==
  /\ read' = [read EXCEPT ![rpos] = len]
  /\ rprev' = prev /\ rpos' = rpos + 1 /\ consumed' = consumed + 1
  /\ UNCHANGED <<run, phase>>

Fail(verdict) ==
  /\ phase' = verdict
  /\ UNCHANGED readerVars

ReadLength ==
  /\ Reading(0..MaxLen)
  /\ Keep(Due.op, IF Due.op = 0 THEN rprev ELSE Due.op)

ReadPrev == Reading({PrevOp}) /\ Keep(rprev, rprev)

\* What the row above may give; the variant leaves out the longest length.
NotZero(len) == len # 0
ValidLength(len) == len # 0 /\ len <= MaxLen

ReadRow ==
  /\ Reading({Row0Op, Row1Op})
  /\ LET above == read[IF rpos >= Row THEN rpos - Row ELSE 0] + (Due.op - Row0Op)
     IN IF rpos >= Row /\ ValidLength(above) THEN Keep(above, above) ELSE Fail("error")

\* _apply_fill stops at the end of the alphabet too.
FillEnd(p) == IF NextRow(p) < Size THEN NextRow(p) ELSE Size

ReadFill ==
  /\ Reading({FillOp})
  /\ rpos' = FillEnd(rpos) /\ consumed' = consumed + 1
  /\ UNCHANGED <<rprev, run, read, phase>>

\* _decode_zero_run, one count at a time.  The check after the loop repeats the
\* one inside it.
TakeRun(n, more) ==
  IF rpos + n > Size \/ Crosses(rpos, rpos + n) THEN Fail("error")
  ELSE /\ rpos' = IF more THEN rpos ELSE rpos + n
       /\ run' = IF more THEN n ELSE -1
       /\ consumed' = consumed + 1
       /\ UNCHANGED <<rprev, read, phase>>

ReadRun ==
  /\ Reading({ZeroOp})
  /\ TakeRun(Due.n + ZeroMin, Due.n = Extend)

ReadMore ==
  /\ phase = "read" /\ run # -1 /\ Due.op = MoreOp
  /\ TakeRun(run + Due.n, Due.n = Continue)
  /\ UNCHANGED writerVars

\* An extension where an opcode is due, an opcode where an extension is due, or
\* nothing at all.
Misread ==
  /\ phase = "read"
  /\ \/ run = -1 /\ rpos < Size /\ Due.op \notin 0..Row1Op
     \/ run # -1 /\ Due.op # MoreOp
  /\ Fail("garbled")
  /\ UNCHANGED writerVars

FinishReading ==
  /\ phase = "read" /\ run = -1 /\ rpos >= Size
  /\ phase' = "done"
  /\ UNCHANGED <<writerVars, readerVars>>

----------------------------------------------------------------------------

\* A foreign stream is only read; what its writer knew does not matter.
TableInit ==
  /\ \/ own = TRUE /\ lengths \in Vectors /\ stream = << >> /\ phase = "write"
     \/ own = FALSE /\ lengths = [s \in Symbols |-> 0] /\ stream \in Foreign /\ phase = "read"
  /\ wpos = 0 /\ wend = 0 /\ wprev = FirstPrev /\ left = -1
  /\ expected = <<[pos |-> 0, prev |-> FirstPrev, run |-> -1]>>
  /\ consumed = 0 /\ rpos = 0 /\ rprev = FirstPrev /\ run = -1
  /\ read = [s \in Symbols |-> 0]

WriteTable ==
  \/ WriteLength \/ ScanZeros \/ WriteFill \/ WriteZero \/ WriteRun \/ WriteMore \/ StartReading
ReadTable ==
  \/ ReadLength \/ ReadPrev \/ ReadRow \/ ReadFill \/ ReadRun \/ ReadMore
  \/ Misread \/ FinishReading

TableNext == WriteTable \/ ReadTable
TableSpec == TableInit /\ [][TableNext]_tableVars

----------------------------------------------------------------------------

(***************************************************************************)
(* Types.  Whatever stream the reader is given, its position stays within  *)
(* the alphabet and every length it stores is one a code may have.         *)
(***************************************************************************)
TableTypeOK ==
  /\ lengths \in [Symbols -> 0..MaxLen] /\ own \in BOOLEAN
  /\ wpos \in 0..Size /\ wend \in wpos..Size
  /\ wprev \in 1..MaxLen /\ left \in {-1} \union 0..Size
  /\ stream \in Seq(Elements)
  /\ expected \in Seq([pos : 0..Size, prev : 1..MaxLen, run : {-1} \union 0..Size])
  /\ consumed \in 0..Len(stream)
  /\ rpos \in 0..Size /\ rprev \in 1..MaxLen /\ run \in {-1} \union 0..Size
  /\ read \in [Symbols -> 0..MaxLen]
  /\ phase \in {"write", "read", "done", "error", "garbled"}

(***************************************************************************)
(* The table _decode_coded_lengths returns is the one                      *)
(* _write_length_sequence was given, and it is complete exactly at the     *)
(* last element: the next table begins where the reader stopped.           *)
(***************************************************************************)
TableComesBack ==
  own => /\ phase \notin {"error", "garbled"}
         /\ phase = "done" => read = lengths /\ consumed = Len(stream)
============================================================================
