------------------------------ MODULE PlainLz77 ----------------------------
(***************************************************************************)
(* The Plain LZ77 codec (ntdll/xpress.py), compress and then decompress,   *)
(* and the check that the framed cell of ese/xpress.py adds to it.         *)
(*                                                                         *)
(* The stream is a sequence of cells, one per field the code writes: flag  *)
(* words, literals, match tokens and the steps of the length ladder.  Two  *)
(* cells are written before their value is known: the flag word, reserved  *)
(* ahead of its 32 elements, and the byte two long matches share.          *)
(***************************************************************************)
EXTENDS LzText, SequencesExt

CONSTANTS
  Plaintexts,   \* the inputs
  MinMatch,     \* MIN_MATCH
  MaxOffset,    \* MAX_OFFSET
  FlagBits,     \* _FLAG_BITS
  TokenLimit,   \* _TOKEN_LENGTH_LIMIT
  NibbleLimit,  \* _NIBBLE_LIMIT
  ByteLimit,    \* _BYTE_LIMIT
  WordLimit,    \* _WORD_LIMIT
  MaxChain      \* _MAX_CHAIN

ASSUME PlainLz77Assumption ==
  /\ \A d \in Plaintexts : d \in Seq(Nat)
  /\ MinMatch \in Nat \ {0} /\ MaxOffset \in Nat \ {0} /\ FlagBits \in Nat \ {0}
  /\ TokenLimit \in Nat \ {0} /\ NibbleLimit \in Nat \ {0} /\ ByteLimit \in Nat \ {0}
  /\ WordLimit \in Nat /\ WordLimit > TokenLimit + NibbleLimit + ByteLimit
  /\ MaxChain \in Nat \ {0}

VARIABLES
  data,
  pos,                        \* compress
  cells,                      \* _Encoder.out
  flags, flagPos, nibblePos,  \* _Encoder; nibblePos is 0 for the code's -1
  marks,                      \* history: where each element of the stream began,
                              \* and which it is
  whole,                      \* history: nothing of the stream was lost
  limit,                      \* decompress: max_size
  verify,                     \* ese/xpress.py: the declared size must be met
  at, window, halfPos,        \* decompress: pos, the unread flags, nibble_pos
  offset, length,             \* _copy_match
  elements,                   \* history: elements decoded
  out, pc, status

encoderVars == <<pos, flags, flagPos, nibblePos, marks>>
decoderVars == <<at, window, halfPos, offset, length, elements, out, status>>
inputs == <<data, limit, verify>>
vars == <<inputs, encoderVars, cells, whole, decoderVars, pc>>

n == Len(data)

Cell(k, v) == [kind |-> k, value |-> v]
Reserved == Cell("flags", [i \in 1..FlagBits |-> 0])

Lesser(a, b) == IF a < b THEN a ELSE b

----------------------------------------------------------------------------
(* compress *)

\* _find_match; the variant looks one byte too far back.
FindMatchTooFar ==
  LET near == {q \in SamePrefix(data, pos, MinMatch) : pos - q <= MaxOffset + 1}
  IN Longest(data, pos, Newest(near, MaxChain), n - pos)
FindMatch ==
  LET near == {q \in SamePrefix(data, pos, MinMatch) : pos - q <= MaxOffset}
  IN Longest(data, pos, Newest(near, MaxChain), n - pos)

\* _push_flag, after the element's own cells: the last flag of a word puts it
\* in its place and reserves the next one, here and not when it is needed.
PushFlag(written, bit) ==
  IF Len(flags) + 1 = FlagBits
  THEN /\ cells' = Append([written EXCEPT ![flagPos].value = Append(flags, bit)], Reserved)
       /\ flags' = << >>
       /\ flagPos' = Len(written) + 1
  ELSE cells' = written /\ flags' = Append(flags, bit) /\ UNCHANGED flagPos

\* The cell, the half-used length byte, the byte of data and the flag the
\* element begins with; NoMatch for a literal.
Mark(m) ==
  marks' = Append(marks, [at |-> Len(cells) + 1, halfPos |-> nibblePos, from |-> pos,
                          word |-> flagPos, bit |-> Len(flags) + 1, match |-> m])

EmitLiteral ==
  /\ pc = "compress" /\ pos < n /\ FindMatch = NoMatch
  /\ PushFlag(Append(cells, Cell("literal", data[pos + 1])), 0)
  /\ pos' = pos + 1
  /\ Mark(NoMatch)
  /\ UNCHANGED <<inputs, nibblePos, whole, decoderVars, pc>>

\* The byte, word and dword steps of the ladder for a length of
\* extra + TokenLimit + MinMatch.
ExtraSteps(extra) ==
  LET v == extra + TokenLimit
  IN CASE extra < NibbleLimit -> << >>
       [] extra >= NibbleLimit /\ extra - NibbleLimit < ByteLimit -> <<Cell("byte", extra - NibbleLimit)>>
       [] extra - NibbleLimit >= ByteLimit /\ v < WordLimit -> <<Cell("byte", ByteLimit), Cell("word", v)>>
       [] v >= WordLimit -> <<Cell("byte", ByteLimit), Cell("word", 0), Cell("dword", v)>>

\* Every second long match takes the free half of the last one's byte; the
\* variant leaves that byte open.
NextNibblePosOpen(written) == IF nibblePos = 0 THEN Len(written) + 1 ELSE nibblePos
NextNibblePos(written) == IF nibblePos = 0 THEN Len(written) + 1 ELSE 0

WithNibble(written, nibble) ==
  IF nibblePos = 0 THEN Append(written, Cell("nibble", nibble))
  ELSE [written EXCEPT ![nibblePos].value = @ + (NibbleLimit + 1) * nibble]

EmitMatch ==
  /\ pc = "compress" /\ pos < n
  /\ \E m \in {FindMatch} \ {NoMatch} :
       LET extra  == m.len - MinMatch
           beyond == extra - TokenLimit
           begun  == Append(cells, Cell("token", (m.dist - 1) * (TokenLimit + 1) + Lesser(extra, TokenLimit)))
       IN /\ pos' = pos + m.len
          /\ IF extra < TokenLimit
             THEN PushFlag(begun, 1) /\ UNCHANGED nibblePos
             ELSE /\ PushFlag(WithNibble(begun, Lesser(beyond, NibbleLimit)) \o ExtraSteps(beyond), 1)
                  /\ nibblePos' = NextNibblePos(begun)
          /\ Mark(m)
  /\ UNCHANGED <<inputs, whole, decoderVars, pc>>

\* finish: the last flag word is filled up with ones.
Finish ==
  /\ pc = "compress" /\ pos = n
  /\ cells' = [cells EXCEPT ![flagPos].value = [i \in 1..FlagBits |-> IF i <= Len(flags) THEN flags[i] ELSE 1]]
  /\ pc' = "store"
  /\ UNCHANGED <<inputs, encoderVars, whole, decoderVars>>

\* What was stored comes back, or less of it: the end is lost from some byte
\* on, between two cells or within a wide one.
Wide == {"flags", "token", "word", "dword"}
Truncations ==
  {SubSeq(cells, 1, k) : k \in 0..(Len(cells) - 1)}
    \union {Append(SubSeq(cells, 1, k), Cell("partial", 0)) :
              k \in {j \in 0..(Len(cells) - 1) : cells[j + 1].kind \in Wide}}

Store ==
  /\ pc = "store"
  /\ cells' \in {cells} \union Truncations
  /\ whole' = (cells' = cells)
  /\ pc' = "flag"
  /\ UNCHANGED <<inputs, encoderVars, decoderVars>>

----------------------------------------------------------------------------
(* decompress *)

stored == <<inputs, encoderVars, cells, whole>>

Running == status = "working"

End(verdict) ==
  /\ status' = verdict
  /\ UNCHANGED <<stored, at, window, halfPos, offset, length, elements, out, pc>>

\* A read past the end raises.  A cell of another kind than the code asks for
\* would be taken for something else.
Missing == at > Len(cells) \/ cells[at].kind = "partial"
Expect(kind, Read) ==
  IF Missing THEN End("corrupt")
  ELSE IF cells[at].kind = kind THEN Read
  ELSE End("garbled")

Value == cells[at].value

LoadFlags ==
  /\ Running /\ pc = "flag" /\ window = << >>
  /\ Expect("flags", /\ window' = Value /\ at' = at + 1
                     /\ UNCHANGED <<stored, halfPos, offset, length, elements, out, pc, status>>)

Produce(text) ==
  /\ out' = text /\ elements' = elements + 1 /\ window' = SubSeq(window, 2, Len(window))
  /\ pc' = "flag"
  /\ UNCHANGED <<stored, halfPos, offset, length, status>>

ReadLiteral ==
  /\ Running /\ pc = "flag" /\ window # << >> /\ window[1] = 0
  /\ Expect("literal", IF Len(out) >= limit THEN End("refused")
                       ELSE Produce(Append(out, Value)) /\ at' = at + 1)

\* A match flag at the end of the stream ends it.  A framed cell must then have
\* its declared length; the variant does not ask.
VerdictUnverified == "done"
Verdict == IF verify /\ Len(out) # limit THEN "corrupt" ELSE "done"

ReadEnd ==
  /\ Running /\ pc = "flag" /\ window # << >> /\ window[1] = 1 /\ at > Len(cells)
  /\ End(Verdict)

\* A length so far, to be added to or copied.
Take(off, len, next) ==
  /\ offset' = off /\ length' = len /\ pc' = next
  /\ at' = at + 1
  /\ UNCHANGED <<stored, window, elements, out, status>>

ReadToken ==
  /\ Running /\ pc = "flag" /\ window # << >> /\ window[1] = 1 /\ at <= Len(cells)
  /\ LET low == Value % (TokenLimit + 1)
     IN Expect("token", /\ Take(Value \div (TokenLimit + 1) + 1, low + MinMatch,
                                IF low = TokenLimit THEN "nibble" ELSE "copy")
                        /\ UNCHANGED halfPos)

\* _long_length: a new byte, or the upper half of the last one.
ReadNewNibble ==
  /\ Running /\ pc = "nibble" /\ halfPos = 0
  /\ LET low == Value % (NibbleLimit + 1)
     IN Expect("nibble", /\ Take(offset, length + low, IF low = NibbleLimit THEN "byte" ELSE "copy")
                         /\ halfPos' = at)

ReadOldNibble ==
  /\ Running /\ pc = "nibble" /\ halfPos # 0
  /\ LET high == cells[halfPos].value \div (NibbleLimit + 1)
     IN /\ length' = length + high
        /\ pc' = IF high = NibbleLimit THEN "byte" ELSE "copy"
  /\ halfPos' = 0
  /\ UNCHANGED <<stored, at, window, offset, elements, out, status>>

\* _extra_length
ReadByte ==
  /\ Running /\ pc = "byte"
  /\ Expect("byte", /\ UNCHANGED halfPos
                    /\ IF Value = ByteLimit THEN Take(offset, 0, "word") ELSE Take(offset, length + Value, "copy"))

Floor == NibbleLimit + TokenLimit

ReadWord ==
  /\ Running /\ pc = "word"
  /\ Expect("word", IF Value = 0 THEN Take(offset, 0, "dword") /\ UNCHANGED halfPos
                    ELSE IF Value < Floor THEN End("corrupt")
                    ELSE Take(offset, Value + MinMatch, "copy") /\ UNCHANGED halfPos)

ReadDword ==
  /\ Running /\ pc = "dword"
  /\ Expect("dword", IF Value < Floor THEN End("corrupt")
                     ELSE Take(offset, Value + MinMatch, "copy") /\ UNCHANGED halfPos)

Copy ==
  /\ Running /\ pc = "copy"
  /\ IF offset > Len(out) THEN End("corrupt")
     ELSE IF Len(out) + length > limit THEN End("refused")
     ELSE Produce(CopyMatch(out, offset, length)) /\ UNCHANGED at

----------------------------------------------------------------------------

\* A framed cell passes its declared length as max_size.
Init ==
  /\ data \in Plaintexts
  /\ pos = 0 /\ cells = <<Reserved>>
  /\ flags = << >> /\ flagPos = 1 /\ nibblePos = 0
  /\ marks = << >> /\ whole = TRUE
  /\ limit \in {Len(data) - 1, Len(data), Len(data) + 1} \ {-1}
  /\ verify \in IF limit = Len(data) THEN BOOLEAN ELSE {FALSE}
  /\ at = 1 /\ window = << >> /\ halfPos = 0 /\ offset = 0 /\ length = 0 /\ elements = 0
  /\ out = << >> /\ pc = "compress" /\ status = "working"

Compress == EmitLiteral \/ EmitMatch \/ Finish \/ Store

Decompress ==
  \/ LoadFlags \/ ReadLiteral \/ ReadEnd \/ ReadToken
  \/ ReadNewNibble \/ ReadOldNibble \/ ReadByte \/ ReadWord \/ ReadDword \/ Copy

Stopped == ~Running /\ UNCHANGED vars

Next == Compress \/ Decompress \/ Stopped

\* One thread runs compress and then decompress to the end.
Spec == Init /\ [][Next]_vars /\ WF_vars(Compress \/ Decompress)

----------------------------------------------------------------------------

(***************************************************************************)
(* Type invariant; every field fits the width the format gives it, so the  *)
(* to_bytes calls of _Encoder never fail.                                  *)
(***************************************************************************)
Fits(c) ==
  CASE c.kind = "flags" -> c.value \in [1..FlagBits -> {0, 1}]
    [] c.kind = "token" -> c.value \in 0..(MaxOffset * (TokenLimit + 1) - 1)
    [] c.kind = "nibble" -> c.value \in 0..((NibbleLimit + 1) * (NibbleLimit + 1) - 1)
    [] c.kind = "byte" -> c.value \in 0..ByteLimit
    [] c.kind = "word" -> c.value \in 0..(WordLimit - 1)
    [] OTHER -> c.value \in Nat

TypeOK ==
  /\ pos \in 0..n /\ flagPos \in Nat \ {0} /\ nibblePos \in Nat
  /\ \A i \in 1..Len(cells) : Fits(cells[i])
  /\ at \in Nat \ {0} /\ halfPos \in Nat /\ offset \in Nat /\ length \in Nat
  /\ window \in Seq({0, 1}) /\ Len(window) <= FlagBits
  /\ pc \in {"compress", "store", "flag", "nibble", "byte", "word", "dword", "copy"}
  /\ status \in {"working", "done", "refused", "corrupt", "garbled"}

(***************************************************************************)
(* decompress begins every element at the cell where _Encoder began it and *)
(* with the same half-used length byte pending: reserving the flag word    *)
(* after the last element of the one before, and loading it before the     *)
(* first of its own, come to the same.                                     *)
(***************************************************************************)
InStep ==
  pc = "flag" /\ window # << >> /\ elements < Len(marks) =>
    marks[elements + 1].at = at /\ marks[elements + 1].halfPos = halfPos

(***************************************************************************)
(* decompress gives back what compress was given, and refuses it only when *)
(* it is longer than max_size.  Of a stream that lost its end it returns   *)
(* or raises having written a prefix; no cell is ever taken for another.   *)
(***************************************************************************)
Promise == INSTANCE LosslessCodec
Lossless == Promise!Spec

(***************************************************************************)
(* A framed cell that lost its end is refused, although the raw stream     *)
(* ends validly wherever a match was to follow.                            *)
(***************************************************************************)
TruncatedCellRefused == verify /\ ~whole => status # "done"
============================================================================
