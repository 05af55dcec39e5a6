----------------------------- MODULE XpressHuff ----------------------------
(***************************************************************************)
(* The XPRESS_HUFF codec (ntdll/xpress_huff.py) above its bits: the greedy *)
(* factorization, the cut into blocks, the symbols and length ladders of a *)
(* block, and the decoder that finds the blocks' ends by counting output.  *)
(*                                                                         *)
(* A block is the sequence of fields handed to its bit writer.  HuffBits   *)
(* shows that they are met again where they were put, HuffCodes that the   *)
(* codes carry the symbols.                                                *)
(***************************************************************************)
EXTENDS LzText

CONSTANTS
  Plaintexts,  \* the inputs
  MinMatch,    \* MIN_MATCH
  NibbleMax,   \* MAX_CODE_LENGTH, in its role as the length nibble's escape
  ByteMax,     \* _LEN_BYTE_MAX
  WordLimit,   \* _LEN_U16_LIMIT
  OffsetBits,  \* MAX_OFFSET is 2^OffsetBits - 1
  MaxChain,    \* _MAX_CHAIN
  BlockSize,   \* BLOCK_SIZE
  EofSymbol    \* EOF_SYMBOL, one above the literals

ASSUME XpressHuffAssumption ==
  /\ \A d \in Plaintexts : d \in Seq(0..(EofSymbol - 1))
  /\ MinMatch \in Nat \ {0} /\ NibbleMax \in Nat \ {0} /\ ByteMax \in Nat \ {0}
  /\ WordLimit \in Nat /\ WordLimit > NibbleMax + ByteMax /\ OffsetBits \in Nat \ {0}
  /\ MaxChain \in Nat \ {0} /\ BlockSize \in Nat \ {0} /\ EofSymbol \in Nat \ {0}

\* What the prover is not told of exponentiation.
ASSUME PowersAssumption == 2^0 = 1 /\ \A k \in 0..OffsetBits : 2^k \in Nat

VARIABLES
  data,
  pos, tokens,       \* _lz77
  index, produced,   \* compress: tokens already in a block, bytes they stand for
  base,              \* compress: produced when the current block began
  current, blocks,   \* compress: the block being filled, the encoded blocks
  starts,            \* history: base of every encoded block
  limit,             \* decompress: max_size
  block, item,       \* decompress: the next field
  blockEnd, out,     \* decompress: block_end and the output
  pc,                \* what runs next
  length,            \* the match length read so far
  status             \* "working", "done", "refused" (max_size), "corrupt" (another
                     \* error) or "garbled" (a field was taken for another one)

tokenizerVars == <<pos, tokens>>
segmentVars == <<index, produced, base, current, blocks, starts>>
decoderVars == <<block, item, blockEnd, out, length, status>>
vars == <<data, limit, tokenizerVars, segmentVars, decoderVars, pc>>

n == Len(data)

----------------------------------------------------------------------------
(* The factorization *)

High(d) == CHOOSE h \in 0..OffsetBits : 2^h <= d /\ d < 2^(h + 1)

Nibble(len) == IF len - MinMatch < NibbleMax THEN len - MinMatch ELSE NibbleMax

\* The variant forgets to cap the length's share of the symbol.
MatchSymbolUncapped(len, dist) == EofSymbol + (len - MinMatch) + (NibbleMax + 1) * High(dist)
MatchSymbol(len, dist) == EofSymbol + Nibble(len) + (NibbleMax + 1) * High(dist)

BestMatch ==
  LET near == {q \in SamePrefix(data, pos, MinMatch) : pos - q < 2^OffsetBits}
  IN Longest(data, pos, Newest(near, MaxChain), n - pos)

\* The shortest match at distance one would be the EOF symbol; the variant
\* takes it all the same.
UsableEvenEof(m) == m.len >= MinMatch
Usable(m) == m.len >= MinMatch /\ MatchSymbol(m.len, m.dist) > EofSymbol

Factor(token) ==
  /\ pc = "factor" /\ pos < n
  /\ tokens' = Append(tokens, token)
  /\ pos' = pos + token.len
  /\ UNCHANGED <<data, limit, segmentVars, decoderVars, pc>>

FactorMatch == Usable(BestMatch) /\ Factor([byte |-> 0, len |-> BestMatch.len, dist |-> BestMatch.dist])

FactorLiteral ==
  pos < n /\ ~Usable(BestMatch) /\ Factor([byte |-> data[pos + 1], len |-> 1, dist |-> 0])

----------------------------------------------------------------------------
(* The blocks *)

Sym(s)     == [kind |-> "sym", size |-> 0, value |-> s]
Bits(c, v) == [kind |-> "bits", size |-> c, value |-> v]
Raw(k, v)  == [kind |-> "raw", size |-> k, value |-> v]

\* _write_length_extra
LengthExtra(len) ==
  LET v == len - MinMatch
  IN CASE v < NibbleMax -> << >>
       [] v >= NibbleMax /\ v - NibbleMax < ByteMax -> <<Raw(1, v - NibbleMax)>>
       [] v - NibbleMax >= ByteMax /\ v < WordLimit -> <<Raw(1, ByteMax), Raw(2, v)>>
       [] v >= WordLimit -> <<Raw(1, ByteMax), Raw(2, 0), Raw(4, v)>>

\* _encode_block for one token.
Fields(t) ==
  IF t.dist = 0 THEN <<Sym(t.byte)>>
  ELSE <<Sym(MatchSymbol(t.len, t.dist))>> \o LengthExtra(t.len)
         \o <<Bits(High(t.dist), t.dist - 2^High(t.dist))>>

\* A block begins where the last one ended, be it past its nominal end; the
\* variant counts whole blocks.
NextBaseNominal == base + BlockSize
NextBase == produced

Room == produced < base + BlockSize

AddToken ==
  /\ pc = "factor" /\ pos >= n /\ index < Len(tokens) /\ Room
  /\ current' = current \o Fields(tokens[index + 1])
  /\ produced' = produced + tokens[index + 1].len
  /\ index' = index + 1
  /\ UNCHANGED <<data, limit, tokenizerVars, base, blocks, starts, decoderVars, pc>>

\* The last block carries the EOF symbol; an empty input has that block only.
EndBlock ==
  /\ pc = "factor" /\ pos >= n /\ (index = Len(tokens) \/ ~Room)
  /\ LET isLast == index = Len(tokens)
     IN /\ blocks' = Append(blocks, IF isLast THEN Append(current, Sym(EofSymbol)) ELSE current)
        /\ pc' = IF isLast THEN "table" ELSE "factor"
  /\ starts' = Append(starts, base)
  /\ base' = NextBase
  /\ current' = << >>
  /\ UNCHANGED <<data, limit, tokenizerVars, index, produced, decoderVars>>

----------------------------------------------------------------------------
(* The decoder *)

encoderVars == <<tokenizerVars, segmentVars>>

Running == status = "working"

OpenBlock ==
  /\ Running /\ pc = "table"
  /\ item' = 1
  /\ blockEnd' = Len(out) + BlockSize
  /\ pc' = "symbol"
  /\ UNCHANGED <<data, limit, encoderVars, block, out, length, status>>

End(verdict) ==
  /\ status' = verdict
  /\ UNCHANGED <<data, limit, encoderVars, block, item, blockEnd, out, length, pc>>

\* The block is full.  The next table follows at once, except after the last
\* block: less than a table is left there, and decompress stops without having
\* read the EOF symbol.
NextBlock ==
  /\ block' = block + 1 /\ pc' = "table"
  /\ UNCHANGED <<data, limit, encoderVars, item, blockEnd, out, length, status>>

LeaveBlock ==
  /\ Running /\ pc = "symbol" /\ Len(out) >= blockEnd
  /\ IF block = Len(blocks) THEN End("done")
     ELSE IF item > Len(blocks[block]) THEN NextBlock
     ELSE End("garbled")

\* The next field is read if it is of the kind and width asked for; otherwise
\* the code would take its bits for something else.
Field == blocks[block][item].value
Expect(kind, size, Read) ==
  IF /\ item <= Len(blocks[block])
     /\ blocks[block][item].kind = kind /\ blocks[block][item].size = size
  THEN Read ELSE End("garbled")

\* What becomes of a field: a length so far, or output.
Step(len, next) ==
  /\ item' = item + 1 /\ length' = len /\ pc' = next
  /\ UNCHANGED <<data, limit, encoderVars, block, blockEnd, out, status>>

Produce(text) ==
  /\ out' = text
  /\ item' = item + 1 /\ pc' = "symbol"
  /\ UNCHANGED <<data, limit, encoderVars, block, blockEnd, length, status>>

ReadLiteral ==
  /\ Field < EofSymbol
  /\ IF Len(out) >= limit THEN End("refused") ELSE Produce(Append(out, Field))

ReadEof == Field = EofSymbol /\ End("done")

ReadMatch ==
  /\ Field > EofSymbol
  /\ LET nibble == (Field - EofSymbol) % (NibbleMax + 1)
     IN IF nibble < NibbleMax THEN Step(nibble + MinMatch, "offset") ELSE Step(0, "byte")

ReadSymbol ==
  /\ Running /\ pc = "symbol" /\ Len(out) < blockEnd
  /\ Expect("sym", 0, ReadLiteral \/ ReadEof \/ ReadMatch)

\* _decode_match_length
ReadByte ==
  /\ Running /\ pc = "byte"
  /\ Expect("raw", 1, IF Field < ByteMax THEN Step(Field + NibbleMax + MinMatch, "offset")
                                         ELSE Step(0, "word"))

ReadWord ==
  /\ Running /\ pc = "word"
  /\ Expect("raw", 2, IF Field = 0 THEN Step(0, "dword")
                      ELSE IF Field < NibbleMax THEN End("corrupt")
                      ELSE Step(Field + MinMatch, "offset"))

ReadDword ==
  /\ Running /\ pc = "dword"
  /\ Expect("raw", 4, Step(Field + MinMatch, "offset"))

\* The width of the offset comes from the symbol of the same match.
OffsetWidth ==
  LET field  == blocks[block]
      symbol == CHOOSE i \in 1..(item - 1) :
                  field[i].kind = "sym" /\ \A j \in (i + 1)..(item - 1) : field[j].kind # "sym"
  IN (field[symbol].value - EofSymbol) \div (NibbleMax + 1)

ReadOffset ==
  /\ Running /\ pc = "offset"
  /\ Expect("bits", OffsetWidth,
            LET offset == Field + 2^OffsetWidth
            IN IF Len(out) + length > limit THEN End("refused")
               ELSE IF offset > Len(out) THEN End("corrupt")
               ELSE Produce(CopyMatch(out, offset, length)))

----------------------------------------------------------------------------

Init ==
  /\ data \in Plaintexts
  /\ pos = 0 /\ tokens = << >>
  /\ index = 0 /\ produced = 0 /\ base = 0 /\ current = << >> /\ blocks = << >> /\ starts = << >>
  /\ limit \in {Len(data) - 1, Len(data), Len(data) + 1} \ {-1}
  /\ block = 1 /\ item = 1 /\ blockEnd = 0 /\ out = << >> /\ length = 0
  /\ pc = "factor" /\ status = "working"

Compress == FactorMatch \/ FactorLiteral \/ AddToken \/ EndBlock

Decompress ==
  \/ OpenBlock \/ LeaveBlock \/ ReadSymbol
  \/ ReadByte \/ ReadWord \/ ReadDword \/ ReadOffset

Stopped == ~Running /\ UNCHANGED vars

Next == Compress \/ Decompress \/ Stopped

\* One thread runs compress and then decompress to the end.
Spec == Init /\ [][Next]_vars /\ WF_vars(Compress \/ Decompress)

----------------------------------------------------------------------------

(***************************************************************************)
(* Type invariant; every symbol has a place in the table of SYMBOL_COUNT   *)
(* code lengths.                                                           *)
(***************************************************************************)
TypeOK ==
  /\ data \in Plaintexts /\ pos \in 0..n
  /\ index \in 0..Len(tokens) /\ produced \in 0..n /\ base \in 0..n
  /\ \A b \in 1..Len(blocks) : \A f \in 1..Len(blocks[b]) :
       blocks[b][f].kind = "sym" => blocks[b][f].value < EofSymbol + (NibbleMax + 1) * OffsetBits
  /\ block \in Nat \ {0} /\ item \in Nat \ {0} /\ blockEnd \in Nat /\ length \in Nat
  /\ pc \in {"factor", "table", "symbol", "byte", "word", "dword", "offset"}
  /\ status \in {"working", "done", "refused", "corrupt", "garbled"}

(***************************************************************************)
(* The decoder, which only counts its output, ends every block where       *)
(* compress ended it, also when a match runs past the block's end.         *)
(***************************************************************************)
BlocksMeet ==
  pc \notin {"factor", "table"} =>
    /\ blockEnd = starts[block] + BlockSize
    /\ block < Len(blocks) /\ item > Len(blocks[block]) => Len(out) = starts[block + 1]

(***************************************************************************)
(* decompress gives back what compress was given, refusing it only beyond  *)
(* max_size: no field is misread, no literal or match lost at a block's    *)
(* end, no match mistaken for the end of the file.                         *)
(***************************************************************************)
Promise == INSTANCE LosslessCodec WITH whole <- TRUE
Lossless == Promise!Spec
============================================================================
