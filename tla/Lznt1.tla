-------------------------------- MODULE Lznt1 ------------------------------
(***************************************************************************)
(* The LZNT1 codec (ntdll/lznt1.py).  The plaintext is cut into chunks;    *)
(* each becomes a header and either its raw bytes or groups of a flag byte *)
(* and up to eight elements.  How a word divides its bits between          *)
(* displacement and length depends on the position within the chunk, which *)
(* the two sides count for themselves.                                     *)
(*                                                                         *)
(* The buffer is a sequence of bytes; a header or word puts its value in   *)
(* the first of its two.                                                   *)
(***************************************************************************)
EXTENDS LzText

CONSTANTS
  Plaintexts,     \* the inputs
  ChunkSize,      \* _CHUNK_INPUT_SIZE
  WordBits,       \* the bits of a compressed word, 16
  MinBits,        \* _MIN_DISPLACEMENT_BITS
  MaxBits,        \* _MAX_DISPLACEMENT_BITS
  GroupSize,      \* _FLAG_GROUP_ELEMENTS
  MinMatch,       \* _MIN_MATCH
  MaxCandidates   \* _MAX_MATCH_CANDIDATES

ASSUME Lznt1Assumption ==
  /\ \A d \in Plaintexts : d \in Seq(Nat)
  /\ MinBits \in Nat \ {0} /\ MaxBits \in Nat /\ WordBits \in Nat
  /\ MinBits <= MaxBits /\ MaxBits < WordBits
  /\ ChunkSize \in 1..2^MaxBits  \* 4096 is 2^12
  /\ GroupSize \in Nat \ {0} /\ MinMatch \in Nat \ {0} /\ MaxCandidates \in Nat \ {0}

\* What the prover is not told of exponentiation.
ASSUME PowersAssumption ==
  \A b \in MinBits..MaxBits :
    2^b \in Nat \ {0} /\ 2^(WordBits - b) \in Nat \ {0} /\ 2^b * 2^(WordBits - b) = 2^WordBits

VARIABLES
  data,
  start, pos,               \* compress: the chunk's place in data, and the place within it
  body,                     \* _compress_chunk: closed groups
  groupFlags, groupItems,   \* _compress_chunk: the open group
  buffer,                   \* compress: out
  chunkAt,                  \* history: where each chunk of the buffer begins
  lost, whole,              \* history: plaintext lost at the front; nothing lost at all
  at, chunkEnd, chunkStart, \* decompress
  flags,                    \* _decompress_chunk_body: flags not consumed yet
  out, pc, status

encoderVars == <<start, pos, body, groupFlags, groupItems, chunkAt>>
decoderVars == <<at, chunkEnd, chunkStart, flags, out, status>>
vars == <<data, encoderVars, buffer, lost, whole, decoderVars, pc>>

n == Len(data)

Lesser(a, b) == IF a < b THEN a ELSE b

\* A byte, and the two bytes of a header or a word.
Byte(k, v) == <<[kind |-> k, value |-> v]>>
TwoBytes(k, v) == <<[kind |-> k, value |-> v], [kind |-> "second", value |-> 0]>>

\* _displacement_bits
DispBits(position) ==
  CHOOSE b \in MinBits..MaxBits :
    /\ b = MaxBits \/ 2^b >= position
    /\ \A c \in MinBits..(b - 1) : 2^c < position

LengthUnit(position) == 2^(WordBits - DispBits(position))

----------------------------------------------------------------------------
(* compress *)

Chunk == SubSeq(data, start + 1, Lesser(start + ChunkSize, n))

\* The longest match the word can say here.
LengthCap == Lesser(Len(Chunk) - pos, LengthUnit(pos) - 1 + MinMatch)

FindMatch ==
  LET near == {q \in SamePrefix(Chunk, pos, MinMatch) : pos - q <= 2^DispBits(pos)}
  IN Longest(Chunk, pos, Newest(near, MaxCandidates), LengthCap)

\* A full group is closed; an element ends here or with the chunk.
AddElement(bytes, bit) ==
  LET f == Append(groupFlags, bit)
      i == groupItems \o bytes
  IN IF Len(f) = GroupSize
     THEN body' = body \o Byte("flags", f) \o i /\ groupFlags' = << >> /\ groupItems' = << >>
     ELSE groupFlags' = f /\ groupItems' = i /\ UNCHANGED body

EmitLiteral ==
  /\ pc = "compress" /\ pos < Len(Chunk) /\ FindMatch = NoMatch
  /\ AddElement(Byte("literal", Chunk[pos + 1]), 0)
  /\ pos' = pos + 1
  /\ UNCHANGED <<data, start, buffer, chunkAt, lost, whole, decoderVars, pc>>

EmitWord ==
  /\ pc = "compress" /\ pos < Len(Chunk)
  /\ \E m \in {FindMatch} \ {NoMatch} :
       /\ AddElement(TwoBytes("word", (m.dist - 1) * LengthUnit(pos) + m.len - MinMatch), 1)
       /\ pos' = pos + m.len
  /\ UNCHANGED <<data, start, buffer, chunkAt, lost, whole, decoderVars, pc>>

\* A chunk that does not shrink is stored raw, so that its size fits twelve
\* bits; the variant never does.
ShrinksAlways(packed) == TRUE
Shrinks(packed) == Len(packed) < Len(Chunk)

Header(compressed, bytes) == TwoBytes("header", [compressed |-> compressed, size |-> Len(bytes) + 2])

\* The unused bits of the last flag byte are zero.
PaddedFlags == [i \in 1..GroupSize |-> IF i <= Len(groupFlags) THEN groupFlags[i] ELSE 0]

EndChunk ==
  /\ pc = "compress" /\ start < n /\ pos = Len(Chunk)
  /\ LET packed == IF groupFlags = << >> THEN body ELSE body \o Byte("flags", PaddedFlags) \o groupItems
         raw    == [i \in 1..Len(Chunk) |-> [kind |-> "literal", value |-> Chunk[i]]]
     IN buffer' = buffer \o IF Shrinks(packed) THEN Header(TRUE, packed) \o packed ELSE Header(FALSE, raw) \o raw
  /\ chunkAt' = Append(chunkAt, Len(buffer) + 1)
  /\ start' = Lesser(start + ChunkSize, n) /\ pos' = 0
  /\ body' = << >> /\ groupFlags' = << >> /\ groupItems' = << >>
  /\ UNCHANGED <<data, lost, whole, decoderVars, pc>>

\* What was stored comes back; or an end-of-buffer mark and a byte follow it; or
\* its first chunks, or its end, are missing.
Terminal == TwoBytes("terminal", 0) \o Byte("rest", 0)

Store ==
  /\ pc = "compress" /\ start = n
  /\ \/ UNCHANGED <<buffer, lost, whole>>
     \/ buffer' = buffer \o Terminal /\ UNCHANGED <<lost, whole>>
     \/ \E k \in DOMAIN chunkAt : \E end \in (chunkAt[k] - 1)..Len(buffer) :
          /\ buffer' = SubSeq(buffer, chunkAt[k], end)
          /\ lost' = (k - 1) * ChunkSize
          /\ whole' = (end = Len(buffer))
  /\ pc' = "header"
  /\ UNCHANGED <<data, encoderVars, decoderVars>>

----------------------------------------------------------------------------
(* decompress *)

stored == <<data, encoderVars, buffer, lost, whole>>

Running == status = "working"

End(verdict) ==
  /\ status' = verdict
  /\ UNCHANGED <<stored, at, chunkEnd, chunkStart, flags, out, pc>>

\* A byte is read as what it was written as, or taken for something else.
Value == buffer[at].value
Expect(kind, Read) == IF buffer[at].kind = kind THEN Read ELSE End("garbled")

\* Where the chunk at hand ends by its header; the variant is content with the
\* end of the buffer.
EndOfChunkClipped == Lesser(at + Value.size, Len(buffer) + 1)
EndOfChunk == at + Value.size

ReadHeader ==
  /\ Running /\ pc = "header" /\ at <= Len(buffer)
  /\ IF at = Len(buffer) THEN End("corrupt")
     ELSE IF buffer[at].kind = "terminal" THEN End("done")
     ELSE Expect("header",
            IF EndOfChunk > Len(buffer) + 1 THEN End("corrupt")
            ELSE /\ chunkEnd' = EndOfChunk /\ chunkStart' = Len(out) /\ at' = at + 2
                 /\ pc' = IF Value.compressed THEN "group" ELSE "raw"
                 /\ UNCHANGED <<stored, flags, out, status>>)

Finish == Running /\ pc = "header" /\ at > Len(buffer) /\ End("done")

ReadRaw ==
  /\ Running /\ pc = "raw"
  /\ out' = out \o [i \in 1..(chunkEnd - at) |-> buffer[at + i - 1].value]
  /\ at' = chunkEnd /\ pc' = "header"
  /\ UNCHANGED <<stored, chunkEnd, chunkStart, flags, status>>

LeaveChunk ==
  /\ Running /\ pc = "group" /\ at >= chunkEnd
  /\ pc' = "header" /\ at' = chunkEnd
  /\ UNCHANGED <<stored, chunkEnd, chunkStart, flags, out, status>>

ReadFlags ==
  /\ Running /\ pc = "group" /\ at < chunkEnd
  /\ Expect("flags", /\ flags' = Value /\ at' = at + 1 /\ pc' = "element"
                     /\ UNCHANGED <<stored, chunkEnd, chunkStart, out, status>>)

\* The flag byte of the chunk's last group has bits that stand for nothing.
LeaveGroup ==
  /\ Running /\ pc = "element" /\ (flags = << >> \/ at >= chunkEnd)
  /\ pc' = "group"
  /\ UNCHANGED <<stored, at, chunkEnd, chunkStart, flags, out, status>>

Produce(text) ==
  /\ out' = text /\ flags' = SubSeq(flags, 2, Len(flags))
  /\ UNCHANGED <<stored, chunkEnd, chunkStart, pc, status>>

ReadLiteral ==
  /\ Running /\ pc = "element" /\ at < chunkEnd /\ flags # << >> /\ flags[1] = 0
  /\ Expect("literal", Produce(Append(out, Value)) /\ at' = at + 1)

\* The position that decides the width; the variant counts from the start of
\* the output.
PositionInOutput == Len(out)
Position == Len(out) - chunkStart

ReadWord ==
  /\ Running /\ pc = "element" /\ at < chunkEnd /\ flags # << >> /\ flags[1] = 1
  /\ IF chunkEnd - at < 2 THEN End("corrupt")
     ELSE Expect("word",
            LET displacement == Value \div LengthUnit(Position) + 1
                length       == (Value % LengthUnit(Position)) + MinMatch
            IN IF displacement > Len(out) THEN End("corrupt")
               ELSE Produce(CopyMatch(out, displacement, length)) /\ at' = at + 2)

----------------------------------------------------------------------------

Init ==
  /\ data \in Plaintexts
  /\ start = 0 /\ pos = 0 /\ body = << >> /\ groupFlags = << >> /\ groupItems = << >>
  /\ buffer = << >> /\ chunkAt = << >> /\ lost = 0 /\ whole = TRUE
  /\ at = 1 /\ chunkEnd = 0 /\ chunkStart = 0 /\ flags = << >> /\ out = << >>
  /\ pc = "compress" /\ status = "working"

Compress == EmitLiteral \/ EmitWord \/ EndChunk \/ Store

Decompress ==
  \/ ReadHeader \/ Finish \/ ReadRaw \/ LeaveChunk
  \/ ReadFlags \/ LeaveGroup \/ ReadLiteral \/ ReadWord

Stopped == ~Running /\ UNCHANGED vars

Next == Compress \/ Decompress \/ Stopped

\* One thread runs compress and then decompress to the end.
Spec == Init /\ [][Next]_vars /\ WF_vars(Compress \/ Decompress)

----------------------------------------------------------------------------

(***************************************************************************)
(* Type invariant; a header's size, less three, fits the bits of its field *)
(* and a word fits its two bytes, so compress never fails on its own       *)
(* numbers.                                                                *)
(***************************************************************************)
Fits(b) ==
  /\ b.kind = "header" => b.value.size - 3 \in 0..(ChunkSize - 1)
  /\ b.kind = "word" => b.value \in 0..(2^WordBits - 1)

TypeOK ==
  /\ start \in 0..n /\ pos \in 0..ChunkSize
  /\ Len(groupFlags) < GroupSize
  /\ \A i \in 1..Len(buffer) : Fits(buffer[i])
  /\ at \in Nat \ {0} /\ chunkEnd \in Nat /\ chunkStart \in Nat /\ flags \in Seq({0, 1})
  /\ pc \in {"compress", "header", "raw", "group", "element"}
  /\ status \in {"working", "done", "corrupt", "garbled"}

(***************************************************************************)
(* decompress gives back what compress was given: the two count the same   *)
(* positions, so they divide every word alike.  Chunks decompress          *)
(* independently (lznt1.py:5): without its first chunks a buffer gives the *)
(* rest of the plaintext, and a prefix of that without its end.            *)
(***************************************************************************)
Promise ==
  INSTANCE LosslessCodec WITH data <- SubSeq(data, lost + 1, n), limit <- n
Lossless == Promise!Spec

(***************************************************************************)
(* A lost end goes unnoticed only if the cut fell between two chunks.      *)
(***************************************************************************)
CutsNoticed == status = "done" /\ ~whole => Len(out) % ChunkSize = 0
============================================================================
