------------------------------ MODULE Lz4Block -----------------------------
(***************************************************************************)
(* The LZ4 block codec of the ESE cells (ese/lz4.py): compress_block, then *)
(* decompress_block with the plaintext's size given from outside, which    *)
(* may be less than the block holds (decoding stops there) or more (it is  *)
(* refused).                                                               *)
(*                                                                         *)
(* The block is a sequence of bytes; an offset puts its value in the first *)
(* of its two.                                                             *)
(***************************************************************************)
EXTENDS LzText

CONSTANTS
  Plaintexts,    \* the inputs
  MinMatch,      \* MIN_MATCH
  MaxOffset,     \* MAX_OFFSET
  TokenMax,      \* _TOKEN_MAX
  Continue,      \* _LENGTH_CONTINUE
  LastLiterals,  \* _LAST_LITERALS
  MfLimit        \* _MF_LIMIT

ASSUME Lz4BlockAssumption ==
  /\ \A d \in Plaintexts : d \in Seq(Nat)
  /\ MinMatch \in Nat \ {0} /\ MaxOffset \in Nat \ {0}
  /\ TokenMax \in Nat \ {0} /\ Continue \in Nat \ {0}
  /\ LastLiterals \in Nat \ {0} /\ MfLimit \in Nat /\ LastLiterals + MinMatch <= MfLimit

VARIABLES
  data,
  pos, anchor,          \* compress_block
  visited,              \* compress_block: the positions entered in table
  block,                \* compress_block: out
  trail,                \* history: each sequence and where it begins in the block
  whole,                \* history: nothing of the block was lost
  size,                 \* decompress_block: uncompressed_size
  at, token,            \* decompress_block
  length,               \* _read_length, or the run or match being decoded
  offset,               \* _decode_match
  out, pc, status

encoderVars == <<pos, anchor, visited, trail>>
decoderVars == <<at, token, length, offset, out, status>>
vars == <<data, size, encoderVars, block, whole, decoderVars, pc>>

n == Len(data)

Lesser(a, b) == IF a < b THEN a ELSE b

Byte(k, v) == <<[kind |-> k, value |-> v]>>
TwoBytes(k, v) == <<[kind |-> k, value |-> v], [kind |-> "second", value |-> 0]>>

----------------------------------------------------------------------------
(* compress_block *)

\* A position enters the table when it is searched from, and replaces the one
\* with the same bytes; those inside a match never enter.
Candidates ==
  LET same == Newest(SamePrefix(data, pos, MinMatch) \intersect visited, 1)
  IN {q \in same : pos - q <= MaxOffset}

\* Matches end short of the last literals; the variant lets them run on.
MatchLimitAtEnd == n
MatchLimit == n - LastLiterals

\* _emit_length_extension: a full byte asks for another one. The variant stops
\* after a full byte that leaves nothing.
ExtensionStops(rest) ==
  [i \in 1..((rest + Continue - 1) \div Continue) |->
     [kind |-> "extra", value |-> IF i * Continue <= rest THEN Continue ELSE rest % Continue]]
Extension(rest) ==
  [i \in 1..(rest \div Continue + 1) |->
     [kind |-> "extra", value |-> IF i * Continue <= rest THEN Continue ELSE rest % Continue]]

Extended(len) == IF len < TokenMax THEN << >> ELSE Extension(len - TokenMax)

Literals(from, to) == [i \in 1..(to - from) |-> [kind |-> "literal", value |-> data[from + i]]]

\* The part of a sequence that stands for a match; there is none in the last.
MatchPart(s) == IF s.len = 0 THEN << >> ELSE TwoBytes("offset", s.dist) \o Extended(s.len - MinMatch)

Token(s) ==
  [literals |-> Lesser(s.to - s.from, TokenMax),
   match    |-> IF s.len = 0 THEN 0 ELSE Lesser(s.len - MinMatch, TokenMax)]

\* _emit_sequence
Sequence(s) == Byte("token", Token(s)) \o Extended(s.to - s.from) \o Literals(s.from, s.to) \o MatchPart(s)

Emit(to, dist, len) ==
  LET s == [at |-> Len(block) + 1, from |-> anchor, to |-> to, dist |-> dist, len |-> len]
  IN block' = block \o Sequence(s) /\ trail' = Append(trail, s)

Searching == pc = "compress" /\ pos <= n - MfLimit

Advance ==
  /\ Searching /\ Candidates = {}
  /\ visited' = visited \union {pos}
  /\ pos' = pos + 1
  /\ UNCHANGED <<data, size, anchor, block, trail, whole, decoderVars, pc>>

EmitMatch ==
  /\ Searching
  /\ \E q \in Candidates :
       LET len == MatchLength(data, q, pos, MatchLimit - pos)
       IN /\ Emit(pos, pos - q, len)
          /\ pos' = pos + len /\ anchor' = pos + len
  /\ visited' = visited \union {pos}
  /\ UNCHANGED <<data, size, whole, decoderVars, pc>>

EmitLast ==
  /\ pc = "compress" /\ pos > n - MfLimit
  /\ Emit(n, 0, 0)
  /\ pc' = "store"
  /\ UNCHANGED <<data, size, pos, anchor, visited, whole, decoderVars>>

Store ==
  /\ pc = "store"
  /\ \E end \in 0..Len(block) :
       block' = SubSeq(block, 1, end) /\ whole' = (end = Len(block))
  /\ pc' = "token"
  /\ UNCHANGED <<data, size, encoderVars, decoderVars>>

----------------------------------------------------------------------------
(* decompress_block *)

stored == <<data, size, encoderVars, block, whole>>

Running == status = "working"

End(verdict) ==
  /\ status' = verdict
  /\ UNCHANGED <<stored, at, token, length, offset, out, pc>>

\* A read of some bytes: past the end it raises, and bytes of another kind than
\* the code asks for would be taken for something else.
Value == block[at].value
Expect(kind, bytes, Read) ==
  IF at + bytes > Len(block) + 1 THEN End("corrupt")
  ELSE IF block[at].kind = kind THEN Read
  ELSE End("garbled")

\* As soon as there is enough, be it nothing, what follows is ignored.  The
\* variant is content with the end of the block as well.
ReturnEnoughOrEnd ==
  /\ Running /\ pc \in {"token", "offset"}
  /\ Len(out) >= size \/ at > Len(block)
  /\ End("done")
ReturnEnough == Running /\ pc \in {"token", "offset"} /\ Len(out) >= size /\ End("done")

ReadToken ==
  /\ Running /\ pc = "token" /\ Len(out) < size
  /\ Expect("token", 1, /\ token' = Value /\ length' = Value.literals /\ at' = at + 1
                        /\ pc' = IF Value.literals = TokenMax THEN "literalLength" ELSE "literals"
                        /\ UNCHANGED <<stored, offset, out, status>>)

\* _read_length, for the literals and for the match
ReadLength(here, next) ==
  /\ Running /\ pc = here
  /\ Expect("extra", 1, /\ length' = length + Value /\ at' = at + 1
                        /\ pc' = IF Value = Continue THEN here ELSE next
                        /\ UNCHANGED <<stored, token, offset, out, status>>)

ReadLiteralLength == ReadLength("literalLength", "literals")
ReadMatchLength   == ReadLength("matchLength", "match")

Produce(text, next) ==
  /\ out' = text
  /\ pc' = next
  /\ UNCHANGED <<stored, token, offset, status>>

\* No more literals are taken than are asked for.
Taken == Lesser(length, size - Len(out))

CopyLiterals ==
  /\ Running /\ pc = "literals"
  /\ IF at + Taken > Len(block) + 1 THEN End("corrupt")
     ELSE IF \E i \in 0..(Taken - 1) : block[at + i].kind # "literal" THEN End("garbled")
     ELSE /\ Produce(out \o [i \in 1..Taken |-> block[at + i - 1].value], "offset")
          /\ at' = at + length
          /\ UNCHANGED length

ReadOffset ==
  /\ Running /\ pc = "offset" /\ Len(out) < size
  /\ Expect("offset", 2,
       IF Value = 0 \/ Value > Len(out) THEN End("corrupt")
       ELSE /\ offset' = Value /\ length' = token.match /\ at' = at + 2
            /\ pc' = IF token.match = TokenMax THEN "matchLength" ELSE "match"
            /\ UNCHANGED <<stored, token, out, status>>)

CopyMatched ==
  /\ Running /\ pc = "match"
  /\ Produce(CopyMatch(out, offset, Lesser(length + MinMatch, size - Len(out))), "token")
  /\ UNCHANGED <<at, length>>

----------------------------------------------------------------------------

\* The size a caller asks for, from nothing to one byte more than there is.
Init ==
  /\ data \in Plaintexts
  /\ size \in 0..(Len(data) + 1)
  /\ pos = 0 /\ anchor = 0 /\ visited = {} /\ block = << >> /\ trail = << >> /\ whole = TRUE
  /\ at = 1 /\ token = [literals |-> 0, match |-> 0] /\ length = 0 /\ offset = 0
  /\ out = << >> /\ pc = "compress" /\ status = "working"

Compress == Advance \/ EmitMatch \/ EmitLast \/ Store

Decompress ==
  \/ ReturnEnough \/ ReadToken \/ ReadLiteralLength \/ CopyLiterals
  \/ ReadOffset \/ ReadMatchLength \/ CopyMatched

Stopped == ~Running /\ UNCHANGED vars

Next == Compress \/ Decompress \/ Stopped

\* One thread runs compress_block and then decompress_block to the end.
Spec == Init /\ [][Next]_vars /\ WF_vars(Compress \/ Decompress)

----------------------------------------------------------------------------

(***************************************************************************)
(* A block other decoders can read (compress_block's doc): the last match  *)
(* starts MfLimit bytes before the end or earlier, no match reaches into   *)
(* the last literals, and every number fits the nibble, byte or two bytes  *)
(* that hold it.                                                           *)
(***************************************************************************)
Fits(b) ==
  /\ b.kind = "token" => b.value.literals \in 0..TokenMax /\ b.value.match \in 0..TokenMax
  /\ b.kind = "extra" => b.value \in 0..Continue
  /\ b.kind = "offset" => b.value \in 1..MaxOffset

EndOfBlockRules ==
  /\ \A k \in 1..Len(trail) :
       LET m == trail[k]
       IN m.len # 0 => m.to + MfLimit <= n /\ m.to + m.len + LastLiterals <= n /\ m.len >= MinMatch
  /\ \A i \in 1..Len(block) : Fits(block[i])

(***************************************************************************)
(* decompress_block gives back as much of the plaintext as it is asked     *)
(* for, even if that ends within a run or a match, and refuses only to     *)
(* give more than there is.  A block that lost its end may be refused.     *)
(***************************************************************************)
Wanted == [i \in 1..size |-> IF i <= n THEN data[i] ELSE 0]

Promise ==
  INSTANCE LosslessCodec WITH
    Plaintexts <- Seq(Nat), data <- Wanted, limit <- Len(data),
    status <- IF whole /\ status = "corrupt" THEN "refused" ELSE status
Lossless == Promise!Spec

(***************************************************************************)
(* A block that lost its end is never returned short: decompress_block     *)
(* returns the size asked for, or raises.  Asked for all of it, it raises. *)
(***************************************************************************)
NeverShort ==
  /\ status = "done" => size <= n /\ out = SubSeq(data, 1, size)
  /\ status = "done" /\ ~whole => size < n \/ n = 0
============================================================================
