--------------------------- MODULE Xpress9Stream ---------------------------
(***************************************************************************)
(* The LZ77 token stream of the ESE XPRESS9 codec (ese/xpress9.py): an     *)
(* encoder that may take ANY literal, pointer or repeated-offset (MTF)     *)
(* token its checks allow, and the decoder that replays the tokens.        *)
(*                                                                         *)
(* Both sides keep a list of the most recent match offsets and refer to it *)
(* by index, so the stream is correct only while the two lists agree.      *)
(* Xpress9Codec is the deterministic encoder of the code; it is checked to *)
(* implement this module.  Decoding starts once the whole block has been   *)
(* tokenized, as in the code.                                              *)
(***************************************************************************)
EXTENDS Integers, Sequences

CONSTANTS
  Plaintexts,  \* the blocks to compress, a set of non-empty sequences
  Slots,       \* _ENC_MTF_ENTRY_COUNT: length of the repeated-offset list
  PtrMin,      \* _ENC_PTR_MIN_MATCH_LENGTH
  MtfMin       \* _ENC_MTF_MIN_MATCH_LENGTH

ASSUME StreamAssumption ==
  /\ \A d \in Plaintexts : d \in Seq(Int) /\ d # << >>
  /\ Slots \in Nat /\ Slots >= 2
  /\ PtrMin \in Nat \ {0}
  /\ MtfMin \in Nat \ {0}

VARIABLES
  data,     \* the plaintext block
  pos,      \* encoder: bytes tokenized so far
  mtf,      \* encoder: mtf_0 .. mtf_3 as positive distances
  tokens,   \* encoder: the intermediate representation
  trail,    \* history: <<pos, mtf>> after each token, first before any token
  taken,    \* decoder: tokens consumed
  out,      \* decoder: bytes produced
  dmtf,     \* decoder: its repeated-offset list
  dlast,    \* decoder: last_was_ptr
  result    \* "none" while running, then "ok", "DecompressionError" or "IntegrityError"

encVars == <<data, pos, mtf, tokens, trail>>
decVars == <<taken, out, dmtf, dlast, result>>
vars == <<encVars, decVars>>

Lists == [1..Slots -> Nat \ {0}]

Literal(b)          == [kind |-> "lit", sym |-> b, off |-> 0, len |-> 1]
Pointer(off, len)   == [kind |-> "ptr", sym |-> 0, off |-> off, len |-> len]
Repeat(k, off, len) == [kind |-> "mtf", sym |-> k, off |-> off, len |-> len]

Tokens == [kind : {"lit", "ptr", "mtf"}, sym : Int, off : Nat, len : Nat \ {0}]

IsMatch(t) == t.kind # "lit"

\* The token before the k-th one exists and was a match (iMtfLastPtr = -1).
AfterMatch(k) == k > 1 /\ IsMatch(tokens[k - 1])

(***************************************************************************)
(* Encoder                                                                 *)
(***************************************************************************)

\* The len bytes at the encoder's position repeat those off bytes earlier.
TrueMatch(off, len) ==
  /\ off <= pos
  /\ pos + len <= Len(data)
  /\ \A i \in 1..len : data[pos + i] = data[pos + i - off]

\* A fresh offset enters at the front and the oldest one leaves; in the
\* variant it stays.  (Variants serve only to see a property fail.)
PushOffsetKeepingOldest(list, off) == [i \in 1..(Slots + 1) |-> IF i = 1 THEN off ELSE list[i - 1]]
PushOffset(list, off) == [i \in 1..Slots |-> IF i = 1 THEN off ELSE list[i - 1]]

\* UPDATE_MTF as _emit_mtf performs it for a zero-based slot; the second
\* entry is overwritten even when slot 0 is reused.
UpdateMtf(list, slot) ==
  [i \in 1..Slots |-> IF i = 1 THEN list[slot + 1]
                      ELSE IF i = 2 \/ i <= slot + 1 THEN list[i - 1]
                      ELSE list[i]]

Emit(t, list) ==
  /\ tokens' = Append(tokens, t)
  /\ pos' = pos + t.len
  /\ mtf' = list
  /\ trail' = Append(trail, [at |-> pos + t.len, list |-> list])
  /\ UNCHANGED <<data, decVars>>

EmitLiteral ==
  /\ pos < Len(data)
  /\ Emit(Literal(data[pos + 1]), mtf)

EmitPointer(off, len) ==
  /\ len >= PtrMin
  /\ TrueMatch(off, len)
  /\ Emit(Pointer(off, len), PushOffset(mtf, off))

\* Directly after a match slot 0 is skipped and the indices shift down by
\* one; a source at position 0 is refused (_check_mtf wants pos + off > 0).
EmitRepeat(slot, len) ==
  LET shift == IF AfterMatch(Len(tokens) + 1) THEN 1 ELSE 0
      off   == mtf[slot + 1]
  IN /\ slot >= shift
     /\ len >= MtfMin
     /\ off < pos
     /\ TrueMatch(off, len)
     /\ Emit(Repeat(slot - shift, off, len), UpdateMtf(mtf, slot))

(***************************************************************************)
(* Decoder                                                                 *)
(***************************************************************************)

\* LZ77 copy of an overlapping source: the chunk of off bytes is repeated.
CopyMatch(buf, off, len) ==
  [i \in 1..(Len(buf) + len) |->
     IF i <= Len(buf) THEN buf[i]
     ELSE buf[Len(buf) - off + 1 + ((i - Len(buf) - 1) % off)]]

\* _take_mtf_offset: which zero-based slot a symbol names, and the list after.
\* The variants never or always skip slot 0; they swap instead of rotating.
TakenSlotNeverShifted(sym) == sym
TakenSlotAlwaysShifted(sym) == sym + 1
TakenSlot(sym) == IF dlast THEN sym + 1 ELSE sym

SwapToFront(list, slot) == [list EXCEPT ![1] = list[slot + 1], ![slot + 1] = list[1]]

MoveToFront(list, slot) ==
  [i \in 1..Slots |-> IF i = 1 THEN list[slot + 1]
                      ELSE IF i <= slot + 1 THEN list[i - 1] ELSE list[i]]

Decoding ==
  /\ pos = Len(data) /\ result = "none"
  /\ Len(out) < Len(data) /\ taken < Len(tokens)

DecodeLiteral(t) ==
  /\ Decoding
  /\ t.kind = "lit"
  /\ out' = Append(out, t.sym)
  /\ taken' = taken + 1
  /\ dlast' = FALSE
  /\ UNCHANGED <<encVars, dmtf, result>>

Reject ==
  /\ result' = "DecompressionError"
  /\ UNCHANGED <<encVars, taken, out, dmtf, dlast>>

\* Both match kinds end in the same two range checks before the copy.
FinishMatch(off, len, list) ==
  IF off <= Len(out) /\ len <= Len(data) - Len(out)
  THEN /\ out' = CopyMatch(out, off, len)
       /\ taken' = taken + 1
       /\ dmtf' = list
       /\ dlast' = TRUE
       /\ UNCHANGED <<encVars, result>>
  ELSE Reject

DecodePointer(t) ==
  /\ Decoding
  /\ t.kind = "ptr"
  /\ FinishMatch(t.off, t.len, PushOffset(dmtf, t.off))

\* The offset field of t is the encoder's; the decoder has its own list.
DecodeRepeat(t) ==
  /\ Decoding
  /\ t.kind = "mtf"
  /\ LET slot == TakenSlot(t.sym)
     IN IF slot < Slots
        THEN FinishMatch(dmtf[slot + 1], t.len, MoveToFront(dmtf, slot))
        ELSE Reject

\* End of block: exact size and exact consumption, then the plaintext CRC.
DecodeEnd ==
  /\ pos = Len(data) /\ result = "none"
  /\ taken = Len(tokens) \/ Len(out) = Len(data)
  /\ result' = IF Len(out) # Len(data) \/ taken # Len(tokens) THEN "DecompressionError"
               ELSE IF out # data THEN "IntegrityError"
               ELSE "ok"
  /\ UNCHANGED <<encVars, taken, out, dmtf, dlast>>

----------------------------------------------------------------------------

Init ==
  /\ data \in Plaintexts
  /\ pos = 0 /\ out = << >>
  /\ mtf = [i \in 1..Slots |-> 1]
  /\ dmtf = [i \in 1..Slots |-> 1]
  /\ tokens = << >> /\ taken = 0
  /\ trail = <<[at |-> 0, list |-> mtf]>>
  /\ dlast = FALSE
  /\ result = "none"

Encode ==
  \/ EmitLiteral
  \/ \E off \in 1..pos, len \in 1..(Len(data) - pos) : EmitPointer(off, len)
  \/ \E slot \in 0..(Slots - 1), len \in 1..(Len(data) - pos) : EmitRepeat(slot, len)

DecodeToken(t) == DecodeLiteral(t) \/ DecodePointer(t) \/ DecodeRepeat(t)

Finished == result # "none" /\ UNCHANGED vars

Next == Encode \/ DecodeToken(tokens[taken + 1]) \/ DecodeEnd \/ Finished

Spec == Init /\ [][Next]_vars

----------------------------------------------------------------------------

(***************************************************************************)
(* Type invariant.                                                         *)
(***************************************************************************)
TypeOK ==
  /\ data \in Plaintexts
  /\ pos \in 0..Len(data)
  /\ mtf \in Lists /\ dmtf \in Lists
  /\ tokens \in Seq(Tokens)
  /\ trail \in Seq([at : Nat, list : Lists])
  /\ taken \in 0..Len(tokens)
  /\ out \in Seq(Int)
  /\ dlast \in BOOLEAN
  /\ result \in {"none", "ok", "DecompressionError", "IntegrityError"}

\* One of the first k tokens reuses slot 0 directly after a literal: the one
\* update that _emit_mtf and _take_mtf_offset perform differently.
ReusedFirst(k) == \E j \in 1..k : tokens[j].kind = "mtf" /\ tokens[j].sym = 0 /\ ~AfterMatch(j)

(***************************************************************************)
(* What the decoder has produced is the plaintext up to where the encoder  *)
(* stood after the same token, unless slot 0 was reused after a literal    *)
(* somewhere before (_emit_mtf against _take_mtf_offset).                  *)
(***************************************************************************)
OutputFollowsInput ==
  ReusedFirst(taken) \/ out = SubSeq(data, 1, trail[taken + 1].at)

(***************************************************************************)
(* Decoder and encoder hold the same repeated-offset list after the same   *)
(* token, with the same exception.                                         *)
(***************************************************************************)
ListsAgree == ReusedFirst(taken) \/ dmtf = trail[taken + 1].list

(***************************************************************************)
(* None of the decoder's corruption checks (_decode_block, _take_mtf_offset)*)
(* fires on a stream the encoder made, with the same exception (the token   *)
(* being decoded included).                                                 *)
(***************************************************************************)
NoFalseRejection ==
  result \in {"DecompressionError", "IntegrityError"} => ReusedFirst(Len(tokens))

============================================================================
