--------------------------- MODULE Xpress9Codec ----------------------------
(***************************************************************************)
(* The encoder of ese/xpress9.py as it is: chunked insertion into the hash *)
(* chains, repeated offsets tried first, a chain walk of bounded depth,    *)
(* lazy evaluation one and two bytes ahead, literal runs, the flushed      *)
(* tail; then the decoder reading the tokens from their wire symbols.      *)
(*                                                                         *)
(* Positions are zero-based as in the code; distances are positive (the    *)
(* code keeps them negative).                                              *)
(***************************************************************************)
EXTENDS Xpress9Stream, FiniteSetsExt

CONSTANTS
  ChunkSize,   \* _IR_CHUNK_SIZE
  HashLen,     \* bytes covered by _hash4, and compared again by the literal loop
  Hash(_),     \* _hash4 of a word of HashLen bytes: any function, collisions allowed
  MaxDepth,    \* _ENC_MAX_DEPTH
  Tick,        \* candidates looked at per unit of depth (8)
  MaxOffset,   \* _MAX_OFFSET_BY_LENGTH
  MaxWindow,   \* _MAX_WINDOW_SIZE_LOG
  MaxShort, MaxLong, LitCount   \* the wire alphabets

\* The first bytes of a repeated match are compared without a look at the limit,
\* so they must lie within what a hash covers; a block holds bytes, and no more than
\* the decoder's ceiling (_MAX_DECODED_SIZE).
ASSUME CodecAssumption ==
  /\ ChunkSize \in Nat \ {0} /\ MaxDepth \in Nat \ {0} /\ Tick \in Nat \ {0}
  /\ HashLen \in Nat /\ MtfMin <= HashLen
  /\ LitCount \in Nat \ {0} /\ MaxShort \in Nat /\ MaxShort >= 2 /\ MaxLong \in Nat \ {0}
  /\ \A d \in Plaintexts : Len(d) <= 2^30 /\ \A i \in 1..Len(d) : d[i] \in 0..(LitCount - 1)

\* The powers of two in use, for the provers, which do not know them.
ASSUME PowersAssumption == 2^0 = 1 /\ \A k \in 0..30 : 2^k \in Nat

\* No class of offsets is beyond what Wire!Msb looks at; the powers double.
ASSUME WindowAssumption == MaxWindow \in 1..30 /\ \A k \in 0..29 : 2^(k + 1) = 2 * 2^k

Wire == INSTANCE Xpress9Symbols WITH MtfSlots <- Slots, PtrBase <- PtrMin, MtfBase <- MtfMin

VARIABLES
  pNext,    \* p_next: the previous position with the same hash, 0 for none
  copied,   \* bytes_copied: end of the inserted data (chunk_data_size)
  stop,     \* stop_position: end of the positions Pass 1 may start at
  lastPtr,  \* mtf_last_ptr = -1
  pc,       \* "top" of the Pass 1 loop, "literals", looking "one" or "two" bytes
            \* further for a better match, in a chain "walk", or committing to the "plan"
  plan,     \* the best choice so far: literals still to emit, then a match
  walk      \* _chain_lookup: how far ahead of pos it looks, its candidate, the
            \* misses in a row, the depth left, and the best match it knows

codecVars == <<vars, pNext, copied, stop, lastPtr, pc, plan, walk>>

n == Len(data)
Byte(p) == data[p + 1]
Larger(a, b) == IF a > b THEN a ELSE b
Smaller(a, b) == IF a < b THEN a ELSE b

NoMatch == [slot |-> 0, len |-> 0]
Idle == [lits |-> 0, kind |-> "none", slot |-> 0, off |-> 0, len |-> 0]
NoWalk == [ahead |-> 0, cand |-> 0, misses |-> 0, left |-> 0, off |-> 0, len |-> 0]

----------------------------------------------------------------------------
(* Match finding *)

\* Bytes that agree from p and from src on, p staying below limit.
Agreement(p, src, limit) ==
  CHOOSE l \in 0..Larger(limit - p, 0) :
    /\ \A i \in 0..(l - 1) : Byte(p + i) = Byte(src + i)
    /\ p + l < limit => Byte(p + l) # Byte(src + l)

\* _check_mtf: the first MtfMin bytes are compared without looking at limit.
CheckMtf(p, off, limit) ==
  IF p - off > 0 /\ \A i \in 0..(MtfMin - 1) : Byte(p + i) = Byte(p - off + i)
  THEN Larger(MtfMin, Agreement(p, p - off, limit))
  ELSE 0

\* The first slot, in list order, whose match at p reaches least bytes.
FirstSlot(slots, p, least) ==
  LET fits(s)  == CheckMtf(p, mtf[s + 1], copied) >= least
      first(s) == fits(s) /\ \A r \in slots : r < s => ~fits(r)
  IN IF \E s \in slots : fits(s)
     THEN LET s == CHOOSE s \in slots : first(s)
          IN [slot |-> s, len |-> CheckMtf(p, mtf[s + 1], copied)]
     ELSE NoMatch

\* _check_all_mtf at the top of the loop, _lookahead_check_mtf further on.
\* The variant forgets that slot 0 may not follow a match.
RepeatHereAnySlot == FirstSlot(0..(Slots - 1), pos, MtfMin)
RepeatHere == FirstSlot((IF lastPtr THEN 1 ELSE 0)..(Slots - 1), pos, MtfMin)
RepeatAhead(p, best) == FirstSlot(0..(Slots - 1), p, Larger(best - 3, MtfMin))

\* The filter on short matches with a distant source.
OffsetAllowed(off, len) == len \notin DOMAIN MaxOffset \/ off < MaxOffset[len]

\* A plan: emit lits literals, then the match.
ByChain(lits, best) == [lits |-> lits, kind |-> "ptr", slot |-> 0, off |-> best.off, len |-> best.len]
ByList(lits, m) == [lits |-> lits, kind |-> "mtf", slot |-> m.slot, off |-> mtf[m.slot + 1], len |-> m.len]

\* The literal loop stops in front of a position whose chain candidate
\* agrees on a whole word.
WordRepeats(p) ==
  /\ pNext[p] # 0
  /\ p + HashLen <= copied
  /\ \A i \in 0..(HashLen - 1) : Byte(p + i) = Byte(pNext[p] + i)

----------------------------------------------------------------------------
(* The steps of _lz77_tokenize *)

chunkVars == <<pNext, copied, stop>>

\* The newest earlier position with the same hash; the last HashLen positions
\* of the block are never hashed.
PreviousSameHash(p) ==
  LET word(q) == Hash(SubSeq(data, q + 1, q + HashLen))
  IN IF p < n - HashLen
     THEN Max({0} \union {q \in 0..(p - 1) : word(q) = word(p)}) ELSE 0

\* bytes_copied after the next chunk; the variant, used only to see a
\* property fail, forgets to clip the last chunk.
NextCopiedUnclipped == copied + ChunkSize
NextCopied == copied + Smaller(ChunkSize, n - copied)

\* The next chunk becomes visible: _hash_insert_range from where the last
\* insertion stopped, and the new ends of the data and of Pass 1.
NextChunk ==
  /\ pc = "top" /\ pos >= stop /\ copied < n
  /\ copied' = NextCopied
  /\ pNext' = [p \in 0..(n - 1) |->
                 IF p \in stop..(copied' - 1) THEN PreviousSameHash(p) ELSE pNext[p]]
  /\ stop' = IF n >= HashLen THEN Smaller(copied', n - HashLen) ELSE 0
  /\ UNCHANGED <<vars, lastPtr, pc, plan, walk>>

InPass1 == pc = "top" /\ pos < stop

TakeRepeat ==
  /\ InPass1 /\ RepeatHere.len > 0
  /\ LET m   == RepeatHere
         off == mtf[m.slot + 1]
     IN Emit(Repeat(m.slot - (IF lastPtr THEN 1 ELSE 0), off, m.len), UpdateMtf(mtf, m.slot))
  /\ lastPtr' = TRUE
  /\ UNCHANGED <<chunkVars, pc, plan, walk>>

\* _chain_lookup at pos + ahead, for a match longer than floor.
StartWalk(ahead, depth, floor) ==
  /\ walk' = [ahead |-> ahead, cand |-> pNext[pos + ahead], misses |-> 0, left |-> depth,
              off |-> 0, len |-> floor]
  /\ pc' = "walk"

LookUp ==
  /\ InPass1 /\ RepeatHere.len = 0 /\ pNext[pos] # 0
  /\ StartWalk(0, MaxDepth, PtrMin - 1)
  /\ UNCHANGED <<vars, chunkVars, lastPtr, plan>>

\* The position matched against, and the link of the chain behind the candidate:
\* while the walk runs, position 0 links back to it (the sentinel).  The variant
\* does without.
Start == pos + walk.ahead
NextLinkNoSentinel == pNext[walk.cand]
NextLink == IF walk.cand = 0 THEN Start ELSE pNext[walk.cand]

\* A candidate is extended only if it agrees on the two bytes around the end
\* of the best match so far; Tick misses in a row cost one unit of depth.
TailFits == \A i \in (walk.len - 1)..walk.len : Byte(walk.cand + i) = Byte(Start + i)

WalkGoesOn ==
  /\ walk.left > 0
  /\ Start + walk.len < copied
  /\ TailFits => walk.cand < Start

WalkPast ==
  /\ pc = "walk" /\ WalkGoesOn /\ ~TailFits
  /\ walk' = [walk EXCEPT !.cand = NextLink, !.misses = (@ + 1) % Tick,
                          !.left = IF walk.misses + 1 = Tick THEN @ - 1 ELSE @]
  /\ UNCHANGED <<vars, chunkVars, lastPtr, pc, plan>>

WalkOnto ==
  /\ pc = "walk" /\ WalkGoesOn /\ TailFits
  /\ LET off == Start - walk.cand
         len == Agreement(Start, walk.cand, copied)
         better == len > walk.len /\ OffsetAllowed(off, len)
     IN walk' = [walk EXCEPT !.cand = NextLink, !.misses = 0,
                             !.off = IF better THEN off ELSE @, !.len = IF better THEN len ELSE @]
  /\ UNCHANGED <<vars, chunkVars, lastPtr, pc, plan>>

WalkEnds == pc = "walk" /\ ~WalkGoesOn /\ walk' = NoWalk

\* A match here is the first plan; LAZY_MATCH_EVALUATION may improve on it.
Evaluate ==
  /\ WalkEnds /\ walk.ahead = 0 /\ walk.len >= PtrMin
  /\ plan' = ByChain(0, walk)
  /\ pc' = IF pos + 2 < stop /\ pNext[pos + 1] # 0 THEN "one" ELSE "plan"
  /\ UNCHANGED <<vars, chunkVars, lastPtr>>

\* One byte further, then two: a repeated offset wins at once; otherwise the
\* chain is searched, two bytes further only if one byte helped already.
LookAhead(k) ==
  LET m == RepeatAhead(pos + k, plan.len)
  IN /\ \/ m.len > 0 /\ plan' = ByList(k, m) /\ pc' = "plan" /\ UNCHANGED walk
        \/ /\ m.len = 0 /\ plan.lits = k - 1
           /\ StartWalk(k, Larger(MaxDepth \div (2 * k), 1), plan.len) /\ UNCHANGED plan
        \/ m.len = 0 /\ plan.lits < k - 1 /\ pc' = "plan" /\ UNCHANGED <<plan, walk>>
     /\ UNCHANGED <<vars, chunkVars, lastPtr>>

LookOneAhead == pc = "one" /\ LookAhead(1)
LookTwoAhead == pc = "two" /\ LookAhead(2)

\* A longer match replaces the plan; where it is found one byte further and no
\* chain starts at pos + 2 the search ends.
Improve ==
  /\ WalkEnds /\ walk.ahead > 0
  /\ LET longer == walk.len > plan.len
     IN /\ plan' = IF longer THEN ByChain(walk.ahead, walk) ELSE plan
        /\ pc' = IF walk.ahead = 1 /\ (longer => pNext[pos + 2] # 0) THEN "two" ELSE "plan"
  /\ UNCHANGED <<vars, chunkVars, lastPtr>>

\* No match here: _check_all_mtf failed, and no chain starts or the walk found none.
NothingFound ==
  \/ InPass1 /\ RepeatHere.len = 0 /\ pNext[pos] = 0 /\ UNCHANGED walk
  \/ WalkEnds /\ walk.ahead = 0 /\ walk.len < PtrMin

\* mtf_last_ptr is reset on the way into the literal loop; the variant forgets.
EnterLiteralsKeepingFlag ==
  /\ NothingFound
  /\ pc' = "literals"
  /\ UNCHANGED <<vars, chunkVars, lastPtr, plan>>

EnterLiterals ==
  /\ NothingFound
  /\ lastPtr' = FALSE
  /\ pc' = "literals"
  /\ UNCHANGED <<vars, chunkVars, plan>>

PlannedLiteral ==
  /\ pc = "plan" /\ plan.lits > 0
  /\ Emit(Literal(Byte(pos)), mtf)
  /\ plan' = [plan EXCEPT !.lits = @ - 1]
  /\ UNCHANGED <<chunkVars, lastPtr, pc, walk>>

PlannedMatch ==
  /\ pc = "plan" /\ plan.lits = 0
  /\ \/ /\ plan.kind = "ptr"
        /\ Emit(Pointer(plan.off, plan.len), PushOffset(mtf, plan.off))
     \/ /\ plan.kind = "mtf"
        /\ Emit(Repeat(plan.slot, plan.off, plan.len), UpdateMtf(mtf, plan.slot))
  /\ lastPtr' = TRUE
  /\ plan' = Idle
  /\ pc' = "top"
  /\ UNCHANGED <<chunkVars, walk>>

LiteralRun ==
  /\ pc = "literals"
  /\ Emit(Literal(Byte(pos)), mtf)
  /\ pc' = IF pos + 1 >= stop \/ WordRepeats(pos + 1) THEN "top" ELSE "literals"
  /\ UNCHANGED <<chunkVars, lastPtr, plan, walk>>

\* The positions no hash covers, after the last chunk.
FlushTail ==
  /\ pc = "top" /\ copied = n /\ pos >= stop /\ pos < n
  /\ Emit(Literal(Byte(pos)), mtf)
  /\ lastPtr' = FALSE
  /\ UNCHANGED <<chunkVars, pc, plan, walk>>

\* The decoder sees a token only as the symbols on the wire.
DecodeWire ==
  /\ copied = n
  /\ \/ taken < Len(tokens) /\ DecodeToken(Wire!Decoded(Wire!Encoded(tokens[taken + 1])))
     \/ DecodeEnd
  /\ UNCHANGED <<chunkVars, lastPtr, pc, plan, walk>>

----------------------------------------------------------------------------

CodecInit ==
  /\ Init
  /\ pNext = [p \in 0..(n - 1) |-> 0]
  /\ copied = 0 /\ stop = 0
  /\ lastPtr = FALSE
  /\ pc = "top"
  /\ plan = Idle /\ walk = NoWalk

Tokenize ==
  \/ NextChunk \/ TakeRepeat \/ LookUp \/ WalkPast \/ WalkOnto \/ Evaluate
  \/ LookOneAhead \/ LookTwoAhead \/ Improve \/ EnterLiterals \/ PlannedLiteral \/ PlannedMatch \/ LiteralRun \/ FlushTail

Stopped == result # "none" /\ UNCHANGED codecVars

CodecNext == Tokenize \/ DecodeWire \/ Stopped

\* One thread runs the encoder and then the decoder to the end.
Fairness == WF_codecVars(Tokenize) /\ WF_codecVars(DecodeWire)

CodecSpec == CodecInit /\ [][CodecNext]_codecVars /\ Fairness

----------------------------------------------------------------------------

Plans == [lits : 0..2, kind : {"none", "ptr", "mtf"}, slot : 0..(Slots - 1), off : Nat, len : Nat]
Walks == [ahead : 0..2, cand : 0..(n - 1), misses : 0..(Tick - 1), left : 0..MaxDepth,
          off : Nat, len : Nat]

(***************************************************************************)
(* Type invariant.                                                         *)
(***************************************************************************)
CodecTypeOK ==
  /\ TypeOK
  /\ pNext \in [0..(n - 1) -> 0..(n - 1)]
  /\ copied \in 0..n /\ stop \in 0..n
  /\ lastPtr \in BOOLEAN
  /\ pc \in {"top", "walk", "one", "two", "plan", "literals"}
  /\ plan \in Plans /\ walk \in Walks

(***************************************************************************)
(* The tokenizer with its chains, chunks and lazy evaluation, and the      *)
(* decoder behind the wire symbols, take only the steps the abstract       *)
(* stream allows: every match really repeats earlier bytes, indices are    *)
(* shifted exactly after a match, no byte is skipped or emitted twice      *)
(* (_lz77_tokenize).                                                       *)
(***************************************************************************)
ImplementsStream == Init /\ [][Next]_vars

(***************************************************************************)
(* At the top of the loop the flag mtf_last_ptr tells the truth about the  *)
(* last token, also where a lazy literal was emitted without resetting it. *)
(***************************************************************************)
LastPtrIsCurrent ==
  pc = "top" => lastPtr = (tokens # << >> /\ IsMatch(tokens[Len(tokens)]))

(***************************************************************************)
(* compress and decompress always come to an end: every chain walk, every  *)
(* literal run and every round of the loop makes progress.                 *)
(***************************************************************************)
Terminates == <>(result # "none")

(***************************************************************************)
(* Decompressing what compress produced gives the plaintext back           *)
(* (tests/ese/test_xpress9.py: test_compress_roundtrip).                   *)
(***************************************************************************)
RoundTrip == result # "none" => result = "ok"
============================================================================
