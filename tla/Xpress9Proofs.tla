---------------------------- MODULE Xpress9Proofs --------------------------
(***************************************************************************)
(* Proofs about XPRESS9, in three parts.                                   *)
(*                                                                         *)
(* The token stream, for every set of plaintexts, every length of the      *)
(* offset list and every minimum match length.  The inductive invariant    *)
(* has two halves: StreamInv says what each token of the encoder means in  *)
(* terms of the position and list it started from (kept in trail);         *)
(* DecoderInv ties the decoder to the entry of trail for the tokens it has *)
(* taken.                                                                  *)
(*                                                                         *)
(* The tokenizer, for every hash function, chunk size, search depth and    *)
(* filter on distances: it and the decoder behind the wire take only steps *)
(* of the stream.  CodecInv adds what the tokenizer knows at each place of *)
(* its loop (ControlInv): that the match in plan, and the best one of a    *)
(* walk, really repeat earlier bytes where they will be emitted; where the *)
(* flag mtf_last_ptr can be trusted; and how far the chunks and chains     *)
(* reach (BoundsInv).  SpellInv says that every token can be spelled in    *)
(* wire symbols, hence is read back as it was.                             *)
(*                                                                         *)
(* The tables of code lengths, which share nothing with these but the      *)
(* block.  A table comes back, whatever its size, rows and runs: the       *)
(* writer's history joins each element to the position, the previous       *)
(* length and the part of a run at which the reader must take it, and to   *)
(* those at which it must go on; what an element tells is the same for     *)
(* both sides.  The reader's part of the type invariant does not depend on *)
(* who wrote the stream.                                                   *)
(***************************************************************************)
EXTENDS Xpress9Codec, Xpress9Lengths, ArithmeticLemmas, SequenceTheorems

----------------------------------------------------------------------------
(* The token stream *)

\* Zero-based slot the encoder meant by the k-th token.
MeantSlot(k) == IF AfterMatch(k) THEN tokens[k].sym + 1 ELSE tokens[k].sym

Repeats(at, off, len) ==
  /\ off \in 1..at
  /\ at + len <= Len(data)
  /\ \A i \in 1..len : data[at + i] = data[at + i - off]

LiteralMeaning(t, a, b) ==
  /\ t.len = 1 /\ a.at < Len(data)
  /\ t.sym = data[a.at + 1]
  /\ b.list = a.list

PointerMeaning(t, a, b) ==
  /\ Repeats(a.at, t.off, t.len)
  /\ b.list = PushOffset(a.list, t.off)

RepeatMeaning(t, slot, a, b) ==
  /\ t.sym \in Nat
  /\ slot \in 0..(Slots - 1)
  /\ Repeats(a.at, a.list[slot + 1], t.len)
  /\ b.list = UpdateMtf(a.list, slot)

Meaning(k) ==
  /\ trail[k + 1].at = trail[k].at + tokens[k].len
  /\ tokens[k].kind = "lit" => LiteralMeaning(tokens[k], trail[k], trail[k + 1])
  /\ tokens[k].kind = "ptr" => PointerMeaning(tokens[k], trail[k], trail[k + 1])
  /\ tokens[k].kind = "mtf" => RepeatMeaning(tokens[k], MeantSlot(k), trail[k], trail[k + 1])

Unit == [i \in 1..Slots |-> 1]

StreamInv ==
  /\ Len(trail) = Len(tokens) + 1
  /\ trail[1] = [at |-> 0, list |-> Unit]
  /\ trail[Len(trail)] = [at |-> pos, list |-> mtf]
  /\ \A k \in 1..Len(tokens) : Meaning(k)
  /\ \A j, k \in 1..Len(trail) : j < k => trail[j].at < trail[k].at

DecoderInv ==
  /\ Len(out) = trail[taken + 1].at
  /\ dlast = AfterMatch(taken + 1)
  /\ OutputFollowsInput
  /\ ListsAgree
  /\ NoFalseRejection
  /\ pos < Len(data) => result = "none"

IndInv == TypeOK /\ StreamInv /\ DecoderInv

----------------------------------------------------------------------------

LEMMA DataIsSeq == ASSUME data \in Plaintexts PROVE data \in Seq(Int) /\ Len(data) \in Nat \ {0}
BY StreamAssumption

(***************************************************************************)
(* The list operations keep a list a list of Slots positive offsets.       *)
(***************************************************************************)
LEMMA ListTypes ==
  ASSUME NEW list \in Lists, NEW off \in Nat \ {0}, NEW slot \in 0..(Slots - 1)
  PROVE  /\ PushOffset(list, off) \in Lists
         /\ UpdateMtf(list, slot) \in Lists
         /\ MoveToFront(list, slot) \in Lists
         /\ list[slot + 1] \in Nat \ {0}
BY StreamAssumption DEF Lists, PushOffset, UpdateMtf, MoveToFront

(***************************************************************************)
(* _emit_mtf and _take_mtf_offset update the list alike, except for slot 0.*)
(***************************************************************************)
LEMMA SameUpdate ==
  ASSUME NEW list \in Lists, NEW slot \in 1..(Slots - 1)
  PROVE  UpdateMtf(list, slot) = MoveToFront(list, slot)
BY StreamAssumption DEF Lists, UpdateMtf, MoveToFront

(***************************************************************************)
(* Copying a match onto a prefix of the data extends the prefix, whether   *)
(* or not the match overlaps what it produces.                             *)
(***************************************************************************)
LEMMA CopyExtendsPrefix ==
  ASSUME NEW d \in Seq(Int), NEW at \in 0..Len(d), NEW off \in 1..at, NEW len \in Nat,
         at + len <= Len(d), RepeatsAfter(d, at, off, len)
  PROVE  CopyMatch(SubSeq(d, 1, at), off, len) = SubSeq(d, 1, at + len)
<1>1. Len(SubSeq(d, 1, at)) = at /\ \A i \in 1..at : SubSeq(d, 1, at)[i] = d[i]
  OBVIOUS
<1>2. SubSeq(d, 1, at + len) = [i \in 1..(at + len) |-> d[i]]
  OBVIOUS
<1>3. \A i \in 1..len : d[at + i] = d[at - off + 1 + ((i - 1) % off)]
  <2>1. at \in Nat /\ off \in Nat \ {0} /\ off <= at
    OBVIOUS
  <2>2. CyclesAfter(d, at, off, len)
    BY <2>1, OverlapIsCyclic
  <2> QED BY <2>2 DEF CyclesAfter
<1>4. ASSUME NEW i \in 1..(at + len), i > at
      PROVE  d[i] = SubSeq(d, 1, at)[at - off + 1 + ((i - at - 1) % off)]
  <2>1. i - at \in 1..len /\ at + (i - at) = i /\ i - at - 1 \in Nat
    BY <1>4
  <2>3. d[i] = d[at - off + 1 + ((i - at - 1) % off)]
    BY <1>3, <2>1
  <2>4. at - off + 1 + ((i - at - 1) % off) \in 1..at
    BY <2>1, CycleInside, at \in Nat, off \in 1..at
  <2> QED BY <1>1, <2>3, <2>4
<1> DEFINE pre == SubSeq(d, 1, at)
<1>5. CopyMatch(pre, off, len) =
        [i \in 1..(at + len) |-> IF i <= at THEN pre[i]
                                 ELSE pre[at - off + 1 + ((i - at - 1) % off)]]
  BY <1>1 DEF CopyMatch
<1>6. \A i \in 1..(at + len) : i <= at => pre[i] = d[i]
  BY <1>1
<1>7. \A i \in 1..(at + len) : i > at => pre[at - off + 1 + ((i - at - 1) % off)] = d[i]
  BY <1>4
<1>8. at + len \in Nat /\ at \in Nat
  OBVIOUS
<1> HIDE DEF pre
<1> QED
  <2>1. CopyMatch(pre, off, len) = [i \in 1..(at + len) |-> d[i]]
    BY <1>5, <1>6, <1>7, <1>8
  <2> QED BY <1>2, <2>1 DEF pre

----------------------------------------------------------------------------
(* The encoder's steps *)

\* What Meaning will say of t, were it emitted with the new list l.
MeaningOfNext(t, l) ==
  LET a == [at |-> pos, list |-> mtf]
      b == [at |-> pos + t.len, list |-> l]
      slot == IF AfterMatch(Len(tokens) + 1) THEN t.sym + 1 ELSE t.sym
  IN /\ t.kind = "lit" => LiteralMeaning(t, a, b)
     /\ t.kind = "ptr" => PointerMeaning(t, a, b)
     /\ t.kind = "mtf" => RepeatMeaning(t, slot, a, b)

(***************************************************************************)
(* Emitting a token that means what it should keeps the whole invariant.   *)
(***************************************************************************)
LEMMA EmitKeepsInv ==
  ASSUME IndInv, NEW t \in Tokens, NEW l \in Lists,
         pos + t.len <= Len(data), MeaningOfNext(t, l), Emit(t, l)
  PROVE  IndInv'
<1> DEFINE m == Len(tokens)
<1>0. data \in Seq(Int) /\ Len(data) \in Nat \ {0}
  BY DataIsSeq DEF IndInv, TypeOK
<1>1. t.len \in Nat \ {0} /\ pos \in Nat /\ pos < Len(data)
  BY <1>0 DEF IndInv, TypeOK, Tokens
<1>2. /\ tokens' = Append(tokens, t) /\ pos' = pos + t.len /\ mtf' = l
      /\ trail' = Append(trail, [at |-> pos + t.len, list |-> l])
      /\ data' = data /\ taken' = taken /\ out' = out /\ dmtf' = dmtf
      /\ dlast' = dlast /\ result' = result
  BY DEF Emit, decVars
<1>3. /\ tokens \in Seq(Tokens) /\ m \in Nat /\ Len(tokens') = m + 1
      /\ \A k \in 1..m : tokens'[k] = tokens[k]
      /\ tokens'[m + 1] = t
  BY <1>2 DEF IndInv, TypeOK
<1>4. /\ trail \in Seq([at : Nat, list : Lists]) /\ Len(trail) = m + 1
      /\ Len(trail') = m + 2
      /\ \A k \in 1..(m + 1) : trail'[k] = trail[k]
      /\ trail'[m + 2] = [at |-> pos + t.len, list |-> l]
      /\ trail[m + 1] = [at |-> pos, list |-> mtf]
  BY <1>2 DEF IndInv, TypeOK, StreamInv
<1> HIDE DEF m
<1>5. TypeOK'
  <2>1. tokens' \in Seq(Tokens)
    BY <1>2, <1>3
  <2>2. trail' \in Seq([at : Nat, list : Lists])
    BY <1>1, <1>2, <1>4
  <2>3. taken \in 0..(m + 1)
    BY <1>3 DEF IndInv, TypeOK, m
  <2> QED BY <1>0, <1>1, <1>2, <1>3, <2>1, <2>2, <2>3 DEF IndInv, TypeOK
<1>6. \A k \in 1..(m + 1) : AfterMatch(k)' = AfterMatch(k)
  BY <1>3 DEF AfterMatch, IsMatch
<1>7. StreamInv'
  <2>1. trail'[1] = [at |-> 0, list |-> Unit]
    BY <1>3, <1>4 DEF IndInv, StreamInv
  <2>2. trail'[Len(trail')] = [at |-> pos', list |-> mtf']
    BY <1>2, <1>4
  <2>3. ASSUME NEW k \in 1..(m + 1) PROVE Meaning(k)'
    <3>1. CASE k <= m
      <4>1. k \in 1..m /\ k \in 1..(m + 1) /\ k + 1 \in 1..(m + 1)
        BY <1>3, <3>1
      <4>2. tokens'[k] = tokens[k] /\ trail'[k] = trail[k] /\ trail'[k + 1] = trail[k + 1]
        BY <1>3, <1>4, <4>1
      <4>3. MeantSlot(k)' = MeantSlot(k)
        BY <1>6, <4>1, <4>2 DEF MeantSlot
      <4>4. Meaning(k)
        BY <4>1 DEF IndInv, StreamInv, m
      <4> QED BY <1>2, <4>2, <4>3, <4>4
              DEF Meaning, LiteralMeaning, PointerMeaning, RepeatMeaning, Repeats
    <3>2. CASE k = m + 1
      <4>1. tokens'[k] = t /\ trail'[k] = [at |-> pos, list |-> mtf]
            /\ trail'[k + 1] = [at |-> pos + t.len, list |-> l]
        BY <1>3, <1>4, <3>2
      <4>2. MeantSlot(k)' = IF AfterMatch(m + 1) THEN t.sym + 1 ELSE t.sym
        BY <1>6, <3>2, <4>1 DEF MeantSlot
      <4>3. trail'[k + 1].at = trail'[k].at + tokens'[k].len
        BY <4>1
      <4>4. (tokens[k].kind = "lit" => LiteralMeaning(tokens[k], trail[k], trail[k + 1]))'
        BY <1>2, <4>1 DEF MeaningOfNext, LiteralMeaning
      <4>5. (tokens[k].kind = "ptr" => PointerMeaning(tokens[k], trail[k], trail[k + 1]))'
        BY <1>2, <4>1 DEF MeaningOfNext, PointerMeaning, Repeats
      <4>6. (tokens[k].kind = "mtf" => RepeatMeaning(tokens[k], MeantSlot(k), trail[k], trail[k + 1]))'
        BY <1>2, <4>1, <4>2 DEF MeaningOfNext, RepeatMeaning, Repeats, m
      <4> QED BY <4>3, <4>4, <4>5, <4>6 DEF Meaning
    <3> QED BY <1>3, <3>1, <3>2
  <2>4. ASSUME NEW j \in 1..(m + 2), NEW k \in 1..(m + 2), j < k
        PROVE  trail'[j].at < trail'[k].at
    <3>1. j \in 1..(m + 1) /\ trail'[j] = trail[j]
      BY <1>3, <1>4, <2>4
    <3>0. trail[j].at \in Nat
      <4>1. trail[j] \in [at : Nat, list : Lists]
        BY <1>3, <1>4, <3>1, ElementOfSeq
      <4> QED BY <4>1
    <3>2. CASE k <= m + 1
      BY <1>3, <1>4, <2>4, <3>1, <3>2 DEF IndInv, StreamInv
    <3>3. CASE k = m + 2
      <4>1. trail[j].at <= pos
        <5>1. CASE j = m + 1
          BY <1>1, <1>4, <5>1
        <5>2. CASE j < m + 1
          <6>1. \A i, o \in 1..Len(trail) : i < o => trail[i].at < trail[o].at
            BY DEF IndInv, StreamInv
          <6>2. Len(trail) = m + 1 /\ j \in 1..(m + 1) /\ m + 1 \in 1..(m + 1)
            BY <1>3, <1>4, <3>1
          <6>3. trail[j].at < trail[m + 1].at
            BY <5>2, <6>1, <6>2
          <6> QED BY <1>1, <1>4, <3>0, <6>3
        <5> QED BY <1>3, <3>1, <5>1, <5>2
      <4>2. trail'[j].at = trail[j].at /\ trail'[k].at = pos + t.len
        BY <1>4, <3>1, <3>3
      <4> QED BY <1>1, <3>0, <4>1, <4>2
    <3> QED BY <1>3, <2>4, <3>2, <3>3
  <2> QED BY <1>3, <1>4, <2>1, <2>2, <2>3, <2>4 DEF StreamInv
<1>8. DecoderInv'
  <2>1. taken \in 0..m /\ taken + 1 \in 1..(m + 1)
    BY <1>3 DEF IndInv, TypeOK, m
  <2>2. trail'[taken + 1] = trail[taken + 1] /\ AfterMatch(taken + 1)' = AfterMatch(taken + 1)
    BY <1>2, <1>4, <1>6, <2>1
  <2>3. ReusedFirst(taken)' = ReusedFirst(taken)
    <3>1. \A j \in 1..taken : tokens'[j] = tokens[j] /\ AfterMatch(j)' = AfterMatch(j)
      BY <1>3, <1>6, <2>1
    <3> QED BY <1>2, <3>1 DEF ReusedFirst
  <2>4. result = "none"
    BY <1>1 DEF IndInv, DecoderInv
  <2> QED BY <1>2, <2>1, <2>2, <2>3, <2>4
          DEF IndInv, DecoderInv, OutputFollowsInput, ListsAgree, NoFalseRejection
<1> QED BY <1>5, <1>7, <1>8 DEF IndInv

LEMMA LiteralKeepsInv == ASSUME IndInv, EmitLiteral PROVE IndInv'
<1> DEFINE t == Literal(data[pos + 1])
<1>1. data \in Seq(Int) /\ Len(data) \in Nat
  BY DataIsSeq DEF IndInv, TypeOK
<1>2. pos \in Nat /\ pos < Len(data) /\ mtf \in Lists
  BY <1>1 DEF EmitLiteral, IndInv, TypeOK
<1>3. t \in Tokens /\ t.kind = "lit" /\ t.len = 1 /\ t.sym = data[pos + 1]
  BY <1>1, <1>2 DEF Literal, Tokens
<1>4. Emit(t, mtf)
  BY DEF EmitLiteral
<1> HIDE DEF t
<1>5. MeaningOfNext(t, mtf)
  BY <1>2, <1>3 DEF MeaningOfNext, LiteralMeaning
<1>6. pos + t.len <= Len(data)
  BY <1>1, <1>2, <1>3
<1> QED BY <1>2, <1>3, <1>4, <1>5, <1>6, EmitKeepsInv

LEMMA PointerKeepsInv ==
  ASSUME IndInv, NEW off \in 1..pos, NEW len \in 1..(Len(data) - pos), EmitPointer(off, len)
  PROVE  IndInv'
<1> DEFINE t == Pointer(off, len)
           l == PushOffset(mtf, off)
<1>1. data \in Seq(Int) /\ Len(data) \in Nat
  BY DataIsSeq DEF IndInv, TypeOK
<1>2. pos \in Nat /\ mtf \in Lists
  BY <1>1 DEF IndInv, TypeOK
<1>3. t \in Tokens /\ t.kind = "ptr" /\ t.len = len /\ t.off = off
  BY <1>1, <1>2 DEF Pointer, Tokens
<1>4. Emit(t, l) /\ TrueMatch(off, len)
  BY DEF EmitPointer
<1>5. l \in Lists
  <2>1. 0 \in 0..(Slots - 1)
    BY StreamAssumption
  <2> QED BY <1>2, <2>1, ListTypes
<1>6. MeaningOfNext(t, l)
  BY <1>2, <1>3, <1>4 DEF MeaningOfNext, PointerMeaning, TrueMatch, Repeats
<1>7. pos + t.len <= Len(data)
  BY <1>3, <1>4 DEF TrueMatch
<1> HIDE DEF t, l
<1> QED BY <1>3, <1>4, <1>5, <1>6, <1>7, EmitKeepsInv

LEMMA RepeatKeepsInv ==
  ASSUME IndInv, NEW slot \in 0..(Slots - 1), NEW len \in 1..(Len(data) - pos),
         EmitRepeat(slot, len)
  PROVE  IndInv'
<1> DEFINE shift == IF AfterMatch(Len(tokens) + 1) THEN 1 ELSE 0
           off == mtf[slot + 1]
           t == Repeat(slot - shift, off, len)
           l == UpdateMtf(mtf, slot)
<1>1. data \in Seq(Int) /\ Len(data) \in Nat
  BY DataIsSeq DEF IndInv, TypeOK
<1>2. pos \in Nat /\ mtf \in Lists
  BY <1>1 DEF IndInv, TypeOK
<1>3. l \in Lists /\ off \in Nat \ {0}
  BY <1>2, ListTypes
<1>4. Emit(t, l) /\ TrueMatch(off, len) /\ slot >= shift
  BY DEF EmitRepeat
<1>5. t \in Tokens /\ t.kind = "mtf" /\ t.len = len /\ t.sym = slot - shift
  BY <1>1, <1>2, <1>3 DEF Repeat, Tokens
<1>6. MeaningOfNext(t, l)
  <2>1. t.sym \in Nat /\ (IF AfterMatch(Len(tokens) + 1) THEN t.sym + 1 ELSE t.sym) = slot
    BY <1>4, <1>5
  <2>2. Repeats(pos, off, len)
    BY <1>2, <1>3, <1>4 DEF TrueMatch, Repeats
  <2> QED BY <1>5, <2>1, <2>2 DEF MeaningOfNext, RepeatMeaning
<1>7. pos + t.len <= Len(data)
  BY <1>4, <1>5 DEF TrueMatch
<1> HIDE DEF t, l, shift, off
<1> QED BY <1>3, <1>4, <1>5, <1>6, <1>7, EmitKeepsInv

----------------------------------------------------------------------------
(* The decoder's steps *)

(***************************************************************************)
(* What the k-th token, k being the next to decode, means for a decoder    *)
(* that has not met a reuse of slot 0 after a literal.                     *)
(***************************************************************************)
LEMMA NextToken ==
  ASSUME IndInv, taken < Len(tokens)
  PROVE  /\ taken + 1 \in 1..Len(tokens)
         /\ tokens[taken + 1] \in Tokens
         /\ Meaning(taken + 1)
         /\ trail[taken + 1] \in [at : Nat, list : Lists]
         /\ trail[taken + 2] \in [at : Nat, list : Lists]
         /\ trail[taken + 2].at <= pos
<1>1. tokens \in Seq(Tokens) /\ taken \in Nat /\ Len(tokens) \in Nat /\ pos \in Nat
  BY DataIsSeq DEF IndInv, TypeOK
<1>2. taken + 1 \in 1..Len(tokens)
  BY <1>1
<1>3. trail \in Seq([at : Nat, list : Lists]) /\ Len(trail) = Len(tokens) + 1
  BY DEF IndInv, TypeOK, StreamInv
<1>4. taken + 1 \in 1..Len(trail) /\ taken + 2 \in 1..Len(trail) /\ Len(trail) \in 1..Len(trail)
  BY <1>1, <1>2, <1>3
<1>5. trail[taken + 1] \in [at : Nat, list : Lists] /\ trail[taken + 2] \in [at : Nat, list : Lists]
  BY <1>3, <1>4, ElementOfSeq
<1>6. tokens[taken + 1] \in Tokens
  BY <1>1, <1>2, ElementOfSeq
<1>7. Meaning(taken + 1)
  BY <1>2 DEF IndInv, StreamInv
<1>8. trail[taken + 2].at <= pos
  <2>1. trail[Len(trail)].at = pos
    BY DEF IndInv, StreamInv
  <2>2. CASE taken + 2 = Len(trail)
    BY <1>1, <2>1, <2>2
  <2>3. CASE taken + 2 < Len(trail)
    <3>1. trail[taken + 2].at < trail[Len(trail)].at
      BY <1>4, <2>3 DEF IndInv, StreamInv
    <3>2. trail[taken + 2].at \in Nat
      BY <1>5
    <3> QED BY <1>1, <2>1, <3>1, <3>2
  <2>4. taken + 2 <= Len(trail) /\ taken + 2 \in Nat /\ Len(trail) \in Nat
    BY <1>1, <1>3
  <2> QED BY <2>2, <2>3, <2>4
<1> QED BY <1>2, <1>5, <1>6, <1>7, <1>8

(***************************************************************************)
(* Reuse of slot 0 after a literal, one token further.                     *)
(***************************************************************************)
LEMMA ReuseStep ==
  ASSUME IndInv, taken < Len(tokens)
  PROVE  ReusedFirst(taken + 1) <=>
           \/ ReusedFirst(taken)
           \/ /\ tokens[taken + 1].kind = "mtf" /\ tokens[taken + 1].sym = 0
              /\ ~AfterMatch(taken + 1)
<1>1. taken \in Nat
  BY DEF IndInv, TypeOK
<1>2. 1..(taken + 1) = (1..taken) \union {taken + 1}
  BY <1>1
<1> QED BY <1>2 DEF ReusedFirst

LEMMA ReuseIsMonotone ==
  ASSUME IndInv, NEW k \in 0..Len(tokens), ReusedFirst(k)
  PROVE  ReusedFirst(Len(tokens))
<1>1. Len(tokens) \in Nat
  BY DEF IndInv, TypeOK
<1> QED BY <1>1 DEF ReusedFirst

\* The half about the encoder does not depend on the decoder.
LEMMA StreamUnchanged == ASSUME StreamInv, UNCHANGED encVars PROVE StreamInv'
<1>1. /\ data' = data /\ pos' = pos /\ mtf' = mtf /\ tokens' = tokens /\ trail' = trail
  BY DEF encVars
<1>2. ASSUME NEW k \in 1..Len(tokens) PROVE Meaning(k)'
  <2>1. Meaning(k)
    BY DEF StreamInv
  <2>2. MeantSlot(k)' = MeantSlot(k)
    BY <1>1 DEF MeantSlot, AfterMatch, IsMatch
  <2> QED BY <1>1, <2>1, <2>2
          DEF Meaning, LiteralMeaning, PointerMeaning, RepeatMeaning, Repeats
<1> QED BY <1>1, <1>2 DEF StreamInv

(***************************************************************************)
(* Decoding one token keeps the invariant if the output reaches the end of *)
(* the token and, while slot 0 was not reused, output and list are right.  *)
(***************************************************************************)
LEMMA AdvanceKeepsInv ==
  ASSUME IndInv, Decoding, UNCHANGED <<encVars, result>>, taken' = taken + 1,
         out' \in Seq(Int), Len(out') = trail[taken + 2].at,
         dmtf' \in Lists, dlast' = IsMatch(tokens[taken + 1]),
         ~ReusedFirst(taken + 1) => /\ out' = SubSeq(data, 1, trail[taken + 2].at)
                                    /\ dmtf' = trail[taken + 2].list
  PROVE  IndInv'
<1>1. /\ data' = data /\ pos' = pos /\ mtf' = mtf /\ tokens' = tokens /\ trail' = trail
      /\ result' = result
  BY DEF encVars
<1>2. taken \in Nat /\ Len(tokens) \in Nat /\ taken < Len(tokens) /\ pos = Len(data)
      /\ result = "none"
  BY DEF Decoding, IndInv, TypeOK
<1>3. TypeOK'
  BY <1>1, <1>2 DEF IndInv, TypeOK, IsMatch
<1>4. StreamInv'
  BY StreamUnchanged DEF IndInv
<1>5. AfterMatch(taken + 1)' = IsMatch(tokens[taken + 1])
  <2>1. taken' + 1 > 1 /\ (taken' + 1) - 1 = taken + 1
    BY <1>2
  <2> QED BY <1>1, <2>1 DEF AfterMatch, IsMatch
<1>6. ReusedFirst(taken)' = ReusedFirst(taken + 1)
  BY <1>1 DEF ReusedFirst, AfterMatch
<1>7. taken' + 1 = taken + 2
  BY <1>2
<1>8. OutputFollowsInput' /\ ListsAgree'
  BY <1>1, <1>6, <1>7 DEF OutputFollowsInput, ListsAgree
<1>9. DecoderInv'
  <2>1. Len(out)' = trail'[taken' + 1].at /\ dlast' = AfterMatch(taken + 1)'
    BY <1>1, <1>5, <1>7
  <2>2. NoFalseRejection' /\ (pos < Len(data) => result = "none")'
    BY <1>1, <1>2 DEF NoFalseRejection
  <2> QED BY <1>8, <2>1, <2>2 DEF DecoderInv
<1> QED BY <1>3, <1>4, <1>9 DEF IndInv

(***************************************************************************)
(* A verdict may be reached only with the encoder done, and a refusal only *)
(* after a reuse of slot 0.                                                *)
(***************************************************************************)
LEMMA VerdictKeepsInv ==
  ASSUME IndInv, UNCHANGED <<encVars, taken, out, dmtf, dlast>>, pos = Len(data),
         result' \in {"ok", "DecompressionError", "IntegrityError"},
         result' # "ok" => ReusedFirst(Len(tokens))
  PROVE  IndInv'
<1>1. /\ data' = data /\ pos' = pos /\ mtf' = mtf /\ tokens' = tokens /\ trail' = trail
      /\ taken' = taken /\ out' = out /\ dmtf' = dmtf /\ dlast' = dlast
  BY DEF encVars
<1>2. TypeOK'
  BY <1>1 DEF IndInv, TypeOK
<1>3. StreamInv'
  BY StreamUnchanged DEF IndInv
<1>4. OutputFollowsInput' /\ ListsAgree'
  BY <1>1 DEF IndInv, DecoderInv, OutputFollowsInput, ListsAgree, ReusedFirst, AfterMatch
<1>5. NoFalseRejection'
  BY <1>1 DEF NoFalseRejection, ReusedFirst, AfterMatch
<1>6. (pos < Len(data) => result = "none")'
  <2>1. Len(data) \in Nat
    BY DataIsSeq DEF IndInv, TypeOK
  <2> QED BY <1>1, <2>1
<1>7. DecoderInv'
  BY <1>1, <1>4, <1>5, <1>6 DEF IndInv, DecoderInv, AfterMatch
<1> QED BY <1>2, <1>3, <1>7 DEF IndInv

LEMMA MatchKeepsInv ==
  ASSUME IndInv, Decoding, IsMatch(tokens[taken + 1]),
         NEW off \in Nat \ {0}, NEW list \in Lists,
         FinishMatch(off, tokens[taken + 1].len, list),
         ~ReusedFirst(taken + 1) => /\ Repeats(trail[taken + 1].at, off, tokens[taken + 1].len)
                                    /\ list = trail[taken + 2].list
  PROVE  IndInv'
<1> DEFINE len == tokens[taken + 1].len
           at  == trail[taken + 1].at
<1>1. taken \in Nat /\ taken < Len(tokens) /\ pos = Len(data) /\ result = "none"
  BY DEF Decoding, IndInv, TypeOK
<1>2. len \in Nat \ {0} /\ at \in Nat /\ trail[taken + 2].at = at + len
  <2>1. taken + 2 = (taken + 1) + 1
    BY <1>1
  <2> QED BY <1>1, <2>1, NextToken DEF Tokens, Meaning
<1>3. out \in Seq(Int) /\ Len(out) = at /\ data \in Seq(Int) /\ Len(data) \in Nat
  BY DataIsSeq DEF IndInv, TypeOK, DecoderInv
<1> HIDE DEF len, at
<1>4. CASE off <= Len(out) /\ len <= Len(data) - Len(out)
  <2>1. /\ out' = CopyMatch(out, off, len) /\ taken' = taken + 1 /\ dmtf' = list
        /\ dlast' = TRUE /\ UNCHANGED <<encVars, result>>
    BY <1>4 DEF FinishMatch, len
  <2>2. out' \in Seq(Int) /\ Len(out') = at + len
    <3> DEFINE src(i) == at - off + 1 + ((i - at - 1) % off)
    <3>1. ASSUME NEW i \in 1..(at + len), i > at PROVE src(i) \in 1..at
      <4>1. i - at - 1 \in Nat /\ off \in 1..at
        BY <1>2, <1>3, <1>4, <3>1
      <4> QED BY <1>2, <4>1, CycleInside
    <3>2. CopyMatch(out, off, len) =
            [i \in 1..(at + len) |-> IF i <= at THEN out[i] ELSE out[src(i)]]
      BY <1>3 DEF CopyMatch
    <3> HIDE DEF src
    <3>3. \A i \in 1..at : out[i] \in Int
      BY <1>3
    <3>4. \A i \in 1..(at + len) : (IF i <= at THEN out[i] ELSE out[src(i)]) \in Int
      BY <1>2, <3>1, <3>3
    <3>5. CopyMatch(out, off, len) \in [1..(at + len) -> Int]
      BY <3>2, <3>4
    <3> QED BY <1>2, <2>1, <3>5
  <2>3. ASSUME ~ReusedFirst(taken + 1) PROVE out' = SubSeq(data, 1, at + len)
    <3>1. out = SubSeq(data, 1, at)
      BY <1>1, <2>3, ReuseStep DEF IndInv, DecoderInv, OutputFollowsInput, at
    <3>2. Repeats(at, off, len)
      BY <2>3 DEF at, len
    <3>3. at \in 0..Len(data) /\ off \in 1..at /\ at + len <= Len(data)
      BY <1>2, <1>3, <1>4, <3>2 DEF Repeats
    <3>4. RepeatsAfter(data, at, off, len)
      BY <3>2 DEF Repeats, RepeatsAfter
    <3>5. CopyMatch(SubSeq(data, 1, at), off, len) = SubSeq(data, 1, at + len)
      BY <1>2, <1>3, <3>3, <3>4, CopyExtendsPrefix
    <3> QED BY <2>1, <3>1, <3>5
  <2> QED BY <1>2, <2>1, <2>2, <2>3, AdvanceKeepsInv
<1>5. CASE ~(off <= Len(out) /\ len <= Len(data) - Len(out))
  <2>1. Reject
    BY <1>5 DEF FinishMatch, len
  <2>2. ReusedFirst(taken + 1)
    <3> SUFFICES ASSUME ~ReusedFirst(taken + 1) PROVE FALSE
      OBVIOUS
    <3>1. Repeats(at, off, len)
      BY DEF at, len
    <3> QED BY <1>2, <1>3, <1>5, <3>1 DEF Repeats
  <2>3. ReusedFirst(Len(tokens))
    BY <1>1, <2>2, ReuseIsMonotone, taken + 1 \in 0..Len(tokens)
  <2> QED BY <1>1, <2>1, <2>3, VerdictKeepsInv DEF Reject
<1> QED BY <1>4, <1>5

LEMMA DecodeLiteralKeepsInv ==
  ASSUME IndInv, DecodeLiteral(tokens[taken + 1])
  PROVE  IndInv'
<1> DEFINE t == tokens[taken + 1]
<1>1. Decoding /\ t.kind = "lit" /\ out' = Append(out, t.sym) /\ taken' = taken + 1
      /\ dlast' = FALSE /\ UNCHANGED <<encVars, dmtf, result>>
  BY DEF DecodeLiteral
<1>2. taken \in Nat /\ taken < Len(tokens)
  BY <1>1 DEF Decoding, IndInv, TypeOK
<1>3. /\ t.sym \in Int /\ trail[taken + 1].at \in Nat
      /\ trail[taken + 2].at = trail[taken + 1].at + 1
      /\ trail[taken + 1].at < Len(data)
      /\ t.sym = data[trail[taken + 1].at + 1]
      /\ trail[taken + 2].list = trail[taken + 1].list
  <2>1. taken + 2 = (taken + 1) + 1
    BY <1>2
  <2> QED BY <1>1, <1>2, <2>1, NextToken DEF Tokens, Meaning, LiteralMeaning
<1>4. out \in Seq(Int) /\ Len(out) = trail[taken + 1].at /\ dmtf \in Lists
      /\ data \in Seq(Int) /\ Len(data) \in Nat
  BY DataIsSeq DEF IndInv, TypeOK, DecoderInv
<1>5. ~ReusedFirst(taken + 1) => ~ReusedFirst(taken)
  BY <1>2, ReuseStep
<1>6. ~ReusedFirst(taken + 1) => out' = SubSeq(data, 1, trail[taken + 2].at)
  <2> DEFINE at == trail[taken + 1].at
  <2>1. at \in Nat /\ at < Len(data) /\ out' = Append(out, data[at + 1])
    BY <1>1, <1>3
  <2>2. ~ReusedFirst(taken + 1) => out = SubSeq(data, 1, at)
    BY <1>5 DEF IndInv, DecoderInv, OutputFollowsInput
  <2> HIDE DEF at
  <2>3. Append(SubSeq(data, 1, at), data[at + 1]) = SubSeq(data, 1, at + 1)
    BY <1>4, <2>1
  <2> QED BY <1>3, <2>1, <2>2, <2>3 DEF at
<1>7. ~ReusedFirst(taken + 1) => dmtf' = trail[taken + 2].list
  BY <1>1, <1>3, <1>5 DEF IndInv, DecoderInv, ListsAgree
<1>8. out' \in Seq(Int) /\ Len(out') = trail[taken + 2].at /\ dmtf' \in Lists
  BY <1>1, <1>3, <1>4
<1>9. dlast' = IsMatch(t)
  BY <1>1 DEF IsMatch
<1> QED BY <1>1, <1>6, <1>7, <1>8, <1>9, AdvanceKeepsInv

LEMMA DecodePointerKeepsInv ==
  ASSUME IndInv, DecodePointer(tokens[taken + 1])
  PROVE  IndInv'
<1> DEFINE t == tokens[taken + 1]
           list == PushOffset(dmtf, t.off)
<1>1. Decoding /\ t.kind = "ptr" /\ FinishMatch(t.off, t.len, list) /\ IsMatch(t)
  BY DEF DecodePointer, IsMatch
<1>2. taken \in Nat /\ taken < Len(tokens)
  BY <1>1 DEF Decoding, IndInv, TypeOK
<1>3. /\ Repeats(trail[taken + 1].at, t.off, t.len)
      /\ trail[taken + 2].list = PushOffset(trail[taken + 1].list, t.off)
  <2>1. taken + 2 = (taken + 1) + 1
    BY <1>2
  <2> QED BY <1>1, <1>2, <2>1, NextToken DEF Meaning, PointerMeaning
<1>4. t.off \in Nat \ {0}
  <2>1. trail[taken + 1].at \in Nat
    BY <1>2, NextToken
  <2> QED BY <1>3, <2>1 DEF Repeats
<1>5. list \in Lists
  BY <1>4, ListTypes, StreamAssumption, 0 \in 0..(Slots - 1) DEF IndInv, TypeOK
<1>6. ~ReusedFirst(taken + 1) => list = trail[taken + 2].list
  BY <1>2, <1>3, ReuseStep DEF IndInv, DecoderInv, ListsAgree
<1> QED
  <2> HIDE DEF list
  <2> QED BY <1>1, <1>3, <1>4, <1>5, <1>6, MatchKeepsInv

(***************************************************************************)
(* A repeat names the slot the encoder meant; unless that is slot 0 after  *)
(* a literal, both sides then update their lists alike.                    *)
(***************************************************************************)
LEMMA DecodeRepeatKeepsInv ==
  ASSUME IndInv, DecodeRepeat(tokens[taken + 1])
  PROVE  IndInv'
<1> DEFINE t == tokens[taken + 1]
           slot == TakenSlot(t.sym)
<1>1. Decoding /\ t.kind = "mtf" /\ IsMatch(t)
  BY DEF DecodeRepeat, IsMatch
<1>2. taken \in Nat /\ taken < Len(tokens)
  BY <1>1 DEF Decoding, IndInv, TypeOK
<1>3. slot = MeantSlot(taken + 1)
  BY DEF TakenSlot, MeantSlot, IndInv, DecoderInv
<1>4. /\ t.sym \in Nat /\ slot \in 0..(Slots - 1)
      /\ Repeats(trail[taken + 1].at, trail[taken + 1].list[slot + 1], t.len)
      /\ trail[taken + 2].list = UpdateMtf(trail[taken + 1].list, slot)
  <2>1. taken + 2 = (taken + 1) + 1
    BY <1>2
  <2>2. RepeatMeaning(t, MeantSlot(taken + 1), trail[taken + 1], trail[(taken + 1) + 1])
    BY <1>1, <1>2, NextToken DEF Meaning
  <2> QED BY <1>3, <2>1, <2>2 DEF RepeatMeaning
<1>5. slot = 0 => t.sym = 0 /\ ~AfterMatch(taken + 1)
  BY <1>4 DEF TakenSlot, IndInv, DecoderInv
<1> HIDE DEF slot
<1>6. FinishMatch(dmtf[slot + 1], t.len, MoveToFront(dmtf, slot))
  <2>1. slot < Slots
    BY <1>4, StreamAssumption
  <2> QED BY <2>1 DEF DecodeRepeat, slot
<1>7. dmtf \in Lists /\ 1 \in Nat \ {0}
  BY DEF IndInv, TypeOK
<1>8. dmtf[slot + 1] \in Nat \ {0} /\ MoveToFront(dmtf, slot) \in Lists
  BY <1>4, <1>7, ListTypes
<1>9. ASSUME ~ReusedFirst(taken + 1)
      PROVE  /\ Repeats(trail[taken + 1].at, dmtf[slot + 1], t.len)
             /\ MoveToFront(dmtf, slot) = trail[taken + 2].list
  <2>1. ~ReusedFirst(taken) /\ slot # 0
    BY <1>1, <1>2, <1>5, <1>9, ReuseStep
  <2>2. dmtf = trail[taken + 1].list
    BY <2>1 DEF IndInv, DecoderInv, ListsAgree
  <2>3. UpdateMtf(dmtf, slot) = MoveToFront(dmtf, slot)
    BY <1>4, <1>7, <2>1, SameUpdate, slot \in 1..(Slots - 1)
  <2> QED BY <1>4, <2>2, <2>3
<1> QED BY <1>1, <1>6, <1>8, <1>9, MatchKeepsInv

(***************************************************************************)
(* Decoding ends well unless slot 0 was reused: output and tokens are      *)
(* exhausted together because every token has a positive length.           *)
(***************************************************************************)
LEMMA DecodeEndKeepsInv == ASSUME IndInv, DecodeEnd PROVE IndInv'
<1>1. /\ pos = Len(data) /\ UNCHANGED <<encVars, taken, out, dmtf, dlast>>
      /\ result' \in {"ok", "DecompressionError", "IntegrityError"}
      /\ taken = Len(tokens) \/ Len(out) = Len(data)
  BY DEF DecodeEnd
<1>2. taken \in 0..Len(tokens) /\ Len(tokens) \in Nat /\ Len(trail) = Len(tokens) + 1
      /\ Len(out) = trail[taken + 1].at /\ data \in Seq(Int) /\ Len(data) \in Nat
  BY DataIsSeq DEF IndInv, TypeOK, StreamInv, DecoderInv
<1>3. trail[Len(tokens) + 1].at = pos
  BY <1>2 DEF IndInv, StreamInv
<1>4. taken = Len(tokens) /\ Len(out) = Len(data)
  <2>1. CASE taken = Len(tokens)
    BY <1>1, <1>2, <1>3, <2>1
  <2>2. CASE taken < Len(tokens)
    <3>1. trail[taken + 1].at < trail[Len(tokens) + 1].at
      <4>1. /\ taken + 1 \in 1..Len(trail) /\ Len(tokens) + 1 \in 1..Len(trail)
            /\ taken + 1 < Len(tokens) + 1
        BY <1>2, <2>2
      <4> QED BY <4>1 DEF IndInv, StreamInv
    <3>2. trail[taken + 1].at \in Nat
      BY <2>2, NextToken
    <3> QED BY <1>1, <1>2, <1>3, <2>2, <3>1, <3>2
  <2> QED BY <1>2, <2>1, <2>2
<1>5. ~ReusedFirst(taken) => out = data
  <2>1. SubSeq(data, 1, Len(data)) = data
    BY <1>2
  <2> QED BY <1>2, <1>4, <2>1 DEF IndInv, DecoderInv, OutputFollowsInput
<1>6. result' # "ok" => ReusedFirst(Len(tokens))
  BY <1>4, <1>5 DEF DecodeEnd
<1> QED BY <1>1, <1>6, VerdictKeepsInv

----------------------------------------------------------------------------
(* The theorems *)

LEMMA InitInv == Init => IndInv
<1> SUFFICES ASSUME Init PROVE IndInv
  OBVIOUS
<1>1. data \in Seq(Int) /\ Len(data) \in Nat
  BY DataIsSeq DEF Init
<1>2. Unit \in Lists /\ mtf = Unit /\ dmtf = Unit
  BY StreamAssumption DEF Init, Lists, Unit
<1>3. Len(tokens) = 0 /\ Len(trail) = 1 /\ trail[1] = [at |-> 0, list |-> Unit] /\ taken = 0
  BY <1>2 DEF Init
<1>4. TypeOK
  <2>1. trail \in Seq([at : Nat, list : Lists])
    <3> DEFINE entry == [at |-> 0, list |-> Unit]
    <3>1. entry \in [at : Nat, list : Lists] /\ trail = <<entry>>
      BY <1>2 DEF Init
    <3> HIDE DEF entry
    <3> QED BY <3>1
  <2>2. tokens \in Seq(Tokens) /\ out \in Seq(Int)
    BY EmptySeq DEF Init
  <2>3. taken \in 0..Len(tokens) /\ pos \in 0..Len(data)
    BY <1>1, <1>3 DEF Init
  <2>4. data \in Plaintexts /\ dlast \in BOOLEAN
        /\ result \in {"none", "ok", "DecompressionError", "IntegrityError"}
    BY DEF Init
  <2> QED BY <1>2, <2>1, <2>2, <2>3, <2>4 DEF TypeOK
<1>5. StreamInv
  BY <1>2, <1>3 DEF Init, StreamInv
<1>6. DecoderInv
  <2>1. dlast = AfterMatch(taken + 1)
    <3>1. ~(taken + 1 > 1)
      BY <1>3
    <3>2. dlast = FALSE
      BY DEF Init
    <3> QED BY <3>1, <3>2, Zenon DEF AfterMatch
  <2>2. trail[taken + 1].at = 0 /\ trail[taken + 1].list = Unit
    BY <1>3
  <2>3. OutputFollowsInput /\ Len(out) = 0
    BY <1>1, <2>2 DEF Init, OutputFollowsInput
  <2>4. ListsAgree /\ NoFalseRejection
    BY <1>2, <2>2 DEF Init, ListsAgree, NoFalseRejection
  <2>5. pos < Len(data) => result = "none"
    BY DEF Init
  <2> QED BY <2>1, <2>2, <2>3, <2>4, <2>5 DEF DecoderInv
<1> QED BY <1>4, <1>5, <1>6 DEF IndInv

LEMMA NextInv == IndInv /\ [Next]_vars => IndInv'
<1> SUFFICES ASSUME IndInv, [Next]_vars PROVE IndInv'
  OBVIOUS
<1>1. CASE EmitLiteral
  BY <1>1, LiteralKeepsInv
<1>2. ASSUME NEW off \in 1..pos, NEW len \in 1..(Len(data) - pos), EmitPointer(off, len)
      PROVE  IndInv'
  BY <1>2, PointerKeepsInv
<1>3. ASSUME NEW slot \in 0..(Slots - 1), NEW len \in 1..(Len(data) - pos),
             EmitRepeat(slot, len)
      PROVE  IndInv'
  BY <1>3, RepeatKeepsInv
<1>4. CASE DecodeLiteral(tokens[taken + 1])
  BY <1>4, DecodeLiteralKeepsInv
<1>5. CASE DecodePointer(tokens[taken + 1])
  BY <1>5, DecodePointerKeepsInv
<1>6. CASE DecodeRepeat(tokens[taken + 1])
  BY <1>6, DecodeRepeatKeepsInv
<1>7. CASE DecodeEnd
  BY <1>7, DecodeEndKeepsInv
<1>8. CASE UNCHANGED vars
  <2>1. UNCHANGED encVars /\ UNCHANGED <<taken, out, dmtf, dlast, result>>
    BY <1>8 DEF vars, decVars
  <2>2. TypeOK'
    BY <2>1 DEF IndInv, TypeOK, encVars
  <2>3. StreamInv'
    BY <2>1, StreamUnchanged DEF IndInv
  <2>4. DecoderInv'
    BY <2>1 DEF IndInv, DecoderInv, encVars, OutputFollowsInput, ListsAgree, NoFalseRejection,
                ReusedFirst, AfterMatch
  <2> QED BY <2>2, <2>3, <2>4 DEF IndInv
<1> QED BY <1>1, <1>2, <1>3, <1>4, <1>5, <1>6, <1>7, <1>8
        DEF Next, Encode, DecodeToken, Finished

LEMMA Invariance == Spec => []IndInv
BY InitInv, NextInv, PTL DEF Spec

(***************************************************************************)
(* Type correctness of the stream, for any plaintexts.                     *)
(***************************************************************************)
THEOREM TypeCorrect == Spec => []TypeOK
<1>1. IndInv => TypeOK
  BY DEF IndInv
<1> QED BY <1>1, Invariance, PTL

(***************************************************************************)
(* What _decode_block has produced is always a prefix of the plaintext     *)
(* that ends where the encoder stood, unless slot 0 was reused directly    *)
(* after a literal.                                                        *)
(***************************************************************************)
THEOREM DecoderFollowsEncoder == Spec => []OutputFollowsInput
<1>1. IndInv => OutputFollowsInput
  BY DEF IndInv, DecoderInv
<1> QED BY <1>1, Invariance, PTL

(***************************************************************************)
(* The repeated-offset lists of the two sides move in lockstep, with the   *)
(* same exception.                                                         *)
(***************************************************************************)
THEOREM ListsStayEqual == Spec => []ListsAgree
<1>1. IndInv => ListsAgree
  BY DEF IndInv, DecoderInv
<1> QED BY <1>1, Invariance, PTL

(***************************************************************************)
(* No corruption check of the decoder refuses the encoder's own stream,    *)
(* with the same exception.                                                *)
(***************************************************************************)
THEOREM OwnStreamsAccepted == Spec => []NoFalseRejection
<1>1. IndInv => NoFalseRejection
  BY DEF IndInv, DecoderInv
<1> QED BY <1>1, Invariance, PTL

----------------------------------------------------------------------------
(* The tokenizer *)

\* Ends and starts of the chunks, and of the chains through them.
BoundsInv ==
  /\ stop <= copied
  /\ stop # 0 => stop + HashLen <= n
  /\ \A p \in 0..(n - 1) : pNext[p] <= p

\* The plan is a match the stream allows, once its literals are out.
PlanInv ==
  LET at == pos + plan.lits
  IN /\ Repeats(at, plan.off, plan.len)
     /\ plan.kind \in {"ptr", "mtf"}
     /\ plan.kind = "ptr" => plan.len >= PtrMin
     /\ plan.kind = "mtf" =>
          /\ plan.off = mtf[plan.slot + 1] /\ plan.off < at /\ plan.len >= MtfMin
          /\ plan.lits = 0 => ~AfterMatch(Len(tokens) + 1)

\* A pointer found less than k bytes ahead, with room to look two bytes ahead.
PlanBefore(k) == plan.kind = "ptr" /\ plan.lits < k /\ pos + 2 < stop /\ PlanInv

\* The walk knows nothing better than it began with, or a longer match.
Floor == IF walk.ahead = 0 THEN PtrMin - 1 ELSE plan.len

WalkInv ==
  /\ Start < stop /\ walk.cand <= Start
  /\ walk.off = 0 => walk.len = Floor
  /\ walk.off # 0 => walk.len > Floor /\ Repeats(Start, walk.off, walk.len)
  /\ walk.ahead > 0 => PlanBefore(walk.ahead)

ControlInv ==
  /\ pc = "walk" => WalkInv
  /\ pc = "one" => PlanBefore(1)
  /\ pc = "two" => PlanBefore(2)
  /\ pc = "plan" => PlanInv
  /\ pc = "literals" => pos < stop /\ ~lastPtr
  /\ pc \in {"top", "walk", "one", "two"} => lastPtr = AfterMatch(Len(tokens) + 1)

\* The distances and lengths of matches.
Number == 1..(2^30 - 1)

\* The tokens that the wire symbols can spell.
Spellable(t) ==
  \/ \E b \in 0..(LitCount - 1) : t = Literal(b)
  \/ \E off \in Number, len \in Number : len >= PtrMin /\ t = Pointer(off, len)
  \/ \E k \in 0..(Slots - 1), off \in Nat, len \in Number : len >= MtfMin /\ t = Repeat(k, off, len)

----------------------------------------------------------------------------
(* The wire *)

(***************************************************************************)
(* Numbers have a most significant bit; the CHOOSE of Wire!Msb finds it.   *)
(***************************************************************************)
LEMMA MsbBrackets ==
  ASSUME NEW a \in Number
  PROVE  /\ a \in Nat /\ Wire!Msb(a) \in 0..29
         /\ 2^Wire!Msb(a) \in Nat /\ 2^Wire!Msb(a) <= a /\ a < 2^(Wire!Msb(a) + 1)
<1> DEFINE S == {k \in 0..30 : a < 2^k}
           Fits(m) == 2^m <= a /\ a < 2^(m + 1)
<1>0. 2^30 \in Nat /\ 2^0 = 1 /\ a \in Nat /\ a >= 1 /\ a < 2^30
  <2>1. 2^30 \in Nat /\ 2^0 = 1
    BY PowersAssumption, 30 \in 0..30
  <2> QED BY <2>1 DEF Number
<1>1. S \in SUBSET Nat /\ 30 \in S
  BY <1>0
<1>2. PICK k \in S : \A j \in S : k <= j
  <2> HIDE DEF S
  <2> QED BY <1>1, LeastNatural
<1>3. k \in 0..30 /\ a < 2^k /\ k # 0
  <2>1. k \in 0..30 /\ a < 2^k
    OBVIOUS
  <2>2. k # 0
    <3> SUFFICES ASSUME k = 0 PROVE FALSE
      OBVIOUS
    <3>1. a < 1
      BY <1>0, <2>1
    <3> QED BY <1>0, <3>1
  <2> QED BY <2>1, <2>2
<1>4. k - 1 \in 0..29 /\ (k - 1) + 1 = k
  BY <1>3
<1>5. ~(a < 2^(k - 1))
  <2> SUFFICES ASSUME a < 2^(k - 1) PROVE FALSE
    OBVIOUS
  <2>1. k - 1 \in S
    BY <1>4
  <2>2. k <= k - 1
    BY <1>2, <2>1
  <2> QED BY <1>3, <2>2
<1>6. 2^(k - 1) \in Nat
  BY <1>4, PowersAssumption, k - 1 \in 0..30
<1>7. Fits(k - 1)
  BY <1>0, <1>3, <1>4, <1>5, <1>6
<1>8. Wire!Msb(a) = CHOOSE m \in 0..29 : Fits(m)
  BY DEF Wire!Msb
<1>9. Wire!Msb(a) \in 0..29 /\ Fits(Wire!Msb(a))
  <2> HIDE DEF Fits
  <2> QED BY <1>4, <1>7, <1>8
<1> HIDE DEF Fits
<1>10. Wire!Msb(a) \in 0..30 /\ Wire!Msb(a) \in Nat
  BY <1>9
<1>11. 2^Wire!Msb(a) \in Nat
  BY <1>10, PowersAssumption
<1> QED BY <1>0, <1>9, <1>10, <1>11 DEF Fits

LEMMA MsbExists ==
  ASSUME NEW a \in Number
  PROVE  /\ a \in Nat /\ Wire!Msb(a) \in Nat
         /\ 2^Wire!Msb(a) \in Nat /\ 2^Wire!Msb(a) <= a
BY MsbBrackets

\* What is written: a codeword of either alphabet, or some bits.
Fields == [code : {"short", "long", "raw"}, bits : Nat, v : Int]

\* The one to three fields for a class and a length above the least one.
SpelledAs(w, class, adj) ==
  LET first == LitCount + class * MaxShort
      long  == adj - (MaxShort - 1)
      rest  == long - (MaxLong - 1)
  IN /\ w \in Seq(Fields)
     /\ Len(w) = IF adj < MaxShort - 1 THEN 1 ELSE IF long <= MaxLong - 1 THEN 2 ELSE 3
     /\ w[1] = Wire!Short(first + IF adj < MaxShort - 1 THEN adj ELSE MaxShort - 1)
     /\ Len(w) = 2 => w[2] = Wire!Long(long)
     /\ Len(w) = 3 => w[2] = Wire!Long(Wire!Msb(rest) + MaxLong) /\ w[3] = Wire!LowBits(rest)

LEMMA LowBitsTyped ==
  ASSUME NEW a \in Number
  PROVE  /\ Wire!LowBits(a) \in Fields
         /\ Wire!LowBits(a).v \in Int /\ Wire!LowBits(a).v + 2^Wire!Msb(a) = a
<1> DEFINE m == Wire!Msb(a)
           p == 2^m
<1>1. a \in Nat /\ m \in Nat /\ p \in Nat
  BY MsbExists
<1>2. Wire!LowBits(a) = [code |-> "raw", bits |-> m, v |-> a - p]
  BY DEF Wire!LowBits, Wire!Raw
<1> HIDE DEF m, p
<1>3. Wire!LowBits(a) \in Fields /\ Wire!LowBits(a).v \in Int /\ Wire!LowBits(a).v + p = a
  BY <1>1, <1>2 DEF Fields
<1> QED BY <1>3 DEF m, p

LEMMA MatchSpelling ==
  ASSUME NEW class \in Nat, NEW adj \in 0..(2^30 - 1)
  PROVE  SpelledAs(Wire!MatchFields(class, adj), class, adj)
<1> DEFINE first == LitCount + class * MaxShort
           long  == adj - (MaxShort - 1)
           rest  == long - (MaxLong - 1)
           w == Wire!MatchFields(class, adj)
<1>0. /\ first \in Nat /\ MaxShort \in Nat /\ MaxLong \in Nat \ {0} /\ MaxShort >= 2
      /\ long \in Int /\ rest \in Int /\ 2^30 \in Nat /\ adj \in Nat /\ adj < 2^30
  <2>1. 2^30 \in Nat
    BY PowersAssumption, 30 \in 0..30
  <2> QED BY CodecAssumption, <2>1
<1>1. CASE adj < MaxShort - 1
  <2> DEFINE a == Wire!Short(first + adj)
  <2>1. a \in Fields /\ w = <<a>>
    BY <1>0, <1>1 DEF Wire!MatchFields, Wire!Short, Fields
  <2> HIDE DEF a
  <2>2. w \in Seq(Fields) /\ Len(w) = 1 /\ w[1] = a
    BY <2>1
  <2> QED BY <1>1, <2>2 DEF SpelledAs, a
<1> DEFINE a == Wire!Short(first + MaxShort - 1)
<1>a. a \in Fields
  BY <1>0 DEF Wire!Short, Fields
<1>b. first + MaxShort - 1 = first + (MaxShort - 1)
  BY <1>0
<1>2. CASE adj >= MaxShort - 1 /\ long <= MaxLong - 1
  <2> DEFINE b == Wire!Long(long)
  <2>1. b \in Fields /\ w = <<a>> \o <<b>>
    BY <1>0, <1>2 DEF Wire!MatchFields, Wire!LongFields, Wire!Long, Fields
  <2>2. w \in Seq(Fields) /\ Len(w) = 2 /\ w[1] = a /\ w[2] = b
    <3> HIDE DEF a, b, w
    <3>1. <<a>> \in Seq(Fields) /\ <<b>> \in Seq(Fields)
      BY <1>a, <2>1
    <3> QED BY <2>1, <3>1, ConcatProperties
  <2>3. Len(w) # 3
    BY <2>2
  <2> HIDE DEF w
  <2> QED BY <1>0, <1>b, <1>2, <2>2, <2>3 DEF SpelledAs, w
<1>3. CASE adj >= MaxShort - 1 /\ long > MaxLong - 1
  <2> DEFINE b == Wire!Long(Wire!Msb(rest) + MaxLong)
             c == Wire!LowBits(rest)
  <2>0. rest \in Number
    BY <1>0, <1>3 DEF Number
  <2>1. b \in Fields /\ c \in Fields /\ w = <<a>> \o <<b, c>>
    <3>1. Wire!Msb(rest) \in Nat /\ c \in Fields
      BY <2>0, MsbExists, LowBitsTyped
    <3>2. b \in Fields
      BY <1>0, <3>1 DEF Wire!Long, Fields
    <3>3. w = <<a>> \o <<b, c>>
      BY <1>0, <1>3 DEF Wire!MatchFields, Wire!LongFields
    <3> QED BY <3>1, <3>2, <3>3
  <2>2. w \in Seq(Fields) /\ Len(w) = 3 /\ w[1] = a /\ w[2] = b /\ w[3] = c
    <3> HIDE DEF a, b, c, w
    <3>1. <<a>> \in Seq(Fields) /\ <<b, c>> \in Seq(Fields) /\ Len(<<a>>) = 1 /\ Len(<<b, c>>) = 2
      BY <1>a, <2>1
    <3> QED BY <2>1, <3>1, ConcatProperties
  <2>3. Len(w) # 2
    BY <2>2
  <2> HIDE DEF w
  <2> QED BY <1>0, <1>b, <1>3, <2>2, <2>3 DEF SpelledAs, w
<1> QED BY <1>0, <1>1, <1>2, <1>3

\* The fields w are the first ones of u.
BeginsWith(u, w) == \A i \in 1..Len(w) : u[i] = w[i]

(***************************************************************************)
(* What follows the fields of a match does not disturb reading its class   *)
(* and its length.                                                         *)
(***************************************************************************)
LEMMA MatchReads ==
  ASSUME NEW class \in Nat, NEW adj \in 0..(2^30 - 1), NEW w, SpelledAs(w, class, adj),
         NEW u, BeginsWith(u, w)
  PROVE  ~Wire!IsLiteral(u) /\ Wire!Class(u) = class /\ Wire!ReadMatchLength(u) = adj
<1> DEFINE long  == adj - (MaxShort - 1)
           rest  == long - (MaxLong - 1)
           slot  == IF adj < MaxShort - 1 THEN adj ELSE MaxShort - 1
           times == class * MaxShort
<1>0. /\ MaxShort \in Nat \ {0} /\ MaxLong \in Nat \ {0} /\ LitCount \in Nat /\ MaxShort >= 2
      /\ times \in Nat /\ slot \in 0..(MaxShort - 1) /\ adj \in Nat /\ adj < 2^30 /\ 2^30 \in Nat
  <2>1. 2^30 \in Nat
    BY PowersAssumption, 30 \in 0..30
  <2> QED BY CodecAssumption, <2>1
<1>1. Len(w) \in 1..3 /\ u[1].v = LitCount + times + slot
  <2>1. Len(w) \in 1..3 /\ w[1].v = LitCount + times + slot
    BY DEF SpelledAs, Wire!Short
  <2> QED BY <2>1 DEF BeginsWith
<1>2. u[1].v - LitCount = MaxShort * class + slot
  <2>1. times = MaxShort * class
    BY <1>0
  <2> HIDE DEF times, slot
  <2> QED BY <1>0, <1>1, <2>1
<1>3. Wire!Class(u) = class /\ Wire!Slot(u) = slot
  <2> HIDE DEF slot
  <2>1. slot \in 0..(MaxShort - 1) /\ MaxShort \in Nat \ {0}
    BY <1>0
  <2>2. (MaxShort * class + slot) % MaxShort = slot /\ (MaxShort * class + slot) \div MaxShort = class
    BY <2>1, ComesApart
  <2> QED BY <1>2, <2>2 DEF Wire!Class, Wire!Slot
<1>4. ~Wire!IsLiteral(u)
  <2> HIDE DEF slot, times
  <2> QED BY <1>0, <1>1 DEF Wire!IsLiteral
<1>5. CASE adj < MaxShort - 1
  BY <1>0, <1>3, <1>4, <1>5 DEF Wire!ReadMatchLength, Wire!HasLong
<1>6. CASE adj >= MaxShort - 1 /\ long <= MaxLong - 1
  <2>1. u[2].v = long
    <3>1. Len(w) = 2 /\ w[2] = Wire!Long(long)
      BY <1>0, <1>6 DEF SpelledAs
    <3> QED BY <3>1 DEF Wire!Long, BeginsWith
  <2> QED BY <1>0, <1>3, <1>4, <1>6, <2>1 DEF Wire!ReadMatchLength, Wire!HasLong, Wire!HasEscape
<1>7. CASE adj >= MaxShort - 1 /\ long > MaxLong - 1
  <2>1. Len(w) = 3 /\ w[2] = Wire!Long(Wire!Msb(rest) + MaxLong) /\ w[3] = Wire!LowBits(rest)
    BY <1>0, <1>7 DEF SpelledAs
  <2>2. u[2].v = Wire!Msb(rest) + MaxLong /\ u[3].v = Wire!LowBits(rest).v
    BY <2>1 DEF Wire!Long, BeginsWith
  <2>3. rest \in Number
    BY <1>0, <1>7 DEF Number
  <2> DEFINE m == Wire!Msb(rest)
             low == Wire!LowBits(rest).v
  <2>4. m \in Nat /\ 2^m \in Nat /\ low \in Int /\ low + 2^m = rest
    <3> HIDE DEF rest
    <3> QED BY <2>3, MsbExists, LowBitsTyped
  <2> HIDE DEF m, low
  <2>5. u[2].v = m + MaxLong /\ u[3].v = low
    BY <2>2 DEF m, low
  <2>6. u[2].v >= MaxLong /\ u[2].v - MaxLong = m
    BY <1>0, <2>4, <2>5
  <2>7. Wire!HasLong(u) /\ Wire!HasEscape(u)
    BY <1>0, <1>3, <1>4, <1>7, <2>6 DEF Wire!HasLong, Wire!HasEscape
  <2>8. Wire!ReadMatchLength(u) = (MaxShort - 1) + (low + 2^m + (MaxLong - 1))
    BY <2>5, <2>6, <2>7 DEF Wire!ReadMatchLength
  <2> DEFINE q == 2^m
  <2>9. q \in Nat /\ low \in Int /\ low + q = rest /\ Wire!ReadMatchLength(u) = (MaxShort - 1) + (low + q + (MaxLong - 1))
    BY <2>4, <2>8
  <2> HIDE DEF q
  <2>10. Wire!ReadMatchLength(u) = adj
    BY <1>0, <2>9
  <2> QED BY <1>3, <1>4, <2>10
<1> QED BY <1>0, <1>3, <1>4, <1>5, <1>6, <1>7

(***************************************************************************)
(* What _encode_tokens writes for a token, _decode_block reads as that     *)
(* token, but for the offset of a repeated match.                          *)
(***************************************************************************)
LEMMA TokenComesAcross == ASSUME NEW t, Spellable(t) PROVE Wire!SurvivesWire(t)
<1>0. 2^30 \in Nat /\ LitCount \in Nat /\ Slots \in Nat /\ PtrMin \in Nat /\ MtfMin \in Nat
  BY PowersAssumption, 30 \in 0..30, CodecAssumption, StreamAssumption
<1>1. ASSUME NEW b \in 0..(LitCount - 1), t = Literal(b)
      PROVE  Wire!SurvivesWire(t)
  <2>1. Wire!Encoded(t) = <<Wire!Short(b)>>
    BY <1>1 DEF Literal, Wire!Encoded
  <2>2. Wire!Encoded(t)[1].v = b
    BY <2>1 DEF Wire!Short
  <2>3. Wire!IsLiteral(Wire!Encoded(t))
    BY <1>0, <2>2 DEF Wire!IsLiteral
  <2> QED BY <1>1, <2>2, <2>3 DEF Wire!SurvivesWire, Wire!Decoded, Literal
<1>2. ASSUME NEW k \in 0..(Slots - 1), NEW off \in Nat, NEW len \in Number, len >= MtfMin,
             t = Repeat(k, off, len)
      PROVE  Wire!SurvivesWire(t)
  <2> DEFINE w == Wire!MatchFields(k, len - MtfMin)
  <2>1. Wire!Encoded(t) = w
    BY <1>2 DEF Repeat, Wire!Encoded
  <2>2. k \in Nat /\ len - MtfMin \in 0..(2^30 - 1) /\ len \in Int
    BY <1>0, <1>2 DEF Number
  <2>3. SpelledAs(w, k, len - MtfMin)
    BY <2>2, MatchSpelling
  <2> HIDE DEF w
  <2>4. ~Wire!IsLiteral(w) /\ Wire!Class(w) = k /\ Wire!ReadMatchLength(w) = len - MtfMin
    BY <2>2, <2>3, MatchReads DEF BeginsWith
  <2>5. ~Wire!HasOffset(w)
    BY <1>0, <2>4 DEF Wire!HasOffset
  <2>6. Wire!Decoded(w) = [kind |-> "mtf", sym |-> k, off |-> 0, len |-> len - MtfMin + MtfMin]
    BY <2>4, <2>5 DEF Wire!Decoded
  <2>7. len - MtfMin + MtfMin = len
    BY <1>0, <2>2
  <2>8. [t EXCEPT !.off = 0] = [kind |-> "mtf", sym |-> k, off |-> 0, len |-> len] /\ t.kind = "mtf"
    BY <1>2 DEF Repeat
  <2> QED BY <2>1, <2>6, <2>7, <2>8 DEF Wire!SurvivesWire
<1>3. ASSUME NEW off \in Number, NEW len \in Number, len >= PtrMin, t = Pointer(off, len)
      PROVE  Wire!SurvivesWire(t)
  <2> DEFINE class == Slots + Wire!Msb(off)
             w == Wire!MatchFields(class, len - PtrMin)
             r == Wire!LowBits(off)
             u == w \o <<r>>
  <2>1. Wire!Encoded(t) = u
    BY <1>3 DEF Pointer, Wire!Encoded
  <2>2. /\ class \in Nat /\ len - PtrMin \in 0..(2^30 - 1) /\ len \in Int
        /\ r \in Fields /\ r.v + 2^Wire!Msb(off) = off /\ class - Slots = Wire!Msb(off)
    <3>1. off \in Nat /\ Wire!Msb(off) \in Nat /\ r \in Fields /\ r.v + 2^Wire!Msb(off) = off
      BY MsbExists, LowBitsTyped
    <3>2. len - PtrMin \in 0..(2^30 - 1) /\ len \in Int
      BY <1>0, <1>3 DEF Number
    <3>3. class \in Nat /\ class - Slots = Wire!Msb(off)
      BY <1>0, <3>1
    <3> QED BY <3>1, <3>2, <3>3
  <2>3. SpelledAs(w, class, len - PtrMin)
    BY <2>2, MatchSpelling
  <2> HIDE DEF w
  <2>4. w \in Seq(Fields) /\ <<r>> \in Seq(Fields) /\ Len(<<r>>) = 1
    <3> HIDE DEF r
    <3> QED BY <2>2, <2>3 DEF SpelledAs
  <2>5. Len(u) = Len(w) + 1 /\ u[Len(u)] = r /\ \A i \in 1..Len(w) : u[i] = w[i]
    <3> HIDE DEF r
    <3> QED BY <2>4, ConcatProperties
  <2> HIDE DEF u, class
  <2>6. ~Wire!IsLiteral(u) /\ Wire!Class(u) = class /\ Wire!ReadMatchLength(u) = len - PtrMin
    <3>1. class \in Nat /\ len - PtrMin \in 0..(2^30 - 1)
      BY <2>2
    <3>2. BeginsWith(u, w)
      BY <2>5 DEF BeginsWith
    <3> DEFINE adj == len - PtrMin
    <3> HIDE DEF r, adj
    <3>3. adj \in 0..(2^30 - 1) /\ SpelledAs(w, class, adj)
      BY <2>3, <3>1 DEF adj
    <3>4. ~Wire!IsLiteral(u) /\ Wire!Class(u) = class /\ Wire!ReadMatchLength(u) = adj
      BY <3>1, <3>2, <3>3, MatchReads
    <3> QED BY <3>4 DEF adj
  <2>7. Wire!HasOffset(u)
    <3>1. class >= Slots
      BY <1>0, MsbExists DEF class
    <3> QED BY <2>6, <3>1 DEF Wire!HasOffset
  <2>8. Wire!Decoded(u) = [kind |-> "ptr", sym |-> 0, len |-> len - PtrMin + PtrMin,
                           off |-> r.v + 2^(class - Slots)]
    BY <2>5, <2>6, <2>7 DEF Wire!Decoded
  <2>9. len - PtrMin + PtrMin = len /\ r.v + 2^(class - Slots) = off
    BY <1>0, <2>2
  <2>10. t = [kind |-> "ptr", sym |-> 0, len |-> len, off |-> off] /\ t.kind = "ptr"
    BY <1>3 DEF Pointer
  <2> QED BY <2>1, <2>8, <2>9, <2>10 DEF Wire!SurvivesWire
<1> QED BY <1>1, <1>2, <1>3 DEF Spellable

----------------------------------------------------------------------------
(* What is on the wire for a token *)

\* What the reader must ask for to get the field f.
Request(f) == [code |-> f.code, bits |-> f.bits]
RequestsFor(w) == [i \in 1..Len(w) |-> [code |-> w[i].code, bits |-> w[i].bits]]
Asked == [code : {"short", "long", "raw"}, bits : Int]

Maybe(c, r) == IF c THEN <<r>> ELSE << >>

\* A list with one entry, and the three others as far as they are there.
ListOf(R, a, p, b, q, c, r, d) == R = <<a>> \o Maybe(p, b) \o Maybe(q, c) \o Maybe(r, d)
PartsOf(R, S, a, p, b, q, c, r, d) ==
  /\ R \in Seq(S)
  /\ Len(R) = 1 + (IF p THEN 1 ELSE 0) + (IF q THEN 1 ELSE 0) + (IF r THEN 1 ELSE 0)
  /\ R[1] = a /\ (p => R[2] = b) /\ (q => R[3] = c) /\ (r => R[Len(R)] = d)

(***************************************************************************)
(* A list of one entry and three that may be missing, the third only if    *)
(* the second is.                                                          *)
(***************************************************************************)
LEMMA FourParts ==
  ASSUME NEW S, NEW a \in S, NEW b \in S, NEW c \in S, NEW d \in S,
         NEW p \in BOOLEAN, NEW q \in BOOLEAN, NEW r \in BOOLEAN, q => p,
         NEW R, ListOf(R, a, p, b, q, c, r, d)
  PROVE  PartsOf(R, S, a, p, b, q, c, r, d)
<1> DEFINE A == <<a>>
           B == A \o Maybe(p, b)
           C == B \o Maybe(q, c)
           D == C \o Maybe(r, d)
           np == IF p THEN 1 ELSE 0
           nq == IF q THEN 1 ELSE 0
           nr == IF r THEN 1 ELSE 0
<1>1. \A e \in BOOLEAN : \A x \in S :
        /\ Maybe(e, x) \in Seq(S) /\ Len(Maybe(e, x)) = IF e THEN 1 ELSE 0
        /\ e => Maybe(e, x)[1] = x
  BY DEF Maybe
<1>2. A \in Seq(S) /\ Len(A) = 1 /\ A[1] = a
  OBVIOUS
<1> HIDE DEF A
<1>3. B \in Seq(S) /\ Len(B) = 1 + np /\ B[1] = a /\ (p => B[2] = b)
  <2> DEFINE M == Maybe(p, b)
  <2>1. M \in Seq(S) /\ Len(M) = np /\ (p => M[1] = b)
    BY <1>1
  <2> HIDE DEF M
  <2>2. /\ A \o M \in Seq(S) /\ Len(A \o M) = Len(A) + Len(M)
        /\ \A i \in 1..Len(A) + Len(M) : (A \o M)[i] = IF i <= Len(A) THEN A[i] ELSE M[i - Len(A)]
    BY ONLY <1>2, <2>1, ConcatProperties
  <2> QED BY <1>2, <2>1, <2>2 DEF M
<1> HIDE DEF B
<1>4. C \in Seq(S) /\ Len(C) = 1 + np + nq /\ C[1] = a /\ (p => C[2] = b) /\ (q => C[3] = c)
  <2> DEFINE M == Maybe(q, c)
  <2>1. M \in Seq(S) /\ Len(M) = nq /\ (q => M[1] = c)
    BY <1>1
  <2> HIDE DEF M
  <2>2. /\ B \o M \in Seq(S) /\ Len(B \o M) = Len(B) + Len(M)
        /\ \A i \in 1..Len(B) + Len(M) : (B \o M)[i] = IF i <= Len(B) THEN B[i] ELSE M[i - Len(B)]
    BY ONLY <1>3, <2>1, ConcatProperties
  <2> QED BY <1>3, <2>1, <2>2 DEF M
<1> HIDE DEF C
<1>5. D \in Seq(S) /\ Len(D) = 1 + np + nq + nr /\ D[1] = a /\ (p => D[2] = b) /\ (q => D[3] = c)
      /\ (r => D[Len(D)] = d)
  <2> DEFINE M == Maybe(r, d)
  <2>1. M \in Seq(S) /\ Len(M) = nr /\ (r => M[1] = d)
    BY <1>1
  <2> HIDE DEF M
  <2>2. /\ C \o M \in Seq(S) /\ Len(C \o M) = Len(C) + Len(M)
        /\ \A i \in 1..Len(C) + Len(M) : (C \o M)[i] = IF i <= Len(C) THEN C[i] ELSE M[i - Len(C)]
    BY ONLY <1>4, <2>1, ConcatProperties
  <2> QED BY <1>4, <2>1, <2>2 DEF M
<1>6. R = D
  BY DEF A, B, C, ListOf
<1> HIDE DEF D
<1> QED BY <1>5, <1>6 DEF PartsOf

\* The fields u are those that a reader that looks at u asks for.
Awaited(u) ==
  /\ u \in Seq(Fields)
  /\ Len(u) = 1 + (IF Wire!HasLong(u) THEN 1 ELSE 0) + (IF Wire!HasEscape(u) THEN 1 ELSE 0)
                + (IF Wire!HasOffset(u) THEN 1 ELSE 0)
  /\ Request(u[1]) = [code |-> "short", bits |-> 0]
  /\ Wire!HasLong(u) => Request(u[2]) = [code |-> "long", bits |-> 0]
  /\ Wire!HasEscape(u) => Request(u[3]) = [code |-> "raw", bits |-> u[2].v - MaxLong]
  /\ Wire!HasOffset(u) => Request(u[Len(u)]) = [code |-> "raw", bits |-> Wire!Class(u) - Slots]

LEMMA AwaitedLineUp ==
  ASSUME NEW u, Awaited(u)
  PROVE  Wire!Requests(u) = RequestsFor(u)
<1> DEFINE p == Wire!HasLong(u)
           q == Wire!HasEscape(u)
           r == Wire!HasOffset(u)
           a == [code |-> "short", bits |-> 0]
           b == [code |-> "long", bits |-> 0]
           c == [code |-> "raw", bits |-> u[2].v - MaxLong]
           d == [code |-> "raw", bits |-> Wire!Class(u) - Slots]
           R == <<a>> \o Maybe(p, b) \o Maybe(q, c) \o Maybe(r, d)
           F == RequestsFor(u)
<1>1. Wire!Requests(u) = R
  BY DEF Wire!Requests, Maybe
<1>2. p \in BOOLEAN /\ q \in BOOLEAN /\ r \in BOOLEAN /\ (q => p)
  BY DEF Wire!HasLong, Wire!HasEscape, Wire!HasOffset
<1>3. /\ u \in Seq(Fields) /\ Len(u) \in Nat
      /\ Len(u) = 1 + (IF p THEN 1 ELSE 0) + (IF q THEN 1 ELSE 0) + (IF r THEN 1 ELSE 0)
      /\ Request(u[1]) = a /\ (p => Request(u[2]) = b) /\ (q => Request(u[3]) = c)
      /\ (r => Request(u[Len(u)]) = d)
  BY DEF Awaited
<1> DEFINE S == {a, b, c, d}
<1> HIDE DEF p, q, r, a, b, c, d
<1>4. a \in S /\ b \in S /\ c \in S /\ d \in S
  OBVIOUS
<1> HIDE DEF S
<1>a. ListOf(R, a, p, b, q, c, r, d)
  BY DEF ListOf
<1> HIDE DEF R
<1>b. PartsOf(R, S, a, p, b, q, c, r, d)
  BY ONLY <1>2, <1>4, <1>a, FourParts
<1>5. /\ R \in Seq(S)
      /\ Len(R) = 1 + (IF p THEN 1 ELSE 0) + (IF q THEN 1 ELSE 0) + (IF r THEN 1 ELSE 0)
      /\ R[1] = a /\ (p => R[2] = b) /\ (q => R[3] = c) /\ (r => R[Len(R)] = d)
  BY <1>b DEF PartsOf
<1>6. ASSUME NEW i \in 1..Len(u) PROVE R[i] = Request(u[i])
  <2>1. i = 1 \/ (i = 2 /\ p) \/ (i = 3 /\ q) \/ (i = Len(u) /\ r)
    BY ONLY <1>2, <1>3, i \in 1..Len(u)
  <2>2. Len(R) = Len(u)
    BY ONLY <1>3, <1>5
  <2> QED BY ONLY <1>3, <1>5, <2>1, <2>2
<1>7. F = [i \in 1..Len(u) |-> Request(u[i])]
  BY DEF RequestsFor, Request
<1>8. R = [i \in 1..Len(R) |-> R[i]]
  BY <1>5
<1>9. Len(R) = Len(u)
  BY ONLY <1>3, <1>5
<1> HIDE DEF F
<1>10. R = F
  BY <1>6, <1>7, <1>8, <1>9
<1> QED BY <1>1, <1>10 DEF F

\* What the reader makes of the fields u when they begin with a match, and that
\* match is spelled in the fields w.
LadderAs(u, w) ==
  /\ Wire!HasLong(u) <=> Len(w) >= 2
  /\ Wire!HasEscape(u) <=> Len(w) = 3
  /\ Len(w) \in 1..3 /\ w \in Seq(Fields)
  /\ Request(u[1]) = [code |-> "short", bits |-> 0]
  /\ Len(w) >= 2 => Request(u[2]) = [code |-> "long", bits |-> 0]
  /\ Len(w) = 3 => Request(u[3]) = [code |-> "raw", bits |-> u[2].v - MaxLong]
SeenAs(u, w, class) == ~Wire!IsLiteral(u) /\ Wire!Class(u) = class /\ LadderAs(u, w)

Rung(class, adj) == class \in Nat /\ adj \in 0..(2^30 - 1)

\* How many fields a match takes before its offset.
LadderCount(L, p, q) == L = 1 + (IF p THEN 1 ELSE 0) + (IF q THEN 1 ELSE 0)

LEMMA LadderCounted ==
  ASSUME NEW L \in 1..3, NEW p \in BOOLEAN, NEW q \in BOOLEAN, p <=> L >= 2, q <=> L = 3
  PROVE  LadderCount(L, p, q)
BY DEF LadderCount

LEMMA CountSeen ==
  ASSUME NEW u, NEW w, NEW class, SeenAs(u, w, class)
  PROVE  LadderCount(Len(w), Wire!HasLong(u), Wire!HasEscape(u))
<1>1. /\ Len(w) \in 1..3 /\ (Wire!HasLong(u) <=> Len(w) >= 2)
      /\ Wire!HasEscape(u) <=> Len(w) = 3
      /\ Wire!HasLong(u) \in BOOLEAN /\ Wire!HasEscape(u) \in BOOLEAN
  BY DEF SeenAs, LadderAs, Wire!HasLong, Wire!HasEscape
<1> QED BY ONLY <1>1, LadderCounted

(***************************************************************************)
(* The reader asks for a long symbol and for an escape exactly when they   *)
(* are there.                                                              *)
(***************************************************************************)
LEMMA LadderSeen ==
  ASSUME NEW class \in Nat, NEW adj \in 0..(2^30 - 1), NEW w, SpelledAs(w, class, adj),
         NEW u, BeginsWith(u, w)
  PROVE  LadderAs(u, w)
<1> DEFINE long  == adj - (MaxShort - 1)
           rest  == long - (MaxLong - 1)
           slot  == IF adj < MaxShort - 1 THEN adj ELSE MaxShort - 1
           times == class * MaxShort
<1>0. /\ MaxShort \in Nat \ {0} /\ MaxLong \in Nat \ {0} /\ LitCount \in Nat /\ MaxShort >= 2
      /\ times \in Nat /\ slot \in 0..(MaxShort - 1) /\ adj \in Nat /\ adj < 2^30 /\ 2^30 \in Nat
  <2>1. 2^30 \in Nat
    BY PowersAssumption, 30 \in 0..30
  <2> QED BY CodecAssumption, <2>1
<1>a. Len(w) \in 1..3 /\ w \in Seq(Fields) /\ u[1] = Wire!Short(LitCount + times + slot)
  <2>1. Len(w) \in 1..3 /\ w \in Seq(Fields) /\ w[1] = Wire!Short(LitCount + times + slot)
    BY DEF SpelledAs
  <2>2. u[1] = Wire!Short(LitCount + times + slot)
    BY <2>1 DEF BeginsWith
  <2> QED BY <2>1, <2>2
<1>1. Len(w) \in 1..3 /\ w \in Seq(Fields) /\ u[1].v = LitCount + times + slot
  BY <1>a DEF Wire!Short
<1>2. Request(u[1]) = [code |-> "short", bits |-> 0]
  BY <1>a DEF Request, Wire!Short
<1>3. u[1].v - LitCount = MaxShort * class + slot
  <2>1. times = MaxShort * class
    BY <1>0
  <2> HIDE DEF times, slot
  <2> QED BY <1>0, <1>1, <2>1
<1>4. Wire!Slot(u) = slot
  <2> HIDE DEF slot
  <2>1. slot \in 0..(MaxShort - 1) /\ MaxShort \in Nat \ {0}
    BY <1>0
  <2>2. (MaxShort * class + slot) % MaxShort = slot
    BY <2>1, ComesApart
  <2> QED BY <1>3, <2>2 DEF Wire!Slot
<1>5. ~Wire!IsLiteral(u)
  <2> HIDE DEF slot, times
  <2> QED BY <1>0, <1>1 DEF Wire!IsLiteral
<1>6. CASE adj < MaxShort - 1
  <2>1. Len(w) = 1
    BY <1>6 DEF SpelledAs
  <2>2. ~Wire!HasLong(u) /\ ~Wire!HasEscape(u)
    BY <1>0, <1>4, <1>6 DEF Wire!HasLong, Wire!HasEscape
  <2> QED BY <1>1, <1>2, <2>1, <2>2 DEF LadderAs
<1>7. CASE adj >= MaxShort - 1
  <2>1. Wire!HasLong(u)
    BY <1>0, <1>4, <1>5, <1>7 DEF Wire!HasLong
  <2>2. CASE long <= MaxLong - 1
    <3>1. Len(w) = 2 /\ w[2] = Wire!Long(long)
      BY <1>0, <1>7, <2>2 DEF SpelledAs
    <3>2. u[2] = Wire!Long(long)
      BY <3>1 DEF BeginsWith
    <3>3. u[2].v = long /\ Request(u[2]) = [code |-> "long", bits |-> 0]
      BY <3>2 DEF Wire!Long, Request
    <3>4. ~Wire!HasEscape(u)
      BY <1>0, <2>2, <3>3 DEF Wire!HasEscape
    <3> QED BY <1>1, <1>2, <2>1, <3>1, <3>3, <3>4 DEF LadderAs
  <2>3. CASE long > MaxLong - 1
    <3>1. Len(w) = 3 /\ w[2] = Wire!Long(Wire!Msb(rest) + MaxLong) /\ w[3] = Wire!LowBits(rest)
      BY <1>0, <1>7, <2>3 DEF SpelledAs
    <3>2. u[2] = Wire!Long(Wire!Msb(rest) + MaxLong) /\ u[3] = Wire!LowBits(rest)
      BY <3>1 DEF BeginsWith
    <3>3. rest \in Number
      BY <1>0, <1>7, <2>3 DEF Number
    <3> DEFINE m == Wire!Msb(rest)
    <3>4. m \in Nat
      <4> HIDE DEF rest
      <4> QED BY <3>3, MsbExists
    <3>5. u[2].v = m + MaxLong /\ Request(u[2]) = [code |-> "long", bits |-> 0]
          /\ Request(u[3]) = [code |-> "raw", bits |-> m]
      BY <3>2 DEF Wire!Long, Wire!LowBits, Wire!Raw, Request
    <3> HIDE DEF m
    <3>6. u[2].v >= MaxLong /\ u[2].v - MaxLong = m
      BY <1>0, <3>4, <3>5
    <3>7. Wire!HasEscape(u)
      BY <2>1, <3>6 DEF Wire!HasEscape
    <3>8. Request(u[3]) = [code |-> "raw", bits |-> u[2].v - MaxLong]
      BY <3>5, <3>6
    <3> QED BY <1>1, <1>2, <2>1, <3>1, <3>5, <3>7, <3>8 DEF LadderAs
  <2> QED BY <1>0, <2>2, <2>3
<1> QED BY <1>0, <1>6, <1>7 DEF LadderAs

LEMMA MatchSeen ==
  ASSUME NEW class, NEW adj, Rung(class, adj), NEW w, w = Wire!MatchFields(class, adj),
         NEW u, BeginsWith(u, w)
  PROVE  SeenAs(u, w, class)
<1>1. class \in Nat /\ adj \in 0..(2^30 - 1)
  BY DEF Rung
<1>2. SpelledAs(Wire!MatchFields(class, adj), class, adj)
  BY ONLY <1>1, MatchSpelling, Zenon
<1>3. SpelledAs(w, class, adj)
  BY ONLY <1>2, w = Wire!MatchFields(class, adj)
<1>a. BeginsWith(u, w)
  OBVIOUS
<1>4. ~Wire!IsLiteral(u) /\ Wire!Class(u) = class
  BY ONLY <1>1, <1>3, <1>a, MatchReads, Zenon
<1>5. LadderAs(u, w)
  BY ONLY <1>1, <1>3, <1>a, LadderSeen, Zenon
<1> QED BY <1>4, <1>5 DEF SeenAs

(***************************************************************************)
(* The reader asks for the fields of a token one by one, in their order    *)
(* and with their widths (_encode_tokens, _decode_block).                  *)
(***************************************************************************)
LEMMA TokenLinesUp == ASSUME NEW t, Spellable(t) PROVE Wire!FieldsLineUp(t)
<1>0. 2^30 \in Nat /\ LitCount \in Nat /\ Slots \in Nat /\ PtrMin \in Nat /\ MtfMin \in Nat
  BY PowersAssumption, 30 \in 0..30, CodecAssumption, StreamAssumption
<1> DEFINE u == Wire!Encoded(t)
<1>1. SUFFICES Awaited(u)
  <2>1. ASSUME Awaited(u) PROVE Wire!FieldsLineUp(t)
    <3>1. Wire!Requests(u) = RequestsFor(u)
      BY <2>1, AwaitedLineUp
    <3> QED BY <3>1 DEF Wire!FieldsLineUp, RequestsFor
  <2> QED BY <2>1
<1>2. ASSUME NEW b \in 0..(LitCount - 1), t = Literal(b)
      PROVE  Awaited(u)
  <2> DEFINE f == Wire!Short(b)
  <2>1. u = <<f>>
    BY <1>2 DEF Literal, Wire!Encoded
  <2>2. f \in Fields /\ f.v = b /\ Request(f) = [code |-> "short", bits |-> 0] /\ b < LitCount
    BY <1>0 DEF Wire!Short, Fields, Request
  <2> HIDE DEF f, u
  <2>3. u \in Seq(Fields) /\ Len(u) = 1 /\ u[1] = f
    BY <2>1, <2>2
  <2>4. Wire!IsLiteral(u)
    BY <2>2, <2>3 DEF Wire!IsLiteral
  <2>5. ~Wire!HasLong(u) /\ ~Wire!HasEscape(u) /\ ~Wire!HasOffset(u)
    BY <2>4 DEF Wire!HasLong, Wire!HasEscape, Wire!HasOffset
  <2> QED BY <2>2, <2>3, <2>5 DEF Awaited
<1>3. ASSUME NEW k \in 0..(Slots - 1), NEW off \in Nat, NEW len \in Number, len >= MtfMin,
             t = Repeat(k, off, len)
      PROVE  Awaited(u)
  <2> DEFINE adj == len - MtfMin
  <2>1. u = Wire!MatchFields(k, adj)
    BY <1>3 DEF Repeat, Wire!Encoded
  <2>2. Rung(k, adj)
    BY <1>0, <1>3 DEF Number, Rung
  <2> HIDE DEF adj, u
  <2>4. BeginsWith(u, u)
    BY DEF BeginsWith
  <2>5. SeenAs(u, u, k)
    BY ONLY <2>1, <2>2, <2>4, MatchSeen
  <2>6. ~Wire!HasOffset(u)
    BY <1>0, <2>5 DEF Wire!HasOffset, SeenAs
  <2>7. /\ u \in Seq(Fields) /\ Len(u) \in 1..3
        /\ Len(u) = 1 + (IF Wire!HasLong(u) THEN 1 ELSE 0) + (IF Wire!HasEscape(u) THEN 1 ELSE 0)
    <3>1. LadderCount(Len(u), Wire!HasLong(u), Wire!HasEscape(u))
      BY ONLY <2>5, CountSeen
    <3> QED BY <2>5, <3>1 DEF SeenAs, LadderAs, LadderCount
  <2>8. Len(u) = 1 + (IF Wire!HasLong(u) THEN 1 ELSE 0) + (IF Wire!HasEscape(u) THEN 1 ELSE 0)
                   + (IF Wire!HasOffset(u) THEN 1 ELSE 0)
    BY <2>6, <2>7
  <2> QED BY <2>5, <2>6, <2>7, <2>8, CountSeen DEF Awaited, SeenAs, LadderAs, LadderCount
<1>4. ASSUME NEW off \in Number, NEW len \in Number, len >= PtrMin, t = Pointer(off, len)
      PROVE  Awaited(u)
  <2> DEFINE m == Wire!Msb(off)
             class == Slots + m
             adj == len - PtrMin
             w == Wire!MatchFields(class, adj)
             r == Wire!LowBits(off)
  <2>1. u = w \o <<r>>
    BY <1>4 DEF Pointer, Wire!Encoded
  <2>2. m \in Nat /\ r \in Fields /\ Request(r) = [code |-> "raw", bits |-> m]
    BY MsbExists, LowBitsTyped DEF Wire!LowBits, Wire!Raw, Request
  <2> HIDE DEF m
  <2>3. class \in Nat /\ class >= Slots /\ class - Slots = m /\ Rung(class, adj)
    BY <1>0, <1>4, <2>2 DEF Number, Rung
  <2> HIDE DEF adj, class
  <2>a. BeginsWith(w, w)
    BY DEF BeginsWith
  <2>b. w = Wire!MatchFields(class, adj)
    OBVIOUS
  <2> HIDE DEF u, w, r
  <2>4. SeenAs(w, w, class)
    BY ONLY <2>3, <2>a, <2>b, MatchSeen
  <2>5. w \in Seq(Fields) /\ <<r>> \in Seq(Fields) /\ Len(<<r>>) = 1
    BY <2>2, <2>4 DEF SeenAs, LadderAs
  <2>6. u \in Seq(Fields) /\ Len(u) = Len(w) + 1 /\ u[Len(u)] = r /\ \A i \in 1..Len(w) : u[i] = w[i]
    BY <2>1, <2>5, ConcatProperties
  <2>7. BeginsWith(u, w)
    BY <2>6 DEF BeginsWith
  <2>8. SeenAs(u, w, class)
    BY ONLY <2>3, <2>b, <2>7, MatchSeen
  <2>9. Wire!HasOffset(u)
    BY <2>3, <2>8 DEF Wire!HasOffset, SeenAs
  <2>10. Len(w) = 1 + (IF Wire!HasLong(u) THEN 1 ELSE 0) + (IF Wire!HasEscape(u) THEN 1 ELSE 0)
    <3>1. LadderCount(Len(w), Wire!HasLong(u), Wire!HasEscape(u))
      BY ONLY <2>8, CountSeen
    <3> QED BY <3>1 DEF LadderCount
  <2>11. Request(u[Len(u)]) = [code |-> "raw", bits |-> Wire!Class(u) - Slots]
    <3>1. Wire!Class(u) - Slots = m
      BY <2>3, <2>8 DEF SeenAs
    <3>2. Request(u[Len(u)]) = Request(r)
      BY <2>6
    <3> QED BY <2>2, <3>1, <3>2
  <2>12. Len(u) = 1 + (IF Wire!HasLong(u) THEN 1 ELSE 0) + (IF Wire!HasEscape(u) THEN 1 ELSE 0)
                    + (IF Wire!HasOffset(u) THEN 1 ELSE 0)
    BY <2>6, <2>9, <2>10
  <2> QED BY <2>6, <2>8, <2>9, <2>11, <2>12 DEF Awaited, SeenAs, LadderAs
<1> QED BY <1>2, <1>3, <1>4 DEF Spellable

----------------------------------------------------------------------------
(* Symbols for a token *)

(***************************************************************************)
(* Powers of two are ordered as their exponents are.                       *)
(***************************************************************************)
LEMMA PowersGrow ==
  ASSUME NEW a \in 0..30, NEW b \in 0..30, a <= b
  PROVE  2^a <= 2^b
<1> DEFINE p(k) == 2^(a + k)
           S == {k \in Nat : a + k <= 30 /\ ~(p(0) <= p(k))}
<1>0. ASSUME NEW k \in Nat, a + k <= 30
      PROVE  p(k) \in Nat /\ (a + k < 30 => p(k + 1) = 2 * p(k))
  <2>1. a + k \in 0..30 /\ (a + k < 30 => a + k \in 0..29 /\ a + (k + 1) = (a + k) + 1)
    BY <1>0
  <2> QED BY <2>1, PowersAssumption, WindowAssumption
<1>1. a + 0 = a /\ b - a \in Nat /\ a + (b - a) = b /\ b <= 30 /\ a <= 30 /\ a \in Nat
  OBVIOUS
<1>2. SUFFICES b - a \notin S
  BY <1>1
<1> HIDE DEF p
<1>3. SUFFICES ASSUME S # {} PROVE FALSE
  OBVIOUS
<1>4. PICK k \in S : \A j \in S : k <= j
  <2>1. S \in SUBSET Nat
    OBVIOUS
  <2> HIDE DEF S
  <2> QED BY <1>3, <2>1, LeastNatural
<1>5. k \in Nat /\ a + k <= 30 /\ ~(p(0) <= p(k)) /\ p(0) \in Nat
  BY <1>0, <1>1
<1>6. k # 0
  BY <1>5
<1>7. k - 1 \in Nat /\ a + (k - 1) < 30 /\ (k - 1) + 1 = k
  BY <1>1, <1>5, <1>6
<1>8. k - 1 \notin S
  BY <1>4, <1>5, <1>7
<1>9. p(0) <= p(k - 1)
  BY <1>7, <1>8
<1>10. p(k - 1) \in Nat /\ p(k) = 2 * p(k - 1)
  BY <1>0, <1>7
<1> QED BY <1>5, <1>9, <1>10

(***************************************************************************)
(* The most significant bit has a number below the window's exactly for    *)
(* the numbers that fit the window.                                        *)
(***************************************************************************)
LEMMA MsbWithin ==
  ASSUME NEW a \in Number
  PROVE  Wire!Msb(a) < MaxWindow <=> a < 2^MaxWindow
<1> DEFINE m == Wire!Msb(a)
<1>1. a \in Nat /\ m \in 0..29 /\ 2^m \in Nat /\ 2^m <= a /\ a < 2^(m + 1)
  BY MsbBrackets
<1> HIDE DEF m
<1>2. MaxWindow \in 0..30 /\ m \in 0..30 /\ m + 1 \in 0..30
  BY <1>1, WindowAssumption
<1>3. 2^MaxWindow \in Nat /\ 2^(m + 1) \in Nat
  BY <1>2, PowersAssumption
<1>4. CASE m < MaxWindow
  <2>1. m + 1 <= MaxWindow
    BY <1>2, <1>4
  <2>2. 2^(m + 1) <= 2^MaxWindow
    BY ONLY <1>2, <2>1, PowersGrow
  <2>3. a < 2^MaxWindow
    BY ONLY <1>1, <1>3, <2>2
  <2> QED BY <1>4, <2>3 DEF m
<1>5. CASE ~(m < MaxWindow)
  <2>1. MaxWindow <= m
    BY <1>2, <1>5
  <2>2. 2^MaxWindow <= 2^m
    BY ONLY <1>2, <2>1, PowersGrow
  <2>3. ~(a < 2^MaxWindow)
    BY ONLY <1>1, <1>3, <2>2
  <2> QED BY <1>5, <2>3 DEF m
<1> QED BY <1>4, <1>5

\* A symbol of row a is below those of row b exactly if the rows are.
LEMMA RowsOrdered ==
  ASSUME NEW a \in Nat, NEW b \in Nat, NEW width \in Nat \ {0}, NEW s \in 0..(width - 1)
  PROVE  a * width + s < b * width <=> a < b
<1>1. a * width \in Nat /\ b * width \in Nat
  OBVIOUS
<1>2. CASE a < b
  <2> DEFINE d == b - a - 1
  <2>1. d \in Nat /\ b = a + 1 + d
    BY <1>2
  <2> HIDE DEF d
  <2>2. d * width \in Nat /\ b * width = a * width + width + d * width
    BY <2>1
  <2> QED BY ONLY <1>1, <1>2, <2>2, width \in Nat, s \in 0..(width - 1)
<1>3. CASE ~(a < b)
  <2> DEFINE d == a - b
  <2>1. d \in Nat /\ a = b + d
    BY <1>3
  <2> HIDE DEF d
  <2>2. d * width \in Nat /\ a * width = b * width + d * width
    BY <2>1
  <2> QED BY ONLY <1>1, <1>3, <2>2, width \in Nat, s \in 0..(width - 1)
<1> QED BY <1>2, <1>3

\* Each field has a symbol.
Fitting(f) == /\ f.code = "short" => f.v < Wire!ShortAlphabet
              /\ f.code = "long" => f.v < Wire!LongAlphabet

\* The lengths above the least one that an escape can still express.
LengthRoom == (MaxShort - 1) + (MaxLong - 1) + 2^MaxWindow

(***************************************************************************)
(* A match has symbols exactly if its class has a row and its length is    *)
(* not beyond the last escape.                                             *)
(***************************************************************************)
LEMMA RoomForMatch ==
  ASSUME NEW class \in Nat, NEW adj \in 0..(2^30 - 1), NEW w, SpelledAs(w, class, adj)
  PROVE  (\A i \in 1..Len(w) : Fitting(w[i])) <=> class < MaxWindow + Slots /\ adj < LengthRoom
<1> DEFINE long  == adj - (MaxShort - 1)
           rest  == long - (MaxLong - 1)
           slot  == IF adj < MaxShort - 1 THEN adj ELSE MaxShort - 1
           first == class * MaxShort
           rows  == (MaxWindow + Slots) * MaxShort
           power == 2^MaxWindow
<1>0. /\ MaxShort \in Nat \ {0} /\ MaxLong \in Nat \ {0} /\ LitCount \in Nat /\ MaxShort >= 2
      /\ slot \in 0..(MaxShort - 1) /\ adj \in Nat /\ adj < 2^30 /\ 2^30 \in Nat
      /\ MaxWindow \in Nat \ {0} /\ Slots \in Nat /\ MaxWindow + Slots \in Nat
  <2>1. 2^30 \in Nat
    BY PowersAssumption, 30 \in 0..30
  <2> QED BY CodecAssumption, StreamAssumption, WindowAssumption, <2>1
<1>1. power \in Nat /\ power >= 1 /\ LengthRoom = (MaxShort - 1) + (MaxLong - 1) + power
  <2>1. MaxWindow \in 0..30 /\ 0 \in 0..30 /\ 0 <= MaxWindow
    BY WindowAssumption
  <2>2. 2^0 <= 2^MaxWindow
    BY ONLY <2>1, PowersGrow
  <2> QED BY <2>1, <2>2, PowersAssumption DEF LengthRoom
<1>2. first \in Nat /\ rows \in Nat
  BY <1>0
<1>3. first + slot < rows <=> class < MaxWindow + Slots
  <2> HIDE DEF slot
  <2> QED BY ONLY <1>0, class \in Nat, RowsOrdered DEF first, rows
<1>4. Len(w) \in 1..3 /\ w[1] = Wire!Short(LitCount + first + slot)
  BY DEF SpelledAs
<1>5. Fitting(w[1]) <=> class < MaxWindow + Slots
  <2>1. w[1].code = "short" /\ w[1].v = LitCount + first + slot
    BY <1>4 DEF Wire!Short
  <2>2. Wire!ShortAlphabet = LitCount + rows
    BY DEF Wire!ShortAlphabet
  <2> HIDE DEF first, slot, rows
  <2>3. w[1].v < Wire!ShortAlphabet <=> first + slot < rows
    BY <1>0, <1>2, <2>1, <2>2
  <2> QED BY <1>3, <2>1, <2>3 DEF Fitting
<1> HIDE DEF first, rows, power
<1>6. CASE adj < MaxShort - 1
  <2>1. Len(w) = 1
    BY <1>6 DEF SpelledAs
  <2>2. adj < LengthRoom
    BY <1>0, <1>1, <1>6
  <2> QED BY <1>5, <2>1, <2>2
<1>7. CASE adj >= MaxShort - 1 /\ long <= MaxLong - 1
  <2>1. Len(w) = 2 /\ w[2] = Wire!Long(long)
    BY <1>0, <1>7 DEF SpelledAs
  <2>2. w[2].code = "long" /\ w[2].v = long
    BY <2>1 DEF Wire!Long
  <2>3. Wire!LongAlphabet = MaxLong + MaxWindow
    BY DEF Wire!LongAlphabet
  <2>4. w[2].v < Wire!LongAlphabet /\ adj < LengthRoom
    BY <1>0, <1>1, <1>7, <2>2, <2>3
  <2>5. Fitting(w[2])
    BY <2>2, <2>4 DEF Fitting
  <2>6. \A i \in 1..Len(w) : i = 1 \/ i = 2
    BY <2>1
  <2>7. 1 \in 1..Len(w)
    BY <2>1
  <2> QED BY <1>5, <2>4, <2>5, <2>6, <2>7
<1>8. CASE adj >= MaxShort - 1 /\ long > MaxLong - 1
  <2> DEFINE m == Wire!Msb(rest)
  <2>1. Len(w) = 3 /\ w[2] = Wire!Long(m + MaxLong) /\ w[3] = Wire!LowBits(rest)
    BY <1>0, <1>8 DEF SpelledAs
  <2>2. rest \in Number
    BY <1>0, <1>8 DEF Number
  <2>3. (m < MaxWindow <=> rest < power) /\ m \in Nat
    <3> HIDE DEF rest
    <3> QED BY <2>2, MsbWithin, MsbExists DEF power
  <2>4. w[2].code = "long" /\ w[2].v = m + MaxLong /\ w[3].code = "raw"
    BY <2>1 DEF Wire!Long, Wire!LowBits, Wire!Raw
  <2> HIDE DEF m
  <2>5. Wire!LongAlphabet = MaxLong + MaxWindow
    BY DEF Wire!LongAlphabet
  <2>6. rest < power <=> adj < LengthRoom
    BY <1>0, <1>1, <1>8
  <2>7. w[2].v < Wire!LongAlphabet <=> m < MaxWindow
    BY <1>0, <2>3, <2>4, <2>5
  <2> HIDE DEF rest
  <2>8. Fitting(w[2]) <=> adj < LengthRoom
    BY <2>3, <2>4, <2>6, <2>7 DEF Fitting
  <2>9. Fitting(w[3])
    BY <2>4 DEF Fitting
  <2>10. \A i \in 1..Len(w) : i = 1 \/ i = 2 \/ i = 3
    BY <2>1
  <2>11. 1 \in 1..Len(w) /\ 2 \in 1..Len(w)
    BY <2>1
  <2> QED BY <1>5, <2>8, <2>9, <2>10, <2>11
<1> QED BY <1>0, <1>6, <1>7, <1>8

\* What RoomForMatch says of the fields of a match.
MatchRoom(w, class, adj) ==
  /\ w \in Seq(Fields)
  /\ (\A i \in 1..Len(w) : Fitting(w[i])) <=> class < MaxWindow + Slots /\ adj < LengthRoom

LEMMA MatchHasRoom ==
  ASSUME NEW class, NEW adj, Rung(class, adj), NEW w, w = Wire!MatchFields(class, adj)
  PROVE  MatchRoom(w, class, adj)
<1>1. class \in Nat /\ adj \in 0..(2^30 - 1)
  BY DEF Rung
<1>2. SpelledAs(Wire!MatchFields(class, adj), class, adj)
  BY ONLY <1>1, MatchSpelling, Zenon
<1>3. SpelledAs(w, class, adj)
  BY ONLY <1>2, w = Wire!MatchFields(class, adj)
<1>4. (\A i \in 1..Len(w) : Fitting(w[i])) <=> class < MaxWindow + Slots /\ adj < LengthRoom
  BY ONLY <1>1, <1>3, RoomForMatch, Zenon
<1>5. w \in Seq(Fields)
  BY <1>3 DEF SpelledAs
<1> QED BY <1>4, <1>5 DEF MatchRoom

(***************************************************************************)
(* The two tables of counts have a place exactly for the tokens whose      *)
(* offset fits the window and whose length an escape can express           *)
(* (_collect_frequencies).                                                 *)
(***************************************************************************)
LEMMA TokenHasRoom ==
  ASSUME NEW t, Spellable(t), t.kind = "mtf" => t.off < 2^MaxWindow
  PROVE  Wire!HasRoom(t)
<1> DEFINE u == Wire!Encoded(t)
           base == IF t.kind = "mtf" THEN MtfMin ELSE PtrMin
<1>0. /\ LitCount \in Nat /\ Slots \in Nat /\ PtrMin \in Nat \ {0} /\ MtfMin \in Nat \ {0}
      /\ MaxShort \in Nat /\ MaxShort >= 2 /\ MaxLong \in Nat \ {0}
      /\ MaxWindow \in Nat \ {0} /\ 2^30 \in Nat
  <2>1. 2^30 \in Nat
    BY PowersAssumption, 30 \in 0..30
  <2> QED BY CodecAssumption, StreamAssumption, WindowAssumption, <2>1
<1>1. 2^MaxWindow \in Nat /\ 2^MaxWindow >= 1
  <2>1. MaxWindow \in 0..30 /\ 0 \in 0..30 /\ 0 <= MaxWindow
    BY WindowAssumption
  <2>2. 2^0 <= 2^MaxWindow
    BY ONLY <2>1, PowersGrow
  <2> QED BY <2>1, <2>2, PowersAssumption
<1>2. LengthRoom \in Nat /\ Wire!LengthLimit(base) = base + LengthRoom
  <2>1. base \in Nat
    BY <1>0
  <2> HIDE DEF base
  <2>2. LengthRoom \in Nat
    BY <1>0, <1>1 DEF LengthRoom
  <2> QED BY <1>0, <1>1, <2>1, <2>2 DEF Wire!LengthLimit, LengthRoom
<1> DEFINE Told == t.off < 2^MaxWindow /\ t.len < base + LengthRoom
           Typed == u \in Seq(Fields)
           Held == \A i \in 1..Len(u) : Fitting(u[i])
<1>3. SUFFICES Typed /\ (Held <=> Told)
  <2>1. ASSUME Typed PROVE Wire!InAlphabets(u) <=> Held
    <3>1. DOMAIN u = 1..Len(u)
      BY <2>1
    <3> HIDE DEF u
    <3> QED BY <3>1 DEF Wire!InAlphabets, Fitting
  <2>2. Wire!HasRoom(t) <=> (Wire!InAlphabets(u) <=> Told)
    BY <1>2 DEF Wire!HasRoom
  <2> HIDE DEF Typed, Held, Told
  <2> QED BY <2>1, <2>2
<1>4. ASSUME NEW b \in 0..(LitCount - 1), t = Literal(b)
      PROVE  Typed /\ (Held <=> Told)
  <2>1. u = <<Wire!Short(b)>> /\ t.off = 0 /\ t.len = 1 /\ base = PtrMin
    BY <1>4 DEF Literal, Wire!Encoded
  <2> DEFINE f == Wire!Short(b)
  <2>2. f \in Fields /\ f.code = "short" /\ f.v = b /\ b < LitCount /\ b \in Nat
    BY <1>0 DEF Wire!Short, Fields
  <2> HIDE DEF f, u, base
  <2>3. u \in Seq(Fields) /\ Len(u) = 1 /\ u[1] = f
    BY <2>1, <2>2 DEF f
  <2>4. Wire!ShortAlphabet >= LitCount /\ Wire!ShortAlphabet \in Nat
    <3>1. (MaxWindow + Slots) * MaxShort \in Nat
      BY <1>0
    <3> QED BY <1>0, <3>1 DEF Wire!ShortAlphabet
  <2>5. Fitting(f)
    BY <1>0, <2>2, <2>4 DEF Fitting
  <2>6. Held
    BY <2>3, <2>5
  <2>7. Told
    <3>1. LengthRoom >= 1
      BY <1>0, <1>1 DEF LengthRoom
    <3> QED BY <1>0, <1>1, <1>2, <2>1, <3>1
  <2> QED BY <2>3, <2>6, <2>7
<1>5. ASSUME NEW k \in 0..(Slots - 1), NEW off \in Nat, NEW len \in Number, len >= MtfMin,
             t = Repeat(k, off, len)
      PROVE  Typed /\ (Held <=> Told)
  <2> DEFINE adj == len - MtfMin
  <2>1. u = Wire!MatchFields(k, adj) /\ t.len = len /\ base = MtfMin /\ t.off < 2^MaxWindow
    BY <1>5 DEF Repeat, Wire!Encoded
  <2>2. Rung(k, adj) /\ k < MaxWindow + Slots /\ len = MtfMin + adj /\ adj \in Nat
    BY <1>0, <1>5 DEF Number, Rung
  <2> HIDE DEF adj, u, base
  <2>3. MatchRoom(u, k, adj)
    BY ONLY <2>1, <2>2, MatchHasRoom
  <2>4. Told <=> adj < LengthRoom
    BY <1>0, <1>2, <2>1, <2>2
  <2> HIDE DEF Told
  <2> QED BY <2>2, <2>3, <2>4 DEF MatchRoom
<1>6. ASSUME NEW off \in Number, NEW len \in Number, len >= PtrMin, t = Pointer(off, len)
      PROVE  Typed /\ (Held <=> Told)
  <2> DEFINE m == Wire!Msb(off)
             class == Slots + m
             adj == len - PtrMin
             w == Wire!MatchFields(class, adj)
             r == Wire!LowBits(off)
  <2>1. u = w \o <<r>> /\ t.len = len /\ t.off = off /\ base = PtrMin
    BY <1>6 DEF Pointer, Wire!Encoded
  <2>2. m \in Nat /\ r \in Fields /\ r.code = "raw" /\ (m < MaxWindow <=> off < 2^MaxWindow)
    BY MsbExists, LowBitsTyped, MsbWithin DEF Wire!LowBits, Wire!Raw
  <2> HIDE DEF m
  <2>3. /\ Rung(class, adj) /\ len = PtrMin + adj /\ adj \in Nat
        /\ class < MaxWindow + Slots <=> m < MaxWindow
    BY <1>0, <1>6, <2>2 DEF Number, Rung
  <2> HIDE DEF adj, class
  <2>4. w = Wire!MatchFields(class, adj)
    OBVIOUS
  <2> HIDE DEF u, w, r, base
  <2>5. MatchRoom(w, class, adj)
    BY ONLY <2>3, <2>4, MatchHasRoom
  <2>6. w \in Seq(Fields) /\ <<r>> \in Seq(Fields) /\ Len(<<r>>) = 1
    BY <2>2, <2>5 DEF MatchRoom
  <2>7. u \in Seq(Fields) /\ Len(u) = Len(w) + 1 /\ u[Len(u)] = r /\ \A i \in 1..Len(w) : u[i] = w[i]
    BY <2>1, <2>6, ConcatProperties
  <2>8. Fitting(r)
    BY <2>2 DEF Fitting
  <2>9. Len(w) \in Nat /\ \A i \in 1..Len(u) : i \in 1..Len(w) \/ i = Len(u)
    BY <2>6, <2>7
  <2>a. \A i \in 1..Len(w) : i \in 1..Len(u)
    BY <2>7, <2>9
  <2>10. Held <=> \A i \in 1..Len(w) : Fitting(w[i])
    BY <2>7, <2>8, <2>9, <2>a
  <2>11. Told <=> off < 2^MaxWindow /\ adj < LengthRoom
    BY <1>0, <1>2, <2>1, <2>3
  <2> HIDE DEF Told, Held
  <2> QED BY <2>2, <2>3, <2>5, <2>7, <2>10, <2>11 DEF MatchRoom
<1> QED BY <1>4, <1>5, <1>6 DEF Spellable

(***************************************************************************)
(* Any token that an encoder may make is written as fields that the        *)
(* decoder asks for one by one, and read as it was; and there is a symbol  *)
(* for each of them exactly up to the window and the longest escape        *)
(* (_collect_frequencies, _encode_tokens, _decode_block).                  *)
(***************************************************************************)
THEOREM WireCarriesTokens ==
  ASSUME NEW t, Spellable(t)
  PROVE  /\ Wire!FieldsLineUp(t) /\ Wire!SurvivesWire(t)
         /\ (t.kind = "mtf" => t.off < 2^MaxWindow) => Wire!HasRoom(t)
BY TokenLinesUp, TokenComesAcross, TokenHasRoom

----------------------------------------------------------------------------
(* The invariant *)

SpellInv == \A k \in 1..Len(tokens) : Spellable(tokens[k])

CodecInv == IndInv /\ CodecTypeOK /\ BoundsInv /\ ControlInv /\ SpellInv

----------------------------------------------------------------------------
(* Match finding *)

(***************************************************************************)
(* The extension loop: how far the bytes agree, within the limit.          *)
(***************************************************************************)
LEMMA AgreementAgrees ==
  ASSUME NEW p \in Nat, NEW src \in Nat, NEW limit \in Nat
  PROVE  /\ Agreement(p, src, limit) \in Nat
         /\ p <= limit => p + Agreement(p, src, limit) <= limit
         /\ p > limit => Agreement(p, src, limit) = 0
         /\ \A i \in 1..Agreement(p, src, limit) : data[p + i] = data[src + i]
<1> DEFINE most == Larger(limit - p, 0)
           Good(l) == /\ \A i \in 0..(l - 1) : Byte(p + i) = Byte(src + i)
                      /\ p + l < limit => Byte(p + l) # Byte(src + l)
           S == {l \in 0..most : p + l < limit => Byte(p + l) # Byte(src + l)}
<1>0. most \in Nat /\ (p <= limit => most = limit - p) /\ (p > limit => most = 0)
  BY DEF Larger
<1>1. S \in SUBSET Nat /\ most \in S
  <2> HIDE DEF most
  <2> QED BY <1>0
<1>2. PICK m \in S : \A l \in S : m <= l
  <2> HIDE DEF S
  <2> QED BY <1>1, LeastNatural
<1>3. m \in 0..most /\ Good(m)
  <2> HIDE DEF most
  <2>1. m \in 0..most /\ (p + m < limit => Byte(p + m) # Byte(src + m))
    OBVIOUS
  <2>2. ASSUME NEW i \in 0..(m - 1), Byte(p + i) # Byte(src + i) PROVE FALSE
    <3>1. i \in 0..most /\ i < m
      BY <1>0, <2>1
    <3>2. i \in S
      BY <2>2, <3>1
    <3>3. m <= i
      BY <1>2, <3>2
    <3> QED BY <1>0, <2>1, <3>1, <3>3
  <2> QED BY <2>1, <2>2
<1> DEFINE L == Agreement(p, src, limit)
<1>4. L \in 0..most /\ Good(L)
  <2>1. L = CHOOSE l \in 0..most : Good(l)
    BY DEF Agreement
  <2>2. \E l \in 0..most : Good(l)
    BY <1>3
  <2> HIDE DEF Good, L, most
  <2> QED BY <2>1, <2>2
<1> HIDE DEF L
<1>5. ASSUME NEW i \in 1..L PROVE data[p + i] = data[src + i]
  <2>1. i - 1 \in 0..(L - 1) /\ p + (i - 1) + 1 = p + i /\ src + (i - 1) + 1 = src + i
    BY <1>0, <1>4
  <2>2. Byte(p + (i - 1)) = Byte(src + (i - 1))
    BY <1>4, <2>1
  <2> QED BY <2>1, <2>2 DEF Byte
<1> HIDE DEF most
<1>6. L \in Nat /\ (p <= limit => p + L <= limit) /\ (p > limit => L = 0)
  BY <1>0, <1>4
<1> QED BY <1>5, <1>6 DEF L

(***************************************************************************)
(* A match of _check_mtf repeats earlier bytes and lies within the block,  *)
(* also where it is accepted on its first bytes beyond the limit.          *)
(***************************************************************************)
LEMMA CheckMtfRepeats ==
  ASSUME NEW p \in Nat, NEW off \in Nat \ {0}, NEW limit \in Nat, n \in Nat,
         p + MtfMin <= n, limit <= n, CheckMtf(p, off, limit) # 0
  PROVE  /\ CheckMtf(p, off, limit) \in Nat /\ CheckMtf(p, off, limit) >= MtfMin
         /\ off < p /\ Repeats(p, off, CheckMtf(p, off, limit))
<1> DEFINE A == Agreement(p, p - off, limit)
           L == CheckMtf(p, off, limit)
<1>0. MtfMin \in Nat
  BY StreamAssumption
<1>1. /\ p - off > 0
      /\ \A i \in 0..(MtfMin - 1) : Byte(p + i) = Byte(p - off + i)
      /\ L = Larger(MtfMin, A)
  BY DEF CheckMtf
<1>2. p - off \in Nat /\ off < p /\ off \in 1..p
  BY <1>1
<1>3. /\ A \in Nat /\ (p <= limit => p + A <= limit) /\ (p > limit => A = 0)
      /\ \A i \in 1..A : data[p + i] = data[p - off + i]
  BY <1>2, AgreementAgrees
<1> HIDE DEF A, L
<1>4. L \in Nat /\ L >= MtfMin /\ p + L <= n /\ (L = MtfMin \/ L = A)
  BY <1>0, <1>1, <1>3 DEF Larger
<1>5. ASSUME NEW i \in 1..L PROVE data[p + i] = data[p + i - off]
  <2>0. i \in Nat /\ p - off + i = p + i - off
    BY <1>4
  <2>1. CASE L = MtfMin
    <3>1. i - 1 \in 0..(MtfMin - 1) /\ p + (i - 1) + 1 = p + i /\ p - off + (i - 1) + 1 = p - off + i
      BY <1>0, <1>4, <2>1
    <3>2. Byte(p + (i - 1)) = Byte(p - off + (i - 1))
      BY <1>1, <3>1
    <3> QED BY <2>0, <3>1, <3>2 DEF Byte
  <2>2. CASE L = A
    BY <1>3, <2>0, <2>2
  <2> QED BY <1>4, <2>1, <2>2
<1>6. Repeats(p, off, L)
  BY <1>2, <1>4, <1>5 DEF Repeats, n
<1> QED BY <1>2, <1>4, <1>6 DEF L

\* What a search through the list returns: nothing, or a match the stream allows.
Repeated(slots, p, m) ==
  \/ m = NoMatch
  \/ /\ m.slot \in slots /\ m.len \in Nat /\ m.len >= MtfMin
     /\ mtf[m.slot + 1] < p /\ Repeats(p, mtf[m.slot + 1], m.len)

LEMMA FirstSlotRepeats ==
  ASSUME NEW slots \in SUBSET (0..(Slots - 1)), NEW p \in Nat, NEW least \in Nat \ {0},
         mtf \in Lists, n \in Nat, copied \in 0..n, p + MtfMin <= n
  PROVE  Repeated(slots, p, FirstSlot(slots, p, least))
<1> DEFINE fits(s)  == CheckMtf(p, mtf[s + 1], copied) >= least
           first(s) == fits(s) /\ \A r \in slots : r < s => ~fits(r)
           S == {s \in slots : fits(s)}
<1>0. Slots \in Nat /\ slots \subseteq Nat
  BY StreamAssumption
<1>1. CASE ~\E s \in slots : fits(s)
  BY <1>1 DEF FirstSlot, Repeated
<1>2. CASE \E s \in slots : fits(s)
  <2>1. PICK s \in S : \A r \in S : s <= r
    <3>1. S \in SUBSET Nat /\ S # {}
      BY <1>0, <1>2
    <3> HIDE DEF S
    <3> QED BY <3>1, LeastNatural
  <2>2. s \in slots /\ first(s)
    <3>1. s \in slots /\ fits(s) /\ s \in Nat
      BY <1>0
    <3>2. ASSUME NEW r \in slots, r < s, fits(r) PROVE FALSE
      <4>1. r \in S
        BY <3>2
      <4>2. s <= r /\ r \in Nat
        BY <1>0, <2>1, <4>1
      <4> HIDE DEF fits
      <4> QED BY <3>1, <3>2, <4>2
    <3> QED BY <3>1, <3>2
  <2> DEFINE c == CHOOSE c \in slots : first(c)
             L == CheckMtf(p, mtf[c + 1], copied)
  <2>3. c \in slots /\ first(c)
    <3> HIDE DEF first
    <3> QED BY <2>2
  <2>4. FirstSlot(slots, p, least) = [slot |-> c, len |-> L]
    BY <1>2 DEF FirstSlot
  <2>5. L >= least
    BY <2>3
  <2> HIDE DEF c
  <2>6. mtf[c + 1] \in Nat \ {0} /\ copied \in Nat /\ copied <= n
    BY <2>3, ListTypes
  <2>7. L # 0
    BY <2>5
  <2>8. L \in Nat /\ L >= MtfMin /\ mtf[c + 1] < p /\ Repeats(p, mtf[c + 1], L)
    BY <2>6, <2>7, CheckMtfRepeats
  <2> HIDE DEF L
  <2> QED BY <2>3, <2>4, <2>8 DEF Repeated
<1> QED BY <1>1, <1>2

(***************************************************************************)
(* Chains lead backwards.                                                  *)
(***************************************************************************)
LEMMA GreatestBelow ==
  ASSUME NEW p \in Nat, NEW S \in SUBSET (0..p), S # {}
  PROVE  Max(S) \in S
<1> DEFINE T == {p - s : s \in S}
<1>1. T \in SUBSET Nat /\ T # {}
  <2>1. \A s \in S : p - s \in Nat
    OBVIOUS
  <2> QED BY <2>1
<1>2. PICK t \in T : \A r \in T : t <= r
  <2> HIDE DEF T
  <2> QED BY <1>1, LeastNatural
<1>3. PICK m \in S : t = p - m
  OBVIOUS
<1>4. \A s \in S : m >= s
  <2> SUFFICES ASSUME NEW s \in S PROVE m >= s
    OBVIOUS
  <2>1. p - s \in T
    OBVIOUS
  <2>2. p - m <= p - s
    BY <1>2, <1>3, <2>1
  <2> QED BY <2>2
<1> QED BY <1>4 DEF Max

LEMMA PreviousIsBefore ==
  ASSUME NEW p \in Nat
  PROVE  PreviousSameHash(p) \in 0..p
<1> DEFINE word(q) == Hash(SubSeq(data, q + 1, q + HashLen))
           S == {0} \union {q \in 0..(p - 1) : word(q) = word(p)}
<1>1. PreviousSameHash(p) = IF p < n - HashLen THEN Max(S) ELSE 0
  BY DEF PreviousSameHash
<1>2. S \in SUBSET (0..p) /\ S # {}
  <2> HIDE DEF word
  <2> QED OBVIOUS
<1> HIDE DEF S
<1>3. Max(S) \in 0..p
  BY <1>2, GreatestBelow
<1> QED BY <1>1, <1>3

----------------------------------------------------------------------------
(* Steps *)

LEMMA BlockFacts ==
  ASSUME CodecInv
  PROVE  /\ data \in Plaintexts /\ data \in Seq(Int) /\ n \in Nat \ {0} /\ n <= 2^30
         /\ 2^30 \in Nat
         /\ \A i \in 1..n : data[i] \in 0..(LitCount - 1)
         /\ pos \in 0..n /\ mtf \in Lists /\ copied \in 0..n /\ stop \in 0..n
         /\ tokens \in Seq(Tokens) /\ Len(tokens) \in Nat
<1>1. TypeOK /\ copied \in 0..n /\ stop \in 0..n
  BY DEF CodecInv, CodecTypeOK
<1>2. data \in Plaintexts /\ mtf \in Lists /\ tokens \in Seq(Tokens) /\ pos \in 0..n
  BY <1>1 DEF TypeOK, n
<1>3. 2^30 \in Nat
  BY PowersAssumption, 30 \in 0..30
<1>4. data \in Seq(Int) /\ n \in Nat \ {0}
  BY <1>2, DataIsSeq DEF n
<1>5. n <= 2^30 /\ \A i \in 1..n : data[i] \in 0..(LitCount - 1)
  BY <1>2, CodecAssumption DEF n
<1> QED BY <1>1, <1>2, <1>3, <1>4, <1>5

\* What a step must show besides what it does to plan and walk.
Kept == IndInv' /\ TypeOK' /\ data' = data /\ n' = n /\ SpellInv'

ChunksOK ==
  /\ BoundsInv'
  /\ (pNext \in [0..(n - 1) -> 0..(n - 1)])'
  /\ copied' \in 0..n /\ stop' \in 0..n

LEMMA ChunksStay ==
  ASSUME CodecInv, data' = data, UNCHANGED chunkVars
  PROVE  ChunksOK /\ pNext' = pNext /\ copied' = copied /\ stop' = stop
BY DEF CodecInv, CodecTypeOK, BoundsInv, ChunksOK, chunkVars, n

LEMMA Together ==
  ASSUME Kept, ChunksOK, ControlInv', lastPtr' \in BOOLEAN,
         pc' \in {"top", "walk", "one", "two", "plan", "literals"},
         plan' \in Plans, walk' \in Walks
  PROVE  CodecInv'
<1>1. Walks' = Walks /\ Plans' = Plans
  BY DEF Kept, Walks, Plans
<1>2. (pNext \in [0..(n - 1) -> 0..(n - 1)])' /\ (copied \in 0..n)' /\ (stop \in 0..n)'
  BY DEF ChunksOK, Kept
<1>3. CodecTypeOK'
  BY <1>1, <1>2 DEF CodecTypeOK, Kept
<1> QED BY <1>3 DEF CodecInv, Kept, ChunksOK

LEMMA QuietStep ==
  ASSUME CodecInv, [Next]_vars, UNCHANGED encVars
  PROVE  /\ Kept /\ pos' = pos /\ mtf' = mtf /\ tokens' = tokens
         /\ \A k \in Nat : AfterMatch(k)' = AfterMatch(k)
<1>1. IndInv'
  BY NextInv DEF CodecInv
<1>2. /\ data' = data /\ pos' = pos /\ mtf' = mtf /\ tokens' = tokens
  BY DEF encVars
<1>3. SpellInv'
  BY <1>2 DEF CodecInv, SpellInv
<1> QED BY <1>1, <1>2, <1>3 DEF Kept, IndInv, n, AfterMatch, IsMatch

(***************************************************************************)
(* Emitting a token, as the stream allows it.                              *)
(***************************************************************************)
LEMMA EmitStep ==
  ASSUME CodecInv, Next, NEW t, NEW l, Spellable(t), Emit(t, l)
  PROVE  /\ Kept /\ pos' = pos + t.len /\ mtf' = l
         /\ Len(tokens') = Len(tokens) + 1
         /\ AfterMatch(Len(tokens) + 1)' = IsMatch(t)
<1>1. IndInv'
  BY NextInv DEF CodecInv
<1>2. /\ data' = data /\ pos' = pos + t.len /\ mtf' = l /\ tokens' = Append(tokens, t)
  BY DEF Emit
<1>3. tokens \in Seq(Tokens) /\ Len(tokens) \in Nat
  BY BlockFacts
<1>4. /\ Len(tokens') = Len(tokens) + 1 /\ tokens'[Len(tokens) + 1] = t
      /\ \A k \in 1..Len(tokens) : tokens'[k] = tokens[k]
  <2>1. tokens' \in Seq(Tokens)
    BY <1>1 DEF IndInv, TypeOK
  <2>2. t \in Tokens
    <3>1. Len(tokens') \in 1..Len(tokens') /\ tokens'[Len(tokens')] = t
      BY <1>2, <1>3
    <3> QED BY <2>1, <3>1, ElementOfSeq
  <2> QED BY <1>2, <1>3, <2>2, AppendProperties
<1>5. SpellInv'
  <2> SUFFICES ASSUME NEW k \in 1..Len(tokens') PROVE Spellable(tokens'[k])
    BY DEF SpellInv, Spellable
  <2>1. CASE k \in 1..Len(tokens)
    BY <1>4, <2>1 DEF CodecInv, SpellInv
  <2>2. CASE k = Len(tokens) + 1
    BY <1>4, <2>2
  <2> QED BY <1>3, <1>4, <2>1, <2>2
<1>6. AfterMatch(Len(tokens) + 1)' = IsMatch(t)
  <2>1. Len(tokens') + 1 > 1 /\ (Len(tokens') + 1) - 1 = Len(tokens) + 1
    BY <1>3, <1>4
  <2> QED BY <1>4, <2>1 DEF AfterMatch, IsMatch
<1> QED BY <1>1, <1>2, <1>4, <1>5, <1>6 DEF Kept, IndInv, n

LEMMA InPlace ==
  ASSUME CodecInv, UNCHANGED vars, UNCHANGED chunkVars
  PROVE  /\ Kept /\ ChunksOK
         /\ data' = data /\ pos' = pos /\ mtf' = mtf /\ tokens' = tokens
         /\ pNext' = pNext /\ copied' = copied /\ stop' = stop
         /\ AfterMatch(Len(tokens) + 1)' = AfterMatch(Len(tokens) + 1)
         /\ UNCHANGED plan => PlanInv' = PlanInv
<1>1. /\ Kept /\ pos' = pos /\ mtf' = mtf /\ tokens' = tokens
  BY QuietStep DEF vars
<1>2. data' = data
  BY <1>1 DEF Kept
<1>3. ChunksOK /\ pNext' = pNext /\ copied' = copied /\ stop' = stop
  BY <1>2, ChunksStay
<1>4. AfterMatch(Len(tokens) + 1)' = AfterMatch(Len(tokens) + 1)
  BY <1>1 DEF AfterMatch, IsMatch
<1>5. UNCHANGED plan => PlanInv' = PlanInv
  BY <1>1, <1>2, <1>4 DEF PlanInv, Repeats
<1> QED BY <1>1, <1>2, <1>3, <1>4, <1>5

LEMMA NextChunkStep == ASSUME CodecInv, NextChunk PROVE CodecInv' /\ [Next]_vars
<1>1. /\ pc = "top" /\ copied < n /\ copied' = NextCopied /\ UNCHANGED vars
      /\ pNext' = [p \in 0..(n - 1) |->
                     IF p \in stop..(copied' - 1) THEN PreviousSameHash(p) ELSE pNext[p]]
      /\ stop' = IF n >= HashLen THEN Smaller(copied', n - HashLen) ELSE 0
      /\ lastPtr' = lastPtr /\ pc' = pc /\ plan' = plan /\ walk' = walk
  BY DEF NextChunk
<1>2. Kept /\ AfterMatch(Len(tokens) + 1)' = AfterMatch(Len(tokens) + 1) /\ data' = data
  <2>1. Kept /\ tokens' = tokens
    BY <1>1, QuietStep DEF vars
  <2> QED BY <2>1 DEF Kept, AfterMatch, IsMatch
<1>3. /\ n \in Nat \ {0} /\ copied \in 0..n
      /\ pNext \in [0..(n - 1) -> 0..(n - 1)] /\ \A p \in 0..(n - 1) : pNext[p] <= p
  BY BlockFacts DEF CodecInv, CodecTypeOK, BoundsInv
<1>4. copied' \in 0..n /\ stop' \in 0..n /\ stop' <= copied' /\ (stop' # 0 => stop' + HashLen <= n)
  <2>1. copied' \in 0..n
    BY <1>1, <1>3, CodecAssumption DEF NextCopied, Smaller
  <2> QED BY <1>1, <1>3, <2>1, CodecAssumption DEF Smaller
<1>5. \A p \in 0..(n - 1) : PreviousSameHash(p) \in 0..(n - 1) /\ PreviousSameHash(p) <= p
  <2> SUFFICES ASSUME NEW p \in 0..(n - 1)
               PROVE  PreviousSameHash(p) \in 0..(n - 1) /\ PreviousSameHash(p) <= p
    OBVIOUS
  <2>1. p \in Nat
    BY <1>3
  <2>2. PreviousSameHash(p) \in 0..p
    BY <2>1, PreviousIsBefore
  <2> QED BY <1>3, <2>2
<1>6. pNext' \in [0..(n - 1) -> 0..(n - 1)] /\ \A p \in 0..(n - 1) : pNext'[p] <= p
  BY <1>1, <1>3, <1>5
<1>7. ChunksOK
  BY <1>2, <1>4, <1>6 DEF ChunksOK, BoundsInv, Kept
<1>8. ControlInv'
  BY <1>1, <1>2 DEF CodecInv, ControlInv
<1> QED BY <1>1, <1>2, <1>7, <1>8, Together DEF CodecInv, CodecTypeOK

(***************************************************************************)
(* A repeated match found somewhere Pass 1 may look.                       *)
(***************************************************************************)
LEMMA RepeatFound ==
  ASSUME CodecInv, NEW p \in Nat, p < stop, NEW least \in Nat \ {0},
         NEW slots \in SUBSET (0..(Slots - 1))
  PROVE  /\ Repeated(slots, p, FirstSlot(slots, p, least))
         /\ FirstSlot(slots, p, least).len \in Nat
<1>1. stop + HashLen <= n /\ n \in Nat /\ copied \in 0..n /\ mtf \in Lists /\ stop \in Nat
  BY BlockFacts DEF CodecInv, BoundsInv
<1>2. p + MtfMin <= n
  BY <1>1, CodecAssumption, StreamAssumption
<1>3. Repeated(slots, p, FirstSlot(slots, p, least))
  BY <1>1, <1>2, FirstSlotRepeats
<1> QED BY <1>3 DEF Repeated, NoMatch

LEMMA TakeRepeatStep == ASSUME CodecInv, TakeRepeat PROVE CodecInv' /\ [Next]_vars
<1> DEFINE m == RepeatHere
           low == IF lastPtr THEN 1 ELSE 0
           off == mtf[m.slot + 1]
           t == Repeat(m.slot - low, off, m.len)
           l == UpdateMtf(mtf, m.slot)
<1>1. /\ pc = "top" /\ pos < stop /\ m.len > 0
      /\ Emit(t, l) /\ lastPtr' = TRUE /\ UNCHANGED chunkVars
      /\ pc' = pc /\ plan' = plan /\ walk' = walk
  BY DEF TakeRepeat, InPass1
<1>2. Repeated(low..(Slots - 1), pos, m) /\ m.len \in Nat
  <2>1. low..(Slots - 1) \in SUBSET (0..(Slots - 1)) /\ pos \in Nat /\ MtfMin \in Nat \ {0}
    BY StreamAssumption, BlockFacts
  <2>2. m = FirstSlot(low..(Slots - 1), pos, MtfMin)
    BY DEF RepeatHere
  <2> HIDE DEF low, m
  <2> QED BY <1>1, <2>1, <2>2, RepeatFound
<1> HIDE DEF m
<1>3. /\ m.slot \in low..(Slots - 1) /\ m.len \in Nat /\ m.len >= MtfMin
      /\ off < pos /\ Repeats(pos, off, m.len)
  BY <1>1, <1>2 DEF Repeated, NoMatch
<1>4. /\ m.slot \in 0..(Slots - 1) /\ off \in Nat /\ m.len \in 1..(Len(data) - pos)
      /\ m.len \in Number /\ m.slot - low \in 0..(Slots - 1) /\ m.slot >= low
      /\ pos \in Nat
  <2>1. pos \in 0..n /\ n <= 2^30 /\ 2^30 \in Nat /\ n \in Nat /\ MtfMin \in Nat \ {0} /\ Slots \in Nat
    BY BlockFacts, StreamAssumption
  <2>2. off \in 1..pos /\ pos + m.len <= n
    BY <1>3 DEF Repeats, n
  <2> HIDE DEF off
  <2> QED BY <1>3, <2>1, <2>2 DEF Number, n
<1>5. Spellable(t)
  BY <1>3, <1>4 DEF Spellable
<1>6. lastPtr = AfterMatch(Len(tokens) + 1)
  BY <1>1 DEF CodecInv, ControlInv
<1>7. EmitRepeat(m.slot, m.len)
  <2>1. TrueMatch(off, m.len)
    BY <1>3, <1>4 DEF TrueMatch, Repeats
  <2> HIDE DEF m
  <2> QED BY <1>1, <1>3, <1>4, <1>6, <2>1 DEF EmitRepeat
<1>8. Next
  BY <1>4, <1>7 DEF Next, Encode
<1> HIDE DEF t, l
<1>9. Kept /\ AfterMatch(Len(tokens) + 1)' = IsMatch(t)
  BY <1>1, <1>5, <1>8, EmitStep
<1>10. IsMatch(t)
  BY DEF t, Repeat, IsMatch
<1>11. ChunksOK
  BY <1>1, <1>9, ChunksStay DEF Kept
<1>12. ControlInv'
  BY <1>1, <1>9, <1>10 DEF ControlInv
<1> QED BY <1>1, <1>8, <1>9, <1>11, <1>12, Together DEF CodecInv, CodecTypeOK

(***************************************************************************)
(* The steps of a search change nothing but the plan and the walk.         *)
(***************************************************************************)
LEMMA SearchStep ==
  ASSUME CodecInv, UNCHANGED <<vars, chunkVars>>, ControlInv', lastPtr' \in BOOLEAN,
         pc' \in {"top", "walk", "one", "two", "plan", "literals"},
         plan' \in Plans, walk' \in Walks
  PROVE  CodecInv' /\ [Next]_vars
BY InPlace, Together

LEMMA WalkStarts ==
  ASSUME CodecInv, NEW k \in 0..2, NEW depth \in 0..MaxDepth, NEW floor \in Nat,
         UNCHANGED <<vars, chunkVars, lastPtr, plan>>, StartWalk(k, depth, floor),
         pc \in {"top", "one", "two"}, pos + k < stop,
         floor = IF k = 0 THEN PtrMin - 1 ELSE plan.len, k > 0 => PlanBefore(k)
  PROVE  CodecInv' /\ [Next]_vars
<1>1. /\ pos' = pos /\ stop' = stop /\ plan' = plan /\ lastPtr' = lastPtr /\ pc' = "walk"
      /\ walk' = [ahead |-> k, cand |-> pNext[pos + k], misses |-> 0, left |-> depth,
                  off |-> 0, len |-> floor]
      /\ AfterMatch(Len(tokens) + 1)' = AfterMatch(Len(tokens) + 1) /\ PlanInv' = PlanInv
  BY InPlace DEF StartWalk
<1>2. pos + k \in 0..(n - 1) /\ pos \in Nat /\ k \in Nat
  BY BlockFacts
<1>3. pNext[pos + k] \in 0..(n - 1) /\ pNext[pos + k] <= pos + k
  BY <1>2 DEF CodecInv, CodecTypeOK, BoundsInv
<1>4. walk' \in Walks
  <2>1. 0 \in 0..(Tick - 1)
    BY CodecAssumption
  <2> QED BY <1>1, <1>3, <2>1 DEF Walks
<1>5. WalkInv'
  BY <1>1, <1>3 DEF WalkInv, Start, Floor, PlanBefore
<1>6. ControlInv'
  BY <1>1, <1>5 DEF CodecInv, ControlInv
<1> QED BY <1>1, <1>4, <1>6, SearchStep DEF CodecInv, CodecTypeOK

LEMMA LookUpStep == ASSUME CodecInv, LookUp PROVE CodecInv' /\ [Next]_vars
<1>1. /\ pc = "top" /\ pos < stop /\ StartWalk(0, MaxDepth, PtrMin - 1)
      /\ UNCHANGED <<vars, chunkVars, lastPtr, plan>>
  BY DEF LookUp, InPass1
<1>2. MaxDepth \in 0..MaxDepth /\ PtrMin - 1 \in Nat /\ pos + 0 < stop
  BY <1>1, CodecAssumption, StreamAssumption, BlockFacts
<1> QED BY <1>1, <1>2, WalkStarts

LEMMA WalkFacts ==
  ASSUME CodecInv, pc = "walk"
  PROVE  /\ WalkInv /\ walk \in Walks /\ plan \in Plans
         /\ walk.ahead \in 0..2 /\ walk.cand \in 0..(n - 1) /\ walk.misses \in 0..(Tick - 1)
         /\ walk.left \in 0..MaxDepth /\ walk.off \in Nat /\ walk.len \in Nat
         /\ Start \in 0..(n - 1) /\ walk.cand \in 0..Start
         /\ NextLink \in 0..Start /\ NextLink \in 0..(n - 1)
<1>1. WalkInv /\ walk \in Walks /\ plan \in Plans
  BY DEF CodecInv, CodecTypeOK, ControlInv
<1>2. /\ walk.ahead \in 0..2 /\ walk.cand \in 0..(n - 1) /\ walk.misses \in 0..(Tick - 1)
      /\ walk.left \in 0..MaxDepth /\ walk.off \in Nat /\ walk.len \in Nat
  BY <1>1 DEF Walks
<1>3. Start \in 0..(n - 1) /\ walk.cand \in 0..Start
  <2>1. pos \in 0..n /\ stop \in 0..n /\ n \in Nat
    BY BlockFacts
  <2> QED BY <1>1, <1>2, <2>1 DEF WalkInv, Start
<1>4. pNext[walk.cand] \in 0..(n - 1) /\ pNext[walk.cand] <= walk.cand
  BY <1>2 DEF CodecInv, CodecTypeOK, BoundsInv
<1>5. NextLink \in 0..Start /\ NextLink \in 0..(n - 1)
  <2>1. n \in Nat
    BY BlockFacts
  <2> QED BY <1>3, <1>4, <2>1 DEF NextLink
<1> QED BY <1>1, <1>2, <1>3, <1>5

(***************************************************************************)
(* A step of the walk keeps what the walk knows.                           *)
(***************************************************************************)
LEMMA WalkMoves ==
  ASSUME CodecInv, pc = "walk", UNCHANGED <<vars, chunkVars, lastPtr, pc, plan>>, walk' \in Walks,
         walk'.ahead = walk.ahead, walk'.cand <= Start,
         \/ walk'.off = walk.off /\ walk'.len = walk.len
         \/ walk'.off # 0 /\ walk'.len > walk.len /\ Repeats(Start, walk'.off, walk'.len)
  PROVE  CodecInv' /\ [Next]_vars
<1>1. /\ pos' = pos /\ stop' = stop /\ plan' = plan /\ lastPtr' = lastPtr /\ pc' = pc /\ data' = data
      /\ AfterMatch(Len(tokens) + 1)' = AfterMatch(Len(tokens) + 1) /\ PlanInv' = PlanInv
  BY InPlace
<1>2. Start' = Start /\ Floor' = Floor /\ (walk.ahead > 0 => PlanBefore(walk.ahead)')
  BY <1>1, WalkFacts DEF Start, Floor, WalkInv, PlanBefore
<1>3. (walk.off # 0 => walk.len > Floor) /\ walk.len >= Floor /\ Floor \in Int /\ walk.len \in Nat /\ walk'.len \in Nat
  <2>1. walk.len \in Nat /\ walk'.len \in Nat /\ plan \in Plans /\ WalkInv
    BY WalkFacts DEF Walks
  <2>2. Floor \in Int
    BY <2>1, StreamAssumption DEF Floor, Plans
  <2> QED BY <2>1, <2>2 DEF WalkInv
<1>4. (walk.off # 0 => Repeats(Start, walk.off, walk.len)) /\ (walk.off = 0 => walk.len = Floor)
      /\ Start < stop
  BY WalkFacts DEF WalkInv
<1>5. Repeats(Start, walk'.off, walk'.len) => Repeats(Start, walk.off, walk.len)'
  BY <1>1, <1>2 DEF Repeats
<1>6. WalkInv'
  <2>1. (walk.off = 0 => walk.len = Floor)'
    BY <1>2, <1>4
  <2>2. walk'.off # 0 => walk'.len > Floor' /\ Repeats(Start, walk.off, walk.len)'
    BY <1>2, <1>3, <1>4, <1>5
  <2>3. (walk.ahead > 0 => PlanBefore(walk.ahead))'
    BY <1>2 DEF PlanBefore
  <2> QED BY <1>1, <1>2, <1>4, <2>1, <2>2, <2>3 DEF WalkInv
<1>7. ControlInv'
  BY <1>1, <1>6 DEF CodecInv, ControlInv
<1> QED BY <1>1, <1>7, WalkFacts, SearchStep DEF CodecInv, CodecTypeOK

LEMMA WalkPastStep == ASSUME CodecInv, WalkPast PROVE CodecInv' /\ [Next]_vars
<1> DEFINE rest == IF walk.misses + 1 = Tick THEN walk.left - 1 ELSE walk.left
           misses == (walk.misses + 1) % Tick
<1>1. /\ pc = "walk" /\ walk.left > 0
      /\ walk' = [walk EXCEPT !.cand = NextLink, !.misses = misses, !.left = rest]
      /\ UNCHANGED <<vars, chunkVars, lastPtr, pc, plan>>
  BY DEF WalkPast, WalkGoesOn
<1>0. /\ walk \in Walks
      /\ walk.ahead \in 0..2 /\ walk.cand \in 0..(n - 1) /\ walk.misses \in 0..(Tick - 1)
      /\ walk.left \in 0..MaxDepth /\ walk.off \in Nat /\ walk.len \in Nat
      /\ NextLink \in 0..(n - 1) /\ NextLink <= Start
  BY <1>1, WalkFacts
<1>2. rest \in 0..MaxDepth /\ misses \in 0..(Tick - 1)
  <2>1. walk.misses + 1 \in Nat /\ Tick \in Nat \ {0}
    BY <1>0, CodecAssumption
  <2>2. misses \in 0..(Tick - 1)
    BY <2>1, DivMod
  <2>3. rest \in 0..MaxDepth
    BY <1>0, <1>1, CodecAssumption
  <2> QED BY <2>2, <2>3
<1> HIDE DEF rest, misses
<1>3. /\ walk' \in Walks /\ walk'.ahead = walk.ahead /\ walk'.cand <= Start
      /\ walk'.off = walk.off /\ walk'.len = walk.len
  BY <1>0, <1>1, <1>2 DEF Walks
<1> QED BY <1>1, <1>3, WalkMoves

LEMMA WalkOntoStep == ASSUME CodecInv, WalkOnto PROVE CodecInv' /\ [Next]_vars
<1> DEFINE off == Start - walk.cand
           len == Agreement(Start, walk.cand, copied)
           better == len > walk.len /\ OffsetAllowed(off, len)
<1>1. /\ pc = "walk" /\ walk.cand < Start
      /\ walk' = [walk EXCEPT !.cand = NextLink, !.misses = 0,
                              !.off = IF better THEN off ELSE walk.off,
                              !.len = IF better THEN len ELSE walk.len]
      /\ UNCHANGED <<vars, chunkVars, lastPtr, pc, plan>>
  BY DEF WalkOnto, WalkGoesOn
<1>2. /\ Start \in Nat /\ walk.cand \in Nat /\ copied \in Nat /\ copied <= n /\ Start <= copied
      /\ n \in Nat /\ off \in 1..Start
  <2>1. Start < stop /\ stop <= copied /\ stop \in Nat
    BY <1>1, WalkFacts, BlockFacts DEF CodecInv, BoundsInv, WalkInv
  <2>2. Start \in 0..(n - 1) /\ walk.cand \in 0..(n - 1) /\ copied \in 0..n /\ n \in Nat
    BY <1>1, WalkFacts, BlockFacts
  <2> QED BY <1>1, <2>1, <2>2
<1>0. /\ walk \in Walks
      /\ walk.ahead \in 0..2 /\ walk.cand \in 0..(n - 1) /\ walk.misses \in 0..(Tick - 1)
      /\ walk.left \in 0..MaxDepth /\ walk.off \in Nat /\ walk.len \in Nat
      /\ NextLink \in 0..(n - 1) /\ NextLink <= Start
  BY <1>1, WalkFacts
<1>3. /\ len \in Nat /\ Start + len <= n
      /\ \A i \in 1..len : data[Start + i] = data[walk.cand + i]
  <2>1. /\ len \in Nat /\ (Start <= copied => Start + len <= copied)
        /\ \A i \in 1..len : data[Start + i] = data[walk.cand + i]
    BY <1>2, AgreementAgrees
  <2> HIDE DEF len
  <2> QED BY <1>2, <2>1
<1> HIDE DEF len
<1>4. Repeats(Start, off, len)
  <2>1. \A i \in 1..len : walk.cand + i = Start + i - off
    BY <1>2, <1>3
  <2> QED BY <1>2, <1>3, <2>1 DEF Repeats, n
<1>5. 0 \in 0..(Tick - 1)
  BY CodecAssumption
<1> HIDE DEF off
<1>6. CASE better
  <2>1. walk' = [walk EXCEPT !.cand = NextLink, !.misses = 0, !.off = off, !.len = len]
    BY <1>1, <1>6
  <2>2. /\ walk' \in Walks /\ walk'.ahead = walk.ahead /\ walk'.cand <= Start
        /\ walk'.off # 0 /\ walk'.len > walk.len /\ walk'.off = off /\ walk'.len = len
    <3>1. off \in Nat /\ off # 0 /\ len \in Nat /\ len > walk.len
      BY <1>2, <1>3, <1>6
    <3> QED BY <1>0, <1>5, <2>1, <3>1 DEF Walks
  <2> QED BY <1>1, <1>4, <2>2, WalkMoves
<1>7. CASE ~better
  <2>1. walk' = [walk EXCEPT !.cand = NextLink, !.misses = 0, !.off = walk.off, !.len = walk.len]
    BY <1>1, <1>7
  <2>2. /\ walk' \in Walks /\ walk'.ahead = walk.ahead /\ walk'.cand <= Start
        /\ walk'.off = walk.off /\ walk'.len = walk.len
    BY <1>0, <1>5, <2>1 DEF Walks
  <2> QED BY <1>1, <2>2, WalkMoves
<1> QED BY <1>6, <1>7

LEMMA NoWalkTyped == ASSUME n \in Nat \ {0} PROVE NoWalk \in Walks
<1>1. 0 \in 0..(n - 1) /\ 0 \in 0..(Tick - 1) /\ 0 \in 0..MaxDepth
  BY CodecAssumption
<1> QED BY <1>1 DEF NoWalk, Walks

(***************************************************************************)
(* What a finished walk has found.                                         *)
(***************************************************************************)
LEMMA WalkDone ==
  ASSUME CodecInv, WalkEnds
  PROVE  /\ pc = "walk" /\ walk' = NoWalk /\ NoWalk \in Walks
         /\ walk.len > Floor => Repeats(Start, walk.off, walk.len)
         /\ walk.ahead \in 0..2 /\ walk.len \in Nat /\ walk.off \in Nat /\ plan \in Plans
         /\ Start < stop /\ (walk.ahead > 0 => PlanBefore(walk.ahead))
         /\ lastPtr \in BOOLEAN /\ lastPtr = AfterMatch(Len(tokens) + 1)
<1>1. pc = "walk" /\ walk' = NoWalk
  BY DEF WalkEnds
<1>2. WalkInv /\ walk.ahead \in 0..2 /\ walk.len \in Nat /\ walk.off \in Nat /\ plan \in Plans
  BY <1>1, WalkFacts
<1>3. walk.len > Floor => walk.off # 0
  <2> SUFFICES ASSUME walk.len > Floor, walk.off = 0 PROVE FALSE
    OBVIOUS
  <2>1. walk.len = Floor
    BY <1>2 DEF WalkInv
  <2> HIDE DEF Floor
  <2> QED BY <1>2, <2>1
<1>4. NoWalk \in Walks
  BY NoWalkTyped, BlockFacts
<1>5. lastPtr \in BOOLEAN /\ lastPtr = AfterMatch(Len(tokens) + 1)
  BY <1>1 DEF CodecInv, CodecTypeOK, ControlInv
<1> QED BY <1>1, <1>2, <1>3, <1>4, <1>5 DEF WalkInv

LEMMA ChainPlanned ==
  ASSUME CodecInv, UNCHANGED <<vars, chunkVars>>, NEW k \in 0..2, plan' = ByChain(k, walk),
         Repeats(pos + k, walk.off, walk.len), walk.off \in Nat, walk.len \in Nat,
         walk.len >= PtrMin
  PROVE  plan' \in Plans /\ plan'.kind = "ptr" /\ plan'.lits = k /\ PlanInv'
<1>1. /\ plan'.lits = k /\ plan'.kind = "ptr" /\ plan'.slot = 0 /\ plan'.off = walk.off
      /\ plan'.len = walk.len
  BY DEF ByChain
<1>2. 0 \in 0..(Slots - 1)
  BY StreamAssumption
<1>3. plan' \in Plans
  BY <1>2 DEF ByChain, Plans
<1>4. pos' = pos /\ data' = data
  BY InPlace
<1>5. Repeats(pos + plan.lits, plan.off, plan.len)'
  BY <1>1, <1>4 DEF Repeats
<1> QED BY <1>1, <1>3, <1>5 DEF PlanInv

LEMMA ListPlanned ==
  ASSUME CodecInv, UNCHANGED <<vars, chunkVars>>, NEW k \in 1..2, NEW m, plan' = ByList(k, m),
         Repeated(0..(Slots - 1), pos + k, m), m.len > 0
  PROVE  plan' \in Plans /\ PlanInv'
<1>1. /\ plan'.lits = k /\ plan'.kind = "mtf" /\ plan'.slot = m.slot /\ plan'.off = mtf[m.slot + 1]
      /\ plan'.len = m.len
  BY DEF ByList
<1>2. /\ m.slot \in 0..(Slots - 1) /\ m.len \in Nat /\ m.len >= MtfMin
      /\ mtf[m.slot + 1] < pos + k /\ Repeats(pos + k, mtf[m.slot + 1], m.len)
  BY DEF Repeated, NoMatch
<1>3. mtf[m.slot + 1] \in Nat
  BY <1>2, BlockFacts, ListTypes
<1>4. plan' \in Plans
  BY <1>2, <1>3 DEF ByList, Plans
<1>5. pos' = pos /\ data' = data /\ mtf' = mtf
  BY InPlace
<1>6. Repeats(pos + plan.lits, plan.off, plan.len)'
  BY <1>1, <1>2, <1>5 DEF Repeats
<1>7. (plan.off = mtf[plan.slot + 1])' /\ plan'.off < pos' + plan'.lits /\ plan'.lits # 0
  BY <1>1, <1>2, <1>5
<1> QED BY <1>1, <1>2, <1>4, <1>6, <1>7 DEF PlanInv

LEMMA EvaluateStep == ASSUME CodecInv, Evaluate PROVE CodecInv' /\ [Next]_vars
<1>1. /\ WalkEnds /\ walk.ahead = 0 /\ walk.len >= PtrMin /\ plan' = ByChain(0, walk)
      /\ pc' = (IF pos + 2 < stop /\ pNext[pos + 1] # 0 THEN "one" ELSE "plan")
      /\ UNCHANGED <<vars, chunkVars, lastPtr>>
  BY DEF Evaluate
<1>2. walk.len > Floor /\ Start = pos /\ pos + 0 = pos
  BY <1>1, WalkDone, StreamAssumption, BlockFacts DEF Floor, Start
<1>3. Repeats(pos + 0, walk.off, walk.len) /\ walk.off \in Nat /\ walk.len \in Nat
  BY <1>1, <1>2, WalkDone
<1>4. plan' \in Plans /\ plan'.kind = "ptr" /\ plan'.lits = 0 /\ PlanInv'
  BY <1>1, <1>3, ChainPlanned, 0 \in 0..2
<1>5. /\ pos' = pos /\ stop' = stop /\ lastPtr' = lastPtr
      /\ AfterMatch(Len(tokens) + 1)' = AfterMatch(Len(tokens) + 1)
  BY <1>1, InPlace
<1>6. lastPtr \in BOOLEAN /\ lastPtr = AfterMatch(Len(tokens) + 1) /\ walk' \in Walks
  BY <1>1, WalkDone
<1>7. pc' = "one" => PlanBefore(1)'
  BY <1>1, <1>4, <1>5 DEF PlanBefore
<1>8. ControlInv'
  BY <1>1, <1>4, <1>5, <1>6, <1>7 DEF ControlInv
<1> QED BY <1>1, <1>4, <1>5, <1>6, <1>8, SearchStep

LEMMA ImproveStep == ASSUME CodecInv, Improve PROVE CodecInv' /\ [Next]_vars
<1> DEFINE longer == walk.len > plan.len
<1>1. /\ WalkEnds /\ walk.ahead > 0
      /\ plan' = IF longer THEN ByChain(walk.ahead, walk) ELSE plan
      /\ pc' = IF walk.ahead = 1 /\ (longer => pNext[pos + 2] # 0) THEN "two" ELSE "plan"
      /\ UNCHANGED <<vars, chunkVars, lastPtr>>
  BY DEF Improve
<1>2. /\ walk.ahead \in 1..2 /\ Floor = plan.len /\ Start = pos + walk.ahead
      /\ PlanBefore(walk.ahead) /\ plan \in Plans /\ walk.off \in Nat /\ walk.len \in Nat
      /\ lastPtr \in BOOLEAN /\ lastPtr = AfterMatch(Len(tokens) + 1) /\ walk' \in Walks
      /\ longer => Repeats(Start, walk.off, walk.len)
  BY <1>1, WalkDone DEF Floor, Start
<1>3. /\ pos' = pos /\ stop' = stop /\ lastPtr' = lastPtr
      /\ AfterMatch(Len(tokens) + 1)' = AfterMatch(Len(tokens) + 1)
      /\ UNCHANGED plan => PlanInv' = PlanInv
  BY <1>1, InPlace
<1>4. plan' \in Plans /\ plan'.kind = "ptr" /\ PlanInv' /\ (pc' = "two" => plan'.lits < 2)
  <2>1. CASE longer
    <3>1. plan.len >= PtrMin /\ plan.len \in Nat
      BY <1>2 DEF PlanBefore, PlanInv, Plans
    <3>2. walk.len >= PtrMin
      BY <1>2, <2>1, <3>1, StreamAssumption
    <3>3. plan' \in Plans /\ plan'.kind = "ptr" /\ plan'.lits = walk.ahead /\ PlanInv'
      BY <1>1, <1>2, <2>1, <3>2, ChainPlanned, walk.ahead \in 0..2
    <3>4. pc' = "two" => walk.ahead = 1
      BY <1>1
    <3> QED BY <3>3, <3>4
  <2>2. CASE ~longer
    <3>1. plan' = plan
      BY <1>1, <2>2
    <3>2. plan.lits \in 0..2
      BY <1>2 DEF Plans
    <3>3. plan.kind = "ptr" /\ plan.lits < walk.ahead /\ PlanInv
      BY <1>2 DEF PlanBefore
    <3>4. PlanInv' = PlanInv
      BY <1>3, <3>1
    <3>5. plan.lits < 2
      BY <1>2, <3>2, <3>3
    <3>6. plan'.kind = "ptr" /\ plan'.lits < 2
      BY <3>1, <3>3, <3>5
    <3> QED BY <1>2, <3>1, <3>3, <3>4, <3>6
  <2> QED BY <2>1, <2>2
<1>5. pc' \in {"two", "plan"} /\ pos' + 2 < stop'
  BY <1>1, <1>2, <1>3 DEF PlanBefore
<1>6. pc' = "two" => PlanBefore(2)'
  BY <1>4, <1>5 DEF PlanBefore
<1>7. ControlInv'
  BY <1>2, <1>3, <1>4, <1>5, <1>6 DEF ControlInv
<1> QED BY <1>1, <1>2, <1>3, <1>4, <1>5, <1>7, SearchStep

LEMMA LookAheadStep ==
  ASSUME CodecInv, NEW k \in 1..2, pc \in {"one", "two"}, PlanBefore(k), LookAhead(k)
  PROVE  CodecInv' /\ [Next]_vars
<1> DEFINE m == RepeatAhead(pos + k, plan.len)
           depth == Larger(MaxDepth \div (2 * k), 1)
           least == Larger(plan.len - 3, MtfMin)
<1>1. UNCHANGED <<vars, chunkVars, lastPtr>>
  BY DEF LookAhead
<1>2. /\ plan \in Plans /\ walk \in Walks /\ plan.len \in Nat /\ lastPtr \in BOOLEAN
      /\ lastPtr = AfterMatch(Len(tokens) + 1)
  BY DEF CodecInv, CodecTypeOK, ControlInv, Plans
<1>3. pos + k \in Nat /\ pos + k < stop
  <2>1. pos \in Nat /\ stop \in Nat /\ pos + 2 < stop
    BY BlockFacts DEF PlanBefore
  <2> QED BY <2>1
<1>4. Repeated(0..(Slots - 1), pos + k, m) /\ m.len \in Nat
  <2>1. least \in Nat \ {0}
    BY <1>2, StreamAssumption DEF Larger
  <2>2. m = FirstSlot(0..(Slots - 1), pos + k, least)
    BY DEF RepeatAhead
  <2> HIDE DEF m, least
  <2> QED BY <1>3, <2>1, <2>2, RepeatFound
<1>5. /\ lastPtr' = lastPtr /\ AfterMatch(Len(tokens) + 1)' = AfterMatch(Len(tokens) + 1)
      /\ UNCHANGED plan => PlanInv' = PlanInv
  BY <1>1, InPlace
<1>6. /\ \/ m.len > 0 /\ plan' = ByList(k, m) /\ pc' = "plan" /\ UNCHANGED walk
         \/ m.len = 0 /\ plan.lits = k - 1 /\ StartWalk(k, depth, plan.len) /\ UNCHANGED plan
         \/ m.len = 0 /\ plan.lits < k - 1 /\ pc' = "plan" /\ UNCHANGED <<plan, walk>>
  BY DEF LookAhead
<1> HIDE DEF m
<1>7. CASE m.len > 0 /\ plan' = ByList(k, m) /\ pc' = "plan" /\ UNCHANGED walk
  <2>1. plan' \in Plans /\ PlanInv'
    BY <1>1, <1>4, <1>7, ListPlanned
  <2>2. ControlInv'
    BY <1>7, <2>1 DEF ControlInv
  <2> QED BY <1>1, <1>2, <1>5, <1>7, <2>1, <2>2, SearchStep
<1>8. CASE StartWalk(k, depth, plan.len) /\ UNCHANGED plan
  <2>1. depth \in 0..MaxDepth
    <3>1. MaxDepth \in Nat /\ MaxDepth >= 1
      BY CodecAssumption
    <3>2. CASE k = 1
      BY <3>1, <3>2 DEF Larger
    <3>3. CASE k = 2
      BY <3>1, <3>3 DEF Larger
    <3> QED BY <3>2, <3>3
  <2> HIDE DEF depth
  <2>2. k \in 0..2 /\ k # 0 /\ pc \in {"top", "one", "two"}
    OBVIOUS
  <2> QED BY <1>1, <1>2, <1>3, <1>8, <2>1, <2>2, WalkStarts
<1>9. CASE pc' = "plan" /\ UNCHANGED <<plan, walk>>
  <2>1. PlanInv'
    BY <1>5, <1>9 DEF PlanBefore
  <2>2. ControlInv'
    BY <1>9, <2>1 DEF ControlInv
  <2> QED BY <1>1, <1>2, <1>5, <1>9, <2>2, SearchStep
<1> QED BY <1>6, <1>7, <1>8, <1>9

LEMMA EnterLiteralsStep == ASSUME CodecInv, EnterLiterals PROVE CodecInv' /\ [Next]_vars
<1>1. /\ lastPtr' = FALSE /\ pc' = "literals" /\ UNCHANGED <<vars, chunkVars, plan>>
  BY DEF EnterLiterals
<1>2. pos < stop /\ plan' \in Plans /\ walk' \in Walks
  <2>1. plan \in Plans /\ walk \in Walks
    BY DEF CodecInv, CodecTypeOK
  <2>2. CASE InPass1 /\ UNCHANGED walk
    BY <1>1, <2>1, <2>2 DEF InPass1
  <2>3. CASE WalkEnds /\ walk.ahead = 0
    <3>1. Start < stop /\ walk' \in Walks
      BY <2>3, WalkDone
    <3>2. Start = pos
      BY <2>3, BlockFacts DEF Start
    <3> QED BY <1>1, <2>1, <3>1, <3>2
  <2> QED BY <2>2, <2>3 DEF EnterLiterals, NothingFound
<1>3. pos' = pos /\ stop' = stop
  BY <1>1, InPlace
<1>4. ControlInv'
  BY <1>1, <1>2, <1>3 DEF ControlInv
<1> QED BY <1>1, <1>2, <1>4, SearchStep

(***************************************************************************)
(* A literal is always allowed.                                            *)
(***************************************************************************)
LEMMA LiteralStep ==
  ASSUME CodecInv, pos < n, Emit(Literal(Byte(pos)), mtf)
  PROVE  /\ Next /\ Kept /\ pos' = pos + 1 /\ mtf' = mtf
         /\ Len(tokens') = Len(tokens) + 1
         /\ ~AfterMatch(Len(tokens) + 1)'
<1> DEFINE t == Literal(Byte(pos))
<1>1. EmitLiteral
  BY DEF EmitLiteral, Byte, n
<1>2. Next
  BY <1>1 DEF Next, Encode
<1>3. Spellable(t)
  <2>1. pos + 1 \in 1..n
    BY BlockFacts
  <2>2. data[pos + 1] \in 0..(LitCount - 1)
    BY <2>1, BlockFacts
  <2> QED BY <2>2 DEF Spellable, Byte
<1>4. t.len = 1 /\ ~IsMatch(t)
  BY DEF Literal, IsMatch
<1> HIDE DEF t
<1>5. Emit(t, mtf)
  BY DEF t
<1>6. /\ Kept /\ pos' = pos + t.len /\ mtf' = mtf
      /\ Len(tokens') = Len(tokens) + 1
      /\ AfterMatch(Len(tokens) + 1)' = IsMatch(t)
  BY <1>2, <1>3, <1>5, EmitStep
<1> QED BY <1>2, <1>4, <1>6

LEMMA LiteralRunStep == ASSUME CodecInv, LiteralRun PROVE CodecInv' /\ [Next]_vars
<1>1. /\ pc = "literals" /\ Emit(Literal(Byte(pos)), mtf)
      /\ pc' = (IF pos + 1 >= stop \/ WordRepeats(pos + 1) THEN "top" ELSE "literals")
      /\ UNCHANGED chunkVars /\ lastPtr' = lastPtr /\ plan' = plan /\ walk' = walk
  BY DEF LiteralRun
<1>2. pos < stop /\ lastPtr = FALSE /\ lastPtr \in BOOLEAN /\ plan \in Plans /\ walk \in Walks
  BY <1>1 DEF CodecInv, CodecTypeOK, ControlInv
<1>3. pos < n
  BY <1>2, BlockFacts
<1>4. Next /\ Kept /\ pos' = pos + 1 /\ ~AfterMatch(Len(tokens) + 1)'
  BY <1>1, <1>3, LiteralStep
<1>5. ChunksOK /\ stop' = stop
  BY <1>1, <1>4, ChunksStay DEF Kept
<1>6. pc' = "literals" => pos' < stop'
  <2>1. pos \in Nat /\ stop \in Nat
    BY BlockFacts
  <2> QED BY <1>1, <1>4, <1>5, <2>1
<1>7. ControlInv'
  BY <1>1, <1>2, <1>4, <1>6 DEF ControlInv, AfterMatch
<1>8. pc' \in {"top", "literals"}
  BY <1>1
<1> QED BY <1>1, <1>2, <1>4, <1>5, <1>7, <1>8, Together

LEMMA FlushTailStep == ASSUME CodecInv, FlushTail PROVE CodecInv' /\ [Next]_vars
<1>1. /\ pc = "top" /\ pos < n /\ Emit(Literal(Byte(pos)), mtf) /\ lastPtr' = FALSE
      /\ UNCHANGED chunkVars /\ pc' = pc /\ plan' = plan /\ walk' = walk
  BY DEF FlushTail
<1>2. plan \in Plans /\ walk \in Walks
  BY DEF CodecInv, CodecTypeOK
<1>3. Next /\ Kept /\ ~AfterMatch(Len(tokens) + 1)'
  BY <1>1, LiteralStep
<1>4. ChunksOK
  BY <1>1, <1>3, ChunksStay DEF Kept
<1>5. ControlInv'
  BY <1>1, <1>3 DEF ControlInv, AfterMatch
<1> QED BY <1>1, <1>2, <1>3, <1>4, <1>5, Together

LEMMA PlannedLiteralStep == ASSUME CodecInv, PlannedLiteral PROVE CodecInv' /\ [Next]_vars
<1>1. /\ pc = "plan" /\ plan.lits > 0 /\ Emit(Literal(Byte(pos)), mtf)
      /\ plan' = [plan EXCEPT !.lits = plan.lits - 1]
      /\ UNCHANGED chunkVars /\ lastPtr' = lastPtr /\ pc' = pc /\ walk' = walk
  BY DEF PlannedLiteral
<1>2. /\ PlanInv /\ plan \in Plans /\ walk \in Walks /\ lastPtr \in BOOLEAN
      /\ plan.lits \in 0..2 /\ plan.len \in Nat
  BY <1>1 DEF CodecInv, CodecTypeOK, ControlInv, Plans
<1>3. pos < n /\ pos \in Nat
  <2>1. pos + plan.lits + plan.len <= n
    BY <1>2 DEF PlanInv, Repeats, n
  <2> QED BY <1>1, <1>2, <2>1, BlockFacts
<1>4. Next /\ Kept /\ pos' = pos + 1 /\ mtf' = mtf /\ ~AfterMatch(Len(tokens) + 1)'
  BY <1>1, <1>3, LiteralStep
<1>5. /\ plan' \in Plans /\ plan'.lits = plan.lits - 1 /\ plan'.kind = plan.kind
      /\ plan'.slot = plan.slot /\ plan'.off = plan.off /\ plan'.len = plan.len
  <2>1. plan.lits - 1 \in 0..2
    BY <1>1, <1>2
  <2> QED BY <1>1, <1>2, <2>1 DEF Plans
<1>6. pos' + plan'.lits = pos + plan.lits
  BY <1>2, <1>3, <1>4, <1>5
<1>7. data' = data
  BY <1>4 DEF Kept
<1>8. PlanInv'
  <2>1. Repeats(pos + plan.lits, plan.off, plan.len)'
    BY <1>2, <1>5, <1>6, <1>7 DEF PlanInv, Repeats
  <2> QED BY <1>2, <1>4, <1>5, <1>6, <2>1 DEF PlanInv, AfterMatch
<1>9. ChunksOK
  BY <1>1, <1>4, ChunksStay DEF Kept
<1>10. ControlInv'
  BY <1>1, <1>8 DEF ControlInv
<1> QED BY <1>1, <1>2, <1>4, <1>5, <1>9, <1>10, Together

(***************************************************************************)
(* The planned match is one the stream allows here.                        *)
(***************************************************************************)
LEMMA PlannedMatchStep == ASSUME CodecInv, PlannedMatch PROVE CodecInv' /\ [Next]_vars
<1> DEFINE pointer == Pointer(plan.off, plan.len)
           repeat == Repeat(plan.slot, plan.off, plan.len)
<1>1. /\ pc = "plan" /\ plan.lits = 0 /\ lastPtr' = TRUE /\ plan' = Idle /\ pc' = "top"
      /\ UNCHANGED chunkVars /\ walk' = walk
      /\ \/ plan.kind = "ptr" /\ Emit(pointer, PushOffset(mtf, plan.off))
         \/ plan.kind = "mtf" /\ Emit(repeat, UpdateMtf(mtf, plan.slot))
  BY DEF PlannedMatch
<1>2. /\ PlanInv /\ plan \in Plans /\ walk \in Walks
      /\ plan.slot \in 0..(Slots - 1) /\ plan.off \in Nat /\ plan.len \in Nat
  BY <1>1 DEF CodecInv, CodecTypeOK, ControlInv, Plans
<1>3. pos + plan.lits = pos /\ pos \in 0..n /\ n \in Nat /\ n <= 2^30 /\ 2^30 \in Nat
  BY <1>1, BlockFacts
<1>4. /\ Repeats(pos, plan.off, plan.len) /\ (plan.kind = "ptr" => plan.len >= PtrMin)
      /\ plan.kind = "mtf" => /\ plan.off = mtf[plan.slot + 1] /\ plan.off < pos
                              /\ plan.len >= MtfMin /\ ~AfterMatch(Len(tokens) + 1)
  BY <1>1, <1>2, <1>3 DEF PlanInv
<1>5. plan.off \in 1..pos /\ pos + plan.len <= n /\ TrueMatch(plan.off, plan.len)
  BY <1>4, <1>3 DEF Repeats, TrueMatch, n
<1>6. plan.len >= 1
  BY <1>1, <1>2, <1>4, StreamAssumption
<1>7. /\ plan.len \in 1..(Len(data) - pos) /\ plan.len \in Number /\ plan.off \in Number
  BY <1>2, <1>3, <1>5, <1>6 DEF Number, n
<1>8. \E t, l : Next /\ Spellable(t) /\ Emit(t, l) /\ IsMatch(t)
  <2>1. CASE plan.kind = "ptr" /\ Emit(pointer, PushOffset(mtf, plan.off))
    <3>1. EmitPointer(plan.off, plan.len)
      BY <1>4, <1>5, <2>1 DEF EmitPointer
    <3>2. Next
      BY <1>5, <1>7, <3>1 DEF Next, Encode
    <3>3. Spellable(pointer) /\ IsMatch(pointer)
      BY <1>4, <1>7, <2>1 DEF Spellable, IsMatch, Pointer
    <3> QED BY <2>1, <3>2, <3>3
  <2>2. CASE plan.kind = "mtf" /\ Emit(repeat, UpdateMtf(mtf, plan.slot))
    <3>1. EmitRepeat(plan.slot, plan.len)
      <4>1. plan.slot - 0 = plan.slot /\ plan.slot >= 0
        BY <1>2
      <4> QED BY <1>4, <1>5, <2>2, <4>1 DEF EmitRepeat
    <3>2. Next
      BY <1>2, <1>7, <3>1 DEF Next, Encode
    <3>3. Spellable(repeat) /\ IsMatch(repeat)
      BY <1>2, <1>4, <1>7, <2>2 DEF Spellable, IsMatch, Repeat
    <3> QED BY <2>2, <3>2, <3>3
  <2> QED BY <1>1, <2>1, <2>2
<1>9. Next /\ Kept /\ AfterMatch(Len(tokens) + 1)'
  BY <1>8, EmitStep
<1>10. ChunksOK
  BY <1>1, <1>9, ChunksStay DEF Kept
<1>11. ControlInv'
  BY <1>1, <1>9 DEF ControlInv
<1>12. plan' \in Plans
  BY <1>1, StreamAssumption DEF Idle, Plans
<1> QED BY <1>1, <1>2, <1>9, <1>10, <1>11, <1>12, Together

(***************************************************************************)
(* A token decoded from its wire symbols does what the token itself would  *)
(* do.                                                                     *)
(***************************************************************************)
LEMMA WireTokenDecodes ==
  ASSUME NEW t, Spellable(t), DecodeToken(Wire!Decoded(Wire!Encoded(t)))
  PROVE  DecodeToken(t)
<1> DEFINE u == Wire!Decoded(Wire!Encoded(t))
<1>1. u = IF t.kind = "mtf" THEN [t EXCEPT !.off = 0] ELSE t
  BY TokenComesAcross DEF Wire!SurvivesWire
<1> HIDE DEF u
<1>2. CASE t.kind # "mtf"
  BY <1>1, <1>2 DEF u
<1>3. CASE t.kind = "mtf"
  <2>1. u.kind = t.kind /\ u.sym = t.sym /\ u.len = t.len
    BY <1>1, <1>3 DEF Spellable, Literal, Pointer, Repeat
  <2>2. DecodeRepeat(u)
    BY <1>3, <2>1 DEF u, DecodeToken, DecodeLiteral, DecodePointer
  <2>3. DecodeRepeat(t)
    BY <2>1, <2>2 DEF DecodeRepeat
  <2> QED BY <2>3 DEF DecodeToken
<1> QED BY <1>2, <1>3

LEMMA DecodeWireStep == ASSUME CodecInv, DecodeWire PROVE CodecInv' /\ [Next]_vars
<1>1. UNCHANGED chunkVars /\ lastPtr' = lastPtr /\ pc' = pc /\ plan' = plan /\ walk' = walk
  BY DEF DecodeWire
<1>2. Next
  <2>1. CASE DecodeEnd
    BY <2>1 DEF Next
  <2>2. CASE /\ taken < Len(tokens)
             /\ DecodeToken(Wire!Decoded(Wire!Encoded(tokens[taken + 1])))
    <3>1. taken + 1 \in 1..Len(tokens)
      BY <2>2, BlockFacts DEF CodecInv, IndInv, TypeOK
    <3>2. Spellable(tokens[taken + 1])
      BY <3>1 DEF CodecInv, SpellInv
    <3>3. DecodeToken(tokens[taken + 1])
      BY <2>2, <3>2, WireTokenDecodes
    <3> QED BY <3>3 DEF Next
  <2> QED BY <2>1, <2>2 DEF DecodeWire
<1>3. UNCHANGED encVars
  BY DEF DecodeWire, DecodeToken, DecodeLiteral, DecodePointer, DecodeRepeat, FinishMatch, Reject,
         DecodeEnd
<1>4. Kept /\ pos' = pos /\ mtf' = mtf /\ tokens' = tokens /\ data' = data
  BY <1>2, <1>3, QuietStep DEF Kept
<1>5. ChunksOK /\ stop' = stop /\ pNext' = pNext
  BY <1>1, <1>4, ChunksStay
<1>6. AfterMatch(Len(tokens) + 1)' = AfterMatch(Len(tokens) + 1)
  BY <1>4 DEF AfterMatch, IsMatch
<1>7. PlanInv' = PlanInv
  BY <1>1, <1>4, <1>6 DEF PlanInv, Repeats
<1>8. WalkInv' = WalkInv
  BY <1>1, <1>4, <1>5, <1>7 DEF WalkInv, Start, Floor, PlanBefore, Repeats
<1>9. PlanBefore(1)' = PlanBefore(1) /\ PlanBefore(2)' = PlanBefore(2)
  BY <1>1, <1>4, <1>5, <1>7 DEF PlanBefore
<1>10. ControlInv'
  BY <1>1, <1>4, <1>5, <1>6, <1>7, <1>8, <1>9 DEF CodecInv, ControlInv
<1> QED BY <1>1, <1>2, <1>4, <1>5, <1>10, Together DEF CodecInv, CodecTypeOK

LEMMA RestStep ==
  ASSUME CodecInv, UNCHANGED codecVars
  PROVE  CodecInv' /\ [Next]_vars
<1>1. /\ UNCHANGED <<vars, chunkVars>> /\ lastPtr' = lastPtr /\ pc' = pc /\ plan' = plan /\ walk' = walk
  BY DEF codecVars, chunkVars
<1>2. /\ pos' = pos /\ mtf' = mtf /\ stop' = stop /\ data' = data /\ PlanInv' = PlanInv
      /\ AfterMatch(Len(tokens) + 1)' = AfterMatch(Len(tokens) + 1)
  BY <1>1, InPlace
<1>3. WalkInv' = WalkInv
  BY <1>1, <1>2 DEF WalkInv, Start, Floor, PlanBefore, Repeats
<1>4. PlanBefore(1)' = PlanBefore(1) /\ PlanBefore(2)' = PlanBefore(2)
  BY <1>1, <1>2 DEF PlanBefore
<1>5. ControlInv'
  BY <1>1, <1>2, <1>3, <1>4 DEF CodecInv, ControlInv
<1> QED BY <1>1, <1>5, SearchStep DEF CodecInv, CodecTypeOK

LEMMA CodecNextInv ==
  ASSUME CodecInv, [CodecNext]_codecVars
  PROVE  CodecInv' /\ [Next]_vars
<1>1. CASE NextChunk BY <1>1, NextChunkStep
<1>2. CASE TakeRepeat BY <1>2, TakeRepeatStep
<1>3. CASE LookUp BY <1>3, LookUpStep
<1>4. CASE WalkPast BY <1>4, WalkPastStep
<1>5. CASE WalkOnto BY <1>5, WalkOntoStep
<1>6. CASE Evaluate BY <1>6, EvaluateStep
<1>7. CASE LookOneAhead
  <2>1. 1 \in 1..2 /\ pc = "one" /\ PlanBefore(1) /\ LookAhead(1)
    BY <1>7 DEF LookOneAhead, CodecInv, ControlInv
  <2> QED BY <2>1, LookAheadStep
<1>8. CASE LookTwoAhead
  <2>1. 2 \in 1..2 /\ pc = "two" /\ PlanBefore(2) /\ LookAhead(2)
    BY <1>8 DEF LookTwoAhead, CodecInv, ControlInv
  <2> QED BY <2>1, LookAheadStep
<1>9. CASE Improve BY <1>9, ImproveStep
<1>10. CASE EnterLiterals BY <1>10, EnterLiteralsStep
<1>11. CASE PlannedLiteral BY <1>11, PlannedLiteralStep
<1>12. CASE PlannedMatch BY <1>12, PlannedMatchStep
<1>13. CASE LiteralRun BY <1>13, LiteralRunStep
<1>14. CASE FlushTail BY <1>14, FlushTailStep
<1>15. CASE DecodeWire BY <1>15, DecodeWireStep
<1>16. CASE UNCHANGED codecVars BY <1>16, RestStep
<1> QED BY <1>1, <1>2, <1>3, <1>4, <1>5, <1>6, <1>7, <1>8, <1>9, <1>10, <1>11, <1>12, <1>13,
           <1>14, <1>15, <1>16 DEF CodecNext, Tokenize, Stopped

LEMMA CodecInitInv == CodecInit => CodecInv
<1> SUFFICES ASSUME CodecInit PROVE CodecInv
  OBVIOUS
<1>1. /\ Init /\ pNext = [p \in 0..(n - 1) |-> 0] /\ copied = 0 /\ stop = 0 /\ lastPtr = FALSE
      /\ pc = "top" /\ plan = Idle /\ walk = NoWalk
  BY DEF CodecInit
<1>2. IndInv /\ TypeOK
  BY <1>1, InitInv DEF IndInv
<1>3. n \in Nat \ {0} /\ tokens = << >>
  BY <1>1, DataIsSeq DEF Init, n
<1>4. Idle \in Plans /\ NoWalk \in Walks
  BY <1>3, NoWalkTyped, StreamAssumption DEF Idle, Plans
<1>5. 0 \in 0..(n - 1)
  BY <1>3
<1>6. pNext \in [0..(n - 1) -> 0..(n - 1)] /\ \A p \in 0..(n - 1) : pNext[p] <= p
  BY <1>1, <1>3, <1>5
<1>7. CodecTypeOK /\ BoundsInv
  <2>1. copied \in 0..n /\ stop \in 0..n /\ stop <= copied
    BY <1>1, <1>3
  <2>2. CodecTypeOK
    BY <1>1, <1>2, <1>4, <1>6, <2>1 DEF CodecTypeOK
  <2> QED BY <1>1, <1>6, <2>1, <2>2 DEF BoundsInv
<1>8. ~AfterMatch(Len(tokens) + 1)
  BY <1>3 DEF AfterMatch
<1>9. ControlInv /\ SpellInv
  BY <1>1, <1>3, <1>8 DEF ControlInv, SpellInv, AfterMatch
<1> QED BY <1>2, <1>7, <1>9 DEF CodecInv

LEMMA CodecInvariance == CodecSpec => []CodecInv
<1>1. CodecInv /\ [CodecNext]_codecVars => CodecInv'
  BY CodecNextInv
<1> QED BY <1>1, CodecInitInv, PTL DEF CodecSpec

(***************************************************************************)
(* Type correctness of the tokenizer, for every block, hash function,      *)
(* chunk size and search depth.                                            *)
(***************************************************************************)
THEOREM CodecTypeCorrect == CodecSpec => []CodecTypeOK
<1>1. CodecInv => CodecTypeOK
  BY DEF CodecInv
<1> QED BY <1>1, CodecInvariance, PTL

(***************************************************************************)
(* mtf_last_ptr tells the truth about the last token whenever Pass 1 looks *)
(* at it.                                                                  *)
(***************************************************************************)
THEOREM FlagTellsTheTruth == CodecSpec => []LastPtrIsCurrent
<1>1. CodecInv => LastPtrIsCurrent
  <2> SUFFICES ASSUME CodecInv, pc = "top"
               PROVE  lastPtr = (tokens # << >> /\ IsMatch(tokens[Len(tokens)]))
    BY DEF LastPtrIsCurrent
  <2>1. lastPtr = AfterMatch(Len(tokens) + 1)
    BY DEF CodecInv, ControlInv
  <2>2. Len(tokens) \in Nat /\ (Len(tokens) + 1) - 1 = Len(tokens) /\ tokens \in Seq(Tokens)
    BY BlockFacts
  <2>3. Len(tokens) + 1 > 1 <=> tokens # << >>
    BY <2>2, EmptySeq
  <2> QED BY <2>1, <2>2, <2>3 DEF AfterMatch
<1> QED BY <1>1, CodecInvariance, PTL

(***************************************************************************)
(* The tokenizer of the code, and the decoder behind the wire symbols,     *)
(* implement the token stream: every one of their steps is a step of       *)
(* Xpress9Stream or leaves its variables alone.                            *)
(***************************************************************************)
THEOREM TokenizerImplementsStream == CodecSpec => ImplementsStream
<1>1. CodecInit => Init
  BY DEF CodecInit
<1>2. CodecInv /\ [CodecNext]_codecVars => [Next]_vars
  BY CodecNextInv
<1> QED BY <1>1, <1>2, CodecInvariance, PTL DEF CodecSpec, ImplementsStream

(***************************************************************************)
(* What holds of every token stream therefore holds of the streams the     *)
(* code makes: the decoder follows the encoder, byte by byte and list by   *)
(* list, and refuses nothing, unless slot 0 was reused after a literal.    *)
(***************************************************************************)
THEOREM CodecFollowsStream ==
  CodecSpec => [](OutputFollowsInput /\ ListsAgree /\ NoFalseRejection)
<1>1. CodecInv => OutputFollowsInput /\ ListsAgree /\ NoFalseRejection
  BY DEF CodecInv, IndInv, DecoderInv
<1> QED BY <1>1, CodecInvariance, PTL

----------------------------------------------------------------------------
(* The tables of code lengths *)

\* T is the table told about.
Zeros(T, p, q) == \A j \in p..(q - 1) : T[j] = 0

At(p, q, r) == [pos |-> p, prev |-> q, run |-> r]

TellsLength(T, a, e, b) ==
  /\ a.run = -1 /\ T[a.pos] # 0 /\ b = At(a.pos + 1, T[a.pos], -1)
  /\ \/ e.op = T[a.pos]
     \/ e.op = PrevOp /\ T[a.pos] = a.prev
     \/ e.op = Row0Op /\ a.pos >= Row /\ T[a.pos] = T[a.pos - Row]
     \/ e.op = Row1Op /\ a.pos >= Row /\ T[a.pos] = T[a.pos - Row] + 1

TellsZero(T, a, e, b) ==
  a.run = -1 /\ e.op = 0 /\ T[a.pos] = 0 /\ b = At(a.pos + 1, a.prev, -1)

TellsFill(T, a, e, b) ==
  /\ a.run = -1 /\ e.op = FillOp /\ NextRow(a.pos) <= Size /\ Zeros(T, a.pos, NextRow(a.pos))
  /\ b = At(NextRow(a.pos), a.prev, -1)

\* m zeros so far.
TellsZeros(T, a, m, more, b) ==
  /\ a.pos + m <= Size /\ ~Crosses(a.pos, a.pos + m) /\ Zeros(T, a.pos, a.pos + m)
  /\ b = IF more THEN At(a.pos, a.prev, m) ELSE At(a.pos + m, a.prev, -1)

TellsRun(T, a, e, b) ==
  \/ a.run = -1 /\ e.op = ZeroOp /\ TellsZeros(T, a, e.n + ZeroMin, e.n = Extend, b)
  \/ a.run # -1 /\ e.op = MoreOp /\ TellsZeros(T, a, a.run + e.n, e.n = Continue, b)

Tells(T, a, e, b) ==
  /\ a.pos < Size
  /\ TellsLength(T, a, e, b) \/ TellsZero(T, a, e, b) \/ TellsFill(T, a, e, b) \/ TellsRun(T, a, e, b)

----------------------------------------------------------------------------

\* Where the writer is.
WriterInv ==
  /\ phase = "write" => own
  /\ Zeros(lengths, wpos, wend)
  /\ left >= 0 => wpos < wend /\ ~Crosses(wpos, wend) /\ wpos + left <= wend
  /\ own => /\ Len(expected) = Len(stream) + 1
            /\ expected[Len(expected)] = At(wpos, wprev, IF left = -1 THEN -1 ELSE wend - wpos - left)

TrailInv == own => \A k \in 1..Len(stream) : Tells(lengths, expected[k], stream[k], expected[k + 1])

\* The reader is where the element it comes to was told from.
ReaderInv ==
  own =>
    /\ expected[consumed + 1] = At(rpos, rprev, run)
    /\ \A s \in Symbols : read[s] = IF s < rpos THEN lengths[s] ELSE 0
    /\ phase \in {"write", "read", "done"}
    /\ phase # "write" => wpos = Size /\ left = -1
    /\ phase = "done" => consumed = Len(stream) /\ rpos = Size

TableInv == TableTypeOK /\ WriterInv /\ TrailInv /\ ReaderInv

----------------------------------------------------------------------------

(***************************************************************************)
(* The next row begins behind a position.                                  *)
(***************************************************************************)
LEMMA NextRowBehind ==
  ASSUME NEW p \in Nat
  PROVE  NextRow(p) \in Nat /\ p < NextRow(p)
<1>1. Row \in Nat \ {0}
  BY LengthsAssumption
<1>2. p % Row \in 0..(Row - 1)
  BY <1>1, DivMod
<1> QED BY <1>1, <1>2 DEF NextRow

(***************************************************************************)
(* No opcode is a length, and no two are the same.                         *)
(***************************************************************************)
LEMMA OpcodesDiffer ==
  /\ MaxLen \in Nat
  /\ {FillOp, ZeroOp, PrevOp, Row0Op, Row1Op, MoreOp} \subseteq Nat \ (0..MaxLen)
  /\ FillOp \notin {ZeroOp, PrevOp, Row0Op, Row1Op, MoreOp}
  /\ ZeroOp \notin {PrevOp, Row0Op, Row1Op, MoreOp}
  /\ PrevOp \notin {Row0Op, Row1Op, MoreOp}
  /\ Row0Op \notin {Row1Op, MoreOp}
  /\ Row1Op # MoreOp
BY LengthsAssumption DEF FillOp, ZeroOp, PrevOp, Row0Op, Row1Op, MoreOp

LEMMA InitEstablishes == TableInit => TableInv
<1> SUFFICES ASSUME TableInit PROVE TableInv
  OBVIOUS
<1>0. /\ Size \in Nat \ {0} /\ FirstPrev \in 1..MaxLen /\ MaxLen \in Nat
      /\ Vectors \subseteq [Symbols -> 0..MaxLen] /\ Foreign \subseteq Seq(Elements)
  BY LengthsAssumption
<1>1. TableTypeOK
  <2>1. expected \in Seq([pos : 0..Size, prev : 1..MaxLen, run : {-1} \union 0..Size])
    BY <1>0 DEF TableInit
  <2>2. lengths \in [Symbols -> 0..MaxLen] /\ stream \in Seq(Elements)
    <3>1. CASE lengths \in Vectors /\ stream = << >>
      BY <1>0, <3>1
    <3>2. CASE lengths = [s \in Symbols |-> 0] /\ stream \in Foreign
      BY <1>0, <3>2
    <3> QED BY <3>1, <3>2 DEF TableInit
  <2>3. own \in BOOLEAN
    BY Zenon DEF TableInit
  <2> QED BY <1>0, <2>1, <2>2, <2>3 DEF TableInit, TableTypeOK
<1>2. WriterInv
  BY <1>0 DEF TableInit, WriterInv, Zeros, At
<1>3. TrailInv
  BY DEF TableInit, TrailInv
<1>4. ReaderInv
  BY <1>0 DEF TableInit, ReaderInv, At, Symbols
<1> QED BY <1>1, <1>2, <1>3, <1>4 DEF TableInv

----------------------------------------------------------------------------
(* The writer *)

(***************************************************************************)
(* What an element written does to everything but the writer's position.   *)
(***************************************************************************)
LEMMA PutKeeps ==
  ASSUME TableInv, phase = "write", KeepRest,
         NEW e \in Elements, NEW p \in 0..Size, NEW q \in 1..MaxLen,
         NEW r \in {-1} \union 0..Size,
         Put(e, p, q, r),
         Tells(lengths, At(wpos, wprev, IF left = -1 THEN -1 ELSE wend - wpos - left), e, At(p, q, r))
  PROVE  /\ stream' \in Seq(Elements)
         /\ expected' \in Seq([pos : 0..Size, prev : 1..MaxLen, run : {-1} \union 0..Size])
         /\ consumed \in 0..Len(stream')
         /\ Len(expected') = Len(stream') + 1 /\ expected'[Len(expected')] = At(p, q, r)
         /\ TrailInv' /\ ReaderInv'
<1> USE DEF Put
<1>1. own /\ Len(expected) = Len(stream) + 1
  BY DEF TableInv, WriterInv
<1>2. stream' \in Seq(Elements) /\ Len(stream') = Len(stream) + 1 /\ Len(stream) \in Nat
  BY DEF TableInv, TableTypeOK
<1>3. At(p, q, r) \in [pos : 0..Size, prev : 1..MaxLen, run : {-1} \union 0..Size]
  BY DEF At
<1>4. expected' = Append(expected, At(p, q, r))
  BY DEF At
<1>5. /\ expected' \in Seq([pos : 0..Size, prev : 1..MaxLen, run : {-1} \union 0..Size])
      /\ Len(expected') = Len(expected) + 1
      /\ expected'[Len(expected) + 1] = At(p, q, r)
      /\ \A k \in 1..Len(expected) : expected'[k] = expected[k]
  BY SMTT(30), <1>3, <1>4 DEF TableInv, TableTypeOK
<1>6. /\ \A k \in 1..Len(stream) : stream'[k] = stream[k]
      /\ stream'[Len(stream) + 1] = e
  BY DEF TableInv, TableTypeOK
<1>7. TrailInv'
  <2> SUFFICES ASSUME NEW k \in 1..(Len(stream) + 1)
               PROVE  Tells(lengths, expected[k], stream[k], expected[k + 1])'
    BY <1>2 DEF TrailInv
  <2>1. CASE k \in 1..Len(stream)
    <3>1. Tells(lengths, expected[k], stream[k], expected[k + 1])
      BY <1>1, <2>1 DEF TableInv, TrailInv
    <3>2. expected'[k] = expected[k] /\ stream'[k] = stream[k] /\ expected'[k + 1] = expected[k + 1]
      <4>1. k \in 1..Len(expected) /\ k + 1 \in 1..Len(expected)
        BY <1>1, <1>2, <2>1
      <4> QED BY <1>5, <1>6, <2>1, <4>1
    <3> QED BY <3>1, <3>2 DEF KeepRest
  <2>2. CASE k = Len(stream) + 1
    <3>1. /\ expected'[k] = At(wpos, wprev, IF left = -1 THEN -1 ELSE wend - wpos - left)
          /\ stream'[k] = e /\ expected'[k + 1] = At(p, q, r)
      BY <1>1, <1>2, <1>5, <1>6, <2>2 DEF TableInv, WriterInv
    <3>2. Tells(lengths, expected'[k], stream'[k], expected'[k + 1])
      BY <3>1, Zenon
    <3>3. lengths' = lengths
      BY DEF KeepRest
    <3> QED BY <3>2, <3>3
  <2>3. k \in 1..Len(stream) \/ k = Len(stream) + 1
    BY <1>2
  <2> QED BY <2>1, <2>2, <2>3
<1>8. ReaderInv'
  <2>1. consumed + 1 \in 1..Len(expected)
    BY <1>1 DEF TableInv, TableTypeOK
  <2> QED BY <1>5, <2>1 DEF TableInv, ReaderInv, KeepRest, readerVars
<1> QED BY SMTT(30), <1>1, <1>2, <1>5, <1>7, <1>8 DEF TableInv, TableTypeOK

(***************************************************************************)
(* The invariant follows from what the element tells and from where the    *)
(* writer is then.                                                         *)
(***************************************************************************)
LEMMA PutRestores ==
  ASSUME TableInv, phase = "write", KeepRest,
         NEW e \in Elements, NEW p \in 0..Size, NEW q \in 1..MaxLen,
         NEW r \in {-1} \union 0..Size,
         Put(e, p, q, r),
         Tells(lengths, At(wpos, wprev, IF left = -1 THEN -1 ELSE wend - wpos - left), e, At(p, q, r)),
         wend' \in p..Size, left' \in {-1} \union 0..Size,
         Zeros(lengths, p, wend'),
         left' = -1 => r = -1,
         left' >= 0 => p < wend' /\ ~Crosses(p, wend') /\ p + left' <= wend' /\ r = wend' - p - left'
  PROVE  TableInv'
<1>1. /\ stream' \in Seq(Elements)
      /\ expected' \in Seq([pos : 0..Size, prev : 1..MaxLen, run : {-1} \union 0..Size])
      /\ consumed \in 0..Len(stream')
      /\ Len(expected') = Len(stream') + 1 /\ expected'[Len(expected')] = At(p, q, r)
      /\ TrailInv' /\ ReaderInv'
  BY PutKeeps
<1>2. TableTypeOK'
  BY <1>1 DEF TableInv, TableTypeOK, KeepRest, Put, readerVars
<1>3. WriterInv'
  <2>1. wpos' = p /\ wprev' = q /\ lengths' = lengths /\ own' = own /\ phase' = phase
    BY DEF Put, KeepRest
  <2>2. r = IF left' = -1 THEN -1 ELSE wend' - wpos' - left'
    <3>1. CASE left' = -1
      BY <3>1
    <3>2. CASE left' >= 0
      BY <2>1, <3>2
    <3>3. left' = -1 \/ left' >= 0
      BY LengthsAssumption
    <3> QED BY <3>1, <3>2, <3>3
  <2>3. expected'[Len(expected')] = At(wpos', wprev', IF left' = -1 THEN -1 ELSE wend' - wpos' - left')
    BY <1>1, <2>1, <2>2
  <2> QED BY <1>1, <2>1, <2>3 DEF TableInv, WriterInv
<1> QED BY <1>1, <1>2, <1>3 DEF TableInv

(***************************************************************************)
(* One lemma for each action of the writer.                                *)
(***************************************************************************)
LEMMA WriteLengthKeeps == TableInv /\ WriteLength => TableInv'
<1> SUFFICES ASSUME TableInv, WriteLength PROVE TableInv'
  OBVIOUS
<1> DEFINE k == lengths[wpos]
           e == Element(LengthOp(k), 0)
<1>1. /\ phase = "write" /\ left = -1 /\ KeepRest /\ wpos = wend /\ wpos < Size /\ k # 0
      /\ Put(e, wpos + 1, k, -1) /\ wend' = wpos + 1 /\ left' = left
  BY DEF WriteLength, Writing
<1>2. /\ wpos \in 0..(Size - 1) /\ wprev \in 1..MaxLen /\ Size \in Nat \ {0} /\ MaxLen \in Nat
      /\ Row \in Nat \ {0} /\ lengths \in [Symbols -> 0..MaxLen]
  BY <1>1, LengthsAssumption DEF TableInv, TableTypeOK
<1>3. k \in 1..MaxLen
  BY <1>1, <1>2 DEF Symbols
<1>4. \/ LengthOp(k) = k
      \/ LengthOp(k) = PrevOp /\ k = wprev
      \/ LengthOp(k) = Row0Op /\ wpos >= Row /\ k = lengths[wpos - Row]
      \/ LengthOp(k) = Row1Op /\ wpos >= Row /\ k = lengths[wpos - Row] + 1
  BY <1>2, <1>3 DEF LengthOp, Above, Symbols
<1>5. e \in Elements /\ e.op = LengthOp(k)
  <2>1. LengthOp(k) \in 0..MoreOp
    BY <1>2, <1>3, <1>4 DEF MoreOp, PrevOp, Row0Op, Row1Op
  <2> QED BY <2>1 DEF Element, Elements
<1> HIDE DEF e
<1>6. Tells(lengths, At(wpos, wprev, -1), e, At(wpos + 1, k, -1))
  BY <1>1, <1>2, <1>4, <1>5 DEF Tells, TellsLength, At
<1> HIDE DEF k
<1>7. Tells(lengths, At(wpos, wprev, IF left = -1 THEN -1 ELSE wend - wpos - left), e, At(wpos + 1, k, -1))
  BY <1>1, <1>6
<1>8. /\ wpos + 1 \in 0..Size /\ -1 \in {-1} \union 0..Size
      /\ wend' \in (wpos + 1)..Size /\ left' \in {-1} \union 0..Size
      /\ Zeros(lengths, wpos + 1, wend') /\ left' = -1
  BY <1>1, <1>2 DEF Zeros
<1> QED BY <1>1, <1>3, <1>5, <1>7, <1>8, PutRestores

LEMMA ScanZerosKeeps == TableInv /\ ScanZeros => TableInv'
<1> SUFFICES ASSUME TableInv, ScanZeros PROVE TableInv'
  OBVIOUS
<1>1. PICK q \in (wpos + 1)..Size : (\A j \in wpos..(q - 1) : lengths[j] = 0) /\ wend' = q
  BY DEF ScanZeros
<1>2. /\ left = -1 /\ KeepRest /\ phase = "write"
      /\ UNCHANGED <<wpos, wprev, left, stream, expected>>
  BY DEF ScanZeros, Writing
<1>3. TableTypeOK'
  BY <1>1, <1>2 DEF TableInv, TableTypeOK, KeepRest, readerVars
<1>4. WriterInv'
  BY <1>1, <1>2 DEF TableInv, WriterInv, KeepRest, Zeros
<1>5. TrailInv' /\ ReaderInv'
  BY <1>2 DEF TableInv, TrailInv, ReaderInv, KeepRest, readerVars
<1> QED BY <1>3, <1>4, <1>5 DEF TableInv

(***************************************************************************)
(* What all writers of zeros start from.                                   *)
(***************************************************************************)
LEMMA ZerosAhead ==
  ASSUME TableInv
  PROVE  /\ wpos \in Nat /\ wend \in wpos..Size /\ Size \in Nat \ {0} /\ MaxLen \in Nat
         /\ wpos \in 0..Size /\ wprev \in 1..MaxLen
         /\ ZeroMin \in Nat \ {0} /\ Extend \in Nat /\ Continue \in Nat \ {0}
         /\ left \in {-1} \union Nat
         /\ \A j \in wpos..(wend - 1) : lengths[j] = 0
BY LengthsAssumption DEF TableInv, TableTypeOK, WriterInv, Zeros

LEMMA WriteFillKeeps == TableInv /\ WriteFill => TableInv'
<1> SUFFICES ASSUME TableInv, WriteFill PROVE TableInv'
  OBVIOUS
<1> DEFINE e == Element(FillOp, 0)
           p == NextRow(wpos)
<1>1. /\ phase = "write" /\ left = -1 /\ KeepRest /\ wpos < wend /\ p <= wend
      /\ Put(e, p, wprev, -1) /\ wend' = wend /\ left' = left
  BY DEF WriteFill, Writing, Crosses
<1>2. p \in Nat /\ wpos < p
  BY NextRowBehind, ZerosAhead
<1>3. e \in Elements /\ e.op = FillOp
  BY ZerosAhead DEF Element, Elements, FillOp, MoreOp
<1> HIDE DEF e
<1>4. Tells(lengths, At(wpos, wprev, -1), e, At(p, wprev, -1))
  BY <1>1, <1>2, <1>3, ZerosAhead DEF Tells, TellsFill, At, Zeros
<1> HIDE DEF p
<1>5. Tells(lengths, At(wpos, wprev, IF left = -1 THEN -1 ELSE wend - wpos - left), e, At(p, wprev, -1))
  BY <1>1, <1>4
<1>6. /\ p \in 0..Size /\ -1 \in {-1} \union 0..Size
      /\ wend' \in p..Size /\ left' \in {-1} \union 0..Size
      /\ Zeros(lengths, p, wend') /\ left' = -1
  BY <1>1, <1>2, ZerosAhead DEF Zeros
<1> QED BY <1>1, <1>3, <1>5, <1>6, ZerosAhead, PutRestores

LEMMA WriteZeroKeeps == TableInv /\ WriteZero => TableInv'
<1> SUFFICES ASSUME TableInv, WriteZero PROVE TableInv'
  OBVIOUS
<1> DEFINE e == Element(0, 0)
<1>1. /\ phase = "write" /\ left = -1 /\ KeepRest /\ wpos < wend
      /\ Put(e, wpos + 1, wprev, -1) /\ wend' = wend /\ left' = left
  BY DEF WriteZero, Writing
<1>2. e \in Elements /\ e.op = 0
  BY ZerosAhead DEF Element, Elements, MoreOp
<1> HIDE DEF e
<1>3. Tells(lengths, At(wpos, wprev, -1), e, At(wpos + 1, wprev, -1))
  BY <1>1, <1>2, ZerosAhead DEF Tells, TellsZero, At
<1>4. Tells(lengths, At(wpos, wprev, IF left = -1 THEN -1 ELSE wend - wpos - left), e, At(wpos + 1, wprev, -1))
  BY <1>1, <1>3
<1>5. /\ wpos + 1 \in 0..Size /\ -1 \in {-1} \union 0..Size
      /\ wend' \in (wpos + 1)..Size /\ left' \in {-1} \union 0..Size
      /\ Zeros(lengths, wpos + 1, wend') /\ left' = -1
  BY <1>1, ZerosAhead DEF Zeros
<1> QED BY <1>1, <1>2, <1>4, <1>5, ZerosAhead, PutRestores

LEMMA WriteRunKeeps == TableInv /\ WriteRun => TableInv'
<1> SUFFICES ASSUME TableInv, WriteRun PROVE TableInv'
  OBVIOUS
<1> DEFINE excess == wend - wpos - ZeroMin
<1>1. /\ phase = "write" /\ left = -1 /\ KeepRest /\ wpos < wend /\ ~Crosses(wpos, wend)
      /\ wend - wpos >= ZeroMin /\ wend' = wend
  BY DEF WriteRun, Writing
<1>2. excess \in Nat /\ wpos + (excess + ZeroMin) = wend
  BY <1>1, ZerosAhead
<1>3. NextRow(wpos) \in Nat /\ wend < NextRow(wpos)
  BY <1>1, NextRowBehind, ZerosAhead DEF Crosses
<1>4. CASE excess < Extend
  <2> DEFINE e == Element(ZeroOp, excess)
  <2>1. Put(e, wend, wprev, -1) /\ left' = -1
    BY <1>1, <1>4 DEF WriteRun
  <2>2. e \in Elements /\ e.op = ZeroOp /\ e.n = excess
    BY <1>2, ZerosAhead DEF Element, Elements, ZeroOp, MoreOp
  <2> HIDE DEF e, excess
  <2>3. TellsZeros(lengths, At(wpos, wprev, -1), e.n + ZeroMin, e.n = Extend, At(wend, wprev, -1))
    BY <1>1, <1>2, <1>4, <2>2, ZerosAhead DEF TellsZeros, At, Zeros
  <2>4. Tells(lengths, At(wpos, wprev, -1), e, At(wend, wprev, -1))
    BY <1>1, <2>2, <2>3, ZerosAhead DEF Tells, TellsRun, At
  <2>5. Tells(lengths, At(wpos, wprev, IF left = -1 THEN -1 ELSE wend - wpos - left), e, At(wend, wprev, -1))
    BY <1>1, <2>4
  <2>6. /\ wend \in 0..Size /\ -1 \in {-1} \union 0..Size
        /\ wend' \in wend..Size /\ left' \in {-1} \union 0..Size
        /\ Zeros(lengths, wend, wend')
    BY <1>1, <2>1, ZerosAhead DEF Zeros
  <2> QED BY <1>1, <2>1, <2>2, <2>5, <2>6, ZerosAhead, PutRestores
<1>5. CASE ~(excess < Extend)
  <2> DEFINE e == Element(ZeroOp, Extend)
             r == ZeroMin + Extend
  <2>1. Put(e, wpos, wprev, r) /\ left' = excess - Extend
    BY <1>1, <1>5 DEF WriteRun
  <2>2. e \in Elements /\ e.op = ZeroOp /\ e.n = Extend
    BY ZerosAhead DEF Element, Elements, ZeroOp, MoreOp
  <2>3. /\ r \in 0..Size /\ wpos + r <= wend /\ left' \in 0..Size /\ r = wend' - wpos - left'
        /\ wpos + left' <= wend /\ r = e.n + ZeroMin
    BY <1>1, <1>2, <1>5, <2>1, <2>2, ZerosAhead
  <2> HIDE DEF e, excess, r
  <2>4. TellsZeros(lengths, At(wpos, wprev, -1), e.n + ZeroMin, e.n = Extend, At(wpos, wprev, r))
    BY <1>1, <1>3, <2>2, <2>3, ZerosAhead DEF TellsZeros, At, Zeros, Crosses
  <2>5. Tells(lengths, At(wpos, wprev, -1), e, At(wpos, wprev, r))
    BY <1>1, <2>2, <2>4, ZerosAhead DEF Tells, TellsRun, At
  <2>6. Tells(lengths, At(wpos, wprev, IF left = -1 THEN -1 ELSE wend - wpos - left), e, At(wpos, wprev, r))
    BY <1>1, <2>5
  <2>7. /\ wend' \in wpos..Size /\ Zeros(lengths, wpos, wend') /\ left' # -1 /\ left' >= 0
        /\ left' \in {-1} \union 0..Size /\ r \in {-1} \union 0..Size
    BY <1>1, <2>3, ZerosAhead DEF Zeros
  <2> QED BY <1>1, <2>1, <2>2, <2>3, <2>6, <2>7, ZerosAhead, PutRestores
<1> QED BY <1>4, <1>5

LEMMA WriteMoreKeeps == TableInv /\ WriteMore => TableInv'
<1> SUFFICES ASSUME TableInv, WriteMore PROVE TableInv'
  OBVIOUS
<1> DEFINE said == wend - wpos - left
<1>1. /\ phase = "write" /\ left >= 0 /\ left # -1 /\ left \in Nat /\ KeepRest /\ wend' = wend
      /\ wpos < wend /\ ~Crosses(wpos, wend) /\ wpos + left <= wend
  BY ZerosAhead DEF WriteMore, TableInv, WriterInv
<1>2. said \in 0..Size /\ wpos + (said + left) = wend
  BY <1>1, ZerosAhead
<1>3. NextRow(wpos) \in Nat /\ wend < NextRow(wpos)
  BY <1>1, NextRowBehind, ZerosAhead DEF Crosses
<1>4. expected[Len(expected)].run = said
  BY <1>1 DEF TableInv, WriterInv, At
<1>5. (IF left = -1 THEN -1 ELSE wend - wpos - left) = said
  BY <1>1
<1>6. CASE left < Continue
  <2> DEFINE e == Element(MoreOp, left)
  <2>1. Put(e, wend, wprev, -1) /\ left' = -1
    BY <1>1, <1>6 DEF WriteMore, Last
  <2>2. e \in Elements /\ e.op = MoreOp /\ e.n = left
    BY <1>1, ZerosAhead DEF Element, Elements, MoreOp
  <2> HIDE DEF e, said
  <2>3. TellsZeros(lengths, At(wpos, wprev, said), said + e.n, e.n = Continue, At(wend, wprev, -1))
    BY <1>1, <1>2, <1>6, <2>2, ZerosAhead DEF TellsZeros, At, Zeros
  <2>4. Tells(lengths, At(wpos, wprev, said), e, At(wend, wprev, -1))
    BY <1>1, <1>2, <2>2, <2>3, ZerosAhead DEF Tells, TellsRun, At
  <2>5. Tells(lengths, At(wpos, wprev, IF left = -1 THEN -1 ELSE wend - wpos - left), e, At(wend, wprev, -1))
    BY <1>5, <2>4
  <2>6. /\ wend \in 0..Size /\ -1 \in {-1} \union 0..Size
        /\ wend' \in wend..Size /\ left' \in {-1} \union 0..Size
        /\ Zeros(lengths, wend, wend')
    BY <1>1, <2>1, ZerosAhead DEF Zeros
  <2> QED BY <1>1, <2>1, <2>2, <2>5, <2>6, ZerosAhead, PutRestores
<1>7. CASE ~(left < Continue)
  <2> DEFINE e == Element(MoreOp, Continue)
             r == said + Continue
  <2>1. Put(e, wpos, wprev, r) /\ left' = left - Continue
    BY <1>1, <1>4, <1>7 DEF WriteMore, Last
  <2>2. e \in Elements /\ e.op = MoreOp /\ e.n = Continue
    BY ZerosAhead DEF Element, Elements, MoreOp
  <2>3. /\ r \in 0..Size /\ wpos + r <= wend /\ left' \in 0..Size /\ r = wend' - wpos - left'
        /\ wpos + left' <= wend /\ r = said + e.n
    BY <1>1, <1>2, <1>7, <2>1, <2>2, ZerosAhead
  <2> HIDE DEF e, said, r
  <2>4. TellsZeros(lengths, At(wpos, wprev, said), said + e.n, e.n = Continue, At(wpos, wprev, r))
    BY <1>1, <1>3, <2>2, <2>3, ZerosAhead DEF TellsZeros, At, Zeros, Crosses
  <2>5. Tells(lengths, At(wpos, wprev, said), e, At(wpos, wprev, r))
    BY <1>1, <1>2, <2>2, <2>4, ZerosAhead DEF Tells, TellsRun, At
  <2>6. Tells(lengths, At(wpos, wprev, IF left = -1 THEN -1 ELSE wend - wpos - left), e, At(wpos, wprev, r))
    BY <1>5, <2>5
  <2>7. /\ wend' \in wpos..Size /\ Zeros(lengths, wpos, wend') /\ left' # -1 /\ left' >= 0
        /\ left' \in {-1} \union 0..Size /\ r \in {-1} \union 0..Size
    BY <1>1, <2>3, ZerosAhead DEF Zeros
  <2> QED BY <1>1, <2>1, <2>2, <2>3, <2>6, <2>7, ZerosAhead, PutRestores
<1> QED BY <1>6, <1>7

LEMMA StartReadingKeeps == TableInv /\ StartReading => TableInv'
<1> SUFFICES ASSUME TableInv, StartReading PROVE TableInv'
  OBVIOUS
<1> USE DEF TableInv, StartReading, Writing, writerVars, readerVars
<1>1. TableTypeOK'
  BY DEF TableTypeOK
<1>2. WriterInv' /\ TrailInv' /\ ReaderInv'
  BY DEF WriterInv, TrailInv, ReaderInv
<1> QED BY <1>1, <1>2

----------------------------------------------------------------------------
(* The reader *)

(***************************************************************************)
(* The element the reader comes to is one, and in the writer's own stream  *)
(* it tells what follows the reader's position.                            *)
(***************************************************************************)
LEMMA DueTells ==
  ASSUME TableInv, phase = "read", consumed < Len(stream)
  PROVE  /\ Due = stream[consumed + 1] /\ Due \in Elements
         /\ own => Tells(lengths, At(rpos, rprev, run), Due, expected[consumed + 2])
<1>1. consumed \in Nat /\ consumed + 1 \in 1..Len(stream)
  BY DEF TableInv, TableTypeOK
<1>2. Due = stream[consumed + 1]
  BY DEF Due
<1>3. stream[consumed + 1] \in Elements
  BY <1>1 DEF TableInv, TableTypeOK
<1>4. ASSUME own PROVE Tells(lengths, At(rpos, rprev, run), Due, expected[consumed + 2])
  <2>1. Tells(lengths, expected[consumed + 1], stream[consumed + 1], expected[(consumed + 1) + 1])
    BY <1>1, <1>4 DEF TableInv, TrailInv
  <2>2. (consumed + 1) + 1 = consumed + 2
    BY <1>1
  <2> QED BY <1>2, <1>4, <2>1, <2>2 DEF TableInv, ReaderInv
<1> QED BY <1>2, <1>3, <1>4

(***************************************************************************)
(* An element that is no opcode and no extension is the end of the stream. *)
(***************************************************************************)
LEMMA DueAtEnd ==
  ASSUME TableInv, phase = "read", ~(consumed < Len(stream))
  PROVE  Due.op = -1 /\ (own => rpos = Size /\ run = -1)
<1>1. consumed = Len(stream) /\ Len(stream) \in Nat
  BY DEF TableInv, TableTypeOK
<1>2. Due.op = -1
  BY <1>1 DEF Due, Element
<1>3. ASSUME own PROVE rpos = Size /\ run = -1
  <2>1. expected[consumed + 1] = At(wpos, wprev, -1) /\ wpos = Size
    BY <1>1, <1>3 DEF TableInv, WriterInv, ReaderInv
  <2>2. expected[consumed + 1] = At(rpos, rprev, run)
    BY <1>3 DEF TableInv, ReaderInv
  <2> QED BY <2>1, <2>2 DEF At
<1> QED BY <1>2, <1>3

(***************************************************************************)
(* A step of the reader that takes an element keeps the invariant when it  *)
(* goes on where the writer said.                                          *)
(***************************************************************************)
LEMMA TakeRestores ==
  ASSUME TableInv, phase = "read", consumed < Len(stream), UNCHANGED <<writerVars, phase>>,
         consumed' = consumed + 1,
         rpos' \in 0..Size, rprev' \in 1..MaxLen, run' \in {-1} \union 0..Size,
         read' \in [Symbols -> 0..MaxLen],
         own => expected[consumed + 2] = At(rpos', rprev', run'),
         own => \A s \in Symbols : read'[s] = IF s < rpos' THEN lengths[s] ELSE 0
  PROVE  TableInv'
<1>1. TableTypeOK'
  <2>1. consumed' \in 0..Len(stream')
    BY DEF TableInv, TableTypeOK, writerVars
  <2> QED BY <2>1 DEF TableInv, TableTypeOK, writerVars
<1>2. WriterInv' /\ TrailInv'
  BY DEF TableInv, WriterInv, TrailInv, writerVars
<1>3. ReaderInv'
  <2>1. consumed' + 1 = consumed + 2
    BY DEF TableInv, TableTypeOK
  <2> QED BY <2>1 DEF TableInv, ReaderInv, writerVars
<1> QED BY <1>1, <1>2, <1>3 DEF TableInv

(***************************************************************************)
(* Only a foreign stream fails.                                            *)
(***************************************************************************)
LEMMA FailKeeps ==
  ASSUME TableInv, ~own, UNCHANGED <<writerVars, readerVars>>, phase' \in {"error", "garbled"}
  PROVE  TableInv'
<1> USE DEF writerVars, readerVars
<1>1. TableTypeOK'
  BY DEF TableInv, TableTypeOK
<1>2. WriterInv' /\ TrailInv' /\ ReaderInv'
  BY DEF TableInv, WriterInv, TrailInv, ReaderInv
<1> QED BY <1>1, <1>2 DEF TableInv

(***************************************************************************)
(* What the reader starts from.                                            *)
(***************************************************************************)
LEMMA ReaderAhead ==
  ASSUME TableInv
  PROVE  /\ rpos \in 0..Size /\ rprev \in 1..MaxLen /\ run \in {-1} \union 0..Size
         /\ read \in [Symbols -> 0..MaxLen] /\ lengths \in [Symbols -> 0..MaxLen]
         /\ Size \in Nat \ {0} /\ MaxLen \in Nat /\ Row \in Nat \ {0}
         /\ ZeroMin \in Nat \ {0} /\ Extend \in Nat /\ Continue \in Nat \ {0}
BY LengthsAssumption DEF TableInv, TableTypeOK

(***************************************************************************)
(* The reader holds the writer's lengths up to its position, zeros beyond. *)
(***************************************************************************)
LEMMA ReadSoFar ==
  ASSUME TableInv, own
  PROVE  \A s \in Symbols : read[s] = IF s < rpos THEN lengths[s] ELSE 0
BY DEF TableInv, ReaderInv

(***************************************************************************)
(* Storing the length at the reader's position.                            *)
(***************************************************************************)
LEMMA KeepRestores ==
  ASSUME TableInv, phase = "read", consumed < Len(stream), UNCHANGED writerVars, rpos < Size, run = -1,
         NEW len \in 0..MaxLen, NEW prev \in 1..MaxLen,
         Keep(len, prev),
         own => len = lengths[rpos] /\ expected[consumed + 2] = At(rpos + 1, prev, -1)
  PROVE  TableInv'
<1>1. /\ read' = [read EXCEPT ![rpos] = len] /\ rprev' = prev /\ rpos' = rpos + 1
      /\ consumed' = consumed + 1 /\ run' = run /\ phase' = phase
  BY DEF Keep
<1>2. rpos \in Symbols /\ rpos + 1 \in 0..Size
  BY ReaderAhead DEF Symbols
<1>3. read' \in [Symbols -> 0..MaxLen]
  BY <1>1, ReaderAhead
<1>4. ASSUME own, NEW s \in Symbols
      PROVE  read'[s] = IF s < rpos + 1 THEN lengths[s] ELSE 0
  <2>1. CASE s = rpos
    BY SMTT(30), <1>1, <1>2, <1>4, <2>1, ReaderAhead
  <2>2. CASE s # rpos
    <3>1. read'[s] = read[s]
      BY <1>1, <2>2, ReaderAhead
    <3>2. s < rpos + 1 <=> s < rpos
      BY <1>2, <2>2 DEF Symbols
    <3> QED BY <1>4, <3>1, <3>2, ReadSoFar
  <2> QED BY <2>1, <2>2
<1>5. run' \in {-1} \union 0..Size
  BY <1>1
<1>6. own => expected[consumed + 2] = At(rpos', rprev', run')
  BY <1>1
<1>7. own => \A s \in Symbols : read'[s] = IF s < rpos' THEN lengths[s] ELSE 0
  BY <1>1, <1>4
<1>8. rpos' \in 0..Size /\ rprev' \in 1..MaxLen
  BY <1>1, <1>2
<1> QED BY <1>1, <1>3, <1>5, <1>6, <1>7, <1>8, TakeRestores

(***************************************************************************)
(* An opcode is due only before the end of the stream.                     *)
(***************************************************************************)
LEMMA ReadingAhead ==
  ASSUME TableInv, NEW ops \in SUBSET Nat, Reading(ops)
  PROVE  /\ phase = "read" /\ run = -1 /\ rpos < Size /\ Due.op \in ops /\ UNCHANGED writerVars
         /\ consumed < Len(stream)
<1>1. phase = "read" /\ Due.op \in Nat
  BY DEF Reading
<1> QED BY <1>1, DueAtEnd DEF Reading

(***************************************************************************)
(* What the writer told when a length or a fill is due.                    *)
(***************************************************************************)
LEMMA OwnLength ==
  ASSUME TableInv, own, phase = "read", run = -1, consumed < Len(stream),
         Due.op \in 0..MaxLen \union {PrevOp, Row0Op, Row1Op}
  PROVE  LET k == lengths[rpos]
             b == expected[consumed + 2]
         IN  \/ Due.op = 0 /\ k = 0 /\ b = At(rpos + 1, rprev, -1)
             \/ /\ k # 0 /\ b = At(rpos + 1, k, -1)
                /\ \/ Due.op = k
                   \/ Due.op = PrevOp /\ k = rprev
                   \/ Due.op = Row0Op /\ rpos >= Row /\ k = lengths[rpos - Row]
                   \/ Due.op = Row1Op /\ rpos >= Row /\ k = lengths[rpos - Row] + 1
<1>1. Tells(lengths, At(rpos, rprev, run), Due, expected[consumed + 2])
  BY DueTells
<1>2. Due.op # FillOp /\ Due.op # ZeroOp /\ Due.op # MoreOp
  BY OpcodesDiffer
<1> QED BY <1>1, <1>2 DEF Tells, TellsLength, TellsZero, TellsFill, TellsRun, At

(***************************************************************************)
(* One lemma for each action of the reader.                                *)
(***************************************************************************)
LEMMA ReadLengthKeeps == TableInv /\ ReadLength => TableInv'
<1> SUFFICES ASSUME TableInv, ReadLength PROVE TableInv'
  OBVIOUS
<1> DEFINE prev == IF Due.op = 0 THEN rprev ELSE Due.op
<1>1. /\ phase = "read" /\ run = -1 /\ rpos < Size /\ UNCHANGED writerVars /\ Due.op \in 0..MaxLen
      /\ consumed < Len(stream)
  BY ReadingAhead, 0..MaxLen \in SUBSET Nat, ReaderAhead DEF ReadLength
<1>2. Keep(Due.op, prev) /\ prev \in 1..MaxLen
  BY <1>1, ReaderAhead DEF ReadLength
<1>3. ASSUME own PROVE Due.op = lengths[rpos] /\ expected[consumed + 2] = At(rpos + 1, prev, -1)
  BY <1>1, <1>3, OwnLength, OpcodesDiffer
<1> HIDE DEF prev
<1> QED BY <1>1, <1>2, <1>3, KeepRestores

LEMMA ReadPrevKeeps == TableInv /\ ReadPrev => TableInv'
<1> SUFFICES ASSUME TableInv, ReadPrev PROVE TableInv'
  OBVIOUS
<1>0. {PrevOp} \in SUBSET Nat
  BY ReaderAhead DEF PrevOp
<1>1. /\ phase = "read" /\ run = -1 /\ rpos < Size /\ UNCHANGED writerVars /\ Due.op = PrevOp
      /\ consumed < Len(stream)
  BY <1>0, ReadingAhead DEF ReadPrev
<1>2. Keep(rprev, rprev)
  BY DEF ReadPrev
<1>3. ASSUME own PROVE rprev = lengths[rpos] /\ expected[consumed + 2] = At(rpos + 1, rprev, -1)
  <2>1. rpos \in Symbols
    BY <1>1, ReaderAhead DEF Symbols
  <2>2. lengths[rpos] \in 0..MaxLen
    BY <2>1, ReaderAhead
  <2> QED BY <1>1, <1>3, <2>2, OwnLength, OpcodesDiffer
<1> QED BY <1>1, <1>2, <1>3, KeepRestores, ReaderAhead

LEMMA ReadRowKeeps == TableInv /\ ReadRow => TableInv'
<1> SUFFICES ASSUME TableInv, ReadRow PROVE TableInv'
  OBVIOUS
<1> DEFINE above == read[IF rpos >= Row THEN rpos - Row ELSE 0] + (Due.op - Row0Op)
<1>0. {Row0Op, Row1Op} \in SUBSET Nat
  BY ReaderAhead DEF Row0Op, Row1Op
<1>1. /\ phase = "read" /\ run = -1 /\ rpos < Size /\ UNCHANGED writerVars
      /\ Due.op \in {Row0Op, Row1Op} /\ consumed < Len(stream)
  BY <1>0, ReadingAhead DEF ReadRow
<1>2. IF rpos >= Row /\ ValidLength(above) THEN Keep(above, above) ELSE Fail("error")
  BY DEF ReadRow
<1>3. above \in Nat
  <2>1. (IF rpos >= Row THEN rpos - Row ELSE 0) \in Symbols
    BY <1>1, ReaderAhead DEF Symbols
  <2>2. read[IF rpos >= Row THEN rpos - Row ELSE 0] \in 0..MaxLen
    BY <2>1, ReaderAhead
  <2>3. Due.op - Row0Op \in {0, 1}
    BY <1>1, OpcodesDiffer DEF Row0Op, Row1Op
  <2> QED BY <2>2, <2>3, ReaderAhead
<1>4. ASSUME own
      PROVE  /\ rpos >= Row /\ above = lengths[rpos] /\ above \in 1..MaxLen
             /\ expected[consumed + 2] = At(rpos + 1, above, -1)
  <2>1. rpos \in Symbols
    BY <1>1, ReaderAhead DEF Symbols
  <2>2. lengths[rpos] \in 0..MaxLen
    BY <2>1, ReaderAhead
  <2>3. /\ lengths[rpos] # 0 /\ expected[consumed + 2] = At(rpos + 1, lengths[rpos], -1) /\ rpos >= Row
        /\ \/ Due.op = Row0Op /\ lengths[rpos] = lengths[rpos - Row]
           \/ Due.op = Row1Op /\ lengths[rpos] = lengths[rpos - Row] + 1
    BY <1>1, <1>4, <2>2, OwnLength, OpcodesDiffer
  <2>4. rpos - Row \in Symbols /\ rpos - Row < rpos
    BY SMTT(30), <1>1, <2>3, ReaderAhead DEF Symbols
  <2>5. read[rpos - Row] = lengths[rpos - Row] /\ read[rpos - Row] \in 0..MaxLen
    BY <1>4, <2>4, ReaderAhead, ReadSoFar
  <2>6. above = lengths[rpos]
    BY <2>3, <2>5, ReaderAhead DEF Row0Op, Row1Op
  <2> QED BY <2>2, <2>3, <2>6, ReaderAhead
<1> HIDE DEF above
<1>5. CASE rpos >= Row /\ ValidLength(above)
  <2>1. Keep(above, above) /\ above \in 1..MaxLen /\ above \in 0..MaxLen
    BY <1>2, <1>3, <1>5, ReaderAhead DEF ValidLength
  <2> QED BY <1>1, <1>4, <2>1, KeepRestores
<1>6. CASE ~(rpos >= Row /\ ValidLength(above))
  <2>1. ~own
    BY <1>4, <1>6, ReaderAhead DEF ValidLength
  <2>2. phase' = "error" /\ UNCHANGED readerVars
    BY <1>2, <1>6 DEF Fail
  <2> QED BY <1>1, <2>1, <2>2, FailKeeps
<1> QED BY <1>5, <1>6

(***************************************************************************)
(* A number between two others lies in their interval.                     *)
(***************************************************************************)
LEMMA BetweenIsIn ==
  ASSUME NEW s \in Nat, NEW p \in Nat, NEW q \in Nat, ~(s < p), s < q
  PROVE  s \in p..(q - 1)
OBVIOUS

(***************************************************************************)
(* Zeros are not stored: the reader only moves on.                         *)
(***************************************************************************)
LEMMA SkipRestores ==
  ASSUME TableInv, phase = "read", consumed < Len(stream), UNCHANGED writerVars,
         consumed' = consumed + 1, UNCHANGED <<rprev, read, phase>>,
         rpos' \in rpos..Size, run' \in {-1} \union 0..Size,
         own => Zeros(lengths, rpos, rpos') /\ expected[consumed + 2] = At(rpos', rprev, run')
  PROVE  TableInv'
<1>1. own => \A s \in Symbols : read'[s] = IF s < rpos' THEN lengths[s] ELSE 0
  <2> SUFFICES ASSUME own, NEW s \in Symbols PROVE read'[s] = IF s < rpos' THEN lengths[s] ELSE 0
    OBVIOUS
  <2>1. read'[s] = IF s < rpos THEN lengths[s] ELSE 0
    BY ReadSoFar
  <2>2. rpos' \in Nat /\ rpos \in Nat /\ s \in Nat /\ rpos <= rpos'
    BY ReaderAhead DEF Symbols
  <2>3. CASE s < rpos
    BY <2>1, <2>2, <2>3
  <2>4. CASE ~(s < rpos) /\ s < rpos'
    <3>1. s \in rpos..(rpos' - 1)
      BY <2>2, <2>4, BetweenIsIn
    <3> QED BY <2>1, <2>4, <3>1 DEF Zeros
  <2>5. CASE ~(s < rpos')
    BY <2>1, <2>2, <2>5
  <2> QED BY <2>3, <2>4, <2>5
<1>2. rpos' \in 0..Size /\ rprev' \in 1..MaxLen /\ read' \in [Symbols -> 0..MaxLen]
  BY ReaderAhead
<1> QED BY <1>1, <1>2, TakeRestores

LEMMA ReadFillKeeps == TableInv /\ ReadFill => TableInv'
<1> SUFFICES ASSUME TableInv, ReadFill PROVE TableInv'
  OBVIOUS
<1>0. {FillOp} \in SUBSET Nat
  BY ReaderAhead DEF FillOp
<1>1. /\ phase = "read" /\ run = -1 /\ rpos < Size /\ UNCHANGED writerVars
      /\ Due.op = FillOp /\ consumed < Len(stream)
  BY <1>0, ReadingAhead DEF ReadFill
<1>2. rpos' = FillEnd(rpos) /\ consumed' = consumed + 1 /\ UNCHANGED <<rprev, run, read, phase>>
  BY DEF ReadFill
<1>3. NextRow(rpos) \in Nat /\ rpos < NextRow(rpos)
  BY NextRowBehind, ReaderAhead
<1>4. FillEnd(rpos) \in rpos..Size
  BY <1>1, <1>3, ReaderAhead DEF FillEnd
<1>5. ASSUME own
      PROVE  Zeros(lengths, rpos, FillEnd(rpos)) /\ expected[consumed + 2] = At(FillEnd(rpos), rprev, -1)
  <2>1. Tells(lengths, At(rpos, rprev, run), Due, expected[consumed + 2])
    BY <1>1, <1>5, DueTells
  <2>2. rpos \in Symbols
    BY <1>1, ReaderAhead DEF Symbols
  <2>3. lengths[rpos] \in 0..MaxLen
    BY <2>2, ReaderAhead
  <2>4. TellsFill(lengths, At(rpos, rprev, run), Due, expected[consumed + 2])
    BY <1>1, <2>1, <2>3, OpcodesDiffer DEF Tells, TellsLength, TellsZero, TellsRun, At
  <2>5. /\ NextRow(rpos) <= Size /\ Zeros(lengths, rpos, NextRow(rpos))
        /\ expected[consumed + 2] = At(NextRow(rpos), rprev, -1)
    BY <2>4 DEF TellsFill, At
  <2>6. FillEnd(rpos) = NextRow(rpos)
    BY <1>3, <2>5, ReaderAhead DEF FillEnd
  <2> QED BY <2>5, <2>6
<1> QED BY <1>1, <1>2, <1>4, <1>5, SkipRestores

(***************************************************************************)
(* One count of a run, the first or an extension.                          *)
(***************************************************************************)
LEMMA TakeRunKeeps ==
  ASSUME TableInv, phase = "read", consumed < Len(stream), UNCHANGED writerVars,
         NEW count \in Nat, NEW more \in BOOLEAN,
         TakeRun(count, more),
         own => TellsZeros(lengths, At(rpos, rprev, run), count, more, expected[consumed + 2])
  PROVE  TableInv'
<1>1. CASE rpos + count > Size \/ Crosses(rpos, rpos + count)
  <2>1. phase' = "error" /\ UNCHANGED readerVars
    BY <1>1 DEF TakeRun, Fail
  <2>2. ~own
    BY <1>1, ReaderAhead DEF TellsZeros, At
  <2> QED BY <2>1, <2>2, FailKeeps
<1>2. CASE ~(rpos + count > Size \/ Crosses(rpos, rpos + count))
  <2>1. /\ rpos' = IF more THEN rpos ELSE rpos + count
        /\ run' = IF more THEN count ELSE -1
        /\ consumed' = consumed + 1 /\ UNCHANGED <<rprev, read, phase>>
    BY <1>2 DEF TakeRun
  <2>2. rpos' \in rpos..Size /\ run' \in {-1} \union 0..Size
    BY <1>2, <2>1, ReaderAhead
  <2>3. ASSUME own PROVE Zeros(lengths, rpos, rpos') /\ expected[consumed + 2] = At(rpos', rprev, run')
    <3>1. /\ Zeros(lengths, rpos, rpos + count)
          /\ expected[consumed + 2] = IF more THEN At(rpos, rprev, count) ELSE At(rpos + count, rprev, -1)
      BY <2>3 DEF TellsZeros, At
    <3>2. Zeros(lengths, rpos, rpos')
      BY <2>1, <3>1, ReaderAhead DEF Zeros
    <3> QED BY <2>1, <3>1, <3>2
  <2> QED BY <2>1, <2>2, <2>3, SkipRestores
<1> QED BY <1>1, <1>2

LEMMA ReadRunKeeps == TableInv /\ ReadRun => TableInv'
<1> SUFFICES ASSUME TableInv, ReadRun PROVE TableInv'
  OBVIOUS
<1>0. {ZeroOp} \in SUBSET Nat
  BY ReaderAhead DEF ZeroOp
<1>1. /\ phase = "read" /\ run = -1 /\ rpos < Size /\ UNCHANGED writerVars
      /\ Due.op = ZeroOp /\ consumed < Len(stream) /\ TakeRun(Due.n + ZeroMin, Due.n = Extend)
  BY <1>0, ReadingAhead DEF ReadRun
<1>2. Due.n + ZeroMin \in Nat
  BY <1>1, DueTells, ReaderAhead DEF Elements
<1>3. ASSUME own
      PROVE  TellsZeros(lengths, At(rpos, rprev, run), Due.n + ZeroMin, Due.n = Extend, expected[consumed + 2])
  <2>1. Tells(lengths, At(rpos, rprev, run), Due, expected[consumed + 2])
    BY <1>1, <1>3, DueTells
  <2>2. rpos \in Symbols
    BY <1>1, ReaderAhead DEF Symbols
  <2>3. lengths[rpos] \in 0..MaxLen
    BY <2>2, ReaderAhead
  <2>4. TellsRun(lengths, At(rpos, rprev, run), Due, expected[consumed + 2])
    BY <1>1, <2>1, <2>3, OpcodesDiffer DEF Tells, TellsLength, TellsZero, TellsFill, At
  <2> QED BY <1>1, <2>4 DEF TellsRun, At
<1> QED BY <1>1, <1>2, <1>3, TakeRunKeeps

LEMMA ReadMoreKeeps == TableInv /\ ReadMore => TableInv'
<1> SUFFICES ASSUME TableInv, ReadMore PROVE TableInv'
  OBVIOUS
<1>1. /\ phase = "read" /\ run # -1 /\ UNCHANGED writerVars /\ Due.op = MoreOp
      /\ TakeRun(run + Due.n, Due.n = Continue)
  BY DEF ReadMore
<1>2. consumed < Len(stream)
  <2>1. MoreOp # -1
    BY ReaderAhead DEF MoreOp
  <2> QED BY <1>1, <2>1, DueAtEnd
<1>3. run + Due.n \in Nat
  BY SMTT(30), <1>1, <1>2, DueTells, ReaderAhead DEF Elements
<1>4. ASSUME own
      PROVE  TellsZeros(lengths, At(rpos, rprev, run), run + Due.n, Due.n = Continue, expected[consumed + 2])
  <2>1. Tells(lengths, At(rpos, rprev, run), Due, expected[consumed + 2])
    BY <1>1, <1>2, <1>4, DueTells
  <2> QED BY <1>1, <2>1 DEF Tells, TellsLength, TellsZero, TellsFill, TellsRun, At
<1> QED BY <1>1, <1>2, <1>3, <1>4, TakeRunKeeps

LEMMA MisreadKeeps == TableInv /\ Misread => TableInv'
<1> SUFFICES ASSUME TableInv, Misread PROVE TableInv'
  OBVIOUS
<1>1. /\ phase = "read" /\ UNCHANGED writerVars /\ phase' = "garbled" /\ UNCHANGED readerVars
      /\ \/ run = -1 /\ rpos < Size /\ Due.op \notin 0..Row1Op
         \/ run # -1 /\ Due.op # MoreOp
  BY DEF Misread, Fail
<1>2. ASSUME own PROVE FALSE
  <2>1. CASE consumed < Len(stream)
    <3>1. Tells(lengths, At(rpos, rprev, run), Due, expected[consumed + 2])
      BY <1>1, <1>2, <2>1, DueTells
    <3>2. run = -1 /\ rpos < Size /\ Due.op \notin 0..Row1Op
      BY <1>1, <3>1 DEF Tells, TellsLength, TellsZero, TellsFill, TellsRun, At
    <3>3. lengths[rpos] \in 0..MaxLen
      BY <3>2, ReaderAhead DEF Symbols
    <3> QED BY <3>1, <3>2, <3>3, ReaderAhead
            DEF Tells, TellsLength, TellsZero, TellsFill, TellsRun, At, FillOp, ZeroOp, PrevOp, Row0Op, Row1Op
  <2>2. CASE ~(consumed < Len(stream))
    <3>1. rpos = Size /\ run = -1
      BY <1>1, <1>2, <2>2, DueAtEnd
    <3> QED BY <1>1, <3>1, ReaderAhead
  <2> QED BY <2>1, <2>2
<1> QED BY <1>1, <1>2, FailKeeps

LEMMA FinishReadingKeeps == TableInv /\ FinishReading => TableInv'
<1> SUFFICES ASSUME TableInv, FinishReading PROVE TableInv'
  OBVIOUS
<1> USE DEF FinishReading, writerVars, readerVars
<1>1. TableTypeOK'
  BY DEF TableInv, TableTypeOK
<1>2. WriterInv' /\ TrailInv'
  BY DEF TableInv, WriterInv, TrailInv
<1>3. own => consumed = Len(stream)
  <2> SUFFICES ASSUME own, consumed < Len(stream) PROVE FALSE
    BY DEF TableInv, TableTypeOK
  <2>1. Tells(lengths, At(rpos, rprev, run), Due, expected[consumed + 2])
    BY DueTells
  <2> QED BY <2>1, ReaderAhead DEF Tells, At
<1>4. ReaderInv'
  BY <1>3, ReaderAhead DEF TableInv, ReaderInv
<1> QED BY <1>1, <1>2, <1>4 DEF TableInv

LEMMA StepKeeps == TableInv /\ [TableNext]_tableVars => TableInv'
<1> SUFFICES ASSUME TableInv, [TableNext]_tableVars PROVE TableInv'
  OBVIOUS
<1>1. CASE WriteTable
  BY <1>1, WriteLengthKeeps, ScanZerosKeeps, WriteFillKeeps, WriteZeroKeeps, WriteRunKeeps,
     WriteMoreKeeps, StartReadingKeeps DEF WriteTable
<1>2. CASE ReadTable
  BY <1>2, ReadLengthKeeps, ReadPrevKeeps, ReadRowKeeps, ReadFillKeeps, ReadRunKeeps,
     ReadMoreKeeps, MisreadKeeps, FinishReadingKeeps DEF ReadTable
<1>3. CASE UNCHANGED tableVars
  <2> USE <1>3 DEF tableVars, writerVars, readerVars
  <2>1. TableTypeOK'
    BY DEF TableInv, TableTypeOK
  <2>2. WriterInv' /\ TrailInv' /\ ReaderInv'
    BY DEF TableInv, WriterInv, TrailInv, ReaderInv
  <2> QED BY <2>1, <2>2 DEF TableInv
<1> QED BY <1>1, <1>2, <1>3 DEF TableNext

----------------------------------------------------------------------------

(***************************************************************************)
(* Whatever opcodes it is given, a foreign encoder's too, the reader stays *)
(* inside its alphabet and stores only lengths a code may have.            *)
(***************************************************************************)
THEOREM LengthsStayInside == TableSpec => []TableTypeOK
<1>1. TableInv => TableTypeOK
  BY DEF TableInv
<1> QED BY InitEstablishes, StepKeeps, <1>1, PTL DEF TableSpec

(***************************************************************************)
(* The table _decode_coded_lengths returns is the one                      *)
(* _write_length_sequence was given, and the reader stops at its last      *)
(* element: for every table, every size and row of an alphabet and every   *)
(* way zeros are counted.                                                  *)
(***************************************************************************)
THEOREM LengthsComeBack == TableSpec => []TableComesBack
<1>1. TableInv => TableComesBack
  <2> SUFFICES ASSUME TableInv, own, phase = "done" PROVE read = lengths
    BY DEF TableInv, ReaderInv, TableComesBack
  <2>1. rpos = Size
    BY DEF TableInv, ReaderInv
  <2>2. \A s \in Symbols : read[s] = lengths[s]
    BY <2>1, ReadSoFar, ReaderAhead DEF Symbols
  <2> QED BY <2>2, ReaderAhead
<1> QED BY InitEstablishes, StepKeeps, <1>1, PTL DEF TableSpec
============================================================================
