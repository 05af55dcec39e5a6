--------------------------- MODULE EseCellsProofs ---------------------------
(***************************************************************************)
(* The proofs about the ESE cells, and about the compact XPRESS9 codec.    *)
(*                                                                         *)
(* First OneSession, for every payload and every limit.  It is not         *)
(* inductive: that the output stays below the limit follows from the sizes *)
(* of the blocks decoded so far, which sum up to a share of the declared   *)
(* total.  The sums are carried along as a function.                       *)
(*                                                                         *)
(* Then the cells, of every format, damaged or not: SizesAgree, and with   *)
(* what the payload was before the damage, CellsComeBack and DamageNoticed.*)
(*                                                                         *)
(* Last two systems of their own.  The 7-bit cells; and the compact        *)
(* XPRESS9 codec, whose two sides keep their lists of offsets by different *)
(* rules: the decoder is compared, token by token, with the places and     *)
(* lists the encoder went through.                                         *)
(***************************************************************************)
EXTENDS EseCells, SevenBit, CompactXpress9, ArithmeticLemmas, SequenceTheorems, TLAPS

Spans == [header : Headers, from : Nat, to : Nat]

SessionTypeOK ==
  /\ payload \in Seq(Headers \union Tokens)
  /\ spans \in Seq(Spans)
  /\ offset \in 0..Len(payload) /\ total \in Nat
  /\ block \in 0..Len(spans) /\ at \in Nat /\ target \in Nat
  /\ out \in Seq(Nat)
  /\ step \in {"walk", "total", "block", "token", "decoded", "error"}

WalkInv ==
  /\ \A i \in 1..Len(spans) : SpanOK(i)
  /\ offset = IF spans = << >> THEN 0 ELSE spans[Len(spans)].to
  /\ step \in {"total", "block", "token", "decoded"} => spans # << >> /\ offset = Len(payload)

\* sums[i] is what the first i blocks declare.
Sums(sums) ==
  /\ sums \in [0..Len(spans) -> Nat]
  /\ sums[0] = 0 /\ sums[Len(spans)] = total
  /\ \A i \in 1..Len(spans) : sums[i] = sums[i - 1] + spans[i].header.size
  /\ \A i \in 0..Len(spans) : sums[i] <= total

OutFollows(sums) ==
  /\ step \in {"walk", "total"} => out = << >> /\ block = 0
  /\ step \in {"block", "decoded"} => Len(out) = sums[block]
  /\ step = "decoded" => block = Len(spans)
  /\ step = "token" => block < Len(spans) /\ target = sums[block + 1] /\ Len(out) <= target

SizesInv ==
  /\ \E sums : Sums(sums) /\ OutFollows(sums)
  /\ step \in {"block", "token", "decoded"} => total <= MaxDecoded

IndInv == SessionTypeOK /\ WalkInv /\ SizesInv

----------------------------------------------------------------------------

(***************************************************************************)
(* What the fields of the cells are.                                       *)
(***************************************************************************)
LEMMA HeaderFields ==
  ASSUME NEW h \in Headers
  PROVE  h.kind = "header" /\ h.size \in Nat /\ h.cells \in Nat
BY DEF Headers

LEMMA SpanFields ==
  ASSUME NEW s \in Spans
  PROVE  /\ s.header \in Headers /\ s.from \in Nat /\ s.to \in Nat
         /\ s.header.size \in Nat /\ s.header.cells \in Nat
BY HeaderFields DEF Spans

LEMMA TokenFields ==
  ASSUME NEW t \in Tokens
  PROVE  t.kind = "token" /\ t.value \in Nat /\ t.back \in Nat /\ t.len \in Nat
BY DEF Tokens

(***************************************************************************)
(* A match copied within the output makes it longer by its length          *)
(* (_copy_match).                                                          *)
(***************************************************************************)
LEMMA CopyMatchType ==
  ASSUME NEW buf \in Seq(Nat), NEW k \in 1..Len(buf), NEW m \in Nat
  PROVE  CopyMatch(buf, k, m) \in Seq(Nat) /\ Len(CopyMatch(buf, k, m)) = Len(buf) + m
<1> DEFINE N == Len(buf) + m
           F == CopyMatch(buf, k, m)
<1>1. ASSUME NEW i \in 1..N, i > Len(buf)
      PROVE  Len(buf) - k + 1 + ((i - Len(buf) - 1) % k) \in 1..Len(buf)
  <2>0. Len(buf) \in Nat /\ k \in Nat \ {0} /\ k <= Len(buf)
    OBVIOUS
  <2> DEFINE a == i - Len(buf) - 1
  <2>1. a \in Nat
    BY <1>1, <2>0
  <2> HIDE DEF a
  <2>2. a % k \in 0..(k - 1)
    BY <2>0, <2>1, DivMod
  <2>3. Len(buf) - k + 1 + (a % k) \in 1..Len(buf)
    BY <2>0, <2>2
  <2> QED BY <2>3 DEF a
<1>2. F \in [1..N -> Nat]
  <2> SUFFICES ASSUME NEW i \in 1..N
               PROVE  (IF i <= Len(buf) THEN buf[i]
                       ELSE buf[Len(buf) - k + 1 + ((i - Len(buf) - 1) % k)]) \in Nat
    BY DEF CopyMatch
  <2>1. CASE i <= Len(buf)
    BY <2>1
  <2>2. CASE i > Len(buf)
    <3>1. Len(buf) - k + 1 + ((i - Len(buf) - 1) % k) \in 1..Len(buf)
      BY <1>1, <2>2
    <3> QED BY <2>2, <3>1
  <2> QED BY <2>1, <2>2
<1>3. N \in Nat
  OBVIOUS
<1> HIDE DEF F
<1>4. F \in Seq(Nat)
  BY <1>2, <1>3
<1>5. Len(F) = N
  BY <1>2, <1>3, <1>4
<1> QED BY <1>4, <1>5 DEF F

(***************************************************************************)
(* The output after a token is again a sequence of bytes, longer by the    *)
(* token's length at most.                                                 *)
(***************************************************************************)
LEMMA ExpandedType ==
  ASSUME NEW t \in Tokens, out \in Seq(Nat), t.back <= Len(out)
  PROVE  /\ Expanded(t) \in Seq(Nat)
         /\ Len(Expanded(t)) = Len(out) + (IF t.back = 0 THEN 1 ELSE t.len)
<1>1. t.back \in Nat /\ t.len \in Nat /\ t.value \in Nat
  BY TokenFields
<1>2. CASE t.back = 0
  BY <1>1, <1>2 DEF Expanded
<1>3. CASE t.back # 0
  <2>1. t.back \in 1..Len(out)
    BY <1>1, <1>3
  <2>2. Expanded(t) = CopyMatch(out, t.back, t.len)
    BY <1>3 DEF Expanded
  <2> QED BY <1>1, <1>3, <2>1, <2>2, CopyMatchType
<1> QED BY <1>2, <1>3

----------------------------------------------------------------------------

LEMMA InitEstablishes == SessionInit => IndInv
<1> SUFFICES ASSUME SessionInit PROVE IndInv
  OBVIOUS
<1> USE SessionAssumption DEF SessionInit, ReadingInit
<1>1. SessionTypeOK
  BY DEF SessionTypeOK
<1>2. WalkInv
  BY DEF WalkInv
<1>3. Sums([i \in 0..0 |-> 0]) /\ OutFollows([i \in 0..0 |-> 0])
  BY DEF Sums, OutFollows
<1>4. SizesInv
  BY <1>3 DEF SizesInv
<1> QED BY <1>1, <1>2, <1>4 DEF IndInv

LEMMA RefusalKeeps == IndInv /\ Refuse => IndInv'
<1> SUFFICES ASSUME IndInv, Refuse PROVE IndInv'
  OBVIOUS
<1> USE DEF IndInv, Refuse, readingVars
<1>1. SessionTypeOK'
  BY DEF SessionTypeOK
<1>2. WalkInv'
  BY DEF WalkInv, SpanOK
<1>3. SizesInv'
  BY DEF SizesInv, Sums, OutFollows
<1> QED BY <1>1, <1>2, <1>3

(***************************************************************************)
(* A header accepted extends the blocks by one that follows the last.      *)
(***************************************************************************)
LEMMA WalkBlockKeeps == IndInv /\ WalkBlock => IndInv'
<1> SUFFICES ASSUME IndInv, WalkBlock, ~Refuse PROVE IndInv'
  BY RefusalKeeps
<1> DEFINE h == payload[offset + 1]
           s == [header |-> h, from |-> offset + 1, to |-> offset + 1 + h.cells]
<1>0. /\ step = "walk" /\ offset < Len(payload) /\ Accepts(h)
      /\ spans' = Append(spans, s)
      /\ offset' = offset + 1 + h.cells
      /\ total' = total + h.size
      /\ payload' = payload /\ block' = block /\ at' = at /\ target' = target
      /\ out' = out /\ step' = step
  BY DEF WalkBlock
<1>1. h \in Headers
  BY <1>0, TokenFields DEF IndInv, SessionTypeOK, Accepts
<1>2. s \in Spans /\ h.cells \in Nat /\ h.size \in Nat /\ h.cells > 0
  <2>1. h.cells \in Nat /\ h.size \in Nat /\ h.cells > 0
    BY <1>0, <1>1, HeaderFields DEF Accepts
  <2>2. offset + 1 \in Nat /\ offset + 1 + h.cells \in Nat
    BY <2>1 DEF IndInv, SessionTypeOK
  <2> HIDE DEF h
  <2>3. s \in Spans
    BY <1>1, <2>2 DEF Spans
  <2> QED BY <2>1, <2>3 DEF h
<1>3. /\ Len(spans') = Len(spans) + 1 /\ Len(spans) \in Nat
      /\ spans'[Len(spans) + 1] = s
      /\ \A i \in 1..Len(spans) : spans'[i] = spans[i]
      /\ spans' \in Seq(Spans)
  BY SMTT(30), <1>0, <1>2 DEF IndInv, SessionTypeOK
<1> HIDE DEF s
<1>4. SessionTypeOK'
  <2>1. offset \in Nat /\ offset + 1 + h.cells <= Len(payload)
    BY <1>0 DEF IndInv, SessionTypeOK, Accepts
  <2>2. /\ payload \in Seq(Headers \union Tokens) /\ total \in Nat
        /\ block \in 0..Len(spans) /\ at \in Nat /\ target \in Nat /\ out \in Seq(Nat)
    BY DEF IndInv, SessionTypeOK
  <2> HIDE DEF h
  <2>3. offset' \in 0..Len(payload)
    BY SMTT(30), <1>0, <1>2, <2>1, <2>2
  <2>4. total' \in Nat /\ block' \in 0..Len(spans')
    BY <1>0, <1>2, <1>3, <2>2
  <2> QED BY <1>0, <1>3, <2>2, <2>3, <2>4 DEF SessionTypeOK
<1>5. WalkInv'
  <2>1. ASSUME NEW i \in 1..Len(spans) PROVE SpanOK(i)'
    BY <1>0, <1>3, <2>1 DEF IndInv, WalkInv, SpanOK
  <2>2. ASSUME NEW i, i = Len(spans) + 1 PROVE SpanOK(i)'
    <3> DEFINE new == spans'[i]
    <3>0. new = spans'[Len(spans) + 1]
      BY <2>2
    <3>1. /\ new.header = h /\ new.from = offset + 1 /\ new.to = offset + 1 + h.cells
          /\ h = payload[new.from] /\ h.index = Len(spans) /\ h.faults = {}
          /\ new.from < new.to /\ new.to <= Len(payload)
      <4>1. offset \in Nat
        BY DEF IndInv, SessionTypeOK
      <4>2. /\ h.index = Len(spans) /\ h.faults = {}
            /\ offset + 1 + h.cells <= Len(payload)
        BY <1>0 DEF Accepts, InSession
      <4>3. new.header = h /\ new.from = offset + 1 /\ new.to = offset + 1 + h.cells
        BY <1>3, <3>0 DEF s
      <4> HIDE DEF new
      <4>4. h = payload[new.from]
        BY <4>3
      <4> HIDE DEF h
      <4> QED BY <1>2, <4>1, <4>2, <4>3, <4>4
    <3>2. CASE spans = << >>
      BY <1>0, <1>3, <2>2, <3>1, <3>2 DEF IndInv, WalkInv, SpanOK
    <3>3. CASE spans # << >>
      <4>1. Len(spans) # 0
        BY <3>3 DEF IndInv, SessionTypeOK
      <4>2. 1 \in 1..Len(spans) /\ Len(spans) \in 1..Len(spans)
        BY <1>3, <4>1
      <4>3. spans'[1] = spans[1] /\ spans'[Len(spans)] = spans[Len(spans)]
        BY <1>3, <4>2
      <4>4. new.header.signature = spans[1].header.signature /\ new.header.params = spans[1].header.params
        BY <1>0, <3>1, <3>3 DEF Accepts
      <4>5. new.from = spans[Len(spans)].to + 1
        BY <3>1, <3>3 DEF IndInv, WalkInv
      <4> HIDE DEF new, h
      <4> QED BY <1>0, <1>3, <2>2, <3>1, <4>1, <4>3, <4>4, <4>5 DEF SpanOK, new
    <3> QED BY <3>2, <3>3
  <2>3. spans' # << >> /\ offset' = spans'[Len(spans')].to
    BY SMTT(30), <1>0, <1>3 DEF s
  <2>4. \A i \in 1..Len(spans') : SpanOK(i)'
    BY <1>3, <2>1, <2>2
  <2> QED BY <1>0, <2>3, <2>4 DEF WalkInv
<1>6. SizesInv'
  <2>1. PICK sums : Sums(sums) /\ OutFollows(sums)
    BY DEF IndInv, SizesInv
  <2> SUFFICES ASSUME NEW more,
                      more = [i \in 0..(Len(spans) + 1) |->
                                IF i <= Len(spans) THEN sums[i] ELSE total + h.size]
               PROVE  SizesInv'
    OBVIOUS
  <2>2. Sums(more)'
    <3>0. total + h.size \in Nat /\ total <= total + h.size
      BY SMTT(30), <1>2 DEF IndInv, SessionTypeOK
    <3>1. more \in [0..(Len(spans) + 1) -> Nat]
      <4> SUFFICES ASSUME NEW i \in 0..(Len(spans) + 1)
                   PROVE  (IF i <= Len(spans) THEN sums[i] ELSE total + h.size) \in Nat
        OBVIOUS
      <4>1. i <= Len(spans) => sums[i] \in Nat
        BY <1>3, <2>1 DEF Sums
      <4> QED BY <3>0, <4>1
    <3>2. more[0] = 0 /\ more[Len(spans) + 1] = total'
      BY <1>0, <1>3, <2>1 DEF Sums
    <3>3. ASSUME NEW i \in 1..(Len(spans) + 1)
          PROVE  more[i] = more[i - 1] + spans'[i].header.size
      <4>1. CASE i <= Len(spans)
        BY <1>3, <2>1, <4>1 DEF Sums
      <4>2. CASE i = Len(spans) + 1
        <5>1. more[i] = total + h.size /\ more[i - 1] = sums[Len(spans)]
          BY <1>3, <4>2
        <5>2. spans'[i].header = h
          BY <1>3, <4>2 DEF s
        <5> QED BY <2>1, <5>1, <5>2 DEF Sums
      <4> QED BY <1>3, <4>1, <4>2
    <3>4. ASSUME NEW i \in 0..(Len(spans) + 1) PROVE more[i] <= total'
      <4>1. CASE i <= Len(spans)
        <5>1. more[i] = sums[i] /\ sums[i] <= total /\ sums[i] \in Nat
          BY <1>3, <2>1, <4>1 DEF Sums
        <5> QED BY SMTT(30), <1>0, <3>0, <5>1 DEF IndInv, SessionTypeOK
      <4>2. CASE i = Len(spans) + 1
        BY <1>0, <1>3, <3>0, <4>2
      <4> QED BY <1>3, <4>1, <4>2
    <3> QED BY <1>3, <3>1, <3>2, <3>3, <3>4 DEF Sums
  <2>3. OutFollows(more)'
    BY <1>0, <2>1 DEF OutFollows
  <2> QED BY <1>0, <2>2, <2>3 DEF SizesInv
<1> QED BY <1>4, <1>5, <1>6 DEF IndInv

LEMMA WalkEndKeeps == IndInv /\ WalkEnd => IndInv'
<1> SUFFICES ASSUME IndInv, WalkEnd, ~Refuse PROVE IndInv'
  BY RefusalKeeps
<1> USE DEF IndInv, WalkEnd, readingVars
<1>1. SessionTypeOK'
  BY DEF SessionTypeOK
<1>2. WalkInv'
  BY DEF SessionTypeOK, WalkInv, SpanOK
<1>3. SizesInv'
  BY DEF SizesInv, Sums, OutFollows
<1> QED BY <1>1, <1>2, <1>3

LEMMA CheckTotalKeeps == IndInv /\ CheckTotal => IndInv'
<1> SUFFICES ASSUME IndInv, CheckTotal, ~Refuse PROVE IndInv'
  BY RefusalKeeps
<1> USE DEF IndInv, CheckTotal, readingVars
<1>1. SessionTypeOK'
  BY DEF SessionTypeOK
<1>2. WalkInv'
  BY DEF WalkInv, SpanOK
<1>3. SizesInv'
  <2>1. PICK sums : Sums(sums) /\ OutFollows(sums)
    BY DEF SizesInv
  <2>2. Sums(sums)'
    BY <2>1 DEF Sums
  <2>3. OutFollows(sums)'
    BY <2>1 DEF Sums, OutFollows
  <2>4. total' <= MaxDecoded
    BY SessionAssumption DEF SessionTypeOK
  <2> QED BY <2>2, <2>3, <2>4 DEF SizesInv
<1> QED BY <1>1, <1>2, <1>3

LEMMA StartBlockKeeps == IndInv /\ StartBlock => IndInv'
<1> SUFFICES ASSUME IndInv, StartBlock PROVE IndInv'
  OBVIOUS
<1> USE DEF IndInv, StartBlock
<1>0. /\ spans[block + 1] \in Spans /\ spans[block + 1].header.size \in Nat
      /\ spans[block + 1].from \in Nat
  <2>1. block + 1 \in 1..Len(spans)
    BY DEF SessionTypeOK
  <2>2. spans[block + 1] \in Spans
    BY <2>1 DEF SessionTypeOK
  <2> QED BY <2>2, SpanFields
<1>1. SessionTypeOK'
  BY SMTT(30), <1>0 DEF SessionTypeOK
<1>2. WalkInv'
  BY DEF WalkInv, SpanOK
<1>3. SizesInv'
  <2>1. PICK sums : Sums(sums) /\ OutFollows(sums)
    BY DEF SizesInv
  <2>2. Sums(sums)'
    BY <2>1 DEF Sums
  <2>3. sums[block + 1] = sums[block] + spans[block + 1].header.size
    BY SMTT(30), <2>1 DEF SessionTypeOK, Sums
  <2>4. OutFollows(sums)'
    BY <1>0, <2>1, <2>3 DEF SessionTypeOK, OutFollows
  <2> QED BY <2>2, <2>4 DEF SizesInv
<1> QED BY <1>1, <1>2, <1>3

LEMMA DecodeTokenKeeps == IndInv /\ DecodeToken => IndInv'
<1> SUFFICES ASSUME IndInv, DecodeToken, ~Refuse PROVE IndInv'
  BY RefusalKeeps
<1> USE DEF IndInv, DecodeToken
<1> DEFINE t == payload[at + 1]
<1>0. PICK sums : Sums(sums) /\ OutFollows(sums)
  BY DEF SizesInv
<1>1. spans[block + 1] \in Spans /\ SpanOK(block + 1)
  BY <1>0 DEF SessionTypeOK, WalkInv, OutFollows
<1>2. at + 1 \in 1..Len(payload)
  BY <1>1 DEF SessionTypeOK, SpanOK, Spans
<1>3. t \in Tokens
  BY <1>2 DEF SessionTypeOK, Headers, Tokens
<1>4. t.back \in Nat /\ t.len \in Nat /\ t.back <= Len(out) /\ Len(out) + t.len <= target
  BY <1>3 DEF Fits, Tokens
<1>5. out' \in Seq(Nat) /\ Len(out') = Len(out) + (IF t.back = 0 THEN 1 ELSE t.len)
  BY <1>3, <1>4, ExpandedType DEF SessionTypeOK
<1>6. SessionTypeOK'
  BY SMTT(30), <1>5 DEF SessionTypeOK
<1>7. WalkInv'
  BY DEF WalkInv, SpanOK
<1>8. SizesInv'
  <2>1. Sums(sums)'
    BY <1>0 DEF Sums
  <2>2. Len(out') <= target
    BY <1>4, <1>5 DEF SessionTypeOK
  <2>3. OutFollows(sums)'
    BY <1>0, <2>2 DEF OutFollows
  <2> QED BY <2>1, <2>3 DEF SizesInv
<1> QED BY <1>6, <1>7, <1>8

LEMMA EndBlockKeeps == IndInv /\ EndBlock => IndInv'
<1> SUFFICES ASSUME IndInv, EndBlock, ~Refuse PROVE IndInv'
  BY RefusalKeeps
<1> USE DEF IndInv, EndBlock
<1>0. PICK sums : Sums(sums) /\ OutFollows(sums)
  BY DEF SizesInv
<1>1. SessionTypeOK'
  BY <1>0 DEF SessionTypeOK, OutFollows
<1>2. WalkInv'
  BY DEF WalkInv, SpanOK
<1>3. SizesInv'
  <2>1. Sums(sums)'
    BY <1>0 DEF Sums
  <2>2. OutFollows(sums)'
    BY <1>0 DEF OutFollows
  <2> QED BY <2>1, <2>2 DEF SizesInv
<1> QED BY <1>1, <1>2, <1>3

LEMMA EndBlocksKeeps == IndInv /\ EndBlocks => IndInv'
<1> SUFFICES ASSUME IndInv, EndBlocks PROVE IndInv'
  OBVIOUS
<1> USE DEF IndInv, EndBlocks, readingVars
<1>1. SessionTypeOK'
  BY DEF SessionTypeOK
<1>2. WalkInv'
  BY DEF WalkInv, SpanOK
<1>3. SizesInv'
  <2>1. PICK sums : Sums(sums) /\ OutFollows(sums)
    BY DEF SizesInv
  <2>2. Sums(sums)'
    BY <2>1 DEF Sums
  <2>3. OutFollows(sums)'
    BY <2>1 DEF SessionTypeOK, OutFollows
  <2> QED BY <2>2, <2>3 DEF SizesInv
<1> QED BY <1>1, <1>2, <1>3

----------------------------------------------------------------------------

LEMMA SessionStepKeeps == IndInv /\ [SessionNext]_sessionVars => IndInv'
<1> SUFFICES ASSUME IndInv, [SessionNext]_sessionVars PROVE IndInv'
  OBVIOUS
<1>1. CASE WalkBlock
  BY <1>1, WalkBlockKeeps
<1>2. CASE WalkEnd
  BY <1>2, WalkEndKeeps
<1>3. CASE CheckTotal
  BY <1>3, CheckTotalKeeps
<1>4. CASE StartBlock
  BY <1>4, StartBlockKeeps
<1>5. CASE DecodeToken
  BY <1>5, DecodeTokenKeeps
<1>6. CASE EndBlock
  BY <1>6, EndBlockKeeps
<1>7. CASE EndBlocks
  BY <1>7, EndBlocksKeeps
<1>8. CASE UNCHANGED sessionVars
  <2> USE <1>8 DEF IndInv, sessionVars, readingVars
  <2>1. SessionTypeOK'
    BY DEF SessionTypeOK
  <2>2. WalkInv'
    BY DEF WalkInv, SpanOK
  <2>3. SizesInv'
    BY DEF SizesInv, Sums, OutFollows
  <2> QED BY <2>1, <2>2, <2>3
<1> QED BY <1>1, <1>2, <1>3, <1>4, <1>5, <1>6, <1>7, <1>8 DEF SessionNext

LEMMA OneSessionFollows == IndInv => OneSession
<1> SUFFICES ASSUME IndInv PROVE OneSession
  OBVIOUS
<1> USE DEF IndInv
<1>1. PICK sums : Sums(sums) /\ OutFollows(sums)
  BY DEF SizesInv
<1>2. step \in {"block", "token", "decoded"} => Len(out) <= MaxDecoded
  <2>1. CASE step = "token"
    <3>1. sums[block + 1] <= total
      BY <1>1, <2>1 DEF SessionTypeOK, Sums, OutFollows
    <3>2. sums[block + 1] \in Nat /\ Len(out) \in Nat
      BY <1>1, <2>1 DEF SessionTypeOK, Sums, OutFollows
    <3> QED BY <1>1, <2>1, <3>1, <3>2, SessionAssumption DEF SessionTypeOK, SizesInv, OutFollows
  <2>2. CASE step \in {"block", "decoded"}
    <3>1. sums[block] <= total /\ sums[block] \in Nat
      BY <1>1 DEF SessionTypeOK, Sums
    <3> QED BY <1>1, <2>2, <3>1, SessionAssumption DEF SessionTypeOK, SizesInv, OutFollows
  <2> QED BY <2>1, <2>2
<1> QED BY <1>2 DEF OneSession, WalkInv

(***************************************************************************)
(* What _session_blocks accepts is one session, and decompress never       *)
(* produces more than the blocks declare and _MAX_DECODED_SIZE allows.     *)
(***************************************************************************)
THEOREM BlocksOfOneSession == SessionSpec => []OneSession
<1>1. SessionInit => IndInv
  BY InitEstablishes
<1>2. IndInv /\ [SessionNext]_sessionVars => IndInv'
  BY SessionStepKeeps
<1>3. IndInv => OneSession
  BY OneSessionFollows
<1> QED BY <1>1, <1>2, <1>3, PTL DEF SessionSpec

----------------------------------------------------------------------------
(* The cells: types, phases and sizes *)

SessionSteps == {"walk", "total", "block", "token", "decoded"}
PlainSteps   == {"plain", "whole"}
Phases == {"compress", "stored", "packed", "done", "error", "scrub", "refused"}
            \union SessionSteps \union PlainSteps

Fields == [size : Nat, plain : Seq(Nat), packed : Seq(Headers \union Tokens)]

CellTypeOK ==
  /\ payload \in Seq(Headers \union Tokens) /\ spans \in Seq(Spans)
  /\ out \in Seq(Nat) /\ at \in Nat /\ total \in Nat
  /\ data \in Seq(Nat) /\ field \in Fields
  /\ fmt \in Codecs \union Sentinels /\ id \in Ids /\ verify \in BOOLEAN
  /\ step \in Phases

\* Which format is decoded at which step, and what has happened before.
PhaseInv ==
  /\ step \in {"compress", "stored", "packed", "refused", "scrub"} => ReadingInit
  /\ step = "compress" => id = "NONE" /\ damage = "none" /\ data \in Plaintexts
  /\ step = "stored" /\ damage = "none" /\ id \in Sized => field.size > 0
  /\ id \in Sized => payload \in Seq(Tokens)
  /\ step \in SessionSteps => id = "XPRESS9"
  /\ step = "packed" => id = "XPRESS10"
  /\ step \in PlainSteps => id \in Sized
  /\ step \in SessionSteps \union PlainSteps \union {"packed", "done"} => Asked = id /\ id \in Codecs
  /\ step \in SessionSteps => IndInv
  /\ \A i \in 1..Len(spans) : SpanOK(i)

SizeInv ==
  /\ id = "XPRESS9" /\ step \notin SessionSteps => Len(out) <= total
  /\ id = "XPRESS9" /\ step = "done" => Len(out) = total
  /\ id # "XPRESS9" => Len(out) <= field.size
  /\ step \in {"whole", "done"} /\ id \in {"LZ4", "XPRESS10"} => Len(out) = field.size
  /\ step = "done" /\ verify => Verified

CellInv == CellTypeOK /\ PhaseInv /\ SizeInv

(***************************************************************************)
(* The blocks decoded stay below the declared total, and meet it.          *)
(***************************************************************************)
LEMMA BelowTotal ==
  ASSUME IndInv, step \in SessionSteps
  PROVE  /\ Len(out) <= total
         /\ step = "decoded" => Len(out) = total
<1> USE DEF IndInv
<1>1. PICK sums : Sums(sums) /\ OutFollows(sums)
  BY DEF SizesInv
<1>2. CASE step \in {"walk", "total"}
  BY <1>1, <1>2 DEF OutFollows, SessionTypeOK
<1>3. CASE step \in {"block", "decoded"}
  BY <1>1, <1>3 DEF SessionTypeOK, Sums, OutFollows
<1>4. CASE step = "token"
  <2>1. sums[block + 1] <= total /\ sums[block + 1] \in Nat
    BY <1>1, <1>4 DEF SessionTypeOK, Sums, OutFollows
  <2> QED BY <1>1, <1>4, <2>1 DEF SessionTypeOK, OutFollows
<1> QED BY <1>2, <1>3, <1>4 DEF SessionSteps

LEMMA FieldTypes ==
  /\ NoField \in Fields
  /\ \A d \in Seq(Nat) : [NoField EXCEPT !.plain = d] \in Fields
<1>1. << >> \in Seq(Nat) /\ << >> \in Seq(Headers \union Tokens)
  OBVIOUS
<1>2. ASSUME NEW d \in Seq(Nat)
      PROVE  [NoField EXCEPT !.plain = d] = [size |-> 0, plain |-> d, packed |-> << >>]
  BY DEF NoField
<1> QED BY <1>1, <1>2 DEF Fields, NoField

LEMMA CellInit == Init => CellInv
<1> SUFFICES ASSUME Init PROVE CellInv
  OBVIOUS
<1> USE DEF Init, ReadingInit
<1>1. CellTypeOK
  <2>1. NoField \in Fields
    BY FieldTypes
  <2>2. /\ payload \in Seq(Headers \union Tokens) /\ data \in Seq(Nat) /\ field \in Fields
        /\ fmt \in Codecs \union Sentinels /\ id \in {"NONE", "XPRESS9"}
        /\ step \in {"compress", "stored"}
    <3>1. CASE data \in Plaintexts /\ fmt \in Codecs \union Sentinels /\ payload = << >> /\ id = "NONE" /\ field = NoField
               /\ step = "compress"
      <4>1. << >> \in Seq(Headers \union Tokens)
        OBVIOUS
      <4>2. data \in Seq(Nat)
        BY <3>1, CellsAssumption
      <4> QED BY <2>1, <3>1, <4>1, <4>2
    <3>2. ASSUME NEW s \in Sessions,
                 data = s.data /\ fmt = "XPRESS9" /\ payload = s.payload /\ id = "XPRESS9"
                   /\ field = [NoField EXCEPT !.plain = s.data] /\ step = "stored"
          PROVE  data \in Seq(Nat) /\ payload \in Seq(Headers \union Tokens) /\ field \in Fields /\ fmt \in Codecs
      <4>1. s.data \in Seq(Nat) /\ s.payload \in Seq(Headers \union Tokens)
        BY CellsAssumption, SessionAssumption
      <4>2. field \in Fields
        BY <3>2, <4>1, FieldTypes
      <4>3. data \in Seq(Nat) /\ payload \in Seq(Headers \union Tokens)
        BY <3>2, <4>1
      <4> QED BY <3>2, <4>2, <4>3 DEF Codecs
    <3> QED BY <3>1, <3>2
  <2>3. /\ spans \in Seq(Spans) /\ out \in Seq(Nat) /\ at \in Nat /\ total \in Nat
        /\ verify \in BOOLEAN
    OBVIOUS
  <2>4. id \in Ids /\ step \in Phases
    BY <2>2 DEF Ids, Codecs, Sentinels, Phases
  <2> QED BY <2>2, <2>3, <2>4 DEF CellTypeOK
<1>2. PhaseInv
  <2>1. /\ id \in {"NONE", "XPRESS9"} /\ step \in {"compress", "stored"}
        /\ step = "compress" => id = "NONE" /\ data \in Plaintexts
    OBVIOUS
  <2>2. id \notin Sized
    BY <2>1 DEF Sized, Codecs
  <2>3. ReadingInit /\ damage = "none" /\ spans = << >>
    BY DEF ReadingInit
  <2> HIDE DEF Init
  <2> QED BY <2>1, <2>2, <2>3 DEF PhaseInv, SessionSteps, PlainSteps
<1>3. SizeInv
  <2>1. field.size = 0
    BY DEF NoField
  <2> QED BY <2>1 DEF SizeInv, SessionSteps
<1> QED BY <1>1, <1>2, <1>3 DEF CellInv

(***************************************************************************)
(* compress stores a cell of tokens, with a header in front for XPRESS9,   *)
(* or refuses.                                                             *)
(***************************************************************************)
LEMMA CompressFacts ==
  ASSUME CellInv, Compress, step' # "refused"
  PROVE  /\ step = "compress" /\ data \in Plaintexts /\ data # << >>
         /\ \E tokens \in Factored(data) :
              /\ tokens \in Seq(Tokens) /\ Spells(data, tokens, Reached(tokens))
              /\ payload' = Framed(data, tokens)
         /\ id' = fmt /\ fmt \in Codecs
         /\ field' = [size |-> Len(data), plain |-> data, packed |-> payload']
         /\ step' = "stored"
         /\ UNCHANGED <<readingVars, data, fmt, damage, sound, ends, want, verify>>
<1> USE DEF Compress
<1>1. data \in Plaintexts
  BY DEF CellInv, PhaseInv
<1>2. \A tokens \in Factored(data) :
        tokens \in Seq(Tokens) /\ Spells(data, tokens, Reached(tokens))
  BY <1>1, CellsAssumption
<1>3. ~(data = << >> \/ (fmt \in Sized /\ Len(data) > MaxUncompressed))
  BY DEF Go
<1>4. PICK tokens \in Factored(data) :
        IF ~Shrinks(Framed(data, tokens)) THEN Go("refused")
        ELSE /\ payload' = Framed(data, tokens)
             /\ id' = fmt
             /\ field' = [size |-> Len(data), plain |-> data, packed |-> payload']
             /\ step' = "stored"
             /\ UNCHANGED <<readingVars, data, fmt, damage, sound, ends, want, verify>>
  BY <1>3
<1>5. Shrinks(Framed(data, tokens))
  BY <1>4 DEF Go
<1> QED BY <1>1, <1>2, <1>3, <1>4, <1>5

LEMMA FramedType ==
  ASSUME NEW tokens \in Seq(Tokens), NEW text \in Seq(Nat)
  PROVE  /\ Framed(text, tokens) \in Seq(Headers \union Tokens)
         /\ fmt # "XPRESS9" => Framed(text, tokens) = tokens
<1> DEFINE h == Header(Len(text), Len(tokens), 1, 0, 0, {})
<1>1. h \in Headers
  BY DEF Header, Headers
<1>2. tokens \in Seq(Headers \union Tokens)
  OBVIOUS
<1> HIDE DEF h
<1>3. <<h>> \o tokens \in Seq(Headers \union Tokens)
  BY <1>1, <1>2
<1> QED BY <1>2, <1>3 DEF Framed, h

LEMMA CompressKeeps == CellInv /\ Compress => CellInv'
<1> SUFFICES ASSUME CellInv, Compress PROVE CellInv'
  OBVIOUS
<1>1. CASE step' = "refused"
  <2>1. Go("refused")
    BY <1>1 DEF Compress
  <2> USE <2>1 DEF CellInv, Go, readingVars, cellVars, Compress
  <2>2. CellTypeOK'
    BY DEF CellTypeOK, Phases
  <2>3. PhaseInv'
    BY DEF PhaseInv, SessionSteps, PlainSteps, ReadingInit, SpanOK
  <2>4. SizeInv'
    BY DEF SizeInv, SessionSteps, Verified
  <2> QED BY <2>2, <2>3, <2>4
<1>2. CASE step' # "refused"
  <2>1. PICK tokens \in Factored(data) : tokens \in Seq(Tokens) /\ payload' = Framed(data, tokens)
    BY <1>2, CompressFacts
  <2>2. /\ step = "compress" /\ data # << >>
        /\ id' = fmt /\ fmt \in Codecs /\ step' = "stored"
        /\ field' = [size |-> Len(data), plain |-> data, packed |-> payload']
        /\ UNCHANGED <<readingVars, data, fmt, damage, sound, ends, want, verify>>
    BY <1>2, CompressFacts
  <2>3. ReadingInit /\ ReadingInit' /\ data \in Seq(Nat)
    BY <2>2 DEF CellInv, CellTypeOK, PhaseInv, ReadingInit, readingVars
  <2>4. payload' \in Seq(Headers \union Tokens) /\ (fmt # "XPRESS9" => payload' = tokens)
    BY <2>1, <2>3, FramedType
  <2>5. field' \in Fields /\ field'.size > 0
    BY <2>2, <2>3, <2>4 DEF Fields
  <2>6. CellTypeOK'
    BY <2>2, <2>3, <2>4, <2>5 DEF CellInv, CellTypeOK, readingVars, Phases, Ids
  <2>7. PhaseInv'
    BY <2>1, <2>2, <2>3, <2>4, <2>5 DEF PhaseInv, SessionSteps, PlainSteps, Sized, ReadingInit
  <2>8. SizeInv'
    BY <2>2, <2>3, <2>5, <2>6 DEF CellTypeOK, SizeInv, SessionSteps, ReadingInit, Fields
  <2> QED BY <2>6, <2>7, <2>8 DEF CellInv
<1> QED BY <1>1, <1>2

LEMMA SentinelKeeps == CellInv /\ CompressSentinel => CellInv'
<1> SUFFICES ASSUME CellInv, CompressSentinel PROVE CellInv'
  OBVIOUS
<1> USE DEF CellInv, CompressSentinel, Go, readingVars, cellVars
<1>1. CellTypeOK'
  BY DEF CellTypeOK, Phases
<1>2. PhaseInv'
  BY DEF PhaseInv, SessionSteps, PlainSteps, ReadingInit, SpanOK
<1>3. SizeInv'
  BY DEF SizeInv, SessionSteps, Verified
<1> QED BY <1>1, <1>2, <1>3

(***************************************************************************)
(* Whatever befalls a cell, its payload still consists of headers and      *)
(* tokens, and of tokens alone where it did.                               *)
(***************************************************************************)
LEMMA RawTokens ==
  ASSUME NEW p \in Seq(Tokens), NEW k \in 1..Len(p)
  PROVE  p[k].kind = "token"
BY DEF Tokens

LEMMA ReplaceType ==
  ASSUME NEW S, NEW p \in Seq(S), NEW k \in 1..Len(p), NEW c \in S
  PROVE  [p EXCEPT ![k] = c] \in Seq(S) /\ Len([p EXCEPT ![k] = c]) = Len(p)
OBVIOUS

LEMMA FromType ==
  ASSUME CellTypeOK, NEW h \in Heads
  PROVE  /\ h \in 1..Len(payload) /\ payload[h].kind = "header"
         /\ From(h) \in Seq(Headers \union Tokens)
         /\ SubSeq(payload, 1, h - 1) \in Seq(Headers \union Tokens)
<1>1. h \in 1..Len(payload) /\ payload[h].kind = "header" /\ payload \in Seq(Headers \union Tokens)
  BY DEF CellTypeOK, Heads
<1> QED BY <1>1 DEF From

LEMMA DamageTypes ==
  ASSUME CellInv, Damage
  PROVE  /\ payload' \in Seq(Headers \union Tokens)
         /\ id \in Sized => payload' \in Seq(Tokens)
         /\ field' \in Fields
         /\ id' \in Ids /\ (id' # id => id' \notin Codecs)
         /\ step = "stored" /\ damage = "none" /\ damage' # "none"
         /\ UNCHANGED <<readingVars, step, data, fmt, sound, ends, want, verify>>
<1> USE DEF CellInv, Befalls
<1>0. /\ payload \in Seq(Headers \union Tokens) /\ field \in Fields /\ id \in Ids
      /\ CellTypeOK
  BY DEF CellTypeOK
<1>1. CASE Cut
  <2>1. PICK n \in 0..(Len(payload) - 1) : payload' = SubSeq(payload, 1, n)
    BY <1>1 DEF Cut
  <2>2. payload' \in Seq(Headers \union Tokens)
    BY <1>0, <2>1
  <2>3. payload \in Seq(Tokens) => payload' \in Seq(Tokens)
    BY <2>1
  <2> QED BY <1>0, <1>1, <2>2, <2>3 DEF Cut, PhaseInv
<1>2. CASE AlterToken
  <2>1. PICK k \in DOMAIN payload :
          /\ payload[k].kind = "token" /\ payload[k].back = 0
          /\ payload' = [payload EXCEPT ![k].value = @ + 1]
    BY <1>2 DEF AlterToken
  <2> DEFINE t == payload[k]
             c == [t EXCEPT !.value = @ + 1]
  <2>2. t \in Tokens
    BY <1>0, <2>1 DEF Headers
  <2>3. c \in Tokens
    BY <2>2 DEF Tokens
  <2>4. payload' = [payload EXCEPT ![k] = c]
    BY <2>1
  <2> HIDE DEF c
  <2>5. payload' \in Seq(Headers \union Tokens) /\ (payload \in Seq(Tokens) => payload' \in Seq(Tokens))
    BY <1>0, <2>1, <2>3, <2>4
  <2> QED BY <1>0, <1>2, <2>5 DEF AlterToken, PhaseInv
<1>3. CASE AlterSize
  <2>1. PICK m \in {field.size - 1, field.size + 1} : field' = [field EXCEPT !.size = m]
    BY <1>3 DEF AlterSize
  <2>2. m \in Nat
    BY <1>0, <1>3 DEF AlterSize, PhaseInv, Fields
  <2>3. field' \in Fields
    BY <1>0, <2>1, <2>2 DEF Fields
  <2> QED BY <1>0, <1>3, <2>3 DEF AlterSize, PhaseInv
<1>4. CASE AlterHeader
  <2>1. PICK k \in DOMAIN payload, f \in Faults :
          payload[k].kind = "header" /\ payload' = [payload EXCEPT ![k].faults = {f}]
    BY <1>4 DEF AlterHeader
  <2> DEFINE t == payload[k]
             c == [t EXCEPT !.faults = {f}]
  <2>2. t \in Headers
    BY <1>0, <2>1 DEF Tokens
  <2>3. c \in Headers
    BY <2>2 DEF Headers
  <2>4. payload' = [payload EXCEPT ![k] = c]
    BY <2>1
  <2>5. payload \notin Seq(Tokens)
    BY <2>1, RawTokens
  <2>6. k \in 1..Len(payload) /\ c \in Headers \union Tokens
    BY <1>0, <2>1, <2>3
  <2> HIDE DEF c, t
  <2>7. payload' \in Seq(Headers \union Tokens)
    <3> DEFINE S == Headers \union Tokens
    <3> HIDE DEF S
    <3>1. payload \in Seq(S) /\ c \in S
      BY <1>0, <2>6 DEF S
    <3>2. [payload EXCEPT ![k] = c] \in Seq(S)
      BY <2>6, <3>1, ReplaceType
    <3> QED BY <2>4, <3>2 DEF S
  <2> QED BY <1>0, <1>4, <2>5, <2>7 DEF AlterHeader, PhaseInv
<1>5. CASE Rearrange
  <2>1. PICK g \in Heads, h \in Heads :
          \/ g < h /\ payload' = SubSeq(payload, 1, g - 1) \o From(h)
          \/ g < h /\ payload' = From(h) \o SubSeq(payload, 1, h - 1)
          \/ payload' = payload \o From(h)
    BY <1>5 DEF Rearrange
  <2>2. /\ From(h) \in Seq(Headers \union Tokens)
        /\ SubSeq(payload, 1, g - 1) \in Seq(Headers \union Tokens)
        /\ SubSeq(payload, 1, h - 1) \in Seq(Headers \union Tokens)
        /\ h \in 1..Len(payload) /\ payload[h].kind = "header"
    BY <1>0, <2>1, FromType
  <2>3. payload' \in Seq(Headers \union Tokens)
    <3>1. CASE payload' = SubSeq(payload, 1, g - 1) \o From(h)
      BY <2>2, <3>1
    <3>2. CASE payload' = From(h) \o SubSeq(payload, 1, h - 1)
      BY <2>2, <3>2
    <3>3. CASE payload' = payload \o From(h)
      BY <1>0, <2>2, <3>3
    <3> QED BY <2>1, <3>1, <3>2, <3>3
  <2>4. payload \notin Seq(Tokens)
    BY <2>2, RawTokens
  <2> QED BY <1>0, <1>5, <2>3, <2>4 DEF Rearrange, PhaseInv
<1>6. CASE Splice
  <2>1. PICK s \in Sessions, h \in Heads : \E k \in DOMAIN s.payload :
          payload' = SubSeq(payload, 1, h - 1) \o SubSeq(s.payload, k, Len(s.payload))
    BY <1>6 DEF Splice
  <2>2. PICK k \in DOMAIN s.payload :
          payload' = SubSeq(payload, 1, h - 1) \o SubSeq(s.payload, k, Len(s.payload))
    BY <2>1
  <2>3. s.payload \in Seq(Headers \union Tokens)
    BY CellsAssumption, SessionAssumption
  <2>4. SubSeq(s.payload, k, Len(s.payload)) \in Seq(Headers \union Tokens)
    BY <2>2, <2>3
  <2>5. SubSeq(payload, 1, h - 1) \in Seq(Headers \union Tokens) /\ h \in 1..Len(payload) /\ payload[h].kind = "header"
    BY <1>0, FromType
  <2>6. payload \notin Seq(Tokens)
    BY <2>5, RawTokens
  <2>7. payload' \in Seq(Headers \union Tokens)
    BY <2>2, <2>4, <2>5
  <2>8. /\ step = "stored" /\ damage = "none" /\ damage' = "splice" /\ UNCHANGED <<id, field>>
        /\ UNCHANGED <<readingVars, step, data, fmt, sound, ends, want, verify>>
    BY <1>6 DEF Splice
  <2>9. id \notin Sized
    BY <2>6 DEF PhaseInv
  <2> QED BY <1>0, <2>7, <2>8, <2>9
<1>7. CASE Erase
  BY <1>0, <1>7 DEF Erase, Ids, Sentinels, Codecs
<1>8. CASE AlterId
  BY <1>0, <1>8 DEF AlterId, PhaseInv
<1> QED BY <1>1, <1>2, <1>3, <1>4, <1>5, <1>6, <1>7, <1>8 DEF Damage

LEMMA DamageKeeps == CellInv /\ Damage => CellInv'
<1> SUFFICES ASSUME CellInv, Damage PROVE CellInv'
  OBVIOUS
<1>1. /\ payload' \in Seq(Headers \union Tokens)
      /\ id \in Sized => payload' \in Seq(Tokens)
      /\ field' \in Fields
      /\ id' \in Ids /\ (id' # id => id' \notin Codecs)
      /\ step = "stored" /\ damage = "none" /\ damage' # "none"
      /\ UNCHANGED <<readingVars, step, data, fmt, sound, ends, want, verify>>
  BY DamageTypes
<1>2. ReadingInit /\ ReadingInit'
  BY <1>1 DEF CellInv, PhaseInv, ReadingInit, readingVars
<1>3. CellTypeOK'
  BY <1>1 DEF CellInv, CellTypeOK, readingVars
<1>4. PhaseInv'
  BY <1>1, <1>2 DEF CellInv, PhaseInv, SessionSteps, PlainSteps, Sized, ReadingInit
<1>5. SizeInv'
  BY <1>1, <1>2, <1>3 DEF SizeInv, SessionSteps, ReadingInit, CellTypeOK, Fields
<1> QED BY <1>3, <1>4, <1>5 DEF CellInv

----------------------------------------------------------------------------
(* Decoding keeps them *)

(***************************************************************************)
(* Dispatch goes to the decoder of the format asked for, or refuses what   *)
(* no decoder takes.                                                       *)
(***************************************************************************)
LEMMA DispatchFacts ==
  ASSUME Dispatch
  PROVE  /\ step = "stored" /\ UNCHANGED <<payload, readingVars, cellVars>>
         /\ step' \in {"scrub", "error", "packed", "walk", "plain"}
         /\ step' = "error" => ~IsCodecs
         /\ step' \in {"packed", "walk", "plain"} => IsCodecs
         /\ step' = "packed" => Asked = "XPRESS10"
         /\ step' = "walk" => Asked = "XPRESS9"
         /\ step' = "plain" => Asked \in {"XPRESS", "LZ4"}
<1>1. PICK s : Go(s) /\ s = (CASE Asked = "SCRUB" -> "scrub"
                               [] Asked # "SCRUB" /\ ~IsCodecs -> "error"
                               [] IsCodecs /\ Asked = "XPRESS10" -> "packed"
                               [] IsCodecs /\ Asked = "XPRESS9" -> "walk"
                               [] IsCodecs /\ Asked \in {"XPRESS", "LZ4"} -> "plain")
  BY DEF Dispatch
<1>2. IsCodecs => Asked \in Codecs
  BY DEF IsCodecs
<1>3. IsCodecs => Asked # "SCRUB"
  BY <1>2 DEF Codecs
<1> QED BY <1>1, <1>2, <1>3 DEF Dispatch, Go, Codecs

LEMMA DispatchKeeps == CellInv /\ Dispatch => CellInv'
<1> SUFFICES ASSUME CellInv, Dispatch PROVE CellInv'
  OBVIOUS
<1>1. /\ step = "stored" /\ UNCHANGED <<payload, readingVars, cellVars>>
      /\ step' \in {"scrub", "error", "packed", "walk", "plain"}
      /\ step' \in {"packed", "walk", "plain"} => IsCodecs
      /\ step' = "packed" => Asked = "XPRESS10"
      /\ step' = "walk" => Asked = "XPRESS9"
      /\ step' = "plain" => Asked \in {"XPRESS", "LZ4"}
  BY DispatchFacts
<1>2. step' \in {"packed", "walk", "plain"} => id = Asked /\ id \in Codecs
  BY <1>1 DEF IsCodecs
<1>3. Asked' = Asked
  BY <1>1 DEF Asked, cellVars
<1>4. ReadingInit /\ ReadingInit' /\ spans' = << >>
  BY <1>1 DEF CellInv, PhaseInv, ReadingInit, readingVars
<1>5. CellTypeOK'
  BY <1>1 DEF CellInv, CellTypeOK, readingVars, cellVars, Phases, SessionSteps, PlainSteps
<1>6. step' = "walk" => IndInv'
  <2> SUFFICES ASSUME step' = "walk" PROVE IndInv'
    OBVIOUS
  <2>1. payload' \in Seq(Headers \union Tokens)
    BY <1>5 DEF CellTypeOK
  <2> USE <1>4 DEF ReadingInit
  <2>2. SessionTypeOK'
    BY <2>1 DEF SessionTypeOK
  <2>3. WalkInv'
    BY DEF WalkInv
  <2>4. Sums([i \in 0..0 |-> 0])' /\ OutFollows([i \in 0..0 |-> 0])'
    BY DEF Sums, OutFollows
  <2>5. SizesInv'
    BY <2>4 DEF SizesInv
  <2> QED BY <2>2, <2>3, <2>5 DEF IndInv
<1>7. PhaseInv'
  <2>1. /\ step' \in {"packed", "scrub"} => ReadingInit'
        /\ step' \notin {"compress", "stored", "refused", "total", "block", "token", "decoded", "whole", "done"}
    BY <1>1, <1>4
  <2>2. /\ id' = id /\ payload' = payload
        /\ id \in Sized => payload \in Seq(Tokens)
    BY <1>1 DEF CellInv, PhaseInv, cellVars
  <2>3. /\ step' = "walk" => id' = "XPRESS9"
        /\ step' = "packed" => id' = "XPRESS10"
        /\ step' = "plain" => id' \in Sized
        /\ step' \in {"walk", "packed", "plain"} => Asked' = id' /\ id' \in Codecs
    BY <1>1, <1>2, <1>3, <2>2 DEF Sized
  <2> QED BY <1>4, <1>6, <2>1, <2>2, <2>3 DEF PhaseInv, SessionSteps, PlainSteps
<1>8. SizeInv'
  <2>1. Len(out') = 0 /\ total' = 0 /\ field'.size \in Nat
    BY <1>4, <1>5 DEF ReadingInit, CellTypeOK, Fields
  <2>2. step' \notin {"whole", "done"}
    BY <1>1
  <2> QED BY <2>1, <2>2 DEF SizeInv
<1> QED BY <1>5, <1>7, <1>8 DEF CellInv

LEMMA CheckPackedKeeps == CellInv /\ CheckPacked => CellInv'
<1> SUFFICES ASSUME CellInv, CheckPacked PROVE CellInv'
  OBVIOUS
<1>1. /\ step = "packed" /\ UNCHANGED <<payload, readingVars, cellVars>>
      /\ step' \in {"error", "plain"}
  BY DEF CheckPacked, Go
<1>2. id = "XPRESS10" /\ Asked = id /\ Asked' = Asked /\ id' = id
  BY <1>1 DEF CellInv, PhaseInv, Asked, cellVars
<1>3. CellTypeOK'
  BY <1>1 DEF CellInv, CellTypeOK, readingVars, cellVars, Phases, PlainSteps
<1>4. PhaseInv'
  BY <1>1, <1>2 DEF CellInv, PhaseInv, readingVars, cellVars, SessionSteps, PlainSteps, Sized, Codecs, SpanOK
<1>5. SizeInv'
  BY <1>1, <1>2 DEF CellInv, SizeInv, readingVars, cellVars, SessionSteps
<1> QED BY <1>3, <1>4, <1>5 DEF CellInv

(***************************************************************************)
(* A token decoded by plain LZ77 or an LZ4 block adds its length, or what  *)
(* there is room for.                                                      *)
(***************************************************************************)
LEMMA PlainTokenFacts ==
  ASSUME CellInv, PlainToken, step' # "error"
  PROVE  LET t == payload[at + 1]
         IN /\ step = "plain" /\ step' = step /\ at < Len(payload)
            /\ t \in Tokens /\ t.back <= Len(out)
            /\ Expanded(t) \in Seq(Nat) /\ Len(Expanded(t)) = Len(out) + t.len
            /\ Taken(t) \in 0..t.len /\ Taken(t) = IF t.len > Room THEN Room ELSE t.len
            /\ id = "XPRESS" => Taken(t) = t.len
            /\ Room \in Nat
            /\ out' = SubSeq(Expanded(t), 1, Len(out) + Taken(t))
            /\ out' \in Seq(Nat) /\ Len(out') = Len(out) + Taken(t)
            /\ at' = at + 1
            /\ UNCHANGED <<payload, spans, offset, total, block, target, cellVars>>
<1> DEFINE t == payload[at + 1]
<1>1. /\ step = "plain" /\ at < Len(payload) /\ at \in Nat
      /\ ~(t.back > Len(out) \/ (id = "XPRESS" /\ t.len > Room))
      /\ out' = SubSeq(Expanded(t), 1, Len(out) + Taken(t))
      /\ at' = at + 1
      /\ UNCHANGED <<payload, spans, offset, total, block, target, step, cellVars>>
  BY DEF PlainToken, Go, CellInv, CellTypeOK
<1>2. id \in Sized /\ payload \in Seq(Tokens) /\ out \in Seq(Nat) /\ id # "XPRESS9"
  BY <1>1 DEF CellInv, CellTypeOK, PhaseInv, PlainSteps, Sized
<1>3. t \in Tokens
  BY <1>1, <1>2
<1>4. t.back \in Nat /\ t.len \in Nat /\ (t.back = 0 => t.len = 1)
  BY <1>3 DEF Tokens
<1>5. Len(out) <= field.size /\ field.size \in Nat /\ Len(out) \in Nat
  BY <1>2 DEF CellInv, CellTypeOK, SizeInv, Fields
<1>6. Room \in Nat
  BY <1>5 DEF Room
<1> HIDE DEF t
<1>7. t.back <= Len(out)
  BY <1>1, <1>4, <1>5
<1>8. Expanded(t) \in Seq(Nat) /\ Len(Expanded(t)) = Len(out) + t.len
  BY <1>2, <1>3, <1>4, <1>7, ExpandedType
<1>9. Taken(t) \in 0..t.len /\ (id = "XPRESS" => Taken(t) = t.len)
  BY <1>1, <1>4, <1>6 DEF Taken
<1>10. out' \in Seq(Nat) /\ Len(out') = Len(out) + Taken(t)
  <2> DEFINE m == Len(out) + Taken(t)
  <2>1. m \in 0..Len(Expanded(t))
    BY <1>4, <1>5, <1>8, <1>9
  <2>2. out' = SubSeq(Expanded(t), 1, m)
    BY <1>1
  <2> HIDE DEF m
  <2>3. out' \in Seq(Nat) /\ Len(out') = m
    BY <1>8, <2>1, <2>2
  <2> QED BY <2>3 DEF m
<1> QED BY <1>1, <1>3, <1>6, <1>7, <1>8, <1>9, <1>10 DEF t, Taken

LEMMA PlainTokenKeeps == CellInv /\ PlainToken => CellInv'
<1> SUFFICES ASSUME CellInv, PlainToken PROVE CellInv'
  OBVIOUS
<1>0. step = "plain" /\ id \in Sized /\ id # "XPRESS9" /\ Asked = id /\ id \in Codecs
  BY DEF PlainToken, CellInv, PhaseInv, PlainSteps, Sized
<1>1. CASE step' = "error"
  <2>1. UNCHANGED <<payload, readingVars, cellVars>>
    BY <1>0, <1>1 DEF PlainToken, Go
  <2>2. CellTypeOK'
    BY <1>1, <2>1 DEF CellInv, CellTypeOK, readingVars, cellVars, Phases
  <2>3. PhaseInv'
    BY <1>0, <1>1, <2>1 DEF CellInv, PhaseInv, readingVars, cellVars, SessionSteps, PlainSteps, SpanOK
  <2>4. SizeInv'
    BY <1>0, <1>1, <2>1 DEF CellInv, SizeInv, readingVars, cellVars, SessionSteps
  <2> QED BY <2>2, <2>3, <2>4 DEF CellInv
<1>2. CASE step' # "error"
  <2> DEFINE t == payload[at + 1]
  <2>1. /\ step = "plain" /\ step' = step /\ at < Len(payload) /\ Room \in Nat /\ t \in Tokens
        /\ Taken(t) \in 0..t.len /\ Taken(t) = IF t.len > Room THEN Room ELSE t.len
        /\ out' \in Seq(Nat) /\ Len(out') = Len(out) + Taken(t)
        /\ at' = at + 1
        /\ UNCHANGED <<payload, spans, offset, total, block, target, cellVars>>
    BY <1>2, PlainTokenFacts
  <2> HIDE DEF t
  <2>2. CellTypeOK'
    BY <2>1 DEF CellInv, CellTypeOK, cellVars
  <2>3. PhaseInv'
    BY <1>0, <2>1 DEF CellInv, PhaseInv, cellVars, SessionSteps, PlainSteps, SpanOK, Asked
  <2>4. Len(out') <= field.size
    <3>1. t.len \in Nat /\ field.size \in Nat /\ Len(out) \in Nat
      BY <2>1 DEF Tokens, CellInv, CellTypeOK, Fields
    <3> QED BY <2>1, <3>1 DEF Room
  <2>5. SizeInv'
    BY <1>0, <2>1, <2>4 DEF SizeInv, cellVars
  <2> QED BY <2>2, <2>3, <2>5 DEF CellInv
<1> QED BY <1>1, <1>2

LEMMA PlainEndKeeps == CellInv /\ PlainEnd => CellInv'
<1> SUFFICES ASSUME CellInv, PlainEnd PROVE CellInv'
  OBVIOUS
<1>1. /\ step = "plain" /\ step' \in {"error", "whole"} /\ UNCHANGED <<payload, readingVars, cellVars>>
      /\ step' = "whole" => ~(id # "XPRESS" /\ Room > 0)
  BY DEF PlainEnd, Go
<1>2. id \in Sized /\ id # "XPRESS9" /\ Asked = id /\ id \in Codecs /\ Asked' = Asked /\ id' = id
  BY <1>1 DEF CellInv, PhaseInv, PlainSteps, Sized, Asked, cellVars
<1>3. CellTypeOK'
  BY <1>1 DEF CellInv, CellTypeOK, readingVars, cellVars, Phases, PlainSteps
<1>4. PhaseInv'
  BY <1>1, <1>2 DEF CellInv, PhaseInv, readingVars, cellVars, SessionSteps, PlainSteps, SpanOK
<1>5. Len(out) <= field.size /\ field.size \in Nat /\ Len(out) \in Nat
  BY <1>2 DEF CellInv, CellTypeOK, SizeInv, Fields
<1>6. SizeInv'
  BY <1>1, <1>2, <1>5 DEF SizeInv, readingVars, cellVars, SessionSteps, Room
<1> QED BY <1>3, <1>4, <1>6 DEF CellInv

LEMMA CheckPlainKeeps == CellInv /\ CheckPlain => CellInv'
<1> SUFFICES ASSUME CellInv, CheckPlain PROVE CellInv'
  OBVIOUS
<1>1. /\ step \in {"decoded", "whole"} /\ step' \in {"error", "done"}
      /\ UNCHANGED <<payload, readingVars, cellVars>>
      /\ step' = "done" /\ verify => Verified
  BY DEF CheckPlain, Go
<1>2. Asked = id /\ id \in Codecs /\ Asked' = Asked /\ id' = id /\ Verified' = Verified
  BY <1>1 DEF CellInv, PhaseInv, PlainSteps, SessionSteps, Asked, cellVars, readingVars, Verified
<1>3. CellTypeOK'
  BY <1>1 DEF CellInv, CellTypeOK, readingVars, cellVars, Phases
<1>4. PhaseInv'
  BY <1>1, <1>2 DEF CellInv, PhaseInv, readingVars, cellVars, SessionSteps, PlainSteps, SpanOK
<1>5. step = "decoded" => Len(out) = total
  BY BelowTotal DEF CellInv, PhaseInv, SessionSteps
<1>6. step = "decoded" => id = "XPRESS9"
  BY DEF CellInv, PhaseInv, SessionSteps
<1>7. step = "whole" => id # "XPRESS9"
  BY DEF CellInv, PhaseInv, PlainSteps, Sized
<1>8. total \in Nat /\ Len(out) \in Nat
  BY DEF CellInv, CellTypeOK
<1>9. SizeInv'
  BY <1>1, <1>2, <1>5, <1>6, <1>7, <1>8 DEF CellInv, SizeInv, readingVars, cellVars
<1> QED BY <1>3, <1>4, <1>9 DEF CellInv

LEMMA SessionKeeps == CellInv /\ SessionNext /\ UNCHANGED cellVars => CellInv'
<1> SUFFICES ASSUME CellInv, SessionNext, UNCHANGED cellVars PROVE CellInv'
  OBVIOUS
<1>1. /\ step \in SessionSteps /\ step' \in SessionSteps \union {"error"}
      /\ payload' = payload
      /\ step' = "error" => UNCHANGED readingVars
  BY DEF SessionNext, WalkBlock, WalkEnd, CheckTotal, StartBlock, DecodeToken, EndBlock, EndBlocks,
         Refuse, SessionSteps
<1>2. IndInv /\ id = "XPRESS9" /\ Asked = id /\ id \in Codecs /\ Asked' = Asked /\ id' = id
  BY <1>1 DEF CellInv, PhaseInv, Asked, cellVars
<1>3. IndInv'
  BY <1>2, SessionStepKeeps
<1>4. /\ spans' \in Seq(Spans) /\ out' \in Seq(Nat) /\ at' \in Nat /\ total' \in Nat
      /\ \A i \in 1..Len(spans') : SpanOK(i)'
  BY <1>3 DEF IndInv, SessionTypeOK, WalkInv
<1>5. CellTypeOK'
  BY <1>1, <1>4 DEF CellInv, CellTypeOK, cellVars, Phases
<1>6. PhaseInv'
  BY <1>1, <1>2, <1>3, <1>4 DEF PhaseInv, SessionSteps, PlainSteps, Sized
<1>7. SizeInv'
  <2>1. step' = "error" => Len(out') <= total'
    BY <1>1, <1>2, BelowTotal DEF readingVars
  <2> QED BY <1>1, <1>2, <2>1 DEF SizeInv, SessionSteps
<1> QED BY <1>5, <1>6, <1>7 DEF CellInv

LEMMA CellStep == CellInv /\ [Next]_vars => CellInv'
<1> SUFFICES ASSUME CellInv, [Next]_vars PROVE CellInv'
  OBVIOUS
<1>1. CASE UNCHANGED vars
  <2> USE <1>1 DEF CellInv, vars, sessionVars, readingVars, cellVars
  <2>1. CellTypeOK'
    BY DEF CellTypeOK
  <2>2. IndInv => IndInv'
    BY SessionStepKeeps
  <2>3. PhaseInv'
    BY <2>2 DEF PhaseInv, ReadingInit, SpanOK, Asked
  <2>4. SizeInv'
    BY DEF SizeInv, Verified
  <2> QED BY <2>1, <2>3, <2>4
<1>2. CASE Next
  BY <1>1, <1>2, CompressKeeps, SentinelKeeps, DamageKeeps, DispatchKeeps, CheckPackedKeeps, PlainTokenKeeps,
     PlainEndKeeps, CheckPlainKeeps, SessionKeeps DEF Next, CompressCell, DecompressCell, Returned
<1> QED BY <1>1, <1>2

(***************************************************************************)
(* decompressed_size, which decodes nothing, bounds what decompress        *)
(* produces of any cell, damaged or not, and is the length of what it      *)
(* returns.                                                                *)
(***************************************************************************)
THEOREM DeclaredSizeHolds == Spec => []SizesAgree
<1>1. CellInv => SizesAgree
  <2> SUFFICES ASSUME CellInv PROVE SizesAgree
    OBVIOUS
  <2>1. id = "XPRESS9" /\ step \in SessionSteps => Len(out) <= total
    BY BelowTotal DEF CellInv, PhaseInv
  <2>2. Len(out) <= DecompressedSize
    BY <2>1 DEF CellInv, SizeInv, DecompressedSize
  <2>3. step = "done" /\ (id = "XPRESS" => verify) => Len(out) = DecompressedSize
    BY DEF CellInv, PhaseInv, SizeInv, DecompressedSize, Codecs, Verified
  <2> QED BY <2>2, <2>3 DEF SizesAgree
<1> QED BY <1>1, CellInit, CellStep, PTL DEF Spec

----------------------------------------------------------------------------
(* What a payload spells out *)

(***************************************************************************)
(* What holds at a place and passes from each place to the next holds from *)
(* there on.                                                               *)
(***************************************************************************)
LEMMA Climb ==
  ASSUME NEW i \in Nat, NEW j \in Nat, NEW S, i \in S,
         \A k \in i..(j - 1) : k \in S => k + 1 \in S
  PROVE  \A k \in i..j : k \in S
<1> DEFINE bad == {k \in i..j : k \notin S}
<1> SUFFICES ASSUME bad # {} PROVE FALSE
  OBVIOUS
<1>1. bad \in SUBSET Nat
  OBVIOUS
<1>2. PICK k \in bad : \A l \in bad : k <= l
  <2> HIDE DEF bad
  <2> QED BY <1>1, LeastNatural
<1>3. k \in i..j /\ k # i /\ k \notin S
  BY <1>2
<1>4. k - 1 \in i..(j - 1) /\ k - 1 \in i..j /\ k - 1 < k /\ (k - 1) + 1 = k
  BY <1>3
<1>5. k - 1 \in S
  BY <1>2, <1>4
<1> QED BY <1>3, <1>4, <1>5

\* The places of a payload count what stands before them.
Counts(p, upto) == \A k \in 1..Len(p) : upto[k - 1] \in Nat /\ upto[k] \in Nat /\ upto[k - 1] <= upto[k]

LEMMA CountsRise ==
  ASSUME NEW p, NEW upto, Len(p) \in Nat, Counts(p, upto),
         NEW i \in 0..Len(p), NEW j \in i..Len(p), upto[i] \in Nat
  PROVE  upto[j] \in Nat /\ upto[i] <= upto[j]
<1> DEFINE S == {k \in i..j : upto[k] \in Nat /\ upto[i] <= upto[k]}
<1>1. i \in S
  OBVIOUS
<1>2. ASSUME NEW k \in i..(j - 1), k \in S PROVE k + 1 \in S
  <2>1. k + 1 \in 1..Len(p) /\ (k + 1) - 1 = k /\ k + 1 \in i..j
    OBVIOUS
  <2>2. upto[k] \in Nat /\ upto[k + 1] \in Nat /\ upto[k] <= upto[k + 1]
    BY <2>1 DEF Counts
  <2>3. upto[i] <= upto[k]
    BY <1>2
  <2> QED BY <2>1, <2>2, <2>3
<1>3. i \in Nat /\ j \in Nat /\ j \in i..j
  OBVIOUS
<1> HIDE DEF S
<1>4. j \in S
  BY <1>1, <1>2, <1>3, Climb
<1> QED BY <1>4 DEF S

\* The token t is true of d behind its first n elements.
TrueAt(d, n, t) ==
  /\ t.len > 0 /\ n + t.len <= Len(d)
  /\ t.back = 0 => t.value = d[n + 1]
  /\ t.back # 0 => t.back <= n /\ RepeatsAfter(d, n, t.back, t.len)

(***************************************************************************)
(* A true token, decoded, extends the plaintext so far (_copy_match with   *)
(* overlap, or a literal).                                                 *)
(***************************************************************************)
LEMMA TokenExtends ==
  ASSUME NEW d \in Seq(Nat), NEW n \in 0..Len(d), NEW t \in Tokens, TrueAt(d, n, t),
         out = SubSeq(d, 1, n)
  PROVE  Expanded(t) = SubSeq(d, 1, n + t.len)
<1>1. t.back \in Nat /\ t.len \in Nat /\ t.value \in Nat /\ (t.back = 0 => t.len = 1)
  BY DEF Tokens
<1>2. t.len > 0 /\ n + t.len <= Len(d) /\ n \in Nat
  BY DEF TrueAt
<1>3. Len(out) = n /\ out \in Seq(Nat) /\ \A i \in 1..n : out[i] = d[i]
  BY <1>2
<1>4. CASE t.back = 0
  <2>1. Expanded(t) = Append(SubSeq(d, 1, n), d[n + 1]) /\ t.len = 1
    BY <1>1, <1>4 DEF Expanded, TrueAt
  <2> DEFINE F == Expanded(t)
  <2>2. SubSeq(d, 1, n) \in Seq(Nat) /\ Len(SubSeq(d, 1, n)) = n /\ d[n + 1] \in Nat
    BY <1>2, <2>1
  <2>3. F \in Seq(Nat) /\ Len(F) = n + 1 /\ F[n + 1] = d[n + 1] /\ \A i \in 1..n : F[i] = d[i]
    BY <1>2, <2>1, <2>2
  <2> HIDE DEF F
  <2> QED BY <1>2, <2>1, <2>3
<1>5. CASE t.back # 0
  <2> DEFINE k == t.back
             F == CopyMatch(out, k, t.len)
  <2>1. k \in Nat \ {0} /\ k <= n /\ RepeatsAfter(d, n, k, t.len)
    BY <1>1, <1>5 DEF TrueAt
  <2>2. Expanded(t) = F
    BY <1>5 DEF Expanded
  <2>3. CyclesAfter(d, n, k, t.len)
    BY <1>1, <1>2, <2>1, OverlapIsCyclic
  <2>4. F \in Seq(Nat) /\ Len(F) = n + t.len
    <3>1. k \in 1..Len(out)
      BY <1>3, <2>1
    <3> HIDE DEF k
    <3> QED BY <1>1, <1>3, <3>1, CopyMatchType
  <2>5. ASSUME NEW i \in 1..(n + t.len) PROVE F[i] = d[i]
    <3> HIDE DEF k
    <3>1. F[i] = IF i <= n THEN out[i] ELSE out[n - k + 1 + ((i - n - 1) % k)]
      BY <1>3 DEF CopyMatch
    <3> HIDE DEF F
    <3>2. CASE i <= n
      BY <1>3, <3>1, <3>2
    <3>3. CASE i > n
      <4> DEFINE l == i - n
                 back == n - k + 1 + ((l - 1) % k)
      <4>1. l \in 1..t.len /\ n + l = i /\ l - 1 \in Nat
        BY <1>1, <1>2, <3>3
      <4>2. d[n + l] = d[back]
        BY <2>3, <4>1 DEF CyclesAfter
      <4>3. k \in 1..n
        BY <2>1
      <4>5. F[i] = out[back]
        <5>1. l - 1 = i - n - 1 /\ ~(i <= n)
          BY <1>2, <3>3
        <5>2. F[i] = out[n - k + 1 + ((i - n - 1) % k)]
          BY <3>1, <5>1
        <5> HIDE DEF l
        <5> QED BY <5>1, <5>2
      <4> HIDE DEF l
      <4>4. back \in 1..n
        BY <1>2, <4>1, <4>3, CycleInside
      <4> HIDE DEF back
      <4> QED BY <1>3, <4>1, <4>2, <4>4, <4>5
    <3> QED BY <1>2, <3>2, <3>3
  <2> HIDE DEF F
  <2> QED BY SMTT(30), <1>1, <1>2, <2>2, <2>4, <2>5
<1> QED BY <1>4, <1>5

Cells == Headers \union Tokens

LEMMA CellKinds ==
  ASSUME NEW c \in Cells
  PROVE  /\ c.kind = "token" => c \in Tokens
         /\ c.kind = "header" => c \in Headers
         /\ c.kind # "token" => c.kind = "header"
BY DEF Cells, Headers, Tokens

(***************************************************************************)
(* The tokens of a payload that spells a plaintext are true where they     *)
(* stand, and the places rise.                                             *)
(***************************************************************************)
LEMMA SpelledTokens ==
  ASSUME NEW d \in Seq(Nat), NEW p \in Seq(Cells), NEW upto, Spells(d, p, upto)
  PROVE  /\ Counts(p, upto)
         /\ \A k \in 0..Len(p) : upto[k] \in 0..Len(d)
         /\ \A k \in 1..Len(p) :
              p[k].kind = "token" => /\ p[k] \in Tokens /\ TrueAt(d, upto[k - 1], p[k])
                                     /\ upto[k] = upto[k - 1] + p[k].len
<1>1. \A k \in 0..Len(p) : upto[k] \in 0..Len(d)
  BY DEF Spells
<1>2. ASSUME NEW k \in 1..Len(p)
      PROVE  /\ upto[k - 1] \in Nat /\ upto[k] \in Nat /\ upto[k - 1] <= upto[k]
             /\ p[k].kind = "token" => /\ p[k] \in Tokens /\ TrueAt(d, upto[k - 1], p[k])
                                       /\ upto[k] = upto[k - 1] + p[k].len
  <2>1. p[k] \in Cells /\ k - 1 \in 0..Len(p) /\ k \in 0..Len(p) /\ Len(d) \in Nat
    OBVIOUS
  <2>2. upto[k - 1] \in 0..Len(d) /\ upto[k] \in 0..Len(d)
    BY <1>1, <2>1
  <2>3. CASE p[k].kind # "token"
    <3>1. upto[k] = upto[k - 1]
      BY <2>3 DEF Spells
    <3> QED BY <2>2, <2>3, <3>1
  <2>4. CASE p[k].kind = "token"
    <3> DEFINE t == p[k]
               n == upto[k - 1]
    <3>1. t \in Tokens
      BY <2>1, <2>4, CellKinds
    <3>2. /\ t.len > 0 /\ upto[k] = n + t.len
          /\ t.back = 0 => t.value = d[upto[k]]
          /\ t.back # 0 => t.back <= n /\ \A i \in 1..t.len : d[n + i] = d[n + i - t.back]
      BY <2>4 DEF Spells
    <3>3. t.len \in Nat /\ (t.back = 0 => t.len = 1)
      BY <3>1 DEF Tokens
    <3> HIDE DEF t, n
    <3>4. n \in Nat /\ n + t.len <= Len(d) /\ n <= upto[k]
      BY <2>2, <3>2, <3>3 DEF n
    <3>5. TrueAt(d, n, t)
      BY <3>2, <3>3, <3>4 DEF TrueAt, RepeatsAfter
    <3> QED BY <2>2, <3>1, <3>2, <3>4, <3>5 DEF t, n
  <2> QED BY <2>3, <2>4
<1> QED BY <1>1, <1>2 DEF Counts

\* Between blocks, or at the end.
Boundary(p, b) == b \in 0..Len(p) /\ (b < Len(p) => p[b + 1].kind = "header")

\* A payload whose blocks spell out the plaintext.
Whole(p, upto, nth) ==
  /\ p \in Seq(Cells) /\ data \in Seq(Nat)
  /\ Spells(data, p, upto) /\ InBlocks(p, upto, nth, ends)

(***************************************************************************)
(* From a boundary on, a whole payload has a block with the next number    *)
(* and what it says it holds, and then a boundary again.                   *)
(***************************************************************************)
LEMMA NextBlock ==
  ASSUME NEW p, NEW upto, NEW nth, Whole(p, upto, nth),
         NEW b, Boundary(p, b), b < Len(p)
  PROVE  LET h == p[b + 1]
             last == b + 1 + h.cells
         IN /\ h \in Headers /\ h.faults = {} /\ h.index = nth[b]
            /\ h.signature = p[1].signature /\ h.params = p[1].params
            /\ h.cells \in Nat \ {0} /\ last \in Nat /\ last <= Len(p)
            /\ Boundary(p, last)
            /\ \A k \in (b + 2)..last : p[k].kind = "token"
            /\ nth[last] = nth[b] + 1 /\ nth[b] \in Nat
            /\ upto[b + 1] = upto[b] /\ upto[last] = upto[b] + h.size
            /\ upto[last] \in ends
<1> DEFINE h == p[b + 1]
           last == b + 1 + h.cells
<1>1. b \in Nat /\ b + 1 \in 1..Len(p) /\ Len(p) \in Nat /\ (b + 1) - 1 = b /\ h.kind = "header"
  BY DEF Boundary, Whole
<1>2. h \in Headers
  <2>1. h \in Cells
    BY <1>1 DEF Whole
  <2> QED BY <1>1, <2>1, CellKinds
<1>3. HeaderTrue(p, upto, nth, ends, b + 1)
  BY <1>1 DEF Whole, InBlocks
<1>4. h.cells \in Nat /\ h.size \in Nat
  BY <1>2, HeaderFields
<1> HIDE DEF h
<1>5. /\ h.faults = {} /\ h.index = nth[b]
      /\ h.signature = p[1].signature /\ h.params = p[1].params
      /\ h.cells > 0 /\ last <= Len(p)
      /\ \A k \in (b + 2)..last : p[k].kind = "token"
      /\ last < Len(p) => p[last + 1].kind = "header"
      /\ h.size = upto[last] - upto[b + 1] /\ upto[last] \in ends
  <2>1. (b + 1) + 1 = b + 2
    BY <1>1
  <2> QED BY <1>1, <1>3, <2>1 DEF HeaderTrue, h
<1>6. last \in Nat /\ b + 1 <= last /\ Boundary(p, last)
  <2>1. last \in Nat /\ b + 1 <= last /\ last \in 0..Len(p)
    BY <1>1, <1>4, <1>5
  <2> HIDE DEF last
  <2> QED BY <1>5, <2>1 DEF Boundary
<1>7. upto[b] \in Nat /\ upto[b + 1] = upto[b] /\ upto[last] \in Nat
  <2>1. b \in 0..Len(p) /\ last \in 0..Len(p)
    BY <1>1, <1>5, <1>6
  <2>2. upto[b] \in 0..Len(data) /\ upto[last] \in 0..Len(data)
    BY <2>1, SpelledTokens DEF Whole
  <2>3. p[b + 1].kind # "token"
    BY <1>1 DEF h
  <2>4. upto[b + 1] = upto[(b + 1) - 1]
    BY <1>1, <2>3 DEF Whole, Spells
  <2> QED BY <1>1, <2>2, <2>4
<1>8. nth[last] = nth[b] + 1 /\ nth[b] \in Nat
  <2> DEFINE S == {k \in (b + 1)..last : nth[k] = nth[b] + 1}
  <2>1. nth[b] \in Nat
    <3>1. nth \in [0..Len(p) -> Nat]
      BY DEF Whole, InBlocks
    <3> QED BY <1>1, <3>1
  <2>2. \A k \in 1..Len(p) : nth[k] = nth[k - 1] + (IF p[k].kind = "header" THEN 1 ELSE 0)
    BY DEF Whole, InBlocks
  <2>3. b + 1 \in S
    <3>1. nth[b + 1] = nth[(b + 1) - 1] + 1
      BY <1>1, <2>2 DEF h
    <3> HIDE DEF last
    <3> QED BY <1>1, <1>6, <3>1
  <2>4. ASSUME NEW k \in (b + 1)..(last - 1), k \in S PROVE k + 1 \in S
    <3> HIDE DEF last
    <3>1. k + 1 \in (b + 2)..last /\ k + 1 \in (b + 1)..last /\ k + 1 \in 1..Len(p) /\ (k + 1) - 1 = k
      BY <1>1, <1>5, <1>6
    <3>2. nth[k + 1] = nth[(k + 1) - 1] + 0
      BY <1>5, <2>2, <3>1
    <3>3. nth[k] = nth[b] + 1
      BY <2>4
    <3> QED BY <2>1, <3>1, <3>2, <3>3
  <2>5. b + 1 \in Nat /\ last \in (b + 1)..last
    BY <1>1, <1>6
  <2> HIDE DEF S, last
  <2>6. last \in S
    BY <1>6, <2>3, <2>4, <2>5, Climb
  <2> QED BY <2>1, <2>6 DEF S
<1> HIDE DEF last
<1>9. upto[last] = upto[b] + h.size
  BY <1>4, <1>5, <1>7
<1> QED BY <1>2, <1>4, <1>5, <1>6, <1>7, <1>8, <1>9 DEF h, last

(***************************************************************************)
(* No block reaches over a boundary.                                       *)
(***************************************************************************)
LEMMA BlockEndsBefore ==
  ASSUME NEW p, NEW upto, NEW nth, Whole(p, upto, nth),
         NEW b, Boundary(p, b), NEW m, Boundary(p, m), b < m
  PROVE  b + 1 + p[b + 1].cells <= m
<1> DEFINE last == b + 1 + p[b + 1].cells
<1>1. b \in Nat /\ m \in Nat /\ m <= Len(p) /\ b < Len(p) /\ Len(p) \in Nat
  BY DEF Boundary, Whole
<1>2. last \in Nat /\ last <= Len(p) /\ \A k \in (b + 2)..last : p[k].kind = "token"
  BY <1>1, NextBlock
<1> HIDE DEF last
<1> SUFFICES ASSUME last > m PROVE FALSE
  BY <1>1, <1>2 DEF last
<1>3. m + 1 \in (b + 2)..last /\ m < Len(p)
  BY <1>1, <1>2
<1>4. p[m + 1].kind = "token" /\ p[m + 1].kind = "header"
  BY <1>2, <1>3 DEF Boundary
<1> QED BY <1>4

(***************************************************************************)
(* The numbers of the blocks grow from header to header.                   *)
(***************************************************************************)
LEMMA NumbersGrow ==
  ASSUME NEW p, NEW upto, NEW nth, Whole(p, upto, nth),
         NEW b, Boundary(p, b), NEW m, Boundary(p, m), b < m
  PROVE  nth[b] \in Nat /\ nth[m] \in Nat /\ nth[b] < nth[m]
<1> DEFINE last == b + 1 + p[b + 1].cells
<1>1. b \in Nat /\ m \in 0..Len(p) /\ b < Len(p) /\ Len(p) \in Nat
  BY DEF Boundary, Whole
<1>2. nth[b] \in Nat /\ nth[last] = nth[b] + 1 /\ last \in Nat /\ last <= m
  BY <1>1, NextBlock, BlockEndsBefore
<1>3. Counts(p, nth)
  BY SMTT(30) DEF Whole, InBlocks, Counts
<1> HIDE DEF last
<1>4. last \in 0..Len(p) /\ m \in last..Len(p) /\ nth[last] \in Nat
  BY <1>1, <1>2
<1>5. nth[m] \in Nat /\ nth[last] <= nth[m]
  BY <1>1, <1>3, <1>4, CountsRise
<1> QED BY <1>2, <1>5

----------------------------------------------------------------------------
(* The formats with a size field.  The tokens p the encoder wrote, and the *)
(* places upto in the plaintext they lead to, are carried along: what the  *)
(* payload has in common with them is decoded to the plaintext.            *)

PlainCell(p, upto) ==
  /\ p \in Seq(Tokens) /\ Spells(data, p, upto)
  /\ field.packed = p /\ field.plain = data
  /\ damage \in {"none", "cut", "token", "size"}
  /\ damage = "size" => field.size # Len(data)
  /\ damage # "size" => field.size = Len(data)
  /\ damage \in {"none", "size"} => payload = p
  /\ damage = "cut" => Len(payload) < Len(p) /\ payload = SubSeq(p, 1, Len(payload))

\* The decoder reads true tokens and takes them whole.
Faithful == damage \in {"none", "cut"} \/ (damage = "size" /\ id = "XPRESS")

PlainRead(upto) ==
  /\ step \in {"plain", "whole", "done"} /\ Faithful =>
       at <= Len(payload) /\ out = SubSeq(data, 1, upto[at])
  /\ step \in {"whole", "done"} /\ id = "XPRESS" => at = Len(payload)
  /\ damage = "none" /\ step = "error" => Asked # id

PlainFollows == id \in Sized => \E p, upto : PlainCell(p, upto) /\ PlainRead(upto)

LEMMA PlainCompress == CellInv /\ Compress => PlainFollows'
<1> SUFFICES ASSUME CellInv, Compress, id' \in Sized PROVE PlainFollows'
  BY DEF PlainFollows
<1>0. id = "NONE" /\ damage = "none"
  BY DEF Compress, CellInv, PhaseInv
<1>1. step' # "refused"
  BY <1>0 DEF Compress, Go, cellVars, Sized, Codecs
<1>2. PICK tokens \in Factored(data) :
        tokens \in Seq(Tokens) /\ Spells(data, tokens, Reached(tokens)) /\ payload' = Framed(data, tokens)
  BY <1>1, CompressFacts
<1>3. /\ id' = fmt /\ step' = "stored" /\ data' = data /\ damage' = damage
      /\ field' = [size |-> Len(data), plain |-> data, packed |-> payload']
  BY <1>1, CompressFacts
<1>4. payload' = tokens
  <2>1. data \in Seq(Nat) /\ fmt # "XPRESS9"
    BY <1>3 DEF CellInv, CellTypeOK, Sized
  <2> QED BY <1>2, <2>1, FramedType
<1> DEFINE upto == Reached(tokens)
<1> HIDE DEF upto
<1>5. PlainCell(tokens, upto)'
  BY <1>0, <1>2, <1>3, <1>4 DEF PlainCell, upto
<1>6. PlainRead(upto)'
  BY <1>3 DEF PlainRead
<1> QED BY <1>5, <1>6 DEF PlainFollows

LEMMA PlainDamage == CellInv /\ PlainFollows /\ Damage => PlainFollows'
<1> SUFFICES ASSUME CellInv, PlainFollows, Damage, id' \in Sized PROVE PlainFollows'
  BY DEF PlainFollows
<1>1. /\ step = "stored" /\ damage = "none" /\ id' = id /\ payload \in Seq(Tokens)
      /\ UNCHANGED <<readingVars, step, data, fmt, sound, ends, want, verify>>
  BY DamageTypes DEF CellInv, PhaseInv, Sized
<1>2. PICK p, upto : PlainCell(p, upto) /\ PlainRead(upto)
  BY <1>1 DEF PlainFollows
<1>3. payload = p /\ p \in Seq(Tokens) /\ field.size = Len(data)
  BY <1>1, <1>2 DEF PlainCell
<1>4. PlainRead(upto)'
  BY <1>1 DEF PlainRead
<1>5. PlainCell(p, upto)'
  <2>1. CASE Cut
    <3>1. PICK n \in 0..(Len(payload) - 1) : payload' = SubSeq(payload, 1, n)
      BY <2>1 DEF Cut
    <3>2. Len(payload') = n /\ n < Len(p) /\ payload' = SubSeq(p, 1, n)
      BY <1>3, <3>1
    <3> QED BY <1>1, <1>2, <1>3, <2>1, <3>2 DEF PlainCell, Cut, Befalls
  <2>2. CASE AlterToken
    BY <1>1, <1>2, <1>3, <2>2 DEF PlainCell, AlterToken, Befalls
  <2>3. CASE AlterSize
    <3>1. PICK m \in {field.size - 1, field.size + 1} : field' = [field EXCEPT !.size = m]
      BY <2>3 DEF AlterSize
    <3>2. field \in Fields /\ Len(data) \in Nat
      BY DEF CellInv, CellTypeOK
    <3>3. field'.size # Len(data) /\ field'.plain = field.plain /\ field'.packed = field.packed
      BY <1>3, <3>1, <3>2 DEF Fields
    <3> QED BY <1>1, <1>2, <1>3, <2>3, <3>3 DEF PlainCell, AlterSize, Befalls
  <2>4. CASE AlterHeader
    BY <1>3, <2>4, RawTokens DEF AlterHeader
  <2>5. CASE Rearrange
    BY <1>3, <2>5, RawTokens DEF Rearrange, Heads
  <2>6. CASE Splice
    <3>1. PICK h \in Heads : TRUE
      BY <2>6 DEF Splice
    <3> QED BY <1>3, <3>1, RawTokens DEF Heads
  <2>7. CASE Erase
    BY <2>7 DEF Erase, Sized, Codecs
  <2>8. CASE AlterId
    BY <2>8 DEF AlterId, Sized
  <2> QED BY <2>1, <2>2, <2>3, <2>4, <2>5, <2>6, <2>7, <2>8 DEF Damage
<1> QED BY <1>4, <1>5 DEF PlainFollows

(***************************************************************************)
(* The cell stays what it is while it is read.                             *)
(***************************************************************************)
LEMMA PlainCellStays ==
  ASSUME NEW p, NEW upto, PlainCell(p, upto), UNCHANGED <<payload, cellVars>>
  PROVE  PlainCell(p, upto)' /\ Faithful' = Faithful /\ Asked' = Asked /\ id' = id
BY DEF PlainCell, cellVars, Faithful, Asked

LEMMA PlainDispatch == CellInv /\ PlainFollows /\ Dispatch => PlainFollows'
<1> SUFFICES ASSUME CellInv, PlainFollows, Dispatch, id' \in Sized PROVE PlainFollows'
  BY DEF PlainFollows
<1>1. /\ step = "stored" /\ UNCHANGED <<payload, readingVars, cellVars>> /\ id' = id
      /\ step' \in {"scrub", "error", "packed", "walk", "plain"}
      /\ step' = "error" => ~IsCodecs
  BY DispatchFacts DEF cellVars
<1>2. PICK p, upto : PlainCell(p, upto) /\ PlainRead(upto)
  BY <1>1 DEF PlainFollows
<1>3. PlainCell(p, upto)' /\ Asked' = Asked /\ payload' = payload /\ data' = data
  BY <1>1, <1>2, PlainCellStays DEF cellVars
<1>4. at' = 0 /\ out' = << >>
  BY <1>1 DEF CellInv, PhaseInv, ReadingInit, readingVars
<1>5. step' = "error" => Asked' # id'
  BY <1>1, <1>3 DEF IsCodecs, Sized
<1>6. at' <= Len(payload') /\ out' = SubSeq(data', 1, upto[at'])
  <2>1. upto[0] = 0 /\ Len(payload) \in Nat /\ data \in Seq(Nat)
    BY <1>2 DEF PlainCell, Spells, CellInv, CellTypeOK
  <2>2. SubSeq(data, 1, 0) = << >>
    BY <2>1
  <2> QED BY <1>3, <1>4, <2>1, <2>2
<1>7. PlainRead(upto)'
  BY <1>1, <1>5, <1>6 DEF PlainRead
<1> QED BY <1>3, <1>7 DEF PlainFollows

LEMMA PlainCheckPacked == CellInv /\ PlainFollows /\ CheckPacked => PlainFollows'
<1> SUFFICES ASSUME CellInv, PlainFollows, CheckPacked, id' \in Sized PROVE PlainFollows'
  BY DEF PlainFollows
<1>1. /\ step = "packed" /\ UNCHANGED <<payload, readingVars, cellVars>> /\ id' = id
      /\ step' \in {"error", "plain"}
      /\ step' = "error" => field.packed # payload
  BY DEF CheckPacked, Go, cellVars
<1>2. PICK p, upto : PlainCell(p, upto) /\ PlainRead(upto)
  BY <1>1 DEF PlainFollows
<1>3. PlainCell(p, upto)' /\ Asked' = Asked /\ payload' = payload /\ data' = data /\ damage' = damage
  BY <1>1, <1>2, PlainCellStays DEF cellVars
<1>4. at' = 0 /\ out' = << >>
  BY <1>1 DEF CellInv, PhaseInv, ReadingInit, readingVars
<1>5. damage' = "none" => step' # "error"
  BY <1>1, <1>2, <1>3 DEF PlainCell
<1>6. at' <= Len(payload') /\ out' = SubSeq(data', 1, upto[at'])
  <2>1. upto[0] = 0 /\ Len(payload) \in Nat /\ data \in Seq(Nat)
    BY <1>2 DEF PlainCell, Spells, CellInv, CellTypeOK
  <2>2. SubSeq(data, 1, 0) = << >>
    BY <2>1
  <2> QED BY <1>3, <1>4, <2>1, <2>2
<1>7. PlainRead(upto)'
  BY <1>1, <1>5, <1>6 DEF PlainRead
<1> QED BY <1>3, <1>7 DEF PlainFollows

(***************************************************************************)
(* The next token of a faithful payload is true of the plaintext where it  *)
(* is decoded.                                                             *)
(***************************************************************************)
LEMMA PlainTokenTrue ==
  ASSUME CellInv, NEW p, NEW upto, PlainCell(p, upto), PlainRead(upto), Faithful,
         step = "plain", at < Len(payload)
  PROVE  LET t == payload[at + 1]
             n == upto[at]
         IN /\ n \in 0..Len(data) /\ out = SubSeq(data, 1, n) /\ Len(out) = n
            /\ t \in Tokens /\ TrueAt(data, n, t) /\ t.len \in Nat
            /\ upto[at + 1] = n + t.len /\ n + t.len <= Len(data)
            /\ t.back <= Len(out)
            /\ at + 1 <= Len(payload)
<1> DEFINE t == payload[at + 1]
           n == upto[at]
<1>1. /\ data \in Seq(Nat) /\ at \in Nat /\ p \in Seq(Tokens) /\ p \in Seq(Cells)
      /\ Spells(data, p, upto) /\ payload \in Seq(Headers \union Tokens)
  BY DEF CellInv, CellTypeOK, PlainCell, Cells
<1>2. t = p[at + 1] /\ at + 1 \in 1..Len(p) /\ at \in 0..Len(p) /\ (at + 1) - 1 = at
  <2>1. CASE damage \in {"none", "size"}
    BY <1>1, <2>1 DEF PlainCell
  <2>2. CASE damage = "cut"
    <3>1. Len(payload) < Len(p) /\ payload = SubSeq(p, 1, Len(payload)) /\ Len(payload) \in Nat
      BY <1>1, <2>2 DEF PlainCell
    <3> QED BY <1>1, <3>1
  <2> QED BY <2>1, <2>2 DEF Faithful
<1>3. n \in 0..Len(data)
  BY <1>1, <1>2, SpelledTokens
<1>4. out = SubSeq(data, 1, n) /\ Len(out) = n
  <2>1. out = SubSeq(data, 1, n)
    BY DEF PlainRead
  <2> HIDE DEF n
  <2> QED BY <1>1, <1>3, <2>1
<1>5. p[at + 1].kind = "token"
  BY <1>1, <1>2, RawTokens
<1>6. t \in Tokens /\ TrueAt(data, n, t) /\ upto[at + 1] = n + t.len
  BY <1>1, <1>2, <1>5, SpelledTokens
<1> HIDE DEF t, n
<1>7. t.back \in Nat /\ t.len \in Nat
  BY <1>6, TokenFields
<1>8. t.back <= n /\ n + t.len <= Len(data)
  BY <1>3, <1>6, <1>7 DEF TrueAt
<1>9. at + 1 <= Len(payload)
  BY <1>1
<1> QED BY <1>3, <1>4, <1>6, <1>7, <1>8, <1>9 DEF t, n

LEMMA PlainTokenFollows == CellInv /\ PlainFollows /\ PlainToken => PlainFollows'
<1> SUFFICES ASSUME CellInv, PlainFollows, PlainToken PROVE PlainFollows'
  OBVIOUS
<1>1. step = "plain" /\ at < Len(payload) /\ id \in Sized
  BY DEF PlainToken, CellInv, PhaseInv, PlainSteps
<1>2. PICK p, upto : PlainCell(p, upto) /\ PlainRead(upto)
  BY <1>1 DEF PlainFollows
<1> DEFINE t == payload[at + 1]
           n == upto[at]
<1>3. Faithful => /\ n \in 0..Len(data) /\ out = SubSeq(data, 1, n) /\ Len(out) = n
                  /\ t \in Tokens /\ TrueAt(data, n, t) /\ t.len \in Nat
                  /\ upto[at + 1] = n + t.len /\ n + t.len <= Len(data)
                  /\ t.back <= Len(out)
                  /\ at + 1 <= Len(payload)
  BY <1>1, <1>2, PlainTokenTrue
<1>4. damage # "size" => field.size = Len(data)
  BY <1>2 DEF PlainCell
<1>5. data \in Seq(Nat) /\ Len(data) \in Nat /\ field.size \in Nat
  BY DEF CellInv, CellTypeOK, Fields
<1>6. CASE step' = "error"
  <2>1. /\ UNCHANGED <<payload, readingVars, cellVars>>
        /\ t.back > Len(out) \/ (id = "XPRESS" /\ t.len > Room)
    BY <1>1, <1>6 DEF PlainToken, Go
  <2>2. PlainCell(p, upto)'
    BY <1>2, <2>1, PlainCellStays
  <2>3. damage # "none"
    <3> SUFFICES ASSUME damage = "none" PROVE FALSE
      OBVIOUS
    <3>1. Faithful
      BY DEF Faithful
    <3>2. t.back \in Nat
      BY <1>3, <3>1, TokenFields
    <3> HIDE DEF t, n
    <3> QED BY <1>3, <1>4, <1>5, <2>1, <3>1, <3>2 DEF Room
  <2>4. PlainRead(upto)'
    BY <1>6, <2>1, <2>3 DEF PlainRead, cellVars
  <2> QED BY <2>2, <2>4 DEF PlainFollows
<1>7. CASE step' # "error"
  <2>1. /\ step' = step
        /\ Taken(t) = IF t.len > Room THEN Room ELSE t.len
        /\ id = "XPRESS" => Taken(t) = t.len
        /\ out' = SubSeq(Expanded(t), 1, Len(out) + Taken(t))
        /\ at' = at + 1
        /\ UNCHANGED <<payload, spans, offset, total, block, target, cellVars>>
    BY <1>7, PlainTokenFacts
  <2>2. PlainCell(p, upto)' /\ Faithful' = Faithful /\ payload' = payload /\ data' = data
    BY <1>2, <2>1, PlainCellStays DEF cellVars
  <2>3. ASSUME Faithful
        PROVE  at' <= Len(payload') /\ out' = SubSeq(data', 1, upto[at'])
    <3>1. Expanded(t) = SubSeq(data, 1, n + t.len)
      BY <1>3, <1>5, <2>3, TokenExtends
    <3>2. Taken(t) = t.len
      <4>1. CASE id = "XPRESS"
        BY <2>1, <4>1
      <4>2. CASE id # "XPRESS"
        <5>1. field.size = Len(data)
          BY <1>4, <2>3, <4>2 DEF Faithful
        <5> HIDE DEF t, n
        <5> QED BY <1>3, <1>5, <2>1, <2>3, <5>1 DEF Room
      <4> QED BY <4>1, <4>2
    <3> DEFINE last == n + t.len
    <3>3. last \in 0..Len(data) /\ Len(out) + Taken(t) = last /\ upto[at + 1] = last
      BY <1>3, <1>5, <2>3, <3>2
    <3>4. out' = SubSeq(SubSeq(data, 1, last), 1, last)
      BY <2>1, <3>1, <3>3
    <3> HIDE DEF last
    <3>5. out' = SubSeq(data, 1, last)
      BY <1>5, <3>3, <3>4
    <3> QED BY <1>3, <2>1, <2>2, <2>3, <3>3, <3>5
  <2>4. PlainRead(upto)'
    BY <1>1, <2>1, <2>2, <2>3 DEF PlainRead
  <2> QED BY <2>2, <2>4 DEF PlainFollows
<1> QED BY <1>6, <1>7

(***************************************************************************)
(* Where a faithful payload has been read to its end, the output is the    *)
(* plaintext, unless tokens were cut off; then it is shorter.              *)
(***************************************************************************)
LEMMA PlainEndsAt ==
  ASSUME CellInv, NEW p, NEW upto, PlainCell(p, upto), PlainRead(upto), Faithful,
         step \in {"plain", "whole", "done"}
  PROVE  /\ at = Len(payload) /\ damage # "cut" => out = data
         /\ Len(out) = Len(data) => out = data
         /\ damage = "cut" => Len(out) < Len(data) /\ Prefix(Len(out))
<1> DEFINE n == upto[at]
<1>1. /\ data \in Seq(Nat) /\ Len(data) \in Nat /\ at \in Nat /\ p \in Seq(Tokens) /\ p \in Seq(Cells)
      /\ Spells(data, p, upto) /\ payload \in Seq(Headers \union Tokens)
      /\ at <= Len(payload) /\ out = SubSeq(data, 1, n)
  BY DEF CellInv, CellTypeOK, PlainCell, PlainRead, Cells
<1>2. /\ at \in 0..Len(p)
      /\ damage # "cut" => payload = p
      /\ damage = "cut" => at + 1 \in 1..Len(p)
  <2>1. CASE damage \in {"none", "size"}
    BY <1>1, <2>1 DEF PlainCell
  <2>2. CASE damage = "cut"
    <3>1. Len(payload) < Len(p) /\ Len(payload) \in Nat
      BY <1>1, <2>2 DEF PlainCell
    <3> QED BY <1>1, <2>2, <3>1
  <2> QED BY <2>1, <2>2 DEF Faithful
<1>3. n \in 0..Len(data)
  BY <1>1, <1>2, SpelledTokens
<1>4. at = Len(p) => n = Len(data)
  BY <1>1 DEF Spells
<1>5. damage = "cut" => n < Len(data)
  <2> SUFFICES ASSUME damage = "cut" PROVE n < Len(data)
    OBVIOUS
  <2>1. at + 1 \in 1..Len(p) /\ (at + 1) - 1 = at
    BY <1>1, <1>2
  <2>2. p[at + 1].kind = "token"
    BY <1>1, <2>1, RawTokens
  <2>3. TrueAt(data, n, p[at + 1]) /\ p[at + 1] \in Tokens
    BY <1>1, <2>1, <2>2, SpelledTokens
  <2>4. p[at + 1].len \in Nat
    BY <2>3, TokenFields
  <2> HIDE DEF n
  <2> QED BY <1>1, <1>3, <2>3, <2>4 DEF TrueAt
<1> HIDE DEF n
<1>6. Len(out) = n /\ (n = Len(data) => out = data)
  BY <1>1, <1>3
<1>7. Prefix(Len(out))
  BY <1>1, <1>6 DEF Prefix
<1> QED BY <1>2, <1>4, <1>5, <1>6, <1>7

LEMMA PlainEndFollows == CellInv /\ PlainFollows /\ PlainEnd => PlainFollows'
<1> SUFFICES ASSUME CellInv, PlainFollows, PlainEnd PROVE PlainFollows'
  OBVIOUS
<1>1. /\ step = "plain" /\ step' \in {"error", "whole"} /\ UNCHANGED <<payload, readingVars, cellVars>>
      /\ at = Len(payload) \/ (id # "XPRESS" /\ Room = 0)
      /\ step' = "error" => id # "XPRESS" /\ Room > 0
  BY DEF PlainEnd, Go
<1>2. PICK p, upto : PlainCell(p, upto) /\ PlainRead(upto)
  BY <1>1 DEF PlainFollows, CellInv, PhaseInv, PlainSteps
<1>3. PlainCell(p, upto)' /\ Faithful' = Faithful /\ id' = id
  BY <1>1, <1>2, PlainCellStays
<1>4. step' = "error" => damage # "none"
  <2> SUFFICES ASSUME step' = "error", damage = "none" PROVE FALSE
    OBVIOUS
  <2>1. at = Len(payload) /\ Room > 0 /\ field.size = Len(data) /\ Faithful
    BY <1>1, <1>2 DEF PlainCell, Faithful
  <2>2. out = data
    BY <1>1, <1>2, <2>1, PlainEndsAt
  <2>3. Len(data) \in Nat
    BY DEF CellInv, CellTypeOK
  <2> QED BY <2>1, <2>2, <2>3 DEF Room
<1>5. PlainRead(upto)'
  BY <1>1, <1>2, <1>3, <1>4 DEF PlainRead, readingVars, cellVars
<1> QED BY <1>3, <1>5 DEF PlainFollows

LEMMA CheckPlainFollows == CellInv /\ PlainFollows /\ CheckPlain => PlainFollows'
<1> SUFFICES ASSUME CellInv, PlainFollows, CheckPlain, id' \in Sized PROVE PlainFollows'
  BY DEF PlainFollows
<1>1. /\ step \in {"decoded", "whole"} /\ step' \in {"error", "done"}
      /\ UNCHANGED <<payload, readingVars, cellVars>>
      /\ step' = "error" => ~Verified
  BY DEF CheckPlain, Go
<1>2. id \in Sized /\ step = "whole" /\ id # "XPRESS9"
  BY <1>1 DEF CellInv, PhaseInv, SessionSteps, Sized, cellVars
<1>3. PICK p, upto : PlainCell(p, upto) /\ PlainRead(upto)
  BY <1>2 DEF PlainFollows
<1>4. PlainCell(p, upto)' /\ Faithful' = Faithful /\ id' = id
  BY <1>1, <1>3, PlainCellStays
<1>5. step' = "error" => damage # "none"
  <2> SUFFICES ASSUME step' = "error", damage = "none" PROVE FALSE
    OBVIOUS
  <2>1. field.size = Len(data) /\ field.plain = data /\ Faithful
    BY <1>3 DEF PlainCell, Faithful
  <2>2. out = data
    <3>1. CASE id = "XPRESS"
      <4>1. at = Len(payload)
        BY <1>2, <1>3, <3>1 DEF PlainRead
      <4> QED BY <1>2, <1>3, <2>1, <4>1, PlainEndsAt
    <3>2. CASE id # "XPRESS"
      <4>1. Len(out) = Len(data)
        BY <1>2, <2>1, <3>2 DEF CellInv, SizeInv, Sized, Codecs
      <4> QED BY <1>2, <1>3, <2>1, <4>1, PlainEndsAt
    <3> QED BY <3>1, <3>2
  <2>3. Verified
    BY <2>1, <2>2 DEF Verified
  <2> QED BY <1>1, <2>3
<1>6. PlainRead(upto)'
  BY <1>1, <1>2, <1>3, <1>4, <1>5 DEF PlainRead, readingVars, cellVars
<1> QED BY <1>4, <1>6 DEF PlainFollows

LEMMA PlainStays ==
  CellInv /\ PlainFollows /\ (CompressSentinel \/ (SessionNext /\ UNCHANGED cellVars) \/ UNCHANGED vars)
    => PlainFollows'
<1> SUFFICES ASSUME CellInv, PlainFollows, id' \in Sized,
                    CompressSentinel \/ (SessionNext /\ UNCHANGED cellVars) \/ UNCHANGED vars
             PROVE  PlainFollows'
  BY DEF PlainFollows
<1>1. CASE CompressSentinel
  BY <1>1 DEF CompressSentinel, Go, cellVars, CellInv, PhaseInv, Sized, Codecs
<1>2. CASE SessionNext /\ UNCHANGED cellVars
  <2>1. step \in SessionSteps
    BY <1>2 DEF SessionNext, WalkBlock, WalkEnd, CheckTotal, StartBlock, DecodeToken, EndBlock, EndBlocks,
                SessionSteps
  <2> QED BY <1>2, <2>1 DEF CellInv, PhaseInv, cellVars, Sized
<1>3. CASE UNCHANGED vars
  <2>1. PICK p, upto : PlainCell(p, upto) /\ PlainRead(upto)
    BY <1>3 DEF PlainFollows, vars, cellVars
  <2>2. PlainCell(p, upto)' /\ Faithful' = Faithful /\ id' = id /\ Asked' = Asked
    BY <1>3, <2>1, PlainCellStays DEF vars, sessionVars
  <2>3. PlainRead(upto)'
    BY <1>3, <2>1, <2>2 DEF PlainRead, vars, sessionVars, readingVars, cellVars
  <2> QED BY <2>2, <2>3 DEF PlainFollows
<1> QED BY <1>1, <1>2, <1>3

----------------------------------------------------------------------------
(* XPRESS9 cells.  The blocks p the encoder wrote are carried along, with  *)
(* the boundary m up to which the payload still agrees with them.  Behind  *)
(* it the payload ends, or goes on with a header that does not fit.        *)

Misfit(p, nth, m, c) ==
  \/ c.faults # {} \/ c.index # nth[m]
  \/ m > 0 /\ c.signature # p[1].signature
  \/ m + 1 + c.cells > Len(payload)

SessionCell(p, upto, nth, m) ==
  /\ Whole(p, upto, nth)
  /\ Boundary(p, m) /\ m <= Len(payload) /\ \A k \in 1..m : payload[k] = p[k]
  /\ m < Len(payload) => Misfit(p, nth, m, payload[m + 1])
  /\ damage = "none" => payload = p /\ m = Len(p)
  /\ damage = "header" => m < Len(payload)

\* The blocks accepted are blocks of p.
SpansOf(p) ==
  \A i \in 1..Len(spans) :
    LET s == spans[i]
    IN /\ s.header = p[s.from] /\ s.to = s.from + s.header.cells
       /\ Boundary(p, s.from - 1) /\ s.to <= offset

EndOf(i) == IF i = 0 THEN 0 ELSE spans[i].to

Walked(p, upto, nth, m) ==
  /\ Boundary(p, offset) /\ offset <= m
  /\ Len(spans) = nth[offset] /\ total = upto[offset] /\ SpansOf(p)

SessionRead(p, upto, nth, m) ==
  /\ step \in SessionSteps \union {"done"} => Walked(p, upto, nth, m)
  /\ step \in {"total", "block", "token", "decoded", "done"} =>
       offset = m /\ offset = Len(payload) /\ spans # << >> /\ offset = EndOf(Len(spans))
  /\ step = "block" => out = SubSeq(data, 1, upto[EndOf(block)])
  /\ step = "token" => LET s == spans[block + 1]
                       IN /\ s.from <= at /\ at <= s.to /\ target = upto[s.to]
                          /\ out = SubSeq(data, 1, upto[at])
  /\ step \in {"decoded", "done"} => out = SubSeq(data, 1, upto[offset]) /\ upto[offset] \in ends
  /\ damage = "none" /\ step = "error" => Asked # id \/ Len(data) > MaxDecoded

SessionFollows ==
  sound /\ id = "XPRESS9" /\ damage # "token" =>
    \E p, upto, nth, m : SessionCell(p, upto, nth, m) /\ SessionRead(p, upto, nth, m)

LEMMA SessionCellStays ==
  ASSUME NEW p, NEW upto, NEW nth, NEW m, SessionCell(p, upto, nth, m), UNCHANGED <<payload, cellVars>>
  PROVE  SessionCell(p, upto, nth, m)'
BY DEF SessionCell, Whole, Misfit, cellVars

(***************************************************************************)
(* A whole payload is its own ghost.                                       *)
(***************************************************************************)
LEMMA WholeCell ==
  ASSUME NEW p, NEW upto, NEW nth, Whole(p, upto, nth), payload = p, damage # "header"
  PROVE  SessionCell(p, upto, nth, Len(p))
<1>1. Len(p) \in Nat
  BY DEF Whole
<1>2. Boundary(p, Len(p))
  BY <1>1 DEF Boundary
<1> QED BY <1>1, <1>2 DEF SessionCell

LEMMA SessionInitially == Init => SessionFollows
<1> SUFFICES ASSUME Init, sound, id = "XPRESS9" PROVE SessionFollows
  BY DEF SessionFollows
<1>1. PICK s \in Sessions : data = s.data /\ payload = s.payload /\ sound = s.sound /\ ends = s.ends /\ step = "stored"
  BY DEF Init
<1> DEFINE upto == Reached(s.payload)
           nth == Begun(s.payload)
<1>2. Spells(data, payload, upto) /\ InBlocks(payload, upto, nth, ends)
  BY <1>1, CellsAssumption
<1>3. payload \in Seq(Cells) /\ data \in Seq(Nat)
  BY <1>1, CellsAssumption, SessionAssumption DEF Cells
<1>4. damage = "none"
  BY DEF Init
<1> HIDE DEF upto, nth
<1>5. SessionCell(payload, upto, nth, Len(payload))
  BY <1>2, <1>3, <1>4, WholeCell DEF Whole
<1>6. SessionRead(payload, upto, nth, Len(payload))
  BY <1>1 DEF SessionRead, SessionSteps
<1> QED BY <1>5, <1>6 DEF SessionFollows

(***************************************************************************)
(* The tokens of a plaintext behind one header are a whole payload.        *)
(***************************************************************************)
LEMMA FramedWhole ==
  ASSUME NEW tokens \in Seq(Tokens), NEW d \in Seq(Nat), d # << >>, NEW upto, Spells(d, tokens, upto)
  PROVE  LET p == <<Header(Len(d), Len(tokens), 1, 0, 0, {})>> \o tokens
             further == [k \in 0..Len(p) |-> IF k = 0 THEN 0 ELSE upto[k - 1]]
             one == [k \in 0..Len(p) |-> IF k = 0 THEN 0 ELSE 1]
         IN p \in Seq(Cells) /\ Spells(d, p, further) /\ InBlocks(p, further, one, {Len(d)})
<1> DEFINE h == Header(Len(d), Len(tokens), 1, 0, 0, {})
           p == <<h>> \o tokens
           further == [k \in 0..Len(p) |-> IF k = 0 THEN 0 ELSE upto[k - 1]]
           one == [k \in 0..Len(p) |-> IF k = 0 THEN 0 ELSE 1]
           N == Len(tokens)
<1>1. /\ h \in Headers /\ h.kind = "header" /\ h.faults = {} /\ h.index = 0 /\ h.cells = N
      /\ h.size = Len(d)
  BY DEF Header, Headers
<1> HIDE DEF h
<1>2. /\ p \in Seq(Cells) /\ Len(p) = N + 1 /\ p[1] = h /\ N \in Nat
      /\ \A k \in 2..(N + 1) : p[k] = tokens[k - 1] /\ p[k].kind = "token"
  <2>1. tokens \in Seq(Cells) /\ <<h>> \in Seq(Cells) /\ N \in Nat
    BY <1>1 DEF Cells
  <2>2. p \in Seq(Cells) /\ Len(p) = N + 1 /\ p[1] = h
    BY <2>1
  <2>3. ASSUME NEW k \in 2..(N + 1) PROVE p[k] = tokens[k - 1] /\ p[k].kind = "token"
    <3>1. k - 1 \in 1..N
      BY <2>1
    <3>2. p[k] = tokens[k - 1]
      BY <2>1, <3>1
    <3>3. tokens[k - 1].kind = "token"
      BY <3>1, RawTokens
    <3> QED BY <3>2, <3>3
  <2> QED BY <2>1, <2>2, <2>3
<1> HIDE DEF p
<1>3. /\ Len(d) \in Nat /\ Len(d) > 0
      /\ upto \in [0..N -> 0..Len(d)] /\ upto[0] = 0 /\ upto[N] = Len(d)
  BY DEF Spells
<1>4. /\ further \in [0..(N + 1) -> 0..Len(d)] /\ further[0] = 0 /\ further[1] = 0
      /\ further[N + 1] = Len(d)
      /\ \A k \in 1..(N + 1) : further[k] = upto[k - 1]
  <2>1. ASSUME NEW k \in 0..(N + 1) PROVE (IF k = 0 THEN 0 ELSE upto[k - 1]) \in 0..Len(d)
    <3>1. CASE k = 0
      BY <1>3, <3>1
    <3>2. CASE k # 0
      <4>1. k - 1 \in 0..N
        BY <1>2, <3>2
      <4> QED BY <1>3, <3>2, <4>1
    <3> QED BY <3>1, <3>2
  <2>2. further \in [0..(N + 1) -> 0..Len(d)]
    BY <1>2, <2>1
  <2>3. \A k \in 1..(N + 1) : further[k] = upto[k - 1]
    BY <1>2
  <2>4. further[0] = 0
    BY <1>2
  <2> HIDE DEF further
  <2>5. 1 \in 1..(N + 1) /\ N + 1 \in 1..(N + 1) /\ 1 - 1 = 0 /\ (N + 1) - 1 = N
    BY <1>2
  <2> QED BY <1>3, <2>2, <2>3, <2>4, <2>5
<1>5. one \in [0..(N + 1) -> Nat] /\ one[0] = 0 /\ \A k \in 1..(N + 1) : one[k] = 1
  BY <1>2
<1> HIDE DEF further, one
<1>6. N > 0
  BY <1>2, <1>3
<1>7. Spells(d, p, further)
  <2>1. ASSUME NEW k \in 1..(N + 1)
        PROVE  IF p[k].kind # "token" THEN further[k] = further[k - 1]
               ELSE /\ p[k].len > 0 /\ further[k] = further[k - 1] + p[k].len
                    /\ IF p[k].back = 0 THEN p[k].value = d[further[k]]
                       ELSE /\ p[k].back <= further[k - 1]
                            /\ \A i \in 1..p[k].len :
                                 d[further[k - 1] + i] = d[further[k - 1] + i - p[k].back]
    <3>1. CASE k = 1
      <4>1. further[k] = further[k - 1] /\ p[k].kind # "token"
        BY <1>1, <1>2, <1>4, <3>1
      <4> QED BY <4>1
    <3>2. CASE k # 1
      <4>1. k - 1 \in 1..N /\ k \in 2..(N + 1) /\ k - 1 \in 1..(N + 1)
        BY <1>2, <3>2
      <4>2. /\ p[k] = tokens[k - 1] /\ p[k].kind = "token"
            /\ further[k] = upto[k - 1] /\ further[k - 1] = upto[(k - 1) - 1]
        BY <1>2, <1>4, <4>1
      <4> DEFINE j == k - 1
      <4>3. j \in 1..N /\ p[k] = tokens[j] /\ further[k] = upto[j] /\ further[k - 1] = upto[j - 1]
        BY <4>1, <4>2
      <4> HIDE DEF j
      <4>4. IF tokens[j].kind # "token" THEN upto[j] = upto[j - 1]
            ELSE /\ tokens[j].len > 0 /\ upto[j] = upto[j - 1] + tokens[j].len
                 /\ IF tokens[j].back = 0 THEN tokens[j].value = d[upto[j]]
                    ELSE /\ tokens[j].back <= upto[j - 1]
                         /\ \A i \in 1..tokens[j].len :
                              d[upto[j - 1] + i] = d[upto[j - 1] + i - tokens[j].back]
        BY <4>3 DEF Spells
      <4> QED BY <4>2, <4>3, <4>4
    <3> QED BY <3>1, <3>2
  <2> QED BY <1>2, <1>4, <2>1 DEF Spells
<1>8. InBlocks(p, further, one, {Len(d)})
  <2>1. \A k \in 1..(N + 1) : one[k] = one[k - 1] + (IF p[k].kind = "header" THEN 1 ELSE 0)
    <3> TAKE k \in 1..(N + 1)
    <3>1. CASE k = 1
      BY <1>1, <1>2, <1>5, <3>1
    <3>2. CASE k # 1
      <4>1. k \in 2..(N + 1) /\ k - 1 \in 1..(N + 1)
        BY <1>2, <3>2
      <4>2. p[k].kind = "token" /\ one[k] = 1 /\ one[k - 1] = 1
        BY <1>2, <1>5, <4>1
      <4> QED BY <4>2
    <3> QED BY <3>1, <3>2
  <2>2. ASSUME NEW g \in 1..(N + 1), p[g].kind = "header"
        PROVE  HeaderTrue(p, further, one, {Len(d)}, g)
    <3>1. g = 1
      BY <1>2, <2>2
    <3>2. g + p[g].cells = N + 1 /\ p[g] = p[1] /\ 1 - 1 = 0 /\ g - 1 = 0
      BY <1>1, <1>2, <3>1
    <3>3. p[g].size = further[N + 1] - further[g]
      BY <1>1, <1>2, <1>3, <1>4, <3>1
    <3>4. \A k \in (g + 1)..(N + 1) : p[k].kind = "token"
      BY <1>2, <3>1
    <3>5. /\ p[g].faults = {} /\ p[g].index = one[g - 1]
          /\ p[g].cells > 0 /\ N + 1 <= Len(p) /\ ~(N + 1 < Len(p))
          /\ further[N + 1] \in {Len(d)}
      BY <1>1, <1>2, <1>4, <1>5, <1>6, <3>2
    <3> QED BY <3>2, <3>3, <3>4, <3>5 DEF HeaderTrue
  <2>3. p # << >> /\ p[1].kind = "header"
    BY <1>1, <1>2
  <2> QED BY <1>2, <1>5, <2>1, <2>2, <2>3 DEF InBlocks
<1> QED BY <1>2, <1>7, <1>8 DEF p, further, one, h

LEMMA SessionCompress == CellInv /\ ends = {Len(data)} /\ Compress => SessionFollows'
<1> SUFFICES ASSUME CellInv, ends = {Len(data)}, Compress, id' = "XPRESS9" PROVE SessionFollows'
  BY DEF SessionFollows
<1>0. id = "NONE" /\ damage = "none"
  BY DEF Compress, CellInv, PhaseInv
<1>1. step' # "refused"
  BY <1>0 DEF Compress, Go, cellVars
<1>2. PICK tokens \in Factored(data) :
        tokens \in Seq(Tokens) /\ Spells(data, tokens, Reached(tokens)) /\ payload' = Framed(data, tokens)
  BY <1>1, CompressFacts
<1>3. /\ fmt = "XPRESS9" /\ step' = "stored" /\ data' = data /\ damage' = "none" /\ ends' = {Len(data)}
      /\ data # << >> /\ data \in Seq(Nat)
  BY <1>0, <1>1, CompressFacts DEF CellInv, CellTypeOK
<1>4. PICK p, further, one :
        /\ p \in Seq(Cells) /\ Spells(data, p, further) /\ InBlocks(p, further, one, {Len(data)})
        /\ payload' = p
  <2> DEFINE q == <<Header(Len(data), Len(tokens), 1, 0, 0, {})>> \o tokens
  <2>1. payload' = q
    BY <1>2, <1>3 DEF Framed
  <2> QED BY <1>2, <1>3, <2>1, FramedWhole
<1>6. Whole(p, further, one)'
  BY <1>3, <1>4 DEF Whole
<1>7. Boundary(p, Len(p)) /\ Len(p) \in Nat
  BY <1>4 DEF Boundary
<1>8. SessionCell(p, further, one, Len(p))'
  BY <1>3, <1>4, <1>6, <1>7 DEF SessionCell
<1>9. SessionRead(p, further, one, Len(p))'
  BY <1>3 DEF SessionRead, SessionSteps
<1> QED BY <1>8, <1>9 DEF SessionFollows

(***************************************************************************)
(* Wherever a payload is cut, there is a last boundary, and the block      *)
(* begun behind it is not complete.                                        *)
(***************************************************************************)
LEMMA LastBoundary ==
  ASSUME NEW p, NEW upto, NEW nth, Whole(p, upto, nth), NEW n \in 0..Len(p)
  PROVE  \E b \in 0..n : Boundary(p, b) /\ (b < n => b + 1 + p[b + 1].cells > n)
<1> DEFINE S == {n - b : b \in {c \in 0..n : Boundary(p, c)}}
<1>1. Len(p) \in Nat /\ p # << >> /\ p[1].kind = "header" /\ n \in Nat
  BY DEF Whole, InBlocks
<1>2. Boundary(p, 0)
  BY <1>1 DEF Boundary
<1>3. S \in SUBSET Nat
  BY <1>1
<1>4. n - 0 \in S
  BY <1>1, <1>2
<1>5. PICK s \in S : \A k \in S : s <= k
  <2> HIDE DEF S
  <2> QED BY <1>3, <1>4, LeastNatural
<1>6. PICK b \in 0..n : Boundary(p, b) /\ s = n - b
  BY <1>5
<1>7. ASSUME b < n PROVE b + 1 + p[b + 1].cells > n
  <2> DEFINE last == b + 1 + p[b + 1].cells
  <2>1. b < Len(p)
    BY <1>1, <1>7
  <2>2. Boundary(p, last) /\ last \in Nat /\ last > b
    <3>1. p[b + 1].cells \in Nat /\ last \in Nat /\ Boundary(p, last) /\ b \in Nat
      BY <1>6, <2>1, NextBlock
    <3> QED BY <3>1
  <2> HIDE DEF last
  <2>3. ASSUME last <= n PROVE FALSE
    <3>1. last \in 0..n
      BY <1>1, <2>2, <2>3
    <3>2. n - last \in S
      BY <2>2, <3>1
    <3>3. s <= n - last
      BY <1>5, <3>2
    <3> QED BY <1>1, <1>6, <2>2, <3>1, <3>3
  <2> QED BY <1>1, <2>2, <2>3 DEF last
<1> QED BY <1>6, <1>7

(***************************************************************************)
(* Before a header is a boundary, and the blocks before it come first in a *)
(* payload that goes on from there otherwise.                              *)
(***************************************************************************)
LEMMA HeadsAreBoundaries ==
  ASSUME NEW p, NEW upto, NEW nth, Whole(p, upto, nth), payload = p, NEW h \in Heads
  PROVE  /\ h \in 1..Len(p) /\ h - 1 \in Nat /\ Boundary(p, h - 1) /\ h - 1 < Len(p) /\ (h - 1) + 1 = h
         /\ p[h].index = nth[h - 1] /\ p[h].faults = {} /\ p[h].signature = p[1].signature
         /\ nth[h - 1] \in Nat
<1>1. h \in 1..Len(p) /\ p[h].kind = "header" /\ Len(p) \in Nat
  BY DEF Heads, Whole
<1>2. h - 1 \in Nat /\ h - 1 < Len(p) /\ (h - 1) + 1 = h /\ h - 1 \in 0..Len(p)
  BY <1>1
<1> DEFINE b == h - 1
<1>3. Boundary(p, b) /\ b < Len(p)
  BY <1>1, <1>2 DEF Boundary
<1> HIDE DEF b
<1>4. p[b + 1].index = nth[b] /\ p[b + 1].faults = {} /\ p[b + 1].signature = p[1].signature /\ nth[b] \in Nat
  BY <1>3, NextBlock
<1> QED BY <1>1, <1>2, <1>3, <1>4 DEF b

LEMMA HeadNumbers ==
  ASSUME NEW p, NEW upto, NEW nth, Whole(p, upto, nth), payload = p, NEW g \in Heads, NEW h \in Heads, g < h
  PROVE  nth[g - 1] < nth[h - 1] /\ 0 < nth[h - 1] /\ nth[0] = 0
<1>1. /\ Boundary(p, g - 1) /\ Boundary(p, h - 1) /\ g \in 1..Len(p) /\ h \in 1..Len(p)
      /\ nth[g - 1] \in Nat /\ nth[h - 1] \in Nat
  BY HeadsAreBoundaries
<1>2. g - 1 < h - 1
  BY <1>1
<1>3. nth[g - 1] < nth[h - 1]
  BY <1>1, <1>2, NumbersGrow
<1>4. nth[0] = 0
  BY DEF Whole, InBlocks
<1> QED BY <1>1, <1>3, <1>4

LEMMA BeforeAndAfter ==
  ASSUME NEW S, NEW p \in Seq(S), NEW b \in 0..Len(p), NEW q \in Seq(S), q # << >>
  PROVE  LET r == SubSeq(p, 1, b) \o q
         IN /\ r \in Seq(S) /\ Len(r) = b + Len(q) /\ b < Len(r)
            /\ \A k \in 1..b : r[k] = p[k]
            /\ r[b + 1] = q[1]
<1> DEFINE s == SubSeq(p, 1, b)
<1>1. b \in Nat /\ b <= Len(p)
  OBVIOUS
<1>2. s \in Seq(S) /\ Len(s) = b /\ \A k \in 1..b : s[k] = p[k]
  BY <1>1
<1>3. Len(q) \in Nat /\ Len(q) > 0
  OBVIOUS
<1> HIDE DEF s
<1>4. /\ s \o q \in Seq(S) /\ Len(s \o q) = b + Len(q)
      /\ \A k \in 1..b : (s \o q)[k] = s[k]
      /\ (s \o q)[b + 1] = q[1]
  BY SMTT(30), <1>1, <1>2, <1>3
<1> QED BY <1>1, <1>2, <1>3, <1>4 DEF s

LEMMA Behind ==
  ASSUME NEW S, NEW p \in Seq(S), NEW k \in 1..Len(p)
  PROVE  LET q == SubSeq(p, k, Len(p))
         IN q \in Seq(S) /\ q # << >> /\ q[1] = p[k] /\ Len(q) = Len(p) - k + 1
<1> DEFINE n == Len(p)
           q == SubSeq(p, k, n)
<1>1. n \in Nat /\ k \in Nat /\ k <= n /\ k > 0
  OBVIOUS
<1>2. q \in Seq(S) /\ Len(q) = n - k + 1
  BY <1>1
<1>3. q[1] = p[k]
  BY <1>1
<1> HIDE DEF q
<1>4. Len(q) # 0
  BY <1>1, <1>2
<1>5. q # << >>
  BY <1>4
<1> QED BY <1>2, <1>3, <1>5 DEF q

LEMMA FromHead ==
  ASSUME NEW p \in Seq(Cells), payload = p, NEW h \in Heads
  PROVE  From(h) \in Seq(Cells) /\ From(h) # << >> /\ From(h)[1] = p[h] /\ Len(From(h)) = Len(p) - h + 1
<1>1. h \in 1..Len(p)
  BY DEF Heads
<1> QED BY <1>1, Behind DEF From

(***************************************************************************)
(* A payload that shares m cells with the encoder's, up to a boundary, and *)
(* goes on with a header that does not fit.                                *)
(***************************************************************************)
LEMMA StrayHeader ==
  ASSUME NEW p, NEW upto, NEW nth, Whole(p, upto, nth), NEW m, Boundary(p, m),
         UNCHANGED <<data, ends>>, damage' # "none", Len(payload') \in Nat,
         m < Len(payload'), \A k \in 1..m : payload'[k] = p[k],
         Misfit(p, nth, m, payload[m + 1])'
  PROVE  SessionCell(p, upto, nth, m)'
<1>1. m <= Len(payload')
  BY DEF Boundary
<1>2. Whole(p, upto, nth)'
  BY DEF Whole
<1> QED BY <1>1, <1>2 DEF SessionCell, Boundary

LEMMA CutFollows ==
  ASSUME NEW p, NEW upto, NEW nth, Whole(p, upto, nth), payload = p, Cut
  PROVE  \E m : SessionCell(p, upto, nth, m)'
<1>1. PICK n \in 0..(Len(p) - 1) : payload' = SubSeq(p, 1, n)
  BY DEF Cut
<1>2. p \in Seq(Cells) /\ n \in Nat /\ n <= Len(p) /\ n \in 0..Len(p)
  BY <1>1 DEF Whole
<1>3. Len(payload') = n /\ \A k \in 1..n : payload'[k] = p[k]
  BY <1>1, <1>2
<1>4. PICK m \in 0..n : Boundary(p, m) /\ (m < n => m + 1 + p[m + 1].cells > n)
  BY <1>2, LastBoundary
<1>5. \A k \in 1..m : payload'[k] = p[k]
  BY <1>2, <1>3, <1>4
<1>6. m < n => payload'[m + 1] = p[m + 1]
  BY <1>2, <1>3, <1>4
<1>7. m < n => Misfit(p, nth, m, payload[m + 1])'
  BY <1>3, <1>4, <1>6 DEF Misfit
<1>8. Whole(p, upto, nth)'
  BY DEF Whole, Cut, Befalls
<1>9. damage' = "cut"
  BY DEF Cut, Befalls
<1>10. m <= Len(payload')
  BY <1>2, <1>3, <1>4
<1> QED BY <1>3, <1>4, <1>5, <1>7, <1>8, <1>9, <1>10 DEF SessionCell

LEMMA HeaderFollows ==
  ASSUME NEW p, NEW upto, NEW nth, Whole(p, upto, nth), payload = p, AlterHeader
  PROVE  \E m : SessionCell(p, upto, nth, m)'
<1>1. PICK k \in DOMAIN p, f \in Faults :
        p[k].kind = "header" /\ payload' = [p EXCEPT ![k].faults = {f}]
  BY DEF AlterHeader
<1>2. k \in Heads
  BY <1>1 DEF Heads
<1> DEFINE m == k - 1
<1>3. k \in 1..Len(p) /\ m \in Nat /\ Boundary(p, m) /\ m < Len(p) /\ m + 1 = k
  BY <1>2, HeadsAreBoundaries
<1>4. p \in Seq(Cells) /\ p[k] \in Headers
  <2>1. p \in Seq(Cells) /\ p[k] \in Cells
    BY <1>3 DEF Whole
  <2> QED BY <1>1, <2>1, CellKinds
<1>5. /\ Len(payload') = Len(p) /\ \A i \in 1..Len(p) : i # k => payload'[i] = p[i]
      /\ payload'[k] = [p[k] EXCEPT !.faults = {f}]
  BY <1>1, <1>3, <1>4
<1>6. payload'[k].faults # {}
  BY <1>4, <1>5 DEF Headers
<1>7. damage' # "none" /\ UNCHANGED <<data, ends>>
  BY DEF AlterHeader, Befalls
<1> HIDE DEF m
<1>8. m < Len(payload') /\ Len(payload') \in Nat
  BY <1>3, <1>4, <1>5
<1>9. \A i \in 1..m : payload'[i] = p[i]
  BY <1>3, <1>5
<1>10. Misfit(p, nth, m, payload[m + 1])'
  BY <1>3, <1>6 DEF Misfit
<1> QED BY <1>3, <1>7, <1>8, <1>9, <1>10, StrayHeader

LEMMA RearrangeFollows ==
  ASSUME NEW p, NEW upto, NEW nth, Whole(p, upto, nth), payload = p, Rearrange
  PROVE  \E m : SessionCell(p, upto, nth, m)'
<1>1. PICK g \in Heads, h \in Heads :
        \/ g < h /\ payload' = SubSeq(p, 1, g - 1) \o From(h)
        \/ g < h /\ payload' = From(h) \o SubSeq(p, 1, h - 1)
        \/ payload' = p \o From(h)
  BY DEF Rearrange
<1>2. damage' # "none" /\ UNCHANGED <<data, ends>>
  BY DEF Rearrange, Befalls
<1>3. p \in Seq(Cells) /\ Len(p) \in Nat
  BY DEF Whole
<1>4. From(h) \in Seq(Cells) /\ From(h) # << >> /\ From(h)[1] = p[h] /\ Len(From(h)) = Len(p) - h + 1
  BY <1>3, FromHead
<1>5. p[h].index = nth[h - 1] /\ h \in 1..Len(p) /\ nth[h - 1] \in Nat
      /\ Boundary(p, h - 1) /\ h - 1 < Len(p)
  BY HeadsAreBoundaries
<1> DEFINE q == From(h)
<1> HIDE DEF q
<1>6. CASE g < h /\ payload' = SubSeq(p, 1, g - 1) \o From(h)
  <2> DEFINE m == g - 1
  <2>1. Boundary(p, m) /\ g \in 1..Len(p) /\ nth[m] < nth[h - 1] /\ nth[m] \in Nat
    BY <1>6, HeadsAreBoundaries, HeadNumbers
  <2>2. m \in 0..Len(p) /\ payload' = SubSeq(p, 1, m) \o q /\ q \in Seq(Cells) /\ q # << >> /\ q[1] = p[h]
    BY <1>4, <1>6, <2>1 DEF q
  <2> HIDE DEF m
  <2>3. /\ Len(payload') = m + Len(q) /\ m < Len(payload') /\ payload'[m + 1] = p[h]
        /\ \A k \in 1..m : payload'[k] = p[k] /\ payload' \in Seq(Cells)
    BY <1>3, <2>2, BeforeAndAfter
  <2>4. Misfit(p, nth, m, payload[m + 1])'
    BY <1>5, <2>1, <2>3 DEF Misfit
  <2>5. Len(payload') \in Nat
    BY <1>3, <2>2, <2>3
  <2> QED BY <1>2, <2>1, <2>3, <2>4, <2>5, StrayHeader
<1>7. CASE g < h /\ payload' = From(h) \o SubSeq(p, 1, h - 1)
  <2>1. 0 < nth[h - 1] /\ nth[0] = 0
    BY <1>7, HeadNumbers
  <2>2. SubSeq(p, 1, h - 1) \in Seq(Cells)
    BY <1>3, <1>5
  <2> DEFINE s == SubSeq(p, 1, h - 1)
  <2> HIDE DEF s
  <2>3. payload' = q \o s /\ q \in Seq(Cells) /\ q # << >> /\ q[1] = p[h] /\ s \in Seq(Cells)
    BY <1>4, <1>7, <2>2 DEF q, s
  <2>4. payload' \in Seq(Cells) /\ payload'[1] = p[h] /\ Len(payload') > 0
    BY <2>3
  <2>5. Misfit(p, nth, 0, payload[0 + 1])'
    BY <1>5, <2>1, <2>4 DEF Misfit
  <2>6. Boundary(p, 0)
    BY <1>3 DEF Boundary, Whole, InBlocks
  <2>7. Len(payload') \in Nat
    BY <2>4
  <2> QED BY <1>2, <2>4, <2>5, <2>6, <2>7, StrayHeader
<1>8. CASE payload' = p \o From(h)
  <2> DEFINE m == Len(p)
  <2>1. Boundary(p, m)
    BY <1>3 DEF Boundary
  <2>2. payload' = p \o q /\ q \in Seq(Cells) /\ q # << >> /\ q[1] = p[h]
    BY <1>4, <1>8 DEF q
  <2>3. /\ Len(payload') = m + Len(q) /\ m < Len(payload') /\ payload'[m + 1] = p[h]
        /\ \A k \in 1..m : payload'[k] = p[k]
    BY <1>3, <2>2
  <2>4. nth[h - 1] < nth[m]
    BY <1>5, <2>1, NumbersGrow
  <2> HIDE DEF m
  <2>5. Misfit(p, nth, m, payload[m + 1])'
    <3>1. m \in 0..Len(p)
      BY <2>1 DEF Boundary
    <3>2. nth[m] \in Nat
      BY <3>1 DEF Whole, InBlocks
    <3> QED BY <1>5, <2>3, <2>4, <3>2 DEF Misfit
  <2>6. Len(payload') \in Nat
    BY <1>3, <2>2, <2>3 DEF m
  <2> QED BY <1>2, <2>1, <2>3, <2>5, <2>6, StrayHeader
<1> QED BY <1>1, <1>6, <1>7, <1>8

LEMMA SpliceFollows ==
  ASSUME NEW p, NEW upto, NEW nth, Whole(p, upto, nth), payload = p, Splice
  PROVE  \E m : SessionCell(p, upto, nth, m)'
<1>0. PICK s \in Sessions, h \in Heads :
        /\ h > 1 /\ s.payload[1].signature # p[1].signature
        /\ \E k \in DOMAIN s.payload :
             /\ s.payload[k].kind = "header"
             /\ payload' = SubSeq(p, 1, h - 1) \o SubSeq(s.payload, k, Len(s.payload))
  BY DEF Splice
<1>1. PICK k \in DOMAIN s.payload :
        /\ h > 1 /\ s.payload[1].signature # p[1].signature /\ s.payload[k].kind = "header"
        /\ payload' = SubSeq(p, 1, h - 1) \o SubSeq(s.payload, k, Len(s.payload))
  BY <1>0
<1>2. damage' # "none" /\ UNCHANGED <<data, ends>>
  BY DEF Splice, Befalls
<1>3. p \in Seq(Cells) /\ s.payload \in Seq(Cells)
  BY CellsAssumption, SessionAssumption DEF Whole, Cells
<1> DEFINE t == s.payload
           q == SubSeq(t, k, Len(t))
           m == h - 1
<1>4. t[k].signature # p[1].signature /\ k \in 1..Len(t)
  BY SMTT(30), <1>1, <1>3, CellsAssumption
<1>5. q \in Seq(Cells) /\ q # << >> /\ q[1] = t[k]
  <2>1. t \in Seq(Cells)
    BY <1>3
  <2> HIDE DEF t
  <2> QED BY <1>4, <2>1, Behind
<1>6. Boundary(p, m) /\ h \in 1..Len(p) /\ m \in Nat
  BY HeadsAreBoundaries
<1>7. m \in 0..Len(p) /\ m > 0 /\ payload' = SubSeq(p, 1, m) \o q
  BY <1>1, <1>6 DEF Boundary
<1> HIDE DEF q, m, t
<1>8. /\ Len(payload') = m + Len(q) /\ m < Len(payload') /\ payload'[m + 1] = t[k]
      /\ \A i \in 1..m : payload'[i] = p[i]
  <2>1. p \in Seq(Cells) /\ m \in 0..Len(p) /\ q \in Seq(Cells) /\ q # << >>
    BY <1>3, <1>5, <1>7
  <2> DEFINE r == SubSeq(p, 1, m) \o q
  <2>2. Len(r) = m + Len(q) /\ m < Len(r) /\ r[m + 1] = q[1] /\ \A i \in 1..m : r[i] = p[i]
    BY ONLY <2>1, BeforeAndAfter
  <2>3. payload' = r /\ q[1] = t[k]
    BY <1>5, <1>7
  <2> HIDE DEF r
  <2> QED BY ONLY <2>2, <2>3
<1>9. Misfit(p, nth, m, payload[m + 1])'
  BY <1>4, <1>7, <1>8 DEF Misfit
<1>10. Len(payload') \in Nat
  BY <1>5, <1>6, <1>8
<1> QED BY <1>2, <1>6, <1>8, <1>9, <1>10, StrayHeader

LEMMA SessionDamage == CellInv /\ SessionFollows /\ Damage => SessionFollows'
<1> SUFFICES ASSUME CellInv, SessionFollows, Damage, sound', id' = "XPRESS9", damage' # "token"
             PROVE  SessionFollows'
  BY DEF SessionFollows
<1>1. /\ step = "stored" /\ damage = "none" /\ id = "XPRESS9" /\ sound
      /\ UNCHANGED <<readingVars, step, data, fmt, sound, ends, want, verify>>
  BY DamageTypes DEF Codecs
<1>2. PICK p, upto, nth, m : SessionCell(p, upto, nth, m)
  BY <1>1 DEF SessionFollows
<1>3. Whole(p, upto, nth) /\ payload = p
  BY <1>1, <1>2 DEF SessionCell
<1>4. \E n : SessionCell(p, upto, nth, n)'
  <2>1. ~AlterToken
    BY DEF AlterToken, Befalls
  <2>2. ~AlterSize
    BY <1>1 DEF AlterSize, Sized
  <2>3. ~Erase /\ ~AlterId
    BY DEF Erase, AlterId, Codecs
  <2> QED BY <1>3, <2>1, <2>2, <2>3, CutFollows, HeaderFollows, RearrangeFollows, SpliceFollows DEF Damage
<1>5. \A n : SessionRead(p, upto, nth, n)'
  BY <1>1 DEF SessionRead, SessionSteps
<1> QED BY <1>4, <1>5 DEF SessionFollows

----------------------------------------------------------------------------
(* Reading the blocks *)

LEMMA SessionDispatch ==
  ASSUME CellInv, NEW p, NEW upto, NEW nth, NEW m, SessionCell(p, upto, nth, m), id = "XPRESS9", Dispatch
  PROVE  SessionRead(p, upto, nth, m)'
<1>1. /\ step = "stored" /\ UNCHANGED <<payload, readingVars, cellVars>>
      /\ step' \in {"scrub", "error", "packed", "walk", "plain"}
      /\ step' = "error" => ~IsCodecs
      /\ step' = "walk" => Asked = "XPRESS9"
  BY DispatchFacts
<1>2. offset' = 0 /\ total' = 0 /\ spans' = << >>
  BY <1>1 DEF CellInv, PhaseInv, ReadingInit, readingVars
<1>3. step' = "error" => Asked' # id'
  BY <1>1 DEF IsCodecs, Codecs, Asked, cellVars
<1>4. /\ Boundary(p, 0) /\ 0 <= m /\ nth[0] = 0 /\ upto[0] = 0
  BY DEF SessionCell, Whole, InBlocks, Spells, Boundary
<1>5. Walked(p, upto, nth, m)'
  BY <1>2, <1>4 DEF Walked, SpansOf, Boundary
<1>6. step' \notin {"total", "block", "token", "decoded", "done"}
  BY <1>1
<1> QED BY <1>3, <1>5, <1>6 DEF SessionRead

(***************************************************************************)
(* The first block accepted is the first of the encoder's.                 *)
(***************************************************************************)
LEMMA FirstSpan ==
  ASSUME IndInv, NEW p, SpansOf(p), spans # << >>
  PROVE  spans[1].header = p[1]
<1>1. 1 \in 1..Len(spans)
  BY DEF IndInv, SessionTypeOK
<1>2. spans[1].from = 1
  BY <1>1 DEF IndInv, WalkInv, SpanOK
<1> QED BY <1>1, <1>2 DEF SpansOf

(***************************************************************************)
(* _session_blocks accepts the encoder's blocks in their order, and no     *)
(* header that does not fit behind them.                                   *)
(***************************************************************************)
LEMMA AcceptsOwnBlocks ==
  ASSUME IndInv, NEW p, NEW upto, NEW nth, NEW m, SessionCell(p, upto, nth, m), Walked(p, upto, nth, m),
         offset < Len(payload)
  PROVE  LET h == payload[offset + 1]
         IN /\ offset < m => /\ Accepts(h) /\ h = p[offset + 1]
                             /\ offset + 1 + h.cells <= m
            /\ offset = m => ~Accepts(h)
<1> DEFINE h == payload[offset + 1]
<1>1. /\ Whole(p, upto, nth) /\ Boundary(p, m) /\ Boundary(p, offset) /\ offset \in Nat /\ m \in Nat
      /\ offset <= m /\ m <= Len(payload) /\ m <= Len(p) /\ Len(spans) = nth[offset] /\ SpansOf(p)
      /\ Len(p) \in Nat /\ Len(payload) \in Nat
  BY DEF SessionCell, Walked, Boundary, Whole, IndInv, SessionTypeOK
<1>2. spans # << >> => spans[1].header = p[1]
  BY <1>1, FirstSpan
<1>3. ASSUME offset < m PROVE Accepts(h) /\ h = p[offset + 1] /\ offset + 1 + h.cells <= m
  <2>1. offset + 1 \in 1..m /\ offset < Len(p)
    BY <1>1, <1>3
  <2>2. h = p[offset + 1]
    BY <2>1 DEF SessionCell
  <2> HIDE DEF h
  <2>3. /\ h \in Headers /\ h.faults = {} /\ h.index = nth[offset]
        /\ h.signature = p[1].signature /\ h.params = p[1].params
        /\ h.cells \in Nat \ {0} /\ offset + 1 + h.cells \in Nat
    BY SMTT(30), <1>1, <2>1, <2>2, NextBlock
  <2>4. offset + 1 + h.cells <= m
    BY <1>1, <1>3, <2>2, BlockEndsBefore
  <2>5. h.kind = "header"
    BY <2>3, HeaderFields
  <2>6. offset + 1 + h.cells <= Len(payload) /\ h.cells > 0
    BY <1>1, <2>3, <2>4
  <2>7. Accepts(h)
    BY <1>1, <1>2, <2>3, <2>5, <2>6 DEF Accepts, InSession
  <2> QED BY <2>2, <2>4, <2>7
<1>4. ASSUME offset = m PROVE ~Accepts(h)
  <2>1. Misfit(p, nth, m, h)
    BY <1>4 DEF SessionCell
  <2>2. m > 0 => spans # << >>
    BY <1>4 DEF IndInv, WalkInv
  <2> HIDE DEF h
  <2>3. CASE h.faults # {}
    BY <2>3 DEF Accepts
  <2>4. CASE h.index # nth[m]
    BY <1>1, <1>4, <2>4 DEF Accepts, InSession
  <2>5. CASE m > 0 /\ h.signature # p[1].signature
    BY <1>2, <2>2, <2>5 DEF Accepts
  <2>6. CASE m + 1 + h.cells > Len(payload)
    <3> SUFFICES ASSUME Accepts(h) PROVE FALSE
      OBVIOUS
    <3>1. offset + 1 + h.cells <= Len(payload) /\ h.kind = "header"
      BY DEF Accepts
    <3>2. h \in Headers
      <4>1. offset + 1 \in 1..Len(payload)
        BY <1>1
      <4>2. h \in Cells
        BY <4>1 DEF h, IndInv, SessionTypeOK, Cells
      <4> QED BY <3>1, <4>2, CellKinds
    <3>3. h.cells \in Nat
      BY <3>2, HeaderFields
    <3> QED BY <1>1, <1>4, <2>6, <3>1, <3>3
  <2> QED BY <2>1, <2>3, <2>4, <2>5, <2>6 DEF Misfit
<1> QED BY <1>3, <1>4

LEMMA WalkBlockFollows ==
  ASSUME CellInv, NEW p, NEW upto, NEW nth, NEW m, SessionCell(p, upto, nth, m), SessionRead(p, upto, nth, m),
         WalkBlock, UNCHANGED cellVars
  PROVE  SessionRead(p, upto, nth, m)'
<1> DEFINE h == payload[offset + 1]
<1>1. IndInv /\ step = "walk" /\ Walked(p, upto, nth, m) /\ offset < Len(payload)
  BY DEF WalkBlock, CellInv, PhaseInv, SessionSteps, SessionRead
<1>2. /\ Whole(p, upto, nth) /\ Boundary(p, offset) /\ Boundary(p, m) /\ offset \in Nat /\ m \in Nat
      /\ offset <= m /\ m <= Len(p) /\ Len(p) \in Nat
      /\ Len(spans) = nth[offset] /\ total = upto[offset] /\ SpansOf(p)
      /\ spans \in Seq(Spans)
  BY <1>1 DEF SessionCell, Walked, Boundary, Whole, IndInv, SessionTypeOK
<1>3. CASE offset = m
  <2>1. Refuse
    BY <1>1, <1>3, AcceptsOwnBlocks DEF WalkBlock
  <2>2. damage # "none"
    BY <1>1, <1>3 DEF SessionCell
  <2> QED BY <2>1, <2>2 DEF SessionRead, SessionSteps, Refuse, cellVars
<1>4. CASE offset # m
  <2>1. offset < m /\ offset < Len(p)
    BY <1>2, <1>4
  <2>2. Accepts(h) /\ h = p[offset + 1] /\ offset + 1 + h.cells <= m
    BY <1>1, <2>1, AcceptsOwnBlocks
  <2> DEFINE s == [header |-> h, from |-> offset + 1, to |-> offset + 1 + h.cells]
  <2>3. /\ spans' = Append(spans, s) /\ offset' = offset + 1 + h.cells
        /\ total' = total + h.size /\ step' = "walk"
    BY <2>2 DEF WalkBlock
  <2> HIDE DEF h
  <2>4. /\ h.cells \in Nat \ {0} /\ Boundary(p, offset + 1 + h.cells)
        /\ nth[offset + 1 + h.cells] = nth[offset] + 1
        /\ upto[offset + 1 + h.cells] = upto[offset] + h.size
    BY <1>2, <2>1, <2>2, NextBlock
  <2> DEFINE last == offset + 1 + h.cells
  <2>5. last \in Nat /\ offset < last /\ (offset + 1) - 1 = offset
    BY <1>2, <2>4
  <2>6. s.header = h /\ s.from = offset + 1 /\ s.to = last
    OBVIOUS
  <2> HIDE DEF s, last
  <2>7. /\ Len(spans') = Len(spans) + 1 /\ spans'[Len(spans) + 1] = s /\ Len(spans) \in Nat
        /\ \A i \in 1..Len(spans) : spans'[i] = spans[i]
    BY <1>2, <2>3
  <2>8. offset' = last
    BY <2>3 DEF last
  <2>9. SpansOf(p)'
    <3>1. ASSUME NEW i \in 1..Len(spans)
          PROVE  /\ spans[i].header = p[spans[i].from] /\ spans[i].to = spans[i].from + spans[i].header.cells
                 /\ Boundary(p, spans[i].from - 1) /\ spans[i].to <= last
      <4>1. /\ spans[i].header = p[spans[i].from] /\ spans[i].to = spans[i].from + spans[i].header.cells
            /\ Boundary(p, spans[i].from - 1) /\ spans[i].to <= offset
        BY <1>2 DEF SpansOf
      <4>2. spans[i].to \in Nat
        BY <1>2, SpanFields
      <4> QED BY <1>2, <2>5, <4>1, <4>2
    <3>2. /\ s.header = p[s.from] /\ s.to = s.from + s.header.cells
          /\ Boundary(p, s.from - 1) /\ s.to <= last
      BY <1>2, <2>2, <2>5, <2>6 DEF last
    <3>3. \A i \in 1..Len(spans') : i \in 1..Len(spans) \/ i = Len(spans) + 1
      BY <2>7
    <3> QED BY <2>7, <2>8, <3>1, <3>2, <3>3 DEF SpansOf
  <2>10. Walked(p, upto, nth, m)'
    <3>1. Boundary(p, last) /\ last <= m /\ nth[last] = Len(spans) + 1 /\ upto[last] = total + h.size
      BY <1>2, <2>2, <2>4 DEF last
    <3> QED BY <2>3, <2>7, <2>8, <2>9, <3>1 DEF Walked, Boundary
  <2> QED BY <2>3, <2>10 DEF SessionRead
<1> QED BY <1>3, <1>4

LEMMA WalkEndFollows ==
  ASSUME CellInv, NEW p, NEW upto, NEW nth, NEW m, SessionCell(p, upto, nth, m), SessionRead(p, upto, nth, m),
         WalkEnd, UNCHANGED cellVars
  PROVE  SessionRead(p, upto, nth, m)'
<1>1. IndInv /\ step = "walk" /\ Walked(p, upto, nth, m) /\ offset >= Len(payload)
  BY DEF WalkEnd, CellInv, PhaseInv, SessionSteps, SessionRead
<1>2. offset = m /\ offset = Len(payload)
  <2>1. offset \in Nat /\ Len(payload) \in Nat /\ offset <= m /\ m <= Len(payload) /\ m \in Int
    BY <1>1 DEF IndInv, SessionTypeOK, Walked, SessionCell, Boundary
  <2> QED BY <1>1, <2>1
<1>3. CASE spans = << >>
  <2>1. Refuse
    BY <1>1, <1>3 DEF WalkEnd
  <2>2. offset = 0
    BY <1>1, <1>3 DEF IndInv, WalkInv
  <2>3. damage # "none"
    BY <1>2, <2>2 DEF SessionCell, Whole, InBlocks
  <2> QED BY <2>1, <2>3 DEF SessionRead, SessionSteps, Refuse, cellVars
<1>4. CASE spans # << >>
  <2>1. step' = "total" /\ UNCHANGED <<payload, readingVars>>
    BY <1>1, <1>4 DEF WalkEnd
  <2>2. offset = EndOf(Len(spans))
    BY <1>1, <1>4 DEF IndInv, SessionTypeOK, WalkInv, EndOf
  <2>3. Walked(p, upto, nth, m)'
    BY <1>1, <2>1 DEF Walked, SpansOf, readingVars
  <2> QED BY <1>2, <1>4, <2>1, <2>2, <2>3 DEF SessionRead, readingVars, EndOf
<1> QED BY <1>3, <1>4

LEMMA CheckTotalFollows ==
  ASSUME CellInv, NEW p, NEW upto, NEW nth, NEW m, SessionCell(p, upto, nth, m), SessionRead(p, upto, nth, m),
         CheckTotal, UNCHANGED cellVars
  PROVE  SessionRead(p, upto, nth, m)'
<1>1. /\ IndInv /\ step = "total" /\ Walked(p, upto, nth, m)
      /\ offset = m /\ offset = Len(payload) /\ spans # << >> /\ offset = EndOf(Len(spans))
  BY DEF CheckTotal, CellInv, PhaseInv, SessionSteps, SessionRead
<1>2. CASE Refuse
  <2>1. CASE damage = "none"
    <3>1. total = Len(data)
      BY <1>1, <2>1 DEF SessionCell, Walked, Whole, Spells
    <3>2. total > MaxDecoded
      BY <1>1, <1>2 DEF CheckTotal, Refuse
    <3> QED BY <1>2, <3>1, <3>2 DEF SessionRead, SessionSteps, Refuse, cellVars
  <2>2. CASE damage # "none"
    BY <1>2, <2>2 DEF SessionRead, SessionSteps, Refuse, cellVars
  <2> QED BY <2>1, <2>2
<1>3. CASE ~Refuse
  <2>1. step' = "block" /\ UNCHANGED <<payload, readingVars>>
    BY <1>3 DEF CheckTotal
  <2>2. out = << >> /\ block = 0
    BY <1>1 DEF IndInv, SizesInv, OutFollows
  <2>3. out = SubSeq(data, 1, upto[EndOf(block)])
    <3>1. upto[EndOf(block)] = 0 /\ data \in Seq(Nat)
      BY <2>2 DEF EndOf, SessionCell, Whole, Spells
    <3> QED BY <2>2, <3>1
  <2>4. Walked(p, upto, nth, m)'
    BY <1>1, <2>1 DEF Walked, SpansOf, readingVars
  <2>5. out' = SubSeq(data', 1, upto[EndOf(block)'])
    BY <2>1, <2>3 DEF readingVars, cellVars, EndOf
  <2> QED BY <1>1, <2>1, <2>4, <2>5 DEF SessionRead, readingVars, EndOf
<1> QED BY <1>2, <1>3

(***************************************************************************)
(* A block accepted stands for a stretch of the plaintext that begins      *)
(* where the block before it ends.                                         *)
(***************************************************************************)
LEMMA SpanSpells ==
  ASSUME IndInv, NEW p, NEW upto, NEW nth, NEW m, SessionCell(p, upto, nth, m), Walked(p, upto, nth, m),
         NEW i \in 1..Len(spans)
  PROVE  LET s == spans[i]
         IN /\ s.from \in Nat /\ s.to \in Nat /\ s.header.size \in Nat
            /\ s.from - 1 = EndOf(i - 1) /\ s.from < s.to /\ s.to <= m /\ m <= Len(payload) /\ m <= Len(p)
            /\ \A k \in (s.from + 1)..s.to : p[k].kind = "token"
            /\ upto[s.from] = upto[EndOf(i - 1)] /\ upto[s.to] = upto[s.from] + s.header.size
            /\ upto[s.to] \in ends
<1> DEFINE s == spans[i]
           b == s.from - 1
<1>1. s \in Spans /\ SpanOK(i) /\ i \in Nat
  BY DEF IndInv, SessionTypeOK, WalkInv
<1>2. s.from \in Nat /\ s.to \in Nat /\ s.header.size \in Nat
  BY <1>1, SpanFields
<1>3. s.from = (IF i = 1 THEN 0 ELSE spans[i - 1].to) + 1 /\ s.from < s.to
  BY <1>1 DEF SpanOK
<1>4. b = EndOf(i - 1)
  <2>1. CASE i = 1
    BY <1>3, <2>1 DEF EndOf
  <2>2. CASE i # 1
    <3>1. i - 1 \in 1..Len(spans) /\ i - 1 # 0
      BY <1>1, <2>2
    <3>2. spans[i - 1].to \in Nat
      BY <3>1, SpanFields DEF IndInv, SessionTypeOK
    <3> QED BY <1>3, <2>2, <3>1, <3>2 DEF EndOf
  <2> QED BY <2>1, <2>2
<1>5. s.header = p[s.from] /\ s.to = s.from + s.header.cells /\ Boundary(p, b) /\ s.to <= offset
  BY DEF Walked, SpansOf
<1>6. /\ Whole(p, upto, nth) /\ offset \in Nat /\ offset <= m /\ m \in Nat /\ m <= Len(payload) /\ m <= Len(p)
      /\ Len(p) \in Nat
  BY DEF SessionCell, Walked, Boundary, Whole, IndInv, SessionTypeOK
<1> HIDE DEF s
<1>7. b \in Nat /\ b + 1 = s.from /\ b + 2 = s.from + 1 /\ s.to <= m /\ b < Len(p)
  BY SMTT(30), <1>2, <1>3, <1>5, <1>6 DEF Boundary
<1> HIDE DEF b
<1>8. /\ \A k \in (b + 2)..s.to : p[k].kind = "token"
      /\ upto[b + 1] = upto[b] /\ upto[s.to] = upto[b] + p[b + 1].size
      /\ upto[s.to] \in ends
  <2>1. b + 1 + p[b + 1].cells = s.to
    BY <1>5, <1>7
  <2> QED BY SMTT(30), <1>5, <1>6, <1>7, <2>1, NextBlock
<1>9. upto[s.from] = upto[EndOf(i - 1)] /\ upto[s.to] = upto[s.from] + s.header.size
  BY <1>4, <1>5, <1>7, <1>8
<1> QED BY <1>2, <1>3, <1>4, <1>6, <1>7, <1>8, <1>9 DEF s, b

LEMMA StartBlockFollows ==
  ASSUME CellInv, NEW p, NEW upto, NEW nth, NEW m, SessionCell(p, upto, nth, m), SessionRead(p, upto, nth, m),
         StartBlock, UNCHANGED cellVars
  PROVE  SessionRead(p, upto, nth, m)'
<1>1. /\ IndInv /\ step = "block" /\ Walked(p, upto, nth, m) /\ block < Len(spans)
      /\ offset = m /\ offset = Len(payload) /\ spans # << >> /\ offset = EndOf(Len(spans))
      /\ out = SubSeq(data, 1, upto[EndOf(block)])
  BY DEF StartBlock, CellInv, PhaseInv, SessionSteps, SessionRead
<1> DEFINE s == spans[block + 1]
<1>2. /\ target' = Len(out) + s.header.size /\ at' = s.from /\ step' = "token"
      /\ UNCHANGED <<payload, spans, offset, total, block, out>>
  BY DEF StartBlock
<1>3. block \in Nat /\ block + 1 \in 1..Len(spans) /\ (block + 1) - 1 = block
  BY <1>1 DEF IndInv, SessionTypeOK
<1>4. /\ s.from \in Nat /\ s.to \in Nat /\ s.header.size \in Nat /\ s.from < s.to
      /\ s.from - 1 = EndOf(block) /\ s.to <= m /\ m <= Len(p)
      /\ upto[s.from] = upto[EndOf(block)] /\ upto[s.to] = upto[s.from] + s.header.size
  BY <1>1, <1>3, SpanSpells
<1>5. upto[s.from] \in 0..Len(data) /\ data \in Seq(Nat)
  <2>1. p \in Seq(Cells) /\ data \in Seq(Nat) /\ Spells(data, p, upto)
    BY DEF SessionCell, Whole
  <2>2. m \in Nat
    BY DEF SessionCell, Boundary
  <2>3. s.from \in 0..Len(p)
    BY <1>4, <2>1, <2>2
  <2> QED BY <2>1, <2>3, SpelledTokens
<1> HIDE DEF s
<1>6. Len(out) = upto[s.from] /\ out = SubSeq(data, 1, upto[s.from])
  BY <1>1, <1>4, <1>5
<1>7. target' = upto[s.to]
  BY <1>2, <1>4, <1>6
<1>8. Walked(p, upto, nth, m)'
  BY <1>1, <1>2 DEF Walked, SpansOf
<1>9. s.from <= at' /\ at' <= s.to
  BY <1>2, <1>4
<1>10. spans'[block' + 1] = s /\ data' = data
  BY <1>2 DEF s, cellVars
<1> QED BY <1>1, <1>2, <1>6, <1>7, <1>8, <1>9, <1>10 DEF SessionRead, EndOf

(***************************************************************************)
(* Within a block the output stands at the place of the plaintext that the *)
(* tokens read lead to, which is the end of the block after the last.      *)
(***************************************************************************)
LEMMA WithinBlock ==
  ASSUME IndInv, NEW p, NEW upto, NEW nth, NEW m, SessionCell(p, upto, nth, m), Walked(p, upto, nth, m),
         step = "token", block < Len(spans),
         spans[block + 1].from <= at, at <= spans[block + 1].to, target = upto[spans[block + 1].to],
         out = SubSeq(data, 1, upto[at])
  PROVE  LET s == spans[block + 1]
         IN /\ s.to \in Nat /\ at \in Nat /\ data \in Seq(Nat) /\ s.to <= Len(payload)
            /\ upto[at] \in 0..Len(data) /\ Len(out) = upto[at] /\ target \in 0..Len(data)
            /\ at < s.to => /\ payload[at + 1] \in Tokens /\ TrueAt(data, upto[at], payload[at + 1])
                            /\ upto[at + 1] = upto[at] + payload[at + 1].len
                            /\ upto[at + 1] \in 0..Len(data) /\ upto[at] < upto[at + 1] /\ upto[at + 1] <= target
<1> DEFINE s == spans[block + 1]
<1>1. block \in Nat /\ block + 1 \in 1..Len(spans) /\ at \in Nat
  BY DEF IndInv, SessionTypeOK
<1>2. /\ s.from \in Nat /\ s.to \in Nat /\ s.from < s.to /\ s.to <= m /\ m <= Len(payload) /\ m <= Len(p)
      /\ \A k \in (s.from + 1)..s.to : p[k].kind = "token"
  BY <1>1, SpanSpells
<1>3. /\ p \in Seq(Cells) /\ data \in Seq(Nat) /\ Spells(data, p, upto) /\ m \in Nat
      /\ Len(p) \in Nat /\ Len(payload) \in Nat /\ \A k \in 1..m : payload[k] = p[k]
  <2>1. p \in Seq(Cells) /\ data \in Seq(Nat) /\ Spells(data, p, upto) /\ \A k \in 1..m : payload[k] = p[k]
    BY DEF SessionCell, Whole
  <2>2. m \in 0..Len(p) /\ Len(payload) \in Nat
    BY DEF SessionCell, Boundary, IndInv, SessionTypeOK
  <2> QED BY <2>1, <2>2
<1>4. s.from <= at /\ at <= s.to /\ target = upto[s.to] /\ out = SubSeq(data, 1, upto[at])
  OBVIOUS
<1> HIDE DEF s
<1>5. at \in 0..Len(p) /\ s.to \in 0..Len(p) /\ s.to <= Len(payload)
  BY <1>1, <1>2, <1>3, <1>4
<1>6. upto[at] \in 0..Len(data) /\ target \in 0..Len(data)
  BY <1>3, <1>4, <1>5, SpelledTokens
<1>7. Len(out) = upto[at]
  BY <1>3, <1>4, <1>6
<1>8. ASSUME at < s.to
      PROVE  /\ payload[at + 1] \in Tokens /\ TrueAt(data, upto[at], payload[at + 1])
             /\ upto[at + 1] = upto[at] + payload[at + 1].len
             /\ upto[at + 1] \in 0..Len(data) /\ upto[at] < upto[at + 1] /\ upto[at + 1] <= target
  <2> DEFINE k == at + 1
  <2>1. /\ k \in (s.from + 1)..s.to /\ k \in 1..Len(p) /\ k \in 1..m /\ k - 1 = at
        /\ k \in 0..Len(p) /\ s.to \in k..Len(p)
    <3>1. /\ at \in Nat /\ s.from \in Nat /\ s.to \in Nat /\ m \in Nat /\ Len(p) \in Nat
          /\ s.from <= at /\ at < s.to /\ s.to <= m /\ m <= Len(p)
      BY <1>1, <1>2, <1>3, <1>4, <1>8
    <3> QED BY <3>1
  <2>2. payload[k] = p[k] /\ p[k].kind = "token"
    BY <1>2, <1>3, <2>1
  <2> HIDE DEF k
  <2>3. p[k] \in Tokens /\ TrueAt(data, upto[k - 1], p[k]) /\ upto[k] = upto[k - 1] + p[k].len
    BY <1>3, <2>1, <2>2, SpelledTokens
  <2>4. upto[k] \in 0..Len(data) /\ Counts(p, upto)
    BY <1>3, <2>1, SpelledTokens
  <2>5. upto[k] <= target
    BY SMTT(30), <1>3, <1>4, <2>1, <2>4, CountsRise
  <2>6. p[k].len \in Nat /\ p[k].len > 0
    BY <2>3, TokenFields DEF TrueAt
  <2>7. upto[at] < upto[k]
    BY <1>6, <2>1, <2>3, <2>6
  <2> QED BY <2>1, <2>2, <2>3, <2>4, <2>5, <2>7 DEF k
<1> QED BY <1>1, <1>2, <1>3, <1>5, <1>6, <1>7, <1>8 DEF s

LEMMA DecodeTokenFollows ==
  ASSUME CellInv, NEW p, NEW upto, NEW nth, NEW m, SessionCell(p, upto, nth, m), SessionRead(p, upto, nth, m),
         DecodeToken, UNCHANGED cellVars
  PROVE  SessionRead(p, upto, nth, m)'
<1> DEFINE s == spans[block + 1]
           t == payload[at + 1]
<1>1. /\ IndInv /\ step = "token" /\ Walked(p, upto, nth, m)
      /\ offset = m /\ offset = Len(payload) /\ spans # << >> /\ offset = EndOf(Len(spans))
      /\ s.from <= at /\ at <= s.to /\ target = upto[s.to]
      /\ out = SubSeq(data, 1, upto[at]) /\ Len(out) < target
  BY DEF DecodeToken, CellInv, PhaseInv, SessionSteps, SessionRead
<1>2. block < Len(spans)
  BY <1>1 DEF IndInv, SizesInv, OutFollows
<1>3. /\ s.to \in Nat /\ at \in Nat /\ data \in Seq(Nat)
      /\ upto[at] \in 0..Len(data) /\ Len(out) = upto[at] /\ target \in 0..Len(data)
      /\ at < s.to => /\ t \in Tokens /\ TrueAt(data, upto[at], t) /\ upto[at + 1] = upto[at] + t.len
                      /\ upto[at + 1] \in 0..Len(data) /\ upto[at] < upto[at + 1] /\ upto[at + 1] <= target
  BY <1>1, <1>2, WithinBlock
<1>4. at < s.to
  <2> SUFFICES ASSUME at = s.to PROVE FALSE
    BY <1>1, <1>3
  <2> HIDE DEF s
  <2> QED BY <1>1, <1>3
<1>5. t.kind = "token" /\ t.back \in Nat /\ t.len \in Nat
  BY <1>3, <1>4, TokenFields
<1>6. Fits(t)
  <2>1. t.back <= upto[at] /\ upto[at] + t.len <= target
    BY <1>3, <1>4, <1>5 DEF TrueAt
  <2> QED BY <1>3, <2>1 DEF Fits
<1>7. /\ out' = Expanded(t) /\ at' = at + 1
      /\ UNCHANGED <<payload, spans, offset, total, block, target, step>>
  <2>1. ~(at >= s.to)
    BY <1>3, <1>4
  <2> QED BY <1>5, <1>6, <2>1 DEF DecodeToken
<1>8. out' = SubSeq(data, 1, upto[at + 1])
  <2> HIDE DEF t
  <2> QED BY <1>1, <1>3, <1>4, <1>7, TokenExtends
<1>9. Walked(p, upto, nth, m)'
  BY <1>1, <1>7 DEF Walked, SpansOf
<1>10. s.from <= at' /\ at' <= s.to
  <2>1. s.from \in Nat
    <3>1. block + 1 \in 1..Len(spans) /\ spans \in Seq(Spans)
      BY <1>1, <1>2 DEF IndInv, SessionTypeOK
    <3>2. s \in Spans
      BY <3>1
    <3> HIDE DEF s
    <3> QED BY <3>2, SpanFields
  <2> HIDE DEF s
  <2> QED BY SMTT(30), <1>1, <1>3, <1>4, <1>7, <2>1
<1>11. spans'[block' + 1] = s /\ data' = data
  BY <1>7 DEF cellVars
<1> HIDE DEF s
<1> QED BY <1>1, <1>7, <1>8, <1>9, <1>10, <1>11 DEF SessionRead, EndOf

LEMMA EndBlockFollows ==
  ASSUME CellInv, NEW p, NEW upto, NEW nth, NEW m, SessionCell(p, upto, nth, m), SessionRead(p, upto, nth, m),
         EndBlock, UNCHANGED cellVars
  PROVE  SessionRead(p, upto, nth, m)'
<1> DEFINE s == spans[block + 1]
<1>1. /\ IndInv /\ step = "token" /\ Walked(p, upto, nth, m)
      /\ offset = m /\ offset = Len(payload) /\ spans # << >> /\ offset = EndOf(Len(spans))
      /\ s.from <= at /\ at <= s.to /\ target = upto[s.to]
      /\ out = SubSeq(data, 1, upto[at]) /\ Len(out) >= target
  BY DEF EndBlock, CellInv, PhaseInv, SessionSteps, SessionRead
<1>2. block < Len(spans)
  BY <1>1 DEF IndInv, SizesInv, OutFollows
<1>3. /\ s.to \in Nat /\ at \in Nat
      /\ upto[at] \in 0..Len(data) /\ Len(out) = upto[at] /\ target \in 0..Len(data)
      /\ at < s.to => upto[at + 1] \in 0..Len(data) /\ upto[at] < upto[at + 1] /\ upto[at + 1] <= target
  BY <1>1, <1>2, WithinBlock
<1>4. at = s.to
  <2> SUFFICES ASSUME at < s.to PROVE FALSE
    BY <1>1, <1>3
  <2> HIDE DEF s
  <2> QED BY <1>1, <1>3
<1>5. Len(out) = target
  BY <1>1, <1>3, <1>4
<1>6. /\ block' = block + 1 /\ step' = "block"
      /\ UNCHANGED <<payload, spans, offset, total, at, target, out>>
  BY <1>4, <1>5 DEF EndBlock
<1>7. Walked(p, upto, nth, m)'
  BY <1>1, <1>6 DEF Walked, SpansOf
<1>8. EndOf(block)' = s.to
  <2>1. block \in Nat /\ block + 1 # 0
    BY <1>1 DEF IndInv, SessionTypeOK
  <2> QED BY <1>6, <2>1 DEF EndOf
<1> HIDE DEF s
<1>9. out' = SubSeq(data', 1, upto[EndOf(block)'])
  BY <1>1, <1>4, <1>6, <1>8 DEF cellVars
<1>10. EndOf(Len(spans))' = EndOf(Len(spans))
  BY <1>6 DEF EndOf
<1> QED BY <1>1, <1>6, <1>7, <1>9, <1>10 DEF SessionRead

LEMMA EndBlocksFollows ==
  ASSUME CellInv, NEW p, NEW upto, NEW nth, NEW m, SessionCell(p, upto, nth, m), SessionRead(p, upto, nth, m),
         EndBlocks, UNCHANGED cellVars
  PROVE  SessionRead(p, upto, nth, m)'
<1>1. /\ IndInv /\ step = "block" /\ Walked(p, upto, nth, m)
      /\ offset = m /\ offset = Len(payload) /\ spans # << >> /\ offset = EndOf(Len(spans))
      /\ out = SubSeq(data, 1, upto[EndOf(block)]) /\ block >= Len(spans)
      /\ step' = "decoded" /\ UNCHANGED <<payload, readingVars>>
  BY DEF EndBlocks, CellInv, PhaseInv, SessionSteps, SessionRead
<1>2. block = Len(spans)
  BY <1>1 DEF IndInv, SessionTypeOK
<1>3. Walked(p, upto, nth, m)'
  BY <1>1 DEF Walked, SpansOf, readingVars
<1>4. EndOf(Len(spans))' = EndOf(Len(spans))
  BY <1>1 DEF EndOf, readingVars
<1>5. out' = SubSeq(data', 1, upto[offset']) /\ offset' = offset /\ ends' = ends
  BY <1>1, <1>2 DEF readingVars, cellVars
<1>6. upto[offset] \in ends
  <2>1. Len(spans) \in 1..Len(spans) /\ EndOf(Len(spans)) = spans[Len(spans)].to
    BY <1>1 DEF IndInv, SessionTypeOK, EndOf
  <2>2. upto[spans[Len(spans)].to] \in ends
    BY <1>1, <2>1, SpanSpells
  <2> QED BY <1>1, <2>1, <2>2
<1> QED BY <1>1, <1>3, <1>4, <1>5, <1>6 DEF SessionRead, readingVars

----------------------------------------------------------------------------
(* Cells of every format *)

CellData ==
  /\ id \in Codecs => field.plain = data /\ damage \notin {"id", "erased"}
  /\ step = "compress" => ends = {Len(data)}

CellFollows == CellInv /\ CellData /\ PlainFollows /\ SessionFollows

LEMMA CheckSession ==
  ASSUME CellInv, CellData, NEW p, NEW upto, NEW nth, NEW m,
         SessionCell(p, upto, nth, m), SessionRead(p, upto, nth, m), CheckPlain, id = "XPRESS9"
  PROVE  SessionRead(p, upto, nth, m)'
<1>1. /\ step = "decoded" /\ step' \in {"error", "done"} /\ UNCHANGED <<payload, readingVars, cellVars>>
      /\ step' = "error" => ~Verified
  BY DEF CheckPlain, Go, CellInv, PhaseInv, PlainSteps, Sized
<1>2. /\ Walked(p, upto, nth, m) /\ offset = m /\ offset = Len(payload) /\ spans # << >>
      /\ offset = EndOf(Len(spans))
      /\ out = SubSeq(data, 1, upto[offset]) /\ upto[offset] \in ends
  BY <1>1 DEF SessionRead, SessionSteps
<1>3. Walked(p, upto, nth, m)' /\ EndOf(Len(spans))' = EndOf(Len(spans))
  BY <1>1, <1>2 DEF Walked, SpansOf, EndOf, readingVars
<1>4. ASSUME damage = "none" PROVE Verified
  <2>1. m = Len(p) /\ upto[Len(p)] = Len(data) /\ data \in Seq(Nat)
    BY <1>4 DEF SessionCell, Whole, Spells
  <2>2. out = data
    <3>1. out = SubSeq(data, 1, Len(data))
      BY <1>2, <2>1
    <3> QED BY <2>1, <3>1
  <2>3. field.plain = data
    BY DEF CellData, Codecs
  <2> QED BY <2>2, <2>3 DEF Verified
<1>5. step' = "error" => damage # "none"
  BY <1>1, <1>4
<1> QED BY <1>1, <1>2, <1>3, <1>5 DEF SessionRead, readingVars, cellVars

LEMMA SessionStays ==
  ASSUME NEW p, NEW upto, NEW nth, NEW m, SessionRead(p, upto, nth, m), UNCHANGED vars
  PROVE  SessionRead(p, upto, nth, m)'
<1> USE DEF vars, sessionVars, readingVars, cellVars
<1>1. Walked(p, upto, nth, m) => Walked(p, upto, nth, m)'
  BY DEF Walked, SpansOf
<1>2. Asked' = Asked /\ EndOf(Len(spans))' = EndOf(Len(spans)) /\ EndOf(block)' = EndOf(block)
  BY DEF Asked, EndOf
<1> QED BY <1>1, <1>2 DEF SessionRead

LEMMA SessionFollowsNext ==
  CellFollows /\ (DecompressCell \/ UNCHANGED vars) => SessionFollows'
<1> SUFFICES ASSUME CellFollows, DecompressCell \/ UNCHANGED vars, (sound /\ id = "XPRESS9" /\ damage # "token")'
             PROVE  SessionFollows'
  BY DEF SessionFollows
<1>1. UNCHANGED <<payload, cellVars>>
  BY DEF DecompressCell, Dispatch, CheckPacked, PlainToken, PlainEnd, CheckPlain, Go, SessionNext, WalkBlock,
         WalkEnd, CheckTotal, StartBlock, DecodeToken, EndBlock, EndBlocks, Refuse, vars, sessionVars
<1>2. sound /\ id = "XPRESS9" /\ damage # "token"
  BY <1>1 DEF cellVars
<1>3. PICK p, upto, nth, m : SessionCell(p, upto, nth, m) /\ SessionRead(p, upto, nth, m)
  BY <1>2 DEF CellFollows, SessionFollows
<1>4. SessionCell(p, upto, nth, m)'
  BY <1>1, <1>3, SessionCellStays
<1>5. CellInv /\ CellData
  BY DEF CellFollows
<1>6. ~CheckPacked /\ ~PlainToken /\ ~PlainEnd
  BY <1>2, <1>5 DEF CheckPacked, PlainToken, PlainEnd, CellInv, PhaseInv, PlainSteps, Sized
<1>7. CASE SessionNext /\ UNCHANGED cellVars
  BY <1>3, <1>5, <1>7, WalkBlockFollows, WalkEndFollows, CheckTotalFollows, StartBlockFollows, DecodeTokenFollows,
     EndBlockFollows, EndBlocksFollows, <1>4 DEF SessionNext, SessionFollows
<1>8. CASE Dispatch
  BY <1>2, <1>3, <1>4, <1>5, <1>8, SessionDispatch DEF SessionFollows
<1>9. CASE CheckPlain
  BY <1>2, <1>3, <1>4, <1>5, <1>9, CheckSession DEF SessionFollows
<1>10. CASE UNCHANGED vars
  BY <1>3, <1>4, <1>10, SessionStays DEF SessionFollows
<1> QED BY <1>6, <1>7, <1>8, <1>9, <1>10 DEF DecompressCell

LEMMA CellDataNext == CellInv /\ CellData /\ [Next]_vars => CellData'
<1> SUFFICES ASSUME CellInv, CellData, [Next]_vars PROVE CellData'
  OBVIOUS
<1>1. CASE UNCHANGED cellVars /\ (step' = "compress" => step = "compress")
  BY <1>1 DEF CellData, cellVars
<1>2. CASE DecompressCell
  <2>1. UNCHANGED cellVars
    BY <1>2 DEF DecompressCell, Dispatch, CheckPacked, PlainToken, PlainEnd, CheckPlain, Go
  <2>2. CASE SessionNext
    BY <1>1, <2>1, <2>2 DEF SessionNext, WalkBlock, WalkEnd, CheckTotal, StartBlock, DecodeToken, EndBlock,
                            EndBlocks, Refuse
  <2>3. CASE Dispatch
    <3>1. step' # "compress"
      BY <2>3, DispatchFacts
    <3> QED BY <1>1, <2>1, <3>1
  <2>4. CASE CheckPacked \/ PlainToken \/ PlainEnd \/ CheckPlain
    BY <1>1, <2>1, <2>4 DEF CheckPacked, PlainToken, PlainEnd, CheckPlain, Go
  <2> QED BY <1>2, <2>2, <2>3, <2>4 DEF DecompressCell
<1>3. CASE Compress
  <2>1. CASE step' = "refused"
    <3>1. UNCHANGED cellVars
      BY <1>3, <2>1 DEF Compress, Go
    <3> QED BY <1>1, <2>1, <3>1
  <2>2. CASE step' # "refused"
    <3>1. /\ step' = "stored" /\ data' = data /\ damage' = damage
          /\ field' = [size |-> Len(data), plain |-> data, packed |-> payload']
      BY <1>3, <2>2, CompressFacts
    <3>2. damage = "none"
      BY <1>3 DEF Compress, CellInv, PhaseInv
    <3> QED BY <3>1, <3>2 DEF CellData
  <2> QED BY <2>1, <2>2
<1>4. CASE CompressSentinel
  BY <1>1, <1>4 DEF CompressSentinel, Go
<1>5. CASE Damage
  <2>1. /\ id' # id => id' \notin Codecs
        /\ step = "stored" /\ UNCHANGED <<step, data>>
    BY <1>5, DamageTypes
  <2>2. CASE id' \notin Codecs
    BY <2>1, <2>2 DEF CellData
  <2>3. CASE id' \in Codecs
    <3>1. id' = id /\ field.plain = data
      BY <2>1, <2>3 DEF CellData
    <3>2. ~Erase /\ ~AlterId
      BY <2>3 DEF Erase, AlterId, Codecs
    <3>3. damage' \notin {"id", "erased"}
      BY <1>5, <3>2 DEF Damage, Cut, AlterToken, AlterSize, AlterHeader, Rearrange, Splice, Befalls
    <3>4. field'.plain = field.plain
      <4>1. CASE AlterSize
        <5>1. PICK n : field' = [field EXCEPT !.size = n]
          BY <4>1 DEF AlterSize
        <5>2. field \in Fields
          BY DEF CellInv, CellTypeOK
        <5> QED BY <5>1, <5>2 DEF Fields
      <4>2. CASE ~AlterSize
        BY <1>5, <3>2, <4>2 DEF Damage, Cut, AlterToken, AlterHeader, Rearrange, Splice
      <4> QED BY <4>1, <4>2
    <3> QED BY <2>1, <3>1, <3>3, <3>4 DEF CellData
  <2> QED BY <2>2, <2>3
<1>6. CASE UNCHANGED vars
  BY <1>1, <1>6 DEF vars, sessionVars
<1> QED BY <1>2, <1>3, <1>4, <1>5, <1>6 DEF Next, CompressCell, Returned

LEMMA CellFollowsInit == Init => CellFollows
<1> SUFFICES ASSUME Init PROVE CellFollows
  OBVIOUS
<1>1. id \in {"NONE", "XPRESS9"} /\ damage = "none"
  BY DEF Init
<1>2. CellData
  <2>1. step = "compress" => ends = {Len(data)}
    BY DEF Init
  <2>2. id \in Codecs => field.plain = data
    BY <1>1 DEF Init, Codecs, NoField
  <2> QED BY <1>1, <2>1, <2>2 DEF CellData
<1>3. PlainFollows
  BY <1>1 DEF PlainFollows, Sized, Codecs
<1> QED BY <1>2, <1>3, CellInit, SessionInitially DEF CellFollows

LEMMA CellFollowsNext == CellFollows /\ [Next]_vars => CellFollows'
<1> SUFFICES ASSUME CellFollows, [Next]_vars PROVE CellFollows'
  OBVIOUS
<1>0. CellInv /\ CellData /\ PlainFollows /\ SessionFollows
  BY DEF CellFollows
<1>1. CellInv' /\ CellData'
  BY <1>0, CellStep, CellDataNext
<1>2. CASE Compress
  <2>1. ends = {Len(data)}
    BY <1>0, <1>2 DEF Compress, CellData
  <2> QED BY <1>0, <1>1, <1>2, <2>1, PlainCompress, SessionCompress DEF CellFollows
<1>3. CASE CompressSentinel
  <2>1. SessionFollows'
    BY <1>0, <1>3 DEF CompressSentinel, Go, cellVars, CellInv, PhaseInv, SessionFollows
  <2> QED BY <1>0, <1>1, <1>3, <2>1, PlainStays DEF CellFollows
<1>4. CASE Damage
  BY <1>0, <1>1, <1>4, PlainDamage, SessionDamage DEF CellFollows
<1>5. CASE DecompressCell
  <2>1. SessionFollows'
    BY <1>5, SessionFollowsNext
  <2>2. PlainFollows'
    BY <1>0, <1>5, PlainDispatch, PlainCheckPacked, PlainTokenFollows, PlainEndFollows, CheckPlainFollows,
       PlainStays DEF DecompressCell
  <2> QED BY <1>1, <2>1, <2>2 DEF CellFollows
<1>6. CASE UNCHANGED vars
  BY <1>0, <1>1, <1>6, PlainStays, SessionFollowsNext DEF CellFollows
<1> QED BY <1>2, <1>3, <1>4, <1>5, <1>6 DEF Next, CompressCell, Returned

(***************************************************************************)
(* What an undamaged cell of a format with a size field is decoded to.     *)
(***************************************************************************)
LEMMA PlainDone ==
  ASSUME CellFollows, id \in Sized, step = "done", NEW p, NEW upto, PlainCell(p, upto), PlainRead(upto)
  PROVE  /\ damage = "none" => out = data
         /\ id = "XPRESS" /\ Faithful /\ damage # "cut" => out = data
         /\ damage = "cut" => Len(out) < Len(data) /\ Prefix(Len(out))
<1>1. CellInv
  BY DEF CellFollows
<1>2. damage # "size" => field.size = Len(data)
  BY DEF PlainCell
<1>3. id = "XPRESS" => at = Len(payload)
  BY DEF PlainRead
<1>4. id # "XPRESS" => Len(out) = field.size
  BY <1>1 DEF CellInv, SizeInv, Sized, Codecs
<1> QED BY <1>1, <1>2, <1>3, <1>4, PlainEndsAt DEF Faithful

(***************************************************************************)
(* An undamaged cell gives back its plaintext, whatever its format, its    *)
(* tokens and the sizes of its blocks.                                     *)
(***************************************************************************)
THEOREM CellsGiveBack == Spec => []CellsComeBack
<1>1. CellFollows => CellsComeBack
  <2> SUFFICES ASSUME CellFollows, sound, damage = "none", id \in Codecs
               PROVE  /\ step = "done" => out = data
                      /\ step = "error" => Asked # id \/ (id = "XPRESS9" /\ Len(data) > MaxDecoded)
    BY DEF CellsComeBack
  <2>1. CASE id \in Sized
    <3>1. PICK p, upto : PlainCell(p, upto) /\ PlainRead(upto)
      BY <2>1 DEF CellFollows, PlainFollows
    <3>2. step = "error" => Asked # id
      BY <3>1 DEF PlainRead
    <3> QED BY <2>1, <3>1, <3>2, PlainDone
  <2>2. CASE id = "XPRESS9"
    <3>1. PICK p, upto, nth, m : SessionCell(p, upto, nth, m) /\ SessionRead(p, upto, nth, m)
      BY <2>2 DEF CellFollows, SessionFollows
    <3>2. m = Len(p) /\ upto[Len(p)] = Len(data) /\ data \in Seq(Nat)
      BY <3>1 DEF SessionCell, Whole, Spells
    <3>3. step = "done" => offset = m /\ out = SubSeq(data, 1, upto[offset])
      BY <3>1 DEF SessionRead
    <3>4. step = "error" => Asked # id \/ Len(data) > MaxDecoded
      BY <3>1 DEF SessionRead
    <3> QED BY <2>2, <3>2, <3>3, <3>4
  <2> QED BY <2>1, <2>2 DEF Sized
<1> QED BY <1>1, CellFollowsInit, CellFollowsNext, PTL DEF Spec

(***************************************************************************)
(* What decompress may make of a damaged cell: with a checksum nothing but *)
(* the plaintext; of XPRESS9 blocks lost, moved, repeated or spliced at    *)
(* worst a plaintext that ends between blocks; of a wrong record header or *)
(* first byte nothing at all.                                              *)
(***************************************************************************)
THEOREM DamageIsNoticed == Spec => []DamageNoticed
<1>1. CellFollows => DamageNoticed
  <2> SUFFICES ASSUME CellFollows, sound, damage # "none", step = "done"
               PROVE  DamageNoticed
    BY DEF DamageNoticed
  <2>0. CellInv /\ CellData /\ id \in Codecs
    BY DEF CellFollows, CellInv, PhaseInv
  <2>1. damage \notin {"id", "erased"} /\ field.plain = data
    BY <2>0 DEF CellData
  <2>2. verify => Verified
    BY <2>0 DEF CellInv, SizeInv
  <2>3. CASE id \in Sized
    <3>1. PICK p, upto : PlainCell(p, upto) /\ PlainRead(upto)
      BY <2>3 DEF CellFollows, PlainFollows
    <3>2. /\ damage \in {"cut", "token", "size"}
          /\ damage = "size" => field.size # Len(data)
          /\ damage # "size" => field.size = Len(data)
      BY <3>1 DEF PlainCell
    <3>3. /\ damage = "cut" => Len(out) < Len(data) /\ Prefix(Len(out))
          /\ id = "XPRESS" /\ damage = "size" => out = data
      BY <2>3, <3>1, PlainDone DEF Faithful
    <3>4. Len(data) \in Nat /\ Len(out) \in Nat
      BY <2>0 DEF CellInv, CellTypeOK
    <3>5. verify /\ id = "XPRESS" => damage = "token" /\ Len(out) = Len(data)
      BY <2>2, <3>2, <3>3, <3>4 DEF Verified
    <3>6. verify /\ id = "XPRESS10" => out = data
      BY <2>1, <2>2 DEF Verified
    <3>7. damage = "cut" => id = "XPRESS"
      BY <2>0, <2>3, <3>2, <3>3, <3>4 DEF CellInv, SizeInv, Sized, Codecs
    <3> QED BY <2>3, <3>2, <3>3, <3>5, <3>6, <3>7 DEF DamageNoticed, Sized
  <2>4. CASE id = "XPRESS9"
    <3>1. verify => out = data
      BY <2>1, <2>2, <2>4 DEF Verified
    <3>2. ASSUME damage # "token"
          PROVE  damage # "header" /\ \E n \in ends : Prefix(n)
      <4>1. PICK p, upto, nth, m : SessionCell(p, upto, nth, m) /\ SessionRead(p, upto, nth, m)
        BY <2>4, <3>2 DEF CellFollows, SessionFollows
      <4>2. /\ offset = m /\ offset = Len(payload)
            /\ out = SubSeq(data, 1, upto[offset]) /\ upto[offset] \in ends
        BY <4>1 DEF SessionRead
      <4>3. damage # "header"
        BY <2>0, <4>1, <4>2 DEF SessionCell, CellInv, CellTypeOK
      <4> QED BY <4>2, <4>3 DEF Prefix
    <3> QED BY <2>1, <2>4, <3>1, <3>2 DEF DamageNoticed
  <2> QED BY <2>0, <2>3, <2>4 DEF Sized
<1> QED BY <1>1, CellFollowsInit, CellFollowsNext, PTL DEF Spec

(***************************************************************************)
(* What _session_blocks accepts of a cell, damaged or not, are the blocks  *)
(* of one session, and decompress produces no more than they declare.      *)
(***************************************************************************)
THEOREM CellsOfOneSession == Spec => []OneSession
<1>1. CellInv => OneSession
  <2> SUFFICES ASSUME CellInv PROVE OneSession
    OBVIOUS
  <2>1. CASE step \in SessionSteps
    BY <2>1, OneSessionFollows DEF CellInv, PhaseInv
  <2>2. CASE step \notin SessionSteps
    BY <2>2 DEF CellInv, PhaseInv, OneSession, SessionSteps
  <2> QED BY <2>1, <2>2
<1> QED BY <1>1, CellInit, CellStep, PTL DEF Spec

----------------------------------------------------------------------------
(***************************************************************************)
(* The 7-bit formats, for texts of any length.  The bits of the text are   *)
(* numbered from zero through all its units, and zeros follow them.  Both  *)
(* accumulators, every byte of the cell and every unit that is read hold a *)
(* stretch of these bits, whose first number is known from how many bytes  *)
(* and units were moved so far.                                            *)
(***************************************************************************)

Bit == {0, 1}

\* The bits of a text T, and a sequence s of those from j on.
TextBit(T, j) == IF j < UnitBits * Len(T) THEN T[j \div UnitBits + 1][(j % UnitBits) + 1] ELSE 0
Stretch(T, s, j) == \A b \in 1..Len(s) : s[b] = TextBit(T, j + b - 1)

ZeroUnit == [b \in 1..UnitBits |-> 0]

Packing == stage \in {"text", "refused", "pack"}
CellSize == (TextLen * UnitBits + ByteBits - 1) \div ByteBits

PackedInv == \A i \in 1..Len(packed) : Stretch(units, packed[i], ByteBits * (i - 1))
ReadInv   == \A i \in 1..Len(read) : Stretch(units, read[i], UnitBits * (i - 1))

\* _pack_units, up to the last byte, and the cell it leaves.
PackInv ==
  /\ PackedInv
  /\ stage \in {"text", "refused"} => fed = 0 /\ packed = << >> /\ acc = << >>
  /\ stage = "pack" => /\ TextLen > 0
                       /\ ByteBits * Len(packed) + Len(acc) = UnitBits * fed
                       /\ Stretch(units, acc, ByteBits * Len(packed))
  /\ ~Packing => TextLen > 0 /\ Len(packed) = CellSize

\* _unpack_units
UnpackInv ==
  /\ ReadInv
  /\ Packing \/ stage = "cell" => rat = 0 /\ racc = << >> /\ read = << >>
  /\ UnitBits * Len(read) + Len(racc) = ByteBits * rat
  /\ Stretch(units, racc, UnitBits * Len(read))
  /\ ~Packing => Len(packed) > 0
  /\ stage \in {"unpack", "done"} => Len(read) <= UnitCount
  /\ stage = "done" => Len(read) = UnitCount
  /\ stage = "error" => flags < FinalBitsBiased(TextLen)

TextInv == SevenBitTypeOK /\ PackInv /\ UnpackInv

----------------------------------------------------------------------------
(* Stretches of bits *)

LEMMA BitWordIsSeq ==
  ASSUME NEW k \in Nat, NEW s \in [1..k -> Bit]
  PROVE  s \in Seq(Bit) /\ Len(s) = k
OBVIOUS

LEMMA SeqIsBitWord ==
  ASSUME NEW s \in Seq(Bit)
  PROVE  s \in [1..Len(s) -> Bit]
OBVIOUS

(***************************************************************************)
(* Two stretches that follow one another are one.                          *)
(***************************************************************************)
LEMMA StretchesJoin ==
  ASSUME NEW T, NEW j \in Nat, NEW s \in Seq(Bit), NEW t \in Seq(Bit),
         Stretch(T, s, j), Stretch(T, t, j + Len(s))
  PROVE  /\ s \o t \in Seq(Bit) /\ Len(s \o t) = Len(s) + Len(t)
         /\ Stretch(T, s \o t, j)
<1>1. s \o t \in Seq(Bit) /\ Len(s \o t) = Len(s) + Len(t)
  BY ConcatProperties
<1>2. ASSUME NEW b \in 1..Len(s \o t) PROVE (s \o t)[b] = TextBit(T, j + b - 1)
  <2>1. CASE b <= Len(s)
    <3>1. b \in 1..Len(s) /\ (s \o t)[b] = s[b]
      BY <1>1, <2>1
    <3> QED BY <3>1 DEF Stretch
  <2>2. CASE b > Len(s)
    <3>1. b - Len(s) \in 1..Len(t) /\ (s \o t)[b] = t[b - Len(s)]
      BY <1>1, <2>2
    <3>2. j + Len(s) + (b - Len(s)) - 1 = j + b - 1
      BY <1>1
    <3> QED BY <3>1, <3>2 DEF Stretch
  <2> QED BY <1>1, <2>1, <2>2
<1> QED BY <1>1, <1>2 DEF Stretch

(***************************************************************************)
(* The first k bits of a stretch, and those after them.                    *)
(***************************************************************************)
LEMMA StretchSplits ==
  ASSUME NEW T, NEW j \in Nat, NEW s \in Seq(Bit), NEW k \in Nat, k <= Len(s),
         Stretch(T, s, j)
  PROVE  /\ First(s, k) \in [1..k -> Bit] /\ Len(First(s, k)) = k
         /\ After(s, k) \in Seq(Bit) /\ Len(After(s, k)) = Len(s) - k
         /\ Stretch(T, First(s, k), j) /\ Stretch(T, After(s, k), j + k)
<1>1. First(s, k) \in Seq(Bit) /\ Len(First(s, k)) = k /\ \A b \in 1..k : First(s, k)[b] = s[b]
  BY DEF First
<1>2. /\ After(s, k) \in Seq(Bit) /\ Len(After(s, k)) = Len(s) - k
      /\ \A b \in 1..(Len(s) - k) : After(s, k)[b] = s[k + b]
  BY DEF After
<1>3. Stretch(T, First(s, k), j)
  <2> SUFFICES ASSUME NEW b \in 1..k PROVE First(s, k)[b] = TextBit(T, j + b - 1)
    BY <1>1 DEF Stretch
  <2>1. b \in 1..Len(s)
    OBVIOUS
  <2> QED BY <1>1, <2>1 DEF Stretch
<1>4. Stretch(T, After(s, k), j + k)
  <2> SUFFICES ASSUME NEW b \in 1..(Len(s) - k)
               PROVE  After(s, k)[b] = TextBit(T, j + k + b - 1)
    BY <1>2 DEF Stretch
  <2>1. k + b \in 1..Len(s) /\ j + (k + b) - 1 = j + k + b - 1
    OBVIOUS
  <2> QED BY <1>2, <2>1 DEF Stretch
<1> QED BY <1>1, <1>2, <1>3, <1>4, SeqIsBitWord

(***************************************************************************)
(* A unit of the text is the stretch at its place, and no other word is.   *)
(***************************************************************************)
LEMMA UnitIsStretch ==
  ASSUME NEW T \in Seq(UnitValues), NEW i \in 1..Len(T)
  PROVE  /\ T[i] \in Seq(Bit) /\ Len(T[i]) = UnitBits
         /\ Stretch(T, T[i], UnitBits * (i - 1))
<1>1. T[i] \in [1..UnitBits -> Bit]
  BY DEF UnitValues, Bit
<1>2. T[i] \in Seq(Bit) /\ Len(T[i]) = UnitBits
  BY <1>1, BitWordIsSeq DEF UnitBits
<1>3. ASSUME NEW b \in 1..UnitBits
      PROVE  T[i][b] = TextBit(T, UnitBits * (i - 1) + b - 1)
  <2> DEFINE j == UnitBits * (i - 1) + b - 1
  <2>1. j < UnitBits * Len(T) /\ j \div UnitBits + 1 = i /\ (j % UnitBits) + 1 = b
    BY DEF UnitBits
  <2> QED BY <2>1 DEF TextBit
<1> QED BY <1>2, <1>3 DEF Stretch

LEMMA StretchIsUnit ==
  ASSUME NEW T \in Seq(UnitValues), NEW i \in Nat \ {0}, NEW u \in UnitValues,
         Stretch(T, u, UnitBits * (i - 1))
  PROVE  u = IF i <= Len(T) THEN T[i] ELSE ZeroUnit
<1>1. u \in [1..UnitBits -> Bit] /\ Len(u) = UnitBits
  BY BitWordIsSeq DEF UnitValues, Bit, UnitBits
<1>2. CASE i <= Len(T)
  <2>1. T[i] \in [1..UnitBits -> Bit] /\ Len(T[i]) = UnitBits /\ Stretch(T, T[i], UnitBits * (i - 1))
    <3>1. i \in 1..Len(T)
      BY <1>2
    <3>2. Len(T[i]) = UnitBits /\ Stretch(T, T[i], UnitBits * (i - 1))
      BY <3>1, UnitIsStretch
    <3>3. T[i] \in UnitValues
      BY <3>1
    <3> QED BY <3>2, <3>3 DEF UnitValues, Bit
  <2>2. \A b \in 1..UnitBits : u[b] = T[i][b]
    BY <1>1, <2>1 DEF Stretch
  <2> QED BY <1>1, <1>2, <2>1, <2>2
<1>3. CASE i > Len(T)
  <2>1. ASSUME NEW b \in 1..UnitBits PROVE u[b] = 0
    <3>1. ~(UnitBits * (i - 1) + b - 1 < UnitBits * Len(T))
      BY <1>3 DEF UnitBits
    <3> QED BY <1>1, <3>1 DEF Stretch, TextBit
  <2> QED BY <1>1, <1>3, <2>1 DEF ZeroUnit
<1> QED BY <1>2, <1>3

----------------------------------------------------------------------------
(* Counting *)

LEMMA Widths == UnitBits \in Nat /\ ByteBits \in Nat
BY DEF UnitBits, ByteBits

(***************************************************************************)
(* One more unit, with and without a byte moved out of the accumulator.    *)
(***************************************************************************)
LEMMA UnitTaken ==
  ASSUME NEW bytes \in Nat, NEW left \in Nat, NEW k \in Nat,
         left < ByteBits, ByteBits * bytes + left = UnitBits * k
  PROVE  /\ left + UnitBits - ByteBits < ByteBits
         /\ ByteBits * (bytes + 1) = ByteBits * bytes + ByteBits
         /\ ByteBits * (bytes + 1) + (left + UnitBits - ByteBits) = UnitBits * (k + 1)
         /\ ByteBits * bytes + (left + UnitBits) = UnitBits * (k + 1)
BY DEF ByteBits, UnitBits

(***************************************************************************)
(* What is left in the accumulator after the last unit decides whether     *)
(* there is one more byte.                                                 *)
(***************************************************************************)
LEMMA LastByte ==
  ASSUME NEW bytes \in Nat, NEW left \in Nat, NEW k \in Nat,
         left < ByteBits, ByteBits * bytes + left = UnitBits * k
  PROVE  (k * UnitBits + ByteBits - 1) \div ByteBits = IF left = 0 THEN bytes ELSE bytes + 1
BY DEF ByteBits, UnitBits

(***************************************************************************)
(* A cell of k units has one byte at least, and its last byte holds the    *)
(* last bit of the text at the place the flag bits say.                    *)
(***************************************************************************)
LEMMA CellCounts ==
  ASSUME NEW k \in Nat \ {0}
  PROVE  LET bytes == (k * UnitBits + ByteBits - 1) \div ByteBits
         IN /\ bytes \in Nat \ {0}
            /\ FinalBitsBiased(k) \in 0..(ByteBits - 1)
            /\ ByteBits * (bytes - 1) + FinalBitsBiased(k) + 1 = UnitBits * k
BY DEF ByteBits, UnitBits, FinalBitsBiased

(***************************************************************************)
(* The flag bits compress writes announce all the units.                   *)
(***************************************************************************)
LEMMA OwnCountRight ==
  ASSUME TextLen \in Nat \ {0}, Len(packed) = CellSize, flags = FinalBitsBiased(TextLen)
  PROVE  UnitCount = TextLen
<1>1. ByteBits * (Len(packed) - 1) + flags + 1 = UnitBits * TextLen
  BY CellCounts DEF CellSize
<1>2. Len(packed) \in Nat /\ flags \in Nat
  BY CellCounts DEF CellSize
<1>3. (Len(packed) - 1) * ByteBits + FinalBits = UnitBits * TextLen
  BY <1>1, <1>2 DEF FinalBits, ByteBits
<1> QED BY <1>3 DEF UnitCount, UnitBits

----------------------------------------------------------------------------

LEMMA TextInit == SevenBitInit => TextInv
<1> SUFFICES ASSUME SevenBitInit PROVE TextInv
  OBVIOUS
<1> USE SevenBitAssumption DEF SevenBitInit
<1>1. SevenBitTypeOK
  BY DEF SevenBitTypeOK, TextLen, ByteBits, UnitBits
<1>2. PackInv
  BY DEF PackInv, PackedInv, Packing
<1>3. UnpackInv
  BY DEF UnpackInv, ReadInv, Packing, Stretch, UnitBits, ByteBits
<1> QED BY <1>1, <1>2, <1>3 DEF TextInv

LEMMA AcceptStep == TextInv /\ Accept => TextInv'
<1> SUFFICES ASSUME TextInv, Accept PROVE TextInv'
  OBVIOUS
<1>1. stage = "text" /\ stage' \in {"refused", "pack"} /\ UNCHANGED <<packVars, unpackVars>>
  BY DEF Accept
<1>2. SevenBitTypeOK /\ PackInv /\ UnpackInv /\ TextLen \in Nat /\ units \in Seq(UnitValues \union {Dirty})
  BY DEF TextInv, SevenBitTypeOK, TextLen
<1>3. CASE stage' = "pack"
  <2>1. (\A i \in DOMAIN units : units[i] # Dirty) /\ CompressedSize < (IF wide THEN 2 * TextLen ELSE TextLen)
    <3>1. ~(CompressedSize >= (IF wide THEN 2 * TextLen ELSE TextLen))
      BY <1>3 DEF Accept
    <3>2. CompressedSize \in Int
      BY <1>2 DEF CompressedSize, UnitBits, ByteBits
    <3> QED BY <1>2, <1>3, <3>1, <3>2 DEF Accept
  <2>2. units \in Seq(UnitValues)
    BY <1>2, <2>1
  <2>3. TextLen > 0
    BY <1>2, <2>1 DEF CompressedSize, UnitBits, ByteBits
  <2>4. SevenBitTypeOK'
    BY <1>1, <1>2, <1>3, <2>2 DEF SevenBitTypeOK, packVars, unpackVars, TextLen
  <2>5. PackInv'
    BY <1>1, <1>2, <1>3, <2>3
       DEF PackInv, PackedInv, Packing, packVars, TextLen, Stretch, UnitBits, ByteBits
  <2>6. UnpackInv'
    BY <1>1, <1>2, <1>3 DEF UnpackInv, ReadInv, Packing, packVars, unpackVars, TextLen
  <2> QED BY <2>4, <2>5, <2>6 DEF TextInv
<1>4. CASE stage' = "refused"
  <2>1. SevenBitTypeOK'
    BY <1>1, <1>2, <1>4 DEF SevenBitTypeOK, packVars, unpackVars, TextLen
  <2>2. PackInv'
    BY <1>1, <1>2, <1>4 DEF PackInv, PackedInv, Packing, packVars, TextLen
  <2>3. UnpackInv'
    BY <1>1, <1>2, <1>4 DEF UnpackInv, ReadInv, Packing, packVars, unpackVars, TextLen
  <2> QED BY <2>1, <2>2, <2>3 DEF TextInv
<1> QED BY <1>1, <1>3, <1>4

(***************************************************************************)
(* The types in the form the steps use them.                               *)
(***************************************************************************)
LEMMA TypeFacts ==
  ASSUME SevenBitTypeOK
  PROVE  /\ TextLen \in Nat /\ fed \in 0..TextLen /\ Len(packed) \in Nat /\ rat \in 0..Len(packed)
         /\ Len(read) \in Nat /\ Len(acc) \in Nat /\ Len(racc) \in Nat
         /\ Len(acc) < ByteBits /\ Len(racc) < UnitBits + ByteBits
         /\ acc \in Seq(Bit) /\ racc \in Seq(Bit)
         /\ packed \in Seq(Bytes) /\ read \in Seq(UnitValues)
         /\ flags \in 0..(ByteBits - 1) /\ units \in Seq(UnitValues \union {Dirty})
         /\ stage \notin {"text", "refused"} => units \in Seq(UnitValues)
BY DEF SevenBitTypeOK, TextLen, Bit, ByteBits, UnitBits

(***************************************************************************)
(* One more byte on a sequence of bytes that hold the text's bits.         *)
(***************************************************************************)
LEMMA ByteAdded ==
  ASSUME NEW T, NEW p \in Seq(Bytes), NEW c \in Bytes,
         \A i \in 1..Len(p) : Stretch(T, p[i], ByteBits * (i - 1)),
         Stretch(T, c, ByteBits * Len(p))
  PROVE  /\ Append(p, c) \in Seq(Bytes) /\ Len(Append(p, c)) = Len(p) + 1
         /\ \A i \in 1..Len(Append(p, c)) : Stretch(T, Append(p, c)[i], ByteBits * (i - 1))
<1>1. Append(p, c) \in Seq(Bytes) /\ Len(Append(p, c)) = Len(p) + 1
  BY AppendProperties
<1>2. ASSUME NEW i \in 1..(Len(p) + 1) PROVE Stretch(T, Append(p, c)[i], ByteBits * (i - 1))
  <2>1. CASE i <= Len(p)
    <3>1. i \in 1..Len(p) /\ Append(p, c)[i] = p[i]
      BY <2>1
    <3> QED BY <3>1
  <2>2. CASE i > Len(p)
    <3>1. i = Len(p) + 1 /\ Append(p, c)[i] = c /\ i - 1 = Len(p)
      BY <2>2
    <3> QED BY <3>1
  <2> QED BY <2>1, <2>2
<1> QED BY <1>1, <1>2

LEMMA UnitAdded ==
  ASSUME NEW T, NEW p \in Seq(UnitValues), NEW c \in UnitValues,
         \A i \in 1..Len(p) : Stretch(T, p[i], UnitBits * (i - 1)),
         Stretch(T, c, UnitBits * Len(p))
  PROVE  /\ Append(p, c) \in Seq(UnitValues) /\ Len(Append(p, c)) = Len(p) + 1
         /\ \A i \in 1..Len(Append(p, c)) : Stretch(T, Append(p, c)[i], UnitBits * (i - 1))
<1>1. Append(p, c) \in Seq(UnitValues) /\ Len(Append(p, c)) = Len(p) + 1
  BY AppendProperties
<1>2. ASSUME NEW i \in 1..(Len(p) + 1) PROVE Stretch(T, Append(p, c)[i], UnitBits * (i - 1))
  <2>1. CASE i <= Len(p)
    <3>1. i \in 1..Len(p) /\ Append(p, c)[i] = p[i]
      BY <2>1
    <3> QED BY <3>1
  <2>2. CASE i > Len(p)
    <3>1. i = Len(p) + 1 /\ Append(p, c)[i] = c /\ i - 1 = Len(p)
      BY <2>2
    <3> QED BY <3>1
  <2> QED BY <2>1, <2>2
<1> QED BY <1>1, <1>2

LEMMA PackUnitStep == TextInv /\ PackUnit => TextInv'
<1> SUFFICES ASSUME TextInv, PackUnit PROVE TextInv'
  OBVIOUS
<1> DEFINE filled == acc \o units[fed + 1]
           P == Len(packed)
<1>1. /\ stage = "pack" /\ fed < TextLen /\ fed' = fed + 1
      /\ UNCHANGED <<units, wide, flags, unpackVars, stage>>
  BY DEF PackUnit
<1>2. IF Len(filled) >= ByteBits
      THEN packed' = Append(packed, First(filled, ByteBits)) /\ acc' = After(filled, ByteBits)
      ELSE acc' = filled /\ packed' = packed
  BY DEF PackUnit
<1>3. /\ SevenBitTypeOK /\ UnpackInv /\ TextLen > 0
      /\ \A i \in 1..Len(packed) : Stretch(units, packed[i], ByteBits * (i - 1))
      /\ Stretch(units, acc, ByteBits * P)
      /\ ByteBits * P + Len(acc) = UnitBits * fed
  BY <1>1 DEF TextInv, PackInv, PackedInv
<1>4. /\ TextLen \in Nat /\ fed \in 0..TextLen /\ P \in Nat /\ acc \in Seq(Bit) /\ Len(acc) \in Nat /\ Len(acc) < ByteBits
      /\ packed \in Seq(Bytes) /\ units \in Seq(UnitValues)
  BY <1>1, <1>3, TypeFacts
<1>5. /\ units[fed + 1] \in Seq(Bit) /\ Len(units[fed + 1]) = UnitBits
      /\ Stretch(units, units[fed + 1], ByteBits * P + Len(acc))
  <2>1. fed + 1 \in 1..Len(units) /\ (fed + 1) - 1 = fed
    BY <1>1, <1>4 DEF TextLen
  <2> QED BY <1>3, <1>4, <2>1, UnitIsStretch
<1>6. /\ filled \in Seq(Bit) /\ Len(filled) = Len(acc) + UnitBits
      /\ Stretch(units, filled, ByteBits * P)
  <2>1. ByteBits * P \in Nat
    BY <1>4 DEF ByteBits
  <2> QED BY <1>3, <1>4, <1>5, <2>1, StretchesJoin
<1>7. /\ packed' \in Seq(Bytes) /\ acc' \in Seq(Bit) /\ Len(acc') < ByteBits
      /\ ByteBits * Len(packed') + Len(acc') = UnitBits * fed'
      /\ Stretch(units, acc', ByteBits * Len(packed'))
      /\ \A i \in 1..Len(packed') : Stretch(units, packed'[i], ByteBits * (i - 1))
      /\ Len(packed') >= P
  <2> HIDE DEF filled
  <2>0. /\ ByteBits * P \in Nat /\ ByteBits \in Nat /\ UnitBits \in Nat
        /\ Len(acc) + UnitBits - ByteBits < ByteBits
        /\ ByteBits * (P + 1) = ByteBits * P + ByteBits
        /\ ByteBits * (P + 1) + (Len(acc) + UnitBits - ByteBits) = UnitBits * fed'
        /\ ByteBits * P + (Len(acc) + UnitBits) = UnitBits * fed'
    <3>1. fed \in Nat /\ fed' = fed + 1
      BY <1>1, <1>4
    <3>2. ByteBits * P \in Nat
      BY <1>4, Widths DEF ByteBits
    <3>3. ByteBits * P + Len(acc) = UnitBits * fed
      BY <1>3
    <3>4. P \in Nat /\ Len(acc) \in Nat /\ Len(acc) < ByteBits
      BY <1>4
    <3>5. /\ Len(acc) + UnitBits - ByteBits < ByteBits
          /\ ByteBits * (P + 1) = ByteBits * P + ByteBits
          /\ ByteBits * (P + 1) + (Len(acc) + UnitBits - ByteBits) = UnitBits * (fed + 1)
          /\ ByteBits * P + (Len(acc) + UnitBits) = UnitBits * (fed + 1)
      BY <3>1, <3>3, <3>4, UnitTaken
    <3> QED BY <3>1, <3>2, <3>5, Widths
  <2>1. CASE Len(filled) >= ByteBits
    <3>0. ByteBits \in Nat /\ ByteBits <= Len(filled) /\ acc' = After(filled, ByteBits)
      BY <1>2, <1>6, <2>0, <2>1
    <3>1. /\ First(filled, ByteBits) \in Bytes
          /\ acc' \in Seq(Bit) /\ Len(acc') = Len(filled) - ByteBits
          /\ Stretch(units, First(filled, ByteBits), ByteBits * P)
          /\ Stretch(units, acc', ByteBits * P + ByteBits)
      <4> DEFINE j == ByteBits * P
      <4>1. j \in Nat /\ Stretch(units, filled, j) /\ filled \in Seq(Bit)
        BY <1>6, <2>0
      <4> HIDE DEF j
      <4>2. First(filled, ByteBits) \in [1..ByteBits -> Bit]
        BY <3>0, <4>1, StretchSplits
      <4>3. After(filled, ByteBits) \in Seq(Bit)
        BY <3>0, <4>1, StretchSplits
      <4>6. Len(After(filled, ByteBits)) = Len(filled) - ByteBits
        <5> DEFINE k == ByteBits
        <5>1. k \in Nat /\ k <= Len(filled) /\ Len(filled) \in Nat
          BY <3>0, <4>1
        <5> HIDE DEF k
        <5>2. Len(After(filled, k)) = Len(filled) - k
          BY <4>1, <5>1 DEF After
        <5> QED BY <5>2 DEF k
      <4>4. Stretch(units, First(filled, ByteBits), j) /\ Stretch(units, After(filled, ByteBits), j + ByteBits)
        BY <3>0, <4>1, StretchSplits
      <4>5. First(filled, ByteBits) \in Bytes
        BY <4>2 DEF Bytes, Bit
      <4> QED BY <3>0, <4>3, <4>4, <4>5, <4>6 DEF j
    <3>2. packed' = Append(packed, First(filled, ByteBits))
      BY <1>2, <2>1
    <3>3. /\ packed' \in Seq(Bytes) /\ Len(packed') = P + 1
          /\ \A i \in 1..Len(packed') : Stretch(units, packed'[i], ByteBits * (i - 1))
      BY <1>3, <1>4, <3>1, <3>2, ByteAdded
    <3>4. Len(acc') < ByteBits /\ ByteBits * Len(packed') + Len(acc') = UnitBits * fed'
      <4>1. Len(acc') = Len(acc) + UnitBits - ByteBits
        BY <1>4, <1>6, <3>1, Widths
      <4>2. ByteBits * Len(packed') = ByteBits * (P + 1)
        BY <3>3
      <4> QED BY <2>0, <4>1, <4>2
    <3>5. Stretch(units, acc', ByteBits * Len(packed'))
      BY <2>0, <3>1, <3>3
    <3> QED BY <1>4, <3>1, <3>3, <3>4, <3>5
  <2>2. CASE ~(Len(filled) >= ByteBits)
    <3>1. packed' = packed /\ acc' = filled
      BY <1>2, <2>2
    <3>2. Len(acc') < ByteBits /\ ByteBits * P + Len(acc') = UnitBits * fed'
      BY <1>4, <1>6, <2>0, <2>2, <3>1
    <3> QED BY <1>3, <1>4, <1>6, <3>1, <3>2
  <2> QED BY <2>1, <2>2
<1> HIDE DEF filled, P
<1>8. SevenBitTypeOK'
  <2>1. rat' \in 0..Len(packed')
    BY <1>1, <1>3, <1>4, <1>7, TypeFacts DEF unpackVars, P
  <2> QED BY <1>1, <1>3, <1>4, <1>7, <2>1 DEF SevenBitTypeOK, unpackVars, TextLen, Bit, Bytes
<1>9. PackInv'
  BY <1>1, <1>3, <1>7 DEF PackInv, PackedInv, Packing, TextLen
<1>10. UnpackInv'
  BY <1>1, <1>3 DEF UnpackInv, ReadInv, Packing, unpackVars
<1> QED BY <1>8, <1>9, <1>10 DEF TextInv

(***************************************************************************)
(* The last byte is filled up with zeros, as the text is.                  *)
(***************************************************************************)
LEMMA PaddedByte ==
  ASSUME NEW T, NEW s \in Seq(Bit), Len(s) <= ByteBits, NEW j \in Nat, Stretch(T, s, j),
         j + Len(s) = UnitBits * Len(T)
  PROVE  Padded(s) \in Bytes /\ Stretch(T, Padded(s), j)
<1>1. Padded(s) \in [1..ByteBits -> Bit]
  <2>1. ASSUME NEW i \in 1..ByteBits PROVE (IF i <= Len(s) THEN s[i] ELSE 0) \in Bit
    BY DEF Bit, ByteBits
  <2> QED BY <2>1 DEF Padded
<1>2. Len(Padded(s)) = ByteBits
  BY <1>1, BitWordIsSeq DEF ByteBits
<1>3. ASSUME NEW b \in 1..ByteBits PROVE Padded(s)[b] = TextBit(T, j + b - 1)
  <2>0. b \in Nat \ {0} /\ Len(s) \in Nat
    BY DEF ByteBits
  <2>1. CASE b <= Len(s)
    <3>1. b \in 1..Len(s) /\ Padded(s)[b] = s[b]
      BY <2>0, <2>1 DEF Padded
    <3> QED BY <3>1 DEF Stretch
  <2>2. CASE ~(b <= Len(s))
    <3>1. ~(j + b - 1 < j + Len(s)) /\ Padded(s)[b] = 0
      BY <2>0, <2>2 DEF Padded
    <3> QED BY <3>1 DEF TextBit
  <2> QED BY <2>1, <2>2
<1> QED BY <1>1, <1>2, <1>3 DEF Stretch, Bytes, Bit

LEMMA PackEndStep == TextInv /\ PackEnd => TextInv'
<1> SUFFICES ASSUME TextInv, PackEnd PROVE TextInv'
  OBVIOUS
<1> DEFINE P == Len(packed)
<1>1. /\ stage = "pack" /\ fed = TextLen /\ stage' = "cell" /\ flags' = FinalBitsBiased(TextLen)
      /\ packed' = IF acc = << >> THEN packed ELSE Append(packed, Padded(acc))
      /\ UNCHANGED <<units, wide, fed, acc, unpackVars>>
  BY DEF PackEnd
<1>2. /\ SevenBitTypeOK /\ UnpackInv /\ TextLen > 0
      /\ \A i \in 1..Len(packed) : Stretch(units, packed[i], ByteBits * (i - 1))
      /\ Stretch(units, acc, ByteBits * P)
      /\ ByteBits * P + Len(acc) = UnitBits * fed
  BY <1>1 DEF TextInv, PackInv, PackedInv
<1>3. /\ TextLen \in Nat /\ P \in Nat /\ acc \in Seq(Bit) /\ Len(acc) \in Nat /\ Len(acc) < ByteBits
      /\ packed \in Seq(Bytes) /\ units \in Seq(UnitValues)
  BY <1>1, <1>2, TypeFacts
<1>4. CellSize = IF Len(acc) = 0 THEN P ELSE P + 1
  <2>1. ByteBits * P + Len(acc) = UnitBits * TextLen
    BY <1>1, <1>2
  <2> QED BY <1>3, <2>1, LastByte DEF CellSize
<1>5. /\ packed' \in Seq(Bytes) /\ Len(packed') = CellSize
      /\ \A i \in 1..Len(packed') : Stretch(units, packed'[i], ByteBits * (i - 1))
  <2>1. CASE acc = << >>
    BY <1>1, <1>2, <1>3, <1>4, <2>1
  <2>2. CASE acc # << >>
    <3>1. Len(acc) # 0
      BY <1>3, <2>2
    <3>2. Padded(acc) \in Bytes /\ Stretch(units, Padded(acc), ByteBits * P)
      <4> DEFINE j == ByteBits * P
      <4>1. j \in Nat
        BY <1>3 DEF ByteBits
      <4>2. j + Len(acc) = UnitBits * Len(units) /\ Stretch(units, acc, j)
        BY <1>1, <1>2 DEF TextLen
      <4>3. Len(acc) <= ByteBits
        BY <1>3, Widths
      <4> HIDE DEF j
      <4>4. Padded(acc) \in Bytes /\ Stretch(units, Padded(acc), j)
        BY <1>3, <4>1, <4>2, <4>3, PaddedByte
      <4> QED BY <4>4 DEF j
    <3>3. packed' = Append(packed, Padded(acc))
      BY <1>1, <2>2
    <3> QED BY <1>2, <1>3, <1>4, <3>1, <3>2, <3>3, ByteAdded
  <2> QED BY <2>1, <2>2
<1>6. FinalBitsBiased(TextLen) \in 0..(ByteBits - 1) /\ CellSize > 0
  BY <1>2, <1>3, CellCounts DEF CellSize
<1>7. rat = 0 /\ racc = << >> /\ read = << >>
  BY <1>1, <1>2 DEF UnpackInv, Packing
<1> HIDE DEF P
<1>8. SevenBitTypeOK'
  <2>1. rat' \in 0..Len(packed')
    BY <1>1, <1>5, <1>6, <1>7 DEF unpackVars
  <2> QED BY <1>1, <1>2, <1>3, <1>5, <1>6, <2>1 DEF SevenBitTypeOK, unpackVars, TextLen, Bytes
<1>9. PackInv'
  BY <1>1, <1>2, <1>5 DEF PackInv, PackedInv, Packing, TextLen, CellSize
<1>10. UnpackInv'
  BY <1>1, <1>2, <1>5, <1>6 DEF UnpackInv, ReadInv, Packing, unpackVars
<1> QED BY <1>8, <1>9, <1>10 DEF TextInv

LEMMA RelabelStep == TextInv /\ Relabel => TextInv'
<1> SUFFICES ASSUME TextInv, Relabel PROVE TextInv'
  OBVIOUS
<1>1. /\ stage = "cell" /\ flags' \in 0..(ByteBits - 1)
      /\ UNCHANGED <<units, wide, fed, acc, packed, unpackVars, stage>>
  BY DEF Relabel
<1>2. SevenBitTypeOK /\ PackInv /\ UnpackInv
  BY DEF TextInv
<1>3. SevenBitTypeOK'
  BY <1>1, <1>2 DEF SevenBitTypeOK, unpackVars, TextLen
<1>4. PackInv'
  BY <1>1, <1>2 DEF PackInv, PackedInv, Packing, TextLen, CellSize
<1>5. UnpackInv'
  BY <1>1, <1>2 DEF UnpackInv, ReadInv, Packing, unpackVars
<1> QED BY <1>3, <1>4, <1>5 DEF TextInv

(***************************************************************************)
(* A bit of the text that the flags leave out lies within the last byte.   *)
(***************************************************************************)
LEMMA LeftOut ==
  ASSUME NEW T \in Seq(UnitValues), NEW bytes \in Nat \ {0}, NEW f \in Nat, NEW g \in Nat, NEW i \in Nat,
         ByteBits * (bytes - 1) + g + 1 = UnitBits * Len(T),
         f + 1 < i, TextBit(T, ByteBits * (bytes - 1) + i - 1) # 0
  PROVE  f < g
<1>1. ByteBits * (bytes - 1) + i - 1 < UnitBits * Len(T)
  BY DEF TextBit
<1>2. ByteBits * (bytes - 1) \in Nat
  BY DEF ByteBits
<1> QED BY <1>1, <1>2

LEMMA ParseStep == TextInv /\ Parse => TextInv'
<1> SUFFICES ASSUME TextInv, Parse PROVE TextInv'
  OBVIOUS
<1>1. stage = "cell" /\ UNCHANGED <<packVars, unpackVars>> /\ stage' \in {"error", "unpack"}
  BY DEF Parse
<1>2. /\ SevenBitTypeOK /\ PackInv /\ UnpackInv /\ TextLen > 0 /\ Len(packed) = CellSize
      /\ rat = 0 /\ racc = << >> /\ read = << >> /\ Len(packed) > 0
  BY <1>1 DEF TextInv, PackInv, UnpackInv, Packing
<1>3. TextLen \in Nat /\ units \in Seq(UnitValues) /\ packed \in Seq(Bytes) /\ flags \in Nat
  <2>1. flags \in 0..(ByteBits - 1)
    BY <1>2, TypeFacts
  <2>2. flags \in Nat
    BY <2>1 DEF ByteBits
  <2> QED BY <1>1, <1>2, <2>2, TypeFacts
<1>4. stage' = "error" => flags < FinalBitsBiased(TextLen)
  <2> SUFFICES ASSUME stage' = "error" PROVE flags < FinalBitsBiased(TextLen)
    OBVIOUS
  <2>1. packed # << >>
    BY <1>2
  <2>2. PICK i \in (FinalBits + 1)..ByteBits : packed[Len(packed)][i] = 1
    BY <2>1 DEF Parse
  <2> DEFINE L == Len(packed)
             g == FinalBitsBiased(TextLen)
  <2>3. L \in Nat \ {0} /\ g \in Nat /\ ByteBits * (L - 1) + g + 1 = UnitBits * TextLen
    <3>1. TextLen \in Nat \ {0} /\ CellSize = L
      BY <1>2, <1>3
    <3>2. L \in Nat \ {0} /\ g \in 0..(ByteBits - 1) /\ ByteBits * (L - 1) + g + 1 = UnitBits * TextLen
      BY <3>1, CellCounts DEF CellSize
    <3> HIDE DEF L, g
    <3>3. g \in Nat
      BY <3>2 DEF ByteBits
    <3> QED BY <3>2, <3>3
  <2>4. i \in 1..ByteBits /\ i \in Nat /\ flags + 1 < i
    BY <1>3, <2>2 DEF FinalBits, ByteBits
  <2>5. Stretch(units, packed[L], ByteBits * (L - 1)) /\ Len(packed[L]) = ByteBits
    <3>1. packed[L] \in [1..ByteBits -> Bit]
      BY <1>3, <2>3 DEF Bytes, Bit
    <3>2. Len(packed[L]) = ByteBits
      BY <3>1, BitWordIsSeq DEF ByteBits
    <3> QED BY <1>2, <2>3, <3>2 DEF PackInv, PackedInv
  <2>6. TextBit(units, ByteBits * (L - 1) + i - 1) # 0
    <3>1. packed[L][i] = TextBit(units, ByteBits * (L - 1) + i - 1)
      BY <2>4, <2>5 DEF Stretch
    <3> QED BY <2>2, <3>1
  <2> HIDE DEF L, g
  <2>7. ByteBits * (L - 1) + g + 1 = UnitBits * Len(units)
    BY <2>3 DEF TextLen
  <2>8. flags < g
    BY <1>3, <2>3, <2>4, <2>6, <2>7, LeftOut
  <2> QED BY <2>8 DEF g
<1>5. UnitCount >= 0
  <2> DEFINE L == Len(packed)
  <2>1. L \in Nat /\ L > 0
    BY <1>2, <1>3
  <2> HIDE DEF L
  <2>2. ASSUME NEW x \in Nat PROVE x \div 7 >= 0
    OBVIOUS
  <2>3. ((L - 1) * 8 + (flags + 1)) \div 7 >= 0
    <3>1. (L - 1) * 8 + (flags + 1) \in Nat
      BY <1>3, <2>1
    <3> QED BY <2>2, <3>1
  <2> QED BY <2>3 DEF UnitCount, FinalBits, ByteBits, UnitBits, L
<1>6. SevenBitTypeOK'
  BY <1>1, <1>2, <1>3 DEF SevenBitTypeOK, packVars, unpackVars, TextLen
<1>7. PackInv'
  BY <1>1, <1>2 DEF PackInv, PackedInv, Packing, packVars, TextLen, CellSize
<1>8. UnpackInv'
  BY <1>1, <1>2, <1>4, <1>5
     DEF UnpackInv, ReadInv, Packing, packVars, unpackVars, TextLen, UnitCount, FinalBits, FinalBitsBiased
<1> QED BY <1>6, <1>7, <1>8 DEF TextInv

(***************************************************************************)
(* One more byte in the reader's accumulator, and one unit out of it.      *)
(***************************************************************************)
LEMMA ByteTaken ==
  ASSUME NEW taken \in Nat, NEW left \in Nat, NEW bytes \in Nat,
         UnitBits * taken + left = ByteBits * bytes
  PROVE  /\ UnitBits * taken \in Nat
         /\ UnitBits * taken + (left + ByteBits) = ByteBits * (bytes + 1)
         /\ UnitBits * (taken + 1) = UnitBits * taken + UnitBits
         /\ UnitBits * (taken + 1) + (left - UnitBits) = ByteBits * bytes
BY DEF ByteBits, UnitBits

(***************************************************************************)
(* With no byte left, and no unit in the accumulator, the units are as     *)
(* many as the flags announce, if they are not more.                       *)
(***************************************************************************)
LEMMA AllTaken ==
  ASSUME NEW taken \in Nat, NEW left \in Nat, NEW bytes \in Nat \ {0}, NEW f \in 0..(ByteBits - 1),
         UnitBits * taken + left = ByteBits * bytes, left < UnitBits
  PROVE  taken >= ((bytes - 1) * ByteBits + (f + 1)) \div UnitBits
BY DEF ByteBits, UnitBits

LEMMA FeedByteStep == TextInv /\ FeedByte => TextInv'
<1> SUFFICES ASSUME TextInv, FeedByte PROVE TextInv'
  OBVIOUS
<1> DEFINE R == Len(read)
           c == packed[rat + 1]
<1>1. /\ stage = "unpack" /\ Len(racc) < UnitBits /\ rat < Len(packed)
      /\ racc' = racc \o c /\ rat' = rat + 1 /\ UNCHANGED <<packVars, read, stage>>
  BY DEF FeedByte
<1>2. SevenBitTypeOK /\ PackInv /\ UnpackInv /\ PackedInv /\ UnitBits * R + Len(racc) = ByteBits * rat
  BY DEF TextInv, PackInv, UnpackInv
<1>3. R \in Nat /\ rat \in Nat /\ Len(packed) \in Nat /\ racc \in Seq(Bit) /\ Len(racc) \in Nat /\ packed \in Seq(Bytes)
  BY <1>2, TypeFacts
<1>4. c \in Seq(Bit) /\ Len(c) = ByteBits /\ Stretch(units, c, ByteBits * rat)
  <2>1. rat + 1 \in 1..Len(packed) /\ (rat + 1) - 1 = rat
    BY <1>1, <1>3
  <2>2. c \in [1..ByteBits -> Bit]
    BY <1>3, <2>1 DEF Bytes, Bit
  <2>3. c \in Seq(Bit) /\ Len(c) = ByteBits
    BY <2>2, BitWordIsSeq DEF ByteBits
  <2> QED BY <1>2, <2>1, <2>3 DEF PackedInv
<1>5. /\ racc' \in Seq(Bit) /\ Len(racc') = Len(racc) + ByteBits
      /\ Stretch(units, racc', UnitBits * R)
  <2> DEFINE j == UnitBits * R
  <2>1. j \in Nat
    BY <1>3 DEF UnitBits
  <2>2. Stretch(units, racc, j) /\ Stretch(units, c, j + Len(racc))
    BY <1>2, <1>4 DEF UnpackInv
  <2> HIDE DEF j, c
  <2>3. racc \o c \in Seq(Bit) /\ Len(racc \o c) = Len(racc) + Len(c) /\ Stretch(units, racc \o c, j)
    BY <1>3, <1>4, <2>1, <2>2, StretchesJoin
  <2> QED BY <1>1, <1>4, <2>3 DEF j
<1> HIDE DEF c
<1>6. UnitBits * R + Len(racc') = ByteBits * rat'
  <2>1. UnitBits * R + (Len(racc) + ByteBits) = ByteBits * (rat + 1)
    BY <1>2, <1>3, ByteTaken
  <2> QED BY <1>1, <1>5, <2>1
<1>7. Len(racc') < UnitBits + ByteBits
  BY <1>1, <1>3, <1>5, Widths
<1>8. SevenBitTypeOK'
  BY <1>1, <1>2, <1>3, <1>5, <1>7 DEF SevenBitTypeOK, packVars, TextLen, Bit
<1>9. PackInv'
  BY <1>1, <1>2 DEF PackInv, PackedInv, Packing, packVars, TextLen, CellSize
<1>10. UnpackInv'
  BY <1>1, <1>2, <1>5, <1>6
     DEF UnpackInv, ReadInv, Packing, packVars, TextLen, UnitCount, FinalBits, FinalBitsBiased
<1> QED BY <1>8, <1>9, <1>10 DEF TextInv

LEMMA TakeUnitStep == TextInv /\ TakeUnit => TextInv'
<1> SUFFICES ASSUME TextInv, TakeUnit PROVE TextInv'
  OBVIOUS
<1> DEFINE R == Len(read)
           u == First(racc, UnitBits)
<1>1. /\ stage = "unpack" /\ Len(racc) >= UnitBits /\ R # UnitCount
      /\ read' = Append(read, u) /\ racc' = After(racc, UnitBits)
      /\ UNCHANGED <<packVars, rat, stage>>
  BY DEF TakeUnit
<1>2. /\ SevenBitTypeOK /\ PackInv /\ UnpackInv /\ R <= UnitCount
      /\ \A i \in 1..Len(read) : Stretch(units, read[i], UnitBits * (i - 1))
      /\ UnitBits * R + Len(racc) = ByteBits * rat
  BY <1>1 DEF TextInv, UnpackInv, ReadInv
<1>3. /\ R \in Nat /\ rat \in Nat /\ racc \in Seq(Bit) /\ Len(racc) \in Nat
      /\ Len(racc) < UnitBits + ByteBits /\ read \in Seq(UnitValues)
  BY <1>2, TypeFacts
<1>4. /\ u \in UnitValues /\ racc' \in Seq(Bit) /\ Len(racc') = Len(racc) - UnitBits
      /\ Stretch(units, u, UnitBits * R) /\ Stretch(units, racc', UnitBits * R + UnitBits)
  <2> DEFINE j == UnitBits * R
             k == UnitBits
  <2>1. j \in Nat /\ k \in Nat /\ k <= Len(racc)
    BY <1>1, <1>3 DEF UnitBits
  <2>2. Stretch(units, racc, j)
    BY <1>2 DEF UnpackInv
  <2> HIDE DEF j, k
  <2>3. First(racc, k) \in [1..k -> Bit] /\ Stretch(units, First(racc, k), j)
    BY <1>3, <2>1, <2>2, StretchSplits
  <2>4. After(racc, k) \in Seq(Bit) /\ Stretch(units, After(racc, k), j + k)
    BY <1>3, <2>1, <2>2, StretchSplits
  <2>5. Len(After(racc, k)) = Len(racc) - k
    BY <1>3, <2>1 DEF After
  <2>6. First(racc, UnitBits) \in UnitValues
    BY <2>3 DEF UnitValues, Bit, k
  <2> QED BY <1>1, <2>3, <2>4, <2>5, <2>6 DEF j, k
<1> HIDE DEF u
<1>5. /\ read' \in Seq(UnitValues) /\ Len(read') = R + 1
      /\ \A i \in 1..Len(read') : Stretch(units, read'[i], UnitBits * (i - 1))
  BY <1>1, <1>2, <1>3, <1>4, UnitAdded
<1>6. /\ UnitBits * (R + 1) = UnitBits * R + UnitBits
      /\ UnitBits * (R + 1) + (Len(racc) - UnitBits) = ByteBits * rat
  BY <1>2, <1>3, ByteTaken
<1>7. Len(racc') < UnitBits + ByteBits
  BY <1>3, <1>4, Widths
<1>8. R + 1 <= UnitCount
  <2>1. UnitCount \in Int
    <3> DEFINE L == Len(packed)
    <3>0. L \in Nat /\ flags \in 0..(ByteBits - 1)
      BY <1>2, TypeFacts
    <3> HIDE DEF L
    <3>1. L \in Nat /\ flags \in Nat
      BY <3>0 DEF ByteBits
    <3>2. ASSUME NEW l \in Nat, NEW f \in Nat PROVE ((l - 1) * 8 + (f + 1)) \div 7 \in Int
      OBVIOUS
    <3>3. ((L - 1) * 8 + (flags + 1)) \div 7 \in Int
      BY <3>1, <3>2
    <3> QED BY <3>3 DEF UnitCount, FinalBits, ByteBits, UnitBits, L
  <2> QED BY <1>1, <1>2, <1>3, <2>1
<1>9. SevenBitTypeOK'
  BY <1>1, <1>2, <1>4, <1>5, <1>7 DEF SevenBitTypeOK, packVars, TextLen, Bit
<1>10. PackInv'
  BY <1>1, <1>2 DEF PackInv, PackedInv, Packing, packVars, TextLen, CellSize
<1>11. UnpackInv'
  <2>1. UnitCount' = UnitCount
    BY <1>1 DEF packVars, UnitCount, FinalBits
  <2>2. /\ UnitBits * Len(read') + Len(racc') = ByteBits * rat'
        /\ Stretch(units, racc', UnitBits * Len(read'))
        /\ Len(read') <= UnitCount'
    BY <1>1, <1>4, <1>5, <1>6, <1>8, <2>1
  <2> QED BY <1>1, <1>2, <1>5, <2>2 DEF UnpackInv, ReadInv, Packing, packVars
<1> QED BY <1>9, <1>10, <1>11 DEF TextInv

LEMMA UnpackedStep == TextInv /\ Unpacked => TextInv'
<1> SUFFICES ASSUME TextInv, Unpacked PROVE TextInv'
  OBVIOUS
<1>1. /\ stage = "unpack" /\ UNCHANGED <<packVars, unpackVars>>
      /\ IF Len(racc) >= UnitBits THEN Len(read) = UnitCount ELSE rat = Len(packed)
      /\ stage' = IF wide /\ Len(read) # UnitCount THEN "error" ELSE "done"
  BY DEF Unpacked
<1>2. /\ SevenBitTypeOK /\ PackInv /\ UnpackInv /\ Len(read) <= UnitCount /\ Len(packed) > 0
      /\ UnitBits * Len(read) + Len(racc) = ByteBits * rat
  BY <1>1 DEF TextInv, UnpackInv, Packing
<1>3. Len(read) = UnitCount
  <2>1. CASE Len(racc) >= UnitBits
    BY <1>1, <2>1
  <2>2. CASE ~(Len(racc) >= UnitBits)
    <3> DEFINE R == Len(read)
               a == Len(racc)
               L == Len(packed)
    <3>1. /\ R \in Nat /\ a \in Nat /\ L \in Nat \ {0} /\ flags \in 0..(ByteBits - 1)
          /\ UnitBits * R + a = ByteBits * L
      BY <1>1, <1>2, <2>2, TypeFacts
    <3>2. a < UnitBits
      BY <2>2, <3>1, Widths
    <3> HIDE DEF R, a, L
    <3>3. R >= ((L - 1) * ByteBits + (flags + 1)) \div UnitBits
      BY <3>1, <3>2, AllTaken
    <3>4. ((L - 1) * ByteBits + (flags + 1)) \div UnitBits \in Int
      BY <3>1 DEF ByteBits, UnitBits
    <3> QED BY <1>2, <3>1, <3>3, <3>4 DEF UnitCount, FinalBits, R, L
  <2> QED BY <2>1, <2>2
<1>4. stage' = "done"
  BY <1>1, <1>3
<1>5. SevenBitTypeOK'
  BY <1>1, <1>2, <1>4 DEF SevenBitTypeOK, packVars, unpackVars, TextLen
<1>6. PackInv'
  BY <1>1, <1>2, <1>4 DEF PackInv, PackedInv, Packing, packVars, TextLen, CellSize
<1>7. UnpackInv'
  BY <1>1, <1>2, <1>3, <1>4
     DEF UnpackInv, ReadInv, Packing, packVars, unpackVars, TextLen, UnitCount, FinalBits
<1> QED BY <1>5, <1>6, <1>7 DEF TextInv

LEMMA TextStep == TextInv /\ [SevenBitNext]_sevenVars => TextInv'
<1> SUFFICES ASSUME TextInv, [SevenBitNext]_sevenVars PROVE TextInv'
  OBVIOUS
<1>1. CASE UNCHANGED sevenVars
  BY <1>1 DEF sevenVars, packVars, unpackVars, TextInv, SevenBitTypeOK, PackInv, PackedInv, UnpackInv,
              ReadInv, Packing, TextLen, CellSize, UnitCount, FinalBits, FinalBitsBiased
<1>2. CASE SevenBitNext
  BY <1>2, AcceptStep, PackUnitStep, PackEndStep, RelabelStep, ParseStep, FeedByteStep, TakeUnitStep,
     UnpackedStep DEF SevenBitNext
<1> QED BY <1>1, <1>2

LEMMA TextFollows == TextInv => UnitsComeBack
<1> SUFFICES ASSUME TextInv PROVE UnitsComeBack
  OBVIOUS
<1>1. SevenBitTypeOK /\ PackInv /\ UnpackInv
  BY DEF TextInv
<1>2. TextLen \in Nat /\ read \in Seq(UnitValues) /\ Len(read) \in Nat
  BY <1>1, TypeFacts
<1>3. stage \in {"cell", "unpack", "done"} => 1 + Len(packed) = CompressedSize
  <2> SUFFICES ASSUME stage \in {"cell", "unpack", "done"} PROVE 1 + Len(packed) = CompressedSize
    OBVIOUS
  <2>1. Len(packed) = CellSize /\ Len(packed) \in Nat
    BY <1>1, TypeFacts DEF PackInv, Packing
  <2> QED BY <2>1 DEF CompressedSize, CellSize
<1>4. ASSUME stage = "done"
      PROVE  /\ Len(read) = UnitCount
             /\ \A i \in 1..Len(read) : read[i] = IF i <= TextLen THEN units[i] ELSE ZeroUnit
             /\ flags = FinalBitsBiased(TextLen) => read = units
  <2>1. units \in Seq(UnitValues) /\ TextLen > 0 /\ Len(packed) = CellSize /\ Len(read) = UnitCount
    BY <1>1, <1>4, TypeFacts DEF PackInv, UnpackInv, Packing
  <2>2. ASSUME NEW i \in 1..Len(read) PROVE read[i] = IF i <= TextLen THEN units[i] ELSE ZeroUnit
    <3>1. i \in Nat \ {0} /\ read[i] \in UnitValues
      BY <1>2
    <3>2. Stretch(units, read[i], UnitBits * (i - 1))
      BY <1>1 DEF UnpackInv, ReadInv
    <3> QED BY <2>1, <3>1, <3>2, StretchIsUnit DEF TextLen
  <2>3. ASSUME flags = FinalBitsBiased(TextLen) PROVE read = units
    <3>1. Len(read) = TextLen
      BY <1>2, <2>1, <2>3, OwnCountRight
    <3>2. \A i \in 1..Len(read) : read[i] = units[i]
      BY <1>2, <2>2, <3>1
    <3> QED BY <1>2, <2>1, <3>1, <3>2, SeqEqual DEF TextLen
  <2> QED BY <2>1, <2>2, <2>3
<1> QED BY <1>1, <1>3, <1>4 DEF UnitsComeBack, UnpackInv, ZeroUnit

(***************************************************************************)
(* Type correctness; the accumulators hold less than a byte, or less than  *)
(* a byte and a unit, however long the text.                               *)
(***************************************************************************)
THEOREM AccumulatorsSmall == SevenBitSpec => []SevenBitTypeOK
<1>1. TextInv => SevenBitTypeOK
  BY DEF TextInv
<1> QED BY <1>1, TextInit, TextStep, PTL DEF SevenBitSpec

(***************************************************************************)
(* For a text of any length the size foretold is the size of the cell, a   *)
(* cell as it was made is accepted, and the reader gives back exactly the  *)
(* units the header announces, those of the text.                          *)
(***************************************************************************)
THEOREM TextComesBack == SevenBitSpec => []UnitsComeBack
BY TextInit, TextStep, TextFollows, PTL DEF SevenBitSpec

----------------------------------------------------------------------------
(* The compact XPRESS9 codec *)

\* What is written: a codeword of either alphabet, or some bits.
WireFields == [code : {"short", "long", "raw"}, bits : Nat, v : Int]
CompactNumber == {a \in Nat : a >= 1 /\ a < 2^30}

SourceBytes == 0..(LitCount - 1)

\* Where the encoder is between two tokens.
Spots == [at : Nat, list : Seq(Nat \ {0})]

\* From spot a to spot b, writing w.
LiteralTo(s, a, b, w) ==
  /\ a.at < Len(s) /\ b.at = a.at + 1 /\ b.list = a.list
  /\ w = <<Wire!Short(s[a.at + 1])>>

CopiesTo(s, a, b, off, len) ==
  /\ off \in 1..a.at /\ len \in Nat /\ a.at + len <= Len(s) /\ b.at = a.at + len
  /\ RepeatsAfter(s, a.at, off, len)

RepeatTo(s, a, b, w) ==
  \E i \in 1..Len(a.list), len \in Nat :
    /\ CopiesTo(s, a, b, a.list[i], len) /\ len >= MtfMin /\ i <= Slots
    /\ w = MatchPart(i - 1, len) /\ b.list = a.list

PointerTo(s, a, b, w) ==
  \E off \in Nat, len \in Nat :
    /\ CopiesTo(s, a, b, off, len) /\ len >= PtrMin
    /\ w = MatchPart(Slots + Wire!Msb(off), len) \o <<Wire!LowBits(off)>>
    /\ b.list = Pushed(a.list, off)

WritesTo(s, a, b, w) == LiteralTo(s, a, b, w) \/ RepeatTo(s, a, b, w) \/ PointerTo(s, a, b, w)

\* The spots the encoder has been at.
Trail(spots) ==
  /\ spots \in Seq(Spots) /\ Len(spots) = Len(written) + 1
  /\ spots[1] = [at |-> 0, list |-> << >>]
  /\ spots[Len(spots)] = [at |-> place, list |-> recent]
  /\ \A k \in 1..Len(spots) : spots[k].at <= Len(source) /\ Len(spots[k].list) <= Slots
  /\ \A k \in 1..Len(written) : WritesTo(source, spots[k], spots[k + 1], written[k])

AgreedUpTo(n) == \A k \in 1..n : Agreed(k)

\* The decoder is where the encoder was.
AtSpot(spot) == produced = SubSeq(source, 1, spot.at) /\ known = spot.list

PhasesFit ==
  /\ got \in 0..Len(written)
  /\ phase = "encode" => got = 0
  /\ phase # "encode" => place = Len(source)
  /\ phase = "done" => got = Len(written)
  /\ phase = "error" => ~AgreedUpTo(IF got < Len(written) THEN got + 1 ELSE got)

\* It takes the last token for a match only if that was one.
RemembersKind ==
  \/ lastWasPtr = FALSE
  \/ lastWasPtr = TRUE /\ got > 0 /\ Wire!Decoded(written[got]).kind # "lit"

CodedInv ==
  /\ phase \in {"encode", "decode", "done", "error"}
  /\ written \in Seq(Seq(WireFields)) /\ PhasesFit /\ RemembersKind
  /\ \E spots : Trail(spots) /\ (AgreedUpTo(got) => AtSpot(spots[got + 1]))

StoredInv ==
  /\ phase \in {"encode", "stored", "done"}
  /\ produced = IF phase = "done" THEN source ELSE << >>

CompactInv ==
  /\ source \in Sources
  /\ IF Len(source) <= StoredMax THEN StoredInv ELSE CodedInv


(***************************************************************************)
(* Wire!Msb finds the most significant bit of a number that a block can    *)
(* hold.                                                                   *)
(***************************************************************************)
LEMMA CompactMsb ==
  ASSUME NEW a \in CompactNumber
  PROVE  /\ a \in Nat /\ Wire!Msb(a) \in Nat
         /\ 2^Wire!Msb(a) \in Nat /\ 2^Wire!Msb(a) <= a
<1> DEFINE S == {k \in 0..30 : a < 2^k}
           Brackets(m) == 2^m <= a /\ a < 2^(m + 1)
<1>0. 2^30 \in Nat /\ 2^0 = 1 /\ a \in Nat /\ a >= 1 /\ a < 2^30
  <2>1. 2^30 \in Nat /\ 2^0 = 1
    BY PowersAssumption, 30 \in 0..30
  <2> QED BY <2>1 DEF CompactNumber
<1>1. S \in SUBSET Nat /\ 30 \in S
  BY <1>0
<1>2. PICK k \in S : \A j \in S : k <= j
  <2> HIDE DEF S
  <2> QED BY <1>1, LeastNatural
<1>3. k \in 0..30 /\ a < 2^k /\ k # 0
  <2>1. k \in 0..30 /\ a < 2^k
    OBVIOUS
  <2>2. k # 0
    <3> SUFFICES ASSUME k = 0 PROVE FALSE
      OBVIOUS
    <3>1. a < 1
      BY <1>0, <2>1
    <3> QED BY <1>0, <3>1
  <2> QED BY <2>1, <2>2
<1>4. k - 1 \in 0..29 /\ (k - 1) + 1 = k
  BY <1>3
<1>5. ~(a < 2^(k - 1))
  <2> SUFFICES ASSUME a < 2^(k - 1) PROVE FALSE
    OBVIOUS
  <2>1. k - 1 \in S
    BY <1>4
  <2>2. k <= k - 1
    BY <1>2, <2>1
  <2> QED BY <1>3, <2>2
<1>6. 2^(k - 1) \in Nat
  BY <1>4, PowersAssumption, k - 1 \in 0..30
<1>7. Brackets(k - 1)
  BY <1>0, <1>3, <1>4, <1>5, <1>6
<1>8. Wire!Msb(a) = CHOOSE m \in 0..29 : Brackets(m)
  BY DEF Wire!Msb
<1>9. Wire!Msb(a) \in 0..29 /\ Brackets(Wire!Msb(a))
  <2> HIDE DEF Brackets
  <2> QED BY <1>4, <1>7, <1>8
<1> HIDE DEF Brackets
<1>10. Wire!Msb(a) \in 0..30 /\ Wire!Msb(a) \in Nat
  BY <1>9
<1>11. 2^Wire!Msb(a) \in Nat
  BY <1>10, PowersAssumption
<1> QED BY <1>0, <1>9, <1>10, <1>11 DEF Brackets

(***************************************************************************)
(* The bits written below it are what is left of the number.               *)
(***************************************************************************)
LEMMA CompactLowBits ==
  ASSUME NEW a \in CompactNumber
  PROVE  /\ Wire!LowBits(a) \in WireFields
         /\ Wire!LowBits(a).v \in Int /\ Wire!LowBits(a).v + 2^Wire!Msb(a) = a
<1> DEFINE m == Wire!Msb(a)
           p == 2^m
<1>1. a \in Nat /\ m \in Nat /\ p \in Nat
  BY CompactMsb
<1>2. Wire!LowBits(a) = [code |-> "raw", bits |-> m, v |-> a - p]
  BY DEF Wire!LowBits, Wire!Raw
<1> HIDE DEF m, p
<1>3. Wire!LowBits(a) \in WireFields /\ Wire!LowBits(a).v \in Int /\ Wire!LowBits(a).v + p = a
  BY <1>1, <1>2 DEF WireFields
<1> QED BY <1>3 DEF m, p

\* What is written for a class and a length above the least one: a length that
\* fits is given by one or two fields, and a longer one begins with an escape.
CompactSpelled(w, class, adj) ==
  LET first == LitCount + class * MaxShort
      long  == adj - (MaxShort - 1)
  IN /\ w \in Seq(WireFields) /\ Len(w) >= 1
     /\ w[1].v = first + (IF adj < MaxShort - 1 THEN adj ELSE MaxShort - 1)
     /\ adj >= MaxShort - 1 => Len(w) >= 2
     /\ adj >= MaxShort - 1 /\ long < MaxLong => w[2].v = long
     /\ adj >= MaxShort - 1 /\ long >= MaxLong => w[2].v >= MaxLong

LeastFor(class) == IF class < Slots THEN MtfMin ELSE PtrMin

(***************************************************************************)
(* What compress writes for a match begins with the symbol of its class    *)
(* and of its length as far as that fits.                                  *)
(***************************************************************************)
LEMMA CompactSpelling ==
  ASSUME NEW class \in Nat, NEW len \in Nat, len >= LeastFor(class), len < 2^30
  PROVE  CompactSpelled(MatchPart(class, len), class, len - LeastFor(class))
<1> DEFINE adj == len - LeastFor(class)
           times == class * MaxShort
           first == LitCount + times
           long == adj - (MaxShort - 1)
           extra == long - (MaxLong - 1)
           width == Wire!Msb(extra) + 1
           w == MatchPart(class, len)
<1>0. /\ first \in Nat /\ MaxShort \in Nat /\ MaxLong \in Nat \ {0} /\ MaxShort >= 2
      /\ long \in Int /\ extra \in Int /\ 2^30 \in Nat /\ adj \in Nat /\ adj < 2^30
      /\ LeastFor(class) \in Nat \ {0}
  <2>1. 2^30 \in Nat
    BY PowersAssumption, 30 \in 0..30
  <2>2. LeastFor(class) \in Nat \ {0}
    BY CompactAssumption DEF LeastFor
  <2> HIDE DEF times
  <2>3. times \in Nat
    BY CompactAssumption DEF times
  <2> QED BY CompactAssumption, <2>1, <2>2, <2>3
<1>1. adj = len - (IF class < Slots THEN MtfMin ELSE PtrMin)
  BY DEF LeastFor
<1>2. w = IF adj < MaxShort - 1 THEN <<Wire!Short(first + adj)>>
          ELSE <<Wire!Short(first + MaxShort - 1)>> \o LongPart(long)
  BY <1>1 DEF MatchPart
<1> SUFFICES CompactSpelled(w, class, adj)
  OBVIOUS
<1> HIDE DEF w
<1>3. CASE adj < MaxShort - 1
  <2> DEFINE a == Wire!Short(first + adj)
  <2>1. a \in WireFields /\ w = <<a>> /\ a.v = first + adj
    BY <1>0, <1>2, <1>3 DEF Wire!Short, WireFields
  <2> HIDE DEF a
  <2>2. w \in Seq(WireFields) /\ Len(w) = 1 /\ w[1] = a
    BY <2>1
  <2>3. w \in Seq(WireFields) /\ Len(w) >= 1 /\ w[1].v = first + adj
    BY <2>1, <2>2
  <2> HIDE DEF first, adj
  <2>4. ~(adj >= MaxShort - 1)
    BY <1>0, <1>3
  <2> QED BY <1>3, <2>3, <2>4 DEF CompactSpelled, adj, first
<1> DEFINE a == Wire!Short(first + MaxShort - 1)
<1>4. a \in WireFields /\ a.v = first + (MaxShort - 1)
  BY <1>0 DEF Wire!Short, WireFields
<1>5. CASE adj >= MaxShort - 1
  <2> DEFINE z == LongPart(long)
  <2>1. z \in Seq(WireFields) /\ Len(z) >= 1
        /\ (long < MaxLong => z[1].v = long) /\ (long >= MaxLong => z[1].v >= MaxLong)
    <3>1. CASE long < MaxLong
      <4> DEFINE b == Wire!Long(long)
      <4>1. b \in WireFields /\ z = <<b>> /\ b.v = long
        BY <1>0, <3>1 DEF LongPart, Wire!Long, WireFields
      <4> HIDE DEF b, z
      <4> QED BY <1>0, <3>1, <4>1
    <3>2. CASE long >= MaxLong
      <4> DEFINE b == Wire!Long(MaxLong + width)
                 c == Wire!Raw(width, extra - 2^(width - 1))
      <4>1. z = <<b, c>>
        BY <1>0, <3>2 DEF LongPart
      <4>2. extra \in CompactNumber
        BY <1>0, <3>2 DEF CompactNumber
      <4> DEFINE m == Wire!Msb(extra)
                 p == 2^m
      <4>3. m \in Nat /\ p \in Nat
        BY <4>2, CompactMsb
      <4>4. width \in Nat /\ width - 1 = m
        BY <4>3
      <4>5. 2^(width - 1) = p
        BY <4>4
      <4> HIDE DEF m, p, width, extra
      <4>6. b \in WireFields /\ b.v >= MaxLong
        BY <1>0, <4>4 DEF Wire!Long, WireFields
      <4>7. c \in WireFields
        BY <1>0, <4>3, <4>4, <4>5 DEF Wire!Raw, WireFields
      <4> HIDE DEF b, c, z
      <4> QED BY <1>0, <3>2, <4>1, <4>6, <4>7
    <3> QED BY <1>0, <3>1, <3>2
  <2>2. w = <<a>> \o z
    <3>1. ~(adj < MaxShort - 1)
      BY <1>0, <1>5
    <3> HIDE DEF adj, first
    <3> QED BY <1>2, <3>1
  <2>3. w \in Seq(WireFields) /\ Len(w) >= 2 /\ w[1] = a /\ w[2] = z[1]
    <3> HIDE DEF a, z
    <3>1. <<a>> \in Seq(WireFields) /\ Len(<<a>>) = 1
      BY <1>4
    <3>2. w \in Seq(WireFields) /\ Len(w) = 1 + Len(z) /\ w[1] = a
      BY <2>1, <2>2, <3>1, ConcatProperties
    <3>3. w[2] = z[1]
      BY <2>1, <2>2, <3>1
    <3> QED BY <2>1, <3>2, <3>3
  <2> DEFINE Goal == /\ w \in Seq(WireFields) /\ Len(w) >= 1
                     /\ w[1].v = first + (MaxShort - 1)
                     /\ Len(w) >= 2
                     /\ (long < MaxLong => w[2].v = long)
                     /\ (long >= MaxLong => w[2].v >= MaxLong)
  <2>4. Goal
    <3>1. w[1].v = first + (MaxShort - 1)
      BY <1>4, <2>3
    <3>2. (long < MaxLong => w[2].v = long) /\ (long >= MaxLong => w[2].v >= MaxLong)
      BY <2>1, <2>3
    <3>3. w \in Seq(WireFields) /\ Len(w) >= 1 /\ Len(w) >= 2
      BY <2>3
    <3> QED BY <3>1, <3>2, <3>3
  <2>5. ~(adj < MaxShort - 1)
    BY <1>0, <1>5
  <2> HIDE DEF adj
  <2> QED BY <1>5, <2>4, <2>5 DEF CompactSpelled
<1> HIDE DEF adj
<1>6. adj < MaxShort - 1 \/ adj >= MaxShort - 1
  BY <1>0
<1> QED BY <1>3, <1>5, <1>6

\* The fields w are the first ones of u.
OpensWith(u, w) == \A i \in 1..Len(w) : u[i] = w[i]

(***************************************************************************)
(* A match that is not escaped is read with its class and its length,      *)
(* whatever follows it.                                                    *)
(***************************************************************************)
LEMMA CompactReads ==
  ASSUME NEW class \in Nat, NEW adj \in Nat, NEW w, CompactSpelled(w, class, adj),
         NEW u, OpensWith(u, w), ~Wire!HasEscape(u)
  PROVE  ~Wire!IsLiteral(u) /\ Wire!Class(u) = class /\ Wire!ReadMatchLength(u) = adj
<1> DEFINE long  == adj - (MaxShort - 1)
           slot  == IF adj < MaxShort - 1 THEN adj ELSE MaxShort - 1
           times == class * MaxShort
<1>0. /\ MaxShort \in Nat \ {0} /\ MaxLong \in Nat \ {0} /\ LitCount \in Nat /\ MaxShort >= 2
      /\ times \in Nat /\ slot \in 0..(MaxShort - 1) /\ adj \in Nat
  BY CompactAssumption
<1>1. Len(w) \in Nat /\ Len(w) >= 1 /\ u[1].v = LitCount + times + slot
  <2>1. Len(w) \in Nat /\ Len(w) >= 1 /\ w[1].v = LitCount + times + slot
    BY DEF CompactSpelled
  <2> QED BY <2>1 DEF OpensWith
<1>2. u[1].v - LitCount = MaxShort * class + slot
  <2>1. times = MaxShort * class
    BY <1>0
  <2> HIDE DEF times, slot
  <2> QED BY <1>0, <1>1, <2>1
<1>3. Wire!Class(u) = class /\ Wire!Slot(u) = slot
  <2> HIDE DEF slot
  <2>1. slot \in 0..(MaxShort - 1) /\ MaxShort \in Nat \ {0}
    BY <1>0
  <2>2. (MaxShort * class + slot) % MaxShort = slot /\ (MaxShort * class + slot) \div MaxShort = class
    BY <2>1, ComesApart
  <2> QED BY <1>2, <2>2 DEF Wire!Class, Wire!Slot
<1>4. ~Wire!IsLiteral(u)
  <2> HIDE DEF slot, times
  <2> QED BY <1>0, <1>1 DEF Wire!IsLiteral
<1>5. CASE adj < MaxShort - 1
  BY <1>0, <1>3, <1>4, <1>5 DEF Wire!ReadMatchLength, Wire!HasLong
<1>6. CASE adj >= MaxShort - 1 /\ long < MaxLong
  <2>1. u[2].v = long
    <3>1. Len(w) >= 2 /\ w[2].v = long
      BY <1>6 DEF CompactSpelled
    <3> QED BY <1>1, <3>1 DEF OpensWith
  <2> QED BY <1>0, <1>3, <1>4, <1>6, <2>1 DEF Wire!ReadMatchLength, Wire!HasLong, Wire!HasEscape
<1>7. CASE adj >= MaxShort - 1 /\ long >= MaxLong
  <2>1. u[2].v >= MaxLong
    <3>1. Len(w) >= 2 /\ w[2].v >= MaxLong
      BY <1>7 DEF CompactSpelled
    <3> QED BY <1>1, <3>1 DEF OpensWith
  <2>2. Wire!HasEscape(u)
    BY <1>0, <1>3, <1>4, <1>7, <2>1 DEF Wire!HasLong, Wire!HasEscape
  <2> QED BY <2>2
<1> QED BY <1>0, <1>5, <1>6, <1>7

----------------------------------------------------------------------------
(* Tokens *)

(***************************************************************************)
(* A literal is one field, and read as that literal.                       *)
(***************************************************************************)
LEMMA LiteralComesBack ==
  ASSUME NEW s \in Seq(SourceBytes), NEW a \in Spots, NEW b, NEW w, LiteralTo(s, a, b, w)
  PROVE  /\ w \in Seq(WireFields)
         /\ Wire!Decoded(w).kind = "lit" /\ Wire!Decoded(w).sym = s[a.at + 1]
<1> DEFINE c == s[a.at + 1]
<1>1. c \in SourceBytes /\ LitCount \in Nat
  <2>1. a.at \in Nat /\ a.at < Len(s)
    BY DEF Spots, LiteralTo
  <2>2. a.at + 1 \in 1..Len(s)
    BY <2>1
  <2> QED BY <2>2, CompactAssumption
<1>2. w = <<Wire!Short(c)>>
  BY DEF LiteralTo
<1> HIDE DEF c
<1>3. c \in Nat /\ c < LitCount
  BY <1>1 DEF SourceBytes
<1> DEFINE f == Wire!Short(c)
<1>4. f \in WireFields /\ f.v = c
  BY <1>3 DEF Wire!Short, WireFields
<1> HIDE DEF f
<1>5. w = <<f>>
  BY <1>2 DEF f
<1>6. w \in Seq(WireFields) /\ w[1] = f
  BY <1>4, <1>5
<1>7. w[1].v = c /\ w[1].v < LitCount
  BY <1>3, <1>4, <1>6
<1>8. Wire!IsLiteral(w)
  BY <1>7 DEF Wire!IsLiteral
<1>9. Wire!Decoded(w) = [kind |-> "lit", sym |-> w[1].v, off |-> 0, len |-> 1]
  BY <1>8 DEF Wire!Decoded
<1>10. Wire!Decoded(w).kind = "lit" /\ Wire!Decoded(w).sym = c
  BY <1>7, <1>9
<1> QED BY <1>6, <1>10 DEF c

(***************************************************************************)
(* Distances and lengths of copies within a text are numbers that a block  *)
(* can hold.                                                               *)
(***************************************************************************)
LEMMA CopiedLength ==
  ASSUME NEW s \in Seq(SourceBytes), Len(s) < 2^30, NEW a \in Spots, NEW b, NEW off, NEW len,
         CopiesTo(s, a, b, off, len)
  PROVE  /\ len \in Nat /\ len < 2^30 /\ off \in CompactNumber
         /\ a.at \in Nat /\ off \in Nat /\ off >= 1 /\ off <= a.at /\ a.at + len <= Len(s)
<1>1. a.at \in Nat /\ off \in 1..a.at /\ len \in Nat /\ a.at + len <= Len(s) /\ Len(s) \in Nat
  BY DEF Spots, CopiesTo
<1>2. 2^30 \in Nat
  BY PowersAssumption, 30 \in 0..30
<1> DEFINE p == 2^30
<1>3. p \in Nat /\ Len(s) < p
  BY <1>2
<1> HIDE DEF p
<1>4. len < p /\ off >= 1 /\ off < p /\ off \in Nat /\ off <= a.at
  BY <1>1, <1>3
<1> QED BY <1>1, <1>4 DEF CompactNumber, p

(***************************************************************************)
(* A repeated offset that is not escaped is read as the slot and the       *)
(* length that compress meant.                                             *)
(***************************************************************************)
LEMMA RepeatComesBack ==
  ASSUME NEW class \in Nat, class < Slots, NEW len \in Nat, len >= MtfMin, len < 2^30,
         NEW w, w = MatchPart(class, len)
  PROVE  /\ w \in Seq(WireFields)
         /\ ~Wire!HasEscape(w) =>
              Wire!Decoded(w) = [kind |-> "mtf", sym |-> class, off |-> 0, len |-> len]
<1> DEFINE adj == len - MtfMin
<1>1. adj \in Nat /\ MtfMin \in Nat /\ Slots \in Nat /\ adj + MtfMin = len
  BY CompactAssumption
<1>2. LeastFor(class) = MtfMin
  BY DEF LeastFor
<1>3. CompactSpelled(w, class, adj)
  BY <1>2, CompactSpelling
<1>4. w \in Seq(WireFields)
  BY <1>3 DEF CompactSpelled
<1>5. ASSUME ~Wire!HasEscape(w)
      PROVE  Wire!Decoded(w) = [kind |-> "mtf", sym |-> class, off |-> 0, len |-> len]
  <2> HIDE DEF adj
  <2>1. OpensWith(w, w)
    BY DEF OpensWith
  <2>2. ~Wire!IsLiteral(w) /\ Wire!Class(w) = class /\ Wire!ReadMatchLength(w) = adj
    BY ONLY <1>1, <1>3, <1>5, <2>1, class \in Nat, CompactReads
  <2>3. ~Wire!HasOffset(w)
    BY <1>1, <2>2 DEF Wire!HasOffset
  <2> QED BY <1>1, <2>2, <2>3 DEF Wire!Decoded
<1> QED BY <1>4, <1>5

(***************************************************************************)
(* So is an offset that is written out.                                    *)
(***************************************************************************)
LEMMA PointerComesBack ==
  ASSUME NEW off \in CompactNumber, NEW len \in Nat, len >= PtrMin, len < 2^30,
         NEW w, w = MatchPart(Slots + Wire!Msb(off), len) \o <<Wire!LowBits(off)>>
  PROVE  /\ w \in Seq(WireFields)
         /\ ~Wire!HasEscape(w) =>
              Wire!Decoded(w) = [kind |-> "ptr", sym |-> 0, off |-> off, len |-> len]
<1> DEFINE m == Wire!Msb(off)
           class == Slots + m
           adj == len - PtrMin
           u == MatchPart(class, len)
           low == Wire!LowBits(off)
           p == 2^m
<1>0. m \in Nat /\ p \in Nat /\ low \in WireFields /\ low.v \in Int /\ low.v + p = off
  BY CompactMsb, CompactLowBits
<1> HIDE DEF m, low, p
<1>1. adj \in Nat /\ PtrMin \in Nat /\ Slots \in Nat /\ adj + PtrMin = len
      /\ class \in Nat /\ ~(class < Slots) /\ class - Slots = m /\ class >= Slots
  BY <1>0, CompactAssumption
<1>2. LeastFor(class) = PtrMin
  BY <1>1 DEF LeastFor
<1>3. CompactSpelled(u, class, adj)
  BY <1>1, <1>2, CompactSpelling
<1>4. u \in Seq(WireFields)
  BY <1>3 DEF CompactSpelled
<1>5. w = u \o <<low>>
  BY DEF m, low
<1> HIDE DEF adj, class, u
<1>6. w \in Seq(WireFields) /\ Len(w) = Len(u) + 1 /\ w[Len(w)] = low
      /\ \A i \in 1..Len(u) : w[i] = u[i]
  <2>1. <<low>> \in Seq(WireFields) /\ Len(<<low>>) = 1 /\ <<low>>[1] = low
    BY <1>0
  <2>2. /\ w \in Seq(WireFields) /\ Len(w) = Len(u) + Len(<<low>>)
        /\ \A i \in 1..Len(u) + Len(<<low>>) : w[i] = IF i <= Len(u) THEN u[i] ELSE <<low>>[i - Len(u)]
    BY ONLY <1>4, <1>5, <2>1, ConcatProperties
  <2>3. Len(u) \in Nat
    BY <1>4
  <2> QED BY ONLY <2>1, <2>2, <2>3
<1>7. ASSUME ~Wire!HasEscape(w)
      PROVE  Wire!Decoded(w) = [kind |-> "ptr", sym |-> 0, off |-> off, len |-> len]
  <2>1. OpensWith(w, u)
    BY <1>6 DEF OpensWith
  <2>2. ~Wire!IsLiteral(w) /\ Wire!Class(w) = class /\ Wire!ReadMatchLength(w) = adj
    BY ONLY <1>1, <1>3, <1>7, <2>1, CompactReads
  <2>3. Wire!HasOffset(w)
    BY <1>1, <2>2 DEF Wire!HasOffset
  <2>4. w[Len(w)].v + 2^(Wire!Class(w) - Slots) = off
    <3>1. Wire!Class(w) - Slots = m
      BY <1>1, <2>2
    <3>2. 2^(Wire!Class(w) - Slots) = p
      BY <3>1 DEF p
    <3> QED BY <1>0, <1>6, <3>2
  <2> QED BY <1>1, <2>2, <2>3, <2>4 DEF Wire!Decoded
<1> QED BY <1>6, <1>7

----------------------------------------------------------------------------
(* Lists *)

(***************************************************************************)
(* A new offset comes first in the list, which stays within its slots      *)
(* (both sides).                                                           *)
(***************************************************************************)
LEMMA PushedList ==
  ASSUME NEW list \in Seq(Nat \ {0}), NEW off \in Nat \ {0}
  PROVE  /\ Pushed(list, off) \in Seq(Nat \ {0}) /\ Pushed(list, off)[1] = off
         /\ Len(list) <= Slots => Len(Pushed(list, off)) <= Slots
<1> DEFINE n == IF Len(list) < Slots THEN Len(list) + 1 ELSE Slots
           whole == <<off>> \o list
<1>1. Slots \in Nat \ {0}
  BY CompactAssumption
<1>2. whole \in Seq(Nat \ {0}) /\ Len(whole) = Len(list) + 1 /\ whole[1] = off
  <2>1. <<off>> \in Seq(Nat \ {0}) /\ Len(<<off>>) = 1
    OBVIOUS
  <2> QED BY <2>1, ConcatProperties
<1>3. n \in 1..Len(whole) /\ n <= Slots
  BY <1>1, <1>2
<1>4. Pushed(list, off) = SubSeq(whole, 1, n)
  BY DEF Pushed
<1> HIDE DEF whole, n
<1>5. SubSeq(whole, 1, n) \in Seq(Nat \ {0}) /\ Len(SubSeq(whole, 1, n)) = n
      /\ SubSeq(whole, 1, n)[1] = whole[1]
  BY <1>2, <1>3
<1> QED BY <1>2, <1>3, <1>4, <1>5

\* The list stays as it is when its first offset comes again.
LEMMA TowardFirst ==
  ASSUME NEW list \in Seq(Nat \ {0}), list # << >>
  PROVE  Toward(list, 1) = list
<1>1. Len(list) \in Nat \ {0}
  BY EmptySeq
<1>2. 1 \in 1..Len(list) /\ Len(list) \in 1..Len(list) /\ 1 + 1 = 2 /\ 1 - 1 = 0
  BY <1>1
<1> DEFINE t == SubSeq(list, 1 + 1, Len(list))
<1>3. list = <<list[1]>> \o t
  <2>1. SubSeq(list, 1, Len(list)) = <<list[1]>> \o t
    BY <1>2, SubSeqRecursiveFirst
  <2> HIDE DEF t
  <2> QED BY <2>1, SubSeqFull
<1>4. SubSeq(list, 1, 1 - 1) = << >>
  OBVIOUS
<1>5. <<list[1]>> \o SubSeq(list, 1, 1 - 1) = <<list[1]>>
  <2>1. <<list[1]>> \in Seq(Nat \ {0})
    BY <1>1
  <2>2. <<list[1]>> \o << >> = <<list[1]>>
    BY <2>1, ConcatEmptySeq
  <2> QED BY <1>4, <2>2
<1>6. Toward(list, 1) = <<list[1]>> \o SubSeq(list, 1, 1 - 1) \o t
  BY DEF Toward
<1> HIDE DEF t
<1> QED BY <1>3, <1>5, <1>6

----------------------------------------------------------------------------
(* The encoder *)

\* The encoder's position and list.
WriterTypeOK ==
  /\ source \in Seq(SourceBytes) /\ Len(source) < 2^30
  /\ place \in Nat /\ place <= Len(source) /\ recent \in Seq(Nat \ {0}) /\ Len(recent) <= Slots

(***************************************************************************)
(* The length found for a distance is one over which the text repeats what *)
(* lies that far back (the loops of compress).                             *)
(***************************************************************************)
LEMMA ReachRepeats ==
  ASSUME WriterTypeOK, NEW off \in 1..place
  PROVE  /\ Reach(off) \in 0..(Len(source) - place)
         /\ RepeatsAfter(source, place, off, Reach(off))
<1> DEFINE limit == Len(source) - place
           len == Reach(off)
<1>1. place \in Nat /\ place - off \in Nat /\ limit \in Nat /\ 0 \in 0..limit
  BY DEF WriterTypeOK
<1>2. len = FirstDifference(source, place - off, place, limit)
  BY DEF Reach, MatchLength, FirstDifference
<1>3. Agree(source, place - off, place, 0)
  BY DEF Agree
<1> HIDE DEF limit, len
<1>4. len \in 0..limit /\ Agree(source, place - off, place, len)
  BY <1>1, <1>2, <1>3, FirstDifferenceBounds
<1>5. RepeatsAfter(source, place, off, len)
  <2> SUFFICES ASSUME NEW i \in 1..len PROVE source[place + i] = source[place + i - off]
    BY DEF RepeatsAfter
  <2>1. (place - off) + i = place + i - off
    BY <1>1, <1>4
  <2> QED BY <1>4, <2>1 DEF Agree
<1> QED BY <1>4, <1>5 DEF len, limit

(***************************************************************************)
(* An offset of the list that lies within the text is a distance back.     *)
(***************************************************************************)
LEMMA RepeatedOffsets ==
  ASSUME WriterTypeOK, NEW i \in DOMAIN recent, recent[i] <= place
  PROVE  i \in 1..Len(recent) /\ i \in Nat /\ i <= Slots /\ recent[i] \in 1..place
<1>1. i \in 1..Len(recent) /\ recent[i] \in Nat \ {0} /\ place \in Nat /\ Len(recent) \in Nat /\ Len(recent) <= Slots
  BY DEF WriterTypeOK
<1>2. Slots \in Nat
  BY CompactAssumption
<1> QED BY <1>1, <1>2

(***************************************************************************)
(* There is a longest match among the listed offsets that fit.             *)
(***************************************************************************)
LEMMA BestSlotFits ==
  ASSUME WriterTypeOK, Repeated # {}
  PROVE  BestSlot \in Repeated
<1> DEFINE f == [i \in Repeated |-> Reach(recent[i])]
           most == Len(source) - place
           Best(i) == \A j \in Repeated :
             Reach(recent[i]) > Reach(recent[j]) \/ (Reach(recent[i]) = Reach(recent[j]) /\ i <= j)
<1>1. most \in Nat
  BY DEF WriterTypeOK
<1>2. \A i \in Repeated : i \in Nat /\ Reach(recent[i]) \in 0..most
  <2> SUFFICES ASSUME NEW i \in Repeated PROVE i \in Nat /\ Reach(recent[i]) \in 0..most
    OBVIOUS
  <2>1. i \in DOMAIN recent /\ recent[i] <= place
    BY DEF Repeated
  <2>2. i \in Nat /\ recent[i] \in 1..place
    BY <2>1, RepeatedOffsets
  <2> QED BY <2>2, ReachRepeats
<1>3. f \in [Repeated -> 0..most]
  BY <1>2
<1>4. Repeated \in SUBSET Nat
  BY <1>2
<1> HIDE DEF most
<1>5. \E q \in Repeated : \A r \in Repeated : f[q] > f[r] \/ (f[q] = f[r] /\ q <= r)
  <2> HIDE DEF f
  <2> QED BY <1>1, <1>3, <1>4, FirstGreatest
<1>6. \E q \in Repeated : Best(q)
  BY <1>5
<1>7. BestSlot = CHOOSE i \in Repeated : Best(i)
  BY DEF BestSlot
<1> HIDE DEF Best
<1> QED BY <1>6, <1>7

(***************************************************************************)
(* There is a longest match among the other offsets.                       *)
(***************************************************************************)
LEMMA BestOffsetFits ==
  ASSUME WriterTypeOK, Fresh # {}
  PROVE  BestOffset \in Fresh
<1> DEFINE f == [o \in Fresh |-> Reach(o)]
           most == Len(source) - place
           Best(o) == \A p \in Fresh : Reach(o) > Reach(p) \/ (Reach(o) = Reach(p) /\ o <= p)
<1>1. most \in Nat /\ place \in Nat
  BY DEF WriterTypeOK
<1>2. \A o \in Fresh : o \in Nat /\ Reach(o) \in 0..most
  <2> SUFFICES ASSUME NEW o \in Fresh PROVE o \in Nat /\ Reach(o) \in 0..most
    OBVIOUS
  <2>1. o \in 1..place
    BY DEF Fresh
  <2> QED BY <1>1, <2>1, ReachRepeats
<1>3. f \in [Fresh -> 0..most]
  BY <1>2
<1>4. Fresh \in SUBSET Nat
  BY <1>2
<1> HIDE DEF most
<1>5. \E q \in Fresh : \A r \in Fresh : f[q] > f[r] \/ (f[q] = f[r] /\ q <= r)
  <2> HIDE DEF f
  <2> QED BY <1>1, <1>3, <1>4, FirstGreatest
<1>6. \E q \in Fresh : Best(q)
  BY <1>5
<1>7. BestOffset = CHOOSE o \in Fresh : Best(o)
  BY DEF BestOffset
<1> HIDE DEF Best
<1> QED BY <1>6, <1>7

----------------------------------------------------------------------------
(* A token read *)

(***************************************************************************)
(* Whatever step compress took, its token, when not escaped, tells the     *)
(* reader which step it was.                                               *)
(***************************************************************************)
LEMMA TokenRead ==
  ASSUME NEW s \in Seq(SourceBytes), Len(s) < 2^30, NEW a \in Spots, NEW b, NEW w,
         WritesTo(s, a, b, w), ~Wire!HasEscape(w)
  PROVE  LET t == Wire!Decoded(w)
         IN \/ /\ t.kind = "lit" /\ t.sym = s[a.at + 1] /\ a.at < Len(s)
               /\ b.at = a.at + 1 /\ b.list = a.list
            \/ /\ t.kind = "mtf" /\ b.list = a.list
               /\ \E i \in 1..Len(a.list) : t.sym = i - 1 /\ CopiesTo(s, a, b, a.list[i], t.len)
            \/ /\ t.kind = "ptr" /\ b.list = Pushed(a.list, t.off)
               /\ CopiesTo(s, a, b, t.off, t.len)
<1> DEFINE t == Wire!Decoded(w)
<1>1. CASE LiteralTo(s, a, b, w)
  <2>1. t.kind = "lit" /\ t.sym = s[a.at + 1]
    BY <1>1, LiteralComesBack
  <2> QED BY <1>1, <2>1 DEF LiteralTo
<1>2. CASE RepeatTo(s, a, b, w)
  <2>1. PICK i \in 1..Len(a.list), len \in Nat :
          /\ CopiesTo(s, a, b, a.list[i], len) /\ len >= MtfMin /\ i <= Slots
          /\ w = MatchPart(i - 1, len) /\ b.list = a.list
    BY <1>2 DEF RepeatTo
  <2>2. len < 2^30
    <3> DEFINE off == a.list[i]
    <3>1. CopiesTo(s, a, b, off, len)
      BY <2>1
    <3> HIDE DEF off
    <3> QED BY ONLY <3>1, CopiedLength, s \in Seq(SourceBytes), Len(s) < 2^30, a \in Spots
  <2>3. i - 1 \in Nat /\ i - 1 < Slots
    BY <2>1, CompactAssumption
  <2>4. t = [kind |-> "mtf", sym |-> i - 1, off |-> 0, len |-> len]
    <3> DEFINE c == i - 1
    <3>1. c \in Nat /\ c < Slots /\ w = MatchPart(c, len) /\ len \in Nat /\ len >= MtfMin /\ len < 2^30
      BY <2>1, <2>2, <2>3
    <3> HIDE DEF c
    <3>2. Wire!Decoded(w) = [kind |-> "mtf", sym |-> c, off |-> 0, len |-> len]
      BY ONLY <3>1, RepeatComesBack, ~Wire!HasEscape(w)
    <3> QED BY <3>2 DEF c
  <2>5. t.kind = "mtf" /\ t.sym = i - 1 /\ t.len = len
    BY <2>4
  <2> HIDE DEF t
  <2>6. CopiesTo(s, a, b, a.list[i], t.len)
    BY <2>1, <2>5
  <2> QED BY <2>1, <2>5, <2>6 DEF t
<1>3. CASE PointerTo(s, a, b, w)
  <2>1. PICK off \in Nat, len \in Nat :
          /\ CopiesTo(s, a, b, off, len) /\ len >= PtrMin
          /\ w = MatchPart(Slots + Wire!Msb(off), len) \o <<Wire!LowBits(off)>>
          /\ b.list = Pushed(a.list, off)
    BY <1>3 DEF PointerTo
  <2>2. len < 2^30 /\ off \in CompactNumber
    BY ONLY <2>1, CopiedLength, s \in Seq(SourceBytes), Len(s) < 2^30, a \in Spots
  <2>3. t = [kind |-> "ptr", sym |-> 0, off |-> off, len |-> len]
    BY ONLY <2>1, <2>2, PointerComesBack, ~Wire!HasEscape(w)
  <2>4. t.kind = "ptr" /\ t.off = off /\ t.len = len
    BY <2>3
  <2> HIDE DEF t
  <2> QED BY <2>1, <2>4 DEF t
<1> QED BY <1>1, <1>2, <1>3 DEF WritesTo

\* The copy is possible, and brings what was there up to the next spot.
CopyArrives(s, a, b, off, len) ==
  /\ ~(off > Len(SubSeq(s, 1, a.at)))
  /\ CopyMatch(SubSeq(s, 1, a.at), off, len) = SubSeq(s, 1, b.at)

(***************************************************************************)
(* Copying what the encoder found extends a prefix of the text to a longer *)
(* one.                                                                    *)
(***************************************************************************)
LEMMA CopyAdvances ==
  ASSUME NEW s \in Seq(SourceBytes), Len(s) < 2^30, NEW a \in Spots, NEW b, NEW off, NEW len,
         CopiesTo(s, a, b, off, len)
  PROVE  CopyArrives(s, a, b, off, len)
<1>1. a.at \in 0..Len(s) /\ off \in 1..a.at /\ len \in Nat /\ a.at + len <= Len(s)
      /\ b.at = a.at + len /\ RepeatsAfter(s, a.at, off, len)
  <2>1. /\ len \in Nat /\ a.at \in Nat /\ a.at + len <= Len(s) /\ Len(s) \in Nat
    BY CopiedLength
  <2> QED BY <2>1 DEF CopiesTo
<1>2. s \in Seq(Nat)
  <2>1. Len(s) \in Nat /\ \A i \in 1..Len(s) : s[i] \in Nat
    <3>1. \A x \in SourceBytes : x \in Nat
      BY CompactAssumption DEF SourceBytes
    <3>2. Len(s) \in Nat /\ \A i \in 1..Len(s) : s[i] \in SourceBytes
      OBVIOUS
    <3> QED BY <3>1, <3>2
  <2>2. s \in [1..Len(s) -> Nat]
    BY <2>1
  <2> QED BY <2>1, <2>2
<1>3. Len(SubSeq(s, 1, a.at)) = a.at
  BY <1>1
<1>4. Overlapping(SubSeq(s, 1, a.at), off, len) = SubSeq(s, 1, a.at + len)
  BY <1>1, <1>2, OverlapExtendsPrefix
<1> DEFINE p == SubSeq(s, 1, a.at)
<1>5. CopyMatch(p, off, len) = Overlapping(p, off, len)
  <2> HIDE DEF p
  <2> QED BY DEF CopyMatch, Overlapping
<1>6. ~(off > Len(p)) /\ CopyMatch(p, off, len) = SubSeq(s, 1, b.at)
  BY <1>1, <1>3, <1>4, <1>5
<1> QED BY <1>6 DEF CopyArrives

----------------------------------------------------------------------------
(* The invariant *)

(***************************************************************************)
(* A source is a text of literals.                                         *)
(***************************************************************************)
LEMMA SourceText ==
  ASSUME source \in Sources
  PROVE  source \in Seq(SourceBytes) /\ Len(source) < 2^30 /\ Len(source) \in Nat
<1>1. source \in Seq(SourceBytes) /\ Len(source) < 2^30
  BY CompactAssumption DEF SourceBytes
<1> QED BY <1>1

(***************************************************************************)
(* On a trail every spot lies within the text and has a list that fits its *)
(* slots; the last one is where the encoder is.                            *)
(***************************************************************************)
LEMMA TrailSpots ==
  ASSUME NEW spots, Trail(spots), source \in Sources, written \in Seq(Seq(WireFields))
  PROVE  /\ \A k \in 1..(Len(written) + 1) : spots[k] \in Spots /\ Len(spots[k].list) <= Slots
                                               /\ spots[k].at <= Len(source)
         /\ spots[Len(written) + 1] = [at |-> place, list |-> recent]
         /\ Len(written) \in Nat
         /\ WriterTypeOK
<1>1. /\ spots \in Seq(Spots) /\ Len(spots) = Len(written) + 1
      /\ spots[Len(spots)] = [at |-> place, list |-> recent]
      /\ \A k \in 1..Len(spots) : spots[k].at <= Len(source) /\ Len(spots[k].list) <= Slots
  BY DEF Trail
<1>2. Len(written) \in Nat
  OBVIOUS
<1>3. \A k \in 1..(Len(written) + 1) : spots[k] \in Spots /\ Len(spots[k].list) <= Slots
                                         /\ spots[k].at <= Len(source)
  BY <1>1, <1>2
<1> DEFINE last == spots[Len(written) + 1]
<1>4. last \in Spots /\ Len(last.list) <= Slots /\ last.at <= Len(source)
  BY <1>2, <1>3, Len(written) + 1 \in 1..(Len(written) + 1)
<1>5. last = [at |-> place, list |-> recent]
  BY <1>1
<1> HIDE DEF last
<1>6. last.at = place /\ last.list = recent
  BY <1>5
<1>7. place \in Nat /\ recent \in Seq(Nat \ {0})
  BY <1>4, <1>6 DEF Spots
<1>8. WriterTypeOK
  BY <1>4, <1>6, <1>7, SourceText DEF WriterTypeOK
<1> QED BY <1>2, <1>3, <1>5, <1>8 DEF last

(***************************************************************************)
(* Another token makes the trail longer by a spot, and it still starts     *)
(* where it did.                                                           *)
(***************************************************************************)
LEMMA TrailGrows ==
  ASSUME NEW spots, Trail(spots), source \in Sources, written \in Seq(Seq(WireFields)),
         NEW b \in Spots, b.at <= Len(source), Len(b.list) <= Slots,
         NEW w \in Seq(WireFields), WritesTo(source, [at |-> place, list |-> recent], b, w),
         UNCHANGED source, written' = Append(written, w), place' = b.at, recent' = b.list
  PROVE  /\ written' \in Seq(Seq(WireFields)) /\ Len(written') = Len(written) + 1
         /\ \E trail : Trail(trail)' /\ trail[1] = spots[1]
<1> DEFINE trail == Append(spots, b)
           n == Len(written)
<1>1. /\ spots \in Seq(Spots) /\ Len(spots) = n + 1
      /\ spots[1] = [at |-> 0, list |-> << >>]
      /\ spots[Len(spots)] = [at |-> place, list |-> recent]
      /\ \A k \in 1..Len(spots) : spots[k].at <= Len(source) /\ Len(spots[k].list) <= Slots
      /\ \A k \in 1..n : WritesTo(source, spots[k], spots[k + 1], written[k])
  BY DEF Trail
<1>2. n \in Nat
  OBVIOUS
<1>3. /\ written' \in Seq(Seq(WireFields)) /\ Len(written') = n + 1
      /\ \A k \in 1..n : written'[k] = written[k]
      /\ written'[n + 1] = w
  BY AppendProperties
<1>4. /\ trail \in Seq(Spots) /\ Len(trail) = (n + 1) + 1
      /\ \A k \in 1..(n + 1) : trail[k] = spots[k]
      /\ trail[(n + 1) + 1] = b
  BY <1>1, AppendProperties
<1> HIDE DEF trail, n
<1>5. trail[1] = spots[1]
  BY <1>2, <1>4
<1>6. b = [at |-> place', list |-> recent']
  <2>1. b = [at |-> b.at, list |-> b.list]
    BY DEF Spots
  <2> QED BY <2>1
<1>7. ASSUME NEW k \in 1..((n + 1) + 1) PROVE trail[k].at <= Len(source) /\ Len(trail[k].list) <= Slots
  <2>1. CASE k \in 1..(n + 1)
    BY <1>1, <1>4, <2>1
  <2>2. CASE k = (n + 1) + 1
    BY <1>4, <2>2
  <2> QED BY <1>2, <2>1, <2>2
<1>8. ASSUME NEW k \in 1..(n + 1) PROVE WritesTo(source, trail[k], trail[k + 1], written'[k])
  <2>1. CASE k \in 1..n
    <3>1. k \in 1..(n + 1) /\ k + 1 \in 1..(n + 1)
      BY <1>2, <2>1
    <3>2. trail[k] = spots[k] /\ trail[k + 1] = spots[k + 1] /\ written'[k] = written[k]
      BY <1>3, <1>4, <2>1, <3>1
    <3>3. WritesTo(source, spots[k], spots[k + 1], written[k])
      BY <1>1, <2>1
    <3> QED BY <3>2, <3>3
  <2>2. CASE k = n + 1
    <3>1. n + 1 \in 1..(n + 1)
      BY <1>2
    <3>2. trail[k] = [at |-> place, list |-> recent] /\ trail[k + 1] = b /\ written'[k] = w
      BY <1>1, <1>3, <1>4, <2>2, <3>1
    <3> DEFINE old == [at |-> place, list |-> recent]
    <3>3. WritesTo(source, old, b, w) /\ trail[k] = old
      BY <3>2
    <3> HIDE DEF old
    <3> QED BY ONLY <3>2, <3>3
  <2>3. k \in 1..n \/ k = n + 1
    BY ONLY <1>2, k \in 1..(n + 1)
  <2> QED BY <2>1, <2>2, <2>3
<1>9. Trail(trail)'
  <2>1. Len(trail) = Len(written') + 1 /\ trail[1] = [at |-> 0, list |-> << >>]
        /\ trail[Len(trail)] = [at |-> place', list |-> recent']
    BY <1>1, <1>3, <1>4, <1>5, <1>6
  <2>2. \A k \in 1..Len(trail) : trail[k].at <= Len(source') /\ Len(trail[k].list) <= Slots
    BY <1>4, <1>7
  <2>3. \A k \in 1..Len(written') : WritesTo(source', trail[k], trail[k + 1], written'[k])
    BY <1>3, <1>8
  <2> QED BY <1>4, <2>1, <2>2, <2>3 DEF Trail
<1> QED BY <1>3, <1>5, <1>9 DEF n

\* While it encodes, nothing has been read.
LEMMA EncodingState ==
  ASSUME CompactInv, Encoding
  PROVE  /\ source \in Sources /\ ~(Len(source) <= StoredMax) /\ CodedInv
         /\ got = 0 /\ lastWasPtr = FALSE
         /\ \E spots : Trail(spots) /\ AtSpot(spots[1])
<1>1. source \in Sources /\ phase = "encode" /\ Len(source) \in Nat /\ StoredMax \in Nat
      /\ ~(Len(source) <= StoredMax)
  <2>1. source \in Sources /\ phase = "encode" /\ Len(source) > StoredMax
    BY DEF CompactInv, Encoding
  <2>2. Len(source) \in Nat /\ StoredMax \in Nat
    BY <2>1, SourceText, CompactAssumption
  <2> QED BY <2>1, <2>2
<1>2. CodedInv
  BY <1>1 DEF CompactInv
<1>3. got = 0
  BY <1>1, <1>2 DEF CodedInv, PhasesFit
<1>4. lastWasPtr = FALSE
  BY <1>2, <1>3 DEF CodedInv, RemembersKind
<1>5. PICK spots : Trail(spots) /\ (AgreedUpTo(got) => AtSpot(spots[got + 1]))
  BY <1>2 DEF CodedInv
<1>6. AgreedUpTo(got) /\ got + 1 = 1
  BY <1>3 DEF AgreedUpTo
<1>7. AtSpot(spots[1])
  BY <1>5, <1>6
<1> QED BY <1>1, <1>2, <1>3, <1>4, <1>5, <1>7

(***************************************************************************)
(* A token written keeps the invariant, for what was not read yet cannot   *)
(* have been misread.                                                      *)
(***************************************************************************)
LEMMA EncoderStep ==
  ASSUME CompactInv, Encoding,
         NEW w \in Seq(WireFields), NEW len, NEW list, Write(w, len, list),
         NEW b \in Spots, b.at = place + len, b.list = list, b.at <= Len(source), Len(list) <= Slots,
         WritesTo(source, [at |-> place, list |-> recent], b, w)
  PROVE  CompactInv'
<1>1. /\ source \in Sources /\ ~(Len(source) <= StoredMax) /\ CodedInv /\ got = 0 /\ lastWasPtr = FALSE
  BY EncodingState
<1>2. PICK spots : Trail(spots) /\ AtSpot(spots[1])
  BY EncodingState
<1>3. written \in Seq(Seq(WireFields)) /\ phase = "encode"
  BY <1>1 DEF CodedInv, Encoding
<1>4. /\ written' = Append(written, w) /\ place' = b.at /\ recent' = b.list
      /\ UNCHANGED <<source, got, known, lastWasPtr, produced, phase>>
  BY DEF Write, readerVars
<1>5. /\ written' \in Seq(Seq(WireFields)) /\ Len(written') = Len(written) + 1
      /\ \E trail : Trail(trail)' /\ trail[1] = spots[1]
  <2>1. UNCHANGED source /\ Len(b.list) <= Slots
    BY <1>4
  <2> QED BY <1>1, <1>2, <1>3, <1>4, <2>1, TrailGrows
<1>6. PICK trail : Trail(trail)' /\ trail[1] = spots[1]
  BY <1>5
<1>7. AtSpot(trail[1])'
  BY <1>2, <1>4, <1>6 DEF AtSpot
<1>8. (AgreedUpTo(got) => AtSpot(trail[got + 1]))'
  <2>1. got' + 1 = 1
    BY <1>1, <1>4
  <2> QED BY <1>7, <2>1
<1>9. PhasesFit' /\ RemembersKind'
  <2>1. Len(written') \in Nat
    BY <1>5
  <2>2. got' = 0 /\ phase' = "encode" /\ lastWasPtr' = FALSE
    BY <1>1, <1>3, <1>4
  <2> QED BY <2>1, <2>2 DEF PhasesFit, RemembersKind
<1>10. CodedInv'
  BY <1>3, <1>4, <1>5, <1>6, <1>8, <1>9 DEF CodedInv
<1> QED BY <1>1, <1>4, <1>10 DEF CompactInv

(***************************************************************************)
(* While it encodes, the position is one of the text and the list one of   *)
(* offsets.                                                                *)
(***************************************************************************)
LEMMA EncodingTyped ==
  ASSUME CompactInv, Encoding
  PROVE  /\ WriterTypeOK /\ place < Len(source) /\ Len(source) \in Nat
         /\ source \in Seq(SourceBytes) /\ Len(source) < 2^30
         /\ [at |-> place, list |-> recent] \in Spots
<1>1. source \in Sources /\ CodedInv
  BY EncodingState
<1>2. PICK spots : Trail(spots)
  BY EncodingState
<1>3. WriterTypeOK
  BY <1>1, <1>2, TrailSpots DEF CodedInv
<1> QED BY <1>1, <1>3, SourceText DEF Encoding, WriterTypeOK, Spots

(***************************************************************************)
(* compress, a repeated offset: the slot chosen names an offset at which   *)
(* the text repeats.                                                       *)
(***************************************************************************)
LEMMA RepeatKeeps ==
  ASSUME CompactInv, WriteRepeat
  PROVE  CompactInv'
<1> DEFINE old == [at |-> place, list |-> recent]
           i == BestSlot
           off == recent[i]
           len == Reach(off)
           w == MatchPart(i - 1, len)
           b == [at |-> place + len, list |-> recent]
<1>1. Encoding /\ Repeated # {} /\ Write(w, len, recent)
  BY DEF WriteRepeat
<1>2. WriterTypeOK /\ old \in Spots /\ Len(source) < 2^30 /\ source \in Seq(SourceBytes)
      /\ place \in Nat /\ Len(source) \in Nat /\ recent \in Seq(Nat \ {0}) /\ Len(recent) <= Slots
  BY <1>1, EncodingTyped DEF WriterTypeOK
<1>3. i \in DOMAIN recent /\ off <= place /\ len >= MtfMin
  BY <1>1, <1>2, BestSlotFits DEF Repeated
<1> HIDE DEF i
<1>4. i \in 1..Len(recent) /\ i \in Nat /\ i <= Slots /\ off \in 1..place
  BY <1>2, <1>3, RepeatedOffsets
<1> HIDE DEF off
<1>5. len \in 0..(Len(source) - place) /\ RepeatsAfter(source, place, off, len)
  BY <1>2, <1>4, ReachRepeats
<1> HIDE DEF len
<1>6. len \in Nat /\ place + len <= Len(source) /\ place + len \in Nat
  BY <1>2, <1>5
<1>7. b \in Spots /\ b.at = place + len /\ b.list = recent
  BY <1>2, <1>6 DEF Spots
<1>8. old.at = place /\ old.list = recent
  OBVIOUS
<1> HIDE DEF b, old
<1>9. CopiesTo(source, old, b, off, len)
  BY <1>4, <1>5, <1>6, <1>7, <1>8 DEF CopiesTo
<1>10. RepeatTo(source, old, b, w)
  <2>1. old.list[i] = off /\ i \in 1..Len(old.list) /\ b.list = old.list
    BY <1>4, <1>7, <1>8 DEF off
  <2>2. CopiesTo(source, old, b, old.list[i], len)
    BY <1>9, <2>1
  <2> QED BY <1>3, <1>4, <1>6, <2>1, <2>2 DEF RepeatTo
<1>11. w \in Seq(WireFields)
  <2> DEFINE class == i - 1
  <2>1. class \in Nat /\ class < Slots
    BY <1>4, CompactAssumption
  <2>2. len < 2^30
    BY ONLY <1>2, <1>9, CopiedLength
  <2> HIDE DEF class
  <2>3. MatchPart(class, len) \in Seq(WireFields)
    BY ONLY <1>3, <1>6, <2>1, <2>2, RepeatComesBack
  <2> QED BY <2>3 DEF class
<1> HIDE DEF w
<1>12. WritesTo(source, old, b, w)
  BY <1>10 DEF WritesTo
<1> QED BY <1>1, <1>2, <1>6, <1>7, <1>11, <1>12, EncoderStep DEF old

(***************************************************************************)
(* compress, another offset: the one chosen is one at which the text       *)
(* repeats.                                                                *)
(***************************************************************************)
LEMMA PointerKeeps ==
  ASSUME CompactInv, WritePointer
  PROVE  CompactInv'
<1> DEFINE old == [at |-> place, list |-> recent]
           off == BestOffset
           len == Reach(off)
           w == MatchPart(Slots + Wire!Msb(off), len) \o <<Wire!LowBits(off)>>
           list == Pushed(recent, off)
           b == [at |-> place + len, list |-> list]
<1>1. Encoding /\ Fresh # {} /\ Write(w, len, list)
  BY DEF WritePointer
<1>2. WriterTypeOK /\ old \in Spots /\ Len(source) < 2^30 /\ source \in Seq(SourceBytes)
      /\ place \in Nat /\ Len(source) \in Nat /\ recent \in Seq(Nat \ {0}) /\ Len(recent) <= Slots
  BY <1>1, EncodingTyped DEF WriterTypeOK
<1>3. off \in 1..place /\ len >= PtrMin
  BY <1>1, <1>2, BestOffsetFits DEF Fresh
<1> HIDE DEF off
<1>5. len \in 0..(Len(source) - place) /\ RepeatsAfter(source, place, off, len)
  BY <1>2, <1>3, ReachRepeats
<1> HIDE DEF len
<1>6. len \in Nat /\ place + len <= Len(source) /\ place + len \in Nat /\ off \in Nat \ {0} /\ off \in Nat
  BY <1>2, <1>3, <1>5
<1>4. list \in Seq(Nat \ {0}) /\ Len(list) <= Slots
  BY <1>2, <1>6, PushedList
<1>7. b \in Spots /\ b.at = place + len /\ b.list = list
  BY <1>4, <1>6 DEF Spots
<1>8. old.at = place /\ old.list = recent
  OBVIOUS
<1> HIDE DEF b, old
<1>9. CopiesTo(source, old, b, off, len)
  BY <1>3, <1>5, <1>6, <1>7, <1>8 DEF CopiesTo
<1>10. PointerTo(source, old, b, w)
  <2>1. b.list = Pushed(old.list, off)
    BY <1>7, <1>8
  <2> QED BY <1>3, <1>6, <1>9, <2>1 DEF PointerTo
<1>11. w \in Seq(WireFields)
  <2>1. len < 2^30 /\ off \in CompactNumber
    BY ONLY <1>2, <1>9, CopiedLength
  <2> QED BY ONLY <1>3, <1>6, <2>1, PointerComesBack
<1> HIDE DEF w, list
<1>12. WritesTo(source, old, b, w)
  BY <1>10 DEF WritesTo
<1> QED BY <1>1, <1>4, <1>6, <1>7, <1>11, <1>12, EncoderStep DEF old

(***************************************************************************)
(* compress, a literal.                                                    *)
(***************************************************************************)
LEMMA LiteralKeeps ==
  ASSUME CompactInv, WriteLiteral
  PROVE  CompactInv'
<1> DEFINE old == [at |-> place, list |-> recent]
           w == <<Wire!Short(source[place + 1])>>
           b == [at |-> place + 1, list |-> recent]
<1>1. Encoding /\ Write(w, 1, recent)
  BY DEF WriteLiteral
<1>2. WriterTypeOK /\ old \in Spots /\ Len(source) < 2^30 /\ source \in Seq(SourceBytes)
      /\ place \in Nat /\ Len(source) \in Nat /\ recent \in Seq(Nat \ {0}) /\ Len(recent) <= Slots
      /\ place < Len(source)
  BY <1>1, EncodingTyped DEF WriterTypeOK
<1>3. place + 1 <= Len(source) /\ place + 1 \in Nat
  BY <1>2
<1>7. b \in Spots /\ b.at = place + 1 /\ b.list = recent
  BY <1>2, <1>3 DEF Spots
<1>8. old.at = place /\ old.list = recent
  OBVIOUS
<1> HIDE DEF b, old
<1>9. LiteralTo(source, old, b, w)
  BY <1>2, <1>7, <1>8 DEF LiteralTo
<1>10. w \in Seq(WireFields)
  BY <1>2, <1>9, LiteralComesBack
<1> HIDE DEF w
<1>11. WritesTo(source, old, b, w)
  BY <1>9 DEF WritesTo
<1> QED BY <1>1, <1>2, <1>3, <1>7, <1>10, <1>11, EncoderStep DEF old

(***************************************************************************)
(* compress returns.                                                       *)
(***************************************************************************)
LEMMA EndOfWritingKeeps ==
  ASSUME CompactInv, EndOfWriting
  PROVE  CompactInv'
<1>1. UNCHANGED <<source, place, recent, written, got, known, lastWasPtr, produced>> /\ source \in Sources
      /\ phase = "encode"
  BY DEF EndOfWriting, writerVars, readerVars, CompactInv
<1>2. Len(source) \in Nat /\ StoredMax \in Nat
  BY <1>1, SourceText, CompactAssumption
<1>3. CASE Len(source) <= StoredMax
  <2>1. phase' = "stored" /\ StoredInv
    BY <1>2, <1>3 DEF EndOfWriting, CompactInv
  <2>2. StoredInv'
    BY <1>1, <2>1 DEF StoredInv
  <2> QED BY <1>1, <1>3, <2>2 DEF CompactInv
<1>4. CASE ~(Len(source) <= StoredMax)
  <2>1. phase' = "decode" /\ place = Len(source) /\ CodedInv
    BY <1>2, <1>4 DEF EndOfWriting, CompactInv
  <2>2. CodedInv'
    <3>1. \A n : AgreedUpTo(n)' <=> AgreedUpTo(n)
      BY <1>1 DEF AgreedUpTo, Agreed
    <3>2. PhasesFit' /\ RemembersKind'
      BY <1>1, <2>1 DEF CodedInv, PhasesFit, RemembersKind
    <3>3. PICK spots : Trail(spots) /\ (AgreedUpTo(got) => AtSpot(spots[got + 1]))
      BY <2>1 DEF CodedInv
    <3>4. Trail(spots)'
      BY <1>1, <3>3 DEF Trail
    <3>5. (AgreedUpTo(got) => AtSpot(spots[got + 1]))'
      BY <1>1, <3>3 DEF AgreedUpTo, Agreed, AtSpot
    <3>6. written' \in Seq(Seq(WireFields))
      BY <1>1, <2>1 DEF CodedInv
    <3> QED BY <2>1, <3>2, <3>4, <3>5, <3>6 DEF CodedInv
  <2> QED BY <1>1, <1>4, <2>2 DEF CompactInv
<1> QED BY <1>3, <1>4

(***************************************************************************)
(* decompress, a stored text.                                              *)
(***************************************************************************)
LEMMA StoredKeeps ==
  ASSUME CompactInv, ReadStored
  PROVE  CompactInv'
<1>1. phase = "stored" /\ phase' = "done" /\ produced' = source /\ UNCHANGED source
  BY DEF ReadStored, writerVars
<1>2. source \in Sources /\ Len(source) <= StoredMax
  BY <1>1 DEF CompactInv, CodedInv
<1>3. StoredInv'
  BY <1>1 DEF StoredInv
<1> QED BY <1>1, <1>2, <1>3 DEF CompactInv

----------------------------------------------------------------------------
(* The decoder *)

\* What is known before token k is read.
Facing(spots, k) ==
  /\ k \in Nat \ {0} /\ k <= Len(written) /\ k - 1 = got /\ got + 1 = k
  /\ Trail(spots)
  /\ spots[k] \in Spots /\ spots[k + 1] \in Spots
  /\ spots[k + 1].at <= Len(source)
  /\ WritesTo(source, spots[k], spots[k + 1], written[k])
  /\ AgreedUpTo(k) => AtSpot(spots[k]) /\ Agreed(k)

(***************************************************************************)
(* While it decodes, the next token leads from the spot where the decoder  *)
(* is, if they agreed so far, to the next one.                             *)
(***************************************************************************)
LEMMA ReadingState ==
  ASSUME CompactInv, Reading
  PROVE  /\ source \in Sources /\ source \in Seq(SourceBytes) /\ Len(source) < 2^30
         /\ ~(Len(source) <= StoredMax) /\ CodedInv /\ phase = "decode"
         /\ Len(written) \in Nat /\ written \in Seq(Seq(WireFields))
         /\ place = Len(source)
         /\ \E spots : Facing(spots, got + 1)
<1>1. phase = "decode" /\ source \in Sources
  BY DEF CompactInv, Reading
<1>2. source \in Seq(SourceBytes) /\ Len(source) < 2^30
  BY <1>1, SourceText
<1>3. ~(Len(source) <= StoredMax) /\ CodedInv
  BY <1>1 DEF CompactInv, StoredInv
<1>4. written \in Seq(Seq(WireFields)) /\ got \in 0..Len(written) /\ got < Len(written) /\ place = Len(source)
  BY <1>1, <1>3 DEF CodedInv, PhasesFit, Reading
<1>5. PICK spots : Trail(spots) /\ (AgreedUpTo(got) => AtSpot(spots[got + 1]))
  BY <1>3 DEF CodedInv
<1>6. Len(written) \in Nat
  BY <1>4
<1>7. PICK k \in Nat : k = got + 1
  BY <1>4, <1>6
<1>8. k \in Nat \ {0} /\ k <= Len(written) /\ k - 1 = got /\ k \in 1..Len(written) /\ k + 1 \in 1..(Len(written) + 1)
      /\ k \in 1..(Len(written) + 1)
  BY <1>4, <1>6, <1>7
<1>9. spots[k] \in Spots /\ spots[k + 1] \in Spots /\ spots[k + 1].at <= Len(source)
  BY <1>1, <1>4, <1>5, <1>8, TrailSpots
<1>10. WritesTo(source, spots[k], spots[k + 1], written[k])
  BY <1>5, <1>8 DEF Trail
<1>11. AgreedUpTo(k) => AtSpot(spots[k]) /\ Agreed(k)
  <2> SUFFICES ASSUME AgreedUpTo(k) PROVE AtSpot(spots[k]) /\ Agreed(k)
    OBVIOUS
  <2>1. Agreed(k)
    BY <1>8 DEF AgreedUpTo
  <2>2. \A j \in 1..got : j \in 1..k
    BY <1>8
  <2>3. AgreedUpTo(got)
    BY <2>2 DEF AgreedUpTo
  <2> QED BY <1>5, <1>7, <2>1, <2>3
<1>12. Facing(spots, k)
  BY <1>5, <1>7, <1>8, <1>9, <1>10, <1>11 DEF Facing
<1>13. \E trail : Facing(trail, got + 1)
  BY <1>7, <1>12
<1> QED BY <1>1, <1>2, <1>3, <1>4, <1>6, <1>13

\* A token is read: what the decoder then has is what the encoder had.
LEMMA ReaderStep ==
  ASSUME CompactInv, Reading, UNCHANGED <<writerVars, phase>>,
         NEW spots, NEW k, Facing(spots, k), got' = k,
         AgreedUpTo(k) => produced' = SubSeq(source, 1, spots[k + 1].at) /\ known' = spots[k + 1].list,
         \/ lastWasPtr' = FALSE
         \/ lastWasPtr' = TRUE /\ Wire!Decoded(written[k]).kind # "lit"
  PROVE  CompactInv'
<1>1. UNCHANGED <<source, place, recent, written, phase>>
  BY DEF writerVars
<1>2. /\ source \in Sources /\ ~(Len(source) <= StoredMax) /\ phase = "decode"
      /\ Len(written) \in Nat /\ written \in Seq(Seq(WireFields)) /\ place = Len(source)
  BY ReadingState
<1>3. k \in Nat \ {0} /\ k <= Len(written) /\ Trail(spots)
  BY DEF Facing
<1>4. PhasesFit'
  BY <1>1, <1>2, <1>3 DEF PhasesFit
<1>5. RemembersKind'
  BY <1>1, <1>3 DEF RemembersKind
<1>6. Trail(spots)'
  BY <1>1, <1>3 DEF Trail
<1>7. (AgreedUpTo(got) => AtSpot(spots[got + 1]))'
  BY <1>1 DEF AgreedUpTo, Agreed, AtSpot
<1>8. CodedInv'
  BY <1>1, <1>2, <1>4, <1>5, <1>6, <1>7 DEF CodedInv
<1> QED BY <1>1, <1>2, <1>8 DEF CompactInv

\* A token refused: the two sides did not agree on it.
LEMMA RefusalStep ==
  ASSUME CompactInv, Reading, UNCHANGED <<writerVars, readerVars>>, phase' = "error",
         ~AgreedUpTo(got + 1)
  PROVE  CompactInv'
<1>1. UNCHANGED <<source, place, recent, written, got, known, lastWasPtr, produced>>
  BY DEF writerVars, readerVars
<1>2. /\ source \in Sources /\ ~(Len(source) <= StoredMax) /\ CodedInv
      /\ written \in Seq(Seq(WireFields)) /\ place = Len(source)
  BY ReadingState
<1>3. got < Len(written) /\ got \in 0..Len(written)
  BY <1>2 DEF Reading, CodedInv, PhasesFit
<1>4. ~AgreedUpTo(got + 1)'
  BY <1>1 DEF AgreedUpTo, Agreed
<1>5. PhasesFit'
  BY <1>1, <1>2, <1>3, <1>4 DEF PhasesFit
<1>6. RemembersKind'
  BY <1>1, <1>2 DEF CodedInv, RemembersKind
<1>7. PICK spots : Trail(spots) /\ (AgreedUpTo(got) => AtSpot(spots[got + 1]))
  BY <1>2 DEF CodedInv
<1>8. Trail(spots)'
  BY <1>1, <1>7 DEF Trail
<1>9. (AgreedUpTo(got) => AtSpot(spots[got + 1]))'
  BY <1>1, <1>7 DEF AgreedUpTo, Agreed, AtSpot
<1>10. CodedInv'
  BY <1>1, <1>2, <1>5, <1>6, <1>8, <1>9 DEF CodedInv
<1> QED BY <1>1, <1>2, <1>10 DEF CompactInv

(***************************************************************************)
(* decompress, a literal.                                                  *)
(***************************************************************************)
LEMMA ReadLiteralKeeps ==
  ASSUME CompactInv, ReadLiteral
  PROVE  CompactInv'
<1> DEFINE t == Wire!Decoded(written[got + 1])
<1>1. /\ Reading /\ t.kind = "lit" /\ produced' = Append(produced, t.sym)
      /\ got' = got + 1 /\ lastWasPtr' = FALSE /\ UNCHANGED <<writerVars, phase>> /\ known' = known
  BY DEF ReadLiteral, Token
<1>2. PICK spots : Facing(spots, got + 1)
  BY <1>1, ReadingState
<1>3. PICK k : k = got + 1
  OBVIOUS
<1>4. Facing(spots, k) /\ got' = k /\ t = Wire!Decoded(written[k])
  BY <1>1, <1>2, <1>3
<1> HIDE DEF t
<1>5. ASSUME AgreedUpTo(k)
      PROVE  produced' = SubSeq(source, 1, spots[k + 1].at) /\ known' = spots[k + 1].list
  <2> DEFINE a == spots[k]
             b == spots[k + 1]
             w == written[k]
  <2>1. AtSpot(a) /\ ~Wire!HasEscape(w) /\ WritesTo(source, a, b, w) /\ a \in Spots /\ b \in Spots
    BY <1>4, <1>5 DEF Facing, Agreed
  <2>2. source \in Seq(SourceBytes) /\ Len(source) < 2^30
    BY <1>1, ReadingState
  <2> HIDE DEF a, b, w
  <2>3. t = Wire!Decoded(w)
    BY <1>4 DEF w
  <2>4. t.sym = source[a.at + 1] /\ a.at < Len(source) /\ b.at = a.at + 1 /\ b.list = a.list
    BY <1>1, <2>1, <2>2, <2>3, TokenRead
  <2>5. a.at \in Nat
    BY <2>1 DEF Spots
  <2>6. produced = SubSeq(source, 1, a.at) /\ known = a.list
    BY <2>1 DEF AtSpot
  <2>7. Append(SubSeq(source, 1, a.at), source[a.at + 1]) = SubSeq(source, 1, a.at + 1)
    BY <2>2, <2>4, <2>5
  <2>8. produced' = SubSeq(source, 1, b.at) /\ known' = b.list
    BY <1>1, <2>4, <2>6, <2>7
  <2> QED BY <2>8 DEF b
<1> QED BY <1>1, <1>4, <1>5, ReaderStep

(***************************************************************************)
(* A match on which the two sides cannot differ is not refused, moves no   *)
(* offset but to the place where the encoder has it, and copies what the   *)
(* encoder saw.                                                            *)
(***************************************************************************)
LEMMA MatchRead ==
  ASSUME CompactInv, Reading, NEW spots, NEW k, Facing(spots, k), AgreedUpTo(k),
         NEW t, t = Wire!Decoded(written[k]), t.kind # "lit",
         NEW slot, slot = t.sym + (IF lastWasPtr THEN 2 ELSE 1),
         NEW list, list = IF t.kind = "ptr" THEN Pushed(known, t.off) ELSE Toward(known, slot)
  PROVE  /\ ~(t.kind = "mtf" /\ slot > Len(known))
         /\ ~(list[1] > Len(produced))
         /\ CopyMatch(produced, list[1], t.len) = SubSeq(source, 1, spots[k + 1].at)
         /\ list = spots[k + 1].list
<1> DEFINE a == spots[k]
           b == spots[k + 1]
           w == written[k]
<1>1. AtSpot(a) /\ Agreed(k) /\ WritesTo(source, a, b, w) /\ a \in Spots /\ b \in Spots
  BY DEF Facing
<1>2. source \in Seq(SourceBytes) /\ Len(source) < 2^30 /\ CodedInv
  BY ReadingState
<1>3. ~Wire!HasEscape(w) /\ t = Wire!Decoded(w)
  BY <1>1 DEF Agreed
<1>4. t.kind = "mtf" => t.sym = 0 /\ lastWasPtr = FALSE
  <2> SUFFICES ASSUME t.kind = "mtf" PROVE t.sym = 0 /\ lastWasPtr = FALSE
    OBVIOUS
  <2>1. t.sym = 0 /\ Wire!Decoded(written[k - 1]).kind = "lit"
    BY <1>1 DEF Agreed
  <2>2. k - 1 = got
    BY DEF Facing
  <2>3. Wire!Decoded(written[got]).kind = "lit"
    BY <2>1, <2>2
  <2>4. lastWasPtr = FALSE
    BY <1>2, <2>3 DEF CodedInv, RemembersKind
  <2> QED BY <2>1, <2>4
<1> HIDE DEF a, b, w
<1>5. produced = SubSeq(source, 1, a.at) /\ known = a.list /\ known \in Seq(Nat \ {0})
  BY <1>1 DEF AtSpot, Spots
<1>6. CASE t.kind = "mtf"
  <2>1. b.list = a.list /\ \E i \in 1..Len(a.list) : t.sym = i - 1 /\ CopiesTo(source, a, b, a.list[i], t.len)
    BY <1>1, <1>2, <1>3, <1>6, TokenRead
  <2>2. PICK i \in 1..Len(a.list) : t.sym = i - 1 /\ CopiesTo(source, a, b, a.list[i], t.len)
    BY <2>1
  <2>3. i = 1 /\ 1 <= Len(known) /\ Len(known) \in Nat
    BY <1>4, <1>5, <1>6, <2>2
  <2>4. slot = 1
    BY <1>4, <1>6
  <2>5. list = known
    <3>1. known # << >>
      BY <1>5, <2>3
    <3>2. Toward(known, 1) = known
      BY <1>5, <3>1, TowardFirst
    <3> QED BY <1>6, <2>4, <3>2
  <2> DEFINE off == a.list[1]
  <2>6. CopiesTo(source, a, b, off, t.len) /\ list[1] = off
    BY <1>5, <2>2, <2>3, <2>5
  <2> HIDE DEF off
  <2>7. CopyArrives(source, a, b, off, t.len)
    BY ONLY <1>1, <1>2, <2>6, CopyAdvances
  <2>8. list = b.list
    BY <1>5, <2>1, <2>5
  <2>9. ~(slot > Len(known))
    BY <2>3, <2>4
  <2>10. ~(list[1] > Len(produced)) /\ CopyMatch(produced, list[1], t.len) = SubSeq(source, 1, b.at)
    BY ONLY <1>5, <2>6, <2>7 DEF CopyArrives
  <2> QED BY <2>8, <2>9, <2>10 DEF b
<1>7. CASE t.kind # "mtf"
  <2>1. t.kind = "ptr" /\ b.list = Pushed(a.list, t.off) /\ CopiesTo(source, a, b, t.off, t.len)
    BY <1>1, <1>2, <1>3, <1>7, TokenRead
  <2>2. t.off \in Nat \ {0}
    <3>1. t.off \in Nat /\ t.off >= 1
      BY ONLY <1>1, <1>2, <2>1, CopiedLength
    <3> QED BY <3>1
  <2>3. list = Pushed(known, t.off)
    BY <2>1
  <2>4. list[1] = t.off /\ list = b.list
    BY <1>5, <2>1, <2>2, <2>3, PushedList
  <2>5. CopyArrives(source, a, b, t.off, t.len)
    BY ONLY <1>1, <1>2, <2>1, CopyAdvances
  <2>6. ~(list[1] > Len(produced)) /\ CopyMatch(produced, list[1], t.len) = SubSeq(source, 1, b.at)
    BY ONLY <1>5, <2>4, <2>5 DEF CopyArrives
  <2> QED BY <1>7, <2>4, <2>6 DEF b
<1> QED BY <1>6, <1>7

(***************************************************************************)
(* decompress, a match: copied, or refused when they differed.             *)
(***************************************************************************)
LEMMA ReadMatchKeeps ==
  ASSUME CompactInv, ReadMatch
  PROVE  CompactInv'
<1>1. Reading /\ UNCHANGED writerVars
  BY DEF ReadMatch
<1>2. PICK spots : Facing(spots, got + 1)
  BY <1>1, ReadingState
<1>3. PICK t, slot, list, k :
        /\ k = got + 1 /\ t = Wire!Decoded(written[got + 1]) /\ slot = t.sym + (IF lastWasPtr THEN 2 ELSE 1)
        /\ list = IF t.kind = "ptr" THEN Pushed(known, t.off) ELSE Toward(known, slot)
  OBVIOUS
<1>4. t.kind # "lit" /\ Facing(spots, k) /\ t = Wire!Decoded(written[k])
  BY <1>2, <1>3 DEF ReadMatch, Token
<1> DEFINE Refused == (t.kind = "mtf" /\ slot > Len(known)) \/ list[1] > Len(produced)
<1>5. IF Refused THEN phase' = "error" /\ UNCHANGED readerVars
      ELSE /\ produced' = CopyMatch(produced, list[1], t.len) /\ known' = list
           /\ got' = k /\ lastWasPtr' = TRUE /\ UNCHANGED phase
  BY <1>3 DEF ReadMatch, Token
<1>6. CASE Refused
  <2>1. ~AgreedUpTo(k)
    <3> SUFFICES ASSUME AgreedUpTo(k) PROVE FALSE
      OBVIOUS
    <3>1. ~(t.kind = "mtf" /\ slot > Len(known)) /\ ~(list[1] > Len(produced)) /\ list = spots[k + 1].list
      BY <1>1, <1>3, <1>4, MatchRead
    <3> QED BY <1>6, <3>1
  <2> QED BY <1>1, <1>3, <1>5, <1>6, <2>1, RefusalStep
<1>7. CASE ~Refused
  <2>1. ASSUME AgreedUpTo(k)
        PROVE  produced' = SubSeq(source, 1, spots[k + 1].at) /\ known' = spots[k + 1].list
    <3>1. CopyMatch(produced, list[1], t.len) = SubSeq(source, 1, spots[k + 1].at) /\ list = spots[k + 1].list
      BY <1>1, <1>3, <1>4, <2>1, MatchRead
    <3> HIDE DEF Refused
    <3> QED BY ONLY <1>5, <1>7, <3>1
  <2> HIDE DEF Refused
  <2>2. got' = k /\ lastWasPtr' = TRUE /\ UNCHANGED phase
    BY ONLY <1>5, <1>7
  <2>3. UNCHANGED <<writerVars, phase>>
    BY <1>1, <2>2
  <2>4. Wire!Decoded(written[k]).kind # "lit"
    BY ONLY <1>4
  <2> QED BY <1>1, <1>4, <2>1, <2>2, <2>3, <2>4, ReaderStep
<1> QED BY <1>6, <1>7

\* When all tokens are read, the decoder has the whole text.
LEMMA AllRead ==
  ASSUME source \in Sources, CodedInv, phase \in {"decode", "done"}, got = Len(written), AgreedUpTo(got)
  PROVE  produced = source
<1>1. PICK spots : Trail(spots) /\ AtSpot(spots[got + 1])
  BY DEF CodedInv
<1>2. written \in Seq(Seq(WireFields)) /\ place = Len(source)
  BY DEF CodedInv, PhasesFit
<1>3. spots[got + 1] = [at |-> place, list |-> recent]
  BY <1>1, <1>2, TrailSpots
<1>4. produced = SubSeq(source, 1, Len(source))
  BY <1>1, <1>2, <1>3 DEF AtSpot
<1>5. SubSeq(source, 1, Len(source)) = source
  BY SourceText, SubSeqFull
<1> QED BY <1>4, <1>5

(***************************************************************************)
(* decompress returns, or finds a checksum that differs.                   *)
(***************************************************************************)
LEMMA EndOfReadingKeeps ==
  ASSUME CompactInv, EndOfReading
  PROVE  CompactInv'
<1>1. /\ UNCHANGED <<source, place, recent, written, got, known, lastWasPtr, produced>>
      /\ phase = "decode" /\ got = Len(written) /\ source \in Sources
  BY DEF EndOfReading, writerVars, readerVars, CompactInv
<1>2. ~(Len(source) <= StoredMax) /\ CodedInv
  BY <1>1 DEF CompactInv, StoredInv
<1>3. phase' = "done" \/ (phase' = "error" /\ produced # source)
  BY DEF EndOfReading
<1>4. phase' = "error" => ~AgreedUpTo(got)
  BY <1>1, <1>2, <1>3, AllRead
<1>5. written \in Seq(Seq(WireFields)) /\ Len(written) \in Nat /\ place = Len(source)
  BY <1>1, <1>2 DEF CodedInv, PhasesFit
<1>6. AgreedUpTo(got)' <=> AgreedUpTo(got)
  BY <1>1 DEF AgreedUpTo, Agreed
<1>7. PhasesFit'
  <2>1. ~(got' < Len(written')) /\ got' \in 0..Len(written')
    BY <1>1, <1>5
  <2>2. phase' = "error" => ~AgreedUpTo(IF got < Len(written) THEN got + 1 ELSE got)'
    <3>1. ~(got < Len(written)) /\ UNCHANGED <<got, written>>
      BY <1>1, <1>5
    <3>2. AgreedUpTo(IF got < Len(written) THEN got + 1 ELSE got)' <=> AgreedUpTo(got)'
      BY <2>1 DEF AgreedUpTo
    <3> QED BY <1>4, <1>6, <3>2
  <2> QED BY <1>1, <1>3, <1>5, <2>1, <2>2 DEF PhasesFit
<1>8. RemembersKind'
  BY <1>1, <1>2 DEF CodedInv, RemembersKind
<1>9. PICK spots : Trail(spots) /\ (AgreedUpTo(got) => AtSpot(spots[got + 1]))
  BY <1>2 DEF CodedInv
<1>10. Trail(spots)'
  BY <1>1, <1>9 DEF Trail
<1>11. (AgreedUpTo(got) => AtSpot(spots[got + 1]))'
  BY <1>1, <1>9 DEF AgreedUpTo, Agreed, AtSpot
<1>12. CodedInv'
  BY <1>1, <1>3, <1>5, <1>7, <1>8, <1>10, <1>11 DEF CodedInv
<1> QED BY <1>1, <1>2, <1>12 DEF CompactInv

(***************************************************************************)
(* Nothing changes.                                                        *)
(***************************************************************************)
LEMMA StutterKeeps ==
  ASSUME CompactInv, UNCHANGED compactVars
  PROVE  CompactInv'
<1>1. UNCHANGED <<source, place, recent, written, got, known, lastWasPtr, produced, phase>>
  BY DEF compactVars, writerVars, readerVars
<1>2. source \in Sources
  BY DEF CompactInv
<1>3. CASE Len(source) <= StoredMax
  <2>1. StoredInv
    BY <1>3 DEF CompactInv
  <2>2. StoredInv'
    BY <1>1, <2>1 DEF StoredInv
  <2> QED BY <1>1, <1>2, <1>3, <2>2 DEF CompactInv
<1>4. CASE ~(Len(source) <= StoredMax)
  <2>1. CodedInv
    BY <1>4 DEF CompactInv
  <2>2. PICK spots : Trail(spots) /\ (AgreedUpTo(got) => AtSpot(spots[got + 1]))
    BY <2>1 DEF CodedInv
  <2>3. Trail(spots)'
    BY <1>1, <2>2 DEF Trail
  <2>4. (AgreedUpTo(got) => AtSpot(spots[got + 1]))'
    BY <1>1, <2>2 DEF AgreedUpTo, Agreed, AtSpot
  <2>5. PhasesFit'
    <3>1. PhasesFit
      BY <2>1 DEF CodedInv
    <3> QED BY <1>1, <3>1 DEF PhasesFit, AgreedUpTo, Agreed
  <2>6. RemembersKind'
    BY <1>1, <2>1 DEF CodedInv, RemembersKind
  <2>7. CodedInv'
    BY <1>1, <2>1, <2>3, <2>4, <2>5, <2>6 DEF CodedInv
  <2> QED BY <1>1, <1>2, <1>4, <2>7 DEF CompactInv
<1> QED BY <1>3, <1>4

(***************************************************************************)
(* The trail begins at the start of the text.                              *)
(***************************************************************************)
LEMMA CompactStarts ==
  ASSUME CompactInit
  PROVE  CompactInv
<1>1. PICK text \in Sources : CompactStart(text)
  BY DEF CompactInit
<1>2. /\ source \in Sources /\ place = 0 /\ recent = << >> /\ written = << >>
      /\ got = 0 /\ known = << >> /\ lastWasPtr = FALSE /\ produced = << >> /\ phase = "encode"
  BY <1>1 DEF CompactStart
<1>3. StoredInv
  BY <1>2 DEF StoredInv
<1> DEFINE start == [at |-> 0, list |-> << >>]
           spots == <<start>>
<1>4. start \in Spots /\ start.at = 0 /\ start.list = << >> /\ Slots \in Nat
  BY CompactAssumption DEF Spots
<1>5. Len(written) = 0 /\ written \in Seq(Seq(WireFields))
  BY <1>2
<1>6. Trail(spots)
  <2>1. start.at <= Len(source) /\ Len(start.list) <= Slots
    BY <1>2, <1>4, SourceText
  <2>2. start = [at |-> place, list |-> recent]
    BY <1>2
  <2> HIDE DEF start
  <2>3. spots \in Seq(Spots) /\ Len(spots) = 1 /\ spots[1] = start
    BY <1>4
  <2> HIDE DEF spots
  <2>4. \A k \in 1..Len(spots) : spots[k].at <= Len(source) /\ Len(spots[k].list) <= Slots
    BY <2>1, <2>3
  <2>5. \A k \in 1..Len(written) : WritesTo(source, spots[k], spots[k + 1], written[k])
    BY <1>5
  <2>6. start = [at |-> 0, list |-> << >>]
    BY DEF start
  <2> QED BY <1>5, <2>2, <2>3, <2>4, <2>5, <2>6 DEF Trail
<1>7. AgreedUpTo(got) => AtSpot(spots[got + 1])
  <2>1. got + 1 = 1 /\ spots[1] = start
    BY <1>2
  <2>2. SubSeq(source, 1, 0) = << >>
    BY SubSeqEmpty
  <2>3. AtSpot(start)
    BY <1>2, <1>4, <2>2 DEF AtSpot
  <2> HIDE DEF spots, start
  <2> QED BY <2>1, <2>3
<1> HIDE DEF spots
<1>8. PhasesFit /\ RemembersKind
  BY <1>2, <1>5 DEF PhasesFit, RemembersKind
<1>9. CodedInv
  BY <1>2, <1>5, <1>6, <1>7, <1>8 DEF CodedInv
<1> QED BY <1>2, <1>3, <1>9 DEF CompactInv

(***************************************************************************)
(* The decoder that is where the encoder was has a prefix of the text, and *)
(* in the end all of it.                                                   *)
(***************************************************************************)
LEMMA CompactInvFollows ==
  ASSUME CompactInv
  PROVE  CompactFollows
<1> SUFFICES ASSUME \A k \in DOMAIN written : k <= got + 1 => Agreed(k)
             PROVE  produced = SubSeq(source, 1, Len(produced)) /\ CompactRoundTrip
  BY DEF CompactFollows
<1>0. source \in Sources /\ source \in Seq(SourceBytes) /\ Len(source) \in Nat
  BY SourceText DEF CompactInv
<1>1. CASE Len(source) <= StoredMax
  <2>1. StoredInv
    BY <1>1 DEF CompactInv
  <2>2. CompactRoundTrip
    BY <2>1 DEF StoredInv, CompactRoundTrip
  <2>3. CASE produced = source
    <3>1. SubSeq(source, 1, Len(source)) = source
      BY <1>0, SubSeqFull
    <3> QED BY <2>2, <2>3, <3>1
  <2>4. CASE produced = << >>
    <3>1. Len(produced) = 0 /\ SubSeq(source, 1, 0) = << >>
      BY <2>4, SubSeqEmpty
    <3> QED BY <2>2, <2>4, <3>1
  <2> QED BY <2>1, <2>3, <2>4 DEF StoredInv
<1>2. CASE ~(Len(source) <= StoredMax)
  <2>1. CodedInv
    BY <1>2 DEF CompactInv
  <2>2. written \in Seq(Seq(WireFields)) /\ Len(written) \in Nat /\ got \in 0..Len(written) /\ got \in Nat
    BY <2>1 DEF CodedInv, PhasesFit
  <2>3. \A k \in 1..Len(written) : k <= got + 1 => Agreed(k)
    BY <2>2
  <2>4. AgreedUpTo(got)
    <3>1. \A k \in 1..got : k \in 1..Len(written) /\ k <= got + 1
      BY <2>2
    <3> QED BY <2>3, <3>1 DEF AgreedUpTo
  <2>5. got < Len(written) => AgreedUpTo(got + 1)
    <3>1. got < Len(written) => \A k \in 1..(got + 1) : k \in 1..Len(written) /\ k <= got + 1
      BY <2>2
    <3> QED BY <2>3, <3>1 DEF AgreedUpTo
  <2>6. phase # "error"
    BY <2>1, <2>4, <2>5 DEF CodedInv, PhasesFit
  <2>7. phase = "done" => produced = source
    BY <1>0, <2>1, <2>4, AllRead DEF CodedInv, PhasesFit
  <2>8. PICK spots : Trail(spots) /\ AtSpot(spots[got + 1])
    BY <2>1, <2>4 DEF CodedInv
  <2>9. spots[got + 1] \in Spots /\ spots[got + 1].at <= Len(source)
    <3>1. got + 1 \in 1..(Len(written) + 1)
      BY <2>2
    <3> QED BY <1>0, <2>2, <2>8, <3>1, TrailSpots
  <2>10. PICK n : n = spots[got + 1].at
    OBVIOUS
  <2>11. n \in 0..Len(source) /\ produced = SubSeq(source, 1, n)
    BY <1>0, <2>8, <2>9, <2>10 DEF AtSpot, Spots
  <2>12. Len(SubSeq(source, 1, n)) = n
    BY <1>0, <2>11
  <2>13. produced = SubSeq(source, 1, Len(produced))
    BY <2>11, <2>12
  <2> QED BY <2>6, <2>7, <2>13 DEF CompactRoundTrip
<1> QED BY <1>1, <1>2

(***************************************************************************)
(* While every token read, and the next, is one on which the two sides     *)
(* cannot differ, decompress gives back what compress was given            *)
(* (ntdll/xpress9.py).                                                     *)
(***************************************************************************)
THEOREM CompactReadsBack == CompactSpec => []CompactFollows
<1>1. CompactInit => CompactInv
  BY CompactStarts
<1>2. CompactInv /\ [CompactNext]_compactVars => CompactInv'
  <2> SUFFICES ASSUME CompactInv, [CompactNext]_compactVars PROVE CompactInv'
    OBVIOUS
  <2>1. CASE WriteRepeat
    BY <2>1, RepeatKeeps
  <2>2. CASE WritePointer
    BY <2>2, PointerKeeps
  <2>3. CASE WriteLiteral
    BY <2>3, LiteralKeeps
  <2>4. CASE EndOfWriting
    BY <2>4, EndOfWritingKeeps
  <2>5. CASE ReadStored
    BY <2>5, StoredKeeps
  <2>6. CASE ReadLiteral
    BY <2>6, ReadLiteralKeeps
  <2>7. CASE ReadMatch
    BY <2>7, ReadMatchKeeps
  <2>8. CASE EndOfReading
    BY <2>8, EndOfReadingKeeps
  <2>9. CASE Finished
    BY <2>9, StutterKeeps DEF Finished
  <2>10. CASE UNCHANGED compactVars
    BY <2>10, StutterKeeps
  <2> QED BY <2>1, <2>2, <2>3, <2>4, <2>5, <2>6, <2>7, <2>8, <2>9, <2>10 DEF CompactNext
<1>3. CompactInv => CompactFollows
  BY CompactInvFollows
<1> QED BY <1>1, <1>2, <1>3, PTL DEF CompactSpec
============================================================================
