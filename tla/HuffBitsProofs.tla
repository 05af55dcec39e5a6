--------------------------- MODULE HuffBitsProofs ---------------------------
(***************************************************************************)
(* The bit writer and the bit reader of XPRESS_HUFF keep step, for every   *)
(* width of a word, every table and every list of operations.              *)
(*                                                                         *)
(* The invariant records in trail what each operation does to the writer's *)
(* cursor and room; the reader is shown to do the same to its own.  A      *)
(* second layer says where in the buffer the bits of each operation are,   *)
(* and what of them the reader's register holds.                           *)
(***************************************************************************)
EXTENDS HuffBits, ArithmeticLemmas, SequenceTheorems

Moves(item, a, b) ==
  /\ item.kind = "bits" /\ item.size <= a.free =>
       /\ b.pos = a.pos /\ b.free = a.free - item.size
       /\ b.pos1 = a.pos1 /\ b.pos2 = a.pos2
  /\ item.kind = "bits" /\ item.size > a.free =>
       /\ b.pos = a.pos + 2 /\ b.free = a.free - item.size + WordBits
       /\ b.pos1 = a.pos2 /\ b.pos2 = a.pos
  /\ item.kind = "raw" =>
       /\ b.pos = a.pos + item.size /\ b.free = a.free
       /\ b.pos1 = a.pos1 /\ b.pos2 = a.pos2

FirstPlace ==
  [pos1 |-> TableSize, pos2 |-> TableSize + 2, pos |-> TableSize + 4, free |-> WordBits]

TrailInv ==
  /\ Len(trail) = Len(script) + 1
  /\ trail[1] = FirstPlace
  /\ trail[Len(trail)] = Place
  /\ \A k \in 1..Len(script) : Moves(script[k], trail[k], trail[k + 1])
  /\ \A k \in 1..Len(trail) : TableSize + 4 <= trail[k].pos /\ trail[k].pos <= pos

ReaderInv ==
  /\ phase = "write" => got = << >>
  /\ CursorsAgree
  /\ NeverTruncated

IndInv == TypeOK /\ TrailInv /\ ReaderInv

----------------------------------------------------------------------------

LEMMA Widths == WordBits \in Nat \ {0} /\ WordBits >= 2 /\ TableSize \in Nat
BY HuffBitsAssumption DEF WordBits

LEMMA ItemFacts ==
  ASSUME NEW item \in Items
  PROVE  /\ item.kind \in {"bits", "raw"} /\ item.size \in Nat /\ item.value \in Nat
         /\ item.kind = "bits" => item.size < WordBits
         /\ item.kind = "raw" => item.size \in 1..4
BY HuffBitsAssumption DEF ItemType

(***************************************************************************)
(* The powers of two up to two words are positive.                         *)
(***************************************************************************)
LEMMA TwoWords == 4 * CellBits = 2 * WordBits /\ CellBits \in Nat \ {0}
BY HuffBitsAssumption DEF WordBits

LEMMA PowerTyped == ASSUME NEW k \in 0..(2 * WordBits) PROVE 2^k \in Nat \ {0}
<1> DEFINE M == 4 * CellBits
           S == {i \in 0..M : ~(2^i \in Nat \ {0})}
<1>1. M \in Nat /\ M = 2 * WordBits
  BY HuffBitsAssumption DEF WordBits
<1>2. ASSUME S # {} PROVE FALSE
  <2>1. PICK m \in S : \A i \in S : m <= i
    <3>1. S \in SUBSET Nat
      OBVIOUS
    <3> QED BY <1>2, <3>1, LeastNatural
  <2>2. m \in 0..M /\ ~(2^m \in Nat \ {0})
    BY <2>1
  <2>3. m # 0
    <3>1. m = 0 => 2^m = 1
      BY PowersAssumption
    <3> QED BY <2>2, <3>1
  <2>4. m - 1 \in 0..(M - 1) /\ (m - 1) + 1 = m /\ m - 1 \in 0..M /\ ~(m <= m - 1)
    BY <1>1, <2>2, <2>3
  <2> HIDE DEF M
  <2>5. 2^(m - 1) \in Nat \ {0}
    BY <2>1, <2>4
  <2>6. 2^m = 2 * 2^(m - 1)
    BY <2>4, PowersAssumption DEF M
  <2> DEFINE h == 2^(m - 1)
  <2>7. h \in Nat \ {0} /\ 2^m = 2 * h
    BY <2>5, <2>6
  <2> HIDE DEF h
  <2> QED BY <2>2, <2>7
<1> QED BY <1>1, <1>2

(***************************************************************************)
(* A value's cells are integers, as many as were asked for.                *)
(***************************************************************************)
LEMMA CellsTyped ==
  ASSUME NEW k \in 1..4, NEW v \in Int
  PROVE  Cells(k, v) \in Seq(Int) /\ Len(Cells(k, v)) = k
<1>1. 2^CellBits \in Nat \ {0}
  BY PowerTyped, HuffBitsAssumption DEF WordBits
<1>2. ASSUME NEW i \in 1..k PROVE (v \div 2^((i - 1) * CellBits)) % 2^CellBits \in Int
  <2>1. (i - 1) * CellBits \in 0..(4 * CellBits)
    <3>1. CASE i = 1
      BY <3>1, HuffBitsAssumption
    <3>2. CASE i = 2
      BY <3>2, HuffBitsAssumption
    <3>3. CASE i = 3
      BY <3>3, HuffBitsAssumption
    <3>4. CASE i = 4
      BY <3>4, HuffBitsAssumption
    <3> QED BY <3>1, <3>2, <3>3, <3>4
  <2> DEFINE p == 2^((i - 1) * CellBits)
  <2>2. p \in Nat \ {0}
    BY <2>1, PowerTyped, TwoWords
  <2> HIDE DEF p
  <2>3. v \div p \in Int
    BY <2>2
  <2> QED BY <1>1, <2>3 DEF p
<1>3. Cells(k, v) \in [1..k -> Int]
  BY <1>2 DEF Cells
<1> QED BY <1>3

LEMMA PutWordTyped ==
  ASSUME NEW b \in Seq(Int), NEW p \in Nat, NEW w \in Int, p + 2 <= Len(b)
  PROVE  PutWord(b, p, w) \in Seq(Int) /\ Len(PutWord(b, p, w)) = Len(b)
<1>1. Cells(2, w) \in Seq(Int) /\ Len(Cells(2, w)) = 2
  BY CellsTyped
<1> DEFINE c == Cells(2, w)
<1>2. c \in Seq(Int) /\ Len(c) = 2
  BY <1>1
<1>3. PutWord(b, p, w) = [b EXCEPT ![p + 1] = c[1], ![p + 2] = c[2]]
  BY DEF PutWord
<1> HIDE DEF c
<1>4. c[1] \in Int /\ c[2] \in Int
  <2>1. 1 \in 1..Len(c) /\ 2 \in 1..Len(c)
    BY <1>2
  <2> QED BY <1>2, <2>1, ElementOfSeq
<1> DEFINE b1 == [b EXCEPT ![p + 1] = c[1]]
<1>5. b1 \in Seq(Int) /\ Len(b1) = Len(b)
  BY <1>4, ExceptSeq, p + 1 \in 1..Len(b)
<1>6. [b1 EXCEPT ![p + 2] = c[2]] \in Seq(Int) /\ Len([b1 EXCEPT ![p + 2] = c[2]]) = Len(b1)
  <2> HIDE DEF b1
  <2> QED BY <1>4, <1>5, ExceptSeq, p + 2 \in 1..Len(b)
<1> QED BY <1>3, <1>5, <1>6

LEMMA WordTyped ==
  ASSUME NEW b \in Seq(Int), NEW p \in Nat, p + 2 <= Len(b)
  PROVE  WordAt(b, p) \in Int
<1>1. b[p + 1] \in Int /\ b[p + 2] \in Int
  OBVIOUS
<1>2. 2^CellBits \in Nat
  BY PowerTyped, HuffBitsAssumption DEF WordBits
<1> QED BY <1>1, <1>2 DEF WordAt

----------------------------------------------------------------------------
(* The writer's steps *)

LEMMA LoggedKeepsInv ==
  ASSUME IndInv, NEW item \in Items, Logged(item),
         pos' \in Nat, pos' >= pos, pos1' \in Nat, pos2' \in Nat,
         pos1' + 2 <= pos', pos2' + 2 <= pos',
         buf' \in Seq(Int), Len(buf') = pos', free' \in 0..WordBits, word' \in Int,
         Moves(item, Place, Place')
  PROVE  IndInv'
<1> DEFINE entry == Place'
<1>1. /\ phase = "write" /\ phase' = phase
      /\ script' = Append(script, item) /\ trail' = Append(trail, entry)
      /\ register' = register /\ extra' = extra /\ rpos' = rpos /\ got' = got /\ fault' = fault
  BY DEF Logged, readVars
<1>2. /\ script \in Seq(Items) /\ Len(script) \in Nat
      /\ trail \in Seq(Places)
      /\ Len(trail) = Len(script) + 1 /\ got = << >> /\ pos \in Nat
  BY <1>1 DEF IndInv, TypeOK, TrailInv, ReaderInv
<1>3. entry \in Places
  BY DEF Place, Places
<1> HIDE DEF entry
<1>4. /\ script' \in Seq(Items) /\ Len(script') = Len(script) + 1
      /\ trail' \in Seq(Places) /\ Len(trail') = Len(script') + 1
      /\ script'[Len(script')] = item /\ trail'[Len(trail')] = entry
      /\ \A k \in 1..Len(script) : script'[k] = script[k]
      /\ \A k \in 1..Len(trail) : trail'[k] = trail[k]
  <2>1. trail \in Seq(Places) /\ entry \in Places
    BY <1>2, <1>3
  <2>2. /\ script' \in Seq(Items) /\ Len(script') = Len(script) + 1
        /\ script'[Len(script')] = item
        /\ \A k \in 1..Len(script) : script'[k] = script[k]
    BY <1>1, <1>2, AppendProperties
  <2>3. /\ trail' \in Seq(Places) /\ Len(trail') = Len(trail) + 1
        /\ trail'[Len(trail')] = entry
        /\ \A k \in 1..Len(trail) : trail'[k] = trail[k]
    BY <1>1, <2>1, AppendProperties
  <2> QED BY <1>2, <2>2, <2>3
<1>5. TypeOK'
  <2>1. got' \in Seq(Int) /\ Len(got') <= Len(script')
    BY <1>1, <1>2, <1>4, EmptySeq DEF IndInv, TypeOK
  <2> QED BY <1>1, <1>4, <2>1 DEF IndInv, TypeOK
<1>6. \A k \in 1..Len(script') : Moves(script'[k], trail'[k], trail'[k + 1])
  <2> SUFFICES ASSUME NEW k \in 1..Len(script') PROVE Moves(script'[k], trail'[k], trail'[k + 1])
    OBVIOUS
  <2>1. CASE k \in 1..Len(script)
    <3>1. k \in 1..Len(trail) /\ k + 1 \in 1..Len(trail)
      BY <1>2, <2>1
    <3>2. Moves(script[k], trail[k], trail[k + 1])
      BY <2>1 DEF IndInv, TrailInv
    <3> QED BY <1>4, <2>1, <3>1, <3>2
  <2>2. CASE k = Len(script')
    <3>1. k = Len(trail) /\ k + 1 = Len(trail') /\ k \in 1..Len(trail)
      BY <1>2, <1>4, <2>2
    <3>2. trail'[k] = Place
      BY <1>4, <3>1 DEF IndInv, TrailInv
    <3> QED BY <1>4, <2>2, <3>1, <3>2 DEF entry
  <2> QED BY <1>2, <1>4, <2>1, <2>2
<1>7. \A k \in 1..Len(trail') : TableSize + 4 <= trail'[k].pos /\ trail'[k].pos <= pos'
  <2> SUFFICES ASSUME NEW k \in 1..Len(trail')
               PROVE  TableSize + 4 <= trail'[k].pos /\ trail'[k].pos <= pos'
    OBVIOUS
  <2>1. TableSize + 4 <= pos
    <3>1. TableSize + 4 <= trail[Len(trail)].pos /\ trail[Len(trail)].pos = pos
      <4>1. Len(trail) \in 1..Len(trail)
        BY <1>2
      <4> QED BY <4>1 DEF IndInv, TrailInv, Place
    <3> QED BY <3>1
  <2>2. CASE k \in 1..Len(trail)
    <3>1. trail'[k] = trail[k]
      BY <1>4, <2>2
    <3>2. trail[k].pos \in Nat
      <4>1. trail[k] \in Places
        BY <1>2, <2>2, ElementOfSeq
      <4> QED BY <4>1 DEF Places
    <3>3. TableSize + 4 <= trail[k].pos /\ trail[k].pos <= pos
      BY <2>2 DEF IndInv, TrailInv
    <3> DEFINE a == trail[k].pos
    <3>4. a \in Nat /\ TableSize + 4 <= a /\ a <= pos
      BY <3>2, <3>3
    <3>5. pos' \in Nat /\ pos <= pos'
      OBVIOUS
    <3>6. trail'[k].pos = a
      BY <3>1
    <3> HIDE DEF a
    <3>7. a <= pos'
      BY <3>4, <3>5, <1>2
    <3> QED BY <3>4, <3>6, <3>7
  <2>3. CASE k = Len(trail')
    <3>1. trail'[k].pos = pos'
      BY <1>4, <2>3 DEF entry, Place
    <3>2. TableSize \in Nat /\ pos' \in Nat /\ pos <= pos'
      BY Widths
    <3>3. TableSize + 4 <= pos'
      BY <1>2, <2>1, <3>2
    <3> QED BY <3>1, <3>2, <3>3
  <2> QED BY SMTT(30), <1>2, <1>4, <2>2, <2>3
<1>8. TrailInv'
  <2>1. trail'[1] = FirstPlace
    <3>1. 1 \in 1..Len(trail)
      BY <1>2
    <3> QED BY <1>4, <3>1 DEF IndInv, TrailInv
  <2> QED BY <1>4, <1>6, <1>7, <2>1 DEF TrailInv, entry
<1>9. ReaderInv'
  BY <1>1, <1>2 DEF IndInv, ReaderInv, CursorsAgree, NeverTruncated
<1> QED BY <1>5, <1>8, <1>9 DEF IndInv

LEMMA WriterTyped ==
  ASSUME IndInv
  PROVE  /\ pos \in Nat /\ pos1 \in Nat /\ pos2 \in Nat /\ pos1 + 2 <= pos /\ pos2 + 2 <= pos
         /\ buf \in Seq(Int) /\ Len(buf) = pos /\ free \in 0..WordBits /\ word \in Int
BY DEF IndInv, TypeOK

LEMMA WriteKeepsInv ==
  ASSUME IndInv, NEW item \in Items, Write(item)
  PROVE  IndInv'
<1>a. /\ pos \in Nat /\ pos1 \in Nat /\ pos2 \in Nat /\ pos1 + 2 <= pos /\ pos2 + 2 <= pos
      /\ buf \in Seq(Int) /\ Len(buf) = pos /\ free \in 0..WordBits /\ word \in Int
  BY WriterTyped
<1>b. /\ item.size \in Nat /\ item.value \in Nat
      /\ item.kind = "bits" => item.size < WordBits
      /\ item.kind = "raw" => item.size \in 1..4
  BY ItemFacts
<1>c. WordBits \in Nat \ {0} /\ WordBits >= 2
  BY Widths
<1>1. CASE WriteNothing(item)
  <2>1. /\ item.kind = "bits" /\ item.size = 0 /\ Logged(item)
        /\ buf' = buf /\ pos1' = pos1 /\ pos2' = pos2 /\ pos' = pos /\ free' = free /\ word' = word
    BY <1>1 DEF WriteNothing
  <2>2. Moves(item, Place, Place')
    BY <2>1, <1>a, <1>c DEF Moves, Place
  <2> QED BY <2>1, <2>2, <1>a, LoggedKeepsInv
<1>2. CASE WriteFitting(item)
  <2>1. /\ item.kind = "bits" /\ item.size > 0 /\ item.size <= free /\ Logged(item)
        /\ free' = free - item.size /\ word' = word * 2^item.size + item.value
        /\ buf' = buf /\ pos1' = pos1 /\ pos2' = pos2 /\ pos' = pos
    BY <1>2 DEF WriteFitting
  <2>2. 2^item.size \in Nat
    BY <2>1, <1>b, <1>c, PowerTyped
  <2>3. word' \in Int /\ free' \in 0..WordBits
    <3> DEFINE p == 2^item.size
    <3>1. p \in Nat /\ word' = word * p + item.value
      BY <2>1, <2>2
    <3> HIDE DEF p
    <3>2. word * p \in Int
      BY <1>a, <3>1
    <3>3. word' \in Int
      BY <1>b, <3>1, <3>2
    <3>4. free' \in 0..WordBits
      <4> DEFINE n == item.size
      <4>1. free' = free - n /\ n \in Nat /\ n <= free
        BY <2>1, <1>b
      <4> HIDE DEF n
      <4> QED BY <4>1, <1>a, <1>c
    <3> QED BY <3>3, <3>4
  <2>4. Moves(item, Place, Place')
    BY <2>1, <1>a, <1>b, <1>c DEF Moves, Place
  <2> QED BY <2>1, <2>3, <2>4, <1>a, LoggedKeepsInv
<1>3. CASE WriteSplit(item)
  <2> DEFINE full == word * 2^free + item.value \div 2^(item.size - free)
  <2>1. /\ item.kind = "bits" /\ item.size > free /\ Logged(item)
        /\ buf' = PutWord(buf, pos1, full) \o <<0, 0>>
        /\ pos1' = pos2 /\ pos2' = pos /\ pos' = pos + 2
        /\ free' = free - item.size + WordBits /\ word' = item.value
    BY <1>3 DEF WriteSplit
  <2>2. full \in Int
    <3>1. item.size \in Nat /\ item.value \in Nat /\ item.size < WordBits
      BY <2>1, <1>b
    <3>2. 2^free \in Nat \ {0} /\ 2^(item.size - free) \in Nat \ {0}
      <4>1. free \in 0..(2 * WordBits)
        BY <1>a, <1>c
      <4>2. item.size - free \in 0..(2 * WordBits)
        <5> DEFINE n == item.size
        <5>1. n \in Nat /\ n < WordBits /\ n > free /\ free \in Nat /\ WordBits \in Nat
          BY <2>1, <3>1, <1>a, <1>c
        <5> HIDE DEF n
        <5>2. n - free \in 0..(2 * WordBits)
          BY <5>1
        <5> QED BY <5>2 DEF n
      <4> QED BY <4>1, <4>2, PowerTyped
    <3> DEFINE p == 2^free
               q == 2^(item.size - free)
    <3>3. p \in Nat \ {0} /\ q \in Nat \ {0}
      BY <3>2
    <3> HIDE DEF p, q
    <3>4. word * p \in Int /\ item.value \div q \in Int
      BY <3>1, <3>3, <1>a
    <3>5. word * p + item.value \div q \in Int
      BY <3>4
    <3> QED BY <3>5 DEF p, q
  <2> HIDE DEF full
  <2>3. buf' \in Seq(Int) /\ Len(buf') = pos'
    <3>1. PutWord(buf, pos1, full) \in Seq(Int) /\ Len(PutWord(buf, pos1, full)) = pos
      BY <2>2, <1>a, PutWordTyped
    <3>2. <<0, 0>> \in Seq(Int) /\ Len(<<0, 0>>) = 2
      OBVIOUS
    <3> QED BY <2>1, <3>1, <3>2, ConcatProperties
  <2>4. /\ pos' \in Nat /\ pos' >= pos /\ pos1' \in Nat /\ pos2' \in Nat
        /\ pos1' + 2 <= pos' /\ pos2' + 2 <= pos' /\ word' \in Int
    <3>1. pos' = pos + 2 /\ pos1' = pos2 /\ pos2' = pos /\ word' = item.value
      BY <2>1
    <3> QED BY <3>1, <1>a, <1>b
  <2>5. free' \in 0..WordBits
    <3> DEFINE n == item.size
    <3>1. free' = free - n + WordBits /\ n \in Nat /\ n > free /\ n < WordBits
      BY <2>1, <1>b
    <3> HIDE DEF n
    <3> QED BY <3>1, <1>a, <1>c
  <2>6. Moves(item, Place, Place')
    BY <2>1, <1>a, <1>b, <1>c DEF Moves, Place
  <2> QED BY <2>1, <2>3, <2>4, <2>5, <2>6, LoggedKeepsInv
<1>4. CASE WriteRaw(item)
  <2>1. /\ item.kind = "raw" /\ Logged(item)
        /\ buf' = buf \o Cells(item.size, item.value) /\ pos' = pos + item.size
        /\ pos1' = pos1 /\ pos2' = pos2 /\ free' = free /\ word' = word
    BY <1>4 DEF WriteRaw
  <2>2. item.size \in 1..4 /\ item.value \in Int
    BY <2>1, <1>b
  <2>3. buf' \in Seq(Int) /\ Len(buf') = pos'
    <3>1. Cells(item.size, item.value) \in Seq(Int) /\ Len(Cells(item.size, item.value)) = item.size
      BY <2>2, CellsTyped
    <3> QED BY <2>1, <2>2, <3>1, <1>a, ConcatProperties
  <2>4. /\ pos' \in Nat /\ pos' >= pos /\ pos1' \in Nat /\ pos2' \in Nat
        /\ pos1' + 2 <= pos' /\ pos2' + 2 <= pos' /\ word' \in Int /\ free' \in 0..WordBits
    <3> DEFINE n == item.size
    <3>1. n \in 1..4 /\ pos' = pos + n
      BY <2>1, <2>2
    <3>2. pos1' = pos1 /\ pos2' = pos2 /\ free' = free /\ word' = word
      BY <2>1
    <3> HIDE DEF n
    <3>3. pos' \in Nat /\ pos' >= pos
      BY <3>1, <1>a
    <3>4. pos1' + 2 <= pos' /\ pos2' + 2 <= pos'
      BY <3>2, <3>3, <1>a
    <3> QED BY <3>2, <3>3, <3>4, <1>a
  <2>5. Moves(item, Place, Place')
    BY <2>1, <2>2, <1>a DEF Moves, Place
  <2> QED BY <2>1, <2>3, <2>4, <2>5, LoggedKeepsInv
<1> QED BY <1>1, <1>2, <1>3, <1>4 DEF Write

----------------------------------------------------------------------------
(* The reader's steps *)

LEMMA FinishKeepsInv ==
  ASSUME IndInv, Finish
  PROVE  IndInv'
<1>a. /\ pos \in Nat /\ pos1 \in Nat /\ pos2 \in Nat /\ pos1 + 2 <= pos /\ pos2 + 2 <= pos
      /\ buf \in Seq(Int) /\ Len(buf) = pos /\ free \in 0..WordBits /\ word \in Int
  BY WriterTyped
<1>b. WordBits \in Nat \ {0} /\ TableSize \in Nat
  BY Widths
<1>1. /\ phase = "write" /\ phase' = "read" /\ rpos' = TableSize + 4 /\ extra' = WordBits
      /\ script' = script /\ pos1' = pos1 /\ pos2' = pos2 /\ pos' = pos /\ free' = free
      /\ trail' = trail /\ got' = got /\ fault' = fault
  BY DEF Finish
<1>2. word' \in Int /\ word' = word * 2^free
  <2>1. 2^free \in Nat \ {0}
    BY <1>a, <1>b, PowerTyped, free \in 0..(2 * WordBits)
  <2> DEFINE p == 2^free
  <2>2. p \in Nat /\ word' = word * p
    BY <2>1 DEF Finish
  <2> HIDE DEF p
  <2>3. word * p \in Int
    BY <2>2, <1>a
  <2> QED BY <2>2, <2>3 DEF p
<1>3. buf' \in Seq(Int) /\ Len(buf') = pos
  <2> DEFINE once == PutWord(buf, pos1, word')
  <2>1. once \in Seq(Int) /\ Len(once) = pos
    BY <1>2, <1>a, PutWordTyped
  <2>2. buf' = PutWord(once, pos2, 0)
    BY <1>2 DEF Finish
  <2> HIDE DEF once
  <2>3. PutWord(once, pos2, 0) \in Seq(Int) /\ Len(PutWord(once, pos2, 0)) = Len(once)
    BY <2>1, <1>a, PutWordTyped, 0 \in Int
  <2> QED BY <2>1, <2>2, <2>3
<1>4. got = << >> /\ trail[1] = FirstPlace
  BY <1>1 DEF IndInv, ReaderInv, TrailInv
<1>5. register' \in Int
  <2>1. TableSize + 4 <= pos
    <3>1. trail[1].pos <= pos
      <4>1. Len(trail) = Len(script) + 1 /\ script \in Seq(Items)
        BY DEF IndInv, TrailInv, TypeOK
      <4>2. 1 \in 1..Len(trail)
        BY <4>1
      <4> QED BY <4>2 DEF IndInv, TrailInv
    <3> QED BY <1>4, <3>1 DEF FirstPlace
  <2>2. WordAt(buf', TableSize) \in Int /\ WordAt(buf', TableSize + 2) \in Int
    <3>1. TableSize + 2 <= Len(buf') /\ TableSize + 2 \in Nat /\ (TableSize + 2) + 2 <= Len(buf')
      BY <1>a, <1>b, <1>3, <2>1
    <3> HIDE DEF WordAt
    <3> QED BY <1>3, <1>b, <3>1, WordTyped
  <2>3. 2^WordBits \in Nat \ {0}
    BY <1>b, PowerTyped, WordBits \in 0..(2 * WordBits)
  <2> DEFINE p == 2^WordBits
             u == WordAt(buf', TableSize)
             v == WordAt(buf', TableSize + 2)
  <2>4. p \in Int /\ u \in Int /\ v \in Int /\ register' = u * p + v
    BY <2>2, <2>3 DEF Finish
  <2> HIDE DEF p, u, v
  <2> QED BY <2>4
<1>6. TypeOK'
  BY <1>1, <1>2, <1>3, <1>5, <1>a, <1>b DEF IndInv, TypeOK
<1>7. TrailInv'
  BY <1>1 DEF IndInv, TrailInv, Place
<1>8. ReaderInv'
  <2>1. Len(got') + 1 = 1
    BY <1>1, <1>4
  <2>2. CursorsAgree'
    BY <1>1, <1>4, <2>1 DEF CursorsAgree, FirstPlace
  <2>3. NeverTruncated'
    BY <1>1 DEF IndInv, ReaderInv, NeverTruncated
  <2> QED BY <1>1, <2>2, <2>3 DEF ReaderInv
<1> QED BY <1>6, <1>7, <1>8 DEF IndInv

(***************************************************************************)
(* Where the reader stands when it is asked for its next operation.        *)
(***************************************************************************)
LEMMA Standing ==
  ASSUME IndInv, Reading
  PROVE  LET k == Len(got) + 1
         IN /\ k \in 1..Len(script) /\ Asked = script[k] /\ Asked \in Items
            /\ Moves(Asked, trail[k], trail[k + 1])
            /\ rpos = trail[k].pos /\ extra = trail[k].free
            /\ trail[k] \in Places
            /\ trail[k + 1] \in Places
            /\ trail[k + 1].pos <= Len(buf)
<1> DEFINE k == Len(got) + 1
<1>1. /\ phase = "read" /\ script \in Seq(Items) /\ Len(script) \in Nat /\ Len(got) \in Nat
      /\ Len(got) < Len(script) /\ trail \in Seq(Places)
      /\ Len(trail) = Len(script) + 1 /\ Len(buf) = pos
  <2>1. /\ script \in Seq(Items) /\ got \in Seq(Int) /\ Len(buf) = pos
        /\ trail \in Seq(Places)
    BY DEF IndInv, TypeOK
  <2>2. Len(trail) = Len(script) + 1
    BY DEF IndInv, TrailInv
  <2>3. phase = "read" /\ Len(got) < Len(script)
    BY DEF Reading
  <2>4. Len(script) \in Nat /\ Len(got) \in Nat
    BY <2>1
  <2> QED BY <2>1, <2>2, <2>3, <2>4
<1>2. k \in 1..Len(script) /\ k \in 1..Len(trail) /\ k + 1 \in 1..Len(trail)
  BY <1>1
<1>3. Asked = script[k] /\ rpos = trail[k].pos /\ extra = trail[k].free
  BY <1>1 DEF Asked, IndInv, ReaderInv, CursorsAgree
<1> HIDE DEF k
<1>4. script[k] \in Items
  BY <1>1, <1>2, ElementOfSeq
<1>5. trail[k] \in Places
  BY <1>1, <1>2, ElementOfSeq
<1>6. trail[k + 1] \in Places
  BY <1>1, <1>2, ElementOfSeq
<1>7. Moves(script[k], trail[k], trail[k + 1]) /\ trail[k + 1].pos <= pos
  BY <1>2 DEF IndInv, TrailInv
<1> QED BY <1>1, <1>2, <1>3, <1>4, <1>5, <1>6, <1>7 DEF k

(***************************************************************************)
(* A step that delivers a value and moves the reader as the writer moved   *)
(* keeps the invariant.                                                    *)
(***************************************************************************)
LEMMA DeliveredKeepsInv ==
  ASSUME IndInv, Reading, NEW v \in Int, Delivered(v),
         register' \in Int,
         rpos' = trail[Len(got) + 2].pos, extra' = trail[Len(got) + 2].free
  PROVE  IndInv'
<1>1. /\ got' = Append(got, v) /\ phase' = phase /\ fault' = fault
      /\ script' = script /\ buf' = buf /\ pos1' = pos1 /\ pos2' = pos2 /\ pos' = pos
      /\ free' = free /\ word' = word /\ trail' = trail
  BY DEF Delivered, writeVars
<1>2. /\ phase = "read" /\ got \in Seq(Int) /\ Len(got) \in Nat
      /\ Len(script) \in Nat /\ Len(got) < Len(script)
  <2>1. got \in Seq(Int) /\ script \in Seq(Items)
    BY DEF IndInv, TypeOK
  <2>2. phase = "read" /\ Len(got) < Len(script)
    BY DEF Reading
  <2>3. Len(got) \in Nat /\ Len(script) \in Nat
    BY <2>1
  <2> QED BY <2>1, <2>2, <2>3
<1>3. got' \in Seq(Int) /\ Len(got') = Len(got) + 1
  BY <1>1, <1>2
<1>4. Len(got') <= Len(script')
  BY <1>1, <1>2, <1>3
<1>5. rpos' \in Nat /\ extra' \in 0..WordBits
  <2> DEFINE k == Len(got) + 1
  <2>1. trail[k + 1] \in Places
    BY Standing
  <2>2. k + 1 = Len(got) + 2
    BY <1>2
  <2> QED BY <2>1, <2>2 DEF Places
<1>6. TypeOK'
  BY <1>1, <1>3, <1>4, <1>5 DEF IndInv, TypeOK
<1>7. TrailInv'
  BY <1>1 DEF IndInv, TrailInv, Place
<1>8. ReaderInv'
  <2>1. Len(got') + 1 = Len(got) + 2
    BY <1>2, <1>3
  <2>2. CursorsAgree'
    BY <1>1, <2>1 DEF CursorsAgree
  <2>3. NeverTruncated'
    BY <1>1 DEF IndInv, ReaderInv, NeverTruncated
  <2> QED BY <1>1, <1>2, <2>2, <2>3 DEF ReaderInv
<1> QED BY <1>6, <1>7, <1>8 DEF IndInv
LEMMA RegisterTyped ==
  ASSUME register \in Int, NEW n \in 0..WordBits
  PROVE  Shifted(n) \in Int /\ TopBits(n) \in Int
<1>1. 2^n \in Nat \ {0} /\ 2^(2 * WordBits) \in Nat \ {0} /\ 2^(2 * WordBits - n) \in Nat \ {0}
  <2>1. WordBits \in Nat
    BY Widths
  <2>2. n \in 0..(2 * WordBits) /\ 2 * WordBits \in 0..(2 * WordBits)
        /\ 2 * WordBits - n \in 0..(2 * WordBits)
    BY <2>1
  <2> QED BY <2>2, PowerTyped
<1> DEFINE p == 2^n
           q == 2^(2 * WordBits)
           r == 2^(2 * WordBits - n)
<1>2. p \in Nat \ {0} /\ q \in Nat \ {0} /\ r \in Nat \ {0}
  BY <1>1
<1>3. Shifted(n) = (register * p) % q /\ TopBits(n) = register \div r
  BY DEF Shifted, TopBits
<1> HIDE DEF p, q, r
<1>4. register * p \in Int
  BY <1>2
<1>5. (register * p) % q \in Int /\ register \div r \in Int
  BY <1>2, <1>4
<1> QED BY <1>3, <1>5

LEMMA RawTyped ==
  ASSUME buf \in Seq(Int), NEW p \in Nat, NEW k \in 1..4, p + k <= Len(buf)
  PROVE  RawValue(p, k) \in Int
<1>1. ASSUME NEW i \in 1..4 PROVE CellValue(p, k, i) \in Int
  <2>1. CASE i <= k
    <3>1. p + i \in 1..Len(buf)
      BY <2>1
    <3>2. buf[p + i] \in Int
      BY <3>1, ElementOfSeq
    <3>3. (i - 1) * CellBits \in 0..(4 * CellBits)
      <4>1. CASE i = 1 BY <4>1, HuffBitsAssumption
      <4>2. CASE i = 2 BY <4>2, HuffBitsAssumption
      <4>3. CASE i = 3 BY <4>3, HuffBitsAssumption
      <4>4. CASE i = 4 BY <4>4, HuffBitsAssumption
      <4> QED BY <4>1, <4>2, <4>3, <4>4
    <3> DEFINE w == 2^((i - 1) * CellBits)
               c == buf[p + i]
    <3>4. w \in Nat /\ c \in Int /\ CellValue(p, k, i) = c * w
      BY <2>1, <3>2, <3>3, PowerTyped, TwoWords DEF CellValue
    <3> HIDE DEF w, c
    <3>5. c * w \in Int
      BY <3>4
    <3> QED BY <3>4, <3>5
  <2>2. CASE ~(i <= k)
    BY <2>2 DEF CellValue
  <2> QED BY <2>1, <2>2
<1>2. /\ CellValue(p, k, 1) \in Int /\ CellValue(p, k, 2) \in Int
      /\ CellValue(p, k, 3) \in Int /\ CellValue(p, k, 4) \in Int
  BY <1>1
<1> QED BY <1>2 DEF RawValue

LEMMA ReadKeepsInv ==
  ASSUME IndInv, Read
  PROVE  IndInv'
<1> DEFINE k == Len(got) + 1
<1>a. /\ register \in Int /\ extra \in 0..WordBits /\ rpos \in Nat
      /\ buf \in Seq(Int) /\ got \in Seq(Int)
  BY DEF IndInv, TypeOK
<1>b. WordBits \in Nat \ {0}
  BY Widths
<1>c. Reading
  BY DEF Read, TakeNothing, TakeSpare, TakeAndRefill, ReadRaw
<1>d. /\ Asked \in Items /\ Moves(Asked, trail[k], trail[k + 1])
      /\ rpos = trail[k].pos /\ extra = trail[k].free
      /\ trail[k + 1] \in Places
      /\ trail[k + 1].pos <= Len(buf)
  BY <1>c, Standing
<1>e. k + 1 = Len(got) + 2
  BY <1>a
<1>f. /\ Asked.size \in Nat
      /\ Asked.kind = "bits" => Asked.size < WordBits
      /\ Asked.kind = "raw" => Asked.size \in 1..4
  BY <1>d, ItemFacts
<1> HIDE DEF k
<1> DEFINE n == Asked.size
           b == trail[k + 1]
<1>g. /\ n \in Nat
      /\ Asked.kind = "bits" /\ n <= extra => b.pos = rpos /\ b.free = extra - n
      /\ Asked.kind = "bits" /\ n > extra => b.pos = rpos + 2 /\ b.free = extra - n + WordBits
      /\ Asked.kind = "raw" => b.pos = rpos + n /\ b.free = extra
  BY <1>d, <1>f DEF Moves
<1>h. b.pos <= Len(buf)
  BY <1>d
<1>i. b = trail[Len(got) + 2]
  BY <1>e
<1>1. CASE TakeNothing
  <2>1. /\ Asked.kind = "bits" /\ n = 0 /\ Delivered(0)
        /\ register' = register /\ extra' = extra /\ rpos' = rpos
    BY <1>1 DEF TakeNothing
  <2>2. rpos' = b.pos /\ extra' = b.free
    BY <2>1, <1>a, <1>g
  <2> QED BY <2>1, <2>2, <1>a, <1>c, <1>i, DeliveredKeepsInv
<1>2. CASE TakeSpare
  <2>1. /\ Asked.kind = "bits" /\ n <= extra /\ Delivered(TopBits(n))
        /\ register' = Shifted(n) /\ extra' = extra - n /\ rpos' = rpos
    BY <1>2, <1>a, <1>g DEF TakeSpare, Refills
  <2>2. rpos' = b.pos /\ extra' = b.free
    BY <2>1, <1>a, <1>g
  <2>3. TopBits(n) \in Int /\ Shifted(n) \in Int
    BY <2>1, <1>a, <1>b, <1>g, n \in 0..WordBits, RegisterTyped
  <2> QED BY <2>1, <2>2, <2>3, <1>a, <1>c, <1>i, DeliveredKeepsInv
<1>3. CASE TakeAndRefill
  <2>1. Asked.kind = "bits" /\ n > extra /\ n < WordBits
    BY <1>3, <1>a, <1>f, <1>g DEF TakeAndRefill, Refills
  <2>2. rpos + 2 <= Len(buf)
    BY <2>1, <1>g, <1>h
  <2>3. /\ Delivered(TopBits(n)) /\ extra' = extra - n + WordBits /\ rpos' = rpos + 2
        /\ register' = Shifted(n) + WordAt(buf, rpos) * 2^(n - extra)
    BY <1>3, <2>2 DEF TakeAndRefill
  <2>4. rpos' = b.pos /\ extra' = b.free
    BY <2>1, <2>3, <1>g
  <2>5. TopBits(n) \in Int /\ Shifted(n) \in Int
    BY <2>1, <1>a, <1>b, <1>g, n \in 0..WordBits, RegisterTyped
  <2>6. register' \in Int
    <3>1. n - extra \in 0..(2 * WordBits)
      BY <2>1, <1>a, <1>b, <1>g
    <3>2. 2^(n - extra) \in Nat \ {0}
      BY <3>1, PowerTyped
    <3>3. WordAt(buf, rpos) \in Int
      BY <1>a, <2>2, WordTyped
    <3> DEFINE p == 2^(n - extra)
               w == WordAt(buf, rpos)
               s == Shifted(n)
    <3>4. p \in Int /\ w \in Int /\ s \in Int /\ register' = s + w * p
      BY <2>3, <2>5, <3>2, <3>3
    <3> HIDE DEF p, w, s
    <3>5. w * p \in Int
      BY <3>4
    <3> QED BY <3>4, <3>5
  <2> QED BY <2>3, <2>4, <2>5, <2>6, <1>c, <1>i, DeliveredKeepsInv
<1>4. CASE ReadRaw
  <2>1. Asked.kind = "raw" /\ n \in 1..4
    BY <1>4, <1>f DEF ReadRaw
  <2>2. rpos + n <= Len(buf)
    BY <2>1, <1>g, <1>h
  <2>3. /\ Delivered(RawValue(rpos, n)) /\ rpos' = rpos + n
        /\ register' = register /\ extra' = extra
    BY <1>4, <2>2 DEF ReadRaw
  <2>4. rpos' = b.pos /\ extra' = b.free
    BY <2>1, <2>3, <1>g
  <2>5. RawValue(rpos, n) \in Int
    BY <2>1, <2>2, <1>a, RawTyped
  <2> QED BY <2>3, <2>4, <2>5, <1>a, <1>c, <1>i, DeliveredKeepsInv
<1> QED BY <1>1, <1>2, <1>3, <1>4 DEF Read

----------------------------------------------------------------------------

LEMMA InitHasInv == Init => IndInv
<1> SUFFICES ASSUME Init PROVE IndInv
  OBVIOUS
<1>1. WordBits \in Nat \ {0} /\ TableSize \in Nat
  BY Widths
<1> DEFINE entry == FirstPlace
           zeros == [i \in 1..(TableSize + 4) |-> 0]
<1>2. /\ script = << >> /\ buf = zeros
      /\ pos1 = TableSize /\ pos2 = TableSize + 2 /\ pos = TableSize + 4
      /\ free = WordBits /\ word = 0 /\ trail = <<entry>>
      /\ phase = "write" /\ register = 0 /\ extra = 0 /\ rpos = 0
      /\ got = << >> /\ fault = FALSE
  BY DEF Init, Place, FirstPlace
<1>3. entry \in Places /\ entry.pos = TableSize + 4
  BY <1>1 DEF Places, FirstPlace
<1>4. zeros \in Seq(Int) /\ Len(zeros) = TableSize + 4
  BY <1>1
<1>5. entry = Place
  BY <1>2 DEF Place, FirstPlace
<1> HIDE DEF entry, zeros
<1>6. trail \in Seq(Places) /\ Len(trail) = 1 /\ trail[1] = entry
  BY <1>2, <1>3
<1>7. script \in Seq(Items) /\ got \in Seq(Int) /\ Len(script) = 0 /\ Len(got) = 0
  BY <1>2
<1>8. TypeOK
  <2>1. pos \in Nat /\ pos1 \in Nat /\ pos2 \in Nat /\ pos1 + 2 <= pos /\ pos2 + 2 <= pos
    BY <1>1, <1>2
  <2>2. buf \in Seq(Int) /\ Len(buf) = pos
    BY <1>2, <1>4
  <2>3. free \in 0..WordBits /\ word \in Int /\ register \in Int /\ extra \in 0..WordBits
        /\ rpos \in Nat /\ phase \in {"write", "read"}
    BY <1>1, <1>2
  <2>4. fault \in BOOLEAN
    BY <1>2
  <2>5. Len(got) <= Len(script)
    BY <1>7
  <2> QED BY <1>6, <1>7, <2>1, <2>2, <2>3, <2>4, <2>5 DEF TypeOK
<1>9. TrailInv
  <2>1. \A k \in 1..Len(trail) : TableSize + 4 <= trail[k].pos /\ trail[k].pos <= pos
    BY <1>1, <1>2, <1>3, <1>6
  <2>2. trail[1] = FirstPlace
    BY <1>6 DEF entry
  <2>3. trail[Len(trail)] = Place
    BY <1>5, <1>6
  <2>4. Len(trail) = Len(script) + 1 /\ 1..Len(script) = {}
    BY <1>6, <1>7
  <2> QED BY <2>1, <2>2, <2>3, <2>4 DEF TrailInv
<1>10. ReaderInv
  BY <1>2 DEF ReaderInv, CursorsAgree, NeverTruncated
<1> QED BY <1>8, <1>9, <1>10 DEF IndInv

LEMMA NextKeepsInv == IndInv /\ [Next]_vars => IndInv'
<1> SUFFICES ASSUME IndInv, [Next]_vars PROVE IndInv'
  OBVIOUS
<1>1. ASSUME NEW item \in Items, Write(item) PROVE IndInv'
  BY <1>1, WriteKeepsInv
<1>2. CASE Finish
  BY <1>2, FinishKeepsInv
<1>3. CASE Read
  BY <1>3, ReadKeepsInv
<1>4. CASE UNCHANGED vars
  <2>1. TypeOK'
    BY <1>4 DEF vars, writeVars, readVars, IndInv, TypeOK
  <2>2. TrailInv'
    BY <1>4 DEF vars, writeVars, readVars, IndInv, TrailInv, Place
  <2>3. ReaderInv'
    BY <1>4 DEF vars, writeVars, readVars, IndInv, ReaderInv, CursorsAgree, NeverTruncated
  <2> QED BY <2>1, <2>2, <2>3 DEF IndInv
<1>5. CASE Over
  BY <1>4, <1>5 DEF Over
<1> QED BY <1>1, <1>2, <1>3, <1>4, <1>5 DEF Next

LEMMA InvHolds == Spec => []IndInv
BY InitHasInv, NextKeepsInv, PTL DEF Spec

(***************************************************************************)
(* The types of both classes' fields, above all that the buffer ends at    *)
(* the raw cursor and that both reserved words lie below it.               *)
(***************************************************************************)
THEOREM TypeCorrect == Spec => []TypeOK
<1>1. IndInv => TypeOK
  BY DEF IndInv
<1> QED BY <1>1, InvHolds, PTL

(***************************************************************************)
(* _BitReader and _BitWriter move their cursors at the same operations,    *)
(* whatever the block holds.                                               *)
(***************************************************************************)
THEOREM ReaderFollowsWriter == Spec => []CursorsAgree
<1>1. IndInv => CursorsAgree
  BY DEF IndInv, ReaderInv
<1> QED BY <1>1, InvHolds, PTL

(***************************************************************************)
(* No block _BitWriter makes is reported as truncated.                     *)
(***************************************************************************)
THEOREM OwnBlocksComplete == Spec => []NeverTruncated
<1>1. IndInv => NeverTruncated
  BY DEF IndInv, ReaderInv
<1> QED BY <1>1, InvHolds, PTL

(***************************************************************************)
(* A block is read to its last cell and no further, so the next one's      *)
(* table starts where decompress looks for it.                             *)
(***************************************************************************)
THEOREM BlocksAbut == Spec => []EndsAtNextBlock
<1>1. IndInv => EndsAtNextBlock
  <2> SUFFICES ASSUME IndInv, phase = "read", Len(got) = Len(script)
               PROVE  rpos = Len(buf)
    BY DEF EndsAtNextBlock
  <2>1. Len(trail) = Len(got) + 1 /\ trail[Len(trail)] = Place
    BY DEF IndInv, TrailInv
  <2>2. rpos = trail[Len(got) + 1].pos
    BY DEF IndInv, ReaderInv, CursorsAgree
  <2>3. Len(buf) = pos
    BY DEF IndInv, TypeOK
  <2> QED BY <2>1, <2>2, <2>3 DEF Place
<1> QED BY <1>1, InvHolds, PTL

----------------------------------------------------------------------------
(* The values *)

(***************************************************************************)
(* Powers of two multiply as their exponents add.                          *)
(***************************************************************************)
LEMMA PowerSum ==
  ASSUME NEW a \in Nat, NEW b \in Nat, a + b <= 2 * WordBits
  PROVE  2^(a + b) = 2^a * 2^b
<1> DEFINE M == 2 * WordBits
           S == {i \in 0..b : 2^(a + i) # 2^a * 2^i}
<1>1. M \in Nat /\ M = 4 * CellBits
  BY TwoWords, Widths
<1>2. ASSUME S # {} PROVE FALSE
  <2>1. PICK m \in S : \A i \in S : m <= i
    <3>1. S \in SUBSET Nat
      OBVIOUS
    <3> QED BY <1>2, <3>1, LeastNatural
  <2>2. m \in 0..b /\ 2^(a + m) # 2^a * 2^m
    BY <2>1
  <2>3. 2^a \in Nat \ {0}
    BY <1>1, PowerTyped
  <2> DEFINE p == 2^a
  <2>4. m # 0
    <3>1. m = 0 => a + m = a /\ 2^m = 1
      BY PowersAssumption
    <3>2. p * 1 = p
      BY <2>3
    <3> QED BY <2>2, <3>1, <3>2
  <2>5. m - 1 \in 0..b /\ ~(m <= m - 1) /\ a + m = (a + (m - 1)) + 1 /\ m = (m - 1) + 1
        /\ a + (m - 1) \in 0..(M - 1) /\ m - 1 \in 0..(M - 1)
    BY <1>1, <2>2, <2>4
  <2> DEFINE k == m - 1
  <2>6. 2^(a + k) = p * 2^k
    BY <2>1, <2>5
  <2>7. 2^(a + m) = 2 * 2^(a + k) /\ 2^m = 2 * 2^k
    BY <1>1, <2>5, PowersAssumption
  <2>8. 2^k \in Nat \ {0}
    BY <1>1, <2>5, PowerTyped
  <2> DEFINE q == 2^k
  <2>9. p \in Nat /\ q \in Nat /\ 2^(a + m) = 2 * (p * q) /\ 2^m = 2 * q
    BY <2>3, <2>6, <2>7, <2>8
  <2> HIDE DEF q
  <2>10. 2^(a + m) # p * (2 * q)
    BY Zenon, <2>2, <2>9
  <2> HIDE DEF p
  <2> QED BY <2>9, <2>10
<1>3. b \in 0..b
  OBVIOUS
<1> QED BY Zenon, <1>2, <1>3

(***************************************************************************)
(* The quotient of a natural number is natural.                            *)
(***************************************************************************)
LEMMA Quotient ==
  ASSUME NEW a \in Nat, NEW b \in Nat \ {0}
  PROVE  a \div b \in Nat /\ a % b \in 0..(b - 1) /\ a = b * (a \div b) + (a % b)
<1>1. b * 0 <= a /\ 0 \in Nat
  OBVIOUS
<1>2. 0 <= a \div b
  BY Zenon, <1>1, QuotientBound
<1> QED BY <1>2, DivMod

(***************************************************************************)
(* Scaling a quotient and its divisor alike scales the remainder.          *)
(***************************************************************************)
LEMMA ScaledRemainder ==
  ASSUME NEW a \in Nat \ {0}, NEW b \in Nat \ {0}, NEW q \in Nat, NEW r \in 0..(a - 1)
  PROVE  (a * q + r) % (a * b) = a * (q % b) + r
<1> DEFINE d == q \div b
           m == q % b
<1>1. m \in 0..(b - 1) /\ d \in Nat /\ q = b * d + m
  BY Quotient
<1> HIDE DEF d, m
<1>2. a * q + r = (a * b) * d + (a * m + r)
  BY <1>1
<1>3. a * m + r \in 0..(a * b - 1)
  <2>1. m + 1 <= b
    BY <1>1
  <2>2. a * (m + 1) <= a * b
    BY <1>1, <2>1
  <2> QED BY <1>1, <2>2
<1>4. a * b \in Nat \ {0}
  OBVIOUS
<1> DEFINE c == a * b
           s == a * m + r
<1>5. (c * d + s) % c = s
  <2>1. c \in Nat \ {0} /\ s \in 0..(c - 1)
    BY <1>3, <1>4
  <2> HIDE DEF c, s
  <2> QED BY <1>1, <2>1, ComesApart
<1> QED BY <1>2, <1>5 DEF m

(***************************************************************************)
(* Dividing twice divides by the product.                                  *)
(***************************************************************************)
LEMMA DividedTwice ==
  ASSUME NEW v \in Nat, NEW a \in Nat \ {0}, NEW b \in Nat \ {0}
  PROVE  v \div (a * b) = (v \div a) \div b
<1> DEFINE q == v \div a
           r == v % a
           d == q \div b
           m == q % b
<1>1. r \in 0..(a - 1) /\ q \in Nat /\ v = a * q + r
  BY Quotient
<1> HIDE DEF q, r
<1>2. m \in 0..(b - 1) /\ d \in Nat /\ q = b * d + m
  BY <1>1, Quotient
<1> HIDE DEF d, m
<1>3. v = (a * b) * d + (a * m + r)
  BY <1>1, <1>2
<1>4. a * m + r \in 0..(a * b - 1)
  <2>1. m + 1 <= b
    BY <1>2
  <2>2. a * (m + 1) <= a * b
    BY <1>2, <2>1
  <2> QED BY <1>1, <1>2, <2>2
<1>5. a * b \in Nat \ {0}
  OBVIOUS
<1> DEFINE c == a * b
           s == a * m + r
<1>6. (c * d + s) \div c = d
  <2>1. c \in Nat \ {0} /\ s \in 0..(c - 1)
    BY <1>4, <1>5
  <2> HIDE DEF c, s
  <2> QED BY <1>2, <2>1, ComesApart
<1> QED BY <1>3, <1>6 DEF d, q

----------------------------------------------------------------------------
(* Bits of a word *)

\* Between the places F and G, two powers, w has the bits of v.
Field(w, F, G, v) == \E hi \in Nat, lo \in 0..(G - 1) : w = hi * F + v * G + lo

(***************************************************************************)
(* What is added below the lowest bit in use disturbs no field above it.   *)
(***************************************************************************)
LEMMA FieldStays ==
  ASSUME NEW e \in Nat \ {0}, NEW f \in Nat \ {0}, NEW g \in Nat \ {0}, NEW u \in Nat,
         NEW x \in 0..(e - 1), NEW v \in Nat,
         Field(u * e, f * e, g * e, v)
  PROVE  Field(u * e + x, f * e, g * e, v)
<1>1. PICK hi \in Nat, lo \in 0..(g * e - 1) : u * e = hi * (f * e) + v * (g * e) + lo
  BY DEF Field
<1> DEFINE k == u - hi * f - v * g
<1>2. k \in Int /\ lo = k * e
  BY <1>1
<1>3. k \in 0..(g - 1)
  <2> HIDE DEF k
  <2>1. k * e >= 0 /\ k * e < g * e
    BY <1>1, <1>2
  <2>2. CASE k < 0
    <3>1. (k + 1) * e <= 0
      BY <1>2, <2>2
    <3>2. (k + 1) * e = k * e + e /\ k * e \in Int
      BY <1>2
    <3> QED BY <2>1, <3>1, <3>2
  <2>3. CASE k >= g
    <3>1. k * e >= g * e
      BY <1>2, <2>3
    <3> QED BY <2>1, <3>1, <1>2
  <2> QED BY <1>2, <2>2, <2>3
<1>4. lo + x \in 0..(g * e - 1)
  <2> HIDE DEF k
  <2>1. k * e + e <= g * e
    <3>1. (k + 1) * e <= g * e
      BY <1>3
    <3> QED BY <1>3, <3>1
  <2>2. g * e \in Nat /\ k * e \in Nat
    BY <1>3
  <2> QED BY <1>1, <1>2, <2>1, <2>2
<1>5. u * e + x = hi * (f * e) + v * (g * e) + (lo + x)
  <2> DEFINE y == u * e
             z == hi * (f * e) + v * (g * e)
  <2>1. y \in Int /\ z \in Int /\ y = z + lo
    BY <1>1
  <2> HIDE DEF y, z
  <2>2. y + x = z + (lo + x)
    BY <2>1
  <2> QED BY <2>2 DEF y, z
<1> QED BY <1>1, <1>4, <1>5 DEF Field

(***************************************************************************)
(* Below the place F a word with v in front has v and what it has below G. *)
(***************************************************************************)
LEMMA FieldSplits ==
  ASSUME NEW h \in Nat \ {0}, NEW G \in Nat \ {0}, NEW v \in 0..(h - 1), NEW w \in Nat,
         Field(w, h * G, G, v)
  PROVE  w % (h * G) = v * G + (w % G) /\ w % G \in 0..(G - 1)
<1>1. PICK hi \in Nat, lo \in 0..(G - 1) : w = hi * (h * G) + v * G + lo
  BY DEF Field
<1>2. w % G = lo
  <2> DEFINE q == hi * h + v
  <2>1. q \in Nat /\ w = G * q + lo
    BY <1>1
  <2> HIDE DEF q
  <2> QED BY <2>1, ComesApart
<1>3. w % (h * G) = v * G + lo
  <2> DEFINE b == h * G
             r == v * G + lo
  <2>1. b \in Nat \ {0} /\ r \in 0..(b - 1)
    <3>1. (v + 1) * G <= h * G
      OBVIOUS
    <3>2. v * G + G <= h * G /\ v * G \in Nat /\ h * G \in Nat \ {0}
      BY <3>1
    <3> QED BY <3>2
  <2>2. w = b * hi + r
    BY <1>1
  <2> HIDE DEF b, r
  <2>3. w % b = r
    BY <2>1, <2>2, ComesApart
  <2> QED BY <2>3 DEF b, r
<1> QED BY <1>2, <1>3

(***************************************************************************)
(* Taking the top bits of a register leaves the rest, shifted.             *)
(***************************************************************************)
LEMMA Taken ==
  ASSUME NEW t \in Nat \ {0}, NEW h \in Nat \ {0}, NEW v \in Nat, NEW rest \in 0..(t - 1)
  PROVE  (t * v + rest) \div t = v /\ ((t * v + rest) * h) % (h * t) = h * rest
<1>1. (t * v + rest) \div t = v
  BY ComesApart
<1>2. (t * v + rest) * h = (h * t) * v + h * rest
  OBVIOUS
<1> DEFINE c == h * t
           s == h * rest
<1>3. c \in Nat \ {0} /\ s \in 0..(c - 1)
  <2>1. h * (rest + 1) <= h * t
    <3>1. rest + 1 <= t
      OBVIOUS
    <3> QED BY <3>1
  <2>2. h * (rest + 1) = s + h /\ s \in Nat /\ c \in Nat \ {0}
    OBVIOUS
  <2> QED BY <2>1, <2>2
<1>4. (c * v + s) % c = s
  <2> HIDE DEF c, s
  <2> QED BY <1>3, ComesApart
<1> QED BY <1>1, <1>2, <1>4

----------------------------------------------------------------------------
(* Cells and words of the buffer *)

CellValues == 0..(2^CellBits - 1)

LEMMA CellPowers ==
  /\ 2^CellBits \in Nat \ {0} /\ 2^WordBits \in Nat \ {0}
  /\ 2^WordBits = 2^CellBits * 2^CellBits
<1>1. CellBits \in 0..(2 * WordBits) /\ WordBits \in 0..(2 * WordBits) /\ CellBits + CellBits = WordBits
  BY HuffBitsAssumption DEF WordBits
<1>2. CellBits \in Nat /\ CellBits + CellBits <= 2 * WordBits
  BY <1>1, HuffBitsAssumption
<1>3. 2^(CellBits + CellBits) = 2^CellBits * 2^CellBits
  BY <1>2, PowerSum
<1> QED BY <1>1, <1>3, PowerTyped

LEMMA CellsInside ==
  ASSUME NEW k \in 1..4, NEW v \in Nat
  PROVE  Cells(k, v) \in Seq(CellValues) /\ Len(Cells(k, v)) = k
<1>1. ASSUME NEW i \in 1..k PROVE (v \div 2^((i - 1) * CellBits)) % 2^CellBits \in CellValues
  <2>1. (i - 1) * CellBits \in 0..(4 * CellBits)
    <3>1. CASE i = 1
      BY <3>1, HuffBitsAssumption
    <3>2. CASE i = 2
      BY <3>2, HuffBitsAssumption
    <3>3. CASE i = 3
      BY <3>3, HuffBitsAssumption
    <3>4. CASE i = 4
      BY <3>4, HuffBitsAssumption
    <3> QED BY <3>1, <3>2, <3>3, <3>4
  <2> DEFINE p == 2^((i - 1) * CellBits)
             c == 2^CellBits
  <2>2. p \in Nat \ {0} /\ c \in Nat \ {0}
    BY <2>1, PowerTyped, TwoWords, CellPowers
  <2> HIDE DEF p, c
  <2>3. (v \div p) % c \in 0..(c - 1)
    BY <2>2, Quotient
  <2> QED BY <2>3 DEF p, c, CellValues
<1>2. Cells(k, v) \in [1..k -> CellValues]
  BY <1>1 DEF Cells
<1> QED BY <1>2

(***************************************************************************)
(* The two cells of a word put it together again.                          *)
(***************************************************************************)
LEMMA TwoCells ==
  ASSUME NEW w \in Nat
  PROVE  Cells(2, w)[1] + Cells(2, w)[2] * 2^CellBits = w % 2^WordBits
<1> DEFINE c == 2^CellBits
           q == w \div c
           r == w % c
<1>1. c \in Nat \ {0} /\ 2^WordBits = c * c
  BY CellPowers
<1>2. Cells(2, w)[1] = r /\ Cells(2, w)[2] = q % c
  <2>1. (1 - 1) * CellBits = 0 /\ (2 - 1) * CellBits = CellBits /\ 2^0 = 1
    BY HuffBitsAssumption, PowersAssumption
  <2>2. w \div 1 = w
    OBVIOUS
  <2>3. /\ Cells(2, w)[1] = (w \div 2^((1 - 1) * CellBits)) % c
        /\ Cells(2, w)[2] = (w \div 2^((2 - 1) * CellBits)) % c
    BY DEF Cells
  <2> QED BY Zenon, <2>1, <2>2, <2>3
<1> HIDE DEF c
<1>3. q \in Nat /\ r \in 0..(c - 1) /\ w = c * q + r
  BY <1>1, Quotient
<1> HIDE DEF q, r
<1>4. w % (c * c) = c * (q % c) + r
  BY <1>1, <1>3, ScaledRemainder
<1>5. q % c \in Int
  BY <1>1, <1>3
<1>6. r + (q % c) * c = c * (q % c) + r
  BY <1>1, <1>3, <1>5
<1> QED BY <1>1, <1>2, <1>4, <1>6 DEF c

LEMMA PutWordPlaces ==
  ASSUME NEW b \in Seq(CellValues), NEW p \in Nat, NEW w \in Nat, p + 2 <= Len(b)
  PROVE  LET c == PutWord(b, p, w)
         IN /\ c \in Seq(CellValues) /\ Len(c) = Len(b)
            /\ WordAt(c, p) = w % 2^WordBits
            /\ \A i \in 1..Len(b) : i # p + 1 /\ i # p + 2 => c[i] = b[i]
<1> DEFINE c == PutWord(b, p, w)
           d == Cells(2, w)
<1>1. d \in Seq(CellValues) /\ Len(d) = 2
  BY CellsInside
<1>2. d[1] \in CellValues /\ d[2] \in CellValues
  <2> HIDE DEF d
  <2>1. 1 \in 1..Len(d) /\ 2 \in 1..Len(d)
    BY <1>1
  <2> QED BY <1>1, <2>1, ElementOfSeq
<1>3. c = [b EXCEPT ![p + 1] = d[1], ![p + 2] = d[2]]
  BY DEF PutWord
<1>4. d[1] + d[2] * 2^CellBits = w % 2^WordBits
  BY TwoCells
<1> HIDE DEF c, d
<1> DEFINE b1 == [b EXCEPT ![p + 1] = d[1]]
<1>5. b1 \in Seq(CellValues) /\ Len(b1) = Len(b)
  BY <1>2, ExceptSeq, p + 1 \in 1..Len(b)
<1>6. c = [b1 EXCEPT ![p + 2] = d[2]]
  BY <1>3
<1>7. c \in Seq(CellValues) /\ Len(c) = Len(b)
  <2> HIDE DEF b1
  <2> QED BY <1>2, <1>5, <1>6, ExceptSeq, p + 2 \in 1..Len(b)
<1>8. c[p + 1] = d[1] /\ c[p + 2] = d[2]
  BY <1>3
<1>9. \A i \in 1..Len(b) : i # p + 1 /\ i # p + 2 => c[i] = b[i]
  BY <1>3
<1>10. WordAt(c, p) = w % 2^WordBits
  BY <1>4, <1>8 DEF WordAt
<1> QED BY <1>7, <1>9, <1>10 DEF c

LEMMA WordRange ==
  ASSUME NEW b \in Seq(CellValues), NEW p \in Nat, p + 2 <= Len(b)
  PROVE  WordAt(b, p) \in 0..(2^WordBits - 1)
<1> DEFINE c == 2^CellBits
           x == b[p + 1]
           y == b[p + 2]
<1>1. c \in Nat \ {0} /\ 2^WordBits = c * c
  BY CellPowers
<1>2. x \in 0..(c - 1) /\ y \in 0..(c - 1) /\ WordAt(b, p) = x + y * c
  BY ElementOfSeq, p + 1 \in 1..Len(b), p + 2 \in 1..Len(b) DEF CellValues, WordAt
<1> HIDE DEF c, x, y
<1>3. x + y * c \in 0..(c * c - 1)
  <2>1. (y + 1) * c <= c * c
    BY <1>1, <1>2
  <2>2. (y + 1) * c = y * c + c /\ y * c \in Nat
    BY <1>1, <1>2
  <2> QED BY <1>1, <1>2, <2>1, <2>2
<1> QED BY <1>1, <1>2, <1>3

(***************************************************************************)
(* Up to four cells of a number that fits them put it together again.      *)
(***************************************************************************)
LEMMA RawCells ==
  ASSUME NEW k \in 1..4, NEW v \in Nat, v < 2^(k * CellBits), NEW p \in Nat,
         \A i \in 1..k : buf[p + i] = Cells(k, v)[i]
  PROVE  RawValue(p, k) = v
<1> DEFINE c == 2^CellBits
           q1 == v \div c
           q2 == q1 \div c
           q3 == q2 \div c
<1>1. c \in Nat \ {0} /\ 2^0 = 1 /\ 2^(2 * CellBits) = c * c /\ 2^(3 * CellBits) = (c * c) * c
      /\ 2^(4 * CellBits) = ((c * c) * c) * c
  <2>1. CellBits \in Nat /\ 2 * CellBits \in Nat /\ 3 * CellBits \in Nat
        /\ CellBits + CellBits = 2 * CellBits /\ 2 * CellBits + CellBits = 3 * CellBits
        /\ 3 * CellBits + CellBits = 4 * CellBits
        /\ 2 * CellBits <= 2 * WordBits /\ 3 * CellBits <= 2 * WordBits /\ 4 * CellBits <= 2 * WordBits
    BY HuffBitsAssumption DEF WordBits
  <2>2. 2^(CellBits + CellBits) = c * c
    BY <2>1, PowerSum
  <2>3. 2^(2 * CellBits + CellBits) = 2^(2 * CellBits) * c
    BY <2>1, PowerSum
  <2>4. 2^(3 * CellBits + CellBits) = 2^(3 * CellBits) * c
    BY <2>1, PowerSum
  <2>5. c \in Nat \ {0} /\ 2^0 = 1
    BY CellPowers, PowersAssumption
  <2> QED BY Zenon, <2>1, <2>2, <2>3, <2>4, <2>5
<1>2. \A i \in 1..k : buf[p + i] = (v \div 2^((i - 1) * CellBits)) % c
  BY DEF Cells
<1>3. /\ (1 - 1) * CellBits = 0 /\ (2 - 1) * CellBits = CellBits
      /\ (3 - 1) * CellBits = 2 * CellBits /\ (4 - 1) * CellBits = 3 * CellBits
      /\ 1 * CellBits = CellBits
  BY HuffBitsAssumption
<1>4. v \div 1 = v
  OBVIOUS
<1>5. q1 \in Nat /\ q2 \in Nat /\ q3 \in Nat
      /\ v = c * q1 + (v % c) /\ q1 = c * q2 + (q1 % c) /\ q2 = c * q3 + (q2 % c)
      /\ v % c \in 0..(c - 1) /\ q1 % c \in 0..(c - 1) /\ q2 % c \in 0..(c - 1)
  <2>1. c \in Nat \ {0}
    BY <1>1
  <2> HIDE DEF c
  <2>2. q1 \in Nat /\ v = c * q1 + (v % c) /\ v % c \in 0..(c - 1)
    BY <2>1, Quotient
  <2> HIDE DEF q1
  <2>3. q2 \in Nat /\ q1 = c * q2 + (q1 % c) /\ q1 % c \in 0..(c - 1)
    BY <2>1, <2>2, Quotient
  <2> HIDE DEF q2
  <2>4. q3 \in Nat /\ q2 = c * q3 + (q2 % c) /\ q2 % c \in 0..(c - 1)
    BY <2>1, <2>3, Quotient
  <2> QED BY <2>2, <2>3, <2>4
<1>6. v \div (c * c) = q2 /\ v \div ((c * c) * c) = q3
  <2>1. c \in Nat \ {0} /\ c * c \in Nat \ {0}
    <3>1. c \in Nat \ {0}
      BY <1>1
    <3> HIDE DEF c
    <3> QED BY <3>1
  <2> HIDE DEF c
  <2>2. v \div (c * c) = (v \div c) \div c
    BY <2>1, DividedTwice
  <2>3. v \div ((c * c) * c) = (v \div (c * c)) \div c
    BY <2>1, DividedTwice
  <2> QED BY <2>2, <2>3
<1> DEFINE s == k
<1>7. /\ k >= 1 => CellValue(p, k, 1) = v % c
      /\ k >= 2 => CellValue(p, k, 2) = (q1 % c) * c
      /\ k >= 3 => CellValue(p, k, 3) = (q2 % c) * (c * c)
      /\ k >= 4 => CellValue(p, k, 4) = (q3 % c) * ((c * c) * c)
      /\ \A i \in 1..4 : i > k => CellValue(p, k, i) = 0
  <2>1. k >= 1 => CellValue(p, k, 1) = v % c
    <3>1. buf[p + 1] = v % c
      <4>1. buf[p + 1] = (v \div 2^((1 - 1) * CellBits)) % c
        BY <1>2
      <4> QED BY Zenon, <4>1, <1>1, <1>3, <1>4
    <3>2. CellValue(p, k, 1) = buf[p + 1] * 1
      <4>1. CellValue(p, k, 1) = buf[p + 1] * 2^((1 - 1) * CellBits)
        BY DEF CellValue
      <4> QED BY Zenon, <4>1, <1>1, <1>3
    <3> QED BY <3>1, <3>2, <1>5
  <2>2. ASSUME k >= 2 PROVE CellValue(p, k, 2) = (q1 % c) * c
    <3>1. buf[p + 2] = q1 % c
      BY <1>2, <1>3, <2>2
    <3>2. CellValue(p, k, 2) = buf[p + 2] * c
      BY <1>3, <2>2 DEF CellValue
    <3> QED BY <3>1, <3>2
  <2>3. ASSUME k >= 3 PROVE CellValue(p, k, 3) = (q2 % c) * (c * c)
    <3>1. buf[p + 3] = (v \div 2^((3 - 1) * CellBits)) % c
      BY <1>2, <2>3
    <3>2. CellValue(p, k, 3) = buf[p + 3] * 2^((3 - 1) * CellBits)
      BY <2>3 DEF CellValue
    <3> QED BY Zenon, <3>1, <3>2, <1>1, <1>3, <1>6
  <2>4. ASSUME k >= 4 PROVE CellValue(p, k, 4) = (q3 % c) * ((c * c) * c)
    <3>1. buf[p + 4] = (v \div 2^((4 - 1) * CellBits)) % c
      BY <1>2, <2>4
    <3>2. CellValue(p, k, 4) = buf[p + 4] * 2^((4 - 1) * CellBits)
      BY <2>4 DEF CellValue
    <3> QED BY Zenon, <3>1, <3>2, <1>1, <1>3, <1>6
  <2>5. \A i \in 1..4 : i > k => CellValue(p, k, i) = 0
    BY DEF CellValue
  <2> QED BY <2>1, <2>2, <2>3, <2>4, <2>5
<1>8. v < 2^(k * CellBits) /\ c \in Nat \ {0}
  BY <1>1
<1> HIDE DEF c
<1>9. /\ k = 1 => v % c = v
      /\ k = 2 => q1 % c = q1
      /\ k = 3 => q2 % c = q2
      /\ k = 4 => q3 % c = q3
  <2>1. CASE k = 1
    <3>1. v < c
      BY <1>1, <1>3, <2>1 DEF c
    <3> QED BY <2>1, <3>1, <1>8, RemainderSmall
  <2>2. CASE k = 2
    <3>1. v < c * c
      BY <1>1, <2>2
    <3>2. q1 < c
      <4>1. ~(c * c <= v) /\ c \in Nat
        BY <1>8, <3>1
      <4>2. ~(c <= v \div c)
        BY Zenon, <1>8, <4>1, QuotientBound
      <4>3. q1 \in Nat
        BY <1>5
      <4> HIDE DEF q1
      <4> QED BY <4>1, <4>2, <4>3 DEF q1
    <3>3. q1 \in Nat
      BY <1>5
    <3>4. q1 % c = q1
      BY Zenon, <3>2, <3>3, <1>8, RemainderSmall
    <3> QED BY <2>2, <3>4
  <2>3. CASE k = 3
    <3>1. v < (c * c) * c
      BY <1>1, <2>3
    <3>2. q2 < c
      <4>1. ~((c * c) * c <= v) /\ c \in Nat /\ c * c \in Nat \ {0}
        BY <1>8, <3>1
      <4>2. ~(c <= v \div (c * c))
        BY Zenon, <4>1, QuotientBound
      <4>3. ~(c <= q2)
        BY Zenon, <1>6, <4>2
      <4>4. q2 \in Nat
        BY <1>5
      <4> HIDE DEF q2
      <4> QED BY <4>1, <4>3, <4>4
    <3>3. q2 \in Nat
      BY <1>5
    <3>4. q2 % c = q2
      BY Zenon, <3>2, <3>3, <1>8, RemainderSmall
    <3> QED BY <2>3, <3>4
  <2>4. CASE k = 4
    <3>1. v < ((c * c) * c) * c
      BY <1>1, <2>4
    <3>2. q3 < c
      <4>1. ~(((c * c) * c) * c <= v) /\ c \in Nat /\ (c * c) * c \in Nat \ {0}
        BY <1>8, <3>1
      <4>2. ~(c <= v \div ((c * c) * c))
        BY Zenon, <4>1, QuotientBound
      <4>3. ~(c <= q3)
        BY Zenon, <1>6, <4>2
      <4>4. q3 \in Nat
        BY <1>5
      <4> HIDE DEF q3
      <4> QED BY <4>1, <4>3, <4>4
    <3>3. q3 \in Nat
      BY <1>5
    <3>4. q3 % c = q3
      BY Zenon, <3>2, <3>3, <1>8, RemainderSmall
    <3> QED BY <2>4, <3>4
  <2> QED BY <2>1, <2>2, <2>3, <2>4
<1> HIDE DEF q1, q2, q3
<1> DEFINE x1 == v % c
           x2 == q1 % c
           x3 == q2 % c
           c2 == c * c
           c3 == (c * c) * c
<1>10. x1 \in Nat /\ x2 \in Nat /\ x3 \in Nat /\ c2 \in Nat /\ c3 \in Nat
       /\ x2 * c \in Nat /\ x3 * c2 \in Nat
       /\ q1 * c \in Nat /\ q2 * c2 \in Nat /\ q3 * c3 \in Nat
       /\ v = c * q1 + x1 /\ q1 = c * q2 + x2 /\ q2 = c * q3 + x3
  <2>1. x1 \in Nat /\ x2 \in Nat /\ x3 \in Nat
    BY <1>5
  <2> HIDE DEF x1, x2, x3
  <2> QED BY <2>1, <1>5, <1>8 DEF x1, x2, x3
<1>11. /\ k >= 1 => CellValue(p, k, 1) = x1
       /\ k >= 2 => CellValue(p, k, 2) = x2 * c
       /\ k >= 3 => CellValue(p, k, 3) = x3 * c2
       /\ k >= 4 => CellValue(p, k, 4) = (q3 % c) * c3
       /\ k < 2 => CellValue(p, k, 2) = 0
       /\ k < 3 => CellValue(p, k, 3) = 0
       /\ k < 4 => CellValue(p, k, 4) = 0
  BY <1>7
<1>12. /\ k = 1 => x1 = v
       /\ k = 2 => x2 = q1
       /\ k = 3 => x3 = q2
       /\ k = 4 => q3 % c = q3
  BY <1>9
<1>13. v = c * q1 + x1 /\ v = c * x2 + c2 * q2 + x1 /\ v = c * x2 + c2 * x3 + c3 * q3 + x1
  <2> HIDE DEF x1, x2, x3
  <2>1. c \in Nat /\ q1 \in Nat /\ q2 \in Nat /\ q3 \in Nat
    BY <1>5, <1>8
  <2> QED BY <1>10, <2>1
<1> HIDE DEF x1, x2, x3
<1>14. CASE k = 1
  <2>1. RawValue(p, k) = x1 + 0 + 0 + 0
    BY <1>11, <1>14 DEF RawValue
  <2> QED BY <2>1, <1>10, <1>12, <1>14
<1>15. CASE k = 2
  <2>1. RawValue(p, k) = x1 + q1 * c + 0 + 0
    BY <1>11, <1>12, <1>15 DEF RawValue
  <2> QED BY <2>1, <1>5, <1>8, <1>10
<1>16. CASE k = 3
  <2>1. RawValue(p, k) = x1 + x2 * c + q2 * c2 + 0
    BY <1>11, <1>12, <1>16 DEF RawValue
  <2> QED BY <2>1, <1>5, <1>8, <1>10, <1>13
<1>17. CASE k = 4
  <2>1. RawValue(p, k) = x1 + x2 * c + x3 * c2 + q3 * c3
    BY <1>11, <1>12, <1>17 DEF RawValue
  <2> QED BY <2>1, <1>5, <1>8, <1>10, <1>13
<1> QED BY <1>14, <1>15, <1>16, <1>17

----------------------------------------------------------------------------
(* What the buffer holds *)

\* The word at p, the pending one as if nothing were to follow.
Stored(p) ==
  IF phase = "write" /\ p = pos1 THEN (word % 2^(WordBits - free)) * 2^free ELSE WordAt(buf, p)

\* item, begun where the writer stood at a and over at b, is in the buffer.
Holds(item, a, b) ==
  LET over == 2^(item.size - a.free)
  IN /\ item.kind = "bits" /\ item.size <= a.free =>
          Field(Stored(a.pos1), 2^a.free, 2^b.free, item.value)
     /\ item.kind = "bits" /\ item.size > a.free =>
          /\ Field(Stored(a.pos1), 2^a.free, 1, item.value \div over)
          /\ Field(Stored(b.pos1), 2^WordBits, 2^b.free, item.value % over)
     /\ item.kind = "raw" =>
          \A i \in 1..item.size : buf[a.pos + i] = Cells(item.size, item.value)[i]

\* The word a place was in is the pending one, or lies before it.
Behind(a) == (a.pos1 = pos1 /\ free <= a.free) \/ a.pos1 + 2 <= pos1

\* Raw cells never lie where a word is still to come.
Clear(item, a) ==
  item.kind = "raw" =>
    \A p \in {pos1, pos2} : p + 2 <= a.pos \/ a.pos + item.size <= p

Ordered(a) == a.pos1 + 2 <= a.pos2 /\ a.pos2 + 2 <= a.pos

ContentInv ==
  /\ buf \in Seq(CellValues) /\ word \in Nat
  /\ pos1 + 2 <= pos2 /\ pos2 + 2 <= pos
  /\ \A k \in 1..Len(trail) : Behind(trail[k]) /\ Ordered(trail[k])
  /\ \A k \in 1..Len(script) : Holds(script[k], trail[k], trail[k + 1]) /\ Clear(script[k], trail[k])

(***************************************************************************)
(* A field above the room in the pending word stays when the room is used. *)
(***************************************************************************)
LEMMA FieldKept ==
  ASSUME free \in 0..WordBits, word \in Nat, NEW x \in 0..(2^free - 1), phase = "write",
         NEW f \in free..WordBits, NEW g \in free..WordBits, NEW v \in Nat,
         Field(Stored(pos1), 2^f, 2^g, v)
  PROVE  Field(Stored(pos1) + x, 2^f, 2^g, v)
<1> DEFINE e == 2^free
           r == 2^(f - free)
           s == 2^(g - free)
           u == word % 2^(WordBits - free)
<1>1. WordBits \in Nat \ {0}
  BY Widths
<1>2. e \in Nat \ {0} /\ r \in Nat \ {0} /\ s \in Nat \ {0} /\ 2^(WordBits - free) \in Nat \ {0}
  BY <1>1, PowerTyped, free \in 0..(2 * WordBits), f - free \in 0..(2 * WordBits),
     g - free \in 0..(2 * WordBits), WordBits - free \in 0..(2 * WordBits)
<1>3. 2^f = r * e /\ 2^g = s * e
  <2>1. f - free \in Nat /\ g - free \in Nat /\ free \in Nat
        /\ (f - free) + free = f /\ (g - free) + free = g
        /\ f <= 2 * WordBits /\ g <= 2 * WordBits
    BY <1>1
  <2>2. 2^((f - free) + free) = r * e
    BY <2>1, PowerSum
  <2>3. 2^((g - free) + free) = s * e
    BY <2>1, PowerSum
  <2> QED BY Zenon, <2>1, <2>2, <2>3
<1>4. u \in Nat
  <2> DEFINE m == 2^(WordBits - free)
  <2>1. m \in Nat \ {0}
    BY <1>2
  <2> HIDE DEF m
  <2> QED BY <2>1, Quotient DEF m
<1>5. Stored(pos1) = u * e
  BY DEF Stored
<1> HIDE DEF e, r, s, u
<1>6. Field(u * e, r * e, s * e, v)
  BY <1>3, <1>5
<1>7. x \in 0..(e - 1)
  BY DEF e
<1>8. Field(u * e + x, r * e, s * e, v)
  BY <1>2, <1>4, <1>6, <1>7, FieldStays
<1> QED BY <1>3, <1>5, <1>8

(***************************************************************************)
(* What is in the buffer stays there while the pending word is completed.  *)
(***************************************************************************)
LEMMA HoldsStays ==
  ASSUME phase = "write", free \in 0..WordBits, word \in Nat, pos1 \in Nat,
         NEW x \in 0..(2^free - 1),
         NEW item \in Items, NEW a \in Places, NEW b \in Places,
         Moves(item, a, b), Behind(a), Behind(b), a.pos1 + 2 <= a.pos2,
         \A p \in Nat : p = pos1 => Stored(p)' = Stored(p) + x,
         \A p \in Nat : p + 2 <= pos1 => Stored(p)' = Stored(p),
         item.kind = "raw" => \A i \in 1..item.size : buf'[a.pos + i] = buf[a.pos + i],
         Holds(item, a, b)
  PROVE  Holds(item, a, b)'
<1>1. /\ a.pos1 \in Nat /\ a.pos2 \in Nat /\ b.pos1 \in Nat
      /\ a.free \in 0..WordBits /\ b.free \in 0..WordBits
      /\ item.kind \in {"bits", "raw"} /\ item.size \in Nat /\ item.value \in Nat
      /\ item.kind = "bits" => item.size < WordBits
  BY ItemFacts DEF Places
<1>2. WordBits \in Nat \ {0} /\ WordBits \in 0..(2 * WordBits)
  BY Widths
<1> DEFINE over == 2^(item.size - a.free)
           v == item.value
           F == 2^a.free
           G == 2^b.free
           W == 2^WordBits
<1>3. ASSUME item.kind = "bits", item.size <= a.free
      PROVE  Field(Stored(a.pos1)', F, G, v)
  <2>1. b.pos1 = a.pos1 /\ b.free = a.free - item.size /\ Field(Stored(a.pos1), F, G, v)
    BY <1>3 DEF Moves, Holds
  <2>2. CASE a.pos1 = pos1
    <3>1. Stored(a.pos1)' = Stored(pos1) + x
      BY <1>1, <2>2
    <3>2. a.free \in free..WordBits /\ b.free \in free..WordBits
      <4>1. free <= a.free /\ free <= b.free
        BY <1>1, <2>1, <2>2 DEF Behind
      <4> QED BY <1>1, <4>1
    <3>3. Field(Stored(pos1), F, G, v)
      BY <2>1, <2>2
    <3>4. Field(Stored(pos1) + x, F, G, v)
      BY <1>1, <3>2, <3>3, FieldKept
    <3> QED BY Zenon, <3>1, <3>4
  <2>3. CASE a.pos1 + 2 <= pos1
    <3>1. Stored(a.pos1)' = Stored(a.pos1)
      BY <1>1, <2>3
    <3> QED BY Zenon, <2>1, <3>1
  <2> QED BY <2>2, <2>3 DEF Behind
<1>4. ASSUME item.kind = "bits", item.size > a.free
      PROVE  /\ Field(Stored(a.pos1)', F, 1, v \div over)
             /\ Field(Stored(b.pos1)', W, G, v % over)
  <2>1. /\ b.pos1 = a.pos2
        /\ Field(Stored(a.pos1), F, 1, v \div over) /\ Field(Stored(b.pos1), W, G, v % over)
    BY <1>4 DEF Moves, Holds
  <2>2. a.pos1 + 2 <= pos1
    BY <1>1, <2>1 DEF Behind
  <2>3. Stored(a.pos1)' = Stored(a.pos1)
    BY <1>1, <2>2
  <2>4. Field(Stored(b.pos1)', W, G, v % over)
    <3>1. CASE b.pos1 = pos1
      <4>1. Stored(b.pos1)' = Stored(pos1) + x
        BY <1>1, <3>1
      <4>2. b.free \in free..WordBits /\ WordBits \in free..WordBits
        <5>1. free <= b.free
          BY <1>1, <3>1 DEF Behind
        <5> QED BY <1>1, <1>2, <5>1
      <4>3. v % over \in Nat
        <5>1. item.size - a.free \in 0..(2 * WordBits)
          BY <1>1, <1>2, <1>4
        <5>2. over \in Nat \ {0}
          BY <5>1, PowerTyped
        <5> DEFINE m == over
        <5>3. m \in Nat \ {0} /\ v \in Nat
          BY <1>1, <5>2
        <5> HIDE DEF m
        <5>4. v % m \in 0..(m - 1)
          BY <5>3, Quotient
        <5>5. v % m \in Nat
          BY <5>3, <5>4
        <5> QED BY <5>5 DEF m
      <4> DEFINE y == v % over
      <4>4. Field(Stored(pos1), W, G, y) /\ y \in Nat
        BY <2>1, <3>1, <4>3
      <4> HIDE DEF y
      <4>5. Field(Stored(pos1) + x, W, G, y)
        BY <4>2, <4>4, FieldKept
      <4> QED BY Zenon, <4>1, <4>5 DEF y
    <3>2. CASE b.pos1 + 2 <= pos1
      <4>1. Stored(b.pos1)' = Stored(b.pos1)
        BY <1>1, <3>2
      <4> QED BY Zenon, <2>1, <4>1
    <3> QED BY <3>1, <3>2 DEF Behind
  <2> QED BY Zenon, <2>1, <2>3, <2>4
<1>5. ASSUME item.kind = "raw"
      PROVE  \A i \in 1..item.size : buf'[a.pos + i] = Cells(item.size, v)[i]
  BY <1>5 DEF Holds
<1> QED BY <1>3, <1>4, <1>5 DEF Holds

(***************************************************************************)
(* The writer keeps what the buffer holds, if it only adds to the pending  *)
(* word, goes on to the next, and puts the new item where it belongs.      *)
(***************************************************************************)
LEMMA LoggedKeepsContent ==
  ASSUME IndInv, ContentInv, NEW item \in Items, Logged(item), Moves(item, Place, Place'),
         IndInv', NEW x \in 0..(2^free - 1),
         buf' \in Seq(CellValues), word' \in Nat, pos1' + 2 <= pos2', pos2' + 2 <= pos',
         (pos1' = pos1 /\ free' <= free /\ pos2' = pos2) \/ (pos1' = pos2 /\ pos2' = pos),
         item.kind = "raw" => pos1' = pos1 /\ pos2' = pos2,
         \A p \in Nat : p = pos1 => Stored(p)' = Stored(p) + x,
         \A p \in Nat : p + 2 <= pos1 => Stored(p)' = Stored(p),
         \A i \in 1..Len(buf) : i # pos1 + 1 /\ i # pos1 + 2 => buf'[i] = buf[i],
         \A a, b \in Places : a = Place /\ b = Place' => Holds(item, a, b)'
  PROVE  ContentInv'
<1>1. /\ phase = "write" /\ free \in 0..WordBits /\ word \in Nat
      /\ pos \in Nat /\ pos1 \in Nat /\ pos2 \in Nat /\ Len(buf) = pos
      /\ pos1 + 2 <= pos2 /\ pos2 + 2 <= pos
      /\ pos' \in Nat /\ pos1' \in Nat /\ pos2' \in Nat /\ free' \in 0..WordBits
  BY DEF Logged, IndInv, TypeOK, ContentInv
<1>2. /\ script' = Append(script, item) /\ trail' = Append(trail, Place')
      /\ script \in Seq(Items) /\ trail \in Seq(Places) /\ Len(trail) = Len(script) + 1
      /\ Len(script) \in Nat /\ trail[Len(trail)] = Place
  BY DEF Logged, IndInv, TypeOK, TrailInv
<1> DEFINE n == Len(script)
           new == Place'
<1>3. new \in Places /\ Place \in Places
  BY <1>1 DEF Place, Places
<1>4. new.pos1 = pos1' /\ new.pos2 = pos2' /\ new.free = free'
      /\ new.pos = pos' /\ Place.pos1 = pos1 /\ Place.pos2 = pos2 /\ Place.free = free /\ Place.pos = pos
  BY DEF Place
<1> HIDE DEF new
<1>5. /\ Len(script') = n + 1 /\ Len(trail') = n + 2
      /\ script'[n + 1] = item /\ trail'[n + 2] = new /\ trail'[n + 1] = Place
      /\ \A k \in 1..n : script'[k] = script[k] /\ script[k] \in Items
      /\ \A k \in 1..(n + 1) : trail'[k] = trail[k] /\ trail[k] \in Places
  <2>1. trail' = Append(trail, new) /\ Len(trail) = n + 1 /\ n \in Nat
    BY <1>2 DEF new
  <2>2. /\ Len(trail') = n + 2 /\ trail'[n + 2] = new
        /\ \A k \in 1..(n + 1) : trail'[k] = trail[k] /\ trail[k] \in Places
    BY <1>2, <1>3, <2>1, AppendProperties, ElementOfSeq
  <2>3. /\ Len(script') = n + 1 /\ script'[n + 1] = item
        /\ \A k \in 1..n : script'[k] = script[k] /\ script[k] \in Items
    BY <1>2, AppendProperties, ElementOfSeq
  <2> QED BY <1>2, <2>1, <2>2, <2>3
<1>6. ASSUME NEW k \in 1..(n + 1)
      PROVE  Behind(trail[k]) /\ Ordered(trail[k])
  BY <1>2 DEF ContentInv
<1>7. ASSUME NEW a \in Places, Behind(a) PROVE Behind(a)'
  <2>1. a.pos1 \in Nat /\ a.free \in 0..WordBits
    BY DEF Places
  <2> DEFINE y == a.pos1
             z == a.free
  <2>2. y \in Nat /\ z \in Nat /\ ((y = pos1 /\ free <= z) \/ y + 2 <= pos1)
    BY <1>7, <2>1 DEF Behind
  <2> HIDE DEF y, z
  <2>3. (y = pos1' /\ free' <= z) \/ y + 2 <= pos1'
    BY <1>1, <2>2
  <2> QED BY <2>3 DEF y, z, Behind
<1>8. ASSUME NEW k \in 1..(n + 2)
      PROVE  Behind(trail[k])' /\ Ordered(trail'[k])
  <2>1. CASE k \in 1..(n + 1)
    <3> DEFINE a == trail[k]
    <3>1. a \in Places /\ Behind(a) /\ Ordered(a) /\ trail'[k] = a
      BY <1>5, <1>6, <2>1
    <3> HIDE DEF a
    <3>2. \A c \in Places : Behind(c) => Behind(c)'
      BY <1>7
    <3>3. \A c \in Places : c = trail'[k] => (Behind(c)' <=> Behind(trail[k])')
      BY DEF Behind
    <3> QED BY <3>1, <3>2, <3>3
  <2>2. CASE k = n + 2
    <3>1. trail'[k] = new
      BY <1>5, <2>2
    <3>2. Behind(trail[k])'
      BY <1>1, <1>4, <3>1 DEF Behind
    <3>3. Ordered(trail'[k])
      BY <1>4, <3>1 DEF Ordered
    <3> QED BY <3>2, <3>3
  <2> QED BY <1>2, <2>1, <2>2
<1>9. ASSUME NEW k \in 1..(n + 1)
      PROVE  /\ Holds(script[k], trail[k], trail[k + 1])'
             /\ Clear(script[k], trail[k])'
  <2>1. CASE k \in 1..n
    <3>1. k \in 1..(n + 1) /\ k + 1 \in 1..(n + 1)
      BY <1>2, <2>1
    <3>2. /\ script'[k] = script[k] /\ script[k] \in Items /\ trail'[k] = trail[k]
          /\ trail[k] \in Places /\ trail'[k + 1] = trail[k + 1] /\ trail[k + 1] \in Places
      BY <1>5, <2>1, <3>1
    <3>3. /\ Moves(script[k], trail[k], trail[k + 1]) /\ trail[k + 1].pos <= pos
          /\ Holds(script[k], trail[k], trail[k + 1]) /\ Clear(script[k], trail[k])
      BY <1>2, <2>1, <3>1 DEF IndInv, TrailInv, ContentInv
    <3>4. \A it \in Items, a, b \in Places :
             /\ Moves(it, a, b) /\ b.pos <= pos /\ Holds(it, a, b) /\ Clear(it, a)
             /\ Behind(a) /\ Behind(b) /\ a.pos1 + 2 <= a.pos2
             => Holds(it, a, b)' /\ Clear(it, a)'
      <4> SUFFICES ASSUME NEW it \in Items, NEW a \in Places, NEW b \in Places,
                          Moves(it, a, b), b.pos <= pos, Holds(it, a, b), Clear(it, a),
                          Behind(a), Behind(b), a.pos1 + 2 <= a.pos2
                   PROVE  Holds(it, a, b)' /\ Clear(it, a)'
        OBVIOUS
      <4>1. it.kind = "raw" => it.size \in 1..4 /\ a.pos \in Nat /\ b.pos = a.pos + it.size
        BY ItemFacts DEF Moves, Places
      <4>2. ASSUME it.kind = "raw", NEW i \in 1..it.size PROVE buf'[a.pos + i] = buf[a.pos + i]
        <5> DEFINE y == a.pos
                   z == it.size
        <5>1. y \in Nat /\ z \in 1..4 /\ i \in 1..z /\ y + z <= pos
          BY <4>1, <4>2
        <5>2. pos1 + 2 <= y \/ y + z <= pos1
          BY <4>2 DEF Clear
        <5> HIDE DEF y, z
        <5>3. y + i \in 1..Len(buf) /\ y + i # pos1 + 1 /\ y + i # pos1 + 2
          BY <1>1, <5>1, <5>2
        <5> QED BY <5>3 DEF y
      <4>3. Holds(it, a, b)'
        BY <1>1, <4>2, HoldsStays
      <4>4. Clear(it, a)'
        BY <1>1, <4>1 DEF Clear
      <4> QED BY <4>3, <4>4
    <3>5. Behind(trail[k]) /\ Behind(trail[k + 1]) /\ trail[k].pos1 + 2 <= trail[k].pos2
      BY <1>6, <3>1 DEF Ordered
    <3>6. \A it \in Items, a, b \in Places :
             /\ it = script'[k] /\ a = trail'[k] /\ b = trail'[k + 1]
             /\ Holds(it, a, b)' /\ Clear(it, a)'
             => Holds(script[k], trail[k], trail[k + 1])' /\ Clear(script[k], trail[k])'
      BY DEF Holds, Clear, Stored
    <3> QED BY <3>2, <3>3, <3>4, <3>5, <3>6
  <2>2. CASE k = n + 1
    <3>1. script'[k] = item /\ trail'[k] = Place /\ trail'[k + 1] = new
      BY <1>2, <1>5, <2>2
    <3>2. \A a, b \in Places :
             a = trail'[k] /\ b = trail'[k + 1] /\ Holds(item, a, b)'
             => Holds(script[k], trail[k], trail[k + 1])'
      BY <3>1 DEF Holds, Stored
    <3>3. Holds(script[k], trail[k], trail[k + 1])'
      BY <1>3, <3>1, <3>2 DEF new
    <3>4. Clear(script[k], trail[k])'
      BY <1>1, <1>4, <3>1 DEF Clear
    <3> QED BY <3>3, <3>4
  <2> QED BY <1>2, <2>1, <2>2
<1> QED BY <1>2, <1>5, <1>8, <1>9 DEF ContentInv

(***************************************************************************)
(* The pending word's bits stand above the room that is left.              *)
(***************************************************************************)
LEMMA PendingWord ==
  ASSUME free \in 0..WordBits, word \in Nat, phase = "write"
  PROVE  /\ word % 2^(WordBits - free) \in Nat /\ 2^free \in Nat \ {0}
         /\ 2^(WordBits - free) \in Nat \ {0}
         /\ 2^WordBits = 2^free * 2^(WordBits - free)
         /\ Stored(pos1) = (word % 2^(WordBits - free)) * 2^free
         /\ \A x \in 0..(2^free - 1) : (word * 2^free + x) % 2^WordBits = Stored(pos1) + x
<1>1. WordBits \in Nat \ {0}
  BY Widths
<1> DEFINE e == 2^free
           m == 2^(WordBits - free)
<1>2. e \in Nat \ {0} /\ m \in Nat \ {0}
  BY <1>1, PowerTyped, free \in 0..(2 * WordBits), WordBits - free \in 0..(2 * WordBits)
<1>3. 2^WordBits = e * m
  <2>1. free \in Nat /\ WordBits - free \in Nat /\ free + (WordBits - free) = WordBits
        /\ WordBits <= 2 * WordBits
    BY <1>1
  <2>2. 2^(free + (WordBits - free)) = e * m
    BY <2>1, PowerSum
  <2> QED BY Zenon, <2>1, <2>2
<1>4. Stored(pos1) = (word % m) * e
  BY DEF Stored
<1> HIDE DEF e, m
<1>5. word % m \in Nat
  BY <1>2, Quotient
<1>6. ASSUME NEW x \in 0..(e - 1) PROVE (word * e + x) % (e * m) = (word % m) * e + x
  <2>1. (e * word + x) % (e * m) = e * (word % m) + x
    BY <1>2, ScaledRemainder
  <2>2. e * word = word * e /\ e * (word % m) = (word % m) * e
    BY <1>2, <1>5
  <2> QED BY <2>1, <2>2
<1> QED BY <1>2, <1>3, <1>4, <1>5, <1>6 DEF e, m

LEMMA ItemFits ==
  ASSUME NEW item \in Items, item.kind = "bits"
  PROVE  item.size \in 0..(WordBits - 1) /\ item.value \in 0..(2^item.size - 1)
<1>1. WordBits \in Nat \ {0} /\ item.size \in Nat /\ item.size < WordBits /\ item.value \in Nat
  BY ItemFacts, Widths
<1>2. 2^item.size \in Nat \ {0}
  BY <1>1, PowerTyped, item.size \in 0..(2 * WordBits)
<1>3. item.value < 2^item.size
  BY HuffBitsAssumption
<1> QED BY <1>1, <1>2, <1>3

----------------------------------------------------------------------------
(* The writer's steps *)

LEMMA WriteContext ==
  ASSUME IndInv, ContentInv, phase = "write"
  PROVE  /\ pos \in Nat /\ pos1 \in Nat /\ pos2 \in Nat /\ Len(buf) = pos
         /\ pos1 + 2 <= pos2 /\ pos2 + 2 <= pos
         /\ buf \in Seq(CellValues) /\ word \in Nat /\ free \in 0..WordBits
BY DEF IndInv, TypeOK, ContentInv

\* A cell that is neither of the pending word's is in no other word.
LEMMA SameWord ==
  ASSUME NEW b, NEW c, NEW p \in Nat, NEW q \in Nat, q + 2 <= p \/ p + 2 <= q,
         NEW n \in Nat, p + 2 <= n, 
         \A i \in 1..n : i # q + 1 /\ i # q + 2 => c[i] = b[i]
  PROVE  WordAt(c, p) = WordAt(b, p)
<1>1. c[p + 1] = b[p + 1] /\ c[p + 2] = b[p + 2]
  <2>1. p + 1 \in 1..n /\ p + 1 # q + 1 /\ p + 1 # q + 2
    OBVIOUS
  <2>2. p + 2 \in 1..n /\ p + 2 # q + 1 /\ p + 2 # q + 2
    OBVIOUS
  <2> QED BY <2>1, <2>2
<1> QED BY <1>1 DEF WordAt

LEMMA WriteNothingKeeps ==
  ASSUME IndInv, ContentInv, IndInv', NEW item \in Items, Moves(item, Place, Place'), WriteNothing(item)
  PROVE  ContentInv'
<1>1. /\ phase = "write" /\ item.kind = "bits" /\ item.size = 0 /\ Logged(item)
      /\ buf' = buf /\ pos1' = pos1 /\ pos2' = pos2 /\ pos' = pos /\ free' = free /\ word' = word
      /\ phase' = phase
  BY DEF WriteNothing, Logged
<1>2. /\ pos \in Nat /\ pos1 \in Nat /\ pos2 \in Nat /\ pos1 + 2 <= pos2 /\ pos2 + 2 <= pos
      /\ buf \in Seq(CellValues) /\ word \in Nat /\ free \in 0..WordBits
  BY <1>1, WriteContext
<1>3. \A p \in Nat : Stored(p)' = Stored(p)
  BY <1>1 DEF Stored
<1>4. ASSUME NEW a \in Places, NEW b \in Places, a = Place, b = Place'
      PROVE  Holds(item, a, b)'
  <2>1. a.pos1 = pos1 /\ a.free = free /\ b.free = free
    BY <1>1, <1>4 DEF Place
  <2>2. item.value = 0
    <3>1. item.value \in 0..(2^0 - 1) /\ 2^0 = 1
      BY <1>1, ItemFits, PowersAssumption
    <3> QED BY <3>1
  <2>3. Field(Stored(pos1), 2^free, 2^free, 0)
    <3> DEFINE u == word % 2^(WordBits - free)
               e == 2^free
    <3>1. u \in Nat /\ e \in Nat \ {0} /\ Stored(pos1) = u * e
      BY <1>1, <1>2, PendingWord
    <3> HIDE DEF u, e
    <3>2. u * e = u * e + 0 * e + 0 /\ 0 \in 0..(e - 1)
      BY <3>1
    <3>3. Field(u * e, e, e, 0)
      BY <3>1, <3>2 DEF Field
    <3> QED BY <3>1, <3>3 DEF e
  <2>4. Stored(a.pos1)' = Stored(pos1)
    BY <1>2, <1>3, <2>1
  <2>5. Field(Stored(a.pos1)', 2^a.free, 2^b.free, item.value)
    BY Zenon, <2>1, <2>2, <2>3, <2>4
  <2> QED BY <1>1, <1>2, <2>1, <2>5 DEF Holds
<1>5. 0 \in 0..(2^free - 1)
  BY <1>1, <1>2, PendingWord
<1>6. \A p \in Nat : p = pos1 => Stored(p)' = Stored(p) + 0
  <2>1. Stored(pos1) + 0 = Stored(pos1)
    <3> DEFINE u == word % 2^(WordBits - free)
               e == 2^free
    <3>1. u \in Nat /\ e \in Nat \ {0} /\ Stored(pos1) = u * e
      BY <1>1, <1>2, PendingWord
    <3> HIDE DEF u, e
    <3> QED BY <3>1
  <2>2. \A p \in Nat : p = pos1 => Stored(p) + 0 = Stored(p)
    BY Zenon, <2>1
  <2> QED BY Zenon, <1>3, <2>2
<1> QED BY <1>1, <1>2, <1>3, <1>4, <1>5, <1>6, LoggedKeepsContent

LEMMA WriteFittingKeeps ==
  ASSUME IndInv, ContentInv, IndInv', NEW item \in Items, Moves(item, Place, Place'), WriteFitting(item)
  PROVE  ContentInv'
<1> DEFINE s == item.size
           v == item.value
           e == 2^free
           h == 2^s
           g == 2^(free - s)
           m == 2^(WordBits - free)
           x == v * g
<1>1. /\ phase = "write" /\ item.kind = "bits" /\ s > 0 /\ s <= free /\ Logged(item)
      /\ buf' = buf /\ pos1' = pos1 /\ pos2' = pos2 /\ pos' = pos
      /\ free' = free - s /\ word' = word * h + v /\ phase' = phase
  BY DEF WriteFitting, Logged
<1>2. /\ pos \in Nat /\ pos1 \in Nat /\ pos2 \in Nat /\ pos1 + 2 <= pos2 /\ pos2 + 2 <= pos
      /\ buf \in Seq(CellValues) /\ word \in Nat /\ free \in 0..WordBits
  BY <1>1, WriteContext
<1>3. s \in 0..(WordBits - 1) /\ v \in 0..(h - 1) /\ WordBits \in Nat \ {0}
  BY <1>1, ItemFits, Widths
<1>4. e \in Nat \ {0} /\ h \in Nat \ {0} /\ g \in Nat \ {0} /\ m \in Nat \ {0}
      /\ e = h * g /\ 2^(WordBits - free') = h * m
  <2>1. /\ s \in Nat /\ free - s \in Nat /\ s + (free - s) = free /\ free <= 2 * WordBits
        /\ WordBits - free \in Nat /\ s + (WordBits - free) = WordBits - free'
        /\ WordBits - free' <= 2 * WordBits
        /\ s \in 0..(2 * WordBits) /\ free - s \in 0..(2 * WordBits)
    <3> HIDE DEF s
    <3> QED BY <1>1, <1>2, <1>3
  <2>2. 2^(s + (free - s)) = h * g
    BY <2>1, PowerSum
  <2>3. 2^(s + (WordBits - free)) = h * m
    BY <2>1, PowerSum
  <2>4. e \in Nat \ {0} /\ m \in Nat \ {0}
    BY <1>1, <1>2, PendingWord
  <2>5. h \in Nat \ {0} /\ g \in Nat \ {0}
    BY <2>1, PowerTyped
  <2> QED BY Zenon, <2>1, <2>2, <2>3, <2>4, <2>5
<1> DEFINE u == word % m
<1>5. u \in Nat /\ Stored(pos1) = u * e
  BY <1>1, <1>2, PendingWord
<1>6. Stored(pos1)' = (word' % 2^(WordBits - free')) * g
  <2>1. Stored(pos1)' = (word' % 2^(WordBits - free')) * 2^free'
    BY <1>1 DEF Stored
  <2> QED BY Zenon, <1>1, <2>1
<1>7. v \in Nat
  <2> HIDE DEF v, h
  <2> QED BY <1>3
<1>8. word' % (h * m) = h * u + v
  <2> HIDE DEF s, v, h, m
  <2>1. (h * word + v) % (h * m) = h * (word % m) + v
    <3>1. h \in Nat \ {0} /\ m \in Nat \ {0} /\ word \in Nat /\ v \in 0..(h - 1)
      BY <1>2, <1>3, <1>4
    <3> QED BY <3>1, ScaledRemainder
  <2>2. word' = h * word + v
    BY <1>1, <1>2, <1>4, <1>7
  <2> QED BY Zenon, <2>1, <2>2 DEF u
<1>9. Stored(pos1)' = u * e + x /\ x \in 0..(e - 1)
  <2>1. Stored(pos1)' = (h * u + v) * g
    BY Zenon, <1>4, <1>6, <1>8
  <2> HIDE DEF s, v, h, g, e, u
  <2>2. (h * u + v) * g = u * e + x
    BY <1>4, <1>5, <1>7
  <2>3. x \in 0..(e - 1)
    <3>1. (v + 1) * g <= h * g
      BY <1>3, <1>4, <1>7
    <3>2. (v + 1) * g = x + g /\ x \in Nat
      BY <1>4, <1>7
    <3> QED BY <1>4, <3>1, <3>2
  <2> QED BY <2>1, <2>2, <2>3
<1>10. ASSUME NEW p \in Nat, p = pos1 PROVE Stored(p)' = Stored(p) + x
  <2>1. Stored(p)' = Stored(pos1)' /\ Stored(p) = Stored(pos1)
    BY <1>1, <1>10
  <2> QED BY Zenon, <1>5, <1>9, <2>1
<1>11. ASSUME NEW p \in Nat, p + 2 <= pos1 PROVE Stored(p)' = Stored(p)
  BY <1>1, <1>2, <1>11 DEF Stored
<1>12. ASSUME NEW a \in Places, NEW b \in Places, a = Place, b = Place'
       PROVE  Holds(item, a, b)'
  <2>1. a.pos1 = pos1 /\ a.free = free /\ b.free = free - s
    BY <1>1, <1>12 DEF Place
  <2>2. Field(u * e + x, e, g, v)
    <3> HIDE DEF s, v, h, g, e, u
    <3>1. u * e + x = u * e + v * g + 0 /\ 0 \in 0..(g - 1)
      BY <1>4, <1>5, <1>7
    <3> QED BY <1>5, <3>1 DEF Field
  <2>3. Stored(a.pos1)' = u * e + x
    BY Zenon, <1>2, <1>9, <2>1, <1>10, <1>5
  <2>4. Field(Stored(a.pos1)', 2^a.free, 2^b.free, v)
    BY Zenon, <2>1, <2>2, <2>3
  <2>5. item.kind = "bits" /\ item.size <= a.free /\ ~(item.size > a.free)
    <3> HIDE DEF s
    <3> QED BY <1>1, <1>2, <1>3, <2>1 DEF s
  <2> QED BY <2>4, <2>5 DEF Holds
<1>13. free' <= free /\ word' \in Nat
  <2> HIDE DEF s, h, v
  <2> QED BY <1>1, <1>2, <1>3, <1>4, <1>7
<1> HIDE DEF x
<1> QED BY <1>1, <1>2, <1>9, <1>10, <1>11, <1>12, <1>13, LoggedKeepsContent

LEMMA WriteRawKeeps ==
  ASSUME IndInv, ContentInv, IndInv', NEW item \in Items, Moves(item, Place, Place'), WriteRaw(item)
  PROVE  ContentInv'
<1> DEFINE c == Cells(item.size, item.value)
<1>1. /\ phase = "write" /\ item.kind = "raw" /\ Logged(item)
      /\ buf' = buf \o c /\ pos' = pos + item.size /\ pos1' = pos1 /\ pos2' = pos2
      /\ free' = free /\ word' = word /\ phase' = phase
  BY DEF WriteRaw, Logged
<1>2. /\ pos \in Nat /\ pos1 \in Nat /\ pos2 \in Nat /\ pos1 + 2 <= pos2 /\ pos2 + 2 <= pos
      /\ buf \in Seq(CellValues) /\ Len(buf) = pos /\ word \in Nat /\ free \in 0..WordBits
  BY <1>1, WriteContext
<1>3. item.size \in 1..4 /\ item.value \in Nat
  BY <1>1, ItemFacts
<1>4. c \in Seq(CellValues) /\ Len(c) = item.size
  BY <1>3, CellsInside
<1> DEFINE s == item.size
<1>5. s \in 1..4 /\ Len(c) = s
  BY <1>3, <1>4
<1> HIDE DEF c, s
<1>6. /\ buf' \in Seq(CellValues)
      /\ \A i \in 1..Len(buf) : buf'[i] = buf[i]
      /\ \A i \in 1..s : buf'[pos + i] = c[i]
  <2>1. buf' \in Seq(CellValues) /\ Len(buf') = pos + s
    BY <1>1, <1>2, <1>4, <1>5, ConcatProperties
  <2>2. \A i \in 1..(Len(buf) + Len(c)) : (buf \o c)[i] = IF i <= Len(buf) THEN buf[i] ELSE c[i - Len(buf)]
    BY <1>2, <1>4, ConcatProperties
  <2>3. \A i \in 1..Len(buf) : buf'[i] = buf[i]
    BY <1>1, <1>2, <1>5, <2>2
  <2>4. ASSUME NEW i \in 1..s PROVE buf'[pos + i] = c[i]
    <3>1. pos + i \in 1..(Len(buf) + Len(c)) /\ ~(pos + i <= Len(buf)) /\ (pos + i) - Len(buf) = i
      BY <1>2, <1>5
    <3>2. (buf \o c)[pos + i] = c[(pos + i) - Len(buf)]
      <4> DEFINE j == pos + i
      <4>1. j \in 1..(Len(buf) + Len(c)) /\ ~(j <= Len(buf))
        BY <3>1
      <4> HIDE DEF j
      <4>2. (buf \o c)[j] = c[j - Len(buf)]
        BY <2>2, <4>1
      <4> QED BY Zenon, <4>2 DEF j
    <3>3. buf' = buf \o c
      BY <1>1 DEF c
    <3> QED BY Zenon, <3>1, <3>2, <3>3
  <2> QED BY <2>1, <2>3, <2>4
<1>7. ASSUME NEW p \in Nat, p <= pos1 PROVE Stored(p)' = Stored(p)
  <2>1. CASE p = pos1
    BY <1>1, <2>1 DEF Stored
  <2>2. CASE p # pos1
    <3>1. p + 1 \in 1..Len(buf) /\ p + 2 \in 1..Len(buf)
      BY <1>2, <1>7
    <3>2. WordAt(buf', p) = WordAt(buf, p)
      BY <1>6, <3>1 DEF WordAt
    <3> QED BY <1>1, <2>2, <3>2 DEF Stored
  <2> QED BY <2>1, <2>2
<1>8. /\ \A p \in Nat : p = pos1 => Stored(p)' = Stored(p) + 0
      /\ \A p \in Nat : p + 2 <= pos1 => Stored(p)' = Stored(p)
  <2>1. Stored(pos1) + 0 = Stored(pos1)
    <3> DEFINE u == word % 2^(WordBits - free)
               e == 2^free
    <3>1. u \in Nat /\ e \in Nat \ {0} /\ Stored(pos1) = u * e
      BY <1>1, <1>2, PendingWord
    <3> HIDE DEF u, e
    <3> QED BY <3>1
  <2>2. \A p \in Nat : p = pos1 => p <= pos1
    OBVIOUS
  <2>3. \A p \in Nat : p + 2 <= pos1 => p <= pos1
    BY <1>2
  <2>4. \A p \in Nat : p = pos1 => Stored(p) + 0 = Stored(p)
    BY Zenon, <2>1
  <2> QED BY Zenon, <1>7, <2>2, <2>3, <2>4
<1>9. ASSUME NEW a \in Places, NEW b \in Places, a = Place, b = Place'
      PROVE  Holds(item, a, b)'
  <2>1. a.pos = pos /\ item.kind # "bits"
    BY <1>1, <1>9 DEF Place
  <2>2. \A i \in 1..item.size : buf'[a.pos + i] = Cells(item.size, item.value)[i]
    BY <1>6, <2>1 DEF c, s
  <2> QED BY <2>1, <2>2 DEF Holds
<1>10. 0 \in 0..(2^free - 1)
  BY <1>1, <1>2, PendingWord
<1>11. pos2' + 2 <= pos' /\ pos1' + 2 <= pos2'
  BY <1>1, <1>2, <1>5 DEF s
<1>12. free' <= free /\ word' \in Nat
  BY <1>1, <1>2
<1> QED BY <1>1, <1>2, <1>6, <1>8, <1>9, <1>10, <1>11, <1>12, LoggedKeepsContent

LEMMA WriteSplitKeeps ==
  ASSUME IndInv, ContentInv, IndInv', NEW item \in Items, Moves(item, Place, Place'), WriteSplit(item)
  PROVE  ContentInv'
<1> DEFINE s == item.size
           v == item.value
           e == 2^free
           k == 2^(s - free)
           x == v \div k
           y == v % k
           g == 2^free'
           full == word * e + x
<1>1. /\ phase = "write" /\ item.kind = "bits" /\ s > free /\ Logged(item)
      /\ buf' = PutWord(buf, pos1, full) \o <<0, 0>>
      /\ pos1' = pos2 /\ pos2' = pos /\ pos' = pos + 2
      /\ free' = free - s + WordBits /\ word' = v /\ phase' = phase
  BY DEF WriteSplit, Logged
<1>2. /\ pos \in Nat /\ pos1 \in Nat /\ pos2 \in Nat /\ pos1 + 2 <= pos2 /\ pos2 + 2 <= pos
      /\ buf \in Seq(CellValues) /\ Len(buf) = pos /\ word \in Nat /\ free \in 0..WordBits
  BY <1>1, WriteContext
<1>3. s \in 0..(WordBits - 1) /\ v \in 0..(2^s - 1) /\ WordBits \in Nat \ {0}
  BY <1>1, ItemFits, Widths
<1>4. /\ s - free \in 0..(2 * WordBits) /\ free + (s - free) = s /\ free \in Nat /\ s - free \in Nat
      /\ free' \in 0..(2 * WordBits) /\ WordBits - free' = s - free /\ s <= 2 * WordBits
      /\ (s - free) + free' = WordBits /\ WordBits <= 2 * WordBits /\ free' \in Nat
      /\ free' \in 0..WordBits
  <2> HIDE DEF s
  <2> QED BY <1>1, <1>2, <1>3
<1>5. e \in Nat \ {0} /\ k \in Nat \ {0} /\ g \in Nat \ {0} /\ 2^s = e * k /\ 2^WordBits = k * g
  <2>1. 2^(free + (s - free)) = e * k
    BY <1>4, PowerSum
  <2>2. 2^((s - free) + free') = k * g
    BY <1>4, PowerSum
  <2>3. k \in Nat \ {0} /\ g \in Nat \ {0}
    BY <1>4, PowerTyped
  <2>4. e \in Nat \ {0}
    BY <1>1, <1>2, PendingWord
  <2> QED BY Zenon, <1>4, <2>1, <2>2, <2>3, <2>4
<1>6. v \in Nat
  <2> DEFINE t == 2^s
  <2>1. v \in 0..(t - 1)
    BY <1>3
  <2> HIDE DEF v, t
  <2> QED BY <2>1
<1>7. x \in 0..(e - 1) /\ y \in 0..(k - 1)
  <2> DEFINE t == 2^s
  <2>1. v \in 0..(t - 1) /\ t = e * k
    BY <1>3, <1>5
  <2> HIDE DEF v, t, e, k
  <2>2. x \in Nat /\ y \in 0..(k - 1)
    BY <1>5, <1>6, Quotient
  <2>3. ~(k * e <= v) /\ e \in Nat
    BY <1>5, <1>6, <2>1
  <2>4. ~(e <= x)
    BY Zenon, <1>5, <1>6, <2>3, QuotientBound
  <2> HIDE DEF x, y
  <2> QED BY <1>5, <2>2, <2>3, <2>4
<1> DEFINE once == PutWord(buf, pos1, full)
           W == 2^WordBits
<1>8. full \in Nat /\ full % W = Stored(pos1) + x
  <2>1. \A z \in 0..(e - 1) : (word * e + z) % W = Stored(pos1) + z
    BY <1>1, <1>2, PendingWord
  <2>2. full % W = Stored(pos1) + x
    BY <1>7, <2>1
  <2>3. full \in Nat
    <3>1. word \in Nat /\ e \in Nat /\ x \in Nat
      <4>1. e \in Nat /\ x \in 0..(e - 1)
        BY <1>5, <1>7
      <4> HIDE DEF e, x
      <4> QED BY <1>2, <4>1
    <3> HIDE DEF e, x
    <3> QED BY <3>1
  <2> QED BY Zenon, <2>2, <2>3
<1> HIDE DEF full
<1>9. /\ once \in Seq(CellValues) /\ Len(once) = pos
      /\ WordAt(once, pos1) = full % W
      /\ \A i \in 1..pos : i # pos1 + 1 /\ i # pos1 + 2 => once[i] = buf[i]
  <2>1. pos1 + 2 <= Len(buf)
    BY <1>2
  <2> QED BY <1>2, <1>8, <2>1, PutWordPlaces
<1> HIDE DEF once
<1>10. buf' \in Seq(CellValues) /\ \A i \in 1..pos : buf'[i] = once[i]
  <2>1. <<0, 0>> \in Seq(CellValues) /\ Len(<<0, 0>>) = 2
    <3>1. 0 \in CellValues
      BY CellPowers DEF CellValues
    <3> QED BY <3>1
  <2> DEFINE z == <<0, 0>>
  <2>2. z \in Seq(CellValues) /\ Len(z) = 2 /\ buf' = once \o z
    BY <1>1, <2>1 DEF once
  <2> HIDE DEF z
  <2>3. /\ buf' \in Seq(CellValues)
        /\ \A i \in 1..(Len(once) + Len(z)) : buf'[i] = IF i <= Len(once) THEN once[i] ELSE z[i - Len(once)]
    BY <1>9, <2>2, ConcatProperties
  <2> QED BY <1>2, <1>9, <2>2, <2>3
<1>11. \A i \in 1..Len(buf) : i # pos1 + 1 /\ i # pos1 + 2 => buf'[i] = buf[i]
  BY <1>2, <1>9, <1>10
<1>12. ASSUME NEW p \in Nat, p = pos1 PROVE Stored(p)' = Stored(p) + x
  <2>1. p # pos1' /\ p + 1 \in 1..pos /\ p + 2 \in 1..pos
    BY <1>1, <1>2, <1>12
  <2>2. Stored(p)' = WordAt(buf', p)
    BY <2>1 DEF Stored
  <2>3. WordAt(buf', p) = WordAt(once, p)
    BY <1>10, <2>1 DEF WordAt
  <2> QED BY Zenon, <1>8, <1>9, <1>12, <2>2, <2>3
<1>13. ASSUME NEW p \in Nat, p + 2 <= pos1 PROVE Stored(p)' = Stored(p)
  <2>1. p # pos1 /\ p # pos1' /\ p + 2 <= pos
    BY <1>1, <1>2, <1>13
  <2>2. WordAt(buf', p) = WordAt(buf, p)
    BY <1>2, <1>11, <1>13, <2>1, SameWord
  <2> QED BY <2>1, <2>2 DEF Stored
<1>14. ASSUME NEW a \in Places, NEW b \in Places, a = Place, b = Place'
       PROVE  Holds(item, a, b)'
  <2>1. a.pos1 = pos1 /\ a.free = free /\ b.pos1 = pos1' /\ b.free = free'
    BY <1>14 DEF Place
  <2> DEFINE u == word % 2^(WordBits - free)
  <2>2. u \in Nat /\ Stored(pos1) = u * e
    BY <1>1, <1>2, PendingWord
  <2>3. Field(Stored(a.pos1)', e, 1, x)
    <3>1. Stored(a.pos1)' = u * e + x
      BY Zenon, <1>2, <1>12, <2>1, <2>2
    <3> HIDE DEF u, e, x
    <3>2. u * e + x = u * e + x * 1 + 0 /\ 0 \in 0..(1 - 1)
      BY <1>5, <1>7, <2>2
    <3> QED BY <2>2, <3>1, <3>2 DEF Field
  <2>4. Field(Stored(b.pos1)', W, g, y)
    <3>1. Stored(b.pos1)' = (word' % 2^(WordBits - free')) * 2^free'
      BY <1>1, <2>1 DEF Stored
    <3>2. Stored(b.pos1)' = y * g
      BY Zenon, <1>1, <1>4, <3>1
    <3> HIDE DEF y, g, W
    <3>3. W \in Nat \ {0}
      BY CellPowers DEF W
    <3>4. y * g = 0 * W + y * g + 0 /\ 0 \in 0..(g - 1) /\ 0 \in Nat
      BY <1>5, <1>7, <3>3
    <3> QED BY <3>2, <3>4 DEF Field
  <2>5. item.kind = "bits" /\ item.kind # "raw" /\ item.size > a.free /\ ~(item.size <= a.free)
    <3> HIDE DEF s
    <3> QED BY <1>1, <1>2, <1>3, <2>1 DEF s
  <2>6. 2^(item.size - a.free) = k /\ 2^a.free = e /\ 2^b.free = g
    BY Zenon, <2>1
  <2> HIDE DEF e, g, k
  <2>7. Field(Stored(a.pos1)', 2^a.free, 1, item.value \div 2^(item.size - a.free))
    BY Zenon, <2>3, <2>6
  <2>8. Field(Stored(b.pos1)', 2^WordBits, 2^b.free, item.value % 2^(item.size - a.free))
    BY Zenon, <2>4, <2>6
  <2> QED BY <2>5, <2>7, <2>8 DEF Holds
<1>15. pos1' + 2 <= pos2' /\ pos2' + 2 <= pos' /\ word' \in Nat
  BY <1>1, <1>2, <1>6
<1>16. item.kind # "raw"
  BY <1>1
<1> HIDE DEF x, e
<1> QED BY <1>1, <1>7, <1>10, <1>11, <1>12, <1>13, <1>14, <1>15, <1>16, LoggedKeepsContent DEF e

LEMMA WriteKeepsContent ==
  ASSUME IndInv, ContentInv, NEW item \in Items, Write(item)
  PROVE  ContentInv'
<1>1. IndInv'
  BY WriteKeepsInv
<1>2. Logged(item)
  BY DEF Write, WriteNothing, WriteFitting, WriteSplit, WriteRaw
<1>3. Moves(item, Place, Place')
  <2> DEFINE n == Len(script)
             new == Place'
  <2>1. /\ script \in Seq(Items) /\ trail \in Seq(Places) /\ Len(trail) = n + 1 /\ n \in Nat
        /\ trail[n + 1] = Place
    BY DEF IndInv, TypeOK, TrailInv
  <2>2. script' = Append(script, item) /\ trail' = Append(trail, new)
    BY <1>2 DEF Logged
  <2>3. new \in Places
    BY <1>1 DEF IndInv, TypeOK, Place, Places
  <2> HIDE DEF new
  <2>4. /\ Len(script') = n + 1 /\ script'[n + 1] = item
        /\ trail'[n + 1] = Place /\ trail'[n + 2] = new
    <3>1. Len(script') = n + 1 /\ script'[n + 1] = item
      BY <2>1, <2>2, AppendProperties
    <3>2. n + 1 \in 1..Len(trail) /\ Len(trail) + 1 = n + 2
      BY <2>1
    <3>3. trail'[n + 1] = trail[n + 1] /\ trail'[n + 2] = new
      BY <2>1, <2>2, <2>3, <3>2, AppendProperties
    <3> QED BY <2>1, <3>1, <3>3
  <2> HIDE DEF n
  <2>5. n + 1 \in 1..Len(script') /\ (n + 1) + 1 = n + 2
    BY <2>1, <2>4
  <2>6. Moves(script'[n + 1], trail'[n + 1], trail'[(n + 1) + 1])
    BY <1>1, <2>5 DEF IndInv, TrailInv
  <2> QED BY Zenon, <2>4, <2>5, <2>6 DEF new
<1> QED BY <1>1, <1>3, WriteNothingKeeps, WriteFittingKeeps, WriteSplitKeeps, WriteRawKeeps DEF Write

----------------------------------------------------------------------------
(* The reader's register *)

\* What is left of the pending word, then the next word, at the top.
RegisterInv ==
  phase = "read" =>
    LET t == trail[Len(got) + 1]
    IN register = ((WordAt(buf, t.pos1) % 2^t.free) * 2^WordBits + WordAt(buf, t.pos2))
                  * 2^(WordBits - t.free)

LEMMA FinishKeepsContent ==
  ASSUME IndInv, ContentInv, Finish
  PROVE  ContentInv' /\ RegisterInv'
<1>1. /\ pos \in Nat /\ pos1 \in Nat /\ pos2 \in Nat /\ pos1 + 2 <= pos2 /\ pos2 + 2 <= pos
      /\ buf \in Seq(CellValues) /\ Len(buf) = pos /\ word \in Nat /\ free \in 0..WordBits
      /\ phase = "write"
  BY WriteContext DEF Finish
<1>2. /\ phase' = "read" /\ script' = script /\ pos1' = pos1 /\ pos2' = pos2 /\ pos' = pos
      /\ free' = free /\ trail' = trail /\ got' = got /\ word' = word * 2^free
      /\ buf' = PutWord(PutWord(buf, pos1, word * 2^free), pos2, 0)
  BY DEF Finish
<1> DEFINE e == 2^free
           W == 2^WordBits
           full == word * e
           once == PutWord(buf, pos1, full)
<1>3. e \in Nat \ {0} /\ W \in Nat \ {0} /\ (full + 0) % W = Stored(pos1) + 0
  <2>1. e \in Nat \ {0} /\ W \in Nat \ {0}
    BY <1>1, PendingWord, CellPowers
  <2>2. 0 \in 0..(e - 1)
    <3> HIDE DEF e
    <3> QED BY <2>1
  <2>3. \A z \in 0..(e - 1) : (full + z) % W = Stored(pos1) + z
    BY <1>1, PendingWord
  <2> QED BY <2>1, <2>2, <2>3
<1>4. full \in Nat /\ full + 0 = full
  <2> HIDE DEF e
  <2> QED BY <1>1, <1>3
<1> HIDE DEF full
<1>5. /\ once \in Seq(CellValues) /\ Len(once) = pos
      /\ WordAt(once, pos1) = full % W
      /\ \A i \in 1..pos : i # pos1 + 1 /\ i # pos1 + 2 => once[i] = buf[i]
  <2>1. pos1 + 2 <= Len(buf)
    BY <1>1
  <2> QED BY <1>1, <1>4, <2>1, PutWordPlaces
<1>6. buf' = PutWord(once, pos2, 0)
  BY <1>2 DEF full
<1> HIDE DEF once
<1>7. /\ buf' \in Seq(CellValues) /\ Len(buf') = pos
      /\ \A i \in 1..pos : i # pos2 + 1 /\ i # pos2 + 2 => buf'[i] = once[i]
  <2>1. pos2 + 2 <= Len(once) /\ 0 \in Nat
    BY <1>1, <1>5
  <2>2. /\ buf' \in Seq(CellValues) /\ Len(buf') = Len(once)
        /\ \A i \in 1..Len(once) : i # pos2 + 1 /\ i # pos2 + 2 => buf'[i] = once[i]
    BY <1>1, <1>5, <1>6, <2>1, PutWordPlaces
  <2> QED BY <1>5, <2>2
<1>8. ASSUME NEW p \in Nat, p = pos1 PROVE Stored(p)' = Stored(p) + 0
  <2>1. Stored(p)' = WordAt(buf', p)
    BY <1>2 DEF Stored
  <2>2. WordAt(buf', p) = WordAt(once, p)
    <3>1. pos2 \in Nat /\ pos \in Nat /\ p + 2 <= pos2 /\ p + 2 <= pos
      BY <1>1, <1>8
    <3> QED BY Zenon, <1>7, <3>1, SameWord
  <2> QED BY Zenon, <1>3, <1>4, <1>5, <1>8, <2>1, <2>2
<1>9. ASSUME NEW p \in Nat, p + 2 <= pos1 PROVE Stored(p)' = Stored(p)
  <2>1. Stored(p)' = WordAt(buf', p) /\ Stored(p) = WordAt(buf, p)
    BY <1>1, <1>2, <1>9 DEF Stored
  <2>2. WordAt(buf', p) = WordAt(once, p)
    <3>1. pos2 \in Nat /\ pos \in Nat /\ p + 2 <= pos2 /\ p + 2 <= pos
      BY <1>1, <1>9
    <3> QED BY Zenon, <1>7, <3>1, SameWord
  <2>3. WordAt(once, p) = WordAt(buf, p)
    BY <1>1, <1>5, <1>9, SameWord, p + 2 <= pos
  <2> QED BY <2>1, <2>2, <2>3
<1>10. /\ script \in Seq(Items) /\ trail \in Seq(Places) /\ Len(trail) = Len(script) + 1
       /\ Len(script) \in Nat /\ trail[1] = FirstPlace /\ got = << >>
  BY <1>1 DEF IndInv, TypeOK, TrailInv, ReaderInv
<1>11. \A it \in Items, a, b \in Places :
         /\ Moves(it, a, b) /\ b.pos <= pos /\ Holds(it, a, b) /\ Clear(it, a)
         /\ Behind(a) /\ Behind(b) /\ Ordered(a)
         => Holds(it, a, b)'
  <2> SUFFICES ASSUME NEW it \in Items, NEW a \in Places, NEW b \in Places,
                      Moves(it, a, b), b.pos <= pos, Holds(it, a, b), Clear(it, a),
                      Behind(a), Behind(b), Ordered(a)
               PROVE  Holds(it, a, b)'
    OBVIOUS
  <2>1. it.kind = "raw" => it.size \in 1..4 /\ a.pos \in Nat /\ b.pos = a.pos + it.size
    BY ItemFacts DEF Moves, Places
  <2>2. ASSUME it.kind = "raw", NEW i \in 1..it.size PROVE buf'[a.pos + i] = buf[a.pos + i]
    <3> DEFINE y == a.pos
               z == it.size
    <3>1. y \in Nat /\ z \in 1..4 /\ i \in 1..z /\ y + z <= pos
      BY <2>1, <2>2
    <3>2. (pos1 + 2 <= y \/ y + z <= pos1) /\ (pos2 + 2 <= y \/ y + z <= pos2)
      BY <2>2 DEF Clear
    <3> HIDE DEF y, z
    <3>3. y + i \in 1..pos /\ y + i # pos1 + 1 /\ y + i # pos1 + 2
          /\ y + i # pos2 + 1 /\ y + i # pos2 + 2
      BY <1>1, <3>1, <3>2
    <3>4. buf'[y + i] = buf[y + i]
      BY <1>5, <1>7, <3>3
    <3> QED BY <3>4 DEF y
  <2>3. 0 \in 0..(2^free - 1)
    <3>1. 0 \in 0..(e - 1)
      <4> HIDE DEF e
      <4> QED BY <1>3
    <3> QED BY <3>1
  <2>4. a.pos1 + 2 <= a.pos2
    BY DEF Ordered
  <2> QED BY <1>1, <1>8, <1>9, <2>2, <2>3, <2>4, HoldsStays
<1>12. \A k \in 1..Len(script) : Holds(script[k], trail[k], trail[k + 1])'
  <2> SUFFICES ASSUME NEW k \in 1..Len(script) PROVE Holds(script[k], trail[k], trail[k + 1])'
    BY <1>2
  <2>1. k \in 1..Len(trail) /\ k + 1 \in 1..Len(trail)
    BY <1>10
  <2>2. /\ script[k] \in Items /\ trail[k] \in Places /\ trail[k + 1] \in Places
    BY <1>10, <2>1, ElementOfSeq
  <2>3. /\ Moves(script[k], trail[k], trail[k + 1]) /\ trail[k + 1].pos <= pos
        /\ Holds(script[k], trail[k], trail[k + 1]) /\ Clear(script[k], trail[k])
        /\ Behind(trail[k]) /\ Behind(trail[k + 1]) /\ Ordered(trail[k])
    BY <2>1 DEF IndInv, TrailInv, ContentInv
  <2>4. \A it \in Items, a, b \in Places :
           it = script[k] /\ a = trail[k] /\ b = trail[k + 1] /\ Holds(it, a, b)'
           => Holds(script[k], trail[k], trail[k + 1])'
    BY <1>2 DEF Holds, Stored
  <2> QED BY <1>11, <2>2, <2>3, <2>4
<1>13. ContentInv'
  <2>1. word' \in Nat
    BY <1>2, <1>4 DEF full
  <2>2. \A k \in 1..Len(trail) : Behind(trail[k])' /\ Ordered(trail[k])
    BY <1>2 DEF ContentInv, Behind
  <2>3. \A k \in 1..Len(script) : Clear(script[k], trail[k])'
    BY <1>2 DEF ContentInv, Clear
  <2> QED BY <1>1, <1>2, <1>7, <1>12, <2>1, <2>2, <2>3 DEF ContentInv
<1>14. RegisterInv'
  <2> DEFINE u == WordAt(buf', TableSize)
             v == WordAt(buf', TableSize + 2)
  <2>1. TableSize \in Nat /\ TableSize + 2 <= pos
    <3>1. 1 \in 1..Len(trail)
      BY <1>10
    <3>2. FirstPlace.pos <= pos
      BY <1>10, <3>1 DEF IndInv, TrailInv
    <3> QED BY <1>1, <3>2, Widths DEF FirstPlace
  <2>2. u \in 0..(W - 1)
    BY <1>7, <2>1, WordRange
  <2>3. register' = u * W + v
    BY DEF Finish
  <2>4. u % W = u
    <3> HIDE DEF u, W
    <3> QED BY <1>3, <2>2, RemainderSmall
  <2>5. 2^(WordBits - WordBits) = 1
    BY Widths, PowersAssumption, WordBits - WordBits = 0
  <2>6. u * W + v \in Int
    <3>1. TableSize + 2 \in Nat /\ (TableSize + 2) + 2 <= Len(buf')
      <4>1. 1 \in 1..Len(trail)
        BY <1>10
      <4>2. FirstPlace.pos <= pos
        BY <1>10, <4>1 DEF IndInv, TrailInv
      <4> QED BY <1>1, <1>7, <4>2, Widths DEF FirstPlace
    <3>2. v \in 0..(W - 1)
      BY <1>7, <3>1, WordRange
    <3> HIDE DEF u, v, W
    <3> QED BY <1>3, <2>2, <3>2
  <2>7. register' = ((u % W) * W + v) * 2^(WordBits - WordBits)
    <3> DEFINE n == u * W + v
    <3>1. n * 1 = n
      <4>1. n \in Int
        BY <2>6
      <4> HIDE DEF n
      <4> QED BY <4>1
    <3> QED BY Zenon, <2>3, <2>4, <2>5, <3>1
  <2>8. /\ trail'[Len(got') + 1] = FirstPlace
        /\ FirstPlace.pos1 = TableSize /\ FirstPlace.pos2 = TableSize + 2
        /\ FirstPlace.free = WordBits
    BY <1>2, <1>10 DEF FirstPlace
  <2> QED BY Zenon, <2>7, <2>8 DEF RegisterInv
<1> QED BY <1>13, <1>14

\* take(h) on a register with v on top, r and a word w below it, P up.
FittingTakes(h, g, W, P, v, r, w) ==
  LET x == ((v * g + r) * W + w) * P
  IN x \div ((g * W) * P) = v /\ (x * h) % (h * ((g * W) * P)) = (r * W + w) * (P * h)

\* The same when v is x and y, y at the top of the word that has r below.
SplitTakes(h, g, K, P, x, y, r) ==
  LET z == (x * (K * g) + (y * g + r)) * P
  IN z \div (g * P) = K * x + y /\ (z * h) % (h * (g * P)) = r * (P * h)

(***************************************************************************)
(* What take returns and leaves of a register whose top bits are v and     *)
(* whose rest ends in another word.                                        *)
(***************************************************************************)
LEMMA FittingTaken ==
  ASSUME NEW h \in Nat \ {0}, NEW g \in Nat \ {0}, NEW W \in Nat \ {0}, NEW P \in Nat \ {0},
         NEW v \in Nat, NEW r \in 0..(g - 1), NEW w \in 0..(W - 1)
  PROVE  FittingTakes(h, g, W, P, v, r, w)
<1> DEFINE t == (g * W) * P
           x == ((v * g + r) * W + w) * P
           z == r * W + w
           left == z * P
<1>1. z \in Nat /\ z < g * W
  <2>1. (r + 1) * W <= g * W
    OBVIOUS
  <2>2. (r + 1) * W = r * W + W /\ r * W \in Nat
    OBVIOUS
  <2> QED BY <2>1, <2>2
<1>2. x = t * v + left
  <2>1. (v * g + r) * W = v * (g * W) + r * W
    OBVIOUS
  <2> DEFINE i == v * (g * W)
             j == r * W
  <2>2. i \in Nat /\ j \in Nat /\ x = ((i + j) + w) * P /\ z = j + w
    BY <2>1
  <2>3. i * P = t * v
    OBVIOUS
  <2> HIDE DEF i, j, x, z
  <2>4. x = i * P + z * P
    BY <1>1, <2>2
  <2> QED BY <2>3, <2>4
<1>3. t \in Nat \ {0} /\ left \in 0..(t - 1)
  <2> DEFINE q == g * W
  <2>1. q \in Nat \ {0} /\ z \in 0..(q - 1) /\ t = q * P
    BY <1>1
  <2> HIDE DEF q, z, t
  <2>2. (z + 1) * P <= q * P
    BY <2>1
  <2>3. (z + 1) * P = left + P /\ left \in Nat /\ t \in Nat \ {0}
    BY <2>1
  <2> QED BY <2>1, <2>2, <2>3
<1> HIDE DEF t, x, left
<1>4. (t * v + left) \div t = v /\ ((t * v + left) * h) % (h * t) = h * left
  <2>1. ASSUME NEW a \in Nat \ {0}, NEW c \in Nat, NEW d \in 0..(a - 1), a = t, c = v, d = left
        PROVE  (a * c + d) \div a = c /\ ((a * c + d) * h) % (h * a) = h * d
    BY ZenonT(60), Taken
  <2>2. t \in Nat \ {0} /\ v \in Nat /\ left \in 0..(t - 1)
    BY <1>3
  <2> QED BY <2>1, <2>2
<1>5. h * left = z * (P * h)
  <2> HIDE DEF z
  <2> QED BY <1>1 DEF left
<1>6. x \div t = v /\ (x * h) % (h * t) = z * (P * h)
  BY <1>2, <1>4, <1>5
<1> QED BY Zenon, <1>6 DEF t, x, z, FittingTakes

LEMMA SplitTaken ==
  ASSUME NEW h \in Nat \ {0}, NEW g \in Nat \ {0}, NEW K \in Nat \ {0}, NEW P \in Nat \ {0},
         NEW x \in Nat, NEW y \in Nat, NEW r \in 0..(g - 1)
  PROVE  SplitTakes(h, g, K, P, x, y, r)
<1> DEFINE t == g * P
           z == (x * (K * g) + (y * g + r)) * P
           v == K * x + y
           left == r * P
<1>1. z = t * v + left
  <2>1. x * (K * g) + (y * g + r) = v * g + r
    OBVIOUS
  <2>2. v \in Nat
    OBVIOUS
  <2> HIDE DEF v
  <2>3. (v * g + r) * P = t * v + left
    BY <2>2
  <2> QED BY <2>1, <2>3
<1>2. v \in Nat /\ t \in Nat \ {0} /\ left \in 0..(t - 1)
  <2>1. (r + 1) * P <= g * P
    OBVIOUS
  <2>2. (r + 1) * P = left + P /\ left \in Nat
    OBVIOUS
  <2> QED BY <2>1, <2>2
<1> HIDE DEF t, z, v, left
<1>3. (t * v + left) \div t = v /\ ((t * v + left) * h) % (h * t) = h * left
  <2>1. ASSUME NEW a \in Nat \ {0}, NEW c \in Nat, NEW d \in 0..(a - 1), a = t, c = v, d = left
        PROVE  (a * c + d) \div a = c /\ ((a * c + d) * h) % (h * a) = h * d
    BY ZenonT(60), Taken
  <2>2. t \in Nat \ {0} /\ v \in Nat /\ left \in 0..(t - 1)
    BY <1>2
  <2> QED BY <2>1, <2>2
<1>4. h * left = r * (P * h)
  BY DEF left
<1>5. z \div t = v /\ (z * h) % (h * t) = r * (P * h)
  BY <1>1, <1>3, <1>4
<1> QED BY Zenon, <1>5 DEF t, z, v, SplitTakes

(***************************************************************************)
(* What the reader finds where it stands.                                  *)
(***************************************************************************)
LEMMA ReadContext ==
  ASSUME IndInv, ContentInv, RegisterInv, Reading
  PROVE  LET k == Len(got) + 1
             a == trail[k]
             b == trail[k + 1]
             W == 2^WordBits
         IN /\ k \in 1..Len(script) /\ Asked = script[k] /\ Asked \in Items
            /\ a \in Places /\ b \in Places /\ Moves(Asked, a, b)
            /\ rpos = a.pos /\ extra = a.free
            /\ buf \in Seq(CellValues) /\ W \in Nat \ {0}
            /\ WordAt(buf, a.pos1) \in 0..(W - 1) /\ WordAt(buf, a.pos2) \in 0..(W - 1)
            /\ WordAt(buf, b.pos1) \in 0..(W - 1)
            /\ register = ((WordAt(buf, a.pos1) % 2^a.free) * W + WordAt(buf, a.pos2))
                          * 2^(WordBits - a.free)
            /\ Holds(Asked, a, b) /\ \A p \in Nat : Stored(p) = WordAt(buf, p)
<1> DEFINE k == Len(got) + 1
           a == trail[k]
           b == trail[k + 1]
           W == 2^WordBits
<1>1. /\ k \in 1..Len(script) /\ Asked = script[k] /\ Asked \in Items
      /\ a \in Places /\ b \in Places /\ Moves(Asked, a, b)
      /\ rpos = a.pos /\ extra = a.free
  BY Standing
<1>2. phase = "read" /\ buf \in Seq(CellValues) /\ W \in Nat \ {0} /\ Len(buf) = pos
  BY CellPowers DEF Reading, ContentInv, IndInv, TypeOK
<1>3. \A p \in Nat : Stored(p) = WordAt(buf, p)
  BY <1>2 DEF Stored
<1>4. register = ((WordAt(buf, a.pos1) % 2^a.free) * W + WordAt(buf, a.pos2)) * 2^(WordBits - a.free)
  BY <1>2 DEF RegisterInv
<1> HIDE DEF W
<1>5. \A c \in Places : Ordered(c) /\ c.pos <= pos
        => WordAt(buf, c.pos1) \in 0..(W - 1) /\ WordAt(buf, c.pos2) \in 0..(W - 1)
  <2> SUFFICES ASSUME NEW c \in Places, Ordered(c), c.pos <= pos
               PROVE  WordAt(buf, c.pos1) \in 0..(W - 1) /\ WordAt(buf, c.pos2) \in 0..(W - 1)
    OBVIOUS
  <2> DEFINE x == c.pos1
             y == c.pos2
             z == c.pos
  <2>1. x \in Nat /\ y \in Nat /\ z \in Nat /\ x + 2 <= y /\ y + 2 <= z /\ z <= pos /\ pos \in Nat
    BY DEF Places, Ordered, IndInv, TypeOK
  <2> HIDE DEF x, y, z
  <2>2. x + 2 <= Len(buf) /\ y + 2 <= Len(buf)
    BY <1>2, <2>1
  <2>3. WordAt(buf, x) \in 0..(W - 1) /\ WordAt(buf, y) \in 0..(W - 1)
    BY <1>2, <2>1, <2>2, WordRange DEF W
  <2> QED BY <2>3 DEF x, y
<1>6. Ordered(a) /\ a.pos <= pos /\ Ordered(b) /\ b.pos <= pos /\ Holds(Asked, a, b)
  <2>1. Len(trail) = Len(script) + 1 /\ script \in Seq(Items) /\ k \in 1..Len(script)
    BY <1>1 DEF IndInv, TypeOK, TrailInv
  <2> HIDE DEF k
  <2>2. k \in 1..Len(trail) /\ k + 1 \in 1..Len(trail)
    BY <2>1
  <2>3. Ordered(a) /\ Ordered(b) /\ Holds(script[k], a, b)
    BY <2>1, <2>2 DEF ContentInv
  <2>4. a.pos <= pos /\ b.pos <= pos
    BY <2>2 DEF IndInv, TrailInv
  <2> QED BY <1>1, <2>3, <2>4
<1> HIDE DEF k, a, b
<1>7. /\ WordAt(buf, a.pos1) \in 0..(W - 1) /\ WordAt(buf, a.pos2) \in 0..(W - 1)
      /\ WordAt(buf, b.pos1) \in 0..(W - 1)
  BY <1>1, <1>5, <1>6
<1> QED BY <1>1, <1>2, <1>3, <1>4, <1>6, <1>7 DEF k, a, b, W

\* take(s) returns v; the register keeps w1 below room places, then w2.
Takes(s, v, room, w1, w2, refill) ==
  /\ TopBits(s) = v
  /\ Shifted(s) + refill = ((w1 % 2^room) * 2^WordBits + w2) * 2^(WordBits - room)

(***************************************************************************)
(* An item inside one word: take returns it and leaves the rest.           *)
(***************************************************************************)
LEMMA TakesFitting ==
  ASSUME NEW s \in 1..(WordBits - 1), NEW f \in 0..WordBits, s <= f,
         NEW v \in 0..(2^s - 1), NEW w1 \in Nat, NEW w2 \in 0..(2^WordBits - 1),
         Field(w1, 2^f, 2^(f - s), v),
         register = ((w1 % 2^f) * 2^WordBits + w2) * 2^(WordBits - f)
  PROVE  Takes(s, v, f - s, w1, w2, 0)
<1> DEFINE h == 2^s
           g == 2^(f - s)
           W == 2^WordBits
           P == 2^(WordBits - f)
           t == 2^(2 * WordBits - s)
           r == w1 % g
<1>1. /\ WordBits \in Nat \ {0} /\ s \in Nat /\ f - s \in Nat /\ WordBits - f \in Nat
      /\ s + (f - s) = f /\ (f - s) + WordBits \in Nat
      /\ ((f - s) + WordBits) + (WordBits - f) = 2 * WordBits - s
      /\ s + (2 * WordBits - s) = 2 * WordBits /\ 2 * WordBits - s \in Nat
      /\ (WordBits - f) + s = WordBits - (f - s)
  BY Widths
<1>2. /\ s <= 2 * WordBits /\ f <= 2 * WordBits /\ (f - s) + WordBits <= 2 * WordBits
      /\ 2 * WordBits - s <= 2 * WordBits /\ WordBits - (f - s) <= 2 * WordBits
      /\ 2 * WordBits <= 2 * WordBits
      /\ f - s \in 0..(2 * WordBits) /\ s \in 0..(2 * WordBits) /\ WordBits - f \in 0..(2 * WordBits)
  BY <1>1
<1>3. h \in Nat \ {0} /\ g \in Nat \ {0} /\ W \in Nat \ {0} /\ P \in Nat \ {0}
  BY <1>2, PowerTyped, CellPowers
<1>4. 2^f = h * g
  <2>1. 2^(s + (f - s)) = h * g
    BY <1>1, <1>2, PowerSum
  <2> QED BY Zenon, <1>1, <2>1
<1>5. t = (g * W) * P
  <2>1. 2^((f - s) + WordBits) = g * W
    BY <1>1, <1>2, PowerSum
  <2>2. 2^(((f - s) + WordBits) + (WordBits - f)) = 2^((f - s) + WordBits) * P
    BY <1>1, <1>2, PowerSum
  <2> QED BY Zenon, <1>1, <2>1, <2>2
<1>6. 2^(2 * WordBits) = h * t
  <2>1. 2^(s + (2 * WordBits - s)) = h * t
    BY <1>1, <1>2, PowerSum
  <2> QED BY Zenon, <1>1, <2>1
<1>7. 2^(WordBits - (f - s)) = P * h
  <2>1. 2^((WordBits - f) + s) = P * h
    BY <1>1, <1>2, PowerSum
  <2> QED BY Zenon, <1>1, <2>1
<1>8. TopBits(s) = register \div t /\ Shifted(s) = (register * h) % (h * t)
  BY Zenon, <1>6 DEF TopBits, Shifted
<1>9. v \in 0..(h - 1) /\ Field(w1, h * g, g, v) /\ w2 \in 0..(W - 1)
      /\ register = ((w1 % (h * g)) * W + w2) * P
  BY <1>4
<1> HIDE DEF h, g, W, P, t
<1>10. w1 % (h * g) = v * g + r /\ r \in 0..(g - 1)
  BY <1>3, <1>9, FieldSplits
<1>11. v \in Nat
  BY <1>3, <1>9
<1> HIDE DEF r
<1>12. register = ((v * g + r) * W + w2) * P
  BY Zenon, <1>9, <1>10
<1> DEFINE x == ((v * g + r) * W + w2) * P
           q == (g * W) * P
<1>13. x \div q = v /\ (x * h) % (h * q) = (r * W + w2) * (P * h)
  <2>1. r \in 0..(g - 1) /\ w2 \in 0..(W - 1)
    BY <1>9, <1>10
  <2>2. FittingTakes(h, g, W, P, v, r, w2)
    BY <1>3, <1>11, <2>1, FittingTaken
  <2> QED BY Zenon, <2>2 DEF FittingTakes
<1>14. TopBits(s) = v /\ Shifted(s) = (r * W + w2) * (P * h)
  BY Zenon, <1>5, <1>8, <1>12, <1>13
<1>15. Shifted(s) + 0 = Shifted(s)
  <2> DEFINE i == (r * W + w2) * (P * h)
  <2>1. i \in Int
    BY <1>3, <1>9, <1>10
  <2> HIDE DEF i
  <2>2. i + 0 = i
    BY <2>1
  <2> QED BY Zenon, <1>14, <2>2 DEF i
<1> QED BY Zenon, <1>7, <1>14, <1>15 DEF r, g, W, Takes

(***************************************************************************)
(* An item over two words: take returns it and leaves the second's rest.   *)
(***************************************************************************)
LEMMA TakesSplit ==
  ASSUME NEW s \in 1..(WordBits - 1), NEW f \in 0..WordBits, s > f,
         NEW v \in 0..(2^s - 1), NEW w1 \in Nat, NEW w2 \in 0..(2^WordBits - 1), NEW w3 \in Nat,
         Field(w1, 2^f, 1, v \div 2^(s - f)),
         Field(w2, 2^WordBits, 2^(f - s + WordBits), v % 2^(s - f)),
         register = ((w1 % 2^f) * 2^WordBits + w2) * 2^(WordBits - f)
  PROVE  Takes(s, v, f - s + WordBits, w2, w3, w3 * 2^(s - f))
<1> DEFINE h == 2^s
           e == 2^f
           K == 2^(s - f)
           g == 2^(f - s + WordBits)
           W == 2^WordBits
           P == 2^(WordBits - f)
           t == 2^(2 * WordBits - s)
           r == w2 % g
           x == v \div K
           y == v % K
<1>1. /\ WordBits \in Nat \ {0} /\ s \in Nat /\ s - f \in Nat /\ WordBits - f \in Nat /\ f \in Nat
      /\ f - s + WordBits \in Nat
      /\ f + (s - f) = s /\ (s - f) + (f - s + WordBits) = WordBits
      /\ (f - s + WordBits) + (WordBits - f) = 2 * WordBits - s
      /\ s + (2 * WordBits - s) = 2 * WordBits /\ 2 * WordBits - s \in Nat
      /\ (WordBits - f) + s = (s - f) + WordBits
      /\ WordBits - (f - s + WordBits) = s - f
  BY Widths
<1>2. /\ s <= 2 * WordBits /\ WordBits <= 2 * WordBits /\ (s - f) + WordBits <= 2 * WordBits
      /\ 2 * WordBits - s <= 2 * WordBits /\ 2 * WordBits <= 2 * WordBits
      /\ s - f \in 0..(2 * WordBits) /\ s \in 0..(2 * WordBits) /\ WordBits - f \in 0..(2 * WordBits)
      /\ f \in 0..(2 * WordBits) /\ f - s + WordBits \in 0..(2 * WordBits)
  BY <1>1
<1>3. /\ h \in Nat \ {0} /\ g \in Nat \ {0} /\ W \in Nat \ {0} /\ P \in Nat \ {0}
      /\ e \in Nat \ {0} /\ K \in Nat \ {0}
  BY <1>2, PowerTyped, CellPowers
<1>4. h = e * K
  <2>1. 2^(f + (s - f)) = e * K
    BY <1>1, <1>2, PowerSum
  <2> QED BY Zenon, <1>1, <2>1
<1>5. W = K * g
  <2>1. 2^((s - f) + (f - s + WordBits)) = K * g
    BY <1>1, <1>2, PowerSum
  <2> QED BY Zenon, <1>1, <2>1
<1>6. t = g * P
  <2>1. 2^((f - s + WordBits) + (WordBits - f)) = g * P
    BY <1>1, <1>2, PowerSum
  <2> QED BY Zenon, <1>1, <2>1
<1>7. 2^(2 * WordBits) = h * t
  <2>1. 2^(s + (2 * WordBits - s)) = h * t
    BY <1>1, <1>2, PowerSum
  <2> QED BY Zenon, <1>1, <2>1
<1>8. P * h = K * W
  <2>1. 2^((WordBits - f) + s) = P * h
    <3>1. (WordBits - f) + s <= 2 * WordBits
      BY <1>1, <1>2
    <3> QED BY <1>1, <3>1, PowerSum
  <2>2. 2^((s - f) + WordBits) = K * W
    BY <1>1, <1>2, PowerSum
  <2> QED BY Zenon, <1>1, <2>1, <2>2
<1>9. 2^(WordBits - (f - s + WordBits)) = K
  BY Zenon, <1>1
<1>10. TopBits(s) = register \div t /\ Shifted(s) = (register * h) % (h * t)
  BY Zenon, <1>7 DEF TopBits, Shifted
<1>11. v \in 0..(h - 1) /\ Field(w1, e, 1, x) /\ Field(w2, W, g, y) /\ w2 \in 0..(W - 1)
       /\ register = ((w1 % e) * W + w2) * P
  OBVIOUS
<1> HIDE DEF h, g, W, P, t, e, K
<1>12. v \in Nat
  BY <1>3, <1>11
<1>13. x \in Nat /\ y \in 0..(K - 1) /\ v = K * x + y
  BY <1>3, <1>12, Quotient
<1>14. x \in 0..(e - 1)
  <2>1. ~(K * e <= v) /\ e \in Nat
    <3>1. v < e * K /\ K * e = e * K /\ e * K \in Nat
      BY <1>3, <1>4, <1>11
    <3> QED BY <1>3, <1>12, <3>1
  <2>2. ~(e <= x)
    BY Zenon, <1>3, <1>12, <2>1, QuotientBound
  <2> HIDE DEF x
  <2> QED BY <1>3, <1>13, <2>2
<1> HIDE DEF x, y
<1>15. w1 % e = x
  <2>1. PICK hi \in Nat, lo \in 0..(1 - 1) : w1 = hi * e + x * 1 + lo
    BY <1>11 DEF Field
  <2>2. w1 = e * hi + x
    BY <1>3, <1>13, <2>1
  <2> QED BY <1>3, <1>14, <2>2, ComesApart
<1>16. w2 = y * g + r /\ r \in 0..(g - 1) /\ y \in Nat
  <2>1. w2 \in Nat /\ Field(w2, K * g, g, y)
    BY <1>3, <1>5, <1>11
  <2>2. w2 % (K * g) = y * g + r /\ r \in 0..(g - 1)
    BY ZenonT(60), <1>3, <1>13, <2>1, FieldSplits
  <2>3. w2 % W = w2
    BY <1>3, <1>11, <2>1, RemainderSmall
  <2>4. y \in Nat
    BY <1>3, <1>13
  <2> QED BY Zenon, <1>5, <2>2, <2>3, <2>4
<1> HIDE DEF r
<1> DEFINE z == (x * (K * g) + (y * g + r)) * P
           q == g * P
<1>17. register = z
  BY Zenon, <1>5, <1>11, <1>15, <1>16
<1>18. z \div q = K * x + y /\ (z * h) % (h * q) = r * (P * h)
  <2>1. SplitTakes(h, g, K, P, x, y, r)
    <3>1. y \in Nat /\ r \in 0..(g - 1)
      BY <1>16
    <3> QED BY <1>3, <1>13, <3>1, SplitTaken
  <2> QED BY Zenon, <2>1 DEF SplitTakes
<1>19. TopBits(s) = v /\ Shifted(s) = r * (K * W)
  BY Zenon, <1>6, <1>8, <1>10, <1>13, <1>17, <1>18
<1>20. r * (K * W) + w3 * K = (r * W + w3) * K
  <2>1. r \in Nat /\ K \in Nat /\ W \in Nat
    BY <1>3, <1>16
  <2>2. r * (K * W) = (r * W) * K
    BY <2>1
  <2> DEFINE i == r * W
  <2>3. i \in Nat
    BY <2>1
  <2> HIDE DEF i
  <2>4. i * K + w3 * K = (i + w3) * K
    BY <2>1, <2>3
  <2> QED BY Zenon, <2>2, <2>4 DEF i
<1> QED BY Zenon, <1>9, <1>19, <1>20 DEF r, g, W, K, Takes

(***************************************************************************)
(* The register before the next operation, if the reader moves to b.       *)
(***************************************************************************)
LEMMA NextRegister ==
  ASSUME IndInv, Reading, NEW v, Delivered(v),
         LET b == trail[Len(got) + 2]
         IN register' = ((WordAt(buf, b.pos1) % 2^b.free) * 2^WordBits + WordAt(buf, b.pos2))
                        * 2^(WordBits - b.free)
  PROVE  RegisterInv'
<1>1. got' = Append(got, v) /\ buf' = buf /\ trail' = trail /\ got \in Seq(Int)
  BY DEF Delivered, writeVars, IndInv, TypeOK
<1>2. Len(got') + 1 = Len(got) + 2
  BY <1>1
<1> QED BY Zenon, <1>1, <1>2 DEF RegisterInv

LEMMA ReadDelivers ==
  ASSUME IndInv, ContentInv, RegisterInv, Read
  PROVE  /\ got' = Append(got, Asked.value) /\ RegisterInv'
         /\ UNCHANGED <<writeVars, phase>>
<1> DEFINE k == Len(got) + 1
           a == trail[k]
           b == trail[k + 1]
           W == 2^WordBits
           n == Asked.size
           v == Asked.value
           w1 == WordAt(buf, a.pos1)
           w2 == WordAt(buf, a.pos2)
<1>1. Reading
  BY DEF Read, TakeNothing, TakeSpare, TakeAndRefill, ReadRaw
<1>2. /\ Asked \in Items /\ a \in Places /\ b \in Places /\ Moves(Asked, a, b)
      /\ rpos = a.pos /\ extra = a.free
      /\ buf \in Seq(CellValues) /\ W \in Nat \ {0}
      /\ w1 \in 0..(W - 1) /\ w2 \in 0..(W - 1)
      /\ register = ((w1 % 2^a.free) * W + w2) * 2^(WordBits - a.free)
      /\ Holds(Asked, a, b) /\ \A p \in Nat : Stored(p) = WordAt(buf, p)
  BY <1>1, ReadContext
<1>3. /\ WordBits \in Nat \ {0} /\ n \in Nat /\ v \in Nat
      /\ Asked.kind = "bits" => n < WordBits /\ v \in 0..(2^n - 1)
      /\ Asked.kind = "raw" => n \in 1..4 /\ v < 2^(n * CellBits)
  BY <1>2, ItemFacts, ItemFits, Widths, HuffBitsAssumption
<1>4. b.pos <= Len(buf) /\ b = trail[Len(got) + 2]
  <2>1. got \in Seq(Int)
    BY DEF IndInv, TypeOK
  <2>2. k + 1 = Len(got) + 2
    BY <2>1
  <2> QED BY <1>1, <2>2, Standing
<1>5. /\ a.pos1 \in Nat /\ a.pos2 \in Nat /\ a.pos \in Nat /\ b.pos1 \in Nat
      /\ a.free \in 0..WordBits /\ b.free \in 0..WordBits
  BY <1>2 DEF Places
<1>6. SUFFICES /\ Delivered(v)
               /\ register' = ((WordAt(buf, b.pos1) % 2^b.free) * W + WordAt(buf, b.pos2))
                              * 2^(WordBits - b.free)
  BY <1>1, <1>4, NextRegister DEF Delivered
<1> HIDE DEF a, b, k
<1> DEFINE f == a.free
<1>7. CASE TakeNothing
  <2>1. Asked.kind = "bits" /\ n = 0 /\ Delivered(0) /\ register' = register
    BY <1>7 DEF TakeNothing
  <2>2. v = 0
    <3>1. v \in 0..(2^0 - 1) /\ 2^0 = 1
      BY <1>3, <2>1, PowersAssumption
    <3> QED BY <3>1
  <2>3. b.pos1 = a.pos1 /\ b.pos2 = a.pos2 /\ b.free = a.free
    BY <1>2, <1>5, <2>1 DEF Moves
  <2> QED BY Zenon, <1>2, <2>1, <2>2, <2>3
<1>8. CASE TakeSpare
  <2>1. /\ Asked.kind = "bits" /\ n > 0 /\ n <= f /\ Delivered(TopBits(n))
        /\ register' = Shifted(n)
    BY <1>2, <1>3, <1>5, <1>8 DEF TakeSpare, Refills
  <2>2. b.pos1 = a.pos1 /\ b.pos2 = a.pos2 /\ b.free = f - n
    BY <1>2, <2>1 DEF Moves
  <2>3. Field(w1, 2^f, 2^(f - n), v)
    BY Zenon, <1>2, <1>5, <2>1, <2>2 DEF Holds
  <2>4. n \in 1..(WordBits - 1) /\ w1 \in Nat
    BY <1>2, <1>3, <2>1
  <2>5. Takes(n, v, f - n, w1, w2, 0)
    <3>1. /\ n \in 1..(WordBits - 1) /\ f \in 0..WordBits /\ n <= f /\ v \in 0..(2^n - 1)
          /\ w1 \in Nat /\ w2 \in 0..(W - 1)
      BY <1>2, <1>3, <1>5, <2>1, <2>4
    <3>2. register = ((w1 % 2^f) * W + w2) * 2^(WordBits - f)
      BY <1>2
    <3> HIDE DEF w1, w2, n, f, v
    <3> QED BY <2>3, <3>1, <3>2, TakesFitting
  <2>6. Shifted(n) + 0 = Shifted(n)
    <3>1. Shifted(n) \in Int
      <4>1. register \in Int
        BY DEF IndInv, TypeOK
      <4>2. n \in 0..WordBits
        BY <1>3, <2>1
      <4> QED BY <4>1, <4>2, RegisterTyped
    <3> DEFINE i == Shifted(n)
    <3>2. i \in Int
      BY <3>1
    <3> HIDE DEF i
    <3>3. i + 0 = i
      BY <3>2
    <3> QED BY <3>3 DEF i
  <2>7. TopBits(n) = v /\ Shifted(n) = ((w1 % 2^(f - n)) * W + w2) * 2^(WordBits - (f - n))
    BY Zenon, <2>5, <2>6 DEF Takes
  <2>8. register' = ((WordAt(buf, b.pos1) % 2^b.free) * W + WordAt(buf, b.pos2)) * 2^(WordBits - b.free)
    <3>1. register' = ((w1 % 2^(f - n)) * W + w2) * 2^(WordBits - (f - n))
      BY Zenon, <2>1, <2>7
    <3> QED BY Zenon, <2>2, <3>1
  <2>9. Delivered(v)
    BY Zenon, <2>1, <2>7
  <2> QED BY Zenon, <2>8, <2>9
<1>9. CASE TakeAndRefill
  <2>a. Asked.kind = "bits" /\ extra - n < 0 /\ extra = f
    <3>1. extra = f
      BY Zenon, <1>2
    <3> QED BY Zenon, <1>9, <3>1 DEF TakeAndRefill, Refills
  <2>b. n < WordBits
    BY Zenon, <1>3, <2>a
  <2>c. n \in Nat /\ f \in 0..WordBits /\ WordBits \in Nat
    BY Zenon, <1>3, <1>5, HuffBitsAssumption
  <2> HIDE DEF n, f
  <2>d. n > f
    BY ONLY <2>a, <2>c
  <2>1. Asked.kind = "bits" /\ n > f /\ n < WordBits
    BY ONLY <2>a, <2>b, <2>d
  <2> USE DEF n, f
  <2>2. /\ b.pos1 = a.pos2 /\ b.pos2 = rpos /\ b.free = f - n + WordBits /\ b.pos = rpos + 2
    BY <1>2, <2>1 DEF Moves
  <2>3. /\ Delivered(TopBits(n)) /\ register' = Shifted(n) + WordAt(buf, rpos) * 2^(n - f)
    BY <1>2, <1>4, <1>9, <2>2 DEF TakeAndRefill
  <2>4. Field(w1, 2^f, 1, v \div 2^(n - f)) /\ Field(w2, W, 2^(f - n + WordBits), v % 2^(n - f))
    <3>1. /\ Field(Stored(a.pos1), 2^a.free, 1, v \div 2^(n - a.free))
          /\ Field(Stored(b.pos1), 2^WordBits, 2^b.free, v % 2^(n - a.free))
      BY <1>2, <2>1 DEF Holds
    <3> QED BY Zenon, <1>2, <1>5, <2>2, <3>1
  <2>5. n \in 1..(WordBits - 1) /\ w1 \in Nat /\ WordAt(buf, rpos) \in Nat
    <3>1. rpos \in Nat /\ rpos + 2 <= Len(buf)
      BY <1>2, <1>4, <1>5, <2>2
    <3>2. WordAt(buf, rpos) \in 0..(W - 1)
      BY <1>2, <3>1, WordRange
    <3> DEFINE w3 == WordAt(buf, rpos)
    <3>3. w3 \in 0..(W - 1)
      BY <3>2
    <3> HIDE DEF w1, w2, w3, W, n, f
    <3>4. n \in 1..(WordBits - 1) /\ w1 \in Nat /\ w3 \in Nat
      BY <1>2, <1>3, <1>5, <2>1, <3>3 DEF f
    <3> QED BY <3>4 DEF w3
  <2> DEFINE w3 == WordAt(buf, rpos)
  <2>6. Takes(n, v, f - n + WordBits, w2, w3, w3 * 2^(n - f))
    <3>1. /\ n \in 1..(WordBits - 1) /\ f \in 0..WordBits /\ n > f /\ v \in 0..(2^n - 1)
          /\ w1 \in Nat /\ w2 \in 0..(W - 1) /\ w3 \in Nat
      BY <1>2, <1>3, <1>5, <2>1, <2>5
    <3>2. register = ((w1 % 2^f) * W + w2) * 2^(WordBits - f)
      BY <1>2
    <3> HIDE DEF w1, w2, w3, n, f, v
    <3> QED BY <2>4, <3>1, <3>2, TakesSplit
  <2> QED BY Zenon, <2>2, <2>3, <2>6 DEF Takes
<1>10. CASE ReadRaw
  <2>1. Asked.kind = "raw" /\ n \in 1..4
    BY <1>3, <1>10 DEF ReadRaw
  <2>2. /\ b.pos1 = a.pos1 /\ b.pos2 = a.pos2 /\ b.free = a.free /\ b.pos = rpos + n
    BY <1>2, <2>1 DEF Moves
  <2>3. Delivered(RawValue(rpos, n)) /\ register' = register
    BY <1>4, <1>10, <2>2 DEF ReadRaw
  <2>4. RawValue(rpos, n) = v
    <3>1. \A i \in 1..n : buf[rpos + i] = Cells(n, v)[i]
      BY <1>2, <2>1 DEF Holds
    <3>2. rpos \in Nat /\ v \in Nat /\ v < 2^(n * CellBits)
      BY <1>2, <1>3, <1>5, <2>1
    <3> QED BY <2>1, <3>1, <3>2, RawCells
  <2> QED BY Zenon, <1>2, <2>2, <2>3, <2>4
<1> QED BY <1>7, <1>8, <1>9, <1>10 DEF Read

----------------------------------------------------------------------------

ValuesInv == ContentInv /\ RegisterInv /\ ValuesSurvive

LEMMA ValuesInit == Init => ValuesInv
<1> SUFFICES ASSUME Init PROVE ValuesInv
  OBVIOUS
<1>1. /\ script = << >> /\ buf = [i \in 1..(TableSize + 4) |-> 0]
      /\ pos1 = TableSize /\ pos2 = TableSize + 2 /\ pos = TableSize + 4
      /\ free = WordBits /\ word = 0 /\ trail = <<Place>> /\ phase = "write" /\ got = << >>
  BY DEF Init
<1>2. buf \in Seq(CellValues)
  <2>1. 0 \in CellValues /\ TableSize + 4 \in Nat
    BY CellPowers, Widths DEF CellValues
  <2> QED BY <1>1, <2>1
<1>3. Len(trail) = 1 /\ trail[1] = Place
  BY <1>1
<1>4. Behind(Place) /\ Ordered(Place)
  BY <1>1, Widths DEF Behind, Ordered, Place
<1>5. ContentInv
  BY <1>1, <1>2, <1>3, <1>4, Widths DEF ContentInv
<1> QED BY <1>1, <1>5 DEF ValuesInv, RegisterInv, ValuesSurvive

LEMMA ValuesKept ==
  ASSUME IndInv, ValuesInv, [Next]_vars
  PROVE  ValuesInv'
<1>a. ContentInv /\ RegisterInv /\ ValuesSurvive
  BY DEF ValuesInv
<1>1. CASE \E item \in Items : Write(item)
  <2>1. PICK item \in Items : Write(item)
    BY <1>1
  <2>2. ContentInv'
    BY <1>a, <2>1, WriteKeepsContent
  <2>3. phase = "write" /\ phase' = phase /\ got' = got
    BY <2>1 DEF Write, WriteNothing, WriteFitting, WriteSplit, WriteRaw, Logged, readVars
  <2>4. got = << >>
    BY <2>3 DEF IndInv, ReaderInv
  <2> QED BY <2>2, <2>3, <2>4 DEF ValuesInv, RegisterInv, ValuesSurvive
<1>2. CASE Finish
  <2>1. ContentInv' /\ RegisterInv'
    BY <1>a, <1>2, FinishKeepsContent
  <2>2. got' = got /\ script' = script
    BY <1>2 DEF Finish
  <2> QED BY <1>a, <2>1, <2>2 DEF ValuesInv, ValuesSurvive
<1>3. CASE Read
  <2>1. got' = Append(got, Asked.value) /\ RegisterInv' /\ UNCHANGED <<writeVars, phase>>
    BY <1>a, <1>3, ReadDelivers
  <2>2. ContentInv'
    BY <1>a, <2>1 DEF writeVars, ContentInv, Holds, Stored, Clear, Behind
  <2>3. ValuesSurvive'
    <3>1. got \in Seq(Int) /\ script' = script /\ Asked.value \in Int
      <4>1. Reading
        BY <1>3 DEF Read, TakeNothing, TakeSpare, TakeAndRefill, ReadRaw
      <4>2. Asked \in Items
        BY <4>1, Standing
      <4> QED BY <2>1, <4>2, ItemFacts DEF writeVars, IndInv, TypeOK
    <3>2. /\ Len(got') = Len(got) + 1 /\ got'[Len(got) + 1] = Asked.value
          /\ \A k \in 1..Len(got) : got'[k] = got[k]
      BY <2>1, <3>1, AppendProperties
    <3>3. Asked = script'[Len(got) + 1]
      BY <3>1 DEF Asked
    <3> QED BY <1>a, <3>1, <3>2, <3>3 DEF ValuesSurvive
  <2> QED BY <2>1, <2>2, <2>3 DEF ValuesInv
<1>4. CASE Over \/ UNCHANGED vars
  <2>1. UNCHANGED vars
    BY <1>4 DEF Over
  <2> QED BY <1>a, <2>1 DEF vars, writeVars, readVars, ValuesInv, ContentInv, RegisterInv,
       ValuesSurvive, Holds, Stored, Clear, Behind
<1> QED BY <1>1, <1>2, <1>3, <1>4 DEF Next

(***************************************************************************)
(* Every value the reader takes from a block is the value the writer put   *)
(* in: the deferred words of _BitWriter come back through _BitReader's     *)
(* register, and the high bits a split item leaves in the pending word     *)
(* reach nothing.                                                          *)
(***************************************************************************)
THEOREM ValuesComeBack == Spec => []ValuesSurvive
<1>1. ValuesInv => ValuesSurvive
  BY DEF ValuesInv
<1> QED BY InvHolds, ValuesInit, ValuesKept, <1>1, PTL DEF Spec

============================================================================
