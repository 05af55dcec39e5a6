---------------------------- MODULE Lznt1Proofs ----------------------------
(***************************************************************************)
(* Proofs about Lznt1 for every set of plaintexts, chunk size, group size  *)
(* and division of a word's bits: decompress, which counts positions for   *)
(* itself, divides every word as compress did, gives the plaintext back,   *)
(* and notices a lost end unless it was lost between two chunks.           *)
(*                                                                         *)
(* The code keeps no record of the elements of a chunk.  The invariant     *)
(* says that for every compressed chunk there is a sequence of elements    *)
(* that its bytes hold (Packed) and that are true of its text (Sound); and *)
(* that what is decompressed begins like a buffer w that consists of such  *)
(* chunks (Chunked).                                                       *)
(***************************************************************************)
EXTENDS Lznt1, ArithmeticLemmas, SequenceTheorems

\* The bytes a buffer may consist of.
Cells ==
  [kind : {"flags"}, value : [1..GroupSize -> {0, 1}]]
    \union [kind : {"literal", "second", "terminal", "rest"}, value : Nat]
    \union [kind : {"word"}, value : 0..(2^WordBits - 1)]
    \union [kind : {"header"}, value : [compressed : BOOLEAN, size : 3..(ChunkSize + 2)]]

----------------------------------------------------------------------------
(* Elements and their places in a chunk's bytes *)

\* The flag byte of an element, its bit there, its own first byte, and its
\* position in the chunk's text.
Spots == [word : Nat \ {0}, bit : 1..GroupSize, at : Nat \ {0}, from : Nat]

\* A literal has length 0.
Elements == [spot : Spots, len : Nat, dist : Nat]

IsMatch(e) == e.len # 0
Flag(e) == IF IsMatch(e) THEN 1 ELSE 0
Width(e) == IF IsMatch(e) THEN e.len ELSE 1
Size(e) == IF IsMatch(e) THEN 2 ELSE 1

Start == [word |-> 1, bit |-> 1, at |-> 2, from |-> 0]

\* Where the element after e has its place.
After(e) ==
  LET end  == e.spot.at + Size(e)
      from == e.spot.from + Width(e)
  IN IF e.spot.bit = GroupSize
     THEN [word |-> end, bit |-> 1, at |-> end + 1, from |-> from]
     ELSE [word |-> e.spot.word, bit |-> e.spot.bit + 1, at |-> end, from |-> from]

\* The place behind the first k elements, and the byte to come there.
Spot(els, k) == IF k = 0 THEN Start ELSE After(els[k])
Cursor(s) == IF s.bit = 1 THEN s.word ELSE s.at

\* What an element says is true of the text t and can be said where it stands.
Sound(t, e) ==
  /\ e.spot.from + Width(e) <= Len(t)
  /\ IsMatch(e) =>
       /\ e.len >= MinMatch /\ e.len - MinMatch < LengthUnit(e.spot.from)
       /\ e.dist \in 1..e.spot.from /\ e.dist <= 2^DispBits(e.spot.from)
       /\ RepeatsAfter(t, e.spot.from, e.dist, e.len)

WordValue(e) == (e.dist - 1) * LengthUnit(e.spot.from) + e.len - MinMatch

\* The bytes w hold the element and its flag.
Holds(w, t, e) ==
  /\ e.spot.word < e.spot.at /\ e.spot.at + Size(e) - 1 <= Len(w)
  /\ w[e.spot.word].kind = "flags" /\ w[e.spot.word].value[e.spot.bit] = Flag(e)
  /\ w[e.spot.at] = IF IsMatch(e) THEN [kind |-> "word", value |-> WordValue(e)]
                                  ELSE [kind |-> "literal", value |-> t[e.spot.from + 1]]

\* The bytes w are these elements, one behind the other, and nothing else.
Packed(w, t, els) ==
  /\ w \in Seq(Cells) /\ els \in Seq(Elements)
  /\ Len(w) + 1 = Cursor(Spot(els, Len(els)))
  /\ \A k \in 1..Len(els) : els[k].spot = Spot(els, k - 1) /\ Sound(t, els[k]) /\ Holds(w, t, els[k])

----------------------------------------------------------------------------
(* Chunks and their places in a buffer *)

Raw(t) == [i \in 1..Len(t) |-> [kind |-> "literal", value |-> t[i]]]

\* The chunk at c of the buffer w consists of these bytes.
Wraps(w, c, bytes, compressed) ==
  /\ c + 1 + Len(bytes) <= Len(w)
  /\ w[c] = [kind |-> "header", value |-> [compressed |-> compressed, size |-> Len(bytes) + 2]]
  /\ \A i \in 1..Len(bytes) : w[c + 1 + i] = bytes[i]

\* The bytes of a chunk stand for the text t.
StandFor(bytes, compressed, t) ==
  IF compressed THEN \E els : Packed(bytes, t, els) /\ Spot(els, Len(els)).from = Len(t)
                ELSE bytes = Raw(t)

\* Chunk k of the plaintext d.
Text(d, k) == SubSeq(d, (k - 1) * ChunkSize + 1, Lesser(k * ChunkSize, Len(d)))

\* Where chunk k begins, the end behind the last one.
Entry(w, places, k) == IF k <= Len(places) THEN places[k] ELSE Len(w) + 1

IsChunk(w, places, d, k) ==
  /\ (k - 1) * ChunkSize < Len(d)
  /\ \E bytes \in Seq(Cells), compressed \in BOOLEAN :
       /\ Wraps(w, places[k], bytes, compressed)
       /\ StandFor(bytes, compressed, Text(d, k))
       /\ Len(bytes) \in 1..ChunkSize
       /\ Entry(w, places, k + 1) = places[k] + 2 + Len(bytes)

\* The buffer w is chunks that stand for the beginning of d.
Chunked(w, places, d) ==
  /\ w \in Seq(Cells) /\ places \in Seq(Nat \ {0}) /\ d \in Seq(Nat)
  /\ Entry(w, places, 1) = 1
  /\ \A k \in 1..Len(places) : IsChunk(w, places, d, k)

----------------------------------------------------------------------------
(* The invariant *)

\* The next element goes behind the flags g of the group behind the bytes b,
\* and only earlier ones have these flags.
IsNext(s, b, g) == s.bit = Len(g) + 1 /\ s.word = Len(b) + 1
FlagsUsed(els, b, g) ==
  \A k \in 1..Len(els) : els[k].spot.word = Len(b) + 1 => els[k].spot.bit <= Len(g)

\* The bytes of the chunk being filled, were it to end here.
Pending == IF groupFlags = << >> THEN body ELSE body \o Byte("flags", PaddedFlags) \o groupItems

Open(els) ==
  /\ Packed(Pending, Chunk, els)
  /\ Spot(els, Len(els)).from = pos
  /\ IsNext(Spot(els, Len(els)), body, groupFlags)
  /\ FlagsUsed(els, body, groupFlags)

FillingTyped ==
  /\ body \in Seq(Cells) /\ groupItems \in Seq(Cells)
  /\ groupFlags \in Seq({0, 1}) /\ Len(groupFlags) < GroupSize
  /\ groupFlags = << >> => groupItems = << >>

Filling ==
  /\ Chunked(buffer, chunkAt, data)
  /\ start = Lesser(Len(chunkAt) * ChunkSize, n)
  /\ pos \in 0..Len(Chunk)
  /\ FillingTyped
  /\ \E els : Open(els)
  /\ lost = 0 /\ whole = TRUE /\ at = 1 /\ out = << >> /\ status = "working"

\* What is left of the plaintext.
Rest == SubSeq(data, lost + 1, n)

\* What became of the buffer w.
Kept(w) ==
  /\ buffer \in Seq(Cells)
  /\ \A i \in 1..Len(buffer) : i <= Len(w) => buffer[i] = w[i]
  /\ whole => \/ Len(buffer) = Len(w)
              \/ Len(buffer) = Len(w) + 3 /\ buffer[Len(w) + 1].kind = "terminal"
  /\ ~whole => Len(buffer) < Len(w)

\* decompress has met the first k chunks.
Reached(k) == Lesser(k * ChunkSize, Len(Rest))
Between(w, places, k) ==
  /\ pc = "header" /\ at = Entry(w, places, k + 1) /\ at <= Len(buffer) + 1
  /\ out = SubSeq(Rest, 1, Reached(k))

\* It is within chunk k + 1.
Within(w, places, k, bytes, compressed) ==
  /\ k < Len(places)
  /\ Wraps(w, places[k + 1], bytes, compressed)
  /\ StandFor(bytes, compressed, Text(Rest, k + 1))
  /\ Len(bytes) \in 1..ChunkSize
  /\ chunkEnd = places[k + 1] + 2 + Len(bytes)
  /\ chunkEnd = Entry(w, places, k + 2) /\ chunkEnd <= Len(buffer) + 1
  /\ chunkStart = Reached(k) /\ chunkStart = k * ChunkSize

InRaw(w, places, k, bytes) ==
  /\ pc = "raw" /\ Within(w, places, k, bytes, FALSE)
  /\ at = places[k + 1] + 2 /\ out = SubSeq(Rest, 1, Reached(k))

\* Within a compressed chunk it has met the first m elements.  Inside a group
\* it has the flags from the next element's on.
InGroup(base, bytes, els, m) ==
  LET s == Spot(els, m)
  IN \/ /\ pc = "group" /\ at = base + Cursor(s)
        /\ m < Len(els) => s.bit = 1
     \/ /\ pc = "element" /\ at = base + Cursor(s)
        /\ m < Len(els) => s.bit = 1 /\ flags = << >>
     \/ /\ pc = "element" /\ at = base + s.at /\ m < Len(els)
        /\ flags = SubSeq(bytes[s.word].value, s.bit, GroupSize)

InPacked(w, places, k, bytes, els, m) ==
  /\ Within(w, places, k, bytes, TRUE)
  /\ Packed(bytes, Text(Rest, k + 1), els) /\ Spot(els, Len(els)).from = Len(Text(Rest, k + 1))
  /\ m <= Len(els) /\ InGroup(places[k + 1] + 1, bytes, els, m)
  /\ out = SubSeq(Rest, 1, chunkStart + Spot(els, m).from)

Decoding(w, places) ==
  /\ Chunked(w, places, Rest) /\ Len(Rest) <= Len(places) * ChunkSize
  /\ Kept(w)
  /\ \E k \in 0..Len(places) :
       \/ Between(w, places, k)
       \/ \E bytes \in Seq(Cells) : InRaw(w, places, k, bytes)
       \/ \E bytes \in Seq(Cells), els \in Seq(Elements), m \in Nat : InPacked(w, places, k, bytes, els, m)

\* What the end of decompress says.
Ends ==
  /\ status \in {"working", "done", "corrupt"}
  /\ whole => status # "corrupt" /\ (status = "done" => out = Rest)
  /\ ~whole /\ status = "done" => Len(out) % ChunkSize = 0

InvTyped ==
  /\ data \in Plaintexts /\ start \in 0..n /\ pos \in 0..ChunkSize
  /\ lost \in 0..n /\ whole \in BOOLEAN
  /\ Len(groupFlags) < GroupSize /\ buffer \in Seq(Cells)
  /\ at \in Nat \ {0} /\ chunkEnd \in Nat /\ chunkStart \in Nat /\ flags \in Seq({0, 1})
  /\ pc \in {"compress", "header", "raw", "group", "element"}

IndInv ==
  /\ InvTyped /\ Ends
  /\ IF pc = "compress" THEN Filling ELSE \E w, places : Decoding(w, places)

----------------------------------------------------------------------------
(* Words *)

LEMMA Limits ==
  /\ GroupSize \in Nat \ {0} /\ MinMatch \in Nat \ {0} /\ ChunkSize \in Nat \ {0}
  /\ MinBits \in Nat /\ MaxBits \in Nat /\ MinBits <= MaxBits
<1>1. MaxBits \in MinBits..MaxBits /\ 2^MaxBits \in Nat
  <2>1. MaxBits \in MinBits..MaxBits
    BY Lznt1Assumption
  <2> QED BY <2>1, PowersAssumption
<1> QED BY <1>1, Lznt1Assumption

LEMMA DispBitsInRange ==
  ASSUME NEW p \in Nat
  PROVE  DispBits(p) \in MinBits..MaxBits
<1> DEFINE S == {b \in MinBits..MaxBits : b = MaxBits \/ 2^b >= p}
<1>1. S \in SUBSET Nat /\ MaxBits \in S
  BY Limits
<1> PICK b \in S : \A c \in S : b <= c
  <2> HIDE DEF S
  <2>1. S # {}
    BY <1>1
  <2> QED BY <1>1, <2>1, LeastNatural
<1>2. b \in MinBits..MaxBits /\ (b = MaxBits \/ 2^b >= p)
  OBVIOUS
<1>3. ASSUME NEW c \in MinBits..(b - 1) PROVE 2^c < p
  <2>1. c \in MinBits..MaxBits /\ c < b
    BY <1>2, <1>3, Limits
  <2>2. c \notin S
    BY <2>1, <1>2, Limits
  <2>3. ~(2^c >= p) /\ 2^c \in Nat
    BY <2>1, <2>2, PowersAssumption
  <2> QED BY <2>3
<1>4. \E x \in MinBits..MaxBits : (x = MaxBits \/ 2^x >= p) /\ \A c \in MinBits..(x - 1) : 2^c < p
  BY <1>2, <1>3
<1> QED BY <1>4 DEF DispBits

LEMMA Units ==
  ASSUME NEW p \in Nat
  PROVE  /\ LengthUnit(p) \in Nat \ {0} /\ 2^DispBits(p) \in Nat \ {0}
         /\ 2^DispBits(p) * LengthUnit(p) = 2^WordBits
BY DispBitsInRange, PowersAssumption DEF LengthUnit

(***************************************************************************)
(* A word in range is a number of WordBits bits, and its two parts come    *)
(* apart again where it was put together.                                  *)
(***************************************************************************)
LEMMA WordsComeApart ==
  ASSUME NEW p \in Nat, NEW dist \in Nat \ {0}, dist <= 2^DispBits(p),
         NEW x \in Nat, x < LengthUnit(p)
  PROVE  /\ (dist - 1) * LengthUnit(p) + x \in 0..(2^WordBits - 1)
         /\ ((dist - 1) * LengthUnit(p) + x) \div LengthUnit(p) = dist - 1
         /\ ((dist - 1) * LengthUnit(p) + x) % LengthUnit(p) = x
<1> PICK U \in Nat \ {0}, P \in Nat \ {0} : U = LengthUnit(p) /\ P = 2^DispBits(p) /\ P * U = 2^WordBits
  BY Units
<1> PICK q \in Nat : q = dist - 1
  OBVIOUS
<1>1. x \in 0..(U - 1) /\ q <= P - 1
  OBVIOUS
<1>2. U * q + x = q * U + x
  OBVIOUS
<1>3. (q * U + x) % U = x /\ (q * U + x) \div U = q
  <2>1. (U * q + x) % U = x /\ (U * q + x) \div U = q
    BY <1>1, ComesApart
  <2> QED BY <1>2, <2>1
<1>4. q * U + x \in 0..(P * U - 1)
  <2>1. ASSUME NEW a \in Nat, NEW b \in Nat, a <= b - 1, b \in Nat \ {0} PROVE a * U + U <= b * U
    <3> PICK e \in Nat : b = a + 1 + e
      <4>1. b - a - 1 \in Nat /\ b = a + 1 + (b - a - 1)
        BY <2>1
      <4> QED BY <4>1
    <3>1. (a + 1 + e) * U = a * U + U + e * U /\ e * U \in Nat /\ a * U \in Nat
      OBVIOUS
    <3> QED BY <3>1
  <2>2. q * U + U <= P * U /\ q * U \in Nat /\ P * U \in Nat
    BY <1>1, <2>1
  <2> QED BY <1>1, <2>2
<1> QED BY <1>3, <1>4

----------------------------------------------------------------------------
(* Elements *)

LEMMA ElementFacts ==
  ASSUME NEW e \in Elements
  PROVE  /\ e.spot \in Spots /\ e.len \in Nat /\ e.dist \in Nat
         /\ e.spot.word \in Nat \ {0} /\ e.spot.bit \in 1..GroupSize
         /\ e.spot.at \in Nat \ {0} /\ e.spot.from \in Nat
         /\ Flag(e) \in {0, 1} /\ Width(e) \in Nat \ {0} /\ Size(e) \in {1, 2}
BY DEF Elements, Spots, Flag, Width, Size, IsMatch

LEMMA AfterFacts ==
  ASSUME NEW e \in Elements, e.spot.word < e.spot.at
  PROVE  /\ After(e) \in Spots /\ After(e).word < After(e).at
         /\ After(e).bit = 1 => After(e).at = After(e).word + 1
         /\ After(e).from = e.spot.from + Width(e)
         /\ Cursor(After(e)) = e.spot.at + Size(e)
<1>1. /\ e.spot.word \in Nat \ {0} /\ e.spot.bit \in 1..GroupSize /\ e.spot.at \in Nat \ {0} /\ e.spot.from \in Nat
      /\ Width(e) \in Nat \ {0} /\ Size(e) \in {1, 2} /\ GroupSize \in Nat
  BY ElementFacts, Limits
<1> PICK end \in Nat \ {0}, from \in Nat : end = e.spot.at + Size(e) /\ from = e.spot.from + Width(e)
  BY <1>1
<1>2. CASE e.spot.bit = GroupSize
  <2>1. After(e) = [word |-> end, bit |-> 1, at |-> end + 1, from |-> from]
    BY <1>2 DEF After
  <2>2. 1 \in 1..GroupSize /\ end + 1 \in Nat \ {0} /\ end < end + 1
    BY <1>1
  <2> QED BY <2>1, <2>2 DEF Spots, Cursor
<1>3. CASE e.spot.bit # GroupSize
  <2>1. After(e) = [word |-> e.spot.word, bit |-> e.spot.bit + 1, at |-> end, from |-> from]
    BY <1>3 DEF After
  <2>2. e.spot.bit + 1 \in 1..GroupSize /\ e.spot.word < end /\ e.spot.bit + 1 # 1
    BY <1>1, <1>3
  <2> QED BY <1>1, <2>1, <2>2 DEF Spots, Cursor
<1> QED BY <1>2, <1>3

LEMMA SpotFacts ==
  ASSUME NEW w, NEW t, NEW els, Packed(w, t, els), NEW k \in 0..Len(els)
  PROVE  /\ Spot(els, k) \in Spots /\ Spot(els, k).word < Spot(els, k).at
         /\ Spot(els, k).word \in Nat \ {0} /\ Spot(els, k).bit \in 1..GroupSize
         /\ Spot(els, k).at \in Nat \ {0} /\ Spot(els, k).from \in Nat
         /\ Spot(els, k).bit = 1 => Spot(els, k).at = Spot(els, k).word + 1
         /\ Cursor(Spot(els, k)) \in Nat \ {0}
<1>1. /\ Spot(els, k) \in Spots /\ Spot(els, k).word < Spot(els, k).at
      /\ Spot(els, k).bit = 1 => Spot(els, k).at = Spot(els, k).word + 1
  <2>1. CASE k = 0
    <3>1. 1 \in 1..GroupSize
      BY Limits
    <3> QED BY <2>1, <3>1 DEF Spot, Start, Spots
  <2>2. CASE k # 0
    <3>1. k \in 1..Len(els)
      <4>1. Len(els) \in Nat
        BY DEF Packed
      <4> QED BY <2>2, <4>1
    <3>2. els[k] \in Elements
      BY <3>1 DEF Packed
    <3>3. Holds(w, t, els[k])
      BY <3>1 DEF Packed
    <3>4. els[k].spot.word < els[k].spot.at
      BY <3>3 DEF Holds
    <3> QED BY <2>2, <3>2, <3>4, AfterFacts DEF Spot
  <2> QED BY <2>1, <2>2
<1> QED BY <1>1 DEF Spots, Cursor

(***************************************************************************)
(* Where element k + 1 of the bytes stands, and where the next one begins. *)
(***************************************************************************)
LEMMA NextElement ==
  ASSUME NEW w, NEW t, NEW els, Packed(w, t, els), NEW k \in Nat, k < Len(els)
  PROVE  /\ k + 1 \in 1..Len(els) /\ els[k + 1] \in Elements /\ els[k + 1].spot = Spot(els, k)
         /\ Sound(t, els[k + 1]) /\ Holds(w, t, els[k + 1])
         /\ Spot(els, k + 1) = After(els[k + 1])
         /\ Spot(els, k + 1).from = Spot(els, k).from + Width(els[k + 1])
         /\ Cursor(Spot(els, k + 1)) = Spot(els, k).at + Size(els[k + 1])
         /\ Cursor(Spot(els, k + 1)) <= Len(w) + 1
<1>1. Len(els) \in Nat /\ els \in Seq(Elements) /\ w \in Seq(Cells)
  BY DEF Packed
<1>2. k + 1 \in 1..Len(els) /\ (k + 1) - 1 = k /\ k + 1 # 0
  BY <1>1
<1>3. els[k + 1] \in Elements
  BY <1>1, <1>2
<1>4. els[k + 1].spot = Spot(els, k) /\ Sound(t, els[k + 1]) /\ Holds(w, t, els[k + 1])
  BY <1>2 DEF Packed
<1>5. Spot(els, k + 1) = After(els[k + 1])
  BY <1>2 DEF Spot
<1>6. els[k + 1].spot.word < els[k + 1].spot.at /\ els[k + 1].spot.at + Size(els[k + 1]) - 1 <= Len(w)
  BY <1>4 DEF Holds
<1>7. /\ After(els[k + 1]).from = els[k + 1].spot.from + Width(els[k + 1])
      /\ Cursor(After(els[k + 1])) = els[k + 1].spot.at + Size(els[k + 1])
  BY <1>3, <1>6, AfterFacts
<1>8. Cursor(Spot(els, k + 1)) <= Len(w) + 1
  <2>1. els[k + 1].spot.at \in Nat /\ Size(els[k + 1]) \in {1, 2} /\ Len(w) \in Nat
    BY <1>1, <1>3, ElementFacts
  <2> QED BY <1>5, <1>6, <1>7, <2>1
<1> QED BY <1>2, <1>3, <1>4, <1>5, <1>7, <1>8

----------------------------------------------------------------------------
(* Filling a group *)

Padded(g) == [i \in 1..GroupSize |-> IF i <= Len(g) THEN g[i] ELSE 0]

\* The bytes w with one more element: w is closed groups b and, unless g is
\* empty, an open group; in v the open group has the flags f.
Extends(b, g, i, w, v, bytes, f) ==
  /\ w = IF g = << >> THEN b ELSE b \o Byte("flags", Padded(g)) \o i
  /\ v = b \o Byte("flags", Padded(f)) \o i \o bytes

LEMMA TwoParts ==
  ASSUME NEW S, NEW a \in Seq(S), NEW b \in Seq(S)
  PROVE  /\ a \o b \in Seq(S) /\ Len(a \o b) = Len(a) + Len(b)
         /\ Len(a) \in Nat /\ Len(b) \in Nat
         /\ \A j \in 1..Len(a) : (a \o b)[j] = a[j]
         /\ \A j \in 1..Len(b) : (a \o b)[Len(a) + j] = b[j]
BY ConcatProperties

Regrouped(a, b, c, d) == a \o b \o c \o d = a \o b \o (c \o d)

LEMMA LastTwoFirst ==
  ASSUME NEW S, NEW a \in Seq(S), NEW b \in Seq(S), NEW c \in Seq(S), NEW d \in Seq(S)
  PROVE  Regrouped(a, b, c, d)
<1>1. a \o b \in Seq(S)
  BY TwoParts
<1> QED BY <1>1, ConcatAssociative DEF Regrouped

LEMMA PaddedFacts ==
  ASSUME NEW g \in Seq({0, 1}), Len(g) < GroupSize, NEW bit \in {0, 1}
  PROVE  /\ Padded(Append(g, bit)) \in [1..GroupSize -> {0, 1}]
         /\ \A j \in 1..Len(g) : Padded(Append(g, bit))[j] = Padded(g)[j]
         /\ Padded(Append(g, bit))[Len(g) + 1] = bit
         /\ Len(g) + 1 = GroupSize => Padded(Append(g, bit)) = Append(g, bit)
<1> DEFINE f == Append(g, bit)
<1>1. f \in Seq({0, 1}) /\ Len(f) = Len(g) + 1 /\ Len(g) \in Nat /\ GroupSize \in Nat
  BY Limits
<1>2. (\A j \in 1..Len(g) : f[j] = g[j]) /\ f[Len(g) + 1] = bit
  OBVIOUS
<1>3. \A j \in 1..Len(f) : f[j] \in {0, 1}
  BY <1>1
<1> HIDE DEF f
<1>4. Padded(f) = [i \in 1..GroupSize |-> IF i <= Len(g) + 1 THEN f[i] ELSE 0]
  BY <1>1 DEF Padded
<1>5. Padded(f) \in [1..GroupSize -> {0, 1}]
  BY <1>1, <1>3, <1>4
<1>6. \A j \in 1..Len(g) : Padded(f)[j] = Padded(g)[j]
  BY <1>1, <1>2, <1>4 DEF Padded
<1>7. Padded(f)[Len(g) + 1] = bit
  BY <1>1, <1>2, <1>4
<1>8. ASSUME Len(g) + 1 = GroupSize PROVE Padded(f) = f
  <2>1. f = [i \in 1..GroupSize |-> f[i]]
    BY <1>1, <1>8
  <2>2. Padded(f) = [i \in 1..GroupSize |-> f[i]]
    BY <1>1, <1>4, <1>8
  <2> QED BY <2>1, <2>2
<1> QED BY <1>5, <1>6, <1>7, <1>8 DEF f

LEMMA FlagsAreCells ==
  ASSUME NEW f \in [1..GroupSize -> {0, 1}]
  PROVE  Byte("flags", f) \in Seq(Cells) /\ Len(Byte("flags", f)) = 1 /\ Byte("flags", f)[1] = [kind |-> "flags", value |-> f]
<1>1. [kind |-> "flags", value |-> f] \in Cells
  BY DEF Cells
<1> QED BY <1>1 DEF Byte

LEMMA ThreeParts ==
  ASSUME NEW S, NEW a \in Seq(S), NEW b \in Seq(S), NEW c \in Seq(S)
  PROVE  /\ a \o b \o c \in Seq(S) /\ Len(a \o b \o c) = Len(a) + Len(b) + Len(c)
         /\ \A j \in 1..Len(a) : (a \o b \o c)[j] = a[j]
         /\ \A j \in 1..Len(b) : (a \o b \o c)[Len(a) + j] = b[j]
         /\ \A j \in 1..Len(c) : (a \o b \o c)[Len(a) + Len(b) + j] = c[j]
<1> DEFINE u == a \o b
           v == u \o c
<1>1. /\ u \in Seq(S) /\ Len(u) = Len(a) + Len(b) /\ Len(a) \in Nat /\ Len(b) \in Nat
      /\ \A j \in 1..Len(a) : u[j] = a[j]
      /\ \A j \in 1..Len(b) : u[Len(a) + j] = b[j]
  BY TwoParts
<1> HIDE DEF u
<1>2. u \in Seq(S)
  BY <1>1
<1>3. /\ v \in Seq(S) /\ Len(v) = Len(u) + Len(c) /\ Len(c) \in Nat
      /\ \A j \in 1..Len(u) : v[j] = u[j]
      /\ \A j \in 1..Len(c) : v[Len(u) + j] = c[j]
  BY <1>2, TwoParts
<1> HIDE DEF v
<1>4. \A j \in 1..Len(a) : v[j] = a[j]
  BY <1>1, <1>3
<1>5. \A j \in 1..Len(b) : v[Len(a) + j] = b[j]
  BY <1>1, <1>3
<1>6. \A j \in 1..Len(c) : v[Len(a) + Len(b) + j] = c[j]
  BY <1>1, <1>3
<1> QED BY <1>1, <1>3, <1>4, <1>5, <1>6 DEF u, v

\* What the two have in common.
LEMMA ExtendsFacts ==
  ASSUME NEW b \in Seq(Cells), NEW g \in Seq({0, 1}), Len(g) < GroupSize, NEW i \in Seq(Cells),
         g = << >> => i = << >>,
         NEW bytes \in Seq(Cells), NEW w, NEW v, NEW f, Padded(f) \in [1..GroupSize -> {0, 1}],
         Extends(b, g, i, w, v, bytes, f)
  PROVE  /\ v \in Seq(Cells) /\ Len(v) = Len(b) + 1 + Len(i) + Len(bytes)
         /\ w \in Seq(Cells) => Len(w) = IF g = << >> THEN Len(b) ELSE Len(b) + 1 + Len(i)
         /\ \A j \in 1..(Len(b) + 1 + Len(i)) : j # Len(b) + 1 => v[j] = w[j]
         /\ v[Len(b) + 1] = [kind |-> "flags", value |-> Padded(f)]
         /\ g # << >> => w[Len(b) + 1] = [kind |-> "flags", value |-> Padded(g)]
         /\ \A j \in 1..Len(bytes) : v[Len(b) + 1 + Len(i) + j] = bytes[j]
<1> PICK F : F = Byte("flags", Padded(f))
  OBVIOUS
<1> PICK G : G = Byte("flags", Padded(g))
  OBVIOUS
<1>1. F \in Seq(Cells) /\ Len(F) = 1 /\ F[1] = [kind |-> "flags", value |-> Padded(f)]
  BY FlagsAreCells
<1>2. G \in Seq(Cells) /\ Len(G) = 1 /\ G[1] = [kind |-> "flags", value |-> Padded(g)]
  <2>1. Padded(g) \in [1..GroupSize -> {0, 1}]
    BY Limits DEF Padded
  <2> QED BY <2>1, FlagsAreCells
<1>3. v = b \o F \o i \o bytes /\ w = IF g = << >> THEN b ELSE b \o G \o i
  BY DEF Extends
<1>4. Len(b) \in Nat /\ Len(i) \in Nat /\ Len(bytes) \in Nat
  OBVIOUS
<1>5. ASSUME NEW H \in Seq(Cells), NEW x, Len(H) = 1, H[1] = x
      PROVE  /\ b \o H \o i \in Seq(Cells) /\ Len(b \o H \o i) = Len(b) + 1 + Len(i)
             /\ \A j \in 1..Len(b) : (b \o H \o i)[j] = b[j]
             /\ (b \o H \o i)[Len(b) + 1] = x
             /\ \A j \in 1..Len(i) : (b \o H \o i)[Len(b) + 1 + j] = i[j]
  <2> PICK y : y = b \o H \o i
    OBVIOUS
  <2>1. /\ y \in Seq(Cells) /\ Len(y) = Len(b) + Len(H) + Len(i)
        /\ \A j \in 1..Len(b) : y[j] = b[j]
        /\ \A j \in 1..Len(H) : y[Len(b) + j] = H[j]
        /\ \A j \in 1..Len(i) : y[Len(b) + Len(H) + j] = i[j]
    BY ThreeParts
  <2> QED BY <1>4, <1>5, <2>1
<1>6. /\ b \o F \o i \in Seq(Cells) /\ Len(b \o F \o i) = Len(b) + 1 + Len(i)
      /\ \A j \in 1..Len(b) : (b \o F \o i)[j] = b[j]
      /\ (b \o F \o i)[Len(b) + 1] = F[1]
      /\ \A j \in 1..Len(i) : (b \o F \o i)[Len(b) + 1 + j] = i[j]
  BY <1>1, <1>5
<1>9. /\ b \o G \o i \in Seq(Cells) /\ Len(b \o G \o i) = Len(b) + 1 + Len(i)
      /\ \A j \in 1..Len(b) : (b \o G \o i)[j] = b[j]
      /\ (b \o G \o i)[Len(b) + 1] = G[1]
      /\ \A j \in 1..Len(i) : (b \o G \o i)[Len(b) + 1 + j] = i[j]
  BY <1>2, <1>5
<1> PICK u \in Seq(Cells) :
       /\ u = b \o F \o i /\ Len(u) = Len(b) + 1 + Len(i)
       /\ \A j \in 1..Len(b) : u[j] = b[j]
       /\ u[Len(b) + 1] = F[1]
       /\ \A j \in 1..Len(i) : u[Len(b) + 1 + j] = i[j]
  BY <1>6
<1> PICK x \in Seq(Cells) :
       /\ x = b \o G \o i /\ Len(x) = Len(b) + 1 + Len(i)
       /\ \A j \in 1..Len(b) : x[j] = b[j]
       /\ x[Len(b) + 1] = G[1]
       /\ \A j \in 1..Len(i) : x[Len(b) + 1 + j] = i[j]
  BY <1>9
<1>12. v = u \o bytes
  BY <1>3
<1>13. v \in Seq(Cells) /\ Len(v) = Len(b) + 1 + Len(i) + Len(bytes)
  <2>1. u \o bytes \in Seq(Cells) /\ Len(u \o bytes) = Len(u) + Len(bytes)
    BY TwoParts
  <2> QED BY <1>12, <2>1
<1>14. \A j \in 1..Len(u) : v[j] = u[j]
  BY <1>3, TwoParts
<1>15. \A j \in 1..Len(bytes) : v[Len(u) + j] = bytes[j]
  BY <1>3, TwoParts
<1>16. ASSUME NEW j \in 1..(Len(b) + 1 + Len(i)), j # Len(b) + 1 PROVE v[j] = w[j]
  <2>1. v[j] = u[j]
    BY <1>14
  <2>2. CASE j <= Len(b)
    <3>1. j \in 1..Len(b)
      BY <1>4, <2>2
    <3> QED BY <1>3, <2>1, <3>1
  <2>3. CASE j > Len(b)
    <3> PICK r \in 1..Len(i) : j = Len(b) + 1 + r
      <4>1. j - Len(b) - 1 \in 1..Len(i) /\ j = Len(b) + 1 + (j - Len(b) - 1)
        BY <1>4, <1>16, <2>3
      <4> QED BY <4>1
    <3>1. g # << >>
      BY <1>4
    <3> QED BY <1>3, <2>1, <3>1
  <2> QED BY <1>4, <2>2, <2>3
<1>17. v[Len(b) + 1] = F[1]
  <2>1. Len(b) + 1 \in 1..Len(u)
    BY <1>4
  <2> QED BY <1>14, <2>1
<1> QED BY <1>1, <1>2, <1>3, <1>13, <1>15, <1>16, <1>17

\* The bytes of an element.
BytesOf(t, e) ==
  IF IsMatch(e) THEN TwoBytes("word", WordValue(e)) ELSE Byte("literal", t[e.spot.from + 1])

LEMMA ElementBytes ==
  ASSUME NEW t \in Seq(Nat), NEW e \in Elements, Sound(t, e)
  PROVE  /\ BytesOf(t, e) \in Seq(Cells) /\ Len(BytesOf(t, e)) = Size(e)
         /\ BytesOf(t, e)[1] = IF IsMatch(e) THEN [kind |-> "word", value |-> WordValue(e)]
                                             ELSE [kind |-> "literal", value |-> t[e.spot.from + 1]]
<1>0. e.spot.from \in Nat /\ e.len \in Nat /\ e.dist \in Nat /\ MinMatch \in Nat /\ Width(e) \in Nat \ {0} /\ Len(t) \in Nat
  BY ElementFacts, Limits
<1>1. CASE IsMatch(e)
  <2>1. /\ e.len >= MinMatch /\ e.len - MinMatch < LengthUnit(e.spot.from)
        /\ e.dist \in 1..e.spot.from /\ e.dist <= 2^DispBits(e.spot.from)
    BY <1>1 DEF Sound
  <2> PICK x \in Nat : x = e.len - MinMatch
    BY <1>0, <2>1
  <2>2. x < LengthUnit(e.spot.from) /\ e.dist \in Nat \ {0}
    BY <1>0, <2>1
  <2>3. (e.dist - 1) * LengthUnit(e.spot.from) + x \in 0..(2^WordBits - 1)
    BY <1>0, <2>1, <2>2, WordsComeApart
  <2>4. WordValue(e) = (e.dist - 1) * LengthUnit(e.spot.from) + x
    <3> PICK U \in Nat : U = LengthUnit(e.spot.from)
      BY <1>0, Units
    <3> PICK y \in Int : y = (e.dist - 1) * U
      <4>1. \A p, q \in Int : p * q \in Int
        OBVIOUS
      <4>2. e.dist - 1 \in Int
        BY <1>0
      <4> QED BY <4>1, <4>2
    <3>1. y + e.len - MinMatch = y + x
      BY <1>0
    <3> QED BY <3>1 DEF WordValue
  <2>5. [kind |-> "word", value |-> WordValue(e)] \in Cells /\ [kind |-> "second", value |-> 0] \in Cells
    BY <2>3, <2>4 DEF Cells
  <2> QED BY <1>1, <2>5 DEF BytesOf, TwoBytes, Size
<1>2. CASE ~IsMatch(e)
  <2>1. e.spot.from + 1 \in 1..Len(t)
    BY <1>0, <1>2 DEF Sound, Width
  <2>2. t[e.spot.from + 1] \in Nat
    BY <2>1
  <2>3. [kind |-> "literal", value |-> t[e.spot.from + 1]] \in Cells
    BY <2>2 DEF Cells
  <2> QED BY <1>2, <2>3 DEF BytesOf, Byte, Size
<1> QED BY <1>1, <1>2

\* r is s with x at its end.
Behind(r, s, x) == r = Append(s, x)

LEMMA Appended ==
  ASSUME NEW S, NEW a \in Seq(S), NEW c \in S
  PROVE  /\ Append(a, c) \in Seq(S) /\ Len(Append(a, c)) = Len(a) + 1 /\ Len(a) \in Nat
         /\ Append(a, c)[Len(a) + 1] = c
         /\ \A i \in 1..Len(a) : Append(a, c)[i] = a[i]
OBVIOUS

\* The bytes w hold the elements els, new has e as well; v is w with it.
Addition(b, g, i, w, v, t, els, e, f, new) ==
  /\ b \in Seq(Cells) /\ g \in Seq({0, 1}) /\ Len(g) < GroupSize /\ i \in Seq(Cells)
  /\ g = << >> => i = << >>
  /\ t \in Seq(Nat) /\ Packed(w, t, els) /\ FlagsUsed(els, b, g)
  /\ e \in Elements /\ e.spot = Spot(els, Len(els)) /\ Sound(t, e) /\ IsNext(e.spot, b, g)
  /\ Behind(f, g, Flag(e)) /\ Behind(new, els, e)
  /\ Extends(b, g, i, w, v, BytesOf(t, e), f)

(***************************************************************************)
(* An element put behind those that are there leaves them what they are:   *)
(* only its own bit of the group's flags changes, which no other has.      *)
(***************************************************************************)
LEMMA OneElementMore ==
  ASSUME NEW b, NEW g, NEW i, NEW w, NEW v, NEW t, NEW els, NEW e, NEW f, NEW new,
         Addition(b, g, i, w, v, t, els, e, f, new)
  PROVE  /\ Packed(v, t, new) /\ Spot(new, Len(new)) = After(e)
         /\ FlagsUsed(new, b, f)
         /\ \A k \in 1..Len(new) : new[k].spot.word < Len(v) + 1
<1> USE DEF Addition
<1> DEFINE bytes == BytesOf(t, e)
<1>1. bytes \in Seq(Cells) /\ Len(bytes) = Size(e) /\ Flag(e) \in {0, 1} /\ Size(e) \in {1, 2}
  BY ElementBytes, ElementFacts
<1>2. w \in Seq(Cells) /\ els \in Seq(Elements) /\ Len(w) + 1 = Cursor(e.spot)
  BY DEF Packed
<1> HIDE DEF bytes
<1>3. /\ v \in Seq(Cells) /\ Len(v) = Len(b) + 1 + Len(i) + Len(bytes)
      /\ Len(w) = IF g = << >> THEN Len(b) ELSE Len(b) + 1 + Len(i)
      /\ \A j \in 1..(Len(b) + 1 + Len(i)) : j # Len(b) + 1 => v[j] = w[j]
      /\ v[Len(b) + 1] = [kind |-> "flags", value |-> Padded(f)]
      /\ g # << >> => w[Len(b) + 1] = [kind |-> "flags", value |-> Padded(g)]
      /\ \A j \in 1..Len(bytes) : v[Len(b) + 1 + Len(i) + j] = bytes[j]
  <2>1. Extends(b, g, i, w, v, bytes, f)
    BY DEF bytes
  <2>2. bytes \in Seq(Cells) /\ w \in Seq(Cells) /\ Padded(f) \in [1..GroupSize -> {0, 1}]
    BY <1>1, <1>2, PaddedFacts DEF Behind
  <2> QED BY <2>1, <2>2, ExtendsFacts
<1> PICK B \in Nat, G \in Nat, I \in Nat, W \in Nat, L \in Nat :
      B = Len(b) /\ G = Len(g) /\ I = Len(i) /\ W = Len(w) /\ L = Len(els)
  BY <1>2
<1>a. /\ v \in Seq(Cells) /\ Len(v) = B + 1 + I + Size(e)
      /\ W = IF g = << >> THEN B ELSE B + 1 + I
      /\ \A j \in 1..(B + 1 + I) : j # B + 1 => v[j] = w[j]
      /\ v[B + 1] = [kind |-> "flags", value |-> Padded(f)]
      /\ g # << >> => w[B + 1] = [kind |-> "flags", value |-> Padded(g)]
      /\ \A j \in 1..Size(e) : v[B + 1 + I + j] = bytes[j]
  BY <1>1, <1>3
<1>4. (\A j \in 1..G : Padded(f)[j] = Padded(g)[j]) /\ Padded(f)[G + 1] = Flag(e)
  BY <1>1, PaddedFacts DEF Behind
<1>b. e.spot.word = B + 1 /\ e.spot.bit = G + 1
  BY DEF IsNext
<1>5. e.spot.word = B + 1 /\ e.spot.bit = G + 1 /\ e.spot.at = B + 1 + I + 1
  <2>1. /\ e.spot.word < e.spot.at /\ e.spot.at \in Nat
        /\ e.spot.bit = 1 => e.spot.at = e.spot.word + 1
    <3>1. Len(els) \in 0..Len(els)
      OBVIOUS
    <3> QED BY <3>1, SpotFacts
  <2>2. CASE g = << >>
    <3>1. G = 0 /\ I = 0
      BY <2>2
    <3> QED BY <1>b, <2>1, <3>1
  <2>3. CASE g # << >>
    <3>1. G # 0
      BY <2>3
    <3>2. W + 1 = e.spot.at
      BY <1>2, <1>b, <3>1 DEF Cursor
    <3> QED BY <1>a, <1>b, <2>3, <3>2
  <2> QED BY <2>2, <2>3
<1>6. Holds(v, t, e)
  <2>1. e.spot.at + Size(e) - 1 <= Len(v) /\ e.spot.word < e.spot.at
    BY <1>1, <1>a, <1>5
  <2>2. v[e.spot.word].kind = "flags" /\ v[e.spot.word].value[e.spot.bit] = Flag(e)
    BY <1>a, <1>4, <1>5
  <2>3. v[e.spot.at] = bytes[1]
    <3>1. 1 \in 1..Size(e)
      BY <1>1
    <3>2. v[B + 1 + I + 1] = bytes[1]
      BY <1>a, <3>1
    <3> QED BY <1>5, <3>2
  <2>4. v[e.spot.at] = IF IsMatch(e) THEN [kind |-> "word", value |-> WordValue(e)]
                                     ELSE [kind |-> "literal", value |-> t[e.spot.from + 1]]
    BY <2>3, ElementBytes DEF bytes
  <2> QED BY <2>1, <2>2, <2>4 DEF Holds
<1>7. ASSUME NEW k \in 1..L PROVE Holds(v, t, els[k])
  <2> PICK d \in Elements : d = els[k]
    BY <1>2
  <2>1. Holds(w, t, d) /\ (d.spot.word = B + 1 => d.spot.bit <= G)
    BY DEF Packed, FlagsUsed
  <2>2. /\ d.spot.word < d.spot.at /\ d.spot.at + Size(d) - 1 <= W
        /\ w[d.spot.word].kind = "flags" /\ w[d.spot.word].value[d.spot.bit] = Flag(d)
        /\ w[d.spot.at] = IF IsMatch(d) THEN [kind |-> "word", value |-> WordValue(d)]
                                        ELSE [kind |-> "literal", value |-> t[d.spot.from + 1]]
    BY <2>1 DEF Holds
  <2>3. d.spot.word \in Nat \ {0} /\ d.spot.at \in Nat \ {0} /\ Size(d) \in {1, 2} /\ d.spot.bit \in 1..GroupSize
    BY ElementFacts
  <2>4. W <= B + 1 + I
    BY <1>a
  <2>5. d.spot.word \in 1..(B + 1 + I) /\ d.spot.at \in 1..(B + 1 + I) /\ d.spot.at + Size(d) - 1 <= Len(v)
        /\ d.spot.word <= W /\ d.spot.at <= W
    <3>1. \A x, y \in Nat, c \in {1, 2} : x < y /\ y + c - 1 <= W => x <= W /\ y <= W
      OBVIOUS
    <3>2. d.spot.word <= W /\ d.spot.at <= W
      BY <2>2, <2>3, <3>1
    <3>3. \A x \in Nat \ {0} : x <= W => x \in 1..(B + 1 + I)
      BY <2>4
    <3>4. Len(v) \in Nat /\ W <= Len(v)
      <4>1. \A c \in {1, 2} : B + 1 + I + c \in Nat /\ W <= B + 1 + I + c
        BY <2>4
      <4> QED BY <1>1, <1>a, <4>1
    <3>5. \A y, z \in Nat, c \in {1, 2} : y + c - 1 <= W /\ W <= z => y + c - 1 <= z
      OBVIOUS
    <3> QED BY <2>2, <2>3, <3>2, <3>3, <3>4, <3>5
  <2>6. v[d.spot.at] = w[d.spot.at]
    <3>1. CASE d.spot.at = B + 1
      <4>1. g # << >>
        BY <1>a, <2>5, <3>1
      <4>2. w[d.spot.at].kind = "flags"
        BY <1>a, <3>1, <4>1
      <4>3. w[d.spot.at].kind # "flags"
        BY <2>2
      <4> QED BY <4>2, <4>3
    <3> QED BY <1>a, <2>5, <3>1
  <2>7. v[d.spot.word].kind = "flags" /\ v[d.spot.word].value[d.spot.bit] = Flag(d)
    <3>1. CASE d.spot.word = B + 1
      <4>1. g # << >>
        BY <1>a, <2>5, <3>1
      <4>2. d.spot.bit \in 1..G
        BY <2>1, <2>3, <3>1
      <4>3. v[d.spot.word] = [kind |-> "flags", value |-> Padded(f)]
        BY <1>a, <3>1
      <4>4. w[d.spot.word] = [kind |-> "flags", value |-> Padded(g)]
        BY <1>a, <3>1, <4>1
      <4>5. Padded(f)[d.spot.bit] = Padded(g)[d.spot.bit]
        BY <1>4, <4>2
      <4> QED BY <2>2, <4>3, <4>4, <4>5
    <3>2. CASE d.spot.word # B + 1
      BY <1>a, <2>2, <2>5, <3>2
    <3> QED BY <3>1, <3>2
  <2> QED BY <2>2, <2>5, <2>6, <2>7 DEF Holds
<1>c. \A k \in 1..(L + 1) : k # L + 1 => k \in 1..L /\ k - 1 \in 0..L
  OBVIOUS
<1>d. new \in Seq(Elements) /\ Len(new) = L + 1 /\ new[L + 1] = e /\ \A k \in 1..L : new[k] = els[k]
  <2>1. els \in Seq(Elements)
    BY <1>2
  <2>2. /\ Append(els, e) \in Seq(Elements) /\ Len(Append(els, e)) = Len(els) + 1
        /\ Append(els, e)[Len(els) + 1] = e
        /\ \A k \in 1..Len(els) : Append(els, e)[k] = els[k]
    BY <2>1, Appended
  <2> QED BY <2>2 DEF Behind
<1>8. Spot(new, L + 1) = After(e) /\ \A k \in 0..L : Spot(new, k) = Spot(els, k)
  BY <1>d DEF Spot
<1>9. Len(v) + 1 = Cursor(Spot(new, Len(new)))
  <2>1. Cursor(After(e)) = e.spot.at + Size(e)
    BY <1>6, AfterFacts DEF Holds
  <2> QED BY <1>1, <1>a, <1>d, <1>5, <1>8, <2>1
<1>10. ASSUME NEW k \in 1..(L + 1)
       PROVE  /\ new[k].spot = Spot(new, k - 1) /\ Sound(t, new[k]) /\ Holds(v, t, new[k])
              /\ new[k].spot.word = B + 1 => new[k].spot.bit <= G + 1
              /\ new[k].spot.word < Len(v) + 1
  <2>1. CASE k = L + 1
    <3>1. new[k] = e /\ k - 1 = L /\ Spot(new, k - 1) = e.spot
      BY <1>8, <1>d, <2>1
    <3>2. e.spot.word < Len(v) + 1
      BY <1>1, <1>a, <1>5
    <3> QED BY <1>5, <1>6, <3>1, <3>2
  <2>2. CASE k # L + 1
    <3>0. k \in 1..L /\ k - 1 \in 0..L
      BY <1>c, <2>2
    <3> PICK d \in Elements : d = els[k]
      BY <1>2, <3>0
    <3>1. k \in 1..L /\ k - 1 \in 0..L /\ new[k] = d
      BY <1>d, <3>0
    <3>2. d.spot = Spot(els, k - 1) /\ Sound(t, d) /\ (d.spot.word = B + 1 => d.spot.bit <= G)
      BY <3>1 DEF Packed, FlagsUsed
    <3>3. Holds(v, t, d)
      BY <1>7, <3>1
    <3>4. d.spot.word < Len(v) + 1 /\ (d.spot.word = B + 1 => d.spot.bit <= G + 1)
      <4>1. d.spot.word < d.spot.at /\ d.spot.at + Size(d) - 1 <= Len(v)
        BY <3>3 DEF Holds
      <4>2. d.spot.word \in Nat \ {0} /\ d.spot.at \in Nat \ {0} /\ Size(d) \in {1, 2} /\ d.spot.bit \in 1..GroupSize
        BY ElementFacts
      <4>3. Len(v) \in Nat
        BY <1>a
      <4>4. \A x, y, z \in Nat, c \in {1, 2} : x < y /\ y + c - 1 <= z => x < z + 1
        OBVIOUS
      <4>5. \A x \in 1..GroupSize : x <= G => x <= G + 1
        BY Limits
      <4> QED BY <3>2, <4>1, <4>2, <4>3, <4>4, <4>5
    <3> QED BY <1>8, <3>1, <3>2, <3>3, <3>4
  <2> QED BY <2>1, <2>2
<1>11. Packed(v, t, new)
  BY <1>a, <1>9, <1>10, <1>d DEF Packed
<1>12. FlagsUsed(new, b, f) /\ \A k \in 1..Len(new) : new[k].spot.word < Len(v) + 1
  <2>1. Len(f) = G + 1
    BY Appended, <1>1 DEF Behind
  <2> QED BY <1>10, <1>d, <2>1 DEF FlagsUsed
<1> QED BY <1>8, <1>d, <1>11, <1>12

----------------------------------------------------------------------------
(* Matches *)

LEMMA FoundMatch ==
  ASSUME Chunk \in Seq(Nat), pos \in 0..Len(Chunk), FindMatch # NoMatch
  PROVE  /\ FindMatch.len \in Nat /\ FindMatch.len >= MinMatch /\ pos + FindMatch.len <= Len(Chunk)
         /\ FindMatch.len - MinMatch < LengthUnit(pos)
         /\ FindMatch.dist \in 1..pos /\ FindMatch.dist <= 2^DispBits(pos)
         /\ RepeatsAfter(Chunk, pos, FindMatch.dist, FindMatch.len)
<1> DEFINE near == {q \in SamePrefix(Chunk, pos, MinMatch) : pos - q <= 2^DispBits(pos)}
           cand == Newest(near, MaxCandidates)
           most == LengthCap
           b == LastLongest(Chunk, pos, cand, most)
           len == FirstDifference(Chunk, b, pos, most)
<1> PICK N \in Nat : N = Len(Chunk)
  OBVIOUS
<1> PICK U \in Nat \ {0} : U = LengthUnit(pos)
  BY Units
<1>1. pos \in Nat /\ pos <= N
  OBVIOUS
<1>2. FindMatch = Longest(Chunk, pos, cand, most)
  BY DEF FindMatch
<1>3. cand # {}
  BY <1>2 DEF Longest, NoMatch
<1>4. FindMatch = [len |-> len, dist |-> pos - b]
  BY <1>2, <1>3 DEF Longest, LastLongest, MatchLength, FirstDifference
<1>5. \A q \in cand : q \in SamePrefix(Chunk, pos, MinMatch) /\ pos - q <= 2^DispBits(pos)
  BY DEF Newest
<1>6. pos + MinMatch <= N
  <2>1. SamePrefix(Chunk, pos, MinMatch) # {}
    BY <1>3, <1>5
  <2>2. ~(pos + MinMatch > N)
    BY <2>1 DEF SamePrefix
  <2> QED BY <1>1, <2>2, Limits
<1>7. ASSUME NEW q \in cand
      PROVE  q \in 0..(pos - 1) /\ Agree(Chunk, q, pos, MinMatch)
  <2>1. q \in SamePrefix(Chunk, pos, MinMatch)
    BY <1>5
  <2> QED BY <2>1 DEF SamePrefix, Agree
<1>8. most \in Nat /\ MinMatch \in 0..most /\ pos + most <= N /\ most < U + MinMatch
  <2>1. most = Lesser(N - pos, U - 1 + MinMatch)
    BY DEF LengthCap
  <2> HIDE DEF most
  <2>2. N - pos \in Nat /\ U - 1 + MinMatch \in Nat /\ MinMatch <= N - pos /\ MinMatch <= U - 1 + MinMatch
    BY <1>1, <1>6, Limits
  <2> QED BY <1>1, <2>1, <2>2, Limits, SMTT(40) DEF Lesser
<1> HIDE DEF cand, most
<1>9. b \in cand /\ len \in MinMatch..most /\ RepeatsAfter(Chunk, pos, pos - b, len)
  <2>1. cand \in SUBSET (0..(pos - 1)) /\ \A q \in cand : Agree(Chunk, q, pos, MinMatch)
    BY <1>7
  <2> QED BY <1>1, <1>3, <1>8, <2>1, LastLongestRepeats
<1>10. b \in 0..(pos - 1) /\ pos - b <= 2^DispBits(pos)
  BY <1>5, <1>7, <1>9
<1> HIDE DEF b, len
<1>11. FindMatch.len = len /\ FindMatch.dist = pos - b
  BY <1>4 DEF b, len
<1>12. \A x \in MinMatch..most : x \in Nat /\ x >= MinMatch /\ pos + x <= N /\ x - MinMatch < U
  BY <1>1, <1>8, Limits
<1>13. \A x \in 0..(pos - 1) : pos - x \in 1..pos
  BY <1>1
<1>14. len \in Nat /\ len >= MinMatch /\ pos + len <= N /\ len - MinMatch < U
  BY <1>9, <1>12
<1> QED BY <1>9, <1>10, <1>11, <1>13, <1>14

----------------------------------------------------------------------------
(* Filling a chunk *)

LEMMA Stretch ==
  ASSUME NEW S, NEW d \in Seq(S), NEW a \in Nat, NEW b \in Nat, a <= b, b <= Len(d)
  PROVE  /\ SubSeq(d, a + 1, b) \in Seq(S) /\ Len(SubSeq(d, a + 1, b)) = b - a
         /\ \A i \in 1..(b - a) : SubSeq(d, a + 1, b)[i] = d[a + i] /\ d[a + i] \in S
<1>1. \A i \in (a + 1)..b : d[i] \in S
  OBVIOUS
<1>2. /\ SubSeq(d, a + 1, b) \in Seq(S)
      /\ Len(SubSeq(d, a + 1, b)) = IF a + 1 <= b THEN b - (a + 1) + 1 ELSE 0
      /\ \A i \in 1..(b - (a + 1) + 1) : SubSeq(d, a + 1, b)[i] = d[a + 1 + i - 1]
  BY <1>1, SubSeqProperties
<1>3. b - (a + 1) + 1 = b - a /\ (~(a + 1 <= b) => b - a = 0)
  OBVIOUS
<1>4. \A i \in 1..(b - a) : a + 1 + i - 1 = a + i /\ a + i \in (a + 1)..b
  OBVIOUS
<1> QED BY <1>1, <1>2, <1>3, <1>4

LEMMA Plain ==
  ASSUME data \in Plaintexts
  PROVE  data \in Seq(Nat) /\ n \in Nat
BY Lznt1Assumption DEF n

LEMMA ChunkFacts ==
  ASSUME data \in Plaintexts, start \in 0..n
  PROVE  /\ Chunk \in Seq(Nat) /\ Len(Chunk) = Lesser(start + ChunkSize, n) - start
         /\ Len(Chunk) \in 0..ChunkSize /\ (start < n => Len(Chunk) # 0)
<1>1. data \in Seq(Nat) /\ n \in Nat /\ n = Len(data) /\ ChunkSize \in Nat \ {0}
  BY Plain, Limits DEF n
<1> PICK e \in Nat : e = Lesser(start + ChunkSize, n) /\ start <= e /\ e <= n /\ e <= start + ChunkSize /\ (start < n => start < e)
  BY <1>1 DEF Lesser
<1> PICK s \in Nat : s = start /\ s <= e
  BY <1>1
<1>2. SubSeq(data, s + 1, e) \in Seq(Nat) /\ Len(SubSeq(data, s + 1, e)) = e - s
  BY <1>1, Stretch
<1>3. Chunk = SubSeq(data, s + 1, e)
  BY DEF Chunk
<1>4. e - s \in 0..ChunkSize /\ (s < n => e - s # 0)
  BY <1>1
<1>5. Lesser(start + ChunkSize, n) - start = e - s
  OBVIOUS
<1> QED BY <1>2, <1>3, <1>4, <1>5

LEMMA AddingKeepsOpen ==
  ASSUME FillingTyped, NEW els, Open(els), NEW t \in Seq(Nat), t = Chunk, Chunk' = t,
         NEW e \in Elements, e.spot = Spot(els, Len(els)), Sound(t, e),
         NEW new, Behind(new, els, e), AddElement(BytesOf(t, e), Flag(e)), pos' = pos + Width(e)
  PROVE  FillingTyped' /\ Open(new)'
<1> PICK f : Behind(f, groupFlags, Flag(e))
  BY DEF Behind
<1> PICK v : Extends(body, groupFlags, groupItems, Pending, v, BytesOf(t, e), f)
  BY DEF Extends, Pending, PaddedFlags, Padded
<1>0. body \in Seq(Cells) /\ groupItems \in Seq(Cells) /\ Len(groupFlags) < GroupSize /\ (groupFlags = << >> => groupItems = << >>)
  BY DEF FillingTyped
<1>1. groupFlags \in Seq({0, 1}) /\ Flag(e) \in {0, 1}
  BY ElementFacts DEF FillingTyped
<1>2. f \in Seq({0, 1}) /\ Len(f) = Len(groupFlags) + 1 /\ Len(f) <= GroupSize /\ f # << >>
  <2>1. Len(groupFlags) < GroupSize
    BY DEF FillingTyped
  <2>2. \A x \in Nat : x < GroupSize => x + 1 <= GroupSize /\ x + 1 # 0
    BY Limits
  <2>3. f \in Seq({0, 1}) /\ Len(f) = Len(groupFlags) + 1 /\ Len(groupFlags) \in Nat
    BY <1>1, Appended DEF Behind
  <2> QED BY <2>1, <2>2, <2>3
<1>3. Padded(f) \in [1..GroupSize -> {0, 1}] /\ (Len(f) = GroupSize => Padded(f) = f)
  BY <1>1, <1>2, PaddedFacts DEF FillingTyped, Behind
<1>6. Packed(Pending, t, els) /\ FlagsUsed(els, body, groupFlags) /\ IsNext(e.spot, body, groupFlags) /\ e.spot.from = pos
  BY DEF Open
<1>7. /\ Packed(v, t, new) /\ Spot(new, Len(new)) = After(e)
      /\ FlagsUsed(new, body, f)
      /\ \A k \in 1..Len(new) : new[k].spot.word < Len(v) + 1
  <2>1. Addition(body, groupFlags, groupItems, Pending, v, t, els, e, f, new)
    BY <1>0, <1>1, <1>6 DEF Addition
  <2> QED BY <2>1, OneElementMore
<1>8. /\ e.spot.word < e.spot.at /\ e.spot.bit \in 1..GroupSize
      /\ After(e).from = pos' /\ Cursor(After(e)) = Len(v) + 1
  <2>1. e.spot.word < e.spot.at /\ e.spot.bit \in 1..GroupSize
    <3>1. Len(els) \in 0..Len(els)
      BY <1>6 DEF Packed
    <3> QED BY <1>6, <3>1, SpotFacts
  <2>2. After(e).from = e.spot.from + Width(e)
    BY <2>1, AfterFacts
  <2>3. Len(v) + 1 = Cursor(After(e))
    BY <1>7 DEF Packed
  <2> QED BY <1>6, <2>1, <2>2, <2>3
<1>9. /\ v = body \o Byte("flags", Padded(f)) \o (groupItems \o BytesOf(t, e))
      /\ groupItems \o BytesOf(t, e) \in Seq(Cells)
  <2>1. Byte("flags", Padded(f)) \in Seq(Cells) /\ BytesOf(t, e) \in Seq(Cells)
    BY <1>3, FlagsAreCells, ElementBytes
  <2>2. v = body \o Byte("flags", Padded(f)) \o groupItems \o BytesOf(t, e)
    BY DEF Extends
  <2>3. groupItems \o BytesOf(t, e) \in Seq(Cells)
    BY <1>0, <2>1, TwoParts
  <2>4. Regrouped(body, Byte("flags", Padded(f)), groupItems, BytesOf(t, e))
    BY <1>0, <2>1, LastTwoFirst
  <2> QED BY <2>2, <2>3, <2>4 DEF Regrouped
<1>10. CASE Len(f) = GroupSize
  <2>1. body' = body \o Byte("flags", f) \o (groupItems \o BytesOf(t, e)) /\ groupFlags' = << >> /\ groupItems' = << >>
    BY <1>10 DEF AddElement, Behind
  <2>2. body' = v
    BY <1>3, <1>9, <1>10, <2>1
  <2>3. Pending' = v
    BY <2>1, <2>2 DEF Pending
  <2>4. v \in Seq(Cells)
    BY <1>7 DEF Packed
  <2>5. IsNext(After(e), body', groupFlags')
    <3>1. e.spot.bit = GroupSize
      BY <1>2, <1>6, <1>10 DEF IsNext
    <3>2. After(e).bit = 1 /\ After(e).word = Cursor(After(e))
      BY <3>1 DEF After, Cursor
    <3>3. Len(groupFlags') + 1 = 1
      BY <2>1
    <3> QED BY <1>8, <2>2, <3>2, <3>3 DEF IsNext
  <2>6. FlagsUsed(new, body', groupFlags')
    <3> SUFFICES ASSUME NEW k \in 1..Len(new), new[k].spot.word = Len(v) + 1 PROVE FALSE
      BY <2>2 DEF FlagsUsed
    <3>1. Len(v) \in Nat /\ new[k].spot.word < Len(v) + 1
      BY <1>7, <2>4
    <3> QED BY <3>1
  <2>7. FillingTyped'
    <3>1. << >> \in Seq({0, 1}) /\ << >> \in Seq(Cells) /\ Len(<< >>) < GroupSize
      BY Limits
    <3> QED BY <2>1, <2>2, <2>4, <3>1 DEF FillingTyped
  <2>8. Open(new)'
    BY <1>7, <1>8, <2>3, <2>5, <2>6 DEF Open
  <2> QED BY <2>7, <2>8
<1>11. CASE Len(f) # GroupSize
  <2>1. body' = body /\ groupFlags' = f /\ groupItems' = groupItems \o BytesOf(t, e)
    BY <1>11 DEF AddElement, Behind
  <2>2. Pending' = v
    <3>1. PaddedFlags' = Padded(f)
      BY <2>1 DEF PaddedFlags, Padded
    <3> QED BY <1>2, <1>9, <2>1, <3>1 DEF Pending
  <2>3. IsNext(After(e), body', groupFlags')
    <3>1. e.spot.bit # GroupSize /\ e.spot.bit + 1 = Len(f) + 1 /\ e.spot.word = Len(body) + 1
      BY <1>2, <1>6, <1>11 DEF IsNext
    <3>2. After(e).bit = e.spot.bit + 1 /\ After(e).word = e.spot.word
      BY <3>1 DEF After
    <3> QED BY <2>1, <3>1, <3>2 DEF IsNext
  <2>4. FlagsUsed(new, body', groupFlags')
    BY <1>7, <2>1
  <2>5. FillingTyped'
    <3>1. Len(f) < GroupSize
      <4>1. Len(f) \in Nat /\ Len(f) <= GroupSize
        BY <1>2
      <4>2. \A x \in Nat : x <= GroupSize /\ x # GroupSize => x < GroupSize
        BY Limits
      <4> QED BY <1>11, <4>1, <4>2
    <3> QED BY <1>2, <1>9, <2>1, <3>1 DEF FillingTyped
  <2>6. Open(new)'
    BY <1>7, <1>8, <2>2, <2>3, <2>4 DEF Open
  <2> QED BY <2>5, <2>6
<1> QED BY <1>10, <1>11

\* An element made here is true of the chunk, and leaves the rest alone.
LEMMA EmitKeeps ==
  ASSUME InvTyped, pc = "compress", Filling, EmitLiteral \/ EmitWord
  PROVE  Filling' /\ InvTyped'
<1> PICK els : Open(els)
  BY DEF Filling
<1> PICK t : t = Chunk
  OBVIOUS
<1>1. t \in Seq(Nat) /\ Len(t) \in 0..ChunkSize /\ Chunk' = t
  <2>1. data' = data /\ start' = start
    BY DEF EmitLiteral, EmitWord
  <2>2. Chunk' = Chunk
    BY <2>1 DEF Chunk, n
  <2> QED BY <2>2, ChunkFacts DEF InvTyped
<1>2. Packed(Pending, t, els) /\ Spot(els, Len(els)).from = pos /\ pos \in Nat
  <2>1. pos \in Nat
    BY <1>1 DEF Filling
  <2> QED BY <2>1 DEF Open
<1>3. Spot(els, Len(els)) \in Spots
  <2>1. Len(els) \in 0..Len(els)
    BY <1>2 DEF Packed
  <2> QED BY <1>2, <2>1, SpotFacts
<1>4. pos < Len(t)
  BY DEF EmitLiteral, EmitWord
<1>5. \E e \in Elements : /\ e.spot = Spot(els, Len(els)) /\ Sound(t, e)
                          /\ AddElement(BytesOf(t, e), Flag(e)) /\ pos' = pos + Width(e)
  <2>1. CASE EmitLiteral
    <3> PICK e \in Elements : e.spot = Spot(els, Len(els)) /\ e.len = 0 /\ e.dist = 0
      <4>1. [spot |-> Spot(els, Len(els)), len |-> 0, dist |-> 0] \in Elements
        BY <1>3 DEF Elements
      <4> QED BY <4>1
    <3>1. ~IsMatch(e) /\ Flag(e) = 0 /\ Width(e) = 1 /\ e.spot.from = pos
      BY <1>2 DEF IsMatch, Flag, Width
    <3>2. pos + 1 <= Len(t)
      BY <1>1, <1>2, <1>4
    <3>3. Sound(t, e)
      BY <3>1, <3>2 DEF Sound
    <3>4. BytesOf(t, e) = Byte("literal", Chunk[pos + 1])
      BY <3>1 DEF BytesOf
    <3> QED BY <2>1, <3>1, <3>3, <3>4 DEF EmitLiteral
  <2>2. CASE EmitWord
    <3> PICK m \in {FindMatch} \ {NoMatch} :
          /\ AddElement(TwoBytes("word", (m.dist - 1) * LengthUnit(pos) + m.len - MinMatch), 1)
          /\ pos' = pos + m.len
      BY <2>2 DEF EmitWord
    <3>1. /\ m.len \in Nat /\ m.len >= MinMatch /\ pos + m.len <= Len(t)
          /\ m.len - MinMatch < LengthUnit(pos)
          /\ m.dist \in 1..pos /\ m.dist <= 2^DispBits(pos)
          /\ RepeatsAfter(t, pos, m.dist, m.len)
      <4>1. m = FindMatch /\ FindMatch # NoMatch
        OBVIOUS
      <4>2. Chunk \in Seq(Nat) /\ pos \in 0..Len(Chunk)
        BY <1>1 DEF Filling
      <4> QED BY <4>1, <4>2, FoundMatch
    <3>2. m.dist \in Nat /\ m.len # 0
      BY <1>2, <3>1, Limits
    <3> PICK e \in Elements : e.spot = Spot(els, Len(els)) /\ e.len = m.len /\ e.dist = m.dist
      <4>1. [spot |-> Spot(els, Len(els)), len |-> m.len, dist |-> m.dist] \in Elements
        BY <1>3, <3>1, <3>2 DEF Elements
      <4> QED BY <4>1
    <3>3. IsMatch(e) /\ Flag(e) = 1 /\ Width(e) = m.len /\ e.spot.from = pos
      BY <1>2, <3>2 DEF IsMatch, Flag, Width
    <3>4. Sound(t, e)
      BY <3>1, <3>3 DEF Sound
    <3>5. BytesOf(t, e) = TwoBytes("word", (m.dist - 1) * LengthUnit(pos) + m.len - MinMatch)
      BY <3>3 DEF BytesOf, WordValue
    <3> QED BY <3>3, <3>4, <3>5
  <2> QED BY <2>1, <2>2
<1> PICK e \in Elements : /\ e.spot = Spot(els, Len(els)) /\ Sound(t, e)
                          /\ AddElement(BytesOf(t, e), Flag(e)) /\ pos' = pos + Width(e)
  BY <1>5
<1> PICK new : Behind(new, els, e)
  BY DEF Behind
<1>6. FillingTyped' /\ Open(new)'
  BY <1>1, AddingKeepsOpen DEF Filling
<1>7. pos' \in 0..Len(t)
  <2>1. pos + Width(e) <= Len(t) /\ Width(e) \in Nat /\ Len(t) \in Nat
    BY <1>1, <1>2, ElementFacts DEF Sound
  <2> QED BY <1>2, <2>1
<1>8. UNCHANGED <<data, start, buffer, chunkAt, lost, whole, at, chunkEnd, chunkStart, flags, out, status, pc>> /\ n' = n
  BY DEF EmitLiteral, EmitWord, decoderVars, n
<1>9. Filling'
  <2>1. Chunked(buffer, chunkAt, data)' /\ (start = Lesser(Len(chunkAt) * ChunkSize, n))'
    <3>1. Chunked(buffer, chunkAt, data) /\ start = Lesser(Len(chunkAt) * ChunkSize, n)
      BY DEF Filling
    <3>2. buffer' = buffer /\ chunkAt' = chunkAt /\ data' = data /\ start' = start /\ n' = n
      BY <1>8
    <3>3. Chunked(buffer', chunkAt', data') /\ start' = Lesser(Len(chunkAt') * ChunkSize, n')
      BY <3>1, <3>2
    <3> QED BY <3>3
  <2>2. (pos \in 0..Len(Chunk))'
    <3>1. Chunk' = t
      BY <1>1
    <3>2. pos' \in 0..Len(Chunk')
      BY <1>7, <3>1
    <3> QED BY <3>2
  <2>3. (lost = 0 /\ whole = TRUE /\ at = 1 /\ out = << >> /\ status = "working")'
    BY <1>8 DEF Filling
  <2> QED BY <1>6, <2>1, <2>2, <2>3 DEF Filling
<1>10. InvTyped'
  <2>1. pos' \in 0..ChunkSize
    <3>1. \A c, l \in Nat, x \in Int : l \in 0..c /\ x \in 0..l => x \in 0..c
      OBVIOUS
    <3> QED BY <1>1, <1>7, <3>1, Limits
  <2> QED BY <1>6, <1>8, <2>1 DEF InvTyped, FillingTyped
<1> QED BY <1>9, <1>10

----------------------------------------------------------------------------
(* Chunks *)

\* v begins with w.
Begins(v, w) == Len(w) <= Len(v) /\ \A i \in 1..Len(w) : v[i] = w[i]

Joined(v, a, b) == v = a \o b

LEMMA JoinedFacts ==
  ASSUME NEW a \in Seq(Cells), NEW b \in Seq(Cells), NEW v, Joined(v, a, b)
  PROVE  /\ v \in Seq(Cells) /\ Len(v) = Len(a) + Len(b)
         /\ Len(a) \in Nat /\ Len(b) \in Nat
         /\ \A j \in 1..Len(a) : v[j] = a[j]
         /\ \A j \in 1..Len(b) : v[Len(a) + j] = b[j]
<1>1. /\ a \o b \in Seq(Cells) /\ Len(a \o b) = Len(a) + Len(b)
      /\ Len(a) \in Nat /\ Len(b) \in Nat
      /\ \A j \in 1..Len(a) : (a \o b)[j] = a[j]
      /\ \A j \in 1..Len(b) : (a \o b)[Len(a) + j] = b[j]
  BY TwoParts
<1> QED BY <1>1 DEF Joined

\* The chunk that was added to w.
NewChunk(w, v, bytes, compressed, d, k) ==
  /\ bytes \in Seq(Cells) /\ compressed \in BOOLEAN /\ Len(bytes) \in 1..ChunkSize
  /\ StandFor(bytes, compressed, Text(d, k))
  /\ \E x : Joined(x, Header(compressed, bytes), bytes) /\ Joined(v, w, x)

LEMMA HeaderFacts ==
  ASSUME NEW bytes \in Seq(Cells), NEW compressed \in BOOLEAN, Len(bytes) \in 1..ChunkSize
  PROVE  /\ Header(compressed, bytes) \in Seq(Cells) /\ Len(Header(compressed, bytes)) = 2
         /\ Header(compressed, bytes)[1] =
              [kind |-> "header", value |-> [compressed |-> compressed, size |-> Len(bytes) + 2]]
<1> DEFINE size == Len(bytes) + 2
<1>1. size \in 3..(ChunkSize + 2)
  BY Limits
<1> HIDE DEF size
<1>2. [kind |-> "header", value |-> [compressed |-> compressed, size |-> size]] \in Cells
  BY <1>1 DEF Cells
<1>3. [kind |-> "second", value |-> 0] \in Cells
  BY DEF Cells
<1>4. Header(compressed, bytes) = <<[kind |-> "header", value |-> [compressed |-> compressed, size |-> size]],
                                    [kind |-> "second", value |-> 0]>>
  BY DEF Header, TwoBytes, size
<1>5. ASSUME NEW x \in Cells, NEW y \in Cells PROVE <<x, y>> \in Seq(Cells) /\ Len(<<x, y>>) = 2 /\ <<x, y>>[1] = x
  OBVIOUS
<1>6. /\ Header(compressed, bytes) \in Seq(Cells) /\ Len(Header(compressed, bytes)) = 2
      /\ Header(compressed, bytes)[1] = [kind |-> "header", value |-> [compressed |-> compressed, size |-> size]]
  BY <1>2, <1>3, <1>4, <1>5
<1> QED BY <1>6 DEF size

LEMMA NewChunkFacts ==
  ASSUME NEW w \in Seq(Cells), NEW v, NEW bytes, NEW compressed, NEW d, NEW k,
         NewChunk(w, v, bytes, compressed, d, k)
  PROVE  /\ v \in Seq(Cells) /\ Len(v) = Len(w) + 2 + Len(bytes) /\ Begins(v, w)
         /\ Wraps(v, Len(w) + 1, bytes, compressed)
<1> DEFINE h == Header(compressed, bytes)
<1>1. bytes \in Seq(Cells) /\ Len(w) \in Nat /\ Len(bytes) \in Nat
  BY DEF NewChunk
<1>2. /\ h \in Seq(Cells) /\ Len(h) = 2
      /\ h[1] = [kind |-> "header", value |-> [compressed |-> compressed, size |-> Len(bytes) + 2]]
  BY HeaderFacts DEF NewChunk
<1> HIDE DEF h
<1> PICK x : Joined(x, h, bytes) /\ Joined(v, w, x)
  BY DEF NewChunk, h
<1>3. /\ x \in Seq(Cells) /\ Len(x) = Len(h) + Len(bytes)
      /\ \A j \in 1..Len(h) : x[j] = h[j]
      /\ \A j \in 1..Len(bytes) : x[Len(h) + j] = bytes[j]
  <2>1. Joined(x, h, bytes) /\ h \in Seq(Cells) /\ bytes \in Seq(Cells)
    BY <1>1, <1>2
  <2> QED BY ONLY <2>1, JoinedFacts
<1>4. /\ v \in Seq(Cells) /\ Len(v) = Len(w) + Len(x)
      /\ \A j \in 1..Len(w) : v[j] = w[j]
      /\ \A j \in 1..Len(x) : v[Len(w) + j] = x[j]
  <2>1. Joined(v, w, x) /\ w \in Seq(Cells) /\ x \in Seq(Cells)
    BY <1>3
  <2> QED BY ONLY <2>1, JoinedFacts
<1>5. v[Len(w) + 1] = h[1]
  <2>1. 1 \in 1..Len(x) /\ 1 \in 1..Len(h)
    BY <1>1, <1>2, <1>3
  <2> QED BY <1>3, <1>4, <2>1
<1>6. ASSUME NEW i \in 1..Len(bytes) PROVE v[Len(w) + 1 + 1 + i] = bytes[i]
  <2>1. 2 + i \in 1..Len(x) /\ Len(w) + (2 + i) = Len(w) + 1 + 1 + i /\ x[2 + i] = bytes[i]
    BY <1>1, <1>2, <1>3
  <2> QED BY <1>4, <2>1
<1>7. Len(v) = Len(w) + 2 + Len(bytes) /\ Len(w) <= Len(v) /\ Len(w) + 1 + 1 + Len(bytes) <= Len(v)
  BY <1>1, <1>2, <1>3, <1>4
<1> QED BY <1>2, <1>4, <1>5, <1>6, <1>7 DEF Begins, Wraps

LEMMA WrapsStays ==
  ASSUME NEW w, NEW v, Begins(v, w), Len(w) \in Nat, Len(v) \in Nat, NEW c \in Nat \ {0}, NEW bytes \in Seq(Cells), NEW compressed,
         Wraps(w, c, bytes, compressed)
  PROVE  Wraps(v, c, bytes, compressed)
<1>1. Len(bytes) \in Nat /\ c + 1 + Len(bytes) <= Len(w) /\ Len(w) <= Len(v)
  BY DEF Wraps, Begins
<1>2. c \in 1..Len(w) /\ c + 1 + Len(bytes) <= Len(v)
  BY <1>1
<1>3. \A i \in 1..Len(bytes) : c + 1 + i \in 1..Len(w)
  BY <1>1
<1> QED BY <1>2, <1>3 DEF Wraps, Begins

LEMMA ChunkAdded ==
  ASSUME NEW w, NEW v, NEW places, NEW d, NEW bytes, NEW compressed, NEW more, Chunked(w, places, d),
         Len(places) * ChunkSize < Len(d),
         NewChunk(w, v, bytes, compressed, d, Len(places) + 1), Behind(more, places, Len(w) + 1)
  PROVE  Chunked(v, more, d)
<1>1. w \in Seq(Cells) /\ places \in Seq(Nat \ {0}) /\ d \in Seq(Nat) /\ Len(w) + 1 \in Nat \ {0} /\ Len(w) \in Nat
  BY DEF Chunked
<1>2. /\ v \in Seq(Cells) /\ Len(v) = Len(w) + 2 + Len(bytes) /\ Begins(v, w)
      /\ Wraps(v, Len(w) + 1, bytes, compressed)
  BY <1>1, NewChunkFacts
<1>3. /\ more \in Seq(Nat \ {0}) /\ Len(more) = Len(places) + 1 /\ Len(places) \in Nat
      /\ more[Len(places) + 1] = Len(w) + 1
      /\ \A i \in 1..Len(places) : more[i] = places[i]
  BY <1>1, Appended DEF Behind
<1> PICK C \in Nat : C = Len(places)
  BY <1>3
<1>4. \A k \in 1..(C + 1) : Entry(v, more, k) = Entry(w, places, k)
  <2> SUFFICES ASSUME NEW k \in 1..(C + 1) PROVE Entry(v, more, k) = Entry(w, places, k)
    OBVIOUS
  <2>1. CASE k = C + 1
    BY <1>3, <2>1 DEF Entry
  <2>2. CASE k # C + 1
    <3>1. k \in 1..C
      BY <2>2
    <3> QED BY <1>3, <3>1 DEF Entry
  <2> QED BY <2>1, <2>2
<1>5. ASSUME NEW k \in 1..C PROVE IsChunk(v, more, d, k)
  <2>1. IsChunk(w, places, d, k)
    BY DEF Chunked
  <2> PICK b \in Seq(Cells), c \in BOOLEAN :
        /\ Wraps(w, places[k], b, c)
        /\ StandFor(b, c, Text(d, k))
        /\ Len(b) \in 1..ChunkSize
        /\ Entry(w, places, k + 1) = places[k] + 2 + Len(b)
    BY <2>1 DEF IsChunk
  <2>2. places[k] \in Nat \ {0} /\ more[k] = places[k]
    BY <1>1, <1>3
  <2>3. Wraps(v, places[k], b, c)
    <3>1. Begins(v, w) /\ Len(w) \in Nat /\ Len(v) \in Nat
      BY <1>1, <1>2
    <3>2. places[k] \in Nat \ {0} /\ Wraps(w, places[k], b, c)
      BY <2>2
    <3> HIDE <2>1
    <3> QED BY <3>1, <3>2, WrapsStays
  <2>4. k + 1 \in 1..(C + 1)
    OBVIOUS
  <2>5. Entry(v, more, k + 1) = more[k] + 2 + Len(b)
    BY <1>4, <2>2, <2>4
  <2>6. (k - 1) * ChunkSize < Len(d)
    BY <2>1 DEF IsChunk
  <2> QED BY <2>2, <2>3, <2>5, <2>6 DEF IsChunk
<1>6. IsChunk(v, more, d, C + 1)
  <2>1. bytes \in Seq(Cells) /\ compressed \in BOOLEAN /\ StandFor(bytes, compressed, Text(d, C + 1)) /\ Len(bytes) \in 1..ChunkSize
    BY DEF NewChunk
  <2>2. Wraps(v, more[C + 1], bytes, compressed)
    BY <1>2, <1>3
  <2>3. Entry(v, more, C + 1 + 1) = Len(v) + 1
    <3>1. ~(C + 1 + 1 <= Len(more))
      BY <1>3
    <3> QED BY <3>1 DEF Entry
  <2>4. Len(v) + 1 = more[C + 1] + 2 + Len(bytes)
    <3>1. Len(bytes) \in Nat
      BY <2>1
    <3> QED BY <1>1, <1>2, <1>3, <3>1
  <2>5. (C + 1 - 1) * ChunkSize < Len(d)
    OBVIOUS
  <2> QED BY <2>1, <2>2, <2>3, <2>4, <2>5 DEF IsChunk
<1>7. Entry(v, more, 1) = 1
  <2>1. 1 \in 1..(C + 1)
    OBVIOUS
  <2> QED BY <1>4, <2>1 DEF Chunked
<1>8. \A k \in 1..Len(more) : IsChunk(v, more, d, k)
  <2>1. \A k \in 1..(C + 1) : k \in 1..C \/ k = C + 1
    OBVIOUS
  <2> QED BY <1>3, <1>5, <1>6, <2>1
<1> QED BY <1>1, <1>2, <1>3, <1>7, <1>8 DEF Chunked

LEMMA NothingYet ==
  ASSUME NEW t
  PROVE  /\ Packed(<< >>, t, << >>) /\ Spot(<< >>, Len(<< >>)).from = 0
         /\ IsNext(Spot(<< >>, Len(<< >>)), << >>, << >>) /\ FlagsUsed(<< >>, << >>, << >>)
<1>1. Spot(<< >>, Len(<< >>)) = Start
  BY DEF Spot
<1>2. Cursor(Start) = 1 /\ Start.from = 0 /\ Start.bit = 1 /\ Start.word = 1
  BY DEF Start, Cursor
<1>3. Packed(<< >>, t, << >>)
  <2>1. << >> \in Seq(Cells) /\ << >> \in Seq(Elements) /\ Len(<< >>) = 0
    OBVIOUS
  <2> QED BY <1>1, <1>2, <2>1 DEF Packed
<1> QED BY <1>1, <1>2, <1>3 DEF IsNext, FlagsUsed

LEMMA RawFacts ==
  ASSUME NEW t \in Seq(Nat)
  PROVE  /\ Raw(t) \in Seq(Cells) /\ Len(Raw(t)) = Len(t)
         /\ \A i \in 1..Len(t) : Raw(t)[i] = [kind |-> "literal", value |-> t[i]]
<1>1. Len(t) \in Nat /\ \A i \in 1..Len(t) : t[i] \in Nat
  OBVIOUS
<1>2. ASSUME NEW v \in Nat PROVE [kind |-> "literal", value |-> v] \in Cells
  BY DEF Cells
<1>3. Raw(t) \in [1..Len(t) -> Cells]
  BY <1>1, <1>2 DEF Raw
<1>4. Raw(t) \in Seq(Cells)
  BY <1>1, <1>3, SeqDef
<1>5. Len(Raw(t)) = Len(t)
  BY <1>1, <1>3, <1>4, LenProperties
<1> QED BY <1>4, <1>5 DEF Raw

\* The piece of d that begins at s.
Piece(d, s) == SubSeq(d, s + 1, Lesser(s + ChunkSize, Len(d)))

LEMMA PieceFacts ==
  ASSUME NEW d \in Seq(Nat), NEW s \in 0..Len(d)
  PROVE  /\ Piece(d, s) \in Seq(Nat) /\ Len(Piece(d, s)) = Lesser(s + ChunkSize, Len(d)) - s
         /\ Len(Piece(d, s)) \in 0..ChunkSize
         /\ \A i \in 1..Len(Piece(d, s)) : Piece(d, s)[i] = d[s + i]
<1> PICK N \in Nat : N = Len(d)
  OBVIOUS
<1> PICK e \in Nat : e = Lesser(s + ChunkSize, N) /\ s <= e /\ e <= N /\ e <= s + ChunkSize
  BY Limits DEF Lesser
<1>1. s \in Nat /\ e - s \in 0..ChunkSize
  BY Limits
<1>2. /\ SubSeq(d, s + 1, e) \in Seq(Nat) /\ Len(SubSeq(d, s + 1, e)) = e - s
      /\ \A i \in 1..(e - s) : SubSeq(d, s + 1, e)[i] = d[s + i]
  BY <1>1, Stretch
<1>3. Piece(d, s) = SubSeq(d, s + 1, e)
  BY DEF Piece
<1> QED BY <1>1, <1>2, <1>3

\* Where the next chunk of d begins once C have been.
LEMMA NextPiece ==
  ASSUME NEW d, Len(d) \in Nat, NEW C \in Nat, NEW s, s = Lesser(C * ChunkSize, Len(d)), s < Len(d)
  PROVE  /\ s = C * ChunkSize /\ C * ChunkSize < Len(d)
         /\ Text(d, C + 1) = Piece(d, s)
         /\ Lesser(s + ChunkSize, Len(d)) = Lesser((C + 1) * ChunkSize, Len(d))
<1>1. C * ChunkSize \in Nat /\ (C + 1) * ChunkSize = C * ChunkSize + ChunkSize /\ C + 1 - 1 = C
  BY Limits
<1>2. s = C * ChunkSize /\ C * ChunkSize < Len(d)
  BY <1>1 DEF Lesser
<1> PICK k \in Nat : k = C + 1
  OBVIOUS
<1>3. s + ChunkSize = k * ChunkSize /\ (k - 1) * ChunkSize + 1 = s + 1
  BY <1>1, <1>2
<1>4. Text(d, k) = Piece(d, s)
  BY <1>3 DEF Text, Piece
<1> QED BY <1>2, <1>3, <1>4

\* Either kind of chunk stands for the text at hand.
LEMMA ChunkEnded ==
  ASSUME InvTyped, Filling, EndChunk
  PROVE  \E bytes, compressed : NewChunk(buffer, buffer', bytes, compressed, data, Len(chunkAt) + 1)
<1> PICK els : Open(els)
  BY DEF Filling
<1>0. data \in Seq(Nat) /\ n \in Nat /\ n = Len(data) /\ chunkAt \in Seq(Nat \ {0}) /\ Len(chunkAt) \in Nat
  BY Plain DEF InvTyped, Filling, Chunked, n
<1>1. /\ Chunk \in Seq(Nat) /\ Len(Chunk) \in 1..ChunkSize
  <2>1. start < n /\ start \in 0..n
    BY DEF EndChunk, InvTyped
  <2> QED BY <2>1, ChunkFacts, Limits DEF InvTyped
<1>2. Text(data, Len(chunkAt) + 1) = Chunk
  <2>1. start = Lesser(Len(chunkAt) * ChunkSize, n) /\ start < n
    BY DEF EndChunk, Filling
  <2>2. Text(data, Len(chunkAt) + 1) = Piece(data, start)
    BY <1>0, <2>1, NextPiece
  <2>3. Piece(data, start) = Chunk
    BY <1>0 DEF Piece, Chunk
  <2> QED BY <2>2, <2>3
<1>3. Packed(Pending, Chunk, els) /\ Spot(els, Len(els)).from = Len(Chunk)
  BY DEF Open, EndChunk
<1>4. Pending \in Seq(Cells) /\ Len(Pending) \in Nat /\ Len(Pending) # 0
  <2>1. Pending \in Seq(Cells) /\ Len(Pending) \in Nat /\ Len(els) \in Nat /\ Len(Pending) + 1 = Cursor(Spot(els, Len(els)))
    BY <1>3 DEF Packed
  <2>2. Len(els) # 0
    <3>1. Len(els) = 0 => Spot(els, Len(els)).from = 0
      BY DEF Spot, Start
    <3>2. Len(Chunk) # 0
      BY <1>1
    <3> QED BY <1>3, <3>1, <3>2
  <2> PICK k \in Nat : k = Len(els) - 1 /\ k < Len(els) /\ k + 1 = Len(els)
    <3>1. \A x \in Nat : x # 0 => \E k \in Nat : k = x - 1 /\ k < x /\ k + 1 = x
      <4> SUFFICES ASSUME NEW x \in Nat, x # 0 PROVE \E k \in Nat : k = x - 1 /\ k < x /\ k + 1 = x
        OBVIOUS
      <4>1. x - 1 \in Nat /\ x - 1 < x /\ (x - 1) + 1 = x
        OBVIOUS
      <4> QED BY <4>1
    <3> QED BY <2>1, <2>2, <3>1
  <2>3. /\ Cursor(Spot(els, k + 1)) = Spot(els, k).at + Size(els[k + 1])
        /\ els[k + 1] \in Elements
    BY <1>3, NextElement
  <2>4. Spot(els, k).at \in Nat \ {0}
    <3>1. k \in 0..Len(els)
      BY <2>1
    <3> QED BY <1>3, <3>1, SpotFacts
  <2>5. Size(els[k + 1]) \in {1, 2}
    BY <2>3, ElementFacts
  <2> QED BY <2>1, <2>3, <2>4, <2>5
<1>5. buffer' = buffer \o (IF Shrinks(Pending) THEN Header(TRUE, Pending) \o Pending
                                               ELSE Header(FALSE, Raw(Chunk)) \o Raw(Chunk))
  BY DEF EndChunk, Pending, Raw
<1>6. CASE Shrinks(Pending)
  <2>1. StandFor(Pending, TRUE, Chunk)
    BY <1>3 DEF StandFor
  <2>2. Len(Pending) \in 1..ChunkSize
    <3>1. Len(Pending) < Len(Chunk)
      BY <1>6 DEF Shrinks
    <3> QED BY <1>1, <1>4, <3>1, Limits
  <2>3. \E x : Joined(x, Header(TRUE, Pending), Pending) /\ Joined(buffer', buffer, x)
    BY <1>5, <1>6 DEF Joined
  <2>4. NewChunk(buffer, buffer', Pending, TRUE, data, Len(chunkAt) + 1)
    BY <1>2, <1>4, <2>1, <2>2, <2>3 DEF NewChunk
  <2> QED BY <2>4
<1>7. CASE ~Shrinks(Pending)
  <2>1. StandFor(Raw(Chunk), FALSE, Chunk)
    BY DEF StandFor
  <2>2. Raw(Chunk) \in Seq(Cells) /\ Len(Raw(Chunk)) \in 1..ChunkSize
    BY <1>1, RawFacts
  <2>3. \E x : Joined(x, Header(FALSE, Raw(Chunk)), Raw(Chunk)) /\ Joined(buffer', buffer, x)
    BY <1>5, <1>7 DEF Joined
  <2>4. NewChunk(buffer, buffer', Raw(Chunk), FALSE, data, Len(chunkAt) + 1)
    BY <1>2, <2>1, <2>2, <2>3 DEF NewChunk
  <2> QED BY <2>4
<1> QED BY <1>6, <1>7

LEMMA EndChunkKeeps ==
  ASSUME InvTyped, Filling, EndChunk
  PROVE  Filling' /\ InvTyped'
<1> PICK bytes, compressed : NewChunk(buffer, buffer', bytes, compressed, data, Len(chunkAt) + 1)
  BY ChunkEnded
<1> PICK C \in Nat : C = Len(chunkAt)
  BY DEF Filling, Chunked
<1>0. data \in Seq(Nat) /\ n \in Nat /\ n = Len(data) /\ start \in Nat /\ start < n
  BY Plain DEF InvTyped, EndChunk, n
<1>1. /\ chunkAt' = Append(chunkAt, Len(buffer) + 1)
      /\ start' = Lesser(start + ChunkSize, n) /\ pos' = 0
      /\ body' = << >> /\ groupFlags' = << >> /\ groupItems' = << >>
      /\ data' = data /\ n' = n /\ lost' = lost /\ whole' = whole /\ pc' = pc
      /\ at' = at /\ chunkEnd' = chunkEnd /\ chunkStart' = chunkStart /\ flags' = flags /\ out' = out /\ status' = status
  BY DEF EndChunk, decoderVars, n
<1>2. C * ChunkSize < Len(data) /\ start' = Lesser((C + 1) * ChunkSize, n)
  <2>1. start = Lesser(C * ChunkSize, Len(data))
    BY <1>0 DEF Filling
  <2> QED BY <1>0, <1>1, <2>1, NextPiece
<1>3. Chunked(buffer', chunkAt', data')
  <2>1. Chunked(buffer, chunkAt, data) /\ Len(chunkAt) * ChunkSize < Len(data)
    BY <1>2 DEF Filling
  <2>2. Behind(chunkAt', chunkAt, Len(buffer) + 1)
    BY <1>1 DEF Behind
  <2>3. Chunked(buffer', chunkAt', data)
    BY <2>1, <2>2, ChunkAdded
  <2> QED BY <1>1, <2>3
<1>4. Len(chunkAt') = C + 1
  <2>1. chunkAt \in Seq(Nat \ {0}) /\ Len(buffer) + 1 \in Nat \ {0}
    BY DEF Filling, Chunked
  <2>2. Len(Append(chunkAt, Len(buffer) + 1)) = Len(chunkAt) + 1
    BY <2>1, Appended
  <2> QED BY <1>1, <2>2
<1>5. start' \in 0..n'
  BY <1>0, <1>1, Limits DEF Lesser
<1>6. pos' \in 0..Len(Chunk')
  <2>1. Chunk' = Piece(data, start')
    BY <1>0, <1>1 DEF Chunk, Piece
  <2>2. Len(Piece(data, start')) \in Nat
    <3>1. start' \in 0..Len(data)
      BY <1>0, <1>1, <1>5
    <3> QED BY <1>0, <3>1, PieceFacts
  <2>3. 0 \in 0..Len(Piece(data, start'))
    BY <2>2
  <2> QED BY <1>1, <2>1, <2>3
<1>7. Open(<< >>)' /\ FillingTyped'
  <2>1. Pending' = << >>
    BY <1>1 DEF Pending
  <2>2. /\ Packed(Pending', Chunk', << >>) /\ Spot(<< >>, Len(<< >>)).from = pos'
        /\ IsNext(Spot(<< >>, Len(<< >>)), body', groupFlags') /\ FlagsUsed(<< >>, body', groupFlags')
    BY <1>1, <2>1, NothingYet
  <2>3. << >> \in Seq(Cells) /\ << >> \in Seq({0, 1}) /\ Len(<< >>) < GroupSize
    BY Limits
  <2> QED BY <1>1, <2>2, <2>3 DEF Open, FillingTyped
<1>8. Filling'
  <2>1. (start = Lesser(Len(chunkAt) * ChunkSize, n))'
    <3>1. start' = Lesser(Len(chunkAt') * ChunkSize, n')
      BY <1>1, <1>2, <1>4
    <3> QED BY <3>1
  <2>2. (lost = 0 /\ whole = TRUE /\ at = 1 /\ out = << >> /\ status = "working")'
    BY <1>1 DEF Filling
  <2> QED BY <1>3, <1>6, <1>7, <2>1, <2>2 DEF Filling
<1>9. InvTyped'
  <2>1. buffer' \in Seq(Cells) /\ 0 \in 0..ChunkSize
    BY <1>3, Limits DEF Chunked
  <2> QED BY <1>1, <1>5, <1>7, <2>1 DEF InvTyped, FillingTyped
<1> QED BY <1>8, <1>9

----------------------------------------------------------------------------
(* A buffer without its first chunks *)

LEMMA PlacesFacts ==
  ASSUME NEW w, NEW places, NEW d, Chunked(w, places, d), NEW k \in 1..Len(places)
  PROVE  /\ IsChunk(w, places, d, k) /\ places[k] \in Nat \ {0} /\ Entry(w, places, k) = places[k]
         /\ Entry(w, places, k + 1) \in Nat /\ places[k] + 3 <= Entry(w, places, k + 1)
         /\ Entry(w, places, k + 1) <= Len(w) + 1 /\ Len(w) \in Nat /\ Len(places) \in Nat
<1>1. w \in Seq(Cells) /\ places \in Seq(Nat \ {0}) /\ Len(w) \in Nat /\ Len(places) \in Nat /\ k \in Nat /\ k <= Len(places)
  BY DEF Chunked
<1>2. IsChunk(w, places, d, k) /\ places[k] \in Nat \ {0}
  BY <1>1 DEF Chunked
<1>3. Entry(w, places, k) = places[k]
  BY <1>1 DEF Entry
<1> PICK bytes \in Seq(Cells), compressed \in BOOLEAN :
      /\ Wraps(w, places[k], bytes, compressed) /\ Len(bytes) \in 1..ChunkSize
      /\ Entry(w, places, k + 1) = places[k] + 2 + Len(bytes)
  BY <1>2 DEF IsChunk
<1>4. places[k] + 1 + Len(bytes) <= Len(w)
  BY DEF Wraps
<1>5. \A p, b, l \in Nat : b # 0 /\ p + 1 + b <= l => p + 2 + b \in Nat /\ p + 3 <= p + 2 + b /\ p + 2 + b <= l + 1
  OBVIOUS
<1>6. Len(bytes) \in Nat /\ Len(bytes) # 0
  OBVIOUS
<1>7. /\ places[k] + 2 + Len(bytes) \in Nat /\ places[k] + 3 <= places[k] + 2 + Len(bytes)
      /\ places[k] + 2 + Len(bytes) <= Len(w) + 1
  BY <1>1, <1>2, <1>4, <1>5, <1>6
<1> QED BY <1>1, <1>2, <1>3, <1>7

\* Later chunks have later places.
LEMMA PlacesGrow ==
  ASSUME NEW w, NEW places, NEW d, Chunked(w, places, d), NEW k \in 1..Len(places), NEW m \in k..(Len(places) + 1)
  PROVE  Entry(w, places, m) \in Nat /\ places[k] <= Entry(w, places, m)
<1> PICK C \in Nat : C = Len(places)
  BY DEF Chunked
<1>0. k \in Nat /\ k <= C /\ k # 0
  OBVIOUS
<1> DEFINE Good(j) == Entry(w, places, j) \in Nat /\ places[k] <= Entry(w, places, j)
           bad == {j \in k..(C + 1) : ~Good(j)}
<1>1. Good(k)
  BY PlacesFacts
<1>2. ASSUME NEW j \in k..C, Good(j) PROVE Good(j + 1)
  <2>1. j \in 1..Len(places)
    BY <1>0
  <2>2. /\ Entry(w, places, j) = places[j] /\ places[j] \in Nat
        /\ Entry(w, places, j + 1) \in Nat /\ places[j] + 3 <= Entry(w, places, j + 1)
    BY <2>1, PlacesFacts
  <2>3. places[k] \in Nat
    BY PlacesFacts
  <2>4. \A x, y, z \in Nat : x <= y /\ y + 3 <= z => x <= z
    OBVIOUS
  <2> QED BY <1>2, <2>2, <2>3, <2>4
<1> HIDE DEF Good
<1>3. bad = {}
  <2> SUFFICES ASSUME bad # {} PROVE FALSE
    OBVIOUS
  <2>1. bad \in SUBSET Nat
    BY <1>0
  <2> PICK j \in bad : \A i \in bad : j <= i
    <3> HIDE DEF bad
    <3> QED BY <2>1, LeastNatural
  <2>2. j \in k..(C + 1) /\ j # k /\ ~Good(j)
    BY <1>1
  <2> PICK i \in k..C : j = i + 1
    <3>1. j - 1 \in k..C /\ j = (j - 1) + 1
      BY <1>0, <2>2
    <3> QED BY <3>1
  <2>3. i \notin bad /\ i \in k..(C + 1)
    BY <1>0
  <2> QED BY <1>2, <2>2, <2>3
<1> QED BY <1>3 DEF Good

LEMMA StretchOfRest ==
  ASSUME NEW d \in Seq(Nat), NEW a \in 0..Len(d), NEW x \in Nat, NEW y \in Nat, x <= y, a + y <= Len(d)
  PROVE  SubSeq(SubSeq(d, a + 1, Len(d)), x + 1, y) = SubSeq(d, a + x + 1, a + y)
<1>a. a \in Nat /\ Len(d) \in Nat /\ a <= Len(d)
  OBVIOUS
<1>b. /\ SubSeq(d, a + 1, Len(d)) \in Seq(Nat) /\ Len(SubSeq(d, a + 1, Len(d))) = Len(d) - a
      /\ \A i \in 1..(Len(d) - a) : SubSeq(d, a + 1, Len(d))[i] = d[a + i]
  <2>1. a \in Nat /\ Len(d) \in Nat /\ a <= Len(d) /\ Len(d) <= Len(d) /\ d \in Seq(Nat)
    BY <1>a
  <2> QED BY ONLY <2>1, Stretch
<1> PICK N \in Nat : N = Len(d)
  BY <1>a
<1>0. a \in Nat /\ a <= N
  BY <1>a
<1> PICK e \in Seq(Nat) : /\ e = SubSeq(d, a + 1, N) /\ Len(e) = N - a
                          /\ \A i \in 1..(N - a) : e[i] = d[a + i]
  BY <1>b
<1>1. y <= N - a /\ a + x \in Nat /\ a + y \in Nat /\ a + x <= a + y /\ (a + y) - (a + x) = y - x /\ y - x \in Nat
  BY <1>0
<1>2. /\ SubSeq(e, x + 1, y) \in Seq(Nat) /\ Len(SubSeq(e, x + 1, y)) = y - x
      /\ \A i \in 1..(y - x) : SubSeq(e, x + 1, y)[i] = e[x + i]
  <2>1. e \in Seq(Nat) /\ x \in Nat /\ y \in Nat /\ x <= y /\ y <= Len(e)
    BY <1>1
  <2> QED BY ONLY <2>1, Stretch, SMTT(40)
<1>3. /\ SubSeq(d, a + x + 1, a + y) \in Seq(Nat) /\ Len(SubSeq(d, a + x + 1, a + y)) = (a + y) - (a + x)
      /\ \A i \in 1..((a + y) - (a + x)) : SubSeq(d, a + x + 1, a + y)[i] = d[a + x + i]
  BY <1>1, Stretch
<1>4. \A i \in 1..(y - x) : x + i \in 1..(N - a) /\ a + (x + i) = a + x + i
  BY <1>1
<1>5. ASSUME NEW i \in 1..(y - x) PROVE SubSeq(e, x + 1, y)[i] = SubSeq(d, a + x + 1, a + y)[i]
  <2>1. SubSeq(e, x + 1, y)[i] = e[x + i]
    BY <1>2
  <2>2. e[x + i] = d[a + (x + i)]
    BY <1>4
  <2>3. SubSeq(d, a + x + 1, a + y)[i] = d[a + x + i]
    BY <1>1, <1>3
  <2> QED BY <1>4, <2>1, <2>2, <2>3
<1> QED BY <1>1, <1>2, <1>3, <1>5, SeqEqual

\* What is left of d without its first k chunks.
Left(d, k) == SubSeq(d, k * ChunkSize + 1, Len(d))

\* Chunk k + j of the plaintext is chunk j + 1 of what is left without the first k.
LEMMA TextOfRest ==
  ASSUME NEW d \in Seq(Nat), NEW k \in Nat, NEW j \in Nat, (k + j) * ChunkSize < Len(d)
  PROVE  /\ Text(Left(d, k), j + 1) = Text(d, k + j + 1) /\ Left(d, k) \in Seq(Nat)
         /\ Len(Left(d, k)) = Len(d) - k * ChunkSize /\ j * ChunkSize < Len(Left(d, k))
<1> DEFINE e == Left(d, k)
<1> PICK a \in Nat, x \in Nat : a = k * ChunkSize /\ x = j * ChunkSize
  BY Limits
<1>1. (j + 1) * ChunkSize = x + ChunkSize /\ (k + j + 1) * ChunkSize = a + x + ChunkSize /\ (k + j) * ChunkSize = a + x
  BY Limits
<1>2. a + x < Len(d) /\ Len(d) \in Nat
  BY <1>1
<1>3. e \in Seq(Nat) /\ Len(e) = Len(d) - a
  <2>1. a \in Nat /\ Len(d) \in Nat /\ a <= Len(d) /\ Len(d) <= Len(d) /\ d \in Seq(Nat)
    BY <1>2
  <2>2. SubSeq(d, a + 1, Len(d)) \in Seq(Nat) /\ Len(SubSeq(d, a + 1, Len(d))) = Len(d) - a
    BY ONLY <2>1, Stretch
  <2> QED BY <2>2 DEF Left
<1> HIDE DEF e
<1> PICK y \in Nat : /\ y = Lesser(x + ChunkSize, Len(d) - a) /\ a + y = Lesser(a + x + ChunkSize, Len(d))
                     /\ x <= y /\ a + y <= Len(d)
  <2>1. \A N, A, X, S \in Nat : A + X < N =>
          /\ Lesser(X + S, N - A) \in Nat /\ A + Lesser(X + S, N - A) = Lesser(A + X + S, N)
          /\ X <= Lesser(X + S, N - A) /\ A + Lesser(X + S, N - A) <= N
    BY DEF Lesser
  <2> QED BY <1>2, <2>1, Limits
<1>4. Text(e, j + 1) = SubSeq(e, x + 1, y)
  <2> PICK i \in Nat : i = j + 1
    OBVIOUS
  <2>1. (i - 1) * ChunkSize = x /\ i * ChunkSize = x + ChunkSize /\ Lesser(x + ChunkSize, Len(e)) = y
    BY <1>1, <1>3
  <2>2. Text(e, i) = SubSeq(e, x + 1, y)
    BY <2>1 DEF Text
  <2> QED BY <2>2
<1>5. Text(d, k + j + 1) = SubSeq(d, a + x + 1, a + y)
  <2> PICK i \in Nat : i = k + j + 1
    OBVIOUS
  <2>1. (i - 1) * ChunkSize = a + x /\ i * ChunkSize = a + x + ChunkSize
    BY <1>1
  <2>2. Text(d, i) = SubSeq(d, a + x + 1, a + y)
    BY <2>1 DEF Text
  <2> QED BY <2>2
<1>6. SubSeq(SubSeq(d, a + 1, Len(d)), x + 1, y) = SubSeq(d, a + x + 1, a + y)
  <2>1. a \in 0..Len(d) /\ d \in Seq(Nat) /\ x \in Nat /\ y \in Nat /\ x <= y /\ a + y <= Len(d)
    BY <1>2
  <2> QED BY ONLY <2>1, StretchOfRest
<1>7. x < Len(d) - a
  BY <1>2
<1>8. e = SubSeq(d, a + 1, Len(d))
  BY DEF e, Left
<1>9. /\ Text(e, j + 1) = Text(d, k + j + 1) /\ e \in Seq(Nat)
      /\ Len(e) = Len(d) - k * ChunkSize /\ j * ChunkSize < Len(e)
  <2>1. Text(e, j + 1) = Text(d, k + j + 1)
    BY <1>4, <1>5, <1>6, <1>8
  <2> QED BY <1>3, <1>7, <2>1
<1> QED BY <1>9 DEF e

\* v is w from its place p on.
Behead(v, w, p) ==
  /\ v \in Seq(Cells) /\ w \in Seq(Cells) /\ p \in Nat \ {0}
  /\ Len(v) = Len(w) - p + 1
  /\ \A i \in 1..Len(v) : v[i] = w[p - 1 + i]

LEMMA BeheadFacts ==
  ASSUME NEW w \in Seq(Cells), NEW p \in Nat \ {0}, p <= Len(w) + 1
  PROVE  Behead(SubSeq(w, p, Len(w)), w, p)
<1> PICK a \in Nat : p = a + 1
  <2>1. p - 1 \in Nat /\ p = (p - 1) + 1
    OBVIOUS
  <2> QED BY <2>1
<1>1. a \in Nat /\ Len(w) \in Nat /\ a <= Len(w) /\ Len(w) <= Len(w) /\ w \in Seq(Cells)
  OBVIOUS
<1>2. /\ SubSeq(w, a + 1, Len(w)) \in Seq(Cells) /\ Len(SubSeq(w, a + 1, Len(w))) = Len(w) - a
      /\ \A i \in 1..(Len(w) - a) : SubSeq(w, a + 1, Len(w))[i] = w[a + i]
  BY ONLY <1>1, Stretch
<1>3. p - 1 = a /\ Len(w) - p + 1 = Len(w) - a
  BY <1>1
<1> QED BY <1>2, <1>3 DEF Behead

LEMMA WrapsBehead ==
  ASSUME NEW v, NEW w, NEW p, Behead(v, w, p), NEW c \in Nat, p <= c,
         NEW bytes \in Seq(Cells), NEW compressed, Wraps(w, c, bytes, compressed)
  PROVE  Wraps(v, c - p + 1, bytes, compressed)
<1>1. /\ Len(v) = Len(w) - p + 1 /\ Len(v) \in Nat /\ Len(w) \in Nat /\ p \in Nat \ {0}
      /\ \A i \in 1..Len(v) : v[i] = w[p - 1 + i]
  BY DEF Behead
<1>2. Len(bytes) \in Nat /\ c + 1 + Len(bytes) <= Len(w)
  BY DEF Wraps
<1> PICK x \in Nat \ {0} : x = c - p + 1
  BY <1>1
<1>3. x + 1 + Len(bytes) <= Len(v) /\ x \in 1..Len(v) /\ p - 1 + x = c
  BY <1>1, <1>2
<1>4. ASSUME NEW i \in 1..Len(bytes) PROVE v[x + 1 + i] = w[c + 1 + i]
  <2>1. x + 1 + i \in 1..Len(v) /\ p - 1 + (x + 1 + i) = c + 1 + i
    <3>1. \A b, l, u, j \in Nat : x + 1 + b <= l /\ j \in 1..b => x + 1 + j \in 1..l
      OBVIOUS
    <3>2. \A j \in Nat : p - 1 + x = c => p - 1 + (x + 1 + j) = c + 1 + j
      BY <1>1
    <3> QED BY <1>1, <1>2, <1>3, <3>1, <3>2
  <2> QED BY <1>1, <2>1
<1>5. v[x] = w[c]
  BY <1>1, <1>3
<1>6. Wraps(v, x, bytes, compressed)
  BY <1>3, <1>4, <1>5 DEF Wraps
<1> QED BY <1>6

\* v is w without its first k chunks.
Without(v, w, places, k) == Behead(v, w, places[k + 1])

\* Where the chunks from k + 1 on begin when the first k are missing.
PlacesFrom(places, k) == [j \in 1..(Len(places) - k) |-> places[k + j] - places[k + 1] + 1]

LEMMA PlacesFromFacts ==
  ASSUME NEW w, NEW places, NEW d, Chunked(w, places, d), NEW k \in Nat, k < Len(places),
         NEW v, Without(v, w, places, k)
  PROVE  /\ PlacesFrom(places, k) \in Seq(Nat \ {0}) /\ Len(PlacesFrom(places, k)) = Len(places) - k
         /\ \A j \in 1..(Len(places) - k) : PlacesFrom(places, k)[j] = places[k + j] - places[k + 1] + 1
         /\ \A j \in 1..(Len(places) - k + 1) :
              Entry(v, PlacesFrom(places, k), j) = Entry(w, places, k + j) - places[k + 1] + 1
<1> PICK C \in Nat : C = Len(places)
  BY DEF Chunked
<1> PICK L \in Nat : L = C - k
  <2>1. C - k \in Nat
    OBVIOUS
  <2> QED BY <2>1
<1>b. Behead(v, w, places[k + 1])
  BY DEF Without
<1>1. k + 1 \in 1..Len(places)
  OBVIOUS
<1>2. places[k + 1] \in Nat \ {0}
  BY <1>1, PlacesFacts
<1>3. ASSUME NEW j \in 1..L PROVE places[k + j] - places[k + 1] + 1 \in Nat \ {0} /\ Entry(w, places, k + j) = places[k + j]
  <2>1. k + j \in 1..Len(places) /\ k + j \in (k + 1)..(Len(places) + 1)
    OBVIOUS
  <2>2. places[k + 1] <= Entry(w, places, k + j)
    BY <1>1, <2>1, PlacesGrow
  <2>3. Entry(w, places, k + j) = places[k + j] /\ places[k + j] \in Nat
    BY <2>1, PlacesFacts
  <2> QED BY <1>2, <2>2, <2>3
<1>4. PlacesFrom(places, k) \in [1..L -> Nat \ {0}]
  BY <1>3 DEF PlacesFrom
<1>5. PlacesFrom(places, k) \in Seq(Nat \ {0})
  BY <1>4, SeqDef
<1>6. Len(PlacesFrom(places, k)) = L
  BY <1>4, <1>5, LenProperties
<1>7. \A j \in 1..L : PlacesFrom(places, k)[j] = places[k + j] - places[k + 1] + 1
  BY DEF PlacesFrom
<1> PICK q : q = PlacesFrom(places, k)
  OBVIOUS
<1>8. ASSUME NEW j \in 1..(L + 1) PROVE Entry(v, q, j) = Entry(w, places, k + j) - places[k + 1] + 1
  <2>1. CASE j \in 1..L
    <3>1. Entry(v, q, j) = q[j]
      BY <1>6, <2>1 DEF Entry
    <3> QED BY <1>3, <1>7, <2>1, <3>1
  <2>2. CASE j \notin 1..L
    <3>1. ~(j <= Len(q)) /\ ~(k + j <= Len(places))
      BY <1>6, <2>2
    <3>2. Entry(v, q, j) = Len(v) + 1 /\ Entry(w, places, k + j) = Len(w) + 1
      BY <3>1 DEF Entry
    <3>3. Len(v) = Len(w) - places[k + 1] + 1 /\ Len(w) \in Nat
      BY <1>b DEF Behead
    <3> QED BY <1>2, <3>2, <3>3
  <2> QED BY <2>1, <2>2
<1> QED BY <1>5, <1>6, <1>7, <1>8

(***************************************************************************)
(* A buffer without its first chunks is chunks that stand for the rest of  *)
(* the plaintext.                                                          *)
(***************************************************************************)
LEMMA RestOfChunks ==
  ASSUME NEW w, NEW places, NEW d, Chunked(w, places, d), NEW k \in Nat, k < Len(places),
         NEW v, Without(v, w, places, k)
  PROVE  Chunked(v, PlacesFrom(places, k), Left(d, k))
<1> DEFINE e == Left(d, k)
<1> DEFINE q == PlacesFrom(places, k)
<1>a. /\ q \in Seq(Nat \ {0}) /\ Len(q) = Len(places) - k
      /\ \A j \in 1..(Len(places) - k) : q[j] = places[k + j] - places[k + 1] + 1
      /\ \A j \in 1..(Len(places) - k + 1) : Entry(v, q, j) = Entry(w, places, k + j) - places[k + 1] + 1
  BY PlacesFromFacts
<1> HIDE DEF q
<1> PICK C \in Nat : C = Len(places)
  BY DEF Chunked
<1> PICK L \in Nat : L = C - k
  <2>1. C - k \in Nat
    OBVIOUS
  <2> QED BY <2>1
<1>0. d \in Seq(Nat) /\ k + 1 \in 1..Len(places)
  BY DEF Chunked
<1>1. /\ q \in Seq(Nat \ {0}) /\ Len(q) = L
      /\ \A j \in 1..L : q[j] = places[k + j] - places[k + 1] + 1
      /\ \A j \in 1..(L + 1) : Entry(v, q, j) = Entry(w, places, k + j) - places[k + 1] + 1
  BY <1>a
<1>2. places[k + 1] \in Nat \ {0} /\ Entry(w, places, k + 1) = places[k + 1]
  BY <1>0, PlacesFacts
<1>5. Behead(v, w, places[k + 1])
  BY DEF Without
<1>3. Entry(v, q, 1) = 1
  <2>1. 1 \in 1..(L + 1)
    OBVIOUS
  <2> QED BY <1>1, <1>2, <2>1
<1>4. ASSUME NEW j \in 1..L PROVE IsChunk(v, q, e, j)
  <2>1. k + j \in 1..Len(places) /\ k + j \in (k + 1)..(Len(places) + 1)
    OBVIOUS
  <2>2. IsChunk(w, places, d, k + j) /\ places[k + j] \in Nat \ {0} /\ Entry(w, places, k + j) = places[k + j]
    BY <2>1, PlacesFacts
  <2>3. places[k + 1] <= places[k + j]
    <3>1. places[k + 1] <= Entry(w, places, k + j)
      BY <1>0, <2>1, PlacesGrow
    <3> QED BY <2>2, <3>1
  <2> PICK bytes \in Seq(Cells), compressed \in BOOLEAN :
        /\ Wraps(w, places[k + j], bytes, compressed)
        /\ StandFor(bytes, compressed, Text(d, k + j))
        /\ Len(bytes) \in 1..ChunkSize
        /\ Entry(w, places, k + j + 1) = places[k + j] + 2 + Len(bytes)
    BY <2>2 DEF IsChunk
  <2>4. Wraps(v, q[j], bytes, compressed)
    <3>1. places[k + j] \in Nat /\ Wraps(w, places[k + j], bytes, compressed)
      BY <2>2
    <3>2. Wraps(v, places[k + j] - places[k + 1] + 1, bytes, compressed)
      BY ONLY <1>5, bytes \in Seq(Cells), <2>3, <3>1, WrapsBehead
    <3> QED BY <1>1, <3>2
  <2>5. (j - 1) * ChunkSize < Len(e) /\ Text(e, j) = Text(d, k + j)
    <3> PICK i \in Nat : j = i + 1 /\ j - 1 = i
      <4>1. j - 1 \in Nat /\ j = (j - 1) + 1
        OBVIOUS
      <4> QED BY <4>1
    <3>0. k + j - 1 = k + i /\ k + i + 1 = k + j
      OBVIOUS
    <3>1. (k + i) * ChunkSize < Len(d)
      BY <2>2, <3>0 DEF IsChunk
    <3>2. Text(e, i + 1) = Text(d, k + i + 1) /\ i * ChunkSize < Len(e)
      <4>1. d \in Seq(Nat) /\ k \in Nat /\ i \in Nat
        BY <1>0
      <4> QED BY ONLY <3>1, <4>1, TextOfRest
    <3> QED BY <3>0, <3>2
  <2>6. Entry(v, q, j + 1) = q[j] + 2 + Len(bytes)
    <3>1. j + 1 \in 1..(L + 1) /\ k + (j + 1) = k + j + 1
      OBVIOUS
    <3>2. Entry(v, q, j + 1) = Entry(w, places, k + (j + 1)) - places[k + 1] + 1
      BY <1>1, <3>1
    <3>3. \A x, y, z \in Nat : (x + 2 + y) - z + 1 = x - z + 1 + 2 + y
      OBVIOUS
    <3>4. Len(bytes) \in Nat
      OBVIOUS
    <3>5. Entry(v, q, j + 1) = (places[k + j] + 2 + Len(bytes)) - places[k + 1] + 1
      <4>1. Entry(w, places, k + (j + 1)) = places[k + j] + 2 + Len(bytes)
        BY <3>1
      <4> QED BY ONLY <3>2, <4>1
    <3>6. q[j] = places[k + j] - places[k + 1] + 1
      BY <1>1
    <3>7. places[k + j] \in Nat /\ places[k + 1] \in Nat
      BY <1>2, <2>2
    <3> QED BY ONLY <3>3, <3>4, <3>5, <3>6, <3>7
  <2> QED BY <2>4, <2>5, <2>6 DEF IsChunk
<1>6. e \in Seq(Nat)
  <2>1. (k + 0) * ChunkSize < Len(d)
    <3>1. IsChunk(w, places, d, k + 1)
      BY <1>0, PlacesFacts
    <3>2. (k + 1) - 1 = k /\ k + 0 = k
      OBVIOUS
    <3> QED BY <3>1, <3>2 DEF IsChunk
  <2>2. 0 \in Nat
    OBVIOUS
  <2>3. d \in Seq(Nat) /\ k \in Nat
    BY <1>0
  <2> QED BY <2>1, <2>2, <2>3, TextOfRest
<1> HIDE DEF e
<1>7. Chunked(v, q, e)
  <2>1. v \in Seq(Cells)
    BY <1>5 DEF Behead
  <2> QED BY <1>1, <1>3, <1>4, <1>6, <2>1 DEF Chunked
<1> QED BY <1>7 DEF q, e

----------------------------------------------------------------------------
(* From the one side to the other *)

LEMMA DecodingBegins ==
  ASSUME NEW w, NEW places, pc' = "header", at' = 1, out' = << >>,
         Chunked(w, places, Rest'), Len(Rest') <= Len(places) * ChunkSize, Kept(w)'
  PROVE  Decoding(w, places)'
<1>1. /\ Entry(w, places, 1) = 1 /\ Len(Rest') \in Nat /\ Len(places) \in Nat /\ Len(buffer') \in Nat
  <2>1. buffer' \in Seq(Cells)
    BY DEF Kept
  <2>2. Rest' \in Seq(Nat) /\ places \in Seq(Nat \ {0}) /\ Entry(w, places, 1) = 1
    BY DEF Chunked
  <2> QED BY <2>1, <2>2
<1>2. Reached(0)' = 0
  <2>1. 0 * ChunkSize = 0
    BY Limits
  <2> QED BY <1>1, <2>1 DEF Reached, Lesser
<1>3. out' = SubSeq(Rest', 1, 0)
  <2>1. Rest' \in Seq(Nat)
    BY DEF Chunked
  <2> QED BY <2>1
<1>4. Between(w, places, 0)'
  <2>1. at' = Entry(w, places, 0 + 1) /\ at' <= Len(buffer') + 1
    BY <1>1
  <2>2. out' = SubSeq(Rest', 1, Reached(0)')
    BY <1>2, <1>3
  <2> QED BY <2>1, <2>2 DEF Between
<1>5. 0 \in 0..Len(places)
  BY <1>1
<1> QED BY <1>4, <1>5 DEF Decoding

LEMMA TerminalFacts ==
  Terminal \in Seq(Cells) /\ Len(Terminal) = 3 /\ Terminal[1].kind = "terminal"
<1>1. [kind |-> "terminal", value |-> 0] \in Cells /\ [kind |-> "second", value |-> 0] \in Cells /\ [kind |-> "rest", value |-> 0] \in Cells
  BY DEF Cells
<1>2. ASSUME NEW x \in Cells, NEW y \in Cells
      PROVE  <<x, y>> \in Seq(Cells) /\ Len(<<x, y>>) = 2 /\ <<x, y>>[1] = x /\ <<x>> \in Seq(Cells) /\ Len(<<x>>) = 1
  OBVIOUS
<1> DEFINE a == TwoBytes("terminal", 0)
           b == Byte("rest", 0)
<1>3. a \in Seq(Cells) /\ Len(a) = 2 /\ a[1] = [kind |-> "terminal", value |-> 0] /\ b \in Seq(Cells) /\ Len(b) = 1
  BY <1>1, <1>2 DEF TwoBytes, Byte
<1>4. Joined(Terminal, a, b)
  BY DEF Terminal, Joined
<1> HIDE DEF a, b
<1>5. /\ Terminal \in Seq(Cells) /\ Len(Terminal) = Len(a) + Len(b)
      /\ \A j \in 1..Len(a) : Terminal[j] = a[j]
  <2>1. a \in Seq(Cells) /\ b \in Seq(Cells)
    BY <1>3
  <2> QED BY ONLY <1>4, <2>1, JoinedFacts
<1>6. Terminal[1] = a[1] /\ Len(Terminal) = 3
  BY <1>3, <1>5
<1> QED BY <1>3, <1>5, <1>6

LEMMA KeptWhole ==
  ASSUME NEW w \in Seq(Cells), whole' = TRUE, buffer' = w \/ Joined(buffer', w, Terminal)
  PROVE  Kept(w)'
<1>1. CASE buffer' = w
  BY <1>1 DEF Kept
<1>2. CASE Joined(buffer', w, Terminal)
  <2>1. /\ buffer' \in Seq(Cells) /\ Len(buffer') = Len(w) + Len(Terminal) /\ Len(w) \in Nat
        /\ \A j \in 1..Len(w) : buffer'[j] = w[j]
        /\ \A j \in 1..Len(Terminal) : buffer'[Len(w) + j] = Terminal[j]
    <3>1. Terminal \in Seq(Cells) /\ w \in Seq(Cells)
      BY TerminalFacts
    <3> QED BY ONLY <1>2, <3>1, JoinedFacts
  <2>2. 1 \in 1..Len(Terminal)
    BY TerminalFacts
  <2>3. Len(buffer') = Len(w) + 3 /\ buffer'[Len(w) + 1].kind = "terminal"
    BY <2>1, <2>2, TerminalFacts
  <2>4. \A i \in 1..Len(buffer') : i <= Len(w) => buffer'[i] = w[i]
    BY <2>1
  <2> QED BY <2>1, <2>3, <2>4 DEF Kept
<1> QED BY <1>1, <1>2

LEMMA KeptCut ==
  ASSUME NEW b \in Seq(Cells), NEW p \in Nat \ {0}, p <= Len(b) + 1, NEW w, Behead(w, b, p),
         NEW end \in (p - 1)..Len(b), buffer' = SubSeq(b, p, end), whole' = (end = Len(b))
  PROVE  Kept(w)'
<1> PICK a \in Nat : p = a + 1
  <2>1. p - 1 \in Nat /\ p = (p - 1) + 1
    OBVIOUS
  <2> QED BY <2>1
<1>1. a \in Nat /\ end \in Nat /\ a <= end /\ end <= Len(b) /\ Len(b) \in Nat /\ b \in Seq(Cells) /\ p - 1 = a
  OBVIOUS
<1>2. /\ SubSeq(b, a + 1, end) \in Seq(Cells) /\ Len(SubSeq(b, a + 1, end)) = end - a
      /\ \A i \in 1..(end - a) : SubSeq(b, a + 1, end)[i] = b[a + i]
  BY ONLY <1>1, Stretch
<1>3. /\ buffer' \in Seq(Cells) /\ Len(buffer') = end - a
      /\ \A i \in 1..(end - a) : buffer'[i] = b[a + i]
  BY <1>2
<1>4. /\ Len(w) = Len(b) - a /\ \A i \in 1..(Len(b) - a) : w[i] = b[a + i]
  BY <1>1 DEF Behead
<1>5. \A i \in 1..(end - a) : i \in 1..(Len(b) - a)
  BY <1>1
<1>6. \A i \in 1..Len(buffer') : buffer'[i] = w[i]
  <2>1. ASSUME NEW i \in 1..(end - a) PROVE buffer'[i] = w[i]
    BY ONLY <1>3, <1>4, <1>5
  <2> QED BY <1>3, <2>1
<1>7. (end = Len(b) => Len(buffer') = Len(w)) /\ (end # Len(b) => Len(buffer') < Len(w))
  <2>1. \A A, E, L \in Nat : A <= E /\ E <= L => (E = L => E - A = L - A) /\ (E # L => E - A < L - A)
    OBVIOUS
  <2>2. Len(buffer') = end - a /\ Len(w) = Len(b) - a
    BY ONLY <1>3, <1>4
  <2> QED BY ONLY <1>1, <2>1, <2>2
<1> QED BY <1>3, <1>6, <1>7 DEF Kept

\* All of the plaintext is there when it is stored.
LEMMA AllChunks ==
  ASSUME InvTyped, Filling, start = n
  PROVE  n \in Nat /\ Len(chunkAt) \in Nat /\ n <= Len(chunkAt) * ChunkSize
<1>1. n \in Nat /\ Len(chunkAt) \in Nat /\ ChunkSize \in Nat
  BY Plain, Limits DEF InvTyped, Filling, Chunked
<1>2. n = Lesser(Len(chunkAt) * ChunkSize, n)
  BY DEF Filling
<1>3. Len(chunkAt) * ChunkSize \in Nat
  BY <1>1
<1>4. \A x, y \in Nat : y = Lesser(x, y) => y <= x
  BY DEF Lesser
<1> QED BY <1>1, <1>2, <1>3, <1>4

LEMMA StoreKeeps ==
  ASSUME InvTyped, Filling, Store
  PROVE  (\E w, places : Decoding(w, places))' /\ InvTyped' /\ status' = "working"
<1>1. /\ data' = data /\ n' = n /\ start' = start /\ pos' = pos /\ groupFlags' = groupFlags
      /\ at' = 1 /\ chunkEnd' = chunkEnd /\ chunkStart' = chunkStart /\ flags' = flags /\ out' = << >> /\ status' = "working"
      /\ pc' = "header" /\ lost = 0 /\ whole = TRUE /\ at = 1
  BY DEF Store, encoderVars, decoderVars, n, Filling
<1>2. data \in Seq(Nat) /\ n \in Nat /\ n = Len(data) /\ n <= Len(chunkAt) * ChunkSize /\ Len(chunkAt) \in Nat
  <2>1. start = n
    BY DEF Store
  <2> QED BY <2>1, AllChunks, Plain DEF InvTyped, n
<1>3. Chunked(buffer, chunkAt, data) /\ buffer \in Seq(Cells) /\ chunkAt \in Seq(Nat \ {0})
  BY DEF Filling, Chunked
<1>4. \E w, places : Chunked(w, places, Rest') /\ Len(Rest') <= Len(places) * ChunkSize /\ Kept(w)' /\ lost' \in 0..n /\ whole' \in BOOLEAN
  <2>1. ASSUME lost' = 0, whole' = TRUE, buffer' = buffer \/ Joined(buffer', buffer, Terminal)
        PROVE  Chunked(buffer, chunkAt, Rest') /\ Len(Rest') <= Len(chunkAt) * ChunkSize /\ lost' \in 0..n
    <3>1. Rest' = data
      <4>1. SubSeq(data, 0 + 1, Len(data)) = data
        BY <1>2
      <4> QED BY <1>1, <1>2, <2>1, <4>1 DEF Rest
    <3> QED BY <1>2, <1>3, <2>1, <3>1
  <2>2. ASSUME lost' = 0, whole' = TRUE, buffer' = buffer \/ Joined(buffer', buffer, Terminal)
        PROVE  \E w : w = buffer /\ Kept(w)'
    <3> PICK w \in Seq(Cells) : w = buffer
      BY <1>3
    <3>1. buffer' = w \/ Joined(buffer', w, Terminal)
      BY <2>2
    <3>2. Kept(w)'
      BY <2>2, <3>1, KeptWhole
    <3> QED BY <3>2
  <2>3. ASSUME NEW k \in DOMAIN chunkAt, NEW end \in (chunkAt[k] - 1)..Len(buffer),
               buffer' = SubSeq(buffer, chunkAt[k], end), lost' = (k - 1) * ChunkSize, whole' = (end = Len(buffer))
        PROVE  \E w, places : Chunked(w, places, Rest') /\ Len(Rest') <= Len(places) * ChunkSize /\ Kept(w)' /\ lost' \in 0..n
    <3>1. k \in 1..Len(chunkAt)
      BY <1>3
    <3> PICK j \in Nat : k = j + 1 /\ k - 1 = j
      <4>1. k - 1 \in Nat /\ k = (k - 1) + 1
        BY <3>1
      <4> QED BY <4>1
    <3>2. j < Len(chunkAt)
      BY <1>2, <3>1
    <3> PICK p \in Nat \ {0} : p = chunkAt[k] /\ p <= Len(buffer) + 1
      <4>1. chunkAt[k] \in Nat \ {0} /\ chunkAt[k] + 3 <= Entry(buffer, chunkAt, k + 1)
            /\ Entry(buffer, chunkAt, k + 1) <= Len(buffer) + 1 /\ Entry(buffer, chunkAt, k + 1) \in Nat
        BY <1>3, <3>1, PlacesFacts
      <4>2. \A x, y, z \in Nat : x + 3 <= y /\ y <= z => x <= z
        OBVIOUS
      <4>3. Len(buffer) + 1 \in Nat
        BY <1>3
      <4> QED BY <4>1, <4>2, <4>3
    <3> PICK w : w = SubSeq(buffer, p, Len(buffer))
      OBVIOUS
    <3>3. Behead(w, buffer, p)
      BY <1>3, BeheadFacts
    <3>4. Without(w, buffer, chunkAt, j)
      BY <3>3 DEF Without
    <3>5. Chunked(w, PlacesFrom(chunkAt, j), Left(data, j))
      BY <1>3, <3>2, <3>4, RestOfChunks
    <3>6. Len(PlacesFrom(chunkAt, j)) = Len(chunkAt) - j
      BY <1>3, <3>2, <3>4, PlacesFromFacts
    <3>7. Rest' = Left(data, j)
      BY <1>1, <1>2, <2>3 DEF Rest, Left
    <3>8. j * ChunkSize < Len(data)
      <4>1. IsChunk(buffer, chunkAt, data, k)
        BY <1>3, <3>1, PlacesFacts
      <4> QED BY <4>1 DEF IsChunk
    <3>9. Len(Left(data, j)) = Len(data) - j * ChunkSize
      <4>1. (j + 0) * ChunkSize < Len(data) /\ 0 \in Nat
        BY <3>8
      <4> QED BY <1>2, <4>1, TextOfRest
    <3>10. Len(data) - j * ChunkSize <= (Len(chunkAt) - j) * ChunkSize
      <4>1. (Len(chunkAt) - j) * ChunkSize = Len(chunkAt) * ChunkSize - j * ChunkSize
        BY <1>2, Limits
      <4>2. Len(chunkAt) * ChunkSize \in Nat /\ j * ChunkSize \in Nat
        BY <1>2, Limits
      <4> QED BY <1>2, <4>1, <4>2
    <3>11. Kept(w)'
      BY <1>3, <2>3, <3>3, KeptCut
    <3>12. lost' \in 0..n
      <4>1. lost' = j * ChunkSize /\ j * ChunkSize \in Nat
        BY <2>3, Limits
      <4> QED BY <1>2, <3>8, <4>1
    <3> QED BY <3>5, <3>6, <3>7, <3>9, <3>10, <3>11, <3>12
  <2>4. CASE UNCHANGED <<buffer, lost, whole>>
    BY <1>1, <2>1, <2>2, <2>4
  <2>5. CASE buffer' = buffer \o Terminal /\ UNCHANGED <<lost, whole>>
    <3>1. Joined(buffer', buffer, Terminal)
      BY <2>5 DEF Joined
    <3> QED BY <1>1, <2>1, <2>2, <2>5, <3>1
  <2>6. CASE \E k \in DOMAIN chunkAt : \E end \in (chunkAt[k] - 1)..Len(buffer) :
          /\ buffer' = SubSeq(buffer, chunkAt[k], end)
          /\ lost' = (k - 1) * ChunkSize
          /\ whole' = (end = Len(buffer))
    BY <2>3, <2>6
  <2> QED BY <2>4, <2>5, <2>6 DEF Store
<1> PICK w, places : Chunked(w, places, Rest') /\ Len(Rest') <= Len(places) * ChunkSize /\ Kept(w)' /\ lost' \in 0..n /\ whole' \in BOOLEAN
  BY <1>4
<1>5. Decoding(w, places)'
  BY <1>1, DecodingBegins
<1>6. InvTyped'
  <2>1. buffer' \in Seq(Cells)
    BY DEF Kept
  <2> QED BY <1>1, <2>1 DEF InvTyped
<1> QED BY <1>1, <1>5, <1>6

----------------------------------------------------------------------------
(* Decompressing *)

\* What a step of decompress does for its caller.
Continues ==
  /\ status' = status
  /\ out' = out \/ \E x \in (Len(out) + 1)..Len(Rest) : out' = SubSeq(Rest, 1, x)
Stops ==
  /\ out' = out
  /\ \/ status' = "done" /\ (whole => out = Rest) /\ (~whole => Len(out) % ChunkSize = 0)
     \/ status' = "corrupt" /\ ~whole

Keeps(w, places) == Decoding(w, places)' /\ InvTyped' /\ UNCHANGED stored

LEMMA DecodingFacts ==
  ASSUME NEW w, NEW places, Decoding(w, places)
  PROVE  /\ Rest \in Seq(Nat) /\ Len(Rest) \in Nat /\ w \in Seq(Cells) /\ Len(w) \in Nat
         /\ places \in Seq(Nat \ {0}) /\ Len(places) \in Nat
         /\ buffer \in Seq(Cells) /\ Len(buffer) \in Nat
BY DEF Decoding, Chunked, Kept

LEMMA DecodingFrame ==
  ASSUME NEW w, NEW places, Decoding(w, places), UNCHANGED stored
  PROVE  Rest' = Rest /\ Chunked(w, places, Rest') /\ Len(Rest') <= Len(places) * ChunkSize /\ Kept(w)'
<1>1. data' = data /\ lost' = lost /\ buffer' = buffer /\ whole' = whole /\ n' = n
  BY DEF stored, n
<1>2. Rest' = Rest
  BY <1>1 DEF Rest
<1>3. Kept(w)'
  BY <1>1 DEF Decoding, Kept
<1> QED BY <1>2, <1>3 DEF Decoding

LEMMA EndKeeps ==
  ASSUME NEW w, NEW places, Decoding(w, places), InvTyped, NEW verdict, End(verdict)
  PROVE  Keeps(w, places) /\ out' = out /\ status' = verdict
<1>1. /\ UNCHANGED stored /\ at' = at /\ chunkEnd' = chunkEnd /\ chunkStart' = chunkStart
      /\ flags' = flags /\ out' = out /\ pc' = pc /\ status' = verdict
  BY DEF End
<1>2. /\ data' = data /\ start' = start /\ pos' = pos /\ lost' = lost /\ whole' = whole /\ groupFlags' = groupFlags
      /\ buffer' = buffer /\ n' = n
  BY <1>1 DEF stored, encoderVars, n
<1>3. InvTyped'
  BY <1>1, <1>2 DEF InvTyped
<1>4. Rest' = Rest /\ Chunked(w, places, Rest') /\ Len(Rest') <= Len(places) * ChunkSize /\ Kept(w)'
  BY <1>1, DecodingFrame
<1>5. \A k : Reached(k)' = Reached(k)
  BY <1>4 DEF Reached
<1>6. \A k : Between(w, places, k) => Between(w, places, k)'
  BY <1>1, <1>2, <1>4, <1>5 DEF Between
<1>7. \A k, bytes, c : Within(w, places, k, bytes, c) => Within(w, places, k, bytes, c)'
  BY <1>1, <1>2, <1>4, <1>5 DEF Within
<1>8. \A k, bytes : InRaw(w, places, k, bytes) => InRaw(w, places, k, bytes)'
  BY <1>1, <1>4, <1>5, <1>7 DEF InRaw
<1>9. \A base, bytes, els, m : InGroup(base, bytes, els, m) => InGroup(base, bytes, els, m)'
  BY <1>1 DEF InGroup
<1>10. \A k, bytes, els, m : InPacked(w, places, k, bytes, els, m) => InPacked(w, places, k, bytes, els, m)'
  BY <1>1, <1>4, <1>7, <1>9 DEF InPacked
<1>11. Decoding(w, places)'
  BY <1>4, <1>6, <1>8, <1>10 DEF Decoding
<1> QED BY <1>1, <1>3, <1>11 DEF Keeps

LEMMA Prefix ==
  ASSUME NEW d \in Seq(Nat), NEW x \in 0..Len(d)
  PROVE  /\ SubSeq(d, 1, x) \in Seq(Nat) /\ Len(SubSeq(d, 1, x)) = x
         /\ \A i \in 1..x : SubSeq(d, 1, x)[i] = d[i]
<1>1. 0 \in Nat /\ x \in Nat /\ 0 <= x /\ x <= Len(d) /\ d \in Seq(Nat)
  OBVIOUS
<1>2. /\ SubSeq(d, 0 + 1, x) \in Seq(Nat) /\ Len(SubSeq(d, 0 + 1, x)) = x - 0
      /\ \A i \in 1..(x - 0) : SubSeq(d, 0 + 1, x)[i] = d[0 + i]
  BY ONLY <1>1, Stretch
<1> QED BY <1>2

LEMMA WholePrefix ==
  ASSUME NEW d \in Seq(Nat)
  PROVE  SubSeq(d, 1, Len(d)) = d
OBVIOUS

\* The text of chunk k + 1 and its place in the plaintext.
LEMMA AtChunk ==
  ASSUME NEW w, NEW places, NEW d, Chunked(w, places, d), NEW k \in Nat, k < Len(places)
  PROVE  /\ k * ChunkSize \in Nat /\ k * ChunkSize < Len(d) /\ Lesser(k * ChunkSize, Len(d)) = k * ChunkSize
         /\ Text(d, k + 1) \in Seq(Nat) /\ Len(Text(d, k + 1)) \in Nat
         /\ k * ChunkSize + Len(Text(d, k + 1)) = Lesser((k + 1) * ChunkSize, Len(d))
         /\ k * ChunkSize + Len(Text(d, k + 1)) <= Len(d)
         /\ \A i \in 1..Len(Text(d, k + 1)) : Text(d, k + 1)[i] = d[k * ChunkSize + i]
<1>0. d \in Seq(Nat) /\ Len(d) \in Nat /\ k + 1 \in 1..Len(places)
  BY DEF Chunked
<1>1. k * ChunkSize < Len(d)
  <2>1. IsChunk(w, places, d, k + 1)
    BY <1>0, PlacesFacts
  <2>2. (k + 1) - 1 = k
    OBVIOUS
  <2> QED BY <2>1, <2>2 DEF IsChunk
<1> PICK s \in Nat : s = k * ChunkSize
  BY Limits
<1>2. Lesser(s, Len(d)) = s /\ s \in 0..Len(d) /\ s < Len(d)
  BY <1>0, <1>1 DEF Lesser
<1>3. Text(d, k + 1) = Piece(d, s) /\ Lesser(s + ChunkSize, Len(d)) = Lesser((k + 1) * ChunkSize, Len(d))
  <2>1. s = Lesser(k * ChunkSize, Len(d))
    BY <1>2
  <2> QED BY <1>0, <1>2, <2>1, NextPiece
<1>4. /\ Piece(d, s) \in Seq(Nat) /\ Len(Piece(d, s)) = Lesser(s + ChunkSize, Len(d)) - s
      /\ Len(Piece(d, s)) \in Nat
      /\ \A i \in 1..Len(Piece(d, s)) : Piece(d, s)[i] = d[s + i]
  <2>1. d \in Seq(Nat) /\ s \in 0..Len(d)
    BY <1>0, <1>2
  <2>2. /\ Piece(d, s) \in Seq(Nat) /\ Len(Piece(d, s)) = Lesser(s + ChunkSize, Len(d)) - s
        /\ Len(Piece(d, s)) \in 0..ChunkSize
        /\ \A i \in 1..Len(Piece(d, s)) : Piece(d, s)[i] = d[s + i]
    BY ONLY <2>1, PieceFacts
  <2> QED BY <2>2
<1>5. Lesser(s + ChunkSize, Len(d)) \in Nat /\ Lesser(s + ChunkSize, Len(d)) <= Len(d)
  BY <1>0, Limits DEF Lesser
<1>6. s + Len(Piece(d, s)) = Lesser(s + ChunkSize, Len(d))
  BY <1>4, <1>5
<1> QED BY <1>1, <1>2, <1>3, <1>4, <1>5, <1>6

\* The same as one fact.
TextPlaced(d, k) ==
  /\ Text(d, k + 1) \in Seq(Nat) /\ k * ChunkSize + Len(Text(d, k + 1)) <= Len(d) /\ k * ChunkSize \in Nat
  /\ \A i \in 1..Len(Text(d, k + 1)) : Text(d, k + 1)[i] = d[k * ChunkSize + i]

LEMMA ChunkPlaced ==
  ASSUME NEW w, NEW places, NEW d, Chunked(w, places, d), NEW k \in Nat, k < Len(places)
  PROVE  TextPlaced(d, k)
BY AtChunk DEF TextPlaced

\* Whatever became of the buffer, what is there of it is as it was.
LEMMA ByteThere ==
  ASSUME NEW w \in Seq(Cells), Kept(w), NEW c \in Nat \ {0}, NEW bytes \in Seq(Cells), NEW compressed, Wraps(w, c, bytes, compressed)
  PROVE  /\ c <= Len(buffer) => buffer[c] = [kind |-> "header", value |-> [compressed |-> compressed, size |-> Len(bytes) + 2]]
         /\ \A i \in 1..Len(bytes) : c + 1 + i <= Len(buffer) => buffer[c + 1 + i] = bytes[i]
<1>1. /\ Len(w) \in Nat /\ Len(bytes) \in Nat /\ Len(buffer) \in Nat /\ c + 1 + Len(bytes) <= Len(w)
      /\ \A i \in 1..Len(buffer) : i <= Len(w) => buffer[i] = w[i]
  BY DEF Kept, Wraps
<1>2. c <= Len(w) /\ (c <= Len(buffer) => c \in 1..Len(buffer))
  BY <1>1
<1>3. \A i \in 1..Len(bytes) : c + 1 + i <= Len(w) /\ (c + 1 + i <= Len(buffer) => c + 1 + i \in 1..Len(buffer))
  BY <1>1
<1> QED BY <1>1, <1>2, <1>3 DEF Wraps

\* Before chunk k + 1.
LEMMA BetweenChunks ==
  ASSUME NEW w, NEW places, Decoding(w, places), NEW k \in Nat, k < Len(places), Between(w, places, k)
  PROVE  /\ at = places[k + 1] /\ at \in Nat \ {0} /\ Reached(k) = k * ChunkSize
         /\ Len(out) = k * ChunkSize /\ Len(out) % ChunkSize = 0
         /\ at + 3 <= Entry(w, places, k + 2) /\ Entry(w, places, k + 2) \in Nat
         /\ whole => Entry(w, places, k + 2) <= Len(buffer) + 1
<1>0. /\ Rest \in Seq(Nat) /\ Len(Rest) \in Nat /\ Len(w) \in Nat /\ Len(places) \in Nat /\ Len(buffer) \in Nat
      /\ Chunked(w, places, Rest) /\ k + 1 \in 1..Len(places)
  BY DecodingFacts DEF Decoding
<1>1. /\ places[k + 1] \in Nat \ {0} /\ Entry(w, places, k + 1) = places[k + 1]
      /\ Entry(w, places, k + 1 + 1) \in Nat /\ places[k + 1] + 3 <= Entry(w, places, k + 1 + 1)
      /\ Entry(w, places, k + 1 + 1) <= Len(w) + 1
  BY <1>0, PlacesFacts
<1>2. k + 1 + 1 = k + 2
  OBVIOUS
<1>3. at = places[k + 1]
  BY <1>1 DEF Between
<1>4. /\ k * ChunkSize \in Nat /\ k * ChunkSize < Len(Rest) /\ Lesser(k * ChunkSize, Len(Rest)) = k * ChunkSize
  BY <1>0, AtChunk
<1>5. Reached(k) = k * ChunkSize
  BY <1>4 DEF Reached
<1>6. Len(out) = k * ChunkSize
  <2>1. k * ChunkSize \in 0..Len(Rest)
    BY <1>0, <1>4
  <2>2. Len(SubSeq(Rest, 1, k * ChunkSize)) = k * ChunkSize
    BY <1>0, <2>1, Prefix
  <2> QED BY <1>5, <2>2 DEF Between
<1>7. (k * ChunkSize) % ChunkSize = 0
  <2>1. 0 \in 0..(ChunkSize - 1) /\ ChunkSize \in Nat \ {0} /\ k \in Nat
    BY Limits
  <2>2. (ChunkSize * k + 0) % ChunkSize = 0
    BY ONLY <2>1, ComesApart
  <2>3. ChunkSize * k + 0 = k * ChunkSize
    BY <2>1
  <2> QED BY <2>2, <2>3
<1>8. whole => Len(buffer) >= Len(w)
  <2>1. Kept(w)
    BY DEF Decoding
  <2> QED BY <1>0, <2>1 DEF Kept
<1>9. whole => Entry(w, places, k + 1 + 1) <= Len(buffer) + 1
  BY <1>0, <1>1, <1>8
<1>10. at \in Nat \ {0} /\ at + 3 <= Entry(w, places, k + 1 + 1)
  BY <1>1, <1>3
<1> QED BY <1>1, <1>2, <1>3, <1>5, <1>6, <1>7, <1>9, <1>10

\* Behind the last chunk.
LEMMA BehindChunks ==
  ASSUME NEW w, NEW places, Decoding(w, places), Between(w, places, Len(places))
  PROVE  /\ whole /\ out = Rest
         /\ at <= Len(buffer) => Len(buffer) = at + 2 /\ buffer[at].kind = "terminal"
<1>0. /\ Rest \in Seq(Nat) /\ Len(Rest) \in Nat /\ Len(w) \in Nat /\ Len(places) \in Nat /\ Len(buffer) \in Nat
      /\ Len(Rest) <= Len(places) * ChunkSize /\ Kept(w)
  BY DecodingFacts DEF Decoding
<1>1. at = Len(w) + 1 /\ at <= Len(buffer) + 1
  <2>1. ~(Len(places) + 1 <= Len(places))
    BY <1>0
  <2> QED BY <2>1 DEF Between, Entry
<1>2. whole
  <2> SUFFICES ASSUME ~whole PROVE FALSE
    OBVIOUS
  <2>1. Len(buffer) < Len(w)
    BY <1>0 DEF Kept
  <2> QED BY <1>0, <1>1, <2>1
<1>3. out = Rest
  <2>1. Reached(Len(places)) = Len(Rest)
    <3>1. Len(places) * ChunkSize \in Nat
      BY <1>0, Limits
    <3> QED BY <1>0, <3>1 DEF Reached, Lesser
  <2> QED BY <1>0, <2>1, WholePrefix DEF Between
<1>4. Len(buffer) = Len(w) \/ (Len(buffer) = Len(w) + 3 /\ buffer[Len(w) + 1].kind = "terminal")
  BY <1>0, <1>2 DEF Kept
<1> QED BY <1>0, <1>1, <1>2, <1>3, <1>4

LEMMA OnlyBetween ==
  ASSUME NEW w, NEW places, Decoding(w, places), pc = "header"
  PROVE  \E k \in Nat : Between(w, places, k) /\ (k < Len(places) \/ k = Len(places))
<1>1. Len(places) \in Nat
  BY DecodingFacts
<1>2. \A k, bytes : ~InRaw(w, places, k, bytes)
  BY DEF InRaw
<1>3. \A k, bytes, els, m : ~InPacked(w, places, k, bytes, els, m)
  BY DEF InPacked, InGroup
<1> PICK k \in 0..Len(places) : Between(w, places, k)
  BY <1>2, <1>3 DEF Decoding
<1>4. k \in Nat /\ (k < Len(places) \/ k = Len(places))
  BY <1>1
<1> QED BY <1>4

LEMMA FinishKeeps ==
  ASSUME NEW w, NEW places, Decoding(w, places), InvTyped, Finish
  PROVE  Keeps(w, places) /\ Stops
<1> PICK k \in Nat : Between(w, places, k) /\ (k < Len(places) \/ k = Len(places))
  BY OnlyBetween DEF Finish
<1>1. Keeps(w, places) /\ out' = out /\ status' = "done"
  BY EndKeeps DEF Finish
<1>2. CASE k < Len(places)
  <2>1. /\ Len(out) % ChunkSize = 0 /\ at + 3 <= Entry(w, places, k + 2) /\ Entry(w, places, k + 2) \in Nat
        /\ whole => Entry(w, places, k + 2) <= Len(buffer) + 1
        /\ at \in Nat \ {0}
    BY <1>2, BetweenChunks
  <2>2. at > Len(buffer) /\ Len(buffer) \in Nat
    BY DecodingFacts DEF Finish
  <2>3. \A a, e, l \in Nat : a + 3 <= e /\ a > l => ~(e <= l + 1)
    OBVIOUS
  <2>4. ~whole
    BY <2>1, <2>2, <2>3
  <2> QED BY <1>1, <2>1, <2>4 DEF Stops
<1>3. CASE k = Len(places)
  <2>1. whole /\ out = Rest
    BY <1>3, BehindChunks
  <2> QED BY <1>1, <2>1 DEF Stops
<1> QED BY <1>2, <1>3

Somewhere(w, places, k) ==
  \/ Between(w, places, k)
  \/ \E bytes \in Seq(Cells) : InRaw(w, places, k, bytes)
  \/ \E bytes \in Seq(Cells), els \in Seq(Elements), m \in Nat : InPacked(w, places, k, bytes, els, m)

LEMMA StepKeeps ==
  ASSUME NEW w, NEW places, Decoding(w, places), InvTyped, UNCHANGED stored,
         NEW k \in 0..Len(places), Somewhere(w, places, k)',
         at' \in Nat \ {0}, chunkEnd' \in Nat, chunkStart' \in Nat, flags' \in Seq({0, 1}),
         pc' \in {"header", "raw", "group", "element"}
  PROVE  Keeps(w, places)
<1>1. Chunked(w, places, Rest') /\ Len(Rest') <= Len(places) * ChunkSize /\ Kept(w)'
  BY DecodingFrame
<1>2. Decoding(w, places)'
  BY <1>1 DEF Decoding, Somewhere
<1>3. /\ data' = data /\ start' = start /\ pos' = pos /\ lost' = lost /\ whole' = whole /\ groupFlags' = groupFlags
      /\ buffer' = buffer /\ n' = n
  BY DEF stored, encoderVars, n
<1>4. InvTyped'
  BY <1>3 DEF InvTyped
<1> QED BY <1>2, <1>4 DEF Keeps

\* The bytes of chunk k + 1.
Holding(w, places, k, bytes, compressed) ==
  /\ bytes \in Seq(Cells) /\ compressed \in BOOLEAN
  /\ Wraps(w, places[k + 1], bytes, compressed)
  /\ StandFor(bytes, compressed, Text(Rest, k + 1))
  /\ Len(bytes) \in 1..ChunkSize
  /\ Entry(w, places, k + 2) = places[k + 1] + 2 + Len(bytes)

LEMMA ChunkHeld ==
  ASSUME NEW w, NEW places, Decoding(w, places), NEW k \in Nat, k < Len(places)
  PROVE  \E bytes, compressed : Holding(w, places, k, bytes, compressed)
<1>1. Chunked(w, places, Rest) /\ k + 1 \in 1..Len(places)
  BY DecodingFacts DEF Decoding
<1>2. IsChunk(w, places, Rest, k + 1)
  BY <1>1, PlacesFacts
<1>3. k + 1 + 1 = k + 2
  OBVIOUS
<1> QED BY <1>2, <1>3 DEF IsChunk, Holding

LEMMA ChunkEntered ==
  ASSUME NEW w, NEW places, Decoding(w, places), InvTyped, NEW k \in Nat, k < Len(places), Between(w, places, k),
         NEW bytes, NEW compressed, Holding(w, places, k, bytes, compressed),
         chunkEnd' = places[k + 1] + 2 + Len(bytes), chunkEnd' <= Len(buffer) + 1,
         chunkStart' = Len(out), at' = at + 2,
         pc' = IF compressed THEN "group" ELSE "raw",
         UNCHANGED <<stored, flags, out, status>>
  PROVE  Keeps(w, places)
<1>1. /\ at = places[k + 1] /\ at \in Nat \ {0} /\ Reached(k) = k * ChunkSize
      /\ Len(out) = k * ChunkSize
  BY BetweenChunks
<1>2. Rest' = Rest /\ \A j : Reached(j)' = Reached(j)
  BY DecodingFrame DEF Reached
<1>3. bytes \in Seq(Cells) /\ Len(bytes) \in Nat /\ compressed \in BOOLEAN
  BY DEF Holding
<1>4. Within(w, places, k, bytes, compressed)'
  <2>1. buffer' = buffer
    BY DEF stored
  <2>2. chunkStart' = Reached(k)' /\ chunkStart' = k * ChunkSize
    BY <1>1, <1>2
  <2>3. StandFor(bytes, compressed, Text(Rest', k + 1))
    BY <1>2 DEF Holding
  <2>4. chunkEnd' = Entry(w, places, k + 2)
    BY DEF Holding
  <2> QED BY <2>1, <2>2, <2>3, <2>4 DEF Within, Holding
<1>5. out' = SubSeq(Rest', 1, Reached(k)') /\ Reached(k)' = k * ChunkSize
  BY <1>1, <1>2 DEF Between
<1>6. Somewhere(w, places, k)'
  <2>1. CASE ~compressed
    <3>1. pc' = "raw" /\ at' = places[k + 1] + 2 /\ compressed = FALSE
      BY <1>1, <1>3, <2>1
    <3>2. InRaw(w, places, k, bytes)'
      BY <1>4, <1>5, <3>1 DEF InRaw
    <3> QED BY <1>3, <3>2 DEF Somewhere
  <2>2. CASE compressed
    <3>1. pc' = "group" /\ compressed = TRUE
      BY <1>3, <2>2
    <3> PICK els : Packed(bytes, Text(Rest, k + 1), els) /\ Spot(els, Len(els)).from = Len(Text(Rest, k + 1))
      BY <2>2 DEF Holding, StandFor
    <3>2. els \in Seq(Elements) /\ Len(els) \in Nat /\ 0 <= Len(els)
      BY DEF Packed
    <3>3. Spot(els, 0) = Start /\ Start.from = 0 /\ Start.bit = 1 /\ Cursor(Start) = 1
      BY DEF Spot, Start, Cursor
    <3>4. InGroup(places[k + 1] + 1, bytes, els, 0)'
      <4>1. at' = places[k + 1] + 1 + Cursor(Spot(els, 0))
        BY <1>1, <3>3
      <4> QED BY <3>1, <3>3, <4>1 DEF InGroup
    <3>5. out' = SubSeq(Rest', 1, chunkStart' + Spot(els, 0).from)
      <4>1. chunkStart' = k * ChunkSize /\ k * ChunkSize \in Nat
        BY <1>1, Limits
      <4>2. chunkStart' + Spot(els, 0).from = Reached(k)'
        BY <1>5, <3>3, <4>1
      <4> QED BY <1>5, <4>2
    <3>6. InPacked(w, places, k, bytes, els, 0)'
      BY <1>2, <1>4, <3>1, <3>2, <3>4, <3>5 DEF InPacked
    <3> QED BY <1>3, <3>2, <3>6 DEF Somewhere
  <2> QED BY <1>3, <2>1, <2>2
<1>7. /\ at' \in Nat \ {0} /\ chunkEnd' \in Nat /\ chunkStart' \in Nat /\ flags' \in Seq({0, 1})
      /\ pc' \in {"header", "raw", "group", "element"}
  <2>1. k * ChunkSize \in Nat /\ places[k + 1] \in Nat
    BY <1>1, Limits
  <2>2. at' \in Nat \ {0} /\ flags' \in Seq({0, 1})
    <3>1. \A x \in Nat : x + 2 \in Nat \ {0}
      OBVIOUS
    <3>2. at \in Nat /\ at' = at + 2
      BY <1>1
    <3>3. flags' = flags
      OBVIOUS
    <3>4. flags \in Seq({0, 1})
      BY DEF InvTyped
    <3>5. at' \in Nat \ {0}
      BY ONLY <3>1, <3>2
    <3> QED BY ONLY <3>3, <3>4, <3>5
  <2>3. chunkEnd' \in Nat
    BY <1>3, <2>1
  <2>4. chunkStart' \in Nat
    BY <1>1, <2>1
  <2>5. pc' \in {"header", "raw", "group", "element"}
    BY <1>3
  <2> QED BY <2>2, <2>3, <2>4, <2>5
<1>8. k \in 0..Len(places)
  BY DecodingFacts
<1> QED BY <1>6, <1>7, <1>8, StepKeeps

LEMMA ReadHeaderKeeps ==
  ASSUME NEW w, NEW places, Decoding(w, places), InvTyped, ReadHeader
  PROVE  Keeps(w, places) /\ (Continues \/ Stops)
<1> PICK k \in Nat : Between(w, places, k) /\ (k < Len(places) \/ k = Len(places))
  BY OnlyBetween DEF ReadHeader
<1>0. at <= Len(buffer) /\ Len(buffer) \in Nat /\ at \in Nat \ {0} /\ w \in Seq(Cells) /\ Kept(w)
  BY DecodingFacts DEF ReadHeader, InvTyped, Decoding
<1>1. CASE k < Len(places)
  <2>1. /\ at = places[k + 1] /\ Len(out) % ChunkSize = 0
        /\ at + 3 <= Entry(w, places, k + 2) /\ Entry(w, places, k + 2) \in Nat
        /\ whole => Entry(w, places, k + 2) <= Len(buffer) + 1
    BY <1>1, BetweenChunks
  <2> PICK bytes, compressed : Holding(w, places, k, bytes, compressed)
    BY <1>1, ChunkHeld
  <2>2. buffer[at] = [kind |-> "header", value |-> [compressed |-> compressed, size |-> Len(bytes) + 2]]
    <3>1. Wraps(w, at, bytes, compressed) /\ bytes \in Seq(Cells)
      BY <2>1 DEF Holding
    <3> QED BY <1>0, <3>1, ByteThere
  <2>3. /\ buffer[at].kind = "header" /\ buffer[at].kind # "terminal"
        /\ Value.size = Len(bytes) + 2 /\ Value.compressed = compressed
    BY <2>2 DEF Value
  <2>4. EndOfChunk = Entry(w, places, k + 2) /\ EndOfChunk = places[k + 1] + 2 + Len(bytes)
    <3>1. Len(bytes) \in Nat
      BY DEF Holding
    <3>2. \A x, y \in Nat : x + (y + 2) = x + 2 + y
      OBVIOUS
    <3>3. EndOfChunk = at + (Len(bytes) + 2)
      BY <2>3 DEF EndOfChunk
    <3>4. EndOfChunk = at + 2 + Len(bytes)
      BY <1>0, <3>1, <3>2, <3>3
    <3> QED BY <2>1, <3>4 DEF Holding
  <2>5. CASE at = Len(buffer)
    <3>1. Keeps(w, places) /\ out' = out /\ status' = "corrupt"
      BY <2>5, EndKeeps DEF ReadHeader
    <3>2. ~whole
      <4>1. \A a, e, l \in Nat : a + 3 <= e /\ a = l => ~(e <= l + 1)
        OBVIOUS
      <4> QED BY <1>0, <2>1, <2>5, <4>1
    <3> QED BY <3>1, <3>2 DEF Stops
  <2>6. CASE at # Len(buffer) /\ EndOfChunk > Len(buffer) + 1
    <3>1. End("corrupt")
      BY <2>3, <2>6 DEF ReadHeader, Expect
    <3>2. Keeps(w, places) /\ out' = out /\ status' = "corrupt"
      BY <3>1, EndKeeps
    <3>3. ~whole
      BY <1>0, <2>1, <2>4, <2>6
    <3> QED BY <3>2, <3>3 DEF Stops
  <2>7. CASE at # Len(buffer) /\ ~(EndOfChunk > Len(buffer) + 1)
    <3>1. /\ chunkEnd' = EndOfChunk /\ chunkStart' = Len(out) /\ at' = at + 2
          /\ pc' = IF compressed THEN "group" ELSE "raw"
          /\ UNCHANGED <<stored, flags, out, status>>
      BY <2>3, <2>7 DEF ReadHeader, Expect
    <3>2. chunkEnd' = places[k + 1] + 2 + Len(bytes) /\ chunkEnd' <= Len(buffer) + 1
      BY <1>0, <2>1, <2>4, <2>7, <3>1
    <3>3. Keeps(w, places)
      BY <1>1, <3>1, <3>2, ChunkEntered
    <3> QED BY <3>1, <3>3 DEF Continues
  <2> QED BY <2>5, <2>6, <2>7
<1>2. CASE k = Len(places)
  <2>1. whole /\ out = Rest /\ Len(buffer) = at + 2 /\ buffer[at].kind = "terminal"
    BY <1>0, <1>2, BehindChunks
  <2>2. at # Len(buffer)
    BY <1>0, <2>1
  <2>3. End("done")
    BY <2>1, <2>2 DEF ReadHeader
  <2>4. Keeps(w, places) /\ out' = out /\ status' = "done"
    BY <2>3, EndKeeps
  <2> QED BY <2>1, <2>4 DEF Stops
<1> QED BY <1>1, <1>2

LEMMA PrefixExtended ==
  ASSUME NEW d \in Seq(Nat), NEW x \in Nat, NEW t \in Seq(Nat), x + Len(t) <= Len(d),
         \A i \in 1..Len(t) : t[i] = d[x + i]
  PROVE  SubSeq(d, 1, x) \o t = SubSeq(d, 1, x + Len(t))
<1> DEFINE a == SubSeq(d, 1, x)
           b == SubSeq(d, 1, x + Len(t))
           c == a \o t
<1>1. Len(t) \in Nat /\ Len(d) \in Nat /\ x \in 0..Len(d) /\ x + Len(t) \in 0..Len(d)
  OBVIOUS
<1>2. a \in Seq(Nat) /\ Len(a) = x /\ \A i \in 1..x : a[i] = d[i]
  BY <1>1, Prefix
<1>3. b \in Seq(Nat) /\ Len(b) = x + Len(t) /\ \A i \in 1..(x + Len(t)) : b[i] = d[i]
  BY <1>1, Prefix
<1> HIDE DEF a, b
<1>4. /\ c \in Seq(Nat) /\ Len(c) = Len(a) + Len(t)
      /\ \A j \in 1..Len(a) : c[j] = a[j]
      /\ \A j \in 1..Len(t) : c[Len(a) + j] = t[j]
  <2>1. a \in Seq(Nat) /\ t \in Seq(Nat)
    BY <1>2
  <2> QED BY ONLY <2>1, TwoParts
<1> HIDE DEF c
<1>5. ASSUME NEW i \in 1..Len(c) PROVE c[i] = b[i]
  <2>1. i \in 1..(x + Len(t))
    BY <1>2, <1>4
  <2>2. b[i] = d[i]
    BY <1>3, <2>1
  <2>3. CASE i <= x
    <3>1. i \in 1..x
      BY <2>1, <2>3
    <3> QED BY <1>2, <1>4, <2>2, <3>1
  <2>4. CASE ~(i <= x)
    <3>1. i - x \in 1..Len(t) /\ x + (i - x) = i
      BY <1>1, <2>1, <2>4
    <3>2. c[x + (i - x)] = t[i - x] /\ t[i - x] = d[x + (i - x)]
      BY <1>2, <1>4, <3>1
    <3> QED BY <2>2, <3>1, <3>2
  <2> QED BY <2>3, <2>4
<1>6. Len(c) = Len(b)
  BY <1>2, <1>3, <1>4
<1>7. c = b
  BY <1>3, <1>4, <1>5, <1>6, SeqEqual
<1> QED BY <1>7 DEF a, b, c

\* At the end of chunk k + 1.
LEMMA ChunkLeft ==
  ASSUME NEW w, NEW places, Decoding(w, places), InvTyped, UNCHANGED stored,
         NEW k \in Nat, NEW bytes, NEW compressed, Within(w, places, k, bytes, compressed),
         at' = chunkEnd, pc' = "header", out' = SubSeq(Rest, 1, chunkStart + Len(Text(Rest, k + 1))),
         chunkEnd' = chunkEnd, chunkStart' = chunkStart, flags' = flags
  PROVE  Keeps(w, places)
<1>0. k < Len(places) /\ Chunked(w, places, Rest) /\ Len(places) \in Nat
  BY DecodingFacts DEF Within, Decoding
<1>1. k * ChunkSize + Len(Text(Rest, k + 1)) = Lesser((k + 1) * ChunkSize, Len(Rest))
  BY <1>0, AtChunk
<1>2. Rest' = Rest
  BY DecodingFrame
<1>3. Reached(k + 1)' = chunkStart + Len(Text(Rest, k + 1))
  BY <1>1, <1>2 DEF Reached, Within
<1>4. at' = Entry(w, places, k + 1 + 1) /\ at' <= Len(buffer') + 1
  <2>1. buffer' = buffer
    BY DEF stored
  <2>2. k + 1 + 1 = k + 2
    OBVIOUS
  <2> QED BY <2>1, <2>2 DEF Within
<1>5. Between(w, places, k + 1)'
  BY <1>2, <1>3, <1>4 DEF Between
<1>6. k + 1 \in 0..Len(places) /\ k + 1 \in 1..Len(places)
  BY <1>0
<1>7. at' \in Nat \ {0}
  <2>1. places[k + 1] \in Nat /\ Len(bytes) \in Nat
    <3>1. places[k + 1] \in Nat \ {0}
      BY <1>0, <1>6, PlacesFacts
    <3>2. Len(bytes) \in Nat
      BY DEF Within
    <3> QED BY <3>1, <3>2
  <2>2. chunkEnd = places[k + 1] + 2 + Len(bytes)
    BY DEF Within
  <2>3. \A x, y \in Nat : x + 2 + y \in Nat \ {0}
    OBVIOUS
  <2> QED BY <2>1, <2>2, <2>3
<1>8. Somewhere(w, places, k + 1)'
  BY <1>5 DEF Somewhere
<1>9. chunkEnd' \in Nat /\ chunkStart' \in Nat /\ flags' \in Seq({0, 1}) /\ pc' \in {"header", "raw", "group", "element"}
  BY DEF InvTyped
<1> QED BY <1>6, <1>7, <1>8, <1>9, StepKeeps

LEMMA OnlyRaw ==
  ASSUME NEW w, NEW places, Decoding(w, places), pc = "raw"
  PROVE  \E k \in Nat, bytes \in Seq(Cells) : InRaw(w, places, k, bytes)
<1>1. \A k : ~Between(w, places, k)
  BY DEF Between
<1>2. \A k, bytes, els, m : ~InPacked(w, places, k, bytes, els, m)
  BY DEF InPacked, InGroup
<1> QED BY <1>1, <1>2 DEF Decoding

LEMMA OnlyPacked ==
  ASSUME NEW w, NEW places, Decoding(w, places), pc \in {"group", "element"}
  PROVE  \E k \in Nat, bytes \in Seq(Cells), els \in Seq(Elements), m \in Nat : InPacked(w, places, k, bytes, els, m)
<1>1. \A k : ~Between(w, places, k)
  BY DEF Between
<1>2. \A k, bytes : ~InRaw(w, places, k, bytes)
  BY DEF InRaw
<1> QED BY <1>1, <1>2 DEF Decoding

LEMMA ReadRawKeeps ==
  ASSUME NEW w, NEW places, Decoding(w, places), InvTyped, ReadRaw
  PROVE  Keeps(w, places) /\ Continues
<1> PICK k \in Nat, bytes \in Seq(Cells) : InRaw(w, places, k, bytes)
  BY OnlyRaw DEF ReadRaw
<1> DEFINE T == Text(Rest, k + 1)
           c == places[k + 1]
           new == [i \in 1..(chunkEnd - at) |-> buffer[at + i - 1].value]
<1>0. Within(w, places, k, bytes, FALSE) /\ at = c + 2 /\ out = SubSeq(Rest, 1, Reached(k)) /\ bytes = Raw(T)
  BY DEF InRaw, Within, StandFor
<1>1. /\ k < Len(places) /\ Chunked(w, places, Rest) /\ Kept(w) /\ w \in Seq(Cells) /\ Rest \in Seq(Nat)
      /\ c \in Nat \ {0} /\ Len(buffer) \in Nat
  <2>1. k < Len(places) /\ Chunked(w, places, Rest) /\ Kept(w) /\ w \in Seq(Cells) /\ Rest \in Seq(Nat) /\ Len(buffer) \in Nat /\ Len(places) \in Nat
    BY <1>0, DecodingFacts DEF Within, Decoding
  <2>2. k + 1 \in 1..Len(places)
    BY <2>1
  <2> QED BY <2>1, <2>2, PlacesFacts
<1>2. /\ T \in Seq(Nat) /\ k * ChunkSize + Len(T) <= Len(Rest) /\ k * ChunkSize \in Nat
      /\ \A i \in 1..Len(T) : T[i] = Rest[k * ChunkSize + i]
  <2>1. Chunked(w, places, Rest) /\ k < Len(places) /\ k \in Nat
    BY <1>1
  <2>2. TextPlaced(Rest, k)
    BY ONLY <2>1, ChunkPlaced
  <2> QED BY ONLY <2>2 DEF TextPlaced
<1>3. Len(bytes) = Len(T) /\ \A i \in 1..Len(T) : bytes[i] = [kind |-> "literal", value |-> T[i]]
  BY <1>0, <1>2, RawFacts
<1>4. /\ chunkEnd = c + 2 + Len(T) /\ chunkEnd <= Len(buffer) + 1 /\ Len(T) \in Nat \ {0}
      /\ chunkStart = k * ChunkSize /\ chunkStart = Reached(k)
  <2>1. Len(bytes) \in Nat \ {0}
    BY <1>0 DEF Within
  <2> QED BY <1>0, <1>3, <2>1 DEF Within
<1> HIDE DEF T, c
<1>5. ASSUME NEW i \in 1..Len(T) PROVE buffer[at + i - 1].value = T[i]
  <2>1. at + i - 1 = c + 1 + i /\ c + 1 + i <= Len(buffer)
    BY <1>0, <1>1, <1>4
  <2>2. Wraps(w, c, bytes, FALSE)
    BY <1>0 DEF Within, c
  <2>3. i \in 1..Len(bytes)
    BY <1>3
  <2>4. buffer[c + 1 + i] = bytes[i]
    BY <1>1, <2>1, <2>2, <2>3, ByteThere
  <2>5. buffer[at + i - 1] = bytes[i]
    BY ONLY <2>1, <2>4
  <2>6. bytes[i].value = T[i]
    <3>1. bytes[i] = [kind |-> "literal", value |-> T[i]]
      BY <1>3
    <3> QED BY ONLY <3>1
  <2> QED BY ONLY <2>5, <2>6
<1>6. chunkEnd - at = Len(T)
  BY <1>0, <1>1, <1>4
<1>7. new = T
  <2>1. new = [i \in 1..Len(T) |-> buffer[at + i - 1].value]
    BY <1>6
  <2> HIDE DEF new
  <2>2. new \in [1..Len(T) -> Nat] /\ \A i \in 1..Len(T) : new[i] = T[i]
    <3>1. \A i \in 1..Len(T) : T[i] \in Nat
      BY <1>2
    <3> QED BY <1>5, <2>1, <3>1
  <2>3. T = [i \in 1..Len(T) |-> T[i]]
    BY <1>2
  <2> QED BY <2>2, <2>3
<1>8. out' = SubSeq(Rest, 1, chunkStart + Len(T))
  <2>1. SubSeq(Rest, 1, k * ChunkSize) \o T = SubSeq(Rest, 1, k * ChunkSize + Len(T))
    BY <1>1, <1>2, PrefixExtended
  <2>2. out' = out \o T
    BY <1>7 DEF ReadRaw
  <2> QED BY <1>0, <1>4, <2>1, <2>2
<1>9. /\ at' = chunkEnd /\ pc' = "header" /\ chunkEnd' = chunkEnd /\ chunkStart' = chunkStart /\ flags' = flags
      /\ UNCHANGED stored /\ status' = status
  BY DEF ReadRaw
<1>10. Keeps(w, places)
  BY <1>0, <1>8, <1>9, ChunkLeft DEF T
<1>11. chunkStart + Len(T) \in (Len(out) + 1)..Len(Rest)
  <2>1. Len(out) = k * ChunkSize
    <3>1. k * ChunkSize \in 0..Len(Rest)
      BY <1>1, <1>2, <1>4
    <3> QED BY <1>0, <1>1, <1>4, <3>1, Prefix
  <2>2. Len(Rest) \in Nat
    BY <1>1
  <2> QED BY <1>2, <1>4, <2>1, <2>2
<1> QED BY <1>8, <1>9, <1>10, <1>11 DEF Continues

\* The element behind the first m, in the bytes of its chunk.
LEMMA ElementAhead ==
  ASSUME NEW bytes, NEW t, NEW els, Packed(bytes, t, els), NEW m \in Nat, m < Len(els)
  PROVE  /\ Spot(els, m).word \in 1..Len(bytes) /\ Spot(els, m).at \in 1..Len(bytes)
         /\ Cursor(Spot(els, m)) <= Spot(els, m).at /\ Cursor(Spot(els, m)) \in Nat \ {0}
         /\ Spot(els, m).at + Size(els[m + 1]) - 1 <= Len(bytes)
         /\ bytes[Spot(els, m).word].kind = "flags"
         /\ bytes[Spot(els, m).word].value \in [1..GroupSize -> {0, 1}]
         /\ Spot(els, m).bit \in 1..GroupSize
         /\ bytes[Spot(els, m).word].value[Spot(els, m).bit] = Flag(els[m + 1])
         /\ els[m + 1] \in Elements /\ els[m + 1].spot = Spot(els, m) /\ Sound(t, els[m + 1])
<1> DEFINE s == Spot(els, m)
<1>1. bytes \in Seq(Cells) /\ Len(bytes) \in Nat /\ Len(els) \in Nat /\ m \in 0..Len(els)
  BY DEF Packed
<1>2. /\ els[m + 1] \in Elements /\ els[m + 1].spot = s /\ Sound(t, els[m + 1]) /\ Holds(bytes, t, els[m + 1])
  BY NextElement
<1>3. /\ s.word < s.at /\ s.word \in Nat \ {0} /\ s.bit \in 1..GroupSize /\ s.at \in Nat \ {0} /\ Cursor(s) \in Nat \ {0}
  BY <1>1, SpotFacts
<1>4. Size(els[m + 1]) \in {1, 2}
  BY <1>2, ElementFacts
<1> HIDE DEF s
<1>5. /\ s.at + Size(els[m + 1]) - 1 <= Len(bytes)
      /\ bytes[s.word].kind = "flags" /\ bytes[s.word].value[s.bit] = Flag(els[m + 1])
  BY <1>2 DEF Holds
<1>6. s.at \in 1..Len(bytes) /\ s.word \in 1..Len(bytes)
  BY <1>1, <1>3, <1>4, <1>5
<1>7. bytes[s.word].value \in [1..GroupSize -> {0, 1}]
  <2>1. bytes[s.word] \in Cells
    BY <1>1, <1>6
  <2> QED BY <1>5, <2>1 DEF Cells
<1>8. Cursor(s) <= s.at
  BY <1>3 DEF Cursor
<1> QED BY <1>2, <1>3, <1>5, <1>6, <1>7, <1>8 DEF s

LEMMA InPackedFacts ==
  ASSUME NEW w, NEW places, Decoding(w, places),
         NEW k \in Nat, NEW bytes \in Seq(Cells), NEW els, NEW m \in Nat, InPacked(w, places, k, bytes, els, m)
  PROVE  /\ places[k + 1] \in Nat \ {0} /\ Len(bytes) \in Nat
         /\ chunkEnd = places[k + 1] + 1 + (Len(bytes) + 1)
         /\ k < Len(places) /\ Packed(bytes, Text(Rest, k + 1), els) /\ Len(els) \in Nat /\ m \in 0..Len(els)
         /\ m = Len(els) => places[k + 1] + 1 + Cursor(Spot(els, m)) = chunkEnd
         /\ m < Len(els) => places[k + 1] + 1 + Spot(els, m).at < chunkEnd
         /\ \A i \in 1..Len(bytes) : buffer[places[k + 1] + 1 + i] = bytes[i]
<1>1. Within(w, places, k, bytes, TRUE) /\ Packed(bytes, Text(Rest, k + 1), els) /\ m <= Len(els)
  BY DEF InPacked
<1>2. Len(bytes) \in Nat /\ Len(els) \in Nat /\ Len(bytes) + 1 = Cursor(Spot(els, Len(els)))
  BY <1>1 DEF Packed
<1>3. /\ k < Len(places) /\ Chunked(w, places, Rest) /\ Kept(w) /\ w \in Seq(Cells) /\ Len(places) \in Nat
  BY <1>1, DecodingFacts DEF Within, Decoding
<1>4. places[k + 1] \in Nat \ {0}
  <2>1. k + 1 \in 1..Len(places)
    BY <1>3
  <2> QED BY <1>3, <2>1, PlacesFacts
<1>5. chunkEnd = places[k + 1] + 1 + (Len(bytes) + 1) /\ chunkEnd <= Len(buffer) + 1 /\ Len(buffer) \in Nat
  <2>1. chunkEnd = places[k + 1] + 2 + Len(bytes) /\ chunkEnd <= Len(buffer) + 1
    BY <1>1 DEF Within
  <2>2. \A x, y \in Nat : x + 2 + y = x + 1 + (y + 1)
    OBVIOUS
  <2>3. Len(buffer) \in Nat
    BY DecodingFacts
  <2>4. places[k + 1] + 2 + Len(bytes) = places[k + 1] + 1 + (Len(bytes) + 1)
    BY <1>2, <1>4, <2>2
  <2> QED BY <2>1, <2>3, <2>4
<1>6. m = Len(els) => places[k + 1] + 1 + Cursor(Spot(els, m)) = chunkEnd
  BY <1>2, <1>5
<1>7. m < Len(els) => places[k + 1] + 1 + Spot(els, m).at < chunkEnd
  <2> SUFFICES ASSUME m < Len(els) PROVE places[k + 1] + 1 + Spot(els, m).at < chunkEnd
    OBVIOUS
  <2>1. Spot(els, m).at \in 1..Len(bytes)
    BY <1>1, ElementAhead
  <2> QED BY <1>2, <1>4, <1>5, <2>1
<1>8. ASSUME NEW i \in 1..Len(bytes) PROVE buffer[places[k + 1] + 1 + i] = bytes[i]
  <2>1. places[k + 1] + 1 + i <= Len(buffer)
    BY <1>2, <1>4, <1>5
  <2>2. Wraps(w, places[k + 1], bytes, TRUE)
    BY <1>1 DEF Within
  <2> QED BY <1>3, <1>4, <2>1, <2>2, ByteThere
<1>9. m \in 0..Len(els)
  BY <1>1, <1>2
<1> QED BY <1>1, <1>2, <1>3, <1>4, <1>5, <1>6, <1>7, <1>8, <1>9

LEMMA PackedStep ==
  ASSUME NEW w, NEW places, Decoding(w, places), InvTyped, UNCHANGED stored,
         NEW k \in Nat, NEW bytes \in Seq(Cells), NEW els \in Seq(Elements), NEW m \in Nat,
         InPacked(w, places, k, bytes, els, m),
         NEW j \in Nat, j <= Len(els), InGroup(places[k + 1] + 1, bytes, els, j)',
         out' = SubSeq(Rest, 1, chunkStart + Spot(els, j).from),
         chunkEnd' = chunkEnd, chunkStart' = chunkStart,
         at' \in Nat \ {0}, flags' \in Seq({0, 1}), pc' \in {"group", "element"}
  PROVE  Keeps(w, places)
<1>1. Rest' = Rest /\ \A i : Reached(i)' = Reached(i)
  BY DecodingFrame DEF Reached
<1>2. buffer' = buffer
  BY DEF stored
<1>3. Within(w, places, k, bytes, TRUE)'
  <2>1. Within(w, places, k, bytes, TRUE)
    BY DEF InPacked
  <2> QED BY <1>1, <1>2, <2>1 DEF Within
<1>4. /\ Packed(bytes, Text(Rest', k + 1), els) /\ Spot(els, Len(els)).from = Len(Text(Rest', k + 1))
      /\ out' = SubSeq(Rest', 1, chunkStart' + Spot(els, j).from)
  BY <1>1 DEF InPacked
<1>5. InPacked(w, places, k, bytes, els, j)'
  BY <1>3, <1>4 DEF InPacked
<1>6. Somewhere(w, places, k)'
  BY <1>5 DEF Somewhere
<1>7. k \in 0..Len(places)
  <2>1. k < Len(places) /\ Len(places) \in Nat
    BY InPackedFacts, DecodingFacts
  <2> QED BY <2>1
<1>8. chunkEnd' \in Nat /\ chunkStart' \in Nat
  BY DEF InvTyped
<1> QED BY <1>6, <1>7, <1>8, StepKeeps

LEMMA LeaveChunkKeeps ==
  ASSUME NEW w, NEW places, Decoding(w, places), InvTyped, LeaveChunk
  PROVE  Keeps(w, places) /\ Continues
<1> PICK k \in Nat, bytes \in Seq(Cells), els \in Seq(Elements), m \in Nat : InPacked(w, places, k, bytes, els, m)
  BY OnlyPacked DEF LeaveChunk
<1>1. /\ places[k + 1] \in Nat \ {0} /\ Packed(bytes, Text(Rest, k + 1), els) /\ Len(els) \in Nat /\ m \in 0..Len(els)
      /\ m < Len(els) => places[k + 1] + 1 + Spot(els, m).at < chunkEnd
  BY InPackedFacts
<1>2. at = places[k + 1] + 1 + Cursor(Spot(els, m)) /\ at >= chunkEnd
  BY DEF LeaveChunk, InPacked, InGroup
<1>3. m = Len(els)
  <2> SUFFICES ASSUME m < Len(els) PROVE FALSE
    BY <1>1
  <2>1. Cursor(Spot(els, m)) <= Spot(els, m).at /\ Cursor(Spot(els, m)) \in Nat \ {0} /\ Spot(els, m).at \in 1..Len(bytes)
    BY <1>1, ElementAhead
  <2>2. Spot(els, m).at \in Nat /\ chunkEnd \in Nat
    BY <2>1 DEF InvTyped
  <2>3. \A a, b, c, e \in Nat : b <= c /\ a + 1 + c < e => ~(a + 1 + b >= e)
    OBVIOUS
  <2> QED BY <1>1, <1>2, <2>1, <2>2, <2>3
<1>4. out' = SubSeq(Rest, 1, chunkStart + Len(Text(Rest, k + 1)))
  BY <1>3 DEF LeaveChunk, InPacked
<1>5. Within(w, places, k, bytes, TRUE)
  BY DEF InPacked
<1>6. /\ at' = chunkEnd /\ pc' = "header" /\ chunkEnd' = chunkEnd /\ chunkStart' = chunkStart /\ flags' = flags
      /\ UNCHANGED stored /\ status' = status /\ out' = out
  BY DEF LeaveChunk
<1>7. Keeps(w, places)
  BY <1>4, <1>5, <1>6, ChunkLeft
<1> QED BY <1>6, <1>7 DEF Continues

\* A flag byte holds this many flags.
LEMMA FlagByteFacts ==
  ASSUME NEW f \in [1..GroupSize -> {0, 1}]
  PROVE  /\ f \in Seq({0, 1}) /\ Len(f) = GroupSize
         /\ \A b \in 1..GroupSize :
              /\ SubSeq(f, b, GroupSize) \in Seq({0, 1}) /\ SubSeq(f, b, GroupSize) # << >>
              /\ SubSeq(f, b, GroupSize)[1] = f[b]
              /\ SubSeq(SubSeq(f, b, GroupSize), 2, Len(SubSeq(f, b, GroupSize))) = SubSeq(f, b + 1, GroupSize)
         /\ SubSeq(f, 1, GroupSize) = f /\ SubSeq(f, GroupSize + 1, GroupSize) = << >>
<1>0. GroupSize \in Nat \ {0}
  BY Limits
<1>1. f \in Seq({0, 1}) /\ Len(f) = GroupSize
  BY <1>0
<1>2. SubSeq(f, 1, GroupSize) = f /\ SubSeq(f, GroupSize + 1, GroupSize) = << >>
  BY <1>0, <1>1
<1>3. ASSUME NEW b \in 1..GroupSize
      PROVE  /\ SubSeq(f, b, GroupSize) \in Seq({0, 1}) /\ SubSeq(f, b, GroupSize) # << >>
             /\ SubSeq(f, b, GroupSize)[1] = f[b]
             /\ SubSeq(SubSeq(f, b, GroupSize), 2, Len(SubSeq(f, b, GroupSize))) = SubSeq(f, b + 1, GroupSize)
  <2> DEFINE g == SubSeq(f, b, GroupSize)
             h == SubSeq(f, b + 1, GroupSize)
             l == SubSeq(g, 2, Len(g))
  <2>1. g \in Seq({0, 1}) /\ Len(g) = GroupSize - b + 1 /\ \A i \in 1..(GroupSize - b + 1) : g[i] = f[b + i - 1]
    BY <1>0, <1>1
  <2>2. h \in Seq({0, 1}) /\ Len(h) = GroupSize - b /\ \A i \in 1..(GroupSize - b) : h[i] = f[b + i]
    BY <1>0, <1>1
  <2> HIDE DEF g, h
  <2>3. Len(g) \in Nat \ {0} /\ Len(g) - 1 = GroupSize - b
    BY <1>0, <2>1
  <2>4. l \in Seq({0, 1}) /\ Len(l) = Len(g) - 1 /\ \A i \in 1..(Len(g) - 1) : l[i] = g[i + 1]
    BY <2>1, <2>3
  <2> HIDE DEF l
  <2>5. ASSUME NEW i \in 1..Len(l) PROVE l[i] = h[i]
    <3>1. i + 1 \in 1..(GroupSize - b + 1) /\ b + (i + 1) - 1 = b + i /\ i \in 1..(GroupSize - b)
      BY <1>0, <2>3, <2>4
    <3>2. l[i] = g[i + 1]
      BY <2>4
    <3>3. g[i + 1] = f[b + (i + 1) - 1]
      BY <2>1, <3>1
    <3> QED BY <2>2, <3>1, <3>2, <3>3
  <2>6. l = h
    <3>1. Len(l) = Len(h)
      BY <2>2, <2>3, <2>4
    <3> QED BY <2>2, <2>4, <2>5, <3>1, SeqEqual
  <2>7. g[1] = f[b] /\ g # << >>
    <3>1. 1 \in 1..(GroupSize - b + 1) /\ b + 1 - 1 = b
      BY <1>0
    <3> QED BY <2>1, <2>3, <3>1
  <2> QED BY <2>1, <2>6, <2>7 DEF g, h, l
<1> QED BY <1>1, <1>2, <1>3

LEMMA ReadFlagsKeeps ==
  ASSUME NEW w, NEW places, Decoding(w, places), InvTyped, ReadFlags
  PROVE  Keeps(w, places) /\ Continues
<1> PICK k \in Nat, bytes \in Seq(Cells), els \in Seq(Elements), m \in Nat : InPacked(w, places, k, bytes, els, m)
  BY OnlyPacked DEF ReadFlags
<1> DEFINE s == Spot(els, m)
           base == places[k + 1] + 1
<1>1. /\ base \in Nat \ {0} /\ Packed(bytes, Text(Rest, k + 1), els) /\ Len(els) \in Nat /\ m \in 0..Len(els)
      /\ m = Len(els) => base + Cursor(s) = chunkEnd
      /\ \A i \in 1..Len(bytes) : buffer[base + i] = bytes[i]
  <2>1. /\ places[k + 1] \in Nat \ {0} /\ Packed(bytes, Text(Rest, k + 1), els) /\ Len(els) \in Nat /\ m \in 0..Len(els)
        /\ m = Len(els) => base + Cursor(s) = chunkEnd
        /\ \A i \in 1..Len(bytes) : buffer[base + i] = bytes[i]
    BY InPackedFacts
  <2> QED BY <2>1
<1>2. at = base + Cursor(s) /\ at < chunkEnd /\ (m < Len(els) => s.bit = 1)
  BY DEF ReadFlags, InPacked, InGroup
<1>3. m < Len(els) /\ s.bit = 1
  <2>1. m # Len(els)
    BY <1>1, <1>2 DEF InvTyped
  <2> QED BY <1>1, <1>2, <2>1
<1>4. /\ s.word \in 1..Len(bytes) /\ bytes[s.word].kind = "flags" /\ bytes[s.word].value \in [1..GroupSize -> {0, 1}]
  BY <1>1, <1>3, ElementAhead
<1>5. s.at = s.word + 1 /\ Cursor(s) = s.word
  BY <1>1, <1>3, SpotFacts DEF Cursor
<1> HIDE DEF s, base
<1>6. buffer[at] = bytes[s.word]
  BY <1>1, <1>2, <1>4, <1>5
<1>7. /\ flags' = Value /\ at' = at + 1 /\ pc' = "element"
      /\ UNCHANGED stored /\ chunkEnd' = chunkEnd /\ chunkStart' = chunkStart /\ out' = out /\ status' = status
  BY <1>4, <1>6 DEF ReadFlags, Expect
<1>8. flags' = SubSeq(bytes[s.word].value, s.bit, GroupSize) /\ flags' \in Seq({0, 1})
  <2>1. flags' = bytes[s.word].value
    BY <1>6, <1>7 DEF Value
  <2>2. SubSeq(bytes[s.word].value, 1, GroupSize) = bytes[s.word].value /\ bytes[s.word].value \in Seq({0, 1})
    BY <1>4, FlagByteFacts
  <2> QED BY <1>3, <2>1, <2>2
<1>9. at' = base + s.at
  <2>1. \A x, y \in Nat : x + y + 1 = x + (y + 1)
    OBVIOUS
  <2>2. s.word \in Nat /\ at' = base + s.word + 1
    BY <1>2, <1>4, <1>5, <1>7
  <2> QED BY <1>1, <1>5, <2>1, <2>2
<1>10. InGroup(base, bytes, els, m)'
  BY <1>3, <1>7, <1>8, <1>9 DEF InGroup, s
<1>11. out' = SubSeq(Rest, 1, chunkStart + s.from) /\ m <= Len(els)
  BY <1>7 DEF InPacked, s
<1>12. at' \in Nat \ {0}
  BY <1>7 DEF InvTyped
<1>13. Keeps(w, places)
  BY <1>7, <1>8, <1>10, <1>11, <1>12, PackedStep DEF base, s
<1> QED BY <1>7, <1>13 DEF Continues

LEMMA LeaveGroupKeeps ==
  ASSUME NEW w, NEW places, Decoding(w, places), InvTyped, LeaveGroup
  PROVE  Keeps(w, places) /\ Continues
<1> PICK k \in Nat, bytes \in Seq(Cells), els \in Seq(Elements), m \in Nat : InPacked(w, places, k, bytes, els, m)
  BY OnlyPacked DEF LeaveGroup
<1> DEFINE s == Spot(els, m)
           base == places[k + 1] + 1
<1>1. /\ places[k + 1] \in Nat \ {0} /\ Packed(bytes, Text(Rest, k + 1), els)
      /\ m < Len(els) => base + s.at < chunkEnd
  BY InPackedFacts
<1>2. at = base + Cursor(s) /\ (m < Len(els) => s.bit = 1)
  <2> SUFFICES ASSUME at = base + s.at, m < Len(els), flags = SubSeq(bytes[s.word].value, s.bit, GroupSize) PROVE FALSE
    BY DEF LeaveGroup, InPacked, InGroup
  <2>1. s.at \in 1..Len(bytes) /\ bytes[s.word].value \in [1..GroupSize -> {0, 1}] /\ s.bit \in 1..GroupSize
    BY <1>1, ElementAhead
  <2>2. flags # << >>
    BY <2>1, FlagByteFacts
  <2>3. at < chunkEnd /\ at \in Nat /\ chunkEnd \in Nat
    BY <1>1 DEF InvTyped
  <2> QED BY <2>2, <2>3 DEF LeaveGroup
<1>3. /\ pc' = "group" /\ UNCHANGED stored /\ at' = at /\ chunkEnd' = chunkEnd /\ chunkStart' = chunkStart
      /\ flags' = flags /\ out' = out /\ status' = status
  BY DEF LeaveGroup
<1>4. InGroup(base, bytes, els, m)'
  BY <1>2, <1>3 DEF InGroup
<1>5. out' = SubSeq(Rest, 1, chunkStart + s.from) /\ m <= Len(els)
  BY <1>3 DEF InPacked
<1>6. at' \in Nat \ {0} /\ flags' \in Seq({0, 1})
  BY <1>3 DEF InvTyped
<1> HIDE DEF s, base
<1>7. Keeps(w, places)
  BY <1>3, <1>4, <1>5, <1>6, PackedStep DEF base, s
<1> QED BY <1>3, <1>7 DEF Continues

\* Where the element behind the first m is read.
LEMMA AtElement ==
  ASSUME NEW w, NEW places, Decoding(w, places), InvTyped, pc = "element", at < chunkEnd, flags # << >>,
         NEW k \in Nat, NEW bytes \in Seq(Cells), NEW els, NEW m \in Nat, InPacked(w, places, k, bytes, els, m)
  PROVE  /\ m < Len(els) /\ at = places[k + 1] + 1 + Spot(els, m).at
         /\ flags = SubSeq(bytes[Spot(els, m).word].value, Spot(els, m).bit, GroupSize)
         /\ flags[1] = Flag(els[m + 1]) /\ buffer[at] = bytes[Spot(els, m).at]
<1> DEFINE s == Spot(els, m)
           base == places[k + 1] + 1
<1>1. /\ places[k + 1] \in Nat \ {0} /\ Packed(bytes, Text(Rest, k + 1), els) /\ Len(els) \in Nat /\ m \in 0..Len(els)
      /\ m = Len(els) => base + Cursor(s) = chunkEnd
      /\ \A i \in 1..Len(bytes) : buffer[base + i] = bytes[i]
  BY InPackedFacts
<1>2. at = base + s.at /\ m < Len(els) /\ flags = SubSeq(bytes[s.word].value, s.bit, GroupSize)
  <2> SUFFICES ASSUME at = base + Cursor(s), m < Len(els) => flags = << >> PROVE FALSE
    BY DEF InPacked, InGroup
  <2>1. m # Len(els)
    BY <1>1 DEF InvTyped
  <2> QED BY <1>1, <2>1
<1>3. /\ bytes[s.word].value \in [1..GroupSize -> {0, 1}] /\ s.bit \in 1..GroupSize
      /\ bytes[s.word].value[s.bit] = Flag(els[m + 1]) /\ s.at \in 1..Len(bytes)
  <2>1. Packed(bytes, Text(Rest, k + 1), els) /\ m \in Nat /\ m < Len(els)
    BY <1>1, <1>2
  <2> QED BY ONLY <2>1, ElementAhead
<1> HIDE DEF s, base
<1>4. flags[1] = Flag(els[m + 1])
  BY <1>2, <1>3, FlagByteFacts
<1>5. buffer[at] = bytes[s.at]
  BY <1>1, <1>2, <1>3
<1> QED BY <1>2, <1>4, <1>5 DEF s, base

\* How far the plaintext has come when the element behind the first m is read.
LEMMA TextSoFar ==
  ASSUME NEW w, NEW places, Decoding(w, places),
         NEW k \in Nat, NEW bytes \in Seq(Cells), NEW els, NEW m \in Nat, InPacked(w, places, k, bytes, els, m), m < Len(els)
  PROVE  /\ Rest \in Seq(Nat) /\ Len(Rest) \in Nat /\ chunkStart \in Nat /\ Spot(els, m).from \in Nat
         /\ Text(Rest, k + 1) \in Seq(Nat) /\ Sound(Text(Rest, k + 1), els[m + 1]) /\ els[m + 1].spot = Spot(els, m)
         /\ els[m + 1] \in Elements
         /\ \A i \in 1..Len(Text(Rest, k + 1)) : Text(Rest, k + 1)[i] = Rest[chunkStart + i]
         /\ chunkStart + Spot(els, m).from + Width(els[m + 1]) <= Len(Rest)
         /\ Len(out) = chunkStart + Spot(els, m).from
<1> DEFINE T == Text(Rest, k + 1)
           e == els[m + 1]
           from == Spot(els, m).from
<1>1. Within(w, places, k, bytes, TRUE) /\ Packed(bytes, T, els) /\ out = SubSeq(Rest, 1, chunkStart + from)
  BY DEF InPacked
<1>2. k < Len(places) /\ Chunked(w, places, Rest) /\ Rest \in Seq(Nat) /\ Len(Rest) \in Nat /\ chunkStart = k * ChunkSize
  BY <1>1, DecodingFacts DEF Within, Decoding
<1>3. /\ k * ChunkSize \in Nat /\ T \in Seq(Nat) /\ Len(T) \in Nat /\ k * ChunkSize + Len(T) <= Len(Rest)
      /\ \A i \in 1..Len(T) : T[i] = Rest[k * ChunkSize + i]
  <2>1. k < Len(places) /\ Chunked(w, places, Rest) /\ k \in Nat
    BY <1>2
  <2> QED BY ONLY <2>1, AtChunk
<1>4. e \in Elements /\ e.spot = Spot(els, m) /\ Sound(T, e)
  <2>1. Packed(bytes, Text(Rest, k + 1), els) /\ m \in Nat /\ m < Len(els)
    BY <1>1
  <2> QED BY ONLY <2>1, ElementAhead
<1>5. from \in Nat /\ Width(e) \in Nat \ {0}
  BY <1>4, ElementFacts
<1>6. from + Width(e) <= Len(T)
  BY <1>4 DEF Sound
<1> HIDE DEF T, e, from
<1>7. chunkStart + from + Width(e) <= Len(Rest) /\ chunkStart + from \in 0..Len(Rest)
  <2>1. \A c, f, x, l, r \in Nat : f + x <= l /\ c + l <= r => c + f + x <= r /\ c + f \in 0..r
    OBVIOUS
  <2> QED BY <1>2, <1>3, <1>5, <1>6, <2>1
<1>8. Len(out) = chunkStart + from
  BY <1>1, <1>2, <1>7, Prefix
<1>9. \A i \in 1..Len(T) : T[i] = Rest[chunkStart + i]
  BY <1>2, <1>3
<1> QED BY <1>2, <1>3, <1>4, <1>5, <1>7, <1>8, <1>9 DEF T, e, from

LEMMA ElementRead ==
  ASSUME NEW w, NEW places, Decoding(w, places), InvTyped, pc = "element",
         NEW k \in Nat, NEW bytes \in Seq(Cells), NEW els \in Seq(Elements), NEW m \in Nat,
         InPacked(w, places, k, bytes, els, m), m < Len(els),
         at = places[k + 1] + 1 + Spot(els, m).at,
         flags = SubSeq(bytes[Spot(els, m).word].value, Spot(els, m).bit, GroupSize),
         Produce(SubSeq(Rest, 1, chunkStart + Spot(els, m).from + Width(els[m + 1]))),
         at' = at + Size(els[m + 1])
  PROVE  Keeps(w, places) /\ Continues
<1> DEFINE s == Spot(els, m)
           e == els[m + 1]
           base == places[k + 1] + 1
           value == bytes[s.word].value
<1>1. places[k + 1] \in Nat \ {0} /\ Packed(bytes, Text(Rest, k + 1), els) /\ Len(els) \in Nat
  BY InPackedFacts
<1>2. /\ e \in Elements /\ e.spot = s /\ s.bit \in 1..GroupSize /\ value \in [1..GroupSize -> {0, 1}] /\ s.at \in 1..Len(bytes)
  <2>1. Packed(bytes, Text(Rest, k + 1), els) /\ m \in Nat /\ m < Len(els)
    BY <1>1
  <2> QED BY ONLY <2>1, ElementAhead
<1>3. /\ Spot(els, m + 1) = After(e) /\ Spot(els, m + 1).from = s.from + Width(e)
      /\ Cursor(After(e)) = s.at + Size(e)
  <2>1. Packed(bytes, Text(Rest, k + 1), els) /\ m \in Nat /\ m < Len(els)
    BY <1>1
  <2>2. /\ Spot(els, m + 1) = After(els[m + 1]) /\ Spot(els, m + 1).from = Spot(els, m).from + Width(els[m + 1])
        /\ Cursor(Spot(els, m + 1)) = Spot(els, m).at + Size(els[m + 1])
    BY ONLY <2>1, NextElement
  <2> QED BY <2>2
<1>4. /\ flags' = SubSeq(flags, 2, Len(flags)) /\ chunkEnd' = chunkEnd /\ chunkStart' = chunkStart /\ pc' = "element"
      /\ status' = status /\ UNCHANGED stored /\ out' = SubSeq(Rest, 1, chunkStart + s.from + Width(e))
  BY DEF Produce
<1>5. Size(e) \in {1, 2} /\ s.at \in Nat /\ s.from \in Nat /\ Width(e) \in Nat \ {0}
  BY <1>2, ElementFacts
<1>6. flags' = SubSeq(value, s.bit + 1, GroupSize)
  BY <1>2, <1>4, FlagByteFacts
<1>a. base \in Nat \ {0} /\ at' = base + s.at + Size(e)
  BY <1>1
<1> HIDE DEF s, e, base, value
<1>7. at' = base + (s.at + Size(e)) /\ at' \in Nat \ {0}
  <2>1. \A b, a \in Nat, z \in {1, 2} : b + a + z = b + (a + z) /\ (b # 0 => b + a + z \in Nat \ {0})
    OBVIOUS
  <2>2. base \in Nat /\ base # 0 /\ s.at \in Nat /\ Size(e) \in {1, 2}
    BY <1>5, <1>a
  <2>3. base + s.at + Size(e) = base + (s.at + Size(e)) /\ base + s.at + Size(e) \in Nat \ {0}
    BY ONLY <2>1, <2>2
  <2> QED BY ONLY <1>a, <2>3
<1>8. InGroup(base, bytes, els, m + 1)' /\ flags' \in Seq({0, 1})
  <2>1. CASE s.bit = GroupSize
    <3>1. flags' = << >>
      BY <1>2, <1>6, <2>1, FlagByteFacts
    <3>2. After(e).bit = 1
      BY <1>2, <2>1 DEF After
    <3>3. at' = base + Cursor(Spot(els, m + 1)) /\ Spot(els, m + 1).bit = 1
      BY <1>3, <1>7, <3>2
    <3>4. InGroup(base, bytes, els, m + 1)'
      BY <1>4, <3>1, <3>3 DEF InGroup
    <3> QED BY <3>1, <3>4
  <2>2. CASE s.bit # GroupSize
    <3>1. After(e).word = s.word /\ After(e).bit = s.bit + 1 /\ After(e).at = s.at + Size(e)
      BY <1>2, <2>2 DEF After
    <3>2. flags' = SubSeq(bytes[After(e).word].value, After(e).bit, GroupSize)
      BY <1>6, <3>1 DEF value
    <3>3. flags' \in Seq({0, 1})
      <4> PICK j \in 1..GroupSize : j = s.bit + 1
        BY <1>2, <2>2, Limits
      <4>1. flags' = SubSeq(value, j, GroupSize)
        BY <1>6
      <4>2. SubSeq(value, j, GroupSize) \in Seq({0, 1})
        BY ONLY <1>2, j \in 1..GroupSize, FlagByteFacts
      <4> QED BY ONLY <4>1, <4>2
    <3>4. CASE m + 1 < Len(els)
      BY <1>3, <1>4, <1>7, <3>1, <3>2, <3>3, <3>4 DEF InGroup
    <3>5. CASE ~(m + 1 < Len(els))
      BY <1>3, <1>4, <1>7, <3>3, <3>5 DEF InGroup
    <3> QED BY <3>4, <3>5
  <2> QED BY <2>1, <2>2
<1>9. /\ chunkStart \in Nat /\ chunkStart + s.from + Width(e) <= Len(Rest) /\ Len(out) = chunkStart + s.from
      /\ Len(Rest) \in Nat
  BY TextSoFar DEF s, e
<1>10. out' = SubSeq(Rest, 1, chunkStart + Spot(els, m + 1).from)
  <2>1. chunkStart + s.from + Width(e) = chunkStart + (s.from + Width(e))
    BY <1>5, <1>9
  <2> QED BY <1>3, <1>4, <2>1
<1>12. Keeps(w, places)
  <2> PICK j \in Nat : j = m + 1 /\ j <= Len(els)
    BY <1>1
  <2>1. InGroup(places[k + 1] + 1, bytes, els, j)' /\ out' = SubSeq(Rest, 1, chunkStart + Spot(els, j).from)
    BY <1>8, <1>10 DEF base
  <2>2. UNCHANGED stored /\ chunkEnd' = chunkEnd /\ chunkStart' = chunkStart /\ at' \in Nat \ {0} /\ flags' \in Seq({0, 1})
    BY <1>4, <1>7, <1>8
  <2>3. pc' \in {"group", "element"}
    BY <1>4
  <2> QED BY <2>1, <2>2, <2>3, PackedStep
<1>13. chunkStart + s.from + Width(e) \in (Len(out) + 1)..Len(Rest)
  <2>1. \A c, f, l \in Nat, x \in Nat \ {0} : c + f + x <= l => c + f + x \in (c + f + 1)..l
    OBVIOUS
  <2>2. chunkStart + s.from + Width(e) \in (chunkStart + s.from + 1)..Len(Rest)
    BY ONLY <1>5, <1>9, <2>1
  <2> QED BY <1>9, <2>2
<1> QED BY <1>4, <1>12, <1>13 DEF Continues

LEMMA PrefixAppended ==
  ASSUME NEW d \in Seq(Nat), NEW x \in Nat, x + 1 <= Len(d)
  PROVE  Append(SubSeq(d, 1, x), d[x + 1]) = SubSeq(d, 1, x + 1)
<1> DEFINE a == SubSeq(d, 1, x)
           b == SubSeq(d, 1, x + 1)
           c == Append(a, d[x + 1])
<1>1. Len(d) \in Nat /\ x \in 0..Len(d) /\ x + 1 \in 0..Len(d) /\ d[x + 1] \in Nat
  OBVIOUS
<1>2. a \in Seq(Nat) /\ Len(a) = x /\ \A i \in 1..x : a[i] = d[i]
  BY <1>1, Prefix
<1>3. b \in Seq(Nat) /\ Len(b) = x + 1 /\ \A i \in 1..(x + 1) : b[i] = d[i]
  BY <1>1, Prefix
<1> HIDE DEF a, b
<1>4. /\ c \in Seq(Nat) /\ Len(c) = Len(a) + 1 /\ c[Len(a) + 1] = d[x + 1]
      /\ \A i \in 1..Len(a) : c[i] = a[i]
  <2>1. a \in Seq(Nat) /\ d[x + 1] \in Nat
    BY <1>1, <1>2
  <2> QED BY ONLY <2>1, Appended
<1> HIDE DEF c
<1>5. ASSUME NEW i \in 1..Len(c) PROVE c[i] = b[i]
  <2>1. i \in 1..(x + 1) /\ (i = x + 1 \/ i \in 1..x)
    BY <1>2, <1>4
  <2> QED BY <1>2, <1>3, <1>4, <2>1
<1>6. c = b
  <2>1. Len(c) = Len(b)
    BY <1>2, <1>3, <1>4
  <2> QED BY <1>3, <1>4, <1>5, <2>1, SeqEqual
<1> QED BY <1>6 DEF a, b, c

LEMMA ReadLiteralKeeps ==
  ASSUME NEW w, NEW places, Decoding(w, places), InvTyped, ReadLiteral
  PROVE  Keeps(w, places) /\ Continues
<1>0. pc = "element" /\ at < chunkEnd /\ flags # << >> /\ flags[1] = 0
  BY DEF ReadLiteral
<1> PICK k \in Nat, bytes \in Seq(Cells), els \in Seq(Elements), m \in Nat : InPacked(w, places, k, bytes, els, m)
  BY <1>0, OnlyPacked
<1> DEFINE s == Spot(els, m)
           e == els[m + 1]
           T == Text(Rest, k + 1)
<1>1. /\ m < Len(els) /\ at = places[k + 1] + 1 + s.at /\ flags = SubSeq(bytes[s.word].value, s.bit, GroupSize)
      /\ flags[1] = Flag(e) /\ buffer[at] = bytes[s.at]
  BY <1>0, AtElement
<1>2. /\ Rest \in Seq(Nat) /\ Len(Rest) \in Nat /\ chunkStart \in Nat /\ s.from \in Nat
      /\ T \in Seq(Nat) /\ Sound(T, e) /\ e.spot = s /\ e \in Elements
      /\ \A i \in 1..Len(T) : T[i] = Rest[chunkStart + i]
      /\ chunkStart + s.from + Width(e) <= Len(Rest)
      /\ Len(out) = chunkStart + s.from
  <2>1. /\ Decoding(w, places) /\ InPacked(w, places, k, bytes, els, m) /\ m < Len(els)
        /\ k \in Nat /\ m \in Nat /\ bytes \in Seq(Cells)
    BY <1>1
  <2> QED BY ONLY <2>1, TextSoFar DEF s, e, T
<1>b. out = SubSeq(Rest, 1, chunkStart + s.from)
  BY DEF InPacked
<1>c. Flag(e) = 0
  BY <1>0, <1>1
<1>3. ~IsMatch(e) /\ Size(e) = 1 /\ Width(e) = 1
  BY ONLY <1>c DEF Flag, Size, Width
<1>4. Holds(bytes, T, e)
  <2>1. Packed(bytes, T, els) /\ m \in Nat /\ m < Len(els)
    BY <1>1 DEF InPacked
  <2> QED BY ONLY <2>1, NextElement DEF e
<1> HIDE DEF s, e, T
<1>5. buffer[at] = [kind |-> "literal", value |-> T[s.from + 1]]
  BY <1>1, <1>2, <1>3, <1>4 DEF Holds
<1>6. T[s.from + 1] = Rest[chunkStart + s.from + 1]
  <2>1. s.from + 1 <= Len(T)
    BY ONLY <1>2, <1>3 DEF Sound
  <2>2. \A c, f, l \in Nat : f + 1 <= l => f + 1 \in 1..l /\ c + (f + 1) = c + f + 1
    OBVIOUS
  <2>3. Len(T) \in Nat
    BY ONLY <1>2
  <2>4. s.from + 1 \in 1..Len(T) /\ chunkStart + (s.from + 1) = chunkStart + s.from + 1
    BY ONLY <1>2, <2>1, <2>2, <2>3
  <2> QED BY ONLY <1>2, <2>4
<1>7. Produce(Append(out, T[s.from + 1])) /\ at' = at + 1
  BY <1>5 DEF ReadLiteral, Expect, Value
<1>8. Append(out, T[s.from + 1]) = SubSeq(Rest, 1, chunkStart + s.from + Width(e))
  <2> PICK x \in Nat : x = chunkStart + s.from
    BY <1>2
  <2>1. x + 1 <= Len(Rest) /\ x + 1 = chunkStart + s.from + Width(e)
    BY <1>2, <1>3
  <2>2. Append(SubSeq(Rest, 1, x), Rest[x + 1]) = SubSeq(Rest, 1, x + 1)
    BY <1>2, <2>1, PrefixAppended
  <2> QED BY <1>b, <1>6, <2>1, <2>2
<1>9. Produce(SubSeq(Rest, 1, chunkStart + s.from + Width(e))) /\ at' = at + Size(e)
  BY <1>3, <1>7, <1>8
<1> QED BY <1>0, <1>1, <1>9, ElementRead DEF s, e

\* What repeats within the chunk's text repeats in the plaintext.
LEMMA ShiftedRepeats ==
  ASSUME NEW t, NEW d, NEW c \in Nat, NEW from \in Nat, NEW dist \in 1..from, NEW len \in Nat,
         Len(t) \in Nat, from + len <= Len(t), \A i \in 1..Len(t) : t[i] = d[c + i],
         RepeatsAfter(t, from, dist, len)
  PROVE  RepeatsAfter(d, c + from, dist, len)
<1> SUFFICES ASSUME NEW i \in 1..len PROVE d[c + from + i] = d[c + from + i - dist]
  BY DEF RepeatsAfter
<1>1. t[from + i] = t[from + i - dist]
  BY DEF RepeatsAfter
<1>2. /\ from + i \in 1..Len(t) /\ c + (from + i) = c + from + i
      /\ from + i - dist \in 1..Len(t) /\ c + (from + i - dist) = c + from + i - dist
  OBVIOUS
<1> QED BY <1>1, <1>2

LEMMA ReadWordKeeps ==
  ASSUME NEW w, NEW places, Decoding(w, places), InvTyped, ReadWord
  PROVE  Keeps(w, places) /\ Continues
<1>0. pc = "element" /\ at < chunkEnd /\ flags # << >> /\ flags[1] = 1
  BY DEF ReadWord
<1> PICK k \in Nat, bytes \in Seq(Cells), els \in Seq(Elements), m \in Nat : InPacked(w, places, k, bytes, els, m)
  BY <1>0, OnlyPacked
<1> DEFINE s == Spot(els, m)
           e == els[m + 1]
           T == Text(Rest, k + 1)
           base == places[k + 1] + 1
<1>1. /\ m < Len(els) /\ at = base + s.at /\ flags = SubSeq(bytes[s.word].value, s.bit, GroupSize)
      /\ flags[1] = Flag(e) /\ buffer[at] = bytes[s.at]
  BY <1>0, AtElement
<1>2. /\ Rest \in Seq(Nat) /\ Len(Rest) \in Nat /\ chunkStart \in Nat /\ s.from \in Nat
      /\ T \in Seq(Nat) /\ Sound(T, e) /\ e.spot = s /\ e \in Elements
      /\ \A i \in 1..Len(T) : T[i] = Rest[chunkStart + i]
      /\ chunkStart + s.from + Width(e) <= Len(Rest)
      /\ Len(out) = chunkStart + s.from
  <2>1. /\ Decoding(w, places) /\ InPacked(w, places, k, bytes, els, m) /\ m < Len(els)
        /\ k \in Nat /\ m \in Nat /\ bytes \in Seq(Cells)
    BY <1>1
  <2> QED BY ONLY <2>1, TextSoFar DEF s, e, T
<1>b. out = SubSeq(Rest, 1, chunkStart + s.from)
  BY DEF InPacked
<1>c. Flag(e) = 1
  BY <1>0, <1>1
<1>3. IsMatch(e) /\ Size(e) = 2 /\ Width(e) = e.len
  BY ONLY <1>c DEF Flag, Size, Width
<1>a. Packed(bytes, T, els) /\ m \in Nat /\ m < Len(els)
  BY <1>1 DEF InPacked
<1>4. Holds(bytes, T, e)
  BY ONLY <1>a, NextElement DEF e
<1>5. base \in Nat /\ Len(bytes) \in Nat /\ chunkEnd = base + (Len(bytes) + 1) /\ s.at \in Nat
  <2>1. places[k + 1] \in Nat \ {0} /\ Len(bytes) \in Nat /\ chunkEnd = base + (Len(bytes) + 1)
    BY InPackedFacts
  <2>2. s.at \in 1..Len(bytes)
    BY ONLY <1>a, ElementAhead DEF s
  <2> QED BY <2>1, <2>2
<1> HIDE DEF s, e, T, base
<1>6. buffer[at] = [kind |-> "word", value |-> WordValue(e)]
  BY <1>1, <1>2, <1>3, <1>4 DEF Holds
<1>7. ~(chunkEnd - at < 2)
  <2>1. s.at + 2 - 1 <= Len(bytes)
    BY <1>2, <1>3, <1>4 DEF Holds
  <2>2. \A b, a, l \in Nat : a + 2 - 1 <= l => ~(b + (l + 1) - (b + a) < 2)
    OBVIOUS
  <2> QED BY <1>1, <1>5, <2>1, <2>2
<1>8. /\ e.len \in Nat /\ e.len >= MinMatch /\ e.len - MinMatch < LengthUnit(s.from)
      /\ e.dist \in 1..s.from /\ e.dist <= 2^DispBits(s.from) /\ RepeatsAfter(T, s.from, e.dist, e.len)
      /\ s.from + e.len <= Len(T)
  <2>1. e.len \in Nat
    BY <1>2, ElementFacts
  <2> QED BY <1>2, <1>3, <2>1 DEF Sound
<1> DEFINE displacement == Value \div LengthUnit(Position) + 1
           length       == (Value % LengthUnit(Position)) + MinMatch
<1>9. displacement = e.dist /\ length = e.len
  <2>1. Position = s.from
    <3>1. \A c, f \in Nat : c + f - c = f
      OBVIOUS
    <3> QED BY ONLY <1>2, <3>1 DEF Position
  <2> PICK x \in Nat : x = e.len - MinMatch
    BY <1>8, Limits
  <2>2. Value = (e.dist - 1) * LengthUnit(s.from) + x
    <3>1. Value = (e.dist - 1) * LengthUnit(s.from) + e.len - MinMatch
      BY <1>2, <1>6 DEF Value, WordValue
    <3>2. (e.dist - 1) * LengthUnit(s.from) \in Int
      <4>1. LengthUnit(s.from) \in Nat /\ e.dist - 1 \in Nat
        <5>1. LengthUnit(s.from) \in Nat
          BY ONLY <1>2, Units
        <5>2. \A y \in Nat : \A z \in 1..y : z - 1 \in Nat
          OBVIOUS
        <5> QED BY ONLY <1>2, <1>8, <5>1, <5>2
      <4>2. \A y, z \in Nat : y * z \in Int
        OBVIOUS
      <4> QED BY ONLY <4>1, <4>2
    <3>3. \A u \in Int, a, b \in Nat : u + a - b = u + (a - b)
      OBVIOUS
    <3> QED BY <1>8, <3>1, <3>2, <3>3, Limits
  <2>3. x < LengthUnit(s.from) /\ e.dist \in Nat \ {0}
    BY <1>8
  <2>4. /\ ((e.dist - 1) * LengthUnit(s.from) + x) \div LengthUnit(s.from) = e.dist - 1
        /\ ((e.dist - 1) * LengthUnit(s.from) + x) % LengthUnit(s.from) = x
    <3>1. s.from \in Nat /\ e.dist \in Nat \ {0} /\ e.dist <= 2^DispBits(s.from) /\ x \in Nat /\ x < LengthUnit(s.from)
      BY <1>2, <1>8, <2>3
    <3> QED BY ONLY <3>1, WordsComeApart
  <2>5. e.dist - 1 + 1 = e.dist /\ x + MinMatch = e.len
    BY <1>8, <2>3, Limits
  <2>6. Value \div LengthUnit(Position) = e.dist - 1 /\ Value % LengthUnit(Position) = x
    BY <2>1, <2>2, <2>4
  <2> QED BY <2>5, <2>6
<1>10. ~(displacement > Len(out))
  <2>1. \A c, f, x \in Nat : x <= f => ~(x > c + f)
    OBVIOUS
  <2>2. e.dist \in Nat /\ e.dist <= s.from
    BY <1>2, <1>8
  <2>3. ~(e.dist > Len(out))
    BY ONLY <1>2, <2>1, <2>2
  <2> QED BY <1>9, <2>3
<1>11. Produce(CopyMatch(out, displacement, length)) /\ at' = at + 2
  BY <1>6, <1>7, <1>10 DEF ReadWord, Expect
<1>12. CopyMatch(out, e.dist, e.len) = SubSeq(Rest, 1, chunkStart + s.from + e.len)
  <2> PICK x \in Nat : x = chunkStart + s.from
    BY <1>2
  <2>1. x + e.len <= Len(Rest) /\ x \in 0..Len(Rest) /\ e.dist \in 1..x
    <3>1. \A c, f, l, y, z \in Nat : c + f + l <= y /\ z \in 1..f => c + f \in 0..y /\ z \in 1..(c + f) /\ z <= f
      OBVIOUS
    <3>2. Len(Rest) \in Nat /\ e.dist \in Nat
      BY <1>2, <1>8
    <3>3. chunkStart + s.from + e.len <= Len(Rest)
      BY ONLY <1>2, <1>3
    <3>4. chunkStart + s.from \in 0..Len(Rest) /\ e.dist \in 1..(chunkStart + s.from)
      BY ONLY <1>2, <1>8, <3>1, <3>2, <3>3
    <3> QED BY <3>3, <3>4
  <2>2. RepeatsAfter(Rest, x, e.dist, e.len)
    <3>1. Len(T) \in Nat
      BY ONLY <1>2
    <3>2. RepeatsAfter(Rest, chunkStart + s.from, e.dist, e.len)
      BY ONLY <1>2, <1>8, <3>1, ShiftedRepeats
    <3> QED BY <3>2
  <2>3. Overlapping(SubSeq(Rest, 1, x), e.dist, e.len) = SubSeq(Rest, 1, x + e.len)
    BY <1>2, <1>8, <2>1, <2>2, OverlapExtendsPrefix
  <2> QED BY <1>b, <2>3 DEF CopyMatch, Overlapping
<1>13. Produce(SubSeq(Rest, 1, chunkStart + s.from + Width(e))) /\ at' = at + Size(e)
  BY <1>3, <1>9, <1>11, <1>12
<1> QED BY <1>0, <1>1, <1>13, ElementRead DEF s, e, base

----------------------------------------------------------------------------
(* The invariant holds of every state *)

LEMMA InitEstablishes == Init => IndInv
<1> SUFFICES ASSUME Init PROVE IndInv
  OBVIOUS
<1>1. data \in Seq(Nat) /\ data \in Plaintexts /\ n \in Nat
  BY Lznt1Assumption DEF Init, n
<1>2. 0 \in 0..n /\ 0 \in 0..ChunkSize /\ Len(<< >>) = 0 /\ Len(<< >>) < GroupSize
  BY <1>1, Limits
<1>3. InvTyped
  BY <1>1, <1>2 DEF Init, InvTyped
<1>4. Chunked(<< >>, << >>, data)
  BY <1>1 DEF Chunked, Entry
<1>5. Lesser(Len(<< >>) * ChunkSize, n) = 0
  <2>1. Len(<< >>) * ChunkSize = 0
    BY <1>2, Limits
  <2> QED BY <1>1, <2>1 DEF Lesser
<1>6. pos \in 0..Len(Chunk)
  <2>1. Chunk \in Seq(Nat)
    BY <1>1, <1>3, ChunkFacts DEF InvTyped
  <2> QED BY <2>1 DEF Init
<1>7. Open(<< >>)
  <2>1. /\ groupFlags = << >> /\ body = << >> /\ pos = 0
    BY DEF Init
  <2>2. Pending = << >>
    BY <2>1 DEF Pending
  <2> QED BY <2>1, <2>2, NothingYet DEF Open
<1>8. FillingTyped
  BY <1>2 DEF Init, FillingTyped
<1>9. Filling
  BY <1>4, <1>5, <1>6, <1>7, <1>8 DEF Init, Filling
<1>10. Ends
  BY DEF Init, Ends
<1> QED BY <1>3, <1>9, <1>10 DEF Init, IndInv

LEMMA StillFilling ==
  ASSUME InvTyped, Filling, UNCHANGED vars
  PROVE  Filling' /\ InvTyped'
<1>1. /\ UNCHANGED <<data, start, pos, body, groupFlags, groupItems, chunkAt, buffer, lost, whole>>
      /\ UNCHANGED <<at, chunkEnd, chunkStart, flags, out, status, pc>>
  BY DEF vars, encoderVars, decoderVars
<1>2. n' = n /\ Chunk' = Chunk /\ Pending' = Pending
  BY <1>1 DEF n, Chunk, Pending, PaddedFlags
<1>3. InvTyped'
  BY <1>1, <1>2 DEF InvTyped
<1>4. \A els : Open(els) => Open(els)'
  BY <1>1, <1>2 DEF Open
<1>5. FillingTyped'
  BY <1>1 DEF Filling, FillingTyped
<1>6. Filling'
  BY <1>1, <1>2, <1>4, <1>5 DEF Filling
<1> QED BY <1>3, <1>6

\* What a step of decompress does to what there is already.
LEMMA DecoderStep ==
  ASSUME NEW w, NEW places, Decoding(w, places), InvTyped, Decompress
  PROVE  Keeps(w, places) /\ (Continues \/ Stops) /\ Running
<1>1. Running
  BY DEF Decompress, ReadHeader, Finish, ReadRaw, LeaveChunk, ReadFlags, LeaveGroup, ReadLiteral, ReadWord
<1>2. CASE ReadHeader
  BY <1>1, <1>2, ReadHeaderKeeps
<1>3. CASE Finish
  BY <1>1, <1>3, FinishKeeps
<1>4. CASE ReadRaw
  BY <1>1, <1>4, ReadRawKeeps
<1>5. CASE LeaveChunk
  BY <1>1, <1>5, LeaveChunkKeeps
<1>6. CASE ReadFlags
  BY <1>1, <1>6, ReadFlagsKeeps
<1>7. CASE LeaveGroup
  BY <1>1, <1>7, LeaveGroupKeeps
<1>8. CASE ReadLiteral
  BY <1>1, <1>8, ReadLiteralKeeps
<1>9. CASE ReadWord
  BY <1>1, <1>9, ReadWordKeeps
<1> QED BY <1>2, <1>3, <1>4, <1>5, <1>6, <1>7, <1>8, <1>9 DEF Decompress

LEMMA DecodingPlace ==
  ASSUME NEW w, NEW places
  PROVE  /\ Decoding(w, places) => pc # "compress"
         /\ Decoding(w, places)' => pc' # "compress"
<1>1. \A k : Between(w, places, k) => pc # "compress"
  BY DEF Between
<1>2. \A k : Between(w, places, k)' => pc' # "compress"
  BY DEF Between
<1>3. \A k, bytes : InRaw(w, places, k, bytes) => pc # "compress"
  BY DEF InRaw
<1>4. \A k, bytes : InRaw(w, places, k, bytes)' => pc' # "compress"
  BY DEF InRaw
<1>5. \A base, bytes, els, m : InGroup(base, bytes, els, m) => pc # "compress"
  BY DEF InGroup
<1>6. \A base, bytes, els, m : InGroup(base, bytes, els, m)' => pc' # "compress"
  BY DEF InGroup
<1>7. \A k, bytes, els, m : InPacked(w, places, k, bytes, els, m) => pc # "compress"
  BY <1>5 DEF InPacked
<1>8. \A k, bytes, els, m : InPacked(w, places, k, bytes, els, m)' => pc' # "compress"
  BY <1>6 DEF InPacked
<1> QED BY <1>1, <1>2, <1>3, <1>4, <1>7, <1>8 DEF Decoding

LEMMA CompressWhere ==
  ASSUME Compress
  PROVE  pc = "compress" /\ (EndChunk \/ Store \/ EmitLiteral \/ EmitWord)
BY DEF Compress, EmitLiteral, EmitWord, EndChunk, Store

LEMMA DecompressWhere ==
  ASSUME Decompress
  PROVE  pc # "compress"
BY DEF Decompress, ReadHeader, Finish, ReadRaw, LeaveChunk, ReadFlags, LeaveGroup, ReadLiteral, ReadWord

LEMMA NextKeeps == IndInv /\ [Next]_vars => IndInv'
<1> SUFFICES ASSUME IndInv, [Next]_vars PROVE IndInv'
  OBVIOUS
<1>0. InvTyped /\ Ends
  BY DEF IndInv
<1>1. CASE pc = "compress" /\ ~Store
  <2>1. Filling
    BY <1>1 DEF IndInv
  <2>2. Filling' /\ InvTyped' /\ pc' = "compress"
    <3>1. CASE EmitLiteral \/ EmitWord
      BY <1>0, <1>1, <2>1, <3>1, EmitKeeps DEF EmitLiteral, EmitWord
    <3>2. CASE EndChunk
      BY <1>0, <1>1, <2>1, <3>2, EndChunkKeeps DEF EndChunk
    <3>3. CASE UNCHANGED vars
      BY <1>0, <1>1, <2>1, <3>3, StillFilling DEF vars
    <3> QED BY <1>1, <3>1, <3>2, <3>3, DecompressWhere DEF Next, Compress, Stopped
  <2>3. Ends'
    BY <2>2 DEF Filling, Ends
  <2> QED BY <2>2, <2>3 DEF IndInv
<1>2. CASE Store
  <2>1. Filling /\ pc' = "header"
    BY <1>2 DEF IndInv, Store
  <2>2. (\E w, places : Decoding(w, places))' /\ InvTyped' /\ status' = "working"
    BY <1>0, <1>2, <2>1, StoreKeeps
  <2>3. Ends'
    BY <2>2 DEF Ends
  <2> QED BY <2>1, <2>2, <2>3 DEF IndInv
<1>3. CASE pc # "compress"
  <2> PICK w, places : Decoding(w, places)
    BY <1>3 DEF IndInv
  <2>1. Keeps(w, places) /\ Ends'
    <3>1. CASE Decompress
      <4>1. Keeps(w, places) /\ (Continues \/ Stops) /\ Running
        BY <1>0, <3>1, DecoderStep
      <4>2. Rest' = Rest /\ whole' = whole
        BY <4>1, DecodingFrame DEF Keeps, stored
      <4> QED BY <4>1, <4>2 DEF Ends, Continues, Stops, Running
    <3>2. CASE UNCHANGED vars
      <4>1. End(status)
        BY <3>2 DEF vars, decoderVars, End, stored
      <4>2. Keeps(w, places) /\ out' = out /\ status' = status
        BY <1>0, <4>1, EndKeeps
      <4>3. Rest' = Rest /\ whole' = whole
        BY <4>2, DecodingFrame DEF Keeps, stored
      <4> QED BY <1>0, <4>2, <4>3 DEF Ends
    <3> QED BY <1>3, <3>1, <3>2, CompressWhere DEF Next, Stopped
  <2>2. Decoding(w, places)' /\ InvTyped'
    BY <2>1 DEF Keeps
  <2>3. pc' # "compress"
    BY <2>2, DecodingPlace
  <2> QED BY <2>1, <2>2, <2>3 DEF IndInv
<1> QED BY <1>1, <1>2, <1>3

----------------------------------------------------------------------------
(* What follows from the invariant *)

LEMMA TypesFollow == IndInv => TypeOK
<1> SUFFICES ASSUME IndInv PROVE TypeOK
  OBVIOUS
<1>1. InvTyped /\ Ends
  BY DEF IndInv
<1>2. ASSUME NEW i \in 1..Len(buffer) PROVE Fits(buffer[i])
  <2>1. buffer[i] \in Cells
    BY <1>1 DEF InvTyped
  <2>2. \A s \in 3..(ChunkSize + 2) : s - 3 \in 0..(ChunkSize - 1)
    BY Limits
  <2> QED BY <2>1, <2>2 DEF Cells, Fits
<1> QED BY <1>1, <1>2 DEF InvTyped, Ends, TypeOK

(***************************************************************************)
(* Type correctness; no header and no word compress writes is too great    *)
(* for its two bytes, however long the plaintext.                          *)
(***************************************************************************)
THEOREM TypeCorrect == Spec => []TypeOK
BY InitEstablishes, NextKeeps, TypesFollow, PTL DEF Spec

(***************************************************************************)
(* Wherever the end of a buffer of any plaintext was lost: decompress says *)
(* so, or what it returns is whole chunks.                                 *)
(***************************************************************************)
THEOREM CutsAreNoticed == Spec => []CutsNoticed
<1>1. IndInv => CutsNoticed
  BY DEF IndInv, Ends, CutsNoticed
<1> QED BY <1>1, InitEstablishes, NextKeeps, PTL DEF Spec

LEMMA InitImplements == Init => Promise!Init
<1> SUFFICES ASSUME Init PROVE Promise!Init
  OBVIOUS
<1>1. data \in Seq(Nat) /\ data \in Plaintexts /\ n \in Nat /\ lost = 0
  BY Lznt1Assumption DEF Init, n
<1>2. Rest = data
  BY <1>1 DEF Rest, n
<1> QED BY <1>1, <1>2 DEF Init, Promise!Init, Rest

LEMMA StepImplements == IndInv /\ [Next]_vars => [Promise!Next]_(Promise!vars)
<1> SUFFICES ASSUME IndInv, [Next]_vars PROVE [Promise!Next]_(Promise!vars)
  OBVIOUS
<1>0. InvTyped /\ IndInv'
  BY NextKeeps DEF IndInv
<1>1. ASSUME UNCHANGED <<data, lost, whole, out, status>> PROVE UNCHANGED Promise!vars
  <2>1. n' = n
    BY <1>1 DEF n
  <2> QED BY <1>1, <2>1 DEF Promise!vars
<1>2. CASE Store
  <2>1. Filling
    BY <1>2 DEF IndInv, Store
  <2>2. /\ lost = 0 /\ out = << >> /\ status = "working" /\ whole = TRUE /\ data' = data /\ n' = n /\ n \in Nat
        /\ data \in Seq(Nat) /\ lost' \in 0..n /\ whole' \in BOOLEAN /\ out' = out /\ status' = status
    <3>1. InvTyped'
      BY <1>0 DEF IndInv
    <3>2. data' = data /\ n' = n /\ out' = out /\ status' = status
      BY <1>2 DEF Store, decoderVars, n
    <3>3. data \in Seq(Nat) /\ n \in Nat
      BY <1>0, Lznt1Assumption DEF InvTyped, n
    <3>4. lost' \in 0..n /\ whole' \in BOOLEAN
      BY <3>1, <3>2 DEF InvTyped
    <3> QED BY <2>1, <3>2, <3>3, <3>4 DEF Filling
  <2>3. Rest = data /\ Len(Rest) = n
    BY <2>2 DEF Rest, n
  <2>4. Rest' = SubSeq(Rest, lost' + 1, Len(Rest)) /\ lost' \in 0..Len(Rest)
    BY <2>2, <2>3 DEF Rest
  <2>5. whole' \in {whole, FALSE}
    BY <2>2
  <2>6. Promise!Damage
    BY <2>2, <2>4, <2>5 DEF Promise!Damage, Rest
  <2> QED BY <2>6 DEF Promise!Next
<1>3. CASE Decompress
  <2>0. pc # "compress"
    BY <1>3, DecompressWhere
  <2> PICK w, places : Decoding(w, places)
    BY <2>0 DEF IndInv
  <2>1. Keeps(w, places) /\ (Continues \/ Stops) /\ status = "working"
    BY <1>0, <1>3, DecoderStep DEF Running
  <2>2. data' = data /\ lost' = lost /\ whole' = whole /\ n' = n
    BY <2>1 DEF Keeps, stored, n
  <2>3. Rest' = Rest
    BY <2>2 DEF Rest
  <2>4. CASE Stops
    <3>1. out' = out
      BY <2>4 DEF Stops
    <3>2. CASE status' = "done" /\ (whole => out = Rest)
      BY <2>1, <2>2, <2>3, <3>1, <3>2 DEF Promise!Next, Promise!Return, Promise!End, Rest
    <3>3. CASE status' = "corrupt" /\ ~whole
      BY <2>1, <2>2, <2>3, <3>1, <3>3 DEF Promise!Next, Promise!Fail, Promise!End, Rest
    <3> QED BY <2>4, <3>2, <3>3 DEF Stops
  <2>5. CASE Continues /\ out' = out
    BY <1>1, <2>2, <2>5 DEF Continues
  <2>6. CASE Continues /\ out' # out
    <3> PICK x \in (Len(out) + 1)..Len(Rest) : out' = SubSeq(Rest, 1, x)
      BY <2>6 DEF Continues
    <3>1. x <= n
      <4>1. Rest \in Seq(Nat) /\ Len(Rest) \in Nat /\ Len(Rest) <= n /\ x <= Len(Rest) /\ x \in Int /\ n \in Nat
        <5>1. data \in Seq(Nat) /\ n \in Nat /\ lost \in 0..n
          BY <1>0, Lznt1Assumption DEF InvTyped, n
        <5>2. Rest \in Seq(Nat) /\ Len(Rest) = n - lost
          BY <5>1 DEF Rest, n
        <5> QED BY <5>1, <5>2
      <4> QED BY <4>1
    <3>2. Promise!Produce
      BY <2>1, <2>2, <2>3, <2>6, <3>1 DEF Continues, Promise!Produce, Rest
    <3> QED BY <3>2 DEF Promise!Next
  <2> QED BY <2>1, <2>4, <2>5, <2>6
<1>4. CASE EmitLiteral \/ EmitWord \/ EndChunk \/ UNCHANGED vars
  <2>1. UNCHANGED <<data, lost, whole, out, status>>
    BY <1>4 DEF EmitLiteral, EmitWord, EndChunk, vars, decoderVars
  <2> QED BY <1>1, <2>1
<1> QED BY <1>2, <1>3, <1>4 DEF Next, Compress, Stopped

(***************************************************************************)
(* compress followed by decompress keeps the promise of LosslessCodec, but *)
(* for its last conjunct (every call returns), for any plaintext, with any *)
(* chunks missing at the front and from any place to the end.              *)
(***************************************************************************)
THEOREM PromiseKept == Spec => Promise!Init /\ [][Promise!Next]_(Promise!vars)
<1>1. Init => IndInv /\ Promise!Init
  BY InitEstablishes, InitImplements
<1>2. IndInv /\ [Next]_vars => IndInv'
  BY NextKeeps
<1>3. IndInv /\ [Next]_vars => [Promise!Next]_(Promise!vars)
  BY StepImplements
<1> QED BY <1>1, <1>2, <1>3, PTL DEF Spec
============================================================================
