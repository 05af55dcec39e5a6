-------------------------- MODULE XpressHuffProofs -------------------------
(***************************************************************************)
(* Proofs about XpressHuff for every set of inputs, block size, length     *)
(* ladder and table of symbols: the decoder is in step with the encoder    *)
(* field by field, and at the ends of blocks it does not read.             *)
(*                                                                         *)
(* The code keeps no record of where a token goes.  The invariant IndInv   *)
(* says that there are such records, three maps from tokens to numbers:    *)
(* where in the plaintext a token ends (place), which block its fields are *)
(* in (home), from which of the block's fields on (spot).  Factored ties   *)
(* them to the plaintext, Segmented to the blocks, Decoding to the decoder *)
(* that has met so many of the tokens.                                     *)
(***************************************************************************)
EXTENDS XpressHuff, ArithmeticLemmas, SequenceTheorems

----------------------------------------------------------------------------
(* The invariant *)

FieldSet ==
  {f \in [kind : {"sym", "bits", "raw"}, size : Nat, value : Nat] :
     f.kind = "sym" => f.value < EofSymbol + (NibbleMax + 1) * OffsetBits}

TokenSet == [byte : Nat, len : Nat, dist : Nat]

\* A token says what follows position p of the plaintext.
Sound(t, p) ==
  /\ p + t.len <= n
  /\ t.dist = 0 => t.len = 1 /\ t.byte = data[p + 1] /\ t.byte < EofSymbol
  /\ t.dist # 0 =>
       /\ t.len >= MinMatch /\ t.dist <= p /\ t.dist < 2^OffsetBits
       /\ MatchSymbol(t.len, t.dist) > EofSymbol
       /\ RepeatsAfter(data, p, t.dist, t.len)

\* Token k ends at place[k] of the plaintext.
Factored(place) ==
  /\ place[0] = 0 /\ pos = place[Len(tokens)] /\ pos <= n
  /\ \A k \in 1..Len(tokens) : Sound(tokens[k], place[k - 1]) /\ place[k] = place[k - 1] + tokens[k].len

\* The fields of token k, the EOF symbol after the last one.
Spelled(k) == IF k \in 1..Len(tokens) THEN Fields(tokens[k]) ELSE <<Sym(EofSymbol)>>

\* The blocks, with the one being filled.
Text(b) == IF b \in 1..Len(blocks) THEN blocks[b] ELSE current
StartOf(b) == IF b \in 1..Len(blocks) THEN starts[b] ELSE base

Segmenting == pc = "factor"
Written == IF Segmenting THEN index ELSE Len(tokens) + 1
LastBlock == IF Segmenting THEN Len(blocks) + 1 ELSE Len(blocks)

\* From index i on, w has the fields of s.
Carries(w, i, s) == i + Len(s) - 1 <= Len(w) /\ \A j \in 1..Len(s) : w[i + j - 1] = s[j]

\* The fields of token k are in block home[k] from index spot[k] on.
Laid(place, home, spot, k) ==
  /\ home[k] \in 1..LastBlock /\ spot[k] \in Nat \ {0}
  /\ Carries(Text(home[k]), spot[k], Spelled(k))
  /\ k <= Len(tokens) => place[k - 1] < StartOf(home[k]) + BlockSize
  /\ spot[k] = 1 => StartOf(home[k]) = place[k - 1]

\* Index i of block b is what comes after token k: the next field of its block,
\* or the first of the next block if its own ended there, being full.
After(place, home, spot, k, b, i) ==
  IF k = 0 THEN b = 1 /\ i = 1
  ELSE LET next == spot[k] + Len(Spelled(k))
       IN \/ b = home[k] /\ i = next
          \/ /\ b = home[k] + 1 /\ i = 1
             /\ Len(Text(home[k])) + 1 = next
             /\ place[k] >= StartOf(home[k]) + BlockSize

Segmented(place, home, spot) ==
  /\ index \in 0..Len(tokens) /\ produced = place[index] /\ base \in 0..produced
  /\ Len(starts) = Len(blocks)
  /\ \A k \in 1..Written : Laid(place, home, spot, k) /\ After(place, home, spot, k - 1, home[k], spot[k])
  /\ Segmenting => /\ After(place, home, spot, index, Len(blocks) + 1, Len(current) + 1)
                   /\ current = << >> => base = produced
  /\ ~Segmenting => pos = n /\ home[Len(tokens) + 1] = Len(blocks)

\* How many fields the ladder adds to a length.
Rungs(len) ==
  LET v == len - MinMatch
  IN IF v < NibbleMax THEN 0 ELSE IF v - NibbleMax < ByteMax THEN 1 ELSE IF v < WordLimit THEN 2 ELSE 3

InMatch(home, spot, k) ==
  LET len == tokens[k + 1].len
  IN /\ k < Len(tokens) /\ tokens[k + 1].dist # 0 /\ home[k + 1] = block
     /\ pc = "byte"   => Rungs(len) >= 1 /\ item = spot[k + 1] + 1
     /\ pc = "word"   => Rungs(len) >= 2 /\ item = spot[k + 1] + 2
     /\ pc = "dword"  => Rungs(len) = 3 /\ item = spot[k + 1] + 3
     /\ pc = "offset" => length = len /\ item = spot[k + 1] + 1 + Rungs(len)

AtToken(place, home, spot, k) ==
  \/ home[k + 1] = block /\ spot[k + 1] = item
  \/ /\ home[k + 1] = block + 1 /\ spot[k + 1] = 1
     /\ item = Len(blocks[block]) + 1 /\ place[k] >= blockEnd

\* The decoder has met k tokens.
Decoded(place, home, spot, k) ==
  /\ k \in 0..Len(tokens)
  /\ out = SubSeq(data, 1, place[k]) /\ place[k] <= limit
  /\ block \in 1..Len(blocks)
  /\ pc = "table" => home[k + 1] = block /\ spot[k + 1] = 1
  /\ pc # "table" => blockEnd = starts[block] + BlockSize
  /\ pc = "symbol" => AtToken(place, home, spot, k)
  /\ pc \notin {"table", "symbol"} => InMatch(home, spot, k)

Decoding(place, home, spot) ==
  IF Segmenting THEN out = << >> /\ status = "working" /\ block = 1
  ELSE \E k \in 0..Len(tokens) : Decoded(place, home, spot, k)

Ends ==
  /\ status \in {"working", "done", "refused"}
  /\ status = "done" => out = data
  /\ status = "refused" => n > limit

InvTyped ==
  /\ data \in Plaintexts /\ limit \in Nat
  /\ pos \in Nat /\ tokens \in Seq(TokenSet)
  /\ current \in Seq(FieldSet) /\ blocks \in Seq(Seq(FieldSet)) /\ starts \in Seq(Nat)
  /\ block \in Nat \ {0} /\ item \in Nat \ {0} /\ blockEnd \in Nat /\ length \in Nat
  /\ pc \in {"factor", "table", "symbol", "byte", "word", "dword", "offset"}

Maps == [Nat -> Nat]

Consistent(place, home, spot) ==
  Factored(place) /\ Segmented(place, home, spot) /\ Decoding(place, home, spot)

IndInv == InvTyped /\ Ends /\ \E place, home, spot \in Maps : Consistent(place, home, spot)

----------------------------------------------------------------------------
(* Sequences *)

LEMMA Appended ==
  ASSUME NEW S, NEW a \in Seq(S), NEW c \in S
  PROVE  /\ Append(a, c) \in Seq(S) /\ Len(Append(a, c)) = Len(a) + 1 /\ Len(a) \in Nat
         /\ Append(a, c)[Len(a) + 1] = c
         /\ \A i \in 1..Len(a) : Append(a, c)[i] = a[i]
OBVIOUS

LEMMA Joined ==
  ASSUME NEW S, NEW a \in Seq(S), NEW b \in Seq(S)
  PROVE  /\ a \o b \in Seq(S) /\ Len(a \o b) = Len(a) + Len(b)
         /\ Len(a) \in Nat /\ Len(b) \in Nat
         /\ \A i \in 1..Len(a) : (a \o b)[i] = a[i]
         /\ \A i \in 1..Len(b) : (a \o b)[Len(a) + i] = b[i]
BY ConcatProperties

LEMMA Short ==
  ASSUME NEW S, NEW x \in S
  PROVE  /\ <<x>> \in Seq(S) /\ Len(<<x>>) = 1 /\ <<x>>[1] = x
         /\ \A y \in S : /\ <<x, y>> \in Seq(S) /\ Len(<<x, y>>) = 2
                         /\ <<x, y>>[1] = x /\ <<x, y>>[2] = y
         /\ \A y, z \in S : /\ <<x, y, z>> \in Seq(S) /\ Len(<<x, y, z>>) = 3
                            /\ <<x, y, z>>[1] = x /\ <<x, y, z>>[2] = y /\ <<x, y, z>>[3] = z
OBVIOUS

LEMMA Between ==
  ASSUME NEW S, NEW a \in S, NEW w \in Seq(S), NEW z \in S
  PROVE  LET f == <<a>> \o w \o <<z>>
         IN /\ f \in Seq(S) /\ Len(f) = 2 + Len(w) /\ f[1] = a /\ f[2 + Len(w)] = z
            /\ \A i \in 1..Len(w) : f[1 + i] = w[i]
<1> DEFINE g == <<a>> \o w
           f == g \o <<z>>
<1>1. <<a>> \in Seq(S) /\ <<z>> \in Seq(S) /\ Len(<<a>>) = 1 /\ Len(<<z>>) = 1
      /\ <<a>>[1] = a /\ <<z>>[1] = z /\ Len(w) \in Nat
  OBVIOUS
<1>2. g \in Seq(S) /\ Len(g) = 1 + Len(w) /\ g[1] = a /\ \A i \in 1..Len(w) : g[1 + i] = w[i]
  BY <1>1, Joined
<1> HIDE DEF g
<1>3. /\ f \in Seq(S) /\ Len(f) = Len(g) + 1
      /\ \A i \in 1..Len(g) : f[i] = g[i]
      /\ f[Len(g) + 1] = z
  BY <1>1, <1>2, Joined
<1> HIDE DEF f
<1>4. f \in Seq(S) /\ Len(f) = 2 + Len(w) /\ f[1] = a /\ f[2 + Len(w)] = z
  BY <1>1, <1>2, <1>3
<1>5. \A i \in 1..Len(w) : 1 + i \in 1..Len(g)
  BY <1>1, <1>2
<1> QED BY <1>2, <1>3, <1>4, <1>5 DEF f, g

----------------------------------------------------------------------------
(* Symbols and fields *)

LEMMA Limits ==
  /\ MinMatch \in Nat \ {0} /\ NibbleMax \in Nat \ {0} /\ ByteMax \in Nat \ {0}
  /\ WordLimit \in Nat /\ WordLimit > NibbleMax + ByteMax /\ OffsetBits \in Nat \ {0}
  /\ MaxChain \in Nat \ {0} /\ BlockSize \in Nat \ {0} /\ EofSymbol \in Nat \ {0}
BY XpressHuffAssumption

\* A distance _lz77 may use.
Near(d) == d \in Nat \ {0} /\ d < 2^OffsetBits

(***************************************************************************)
(* Distances have a highest bit, below OffsetBits; the CHOOSE of High      *)
(* finds it.                                                               *)
(***************************************************************************)
LEMMA HighExists ==
  ASSUME NEW d, Near(d)
  PROVE  High(d) \in 0..(OffsetBits - 1) /\ 2^High(d) \in Nat /\ 2^High(d) <= d
<1> DEFINE S == {k \in 0..OffsetBits : d < 2^k}
           Fits(h) == 2^h <= d /\ d < 2^(h + 1)
<1>0. /\ OffsetBits \in Nat \ {0} /\ d \in Nat /\ d >= 1 /\ d < 2^OffsetBits
      /\ 2^0 = 1 /\ 2^OffsetBits \in Nat
  <2>1. OffsetBits \in Nat \ {0} /\ 2^0 = 1
    BY Limits, PowersAssumption
  <2>2. OffsetBits \in 0..OffsetBits
    BY <2>1
  <2> QED BY <2>1, <2>2, PowersAssumption DEF Near
<1>1. S \in SUBSET Nat /\ OffsetBits \in S
  BY <1>0
<1>2. PICK k \in S : \A j \in S : k <= j
  <2> HIDE DEF S
  <2> QED BY <1>1, LeastNatural
<1>3. k \in 0..OffsetBits /\ d < 2^k /\ k # 0
  <2>1. k \in 0..OffsetBits /\ d < 2^k
    OBVIOUS
  <2>2. k # 0
    <3> SUFFICES ASSUME k = 0 PROVE FALSE
      OBVIOUS
    <3>1. d < 1
      BY <1>0, <2>1
    <3> QED BY <1>0, <3>1
  <2> QED BY <2>1, <2>2
<1>4. k - 1 \in 0..OffsetBits /\ (k - 1) + 1 = k /\ k - 1 < k
  BY <1>0, <1>3
<1>5. ~(d < 2^(k - 1))
  <2> SUFFICES ASSUME d < 2^(k - 1) PROVE FALSE
    OBVIOUS
  <2>1. k - 1 \in S
    BY <1>4
  <2>2. k <= k - 1
    BY <1>2, <2>1
  <2> QED BY <1>3, <2>2
<1>6. 2^(k - 1) \in Nat
  BY <1>4, PowersAssumption
<1>7. Fits(k - 1)
  BY <1>0, <1>3, <1>4, <1>5, <1>6
<1>8. High(d) = CHOOSE h \in 0..OffsetBits : Fits(h)
  BY DEF High
<1>9. High(d) \in 0..OffsetBits /\ Fits(High(d))
  <2> HIDE DEF Fits
  <2> QED BY <1>4, <1>7, <1>8
<1> HIDE DEF Fits
<1>10. 2^High(d) \in Nat /\ 2^High(d) <= d
  BY <1>9, PowersAssumption DEF Fits
<1>11. High(d) # OffsetBits
  <2> SUFFICES ASSUME High(d) = OffsetBits PROVE FALSE
    OBVIOUS
  <2>1. 2^OffsetBits <= d
    BY <1>10
  <2> QED BY <1>0, <2>1
<1> QED BY <1>0, <1>9, <1>10, <1>11

\* A length and a distance a match may have.
Codable(len, dist) == len \in Nat /\ len >= MinMatch /\ Near(dist) /\ MatchSymbol(len, dist) > EofSymbol

LEMMA NibbleBounds ==
  ASSUME NEW len \in Nat, len >= MinMatch
  PROVE  Nibble(len) \in 0..NibbleMax /\ (Nibble(len) < NibbleMax => len = Nibble(len) + MinMatch)
                                      /\ (Nibble(len) < NibbleMax <=> len - MinMatch < NibbleMax)
BY Limits DEF Nibble

(***************************************************************************)
(* The symbol of a match is in the table, and gives back the nibble and    *)
(* the width of the offset.                                                *)
(***************************************************************************)
LEMMA SymbolParts ==
  ASSUME NEW len \in Nat, len >= MinMatch, NEW dist, Near(dist)
  PROVE  /\ MatchSymbol(len, dist) \in Nat
         /\ MatchSymbol(len, dist) < EofSymbol + (NibbleMax + 1) * OffsetBits
         /\ (MatchSymbol(len, dist) - EofSymbol) % (NibbleMax + 1) = Nibble(len)
         /\ (MatchSymbol(len, dist) - EofSymbol) \div (NibbleMax + 1) = High(dist)
<1> DEFINE b == NibbleMax + 1
           r == Nibble(len)
           q == High(dist)
<1>1. b \in Nat \ {0} /\ OffsetBits \in Nat \ {0} /\ EofSymbol \in Nat
  BY Limits
<1>2. r \in 0..(b - 1)
  BY Limits, NibbleBounds
<1>3. q \in 0..(OffsetBits - 1)
  BY HighExists
<1>4. MatchSymbol(len, dist) = EofSymbol + r + b * q
  BY DEF MatchSymbol
<1> HIDE DEF b, r, q
<1>5. (b * q + r) % b = r /\ (b * q + r) \div b = q /\ b * q + r \in Nat
  BY <1>1, <1>2, <1>3, ComesApart
<1>6. b * q \in Nat /\ b * OffsetBits \in Nat /\ b * OffsetBits >= b * q + b
  <2>1. OffsetBits - q \in Nat \ {0}
    BY <1>1, <1>3
  <2>2. b * (OffsetBits - q) >= b
    BY <1>1, <2>1, ProductAtLeast
  <2>3. b * (OffsetBits - q) = b * OffsetBits - b * q
    BY <1>1, <1>3
  <2>4. b * q \in Nat /\ b * OffsetBits \in Nat
    BY <1>1, <1>3
  <2> QED BY <1>1, <2>2, <2>3, <2>4
<1>7. (EofSymbol + r + b * q) - EofSymbol = b * q + r
  BY <1>1, <1>2, <1>6
<1>8. EofSymbol + r + b * q \in Nat /\ EofSymbol + r + b * q < EofSymbol + b * OffsetBits
  BY <1>1, <1>2, <1>6
<1>9. MatchSymbol(len, dist) - EofSymbol = b * q + r
  BY <1>4, <1>7
<1>10. /\ MatchSymbol(len, dist) \in Nat /\ MatchSymbol(len, dist) < EofSymbol + b * OffsetBits
       /\ (MatchSymbol(len, dist) - EofSymbol) % b = r
       /\ (MatchSymbol(len, dist) - EofSymbol) \div b = q
  BY <1>4, <1>5, <1>8, <1>9
<1> QED BY <1>10 DEF b, r, q

\* The two to five fields of a match.
SpelledAs(w, len, dist) ==
  LET v == len - MinMatch
  IN /\ w \in Seq(FieldSet) /\ Len(w) = 2 + Rungs(len)
     /\ w[1] = Sym(MatchSymbol(len, dist))
     /\ Rungs(len) = 1 => w[2] = Raw(1, v - NibbleMax)
     /\ Rungs(len) \in {2, 3} => w[2] = Raw(1, ByteMax)
     /\ Rungs(len) = 2 => w[3] = Raw(2, v)
     /\ Rungs(len) = 3 => w[3] = Raw(2, 0) /\ w[4] = Raw(4, v)
     /\ w[2 + Rungs(len)] = Bits(High(dist), dist - 2^High(dist))

LEMMA LadderShape ==
  ASSUME NEW len \in Nat, len >= MinMatch
  PROVE  LET v == len - MinMatch
             w == LengthExtra(len)
         IN /\ Rungs(len) \in 0..3
            /\ Rungs(len) = 0 => v < NibbleMax /\ w = << >>
            /\ Rungs(len) = 1 => v >= NibbleMax /\ v - NibbleMax < ByteMax /\ w = <<Raw(1, v - NibbleMax)>>
            /\ Rungs(len) = 2 => v - NibbleMax >= ByteMax /\ v < WordLimit /\ w = <<Raw(1, ByteMax), Raw(2, v)>>
            /\ Rungs(len) = 3 => v >= WordLimit /\ w = <<Raw(1, ByteMax), Raw(2, 0), Raw(4, v)>>
<1> DEFINE v == len - MinMatch
<1>1. v \in Nat /\ NibbleMax \in Nat /\ ByteMax \in Nat /\ WordLimit > NibbleMax + ByteMax
  BY Limits
<1>2. WordLimit \in Nat
  BY Limits
<1>3. CASE v < NibbleMax
  <2>1. Rungs(len) = 0
    BY <1>3 DEF Rungs
  <2>2. LengthExtra(len) = << >>
    BY <1>1, <1>2, <1>3 DEF LengthExtra
  <2> QED BY <1>3, <2>1, <2>2
<1>4. CASE v >= NibbleMax /\ v - NibbleMax < ByteMax
  <2>1. Rungs(len) = 1
    BY <1>1, <1>4 DEF Rungs
  <2>2. LengthExtra(len) = <<Raw(1, v - NibbleMax)>>
    BY <1>1, <1>2, <1>4 DEF LengthExtra
  <2> QED BY <1>4, <2>1, <2>2
<1>5. CASE v - NibbleMax >= ByteMax /\ v < WordLimit
  <2>1. Rungs(len) = 2
    BY <1>1, <1>5 DEF Rungs
  <2>2. LengthExtra(len) = <<Raw(1, ByteMax), Raw(2, v)>>
    BY <1>1, <1>2, <1>5 DEF LengthExtra
  <2> QED BY <1>5, <2>1, <2>2
<1>6. CASE v >= WordLimit
  <2>1. Rungs(len) = 3
    BY <1>1, <1>2, <1>6 DEF Rungs
  <2>2. LengthExtra(len) = <<Raw(1, ByteMax), Raw(2, 0), Raw(4, v)>>
    BY <1>1, <1>2, <1>6 DEF LengthExtra
  <2> QED BY <1>6, <2>1, <2>2
<1> QED BY <1>1, <1>2, <1>3, <1>4, <1>5, <1>6

LEMMA EofTyped == Sym(EofSymbol) \in FieldSet /\ EofSymbol < EofSymbol + (NibbleMax + 1) * OffsetBits
<1>1. (NibbleMax + 1) * OffsetBits >= NibbleMax + 1 /\ (NibbleMax + 1) * OffsetBits \in Nat
  BY Limits, ProductAtLeast
<1>2. EofSymbol < EofSymbol + (NibbleMax + 1) * OffsetBits /\ EofSymbol \in Nat
  BY <1>1, Limits
<1>3. Sym(EofSymbol) \in FieldSet
  BY <1>2 DEF Sym, FieldSet
<1> QED BY <1>2, <1>3

LEMMA FieldsTyped ==
  /\ \A c, v \in Nat : Bits(c, v) \in FieldSet /\ Raw(c, v) \in FieldSet
  /\ \A v \in Nat : v < EofSymbol + (NibbleMax + 1) * OffsetBits => Sym(v) \in FieldSet
BY DEF Bits, Raw, Sym, FieldSet

LEMMA LiteralTyped ==
  ASSUME NEW t \in TokenSet, t.dist = 0, t.byte < EofSymbol
  PROVE  Fields(t) = <<Sym(t.byte)>> /\ Fields(t) \in Seq(FieldSet) /\ Len(Fields(t)) = 1
<1>1. t.byte \in Nat /\ EofSymbol \in Nat
  BY Limits DEF TokenSet
<1>2. t.byte < EofSymbol + (NibbleMax + 1) * OffsetBits
  <2>1. (NibbleMax + 1) * OffsetBits \in Nat
    BY Limits
  <2> QED BY <1>1, <2>1, EofTyped
<1>3. Sym(t.byte) \in FieldSet
  BY <1>1, <1>2, FieldsTyped
<1>4. Fields(t) = <<Sym(t.byte)>>
  BY DEF Fields
<1> QED BY <1>3, <1>4

LEMMA MatchSpelled ==
  ASSUME NEW t \in TokenSet, t.dist # 0, t.len >= MinMatch, t.dist < 2^OffsetBits
  PROVE  SpelledAs(Fields(t), t.len, t.dist)
<1> DEFINE len == t.len
           dist == t.dist
           v == len - MinMatch
           a == Sym(MatchSymbol(len, dist))
           w == LengthExtra(len)
           z == Bits(High(dist), dist - 2^High(dist))
<1>1. len \in Nat /\ len >= MinMatch /\ dist \in Nat /\ Near(dist) /\ v \in Nat
  BY Limits DEF TokenSet, Near
<1>2. Fields(t) = <<a>> \o w \o <<z>>
  BY DEF Fields
<1>3. a \in FieldSet
  BY <1>1, SymbolParts, FieldsTyped
<1>4. z \in FieldSet
  <2>1. High(dist) \in Nat /\ dist - 2^High(dist) \in Nat
    BY <1>1, HighExists, Limits
  <2> QED BY <2>1, FieldsTyped
<1> HIDE DEF a, z, len, dist
<1>5. ByteMax \in Nat /\ NibbleMax \in Nat /\ Raw(1, ByteMax) \in FieldSet /\ Raw(2, v) \in FieldSet
      /\ Raw(2, 0) \in FieldSet /\ Raw(4, v) \in FieldSet
      /\ (v >= NibbleMax => Raw(1, v - NibbleMax) \in FieldSet)
  BY <1>1, Limits, FieldsTyped
<1>6. /\ Rungs(len) \in 0..3
      /\ Rungs(len) = 0 => w = << >>
      /\ Rungs(len) = 1 => v >= NibbleMax /\ w = <<Raw(1, v - NibbleMax)>>
      /\ Rungs(len) = 2 => w = <<Raw(1, ByteMax), Raw(2, v)>>
      /\ Rungs(len) = 3 => w = <<Raw(1, ByteMax), Raw(2, 0), Raw(4, v)>>
  BY <1>1, LadderShape
<1> HIDE DEF w, v
<1>7. /\ w \in Seq(FieldSet) /\ Len(w) = Rungs(len)
      /\ Rungs(len) = 1 => w[1] = Raw(1, v - NibbleMax)
      /\ Rungs(len) \in {2, 3} => w[1] = Raw(1, ByteMax)
      /\ Rungs(len) = 2 => w[2] = Raw(2, v)
      /\ Rungs(len) = 3 => w[2] = Raw(2, 0) /\ w[3] = Raw(4, v)
  <2>1. CASE Rungs(len) = 0
    BY <1>6, <2>1
  <2>2. CASE Rungs(len) = 1
    <3> DEFINE x == Raw(1, v - NibbleMax)
    <3>1. w = <<x>> /\ x \in FieldSet
      BY <1>5, <1>6, <2>2
    <3> HIDE DEF x
    <3>2. w \in Seq(FieldSet) /\ Len(w) = 1 /\ w[1] = x
      BY <3>1, Short
    <3> QED BY <2>2, <3>2 DEF x
  <2>3. CASE Rungs(len) = 2
    <3> DEFINE x == Raw(1, ByteMax)
               y == Raw(2, v)
    <3>1. w = <<x, y>> /\ x \in FieldSet /\ y \in FieldSet
      BY <1>5, <1>6, <2>3
    <3> HIDE DEF x, y
    <3>2. w \in Seq(FieldSet) /\ Len(w) = 2 /\ w[1] = x /\ w[2] = y
      BY <3>1, Short
    <3> QED BY <2>3, <3>2 DEF x, y
  <2>4. CASE Rungs(len) = 3
    <3> DEFINE x == Raw(1, ByteMax)
               y == Raw(2, 0)
               u == Raw(4, v)
    <3>1. w = <<x, y, u>> /\ x \in FieldSet /\ y \in FieldSet /\ u \in FieldSet
      BY <1>5, <1>6, <2>4
    <3> HIDE DEF x, y, u
    <3>2. w \in Seq(FieldSet) /\ Len(w) = 3 /\ w[1] = x /\ w[2] = y /\ w[3] = u
      BY <3>1, Short
    <3> QED BY <2>4, <3>2 DEF x, y, u
  <2> QED BY <1>6, <2>1, <2>2, <2>3, <2>4
<1> DEFINE f == Fields(t)
           r == Rungs(len)
<1> HIDE DEF f, r
<1>8. /\ f \in Seq(FieldSet) /\ Len(f) = 2 + r /\ f[1] = a /\ f[2 + r] = z
      /\ \A i \in 1..r : f[1 + i] = w[i]
  BY <1>2, <1>3, <1>4, <1>7, Between DEF f, r
<1>9. /\ r = 1 => f[2] = w[1]
      /\ r \in {2, 3} => f[2] = w[1] /\ f[3] = w[2]
      /\ r = 3 => f[4] = w[3]
  <2>1. r = 1 => f[1 + 1] = w[1]
    BY <1>8
  <2>2. r \in {2, 3} => f[1 + 1] = w[1] /\ f[1 + 2] = w[2]
    BY <1>8
  <2>3. r = 3 => f[1 + 3] = w[3]
    BY <1>8
  <2> QED BY <2>1, <2>2, <2>3
<1> QED BY <1>7, <1>8, <1>9 DEF SpelledAs, len, dist, a, z, v, f, r

----------------------------------------------------------------------------
(* The match finder *)

(***************************************************************************)
(* The match found is near enough and says what the text repeats.          *)
(***************************************************************************)
LEMMA FoundMatch ==
  ASSUME data \in Seq(Nat), pos \in 0..n, BestMatch.len # 0
  PROVE  /\ BestMatch.len \in Nat /\ pos + BestMatch.len <= n
         /\ Near(BestMatch.dist) /\ BestMatch.dist <= pos
         /\ RepeatsAfter(data, pos, BestMatch.dist, BestMatch.len)
<1> DEFINE near == {q \in SamePrefix(data, pos, MinMatch) : pos - q < 2^OffsetBits}
           cand == Newest(near, MaxChain)
           most == n - pos
           b == LastLongest(data, pos, cand, most)
           len == FirstDifference(data, b, pos, most)
<1>1. n \in Nat /\ pos \in Nat /\ most \in Nat /\ pos <= n
  BY DEF n
<1>2. BestMatch = Longest(data, pos, cand, most)
  BY DEF BestMatch
<1>3. cand # {}
  BY <1>2 DEF Longest, NoMatch
<1>4. BestMatch = [len |-> len, dist |-> pos - b]
  BY <1>2, <1>3 DEF Longest, LastLongest, MatchLength, FirstDifference
<1>5. \A q \in cand : q \in SamePrefix(data, pos, MinMatch) /\ pos - q < 2^OffsetBits
  BY DEF Newest
<1>6. pos + MinMatch <= n
  <2>1. PICK q \in cand : TRUE
    BY <1>3
  <2>2. SamePrefix(data, pos, MinMatch) # {}
    BY <1>5
  <2>3. ~(pos + MinMatch > n)
    BY <2>2 DEF SamePrefix, n
  <2> HIDE DEF n
  <2> QED BY <1>1, <2>3, Limits
<1>7. ASSUME NEW q \in cand
      PROVE  q \in 0..(pos - 1) /\ Agree(data, q, pos, MinMatch)
  <2>1. q \in SamePrefix(data, pos, MinMatch)
    BY <1>5
  <2> QED BY <2>1 DEF SamePrefix, Agree
<1> HIDE DEF cand, most
<1>8. MinMatch \in 0..most
  BY <1>1, <1>6, Limits DEF most
<1>9. b \in cand /\ len \in MinMatch..most /\ RepeatsAfter(data, pos, pos - b, len)
  <2>1. cand \in SUBSET (0..(pos - 1)) /\ \A q \in cand : Agree(data, q, pos, MinMatch)
    BY <1>7
  <2> QED BY <1>1, <1>3, <1>8, <2>1, LastLongestRepeats
<1>10. b \in 0..(pos - 1) /\ pos - b < 2^OffsetBits
  BY <1>5, <1>7, <1>9
<1> HIDE DEF b, len
<1>11. len \in Nat /\ pos + len <= n /\ pos - b \in Nat \ {0} /\ pos - b <= pos
  BY <1>1, <1>9, <1>10, Limits DEF most
<1>12. BestMatch.len = len /\ BestMatch.dist = pos - b
  BY <1>4 DEF b, len
<1> QED BY <1>9, <1>10, <1>11, <1>12 DEF Near

----------------------------------------------------------------------------
(* Facts about states *)

LEMMA Texts ==
  ASSUME InvTyped
  PROVE  data \in Seq(0..(EofSymbol - 1)) /\ data \in Seq(Nat) /\ n \in Nat /\ Len(tokens) \in Nat /\ Len(blocks) \in Nat
<1>1. data \in Seq(0..(EofSymbol - 1)) /\ EofSymbol \in Nat
  BY XpressHuffAssumption DEF InvTyped
<1>2. data \in Seq(Nat)
  BY <1>1
<1>3. tokens \in Seq(TokenSet) /\ blocks \in Seq(Seq(FieldSet))
  BY DEF InvTyped
<1> QED BY <1>1, <1>2, <1>3 DEF n

LEMMA Places ==
  ASSUME InvTyped, NEW place \in Maps, Factored(place)
  PROVE  \A k \in 0..Len(tokens) : place[k] \in 0..n
<1> SUFFICES ASSUME NEW k \in 0..Len(tokens) PROVE place[k] \in 0..n
  OBVIOUS
<1>1. n \in Nat /\ Len(tokens) \in Nat
  BY Texts
<1>2. place[k] \in Nat
  BY <1>1 DEF Maps
<1>3. CASE k = 0
  BY <1>1, <1>3 DEF Factored
<1>4. CASE k # 0
  <2>1. k \in 1..Len(tokens)
    BY <1>1, <1>4
  <2>2. place[k] = place[k - 1] + tokens[k].len /\ place[k - 1] + tokens[k].len <= n
    BY <2>1 DEF Factored, Sound
  <2> QED BY <1>1, <1>2, <2>2
<1> QED BY <1>3, <1>4

LEMMA TokenTyped ==
  ASSUME InvTyped, NEW k \in 1..Len(tokens)
  PROVE  tokens[k] \in TokenSet /\ tokens[k].byte \in Nat /\ tokens[k].len \in Nat /\ tokens[k].dist \in Nat
<1>1. tokens[k] \in TokenSet
  BY DEF InvTyped
<1> QED BY <1>1 DEF TokenSet

(***************************************************************************)
(* What a token is spelled as begins with its symbol.                      *)
(***************************************************************************)
LEMMA SpelledFacts ==
  ASSUME InvTyped, NEW place \in Maps, Factored(place), NEW k \in 1..(Len(tokens) + 1)
  PROVE  /\ Spelled(k) \in Seq(FieldSet) /\ Len(Spelled(k)) \in Nat \ {0}
         /\ k \in 1..Len(tokens) /\ tokens[k].dist = 0 =>
              Spelled(k) = <<Sym(tokens[k].byte)>> /\ tokens[k].len = 1 /\ tokens[k].byte < EofSymbol
                                                   /\ tokens[k].byte = data[place[k - 1] + 1]
         /\ k \in 1..Len(tokens) /\ tokens[k].dist # 0 =>
              SpelledAs(Spelled(k), tokens[k].len, tokens[k].dist) /\ Codable(tokens[k].len, tokens[k].dist)
         /\ k = Len(tokens) + 1 => Spelled(k) = <<Sym(EofSymbol)>>
<1>1. Len(tokens) \in Nat
  BY Texts
<1>2. CASE k = Len(tokens) + 1
  <2>1. k \notin 1..Len(tokens)
    BY <1>1, <1>2
  <2>2. Spelled(k) = <<Sym(EofSymbol)>>
    BY <2>1 DEF Spelled
  <2>3. Spelled(k) \in Seq(FieldSet) /\ Len(Spelled(k)) = 1
    BY <2>2, EofTyped, Short
  <2> QED BY <2>1, <2>2, <2>3
<1>3. CASE k \in 1..Len(tokens)
  <2> DEFINE t == tokens[k]
  <2>1. t \in TokenSet /\ t.len \in Nat /\ t.dist \in Nat
    BY <1>3, TokenTyped
  <2>2. Spelled(k) = Fields(t)
    BY <1>3 DEF Spelled
  <2>3. Sound(t, place[k - 1])
    BY <1>3 DEF Factored
  <2>4. k # Len(tokens) + 1
    BY <1>1, <1>3
  <2> HIDE DEF t
  <2>5. CASE t.dist = 0
    <3>1. t.len = 1 /\ t.byte < EofSymbol /\ t.byte = data[place[k - 1] + 1]
      BY <2>3, <2>5 DEF Sound
    <3>2. Fields(t) = <<Sym(t.byte)>> /\ Fields(t) \in Seq(FieldSet) /\ Len(Fields(t)) = 1
      BY <2>1, <2>5, <3>1, LiteralTyped
    <3> QED BY <2>2, <2>4, <2>5, <3>1, <3>2 DEF t
  <2>6. CASE t.dist # 0
    <3>1. t.len >= MinMatch /\ t.dist < 2^OffsetBits /\ MatchSymbol(t.len, t.dist) > EofSymbol
      BY <2>3, <2>6 DEF Sound
    <3>2. SpelledAs(Fields(t), t.len, t.dist)
      BY <2>1, <2>6, <3>1, MatchSpelled
    <3>3. Codable(t.len, t.dist)
      BY <2>1, <2>6, <3>1 DEF Codable, Near
    <3>4. Fields(t) \in Seq(FieldSet) /\ Len(Fields(t)) \in Nat \ {0}
      <4>1. Rungs(t.len) \in 0..3
        BY <2>1, <3>1, LadderShape
      <4> QED BY <3>2, <4>1 DEF SpelledAs
    <3> QED BY <2>2, <2>4, <2>6, <3>2, <3>3, <3>4 DEF t
  <2> QED BY <2>5, <2>6
<1> QED BY <1>1, <1>2, <1>3

----------------------------------------------------------------------------
(* The factorization *)

LEMMA SegmentsKept ==
  ASSUME InvTyped, InvTyped', NEW place \in Maps, NEW place2 \in Maps, NEW home \in Maps, NEW spot \in Maps,
         Segmented(place, home, spot), pc = "factor",
         UNCHANGED <<segmentVars, pc>>, Len(tokens') >= Len(tokens),
         \A k \in 1..Len(tokens) : tokens'[k] = tokens[k],
         \A k \in 0..Len(tokens) : place2[k] = place[k]
  PROVE  Segmented(place2, home, spot)'
<1>1. /\ index' = index /\ produced' = produced /\ base' = base /\ current' = current
      /\ blocks' = blocks /\ starts' = starts /\ pc' = pc
  BY DEF segmentVars
<1>2. Len(tokens) \in Nat /\ Len(tokens') \in Nat /\ index \in 0..Len(tokens)
  <2>1. Len(tokens') \in Nat
    BY DEF InvTyped
  <2> QED BY <2>1, Texts DEF Segmented
<1>3. Segmenting /\ Segmenting' /\ Written = index /\ Written' = index
  BY <1>1 DEF Segmenting, Written
<1>4. ASSUME NEW k \in 1..index
      PROVE  Spelled(k)' = Spelled(k) /\ place2[k] = place[k] /\ place2[k - 1] = place[k - 1]
             /\ k <= Len(tokens) /\ k <= Len(tokens') /\ k - 1 \in 0..index
  <2>1. k \in 1..Len(tokens) /\ k \in 1..Len(tokens') /\ k - 1 \in 0..Len(tokens) /\ k \in 0..Len(tokens)
    BY <1>2
  <2>2. Spelled(k)' = Spelled(k)
    BY <2>1 DEF Spelled
  <2> QED BY <1>2, <2>1, <2>2
<1>5. ASSUME NEW b, NEW i, NEW k \in 0..index, After(place, home, spot, k, b, i)
      PROVE  After(place2, home, spot, k, b, i)'
  <2>1. CASE k = 0
    BY <1>5, <2>1 DEF After
  <2>2. CASE k # 0
    <3>1. k \in 1..index
      BY <1>2, <2>2
    <3>2. Text(home[k])' = Text(home[k]) /\ StartOf(home[k])' = StartOf(home[k])
      BY <1>1 DEF Text, StartOf
    <3> QED BY <1>4, <1>5, <2>2, <3>1, <3>2 DEF After
  <2> QED BY <2>1, <2>2
<1>6. ASSUME NEW k \in 1..index
      PROVE  Laid(place2, home, spot, k)' /\ After(place2, home, spot, k - 1, home[k], spot[k])'
  <2>1. Laid(place, home, spot, k) /\ After(place, home, spot, k - 1, home[k], spot[k])
    BY <1>3 DEF Segmented
  <2>2. Text(home[k])' = Text(home[k]) /\ StartOf(home[k])' = StartOf(home[k]) /\ LastBlock' = LastBlock
    BY <1>1, <1>3 DEF Text, StartOf, LastBlock
  <2>3. Laid(place2, home, spot, k)'
    BY <1>4, <2>1, <2>2 DEF Laid, Carries
  <2> QED BY <1>4, <1>5, <2>1, <2>3
<1>7. produced = place2[index]
  BY <1>2 DEF Segmented
<1>8. /\ After(place2, home, spot, index, Len(blocks) + 1, Len(current) + 1)'
      /\ (current = << >> => base = produced)
  <2>1. After(place, home, spot, index, Len(blocks) + 1, Len(current) + 1) /\ (current = << >> => base = produced)
    BY <1>3 DEF Segmented
  <2>2. index \in 0..index
    BY <1>2
  <2>3. After(place2, home, spot, index, Len(blocks) + 1, Len(current) + 1)'
    BY <1>1, <1>5, <2>1, <2>2
  <2> QED BY <2>1, <2>3
<1>9. base \in 0..produced /\ Len(starts) = Len(blocks)
  BY DEF Segmented
<1>10. index \in 0..Len(tokens')
  BY <1>2
<1> QED BY <1>1, <1>3, <1>6, <1>7, <1>8, <1>9, <1>10 DEF Segmented

LEMMA FactorKeeps ==
  ASSUME IndInv, NEW token \in TokenSet, Sound(token, pos), token.len \in Nat \ {0}, Factor(token)
  PROVE  IndInv'
<1>0. InvTyped /\ Ends
  BY DEF IndInv
<1> PICK place \in Maps, home \in Maps, spot \in Maps : Consistent(place, home, spot)
  BY DEF IndInv
<1> DEFINE m == Len(tokens)
<1>1. /\ pc = "factor" /\ tokens' = Append(tokens, token) /\ pos' = pos + token.len
      /\ UNCHANGED <<data, limit, segmentVars, decoderVars, pc>>
  BY DEF Factor
<1>2. m \in Nat /\ n \in Nat /\ pos \in Nat /\ token.len \in Nat
  BY <1>0, Texts DEF InvTyped
<1> PICK place2 \in Maps : place2[m + 1] = pos + token.len /\ \A k \in 0..m : place2[k] = place[k]
  <2> DEFINE e == pos + token.len
             l == m + 1
  <2>1. e \in Nat /\ l \in Nat /\ \A k \in 0..m : k \in Nat /\ k # l
    BY <1>2
  <2> HIDE DEF e, l, m
  <2>2. [place EXCEPT ![l] = e] \in Maps
    BY <2>1 DEF Maps
  <2>3. [place EXCEPT ![l] = e][l] = e /\ \A k \in 0..m : [place EXCEPT ![l] = e][k] = place[k]
    BY <2>1 DEF Maps
  <2> QED BY <2>2, <2>3 DEF e, l
<1>3. place2[m + 1] = pos + token.len /\ \A k \in 0..m : place2[k] = place[k]
  OBVIOUS
<1>4. /\ tokens' \in Seq(TokenSet) /\ Len(tokens') = m + 1 /\ tokens'[m + 1] = token
      /\ \A k \in 1..m : tokens'[k] = tokens[k]
  <2>1. tokens \in Seq(TokenSet)
    BY <1>0 DEF InvTyped
  <2> QED BY <1>1, <2>1, Appended
<1>5. InvTyped'
  <2>1. pos' \in Nat
    BY <1>1, <1>2
  <2> QED BY <1>0, <1>1, <1>4, <2>1 DEF InvTyped, segmentVars, decoderVars
<1>6. Ends'
  <2>1. data' = data /\ status' = status /\ out' = out /\ limit' = limit
    BY <1>1 DEF decoderVars
  <2> QED BY <1>0, <2>1 DEF Ends, n
<1>7. Factored(place2)'
  <2>1. Factored(place)
    BY DEF Consistent
  <2>3. place2[0] = 0 /\ pos' = place2[m + 1]
    BY <1>1, <1>2, <1>3, <2>1 DEF Factored
  <2>4. pos = place[m]
    BY <2>1 DEF Factored
  <2>5. ASSUME NEW k \in 1..(m + 1)
        PROVE  Sound(tokens'[k], place2[k - 1]) /\ place2[k] = place2[k - 1] + tokens'[k].len
    <3>1. CASE k \in 1..m
      <4>1. k \in 0..m /\ k - 1 \in 0..m
        BY <1>2, <3>1
      <4> QED BY <1>3, <1>4, <2>1, <3>1, <4>1 DEF Factored
    <3>2. CASE k = m + 1
      <4>1. k - 1 = m /\ m \in 0..m
        BY <1>2, <3>2
      <4>2. place2[k - 1] = pos
        BY <1>3, <2>4, <4>1
      <4> QED BY <1>3, <1>4, <3>2, <4>2
    <3> QED BY <1>2, <3>1, <3>2
  <2>6. pos' <= n'
    BY <1>1 DEF Sound, n
  <2> HIDE DEF m
  <2>7. (\A k \in 1..Len(tokens) : Sound(tokens[k], place2[k - 1]) /\ place2[k] = place2[k - 1] + tokens[k].len)'
    BY <1>1, <1>4, <2>5 DEF Sound, MatchSymbol, n
  <2>8. pos' = place2[Len(tokens')]
    BY <1>4, <2>3
  <2> QED BY <2>3, <2>6, <2>7, <2>8 DEF Factored
<1>8. Segmented(place2, home, spot)'
  <2>1. Segmented(place, home, spot)
    BY DEF Consistent
  <2>2. UNCHANGED <<segmentVars, pc>> /\ Len(tokens') >= Len(tokens)
    BY <1>1, <1>2, <1>4
  <2>3. \A k \in 1..Len(tokens) : tokens'[k] = tokens[k]
    BY <1>4
  <2> QED BY <1>0, <1>1, <1>3, <1>5, <2>1, <2>2, <2>3, SegmentsKept
<1>9. Decoding(place2, home, spot)'
  <2>1. Decoding(place, home, spot) /\ Segmenting /\ Segmenting'
    BY <1>1 DEF Consistent, Segmenting
  <2> QED BY <1>1, <2>1 DEF Decoding, decoderVars
<1> QED BY <1>3, <1>5, <1>6, <1>7, <1>8, <1>9 DEF IndInv, Consistent

LEMMA PosBelow ==
  ASSUME IndInv
  PROVE  pos \in 0..n
<1>1. InvTyped
  BY DEF IndInv
<1> PICK place \in Maps, home \in Maps, spot \in Maps : Consistent(place, home, spot)
  BY DEF IndInv
<1>2. pos <= n /\ pos \in Nat
  BY <1>1 DEF Consistent, Factored, InvTyped
<1> QED BY <1>1, <1>2, Texts

LEMMA MatchStep == IndInv /\ FactorMatch => IndInv'
<1> SUFFICES ASSUME IndInv, FactorMatch PROVE IndInv'
  OBVIOUS
<1> DEFINE m == BestMatch
           token == [byte |-> 0, len |-> m.len, dist |-> m.dist]
<1>1. m.len >= MinMatch /\ MatchSymbol(m.len, m.dist) > EofSymbol /\ Factor(token)
  BY DEF FactorMatch, Usable
<1>2. m.len # 0
  BY <1>1, Limits
<1>3. InvTyped
  BY DEF IndInv
<1>4. /\ m.len \in Nat /\ pos + m.len <= n /\ Near(m.dist) /\ m.dist <= pos
      /\ RepeatsAfter(data, pos, m.dist, m.len)
  BY <1>2, <1>3, Texts, PosBelow, FoundMatch
<1> HIDE DEF m
<1>5. token \in TokenSet /\ token.len \in Nat \ {0}
  BY <1>2, <1>4 DEF TokenSet, Near
<1>6. Sound(token, pos)
  BY <1>1, <1>4 DEF Sound, Near
<1> HIDE DEF token
<1> QED BY <1>1, <1>5, <1>6, FactorKeeps

LEMMA LiteralStep == IndInv /\ FactorLiteral => IndInv'
<1> SUFFICES ASSUME IndInv, FactorLiteral PROVE IndInv'
  OBVIOUS
<1> DEFINE token == [byte |-> data[pos + 1], len |-> 1, dist |-> 0]
<1>1. pos < n /\ Factor(token)
  BY DEF FactorLiteral
<1>2. data \in Seq(0..(EofSymbol - 1)) /\ n \in Nat /\ pos \in 0..n /\ EofSymbol \in Nat
  BY Texts, PosBelow, Limits DEF IndInv
<1>3. pos + 1 \in 1..Len(data)
  BY <1>1, <1>2 DEF n
<1>4. data[pos + 1] \in 0..(EofSymbol - 1)
  BY <1>2, <1>3
<1>5. token \in TokenSet /\ token.len \in Nat \ {0}
  BY <1>2, <1>4 DEF TokenSet
<1>6. Sound(token, pos)
  BY <1>1, <1>2, <1>4 DEF Sound
<1> HIDE DEF token
<1> QED BY <1>1, <1>5, <1>6, FactorKeeps

----------------------------------------------------------------------------
(* The blocks *)

LEMMA InitEstablishes == Init => IndInv
<1> SUFFICES ASSUME Init PROVE IndInv
  OBVIOUS
<1>1. data \in Plaintexts /\ n \in Nat
  <2>1. data \in Plaintexts /\ data \in Seq(0..(EofSymbol - 1))
    BY XpressHuffAssumption DEF Init
  <2> QED BY <2>1 DEF n
<1>2. limit \in Nat
  BY <1>1 DEF Init, n
<1>3. InvTyped
  BY <1>1, <1>2 DEF Init, InvTyped
<1>4. Ends
  BY DEF Init, Ends
<1> DEFINE zero == [k \in Nat |-> 0]
<1>5. zero \in Maps /\ zero[0] = 0
  BY DEF Maps
<1> HIDE DEF zero
<1>6. Len(tokens) = 0 /\ Len(blocks) = 0 /\ Len(current) = 0 /\ Len(starts) = 0 /\ index = 0 /\ Segmenting
  BY DEF Init, Segmenting
<1>7. Factored(zero)
  BY <1>1, <1>5, <1>6 DEF Init, Factored
<1>8. Segmented(zero, zero, zero)
  <2>1. Written = 0
    BY <1>6 DEF Written
  <2>2. After(zero, zero, zero, index, Len(blocks) + 1, Len(current) + 1)
    BY <1>6 DEF After
  <2> QED BY <1>5, <1>6, <2>1, <2>2 DEF Init, Segmented
<1>9. Decoding(zero, zero, zero)
  BY <1>6 DEF Init, Decoding
<1> QED BY <1>3, <1>4, <1>5, <1>7, <1>8, <1>9 DEF IndInv, Consistent

Grows(w, v) == Len(w) <= Len(v) /\ \A i \in 1..Len(w) : v[i] = w[i]

LEMMA CarriesGrown ==
  ASSUME NEW w, NEW v, NEW i \in Nat \ {0}, NEW s, Len(s) \in Nat, Len(w) \in Nat, Len(v) \in Nat,
         Carries(w, i, s), Grows(w, v)
  PROVE  Carries(v, i, s)
<1>1. \A j \in 1..Len(s) : i + j - 1 \in 1..Len(w)
  BY DEF Carries
<1>2. i + Len(s) - 1 <= Len(v)
  BY DEF Carries, Grows
<1> QED BY <1>1, <1>2 DEF Carries, Grows

LEMMA TextTyped ==
  ASSUME InvTyped, NEW b
  PROVE  Text(b) \in Seq(FieldSet) /\ Len(Text(b)) \in Nat
<1>1. Text(b) \in Seq(FieldSet)
  BY DEF Text, InvTyped
<1> QED BY <1>1

LEMMA NextTextTyped ==
  ASSUME InvTyped', NEW b
  PROVE  Text(b)' \in Seq(FieldSet) /\ Len(Text(b)') \in Nat
<1>1. Text(b)' \in Seq(FieldSet)
  BY DEF Text, InvTyped
<1> QED BY <1>1

\* Whatever happens to the block being filled, what is laid stays.
BlocksGrow ==
  /\ LastBlock' >= Len(blocks) + 1 /\ LastBlock' \in Nat
  /\ \A b \in 1..(Len(blocks) + 1) : Grows(Text(b), Text(b)') /\ StartOf(b)' = StartOf(b)
  /\ \A b \in 1..Len(blocks) : Text(b)' = Text(b)

LEMMA LaidKept ==
  ASSUME InvTyped, InvTyped', NEW place \in Maps, NEW home \in Maps, NEW spot \in Maps,
         NEW home2 \in Maps, NEW spot2 \in Maps,
         Factored(place), Segmented(place, home, spot), pc = "factor", tokens' = tokens, BlocksGrow,
         \A k \in 1..index : home2[k] = home[k] /\ spot2[k] = spot[k]
  PROVE  /\ \A k \in 1..index :
              Laid(place, home2, spot2, k)' /\ After(place, home2, spot2, k - 1, home2[k], spot2[k])'
         /\ \A q, b, i : q = index /\ b = Len(blocks) + 1 /\ After(place, home, spot, q, b, i)
                            => After(place, home2, spot2, q, b, i)'
<1>1. Len(tokens) \in Nat /\ Len(blocks) \in Nat /\ index \in 0..Len(tokens) /\ index \in Nat
  BY Texts DEF Segmented
<1>2. Segmenting /\ Written = index /\ LastBlock = Len(blocks) + 1
  BY DEF Segmenting, Written, LastBlock
<1>3. ASSUME NEW k \in 1..index
      PROVE  /\ Spelled(k)' = Spelled(k) /\ Len(Spelled(k)) \in Nat /\ home2[k] = home[k] /\ spot2[k] = spot[k]
             /\ Laid(place, home, spot, k) /\ After(place, home, spot, k - 1, home[k], spot[k])
             /\ home[k] \in 1..(Len(blocks) + 1) /\ spot[k] \in Nat \ {0}
             /\ k \in 1..Len(tokens)
  <2>1. k \in 1..Len(tokens) /\ k \in 1..(Len(tokens) + 1)
    BY <1>1
  <2>2. Laid(place, home, spot, k) /\ After(place, home, spot, k - 1, home[k], spot[k])
    BY <1>2 DEF Segmented
  <2>3. Spelled(k)' = Spelled(k)
    BY DEF Spelled
  <2>4. Len(Spelled(k)) \in Nat
    BY <2>1, SpelledFacts
  <2> QED BY <1>2, <2>1, <2>2, <2>3, <2>4 DEF Laid
<1>4. ASSUME NEW k \in 0..index, NEW b \in Int, NEW i, b <= Len(blocks) + 1, After(place, home, spot, k, b, i)
      PROVE  After(place, home2, spot2, k, b, i)'
  <2>1. CASE k = 0
    BY <1>4, <2>1 DEF After
  <2>2. CASE k # 0
    <3>1. k \in 1..index
      BY <1>1, <2>2
    <3>2. CASE b = home[k] /\ i = spot[k] + Len(Spelled(k))
      BY <1>3, <2>2, <3>1, <3>2 DEF After
    <3>3. CASE /\ b = home[k] + 1 /\ i = 1
               /\ Len(Text(home[k])) + 1 = spot[k] + Len(Spelled(k))
               /\ place[k] >= StartOf(home[k]) + BlockSize
      <4>1. home[k] \in 1..Len(blocks) /\ home[k] \in 1..(Len(blocks) + 1)
        BY <1>1, <1>3, <1>4, <3>1, <3>3
      <4>2. Text(home[k])' = Text(home[k]) /\ StartOf(home[k])' = StartOf(home[k])
        BY <4>1 DEF BlocksGrow
      <4> QED BY <1>3, <2>2, <3>1, <3>3, <4>2 DEF After
    <3> QED BY <1>4, <2>2, <3>2, <3>3 DEF After
  <2> QED BY <2>1, <2>2
<1>5. ASSUME NEW k \in 1..index
      PROVE  Laid(place, home2, spot2, k)' /\ After(place, home2, spot2, k - 1, home2[k], spot2[k])'
  <2> DEFINE h == home[k]
  <2>1. h \in 1..(Len(blocks) + 1) /\ h \in 1..LastBlock'
    BY <1>1, <1>3 DEF BlocksGrow
  <2>2. Grows(Text(h), Text(h)') /\ StartOf(h)' = StartOf(h)
    BY <2>1 DEF BlocksGrow
  <2>3. Carries(Text(h), spot[k], Spelled(k))
    BY <1>3 DEF Laid
  <2>4. Len(Text(h)) \in Nat /\ Len(Text(h)') \in Nat
    BY TextTyped, NextTextTyped
  <2>5. Carries(Text(h)', spot[k], Spelled(k))
    BY <1>3, <2>2, <2>3, <2>4, CarriesGrown
  <2>6. /\ place[k - 1] < StartOf(h) + BlockSize
        /\ spot[k] = 1 => StartOf(h) = place[k - 1]
    BY <1>1, <1>3 DEF Laid
  <2>7. Laid(place, home2, spot2, k)'
    BY <1>3, <2>1, <2>2, <2>5, <2>6 DEF Laid, Carries
  <2>8. k - 1 \in 0..index /\ h \in Int /\ h <= Len(blocks) + 1
    BY <1>1, <2>1
  <2>9. After(place, home2, spot2, k - 1, h, spot[k])'
    BY <1>3, <1>4, <2>8
  <2>10. home2[k] = h
    BY <1>3
  <2> HIDE DEF h
  <2> QED BY <2>7, <2>9, <2>10
<1>6. index \in 0..index /\ Len(blocks) + 1 \in Int
  BY <1>1
<1> QED BY <1>1, <1>4, <1>5, <1>6

\* A map with entry k changed, those before it as they were.
Extended(g, f, k, e) == g[k] = e /\ \A j \in 1..(k - 1) : g[j] = f[j]

LEMMA Entry ==
  ASSUME NEW f \in Maps, NEW k \in Nat, NEW e \in Nat
  PROVE  \E g \in Maps : Extended(g, f, k, e)
<1> DEFINE g == [f EXCEPT ![k] = e]
<1>1. g \in Maps /\ g[k] = e
  BY DEF Maps
<1>2. \A j \in 1..(k - 1) : j \in Nat /\ j # k
  OBVIOUS
<1>3. \A j \in 1..(k - 1) : g[j] = f[j]
  BY <1>2 DEF Maps
<1> HIDE DEF g
<1> QED BY <1>1, <1>3 DEF Extended

LEMMA AddStep == IndInv /\ AddToken => IndInv'
<1> SUFFICES ASSUME IndInv, AddToken PROVE IndInv'
  OBVIOUS
<1>0. InvTyped /\ Ends
  BY DEF IndInv
<1> PICK place \in Maps, home \in Maps, spot \in Maps : Consistent(place, home, spot)
  BY DEF IndInv
<1>1. Factored(place) /\ Segmented(place, home, spot) /\ Decoding(place, home, spot)
  BY DEF Consistent
<1>2. /\ pc = "factor" /\ index < Len(tokens) /\ produced < base + BlockSize
      /\ current' = current \o Fields(tokens[index + 1])
      /\ produced' = produced + tokens[index + 1].len /\ index' = index + 1
      /\ UNCHANGED <<data, limit, tokenizerVars, base, blocks, starts, decoderVars, pc>>
  BY DEF AddToken, Room
<1>3. Len(tokens) \in Nat /\ Len(blocks) \in Nat /\ index \in Nat /\ index + 1 \in 1..Len(tokens)
      /\ base \in 0..produced /\ produced = place[index] /\ produced \in Nat
  <2>1. index \in 0..Len(tokens) /\ base \in 0..produced /\ produced = place[index]
    BY <1>1 DEF Segmented
  <2>2. Len(tokens) \in Nat
    BY <1>0, Texts
  <2>3. place[index] \in Nat
    BY <2>1, <2>2 DEF Maps
  <2> QED BY <1>0, <1>2, <2>1, <2>2, <2>3, Texts
<1> PICK q \in Nat : q = index + 1
  BY <1>3
<1> PICK here \in Nat : here = Len(blocks) + 1
  BY <1>3
<1>4. current \in Seq(FieldSet) /\ Len(current) \in Nat
  BY <1>0 DEF InvTyped
<1> PICK next \in Nat : next = Len(current) + 1
  BY <1>4
<1> PICK home2 \in Maps : Extended(home2, home, q, here)
  BY Entry
<1> PICK spot2 \in Maps : Extended(spot2, spot, q, next)
  BY Entry
<1>5. q \in 1..Len(tokens) /\ q \in 1..(Len(tokens) + 1) /\ q - 1 = index /\ tokens' = tokens
  BY <1>2, <1>3 DEF tokenizerVars
<1>6. /\ Spelled(q) = Fields(tokens[q]) /\ Spelled(q) \in Seq(FieldSet) /\ Len(Spelled(q)) \in Nat \ {0}
      /\ Spelled(q)' = Spelled(q)
  BY <1>0, <1>1, <1>5, SpelledFacts DEF Spelled
<1>7. /\ current' = current \o Spelled(q) /\ current' \in Seq(FieldSet)
      /\ Len(current') = Len(current) + Len(Spelled(q))
      /\ \A i \in 1..Len(current) : current'[i] = current[i]
      /\ \A i \in 1..Len(Spelled(q)) : current'[Len(current) + i] = Spelled(q)[i]
  BY <1>2, <1>4, <1>6, Joined
<1>8. InvTyped'
  <2>1. UNCHANGED <<data, limit, pos, tokens, blocks, starts, block, item, blockEnd, length, pc>>
    BY <1>2 DEF tokenizerVars, decoderVars
  <2> QED BY <1>0, <1>7, <2>1 DEF InvTyped
<1>9. Ends'
  <2>1. data' = data /\ status' = status /\ out' = out /\ limit' = limit
    BY <1>2 DEF decoderVars
  <2> QED BY <1>0, <2>1 DEF Ends, n
<1>10. Factored(place)'
  <2>1. data' = data /\ pos' = pos /\ tokens' = tokens
    BY <1>2 DEF tokenizerVars
  <2> QED BY <1>1, <2>1 DEF Factored, Sound, MatchSymbol, n
<1>11. Segmented(place, home2, spot2)'
  <2>1. Segmenting /\ Segmenting' /\ Written' = q /\ LastBlock' = here /\ LastBlock = here
    BY <1>2, <1>5 DEF Segmenting, Written, LastBlock
  <2>2. BlocksGrow
    <3>1. \A b : b \in 1..Len(blocks) => Text(b)' = Text(b) /\ StartOf(b)' = StartOf(b)
      BY <1>2 DEF Text, StartOf
    <3>2. Text(here) = current /\ Text(here)' = current' /\ StartOf(here)' = StartOf(here)
      BY <1>2, <1>3 DEF Text, StartOf
    <3>3. Grows(current, current')
      BY <1>4, <1>6, <1>7 DEF Grows
    <3>4. \A b \in 1..(Len(blocks) + 1) : b = here \/ b \in 1..Len(blocks)
      BY <1>3
    <3>5. \A b : Grows(Text(b), Text(b))
      <4> SUFFICES ASSUME NEW b PROVE Grows(Text(b), Text(b))
        OBVIOUS
      <4>1. Len(Text(b)) \in Nat
        BY <1>0, TextTyped
      <4> QED BY <4>1 DEF Grows
    <3>6. ASSUME NEW b \in 1..(Len(blocks) + 1)
          PROVE  Grows(Text(b), Text(b)') /\ StartOf(b)' = StartOf(b)
      BY <3>1, <3>2, <3>3, <3>4, <3>5
    <3>7. LastBlock' >= Len(blocks) + 1 /\ LastBlock' \in Nat
      BY <1>3, <2>1
    <3> QED BY <3>1, <3>6, <3>7 DEF BlocksGrow
  <2>3. /\ home2[q] = here /\ spot2[q] = next
        /\ \A k \in 1..index : home2[k] = home[k] /\ spot2[k] = spot[k]
    BY <1>5 DEF Extended
  <2>4. /\ \A k \in 1..index :
             Laid(place, home2, spot2, k)' /\ After(place, home2, spot2, k - 1, home2[k], spot2[k])'
        /\ \A p, b, i : p = index /\ b = Len(blocks) + 1 /\ After(place, home, spot, p, b, i)
                           => After(place, home2, spot2, p, b, i)'
    BY <1>0, <1>1, <1>2, <1>5, <1>8, <2>2, <2>3, LaidKept
  <2>5. After(place, home2, spot2, q - 1, here, next)'
    <3>1. After(place, home, spot, index, here, next)
      BY <1>1, <2>1 DEF Segmented
    <3>2. After(place, home, spot, q - 1, here, next)
      BY <1>5, <3>1
    <3> QED BY <1>5, <2>4, <3>2
  <2>6. Laid(place, home2, spot2, q)'
    <3>1. Text(here)' = current' /\ StartOf(here)' = base
      BY <1>2, <1>3 DEF Text, StartOf
    <3>2. Carries(current', next, Spelled(q)')
      <4>1. \A i \in 1..Len(Spelled(q)) : next + i - 1 = Len(current) + i
        BY <1>4, <1>6
      <4> QED BY <1>4, <1>6, <1>7, <4>1 DEF Carries
    <3>3. place[q - 1] = produced /\ produced < base + BlockSize
      BY <1>2, <1>3, <1>5
    <3>4. next = 1 => base = produced
      <4>1. next = 1 => current = << >>
        BY <1>4
      <4> QED BY <1>1, <2>1, <4>1 DEF Segmented
    <3>5. here \in 1..LastBlock' /\ next \in Nat \ {0}
      BY <1>3, <1>4, <2>1
    <3> QED BY <2>1, <2>3, <3>1, <3>2, <3>3, <3>4, <3>5 DEF Laid, Carries
  <2>7. ASSUME NEW k \in 1..q
        PROVE  (Laid(place, home2, spot2, k) /\ After(place, home2, spot2, k - 1, home2[k], spot2[k]))'
    <3>1. CASE k \in 1..index
      BY <2>4, <3>1
    <3>2. CASE k = q
      BY <2>3, <2>5, <2>6, <3>2
    <3> QED BY <1>3, <1>5, <3>1, <3>2
  <2> PICK end \in Nat : end = Len(current') + 1
    BY <1>7, <1>4, <1>6
  <2>8. After(place, home2, spot2, q, here, end)'
    <3>1. q # 0
      BY <1>5
    <3>2. end = Len(current) + Len(Spelled(q)) + 1 /\ next = Len(current) + 1
      BY <1>7
    <3>3. end = next + Len(Spelled(q))
      BY <1>4, <1>6, <3>2
    <3> QED BY <1>6, <2>3, <3>1, <3>3 DEF After
  <2>9. current' # << >>
    BY <1>4, <1>6, <1>7
  <2>10. index' \in 0..Len(tokens') /\ produced' = place[index'] /\ base' \in 0..produced'
    <3>1. place[q] = place[q - 1] + tokens[q].len /\ tokens[q].len \in Nat
      BY <1>0, <1>1, <1>5, TokenTyped DEF Factored
    <3>2. produced' = place[q] /\ produced' = produced + tokens[q].len /\ index' = q /\ base' = base
      BY <1>2, <1>3, <1>5, <3>1
    <3> QED BY <1>3, <1>5, <3>1, <3>2
  <2>11. Len(starts') = Len(blocks') /\ Len(blocks') + 1 = here
    BY <1>1, <1>2 DEF Segmented
  <2>12. After(place, home2, spot2, index, Len(blocks) + 1, Len(current) + 1)'
    BY <1>2, <1>5, <2>8, <2>11
  <2> QED BY <1>2, <2>1, <2>7, <2>9, <2>10, <2>11, <2>12 DEF Segmented
<1>12. Decoding(place, home2, spot2)'
  <2>1. Segmenting /\ Segmenting'
    BY <1>2 DEF Segmenting
  <2> QED BY <1>1, <1>2, <2>1 DEF Decoding, decoderVars
<1> QED BY <1>8, <1>9, <1>10, <1>11, <1>12 DEF IndInv, Consistent

(***************************************************************************)
(* A block that ends for want of room ends behind a token, past its        *)
(* nominal end or on it.                                                   *)
(***************************************************************************)
LEMMA FullBlockStep ==
  ASSUME IndInv, EndBlock, index # Len(tokens)
  PROVE  IndInv'
<1>0. InvTyped /\ Ends
  BY DEF IndInv
<1> PICK place \in Maps, home \in Maps, spot \in Maps : Consistent(place, home, spot)
  BY DEF IndInv
<1>1. Factored(place) /\ Segmented(place, home, spot) /\ Decoding(place, home, spot)
  BY DEF Consistent
<1>2. /\ pc = "factor" /\ ~(produced < base + BlockSize) /\ pc' = "factor"
      /\ blocks' = Append(blocks, current) /\ starts' = Append(starts, base) /\ base' = produced
      /\ current' = << >>
      /\ UNCHANGED <<data, limit, tokenizerVars, index, produced, decoderVars>>
  BY DEF EndBlock, Room, NextBase
<1>3. /\ Len(tokens) \in Nat /\ Len(blocks) \in Nat /\ index \in 0..Len(tokens)
      /\ base \in 0..produced /\ produced = place[index] /\ produced \in Nat /\ Len(starts) = Len(blocks)
  <2>1. index \in 0..Len(tokens) /\ base \in 0..produced /\ produced = place[index] /\ Len(starts) = Len(blocks)
    BY <1>1 DEF Segmented
  <2>2. Len(tokens) \in Nat
    BY <1>0, Texts
  <2>3. place[index] \in Nat
    BY <2>1, <2>2 DEF Maps
  <2> QED BY <1>0, <2>1, <2>2, <2>3, Texts
<1> PICK here \in Nat : here = Len(blocks) + 1
  BY <1>3
<1>4. current \in Seq(FieldSet) /\ Len(current) \in Nat /\ BlockSize \in Nat \ {0}
  BY <1>0, Limits DEF InvTyped
<1>5. /\ blocks' \in Seq(Seq(FieldSet)) /\ Len(blocks') = here /\ blocks'[here] = current
      /\ \A b \in 1..Len(blocks) : blocks'[b] = blocks[b]
  <2>1. blocks \in Seq(Seq(FieldSet))
    BY <1>0 DEF InvTyped
  <2> QED BY <1>2, <1>4, <2>1, Appended
<1>6. /\ starts' \in Seq(Nat) /\ Len(starts') = here /\ starts'[here] = base
      /\ \A b \in 1..Len(blocks) : starts'[b] = starts[b]
  <2>1. starts \in Seq(Nat) /\ base \in Nat
    BY <1>0, <1>3 DEF InvTyped
  <2> QED BY <1>2, <1>3, <2>1, Appended
<1>7. InvTyped'
  <2>1. UNCHANGED <<data, limit, pos, tokens, block, item, blockEnd, length, pc>>
    BY <1>2 DEF tokenizerVars, decoderVars
  <2>2. current' \in Seq(FieldSet)
    BY <1>2
  <2> QED BY <1>0, <1>5, <1>6, <2>1, <2>2 DEF InvTyped
<1>8. Ends'
  <2>1. data' = data /\ status' = status /\ out' = out /\ limit' = limit
    BY <1>2 DEF decoderVars
  <2> QED BY <1>0, <2>1 DEF Ends, n
<1>9. data' = data /\ pos' = pos /\ tokens' = tokens /\ index' = index /\ produced' = produced
  BY <1>2 DEF tokenizerVars
<1>10. Factored(place)'
  BY <1>1, <1>9 DEF Factored, Sound, MatchSymbol, n
<1>11. Segmented(place, home, spot)'
  <2>1. Segmenting /\ Segmenting' /\ Written = index /\ Written' = index /\ LastBlock' = here + 1
    BY <1>2, <1>5, <1>9 DEF Segmenting, Written, LastBlock
  <2>2. \A b \in 1..(Len(blocks) + 1) : Text(b)' = Text(b) /\ StartOf(b)' = StartOf(b)
    <3> SUFFICES ASSUME NEW b \in 1..(Len(blocks) + 1)
                 PROVE  Text(b)' = Text(b) /\ StartOf(b)' = StartOf(b)
      OBVIOUS
    <3>1. b \in 1..Len(blocks')
      BY <1>3, <1>5
    <3>2. CASE b \in 1..Len(blocks)
      BY <1>5, <1>6, <3>1, <3>2 DEF Text, StartOf
    <3>3. CASE b = here
      <4>1. b \notin 1..Len(blocks)
        BY <1>3, <3>3
      <4> QED BY <1>5, <1>6, <3>1, <3>3, <4>1 DEF Text, StartOf
    <3> QED BY <1>3, <3>2, <3>3
  <2>3. BlocksGrow
    <3>1. \A b : Grows(Text(b), Text(b))
      <4> SUFFICES ASSUME NEW b PROVE Grows(Text(b), Text(b))
        OBVIOUS
      <4>1. Len(Text(b)) \in Nat
        BY <1>0, TextTyped
      <4> QED BY <4>1 DEF Grows
    <3>2. \A b \in 1..(Len(blocks) + 1) : Grows(Text(b), Text(b)') /\ StartOf(b)' = StartOf(b)
      BY <2>2, <3>1
    <3>3. LastBlock' >= Len(blocks) + 1 /\ LastBlock' \in Nat
      BY <1>3, <2>1
    <3>4. \A b \in 1..Len(blocks) : b \in 1..(Len(blocks) + 1)
      BY <1>3
    <3> QED BY <2>2, <3>2, <3>3, <3>4 DEF BlocksGrow
  <2>4. \A k \in 1..index :
          Laid(place, home, spot, k)' /\ After(place, home, spot, k - 1, home[k], spot[k])'
    BY <1>0, <1>1, <1>2, <1>7, <1>9, <2>3, LaidKept
  <2>5. current # << >> /\ Len(current) + 1 # 1
    <3>1. base # produced
      BY <1>2, <1>3, <1>4
    <3> QED BY <1>1, <1>4, <2>1, <3>1 DEF Segmented
  <2>6. After(place, home, spot, index, here, Len(current) + 1)
    BY <1>1, <2>1 DEF Segmented
  <2>7. index # 0 /\ here = home[index] /\ Len(current) + 1 = spot[index] + Len(Spelled(index))
    BY <2>5, <2>6 DEF After
  <2>8. After(place, home, spot, index, here + 1, 1)'
    <3>1. here \in 1..(Len(blocks) + 1) /\ here \notin 1..Len(blocks) /\ here \in 1..Len(blocks')
      BY <1>3, <1>5
    <3>2. Text(here)' = current /\ StartOf(here)' = base
      BY <1>5, <1>6, <3>1 DEF Text, StartOf
    <3>3. place[index] >= base + BlockSize
      BY <1>2, <1>3, <1>4
    <3>4. Spelled(index)' = Spelled(index)
      BY <1>9 DEF Spelled
    <3> QED BY <1>9, <2>7, <3>2, <3>3, <3>4 DEF After
  <2>9. Len(current') = 0 /\ current' = << >> /\ base' = produced'
    BY <1>2
  <2>10. base' \in 0..produced'
    BY <1>3, <2>9, <1>9
  <2>11. After(place, home, spot, index, Len(blocks) + 1, Len(current) + 1)'
    BY <1>5, <2>8, <2>9
  <2>12. Len(starts') = Len(blocks')
    BY <1>5, <1>6
  <2> QED BY <1>3, <1>9, <2>1, <2>4, <2>9, <2>10, <2>11, <2>12 DEF Segmented
<1>12. Decoding(place, home, spot)'
  <2>1. Segmenting /\ Segmenting'
    BY <1>2 DEF Segmenting
  <2> QED BY <1>1, <1>2, <2>1 DEF Decoding, decoderVars
<1> QED BY <1>7, <1>8, <1>10, <1>11, <1>12 DEF IndInv, Consistent

(***************************************************************************)
(* The last block ends with the EOF symbol.                                *)
(***************************************************************************)
LEMMA LastBlockStep ==
  ASSUME IndInv, EndBlock, index = Len(tokens)
  PROVE  IndInv'
<1>0. InvTyped /\ Ends
  BY DEF IndInv
<1> PICK place \in Maps, home \in Maps, spot \in Maps : Consistent(place, home, spot)
  BY DEF IndInv
<1>1. Factored(place) /\ Segmented(place, home, spot) /\ Decoding(place, home, spot)
  BY DEF Consistent
<1> DEFINE eof == Sym(EofSymbol)
           full == Append(current, eof)
<1>2. /\ pc = "factor" /\ pos >= n /\ pc' = "table"
      /\ blocks' = Append(blocks, full) /\ starts' = Append(starts, base) /\ base' = produced
      /\ current' = << >>
      /\ UNCHANGED <<data, limit, tokenizerVars, index, produced, decoderVars>>
  BY DEF EndBlock, NextBase
<1>3. /\ Len(tokens) \in Nat /\ Len(blocks) \in Nat /\ index \in Nat
      /\ base \in 0..produced /\ produced = place[index] /\ produced \in Nat /\ Len(starts) = Len(blocks)
  <2>1. index \in 0..Len(tokens) /\ base \in 0..produced /\ produced = place[index] /\ Len(starts) = Len(blocks)
    BY <1>1 DEF Segmented
  <2>2. Len(tokens) \in Nat
    BY <1>0, Texts
  <2>3. place[index] \in Nat
    BY <2>1, <2>2 DEF Maps
  <2> QED BY <1>0, <2>1, <2>2, <2>3, Texts
<1> PICK q \in Nat : q = index + 1
  BY <1>3
<1> PICK here \in Nat : here = Len(blocks) + 1
  BY <1>3
<1>4. current \in Seq(FieldSet) /\ Len(current) \in Nat
  BY <1>0 DEF InvTyped
<1> PICK next \in Nat : next = Len(current) + 1
  BY <1>4
<1> PICK home2 \in Maps : Extended(home2, home, q, here)
  BY Entry
<1> PICK spot2 \in Maps : Extended(spot2, spot, q, next)
  BY Entry
<1>5. /\ full \in Seq(FieldSet) /\ Len(full) = next /\ full[next] = eof
      /\ \A i \in 1..Len(current) : full[i] = current[i]
  BY <1>4, EofTyped, Appended
<1> HIDE DEF full, eof
<1>6. /\ blocks' \in Seq(Seq(FieldSet)) /\ Len(blocks') = here /\ blocks'[here] = full
      /\ \A b \in 1..Len(blocks) : blocks'[b] = blocks[b]
  <2>1. blocks \in Seq(Seq(FieldSet))
    BY <1>0 DEF InvTyped
  <2> QED BY <1>2, <1>5, <2>1, Appended
<1>7. /\ starts' \in Seq(Nat) /\ Len(starts') = here /\ starts'[here] = base
      /\ \A b \in 1..Len(blocks) : starts'[b] = starts[b]
  <2>1. starts \in Seq(Nat) /\ base \in Nat
    BY <1>0, <1>3 DEF InvTyped
  <2> QED BY <1>2, <1>3, <2>1, Appended
<1>8. InvTyped'
  <2>1. UNCHANGED <<data, limit, pos, tokens, block, item, blockEnd, length>>
    BY <1>2 DEF tokenizerVars, decoderVars
  <2>2. current' \in Seq(FieldSet)
    BY <1>2
  <2> QED BY <1>0, <1>2, <1>6, <1>7, <2>1, <2>2 DEF InvTyped
<1>9. Ends'
  <2>1. data' = data /\ status' = status /\ out' = out /\ limit' = limit
    BY <1>2 DEF decoderVars
  <2> QED BY <1>0, <2>1 DEF Ends, n
<1>10. data' = data /\ pos' = pos /\ tokens' = tokens /\ index' = index /\ produced' = produced
  BY <1>2 DEF tokenizerVars
<1>11. Factored(place)'
  BY <1>1, <1>10 DEF Factored, Sound, MatchSymbol, n
<1>12. /\ home2[q] = here /\ spot2[q] = next
       /\ \A k \in 1..index : home2[k] = home[k] /\ spot2[k] = spot[k]
  <2>1. q - 1 = index
    BY <1>3
  <2> QED BY <2>1 DEF Extended
<1>13. Segmenting /\ ~Segmenting' /\ Written = index /\ Written' = q /\ LastBlock' = here
  BY <1>2, <1>6, <1>10 DEF Segmenting, Written, LastBlock
<1>14. Segmented(place, home2, spot2)'
  <2>1. \A b \in 1..Len(blocks) : Text(b)' = Text(b) /\ StartOf(b)' = StartOf(b)
    <3> SUFFICES ASSUME NEW b \in 1..Len(blocks)
                 PROVE  Text(b)' = Text(b) /\ StartOf(b)' = StartOf(b)
      OBVIOUS
    <3>1. b \in 1..Len(blocks')
      BY <1>3, <1>6
    <3> QED BY <1>6, <1>7, <3>1 DEF Text, StartOf
  <2>2. Text(here) = current /\ Text(here)' = full /\ StartOf(here)' = base /\ StartOf(here) = base
    <3>1. here \notin 1..Len(blocks) /\ here \in 1..Len(blocks')
      BY <1>3, <1>6
    <3> QED BY <1>6, <1>7, <3>1 DEF Text, StartOf
  <2>3. BlocksGrow
    <3>1. \A b : Grows(Text(b), Text(b))
      <4> SUFFICES ASSUME NEW b PROVE Grows(Text(b), Text(b))
        OBVIOUS
      <4>1. Len(Text(b)) \in Nat
        BY <1>0, TextTyped
      <4> QED BY <4>1 DEF Grows
    <3>2. Grows(current, full)
      BY <1>4, <1>5 DEF Grows
    <3>3. \A b \in 1..(Len(blocks) + 1) : b = here \/ b \in 1..Len(blocks)
      BY <1>3
    <3>4. ASSUME NEW b \in 1..(Len(blocks) + 1)
          PROVE  Grows(Text(b), Text(b)') /\ StartOf(b)' = StartOf(b)
      BY <2>1, <2>2, <3>1, <3>2, <3>3
    <3>5. LastBlock' >= Len(blocks) + 1 /\ LastBlock' \in Nat
      BY <1>3, <1>13
    <3> QED BY <2>1, <3>4, <3>5 DEF BlocksGrow
  <2>4. /\ \A k \in 1..index :
             Laid(place, home2, spot2, k)' /\ After(place, home2, spot2, k - 1, home2[k], spot2[k])'
        /\ \A p, b, i : p = index /\ b = Len(blocks) + 1 /\ After(place, home, spot, p, b, i)
                           => After(place, home2, spot2, p, b, i)'
    BY <1>0, <1>1, <1>2, <1>8, <1>10, <1>12, <2>3, LaidKept
  <2>5. After(place, home2, spot2, q - 1, here, next)'
    <3>1. After(place, home, spot, index, here, next)
      BY <1>1, <1>13 DEF Segmented
    <3>2. q - 1 = index
      BY <1>3
    <3> QED BY <2>4, <3>1, <3>2
  <2>6. Laid(place, home2, spot2, q)'
    <3>1. Spelled(q)' = <<eof>> /\ ~(q <= Len(tokens'))
      <4>1. q \notin 1..Len(tokens') /\ ~(q <= Len(tokens'))
        BY <1>3, <1>10
      <4> QED BY <4>1 DEF Spelled, eof
    <3>2. Carries(full, next, <<eof>>)
      <4>1. \A i \in 1..1 : next + i - 1 = next /\ i = 1
        BY <1>4
      <4>2. Len(<<eof>>) = 1 /\ <<eof>>[1] = eof
        OBVIOUS
      <4> QED BY <1>4, <1>5, <4>1, <4>2 DEF Carries
    <3>3. next = 1 => base = place[q - 1]
      <4>1. next = 1 => current = << >>
        BY <1>4
      <4>2. q - 1 = index
        BY <1>3
      <4> QED BY <1>1, <1>3, <1>13, <4>1, <4>2 DEF Segmented
    <3>4. here \in 1..LastBlock' /\ next \in Nat \ {0}
      BY <1>3, <1>4, <1>13
    <3> QED BY <1>12, <2>2, <3>1, <3>2, <3>3, <3>4 DEF Laid
  <2>7. ASSUME NEW k \in 1..q
        PROVE  (Laid(place, home2, spot2, k) /\ After(place, home2, spot2, k - 1, home2[k], spot2[k]))'
    <3>1. CASE k \in 1..index
      BY <2>4, <3>1
    <3>2. CASE k = q
      BY <1>12, <2>5, <2>6, <3>2
    <3> QED BY <1>3, <3>1, <3>2
  <2>8. pos' = n' /\ home2[Len(tokens') + 1] = Len(blocks')
    <3>1. pos <= n /\ pos \in Nat /\ n \in Nat
      BY <1>0, <1>1, Texts DEF Factored, InvTyped
    <3>2. pos = n
      BY <1>2, <3>1
    <3> QED BY <1>6, <1>10, <1>12, <3>2 DEF n
  <2>9. index' \in 0..Len(tokens') /\ produced' = place[index'] /\ base' \in 0..produced'
    BY <1>2, <1>3, <1>10
  <2>10. Len(starts') = Len(blocks')
    BY <1>6, <1>7
  <2> QED BY <1>13, <2>7, <2>8, <2>9, <2>10 DEF Segmented
<1>15. Decoding(place, home2, spot2)'
  <2>1. out = << >> /\ block = 1
    BY <1>1, <1>13 DEF Decoding
  <2>2. out' = << >> /\ block' = 1 /\ limit' = limit /\ limit \in Nat
    BY <1>0, <1>2, <2>1 DEF decoderVars, InvTyped
  <2>3. place[0] = 0
    BY <1>1 DEF Factored
  <2>4. 1 \in 1..q
    BY <1>3
  <2>5. After(place, home2, spot2, 1 - 1, home2[1], spot2[1])'
    BY <1>13, <1>14, <2>4 DEF Segmented
  <2>6. home2[1] = 1 /\ spot2[1] = 1
    BY <2>5 DEF After
  <2>7. 1 \in 1..Len(blocks') /\ 0 \in 0..Len(tokens')
    BY <1>3, <1>6, <1>10
  <2>8. SubSeq(data', 1, 0) = << >>
    OBVIOUS
  <2>9. Decoded(place, home2, spot2, 0)'
    BY <1>2, <2>2, <2>3, <2>6, <2>7, <2>8 DEF Decoded
  <2> QED BY <1>13, <2>7, <2>9 DEF Decoding
<1> QED BY <1>8, <1>9, <1>11, <1>14, <1>15 DEF IndInv, Consistent

----------------------------------------------------------------------------
(* The decoder *)

\* A decoder that has met k tokens, in a state of the invariant.
Reader(place, home, spot, k) ==
  /\ InvTyped /\ Ends /\ pc # "factor"
  /\ Factored(place) /\ Segmented(place, home, spot) /\ Decoded(place, home, spot, k)

LEMMA ReaderExists ==
  ASSUME IndInv, pc # "factor"
  PROVE  \E place, home, spot \in Maps : \E k \in Nat : Reader(place, home, spot, k)
<1>0. InvTyped /\ Ends
  BY DEF IndInv
<1> PICK place \in Maps, home \in Maps, spot \in Maps : Consistent(place, home, spot)
  BY DEF IndInv
<1>1. ~Segmenting /\ Decoding(place, home, spot)
  BY DEF Segmenting, Consistent
<1>2. PICK k \in 0..Len(tokens) : Decoded(place, home, spot, k)
  BY <1>1 DEF Decoding
<1>3. k \in Nat
  BY <1>0, Texts
<1>4. Reader(place, home, spot, k)
  BY <1>0, <1>2 DEF Reader, Consistent
<1> QED BY <1>3, <1>4

\* What a decoder's step may change, and to what.
DecoderTyped ==
  /\ block \in Nat \ {0} /\ item \in Nat \ {0} /\ blockEnd \in Nat /\ length \in Nat
  /\ pc \in {"table", "symbol", "byte", "word", "dword", "offset"}

LEMMA ReaderKeeps ==
  ASSUME NEW place \in Maps, NEW home \in Maps, NEW spot \in Maps, NEW k \in Nat, NEW m \in Nat,
         Reader(place, home, spot, k), UNCHANGED <<data, limit, encoderVars>>,
         DecoderTyped', Ends', Decoded(place, home, spot, m)'
  PROVE  IndInv'
<1>1. /\ UNCHANGED <<data, limit, pos, tokens>>
      /\ UNCHANGED <<index, produced, base, current, blocks, starts>>
  BY DEF encoderVars, tokenizerVars, segmentVars
<1>2. InvTyped'
  BY <1>1 DEF Reader, InvTyped, DecoderTyped
<1>3. Factored(place)'
  BY <1>1 DEF Reader, Factored, Sound, MatchSymbol, n
<1>4. ~Segmenting /\ ~Segmenting' /\ Written' = Written /\ LastBlock' = LastBlock
  BY <1>1 DEF Reader, DecoderTyped, Segmenting, Written, LastBlock
<1>5. Segmented(place, home, spot)'
  <2>1. Segmented(place, home, spot)
    BY DEF Reader
  <2>2. /\ \A b : Text(b)' = Text(b) /\ StartOf(b)' = StartOf(b)
        /\ \A j : Spelled(j)' = Spelled(j)
    BY <1>1 DEF Text, StartOf, Spelled
  <2>3. ASSUME NEW j \in 1..Written
        PROVE  (Laid(place, home, spot, j) /\ After(place, home, spot, j - 1, home[j], spot[j]))'
    <3>1. Laid(place, home, spot, j) /\ After(place, home, spot, j - 1, home[j], spot[j])
      BY <2>1 DEF Segmented
    <3>2. Laid(place, home, spot, j)'
      BY <1>1, <1>4, <2>2, <3>1 DEF Laid, Carries
    <3>3. After(place, home, spot, j - 1, home[j], spot[j])'
      BY <2>2, <3>1 DEF After
    <3> QED BY <3>2, <3>3
  <2>4. \A j \in 1..Written' :
          (Laid(place, home, spot, j) /\ After(place, home, spot, j - 1, home[j], spot[j]))'
    BY <1>4, <2>3
  <2>5. pos' = n' /\ home[Len(tokens') + 1] = Len(blocks')
    BY <1>1, <1>4, <2>1 DEF Segmented, n
  <2> QED BY <1>1, <1>4, <2>1, <2>4, <2>5 DEF Segmented
<1>6. Decoding(place, home, spot)'
  <2>1. m \in 0..Len(tokens')
    BY DEF Decoded
  <2> QED BY <1>4, <2>1 DEF Decoding
<1> QED BY <1>2, <1>3, <1>5, <1>6 DEF IndInv, Consistent

(***************************************************************************)
(* The item a decoder that has met k tokens is to meet next.               *)
(***************************************************************************)
LEMMA NextItem ==
  ASSUME NEW place \in Maps, NEW home \in Maps, NEW spot \in Maps, NEW k \in Nat,
         Reader(place, home, spot, k)
  PROVE  /\ k \in 0..Len(tokens) /\ k + 1 \in 1..(Len(tokens) + 1)
         /\ home[k + 1] \in 1..Len(blocks) /\ spot[k + 1] \in Nat \ {0}
         /\ Carries(blocks[home[k + 1]], spot[k + 1], Spelled(k + 1))
         /\ k + 1 <= Len(tokens) => place[k] < starts[home[k + 1]] + BlockSize
         /\ spot[k + 1] = 1 => starts[home[k + 1]] = place[k]
         /\ After(place, home, spot, k, home[k + 1], spot[k + 1])
<1>1. Len(tokens) \in Nat /\ k \in 0..Len(tokens) /\ k + 1 \in 1..(Len(tokens) + 1) /\ (k + 1) - 1 = k
  BY Texts DEF Reader, Decoded
<1>2. Written = Len(tokens) + 1 /\ LastBlock = Len(blocks)
  BY DEF Reader, Segmenting, Written, LastBlock
<1>3. Laid(place, home, spot, k + 1) /\ After(place, home, spot, k, home[k + 1], spot[k + 1])
  BY <1>1, <1>2 DEF Reader, Segmented
<1>4. Text(home[k + 1]) = blocks[home[k + 1]] /\ StartOf(home[k + 1]) = starts[home[k + 1]]
  BY <1>2, <1>3 DEF Laid, Text, StartOf
<1> QED BY <1>1, <1>2, <1>3, <1>4 DEF Laid

LEMMA ReaderFacts ==
  ASSUME NEW place \in Maps, NEW home \in Maps, NEW spot \in Maps, NEW k \in Nat,
         Reader(place, home, spot, k)
  PROVE  /\ data \in Seq(Nat) /\ n \in Nat /\ limit \in Nat /\ Len(tokens) \in Nat
         /\ place[k] \in 0..n /\ place[k] <= limit
         /\ out = SubSeq(data, 1, place[k]) /\ Len(out) = place[k]
         /\ block \in 1..Len(blocks) /\ Len(blocks) \in Nat
         /\ blocks[block] \in Seq(FieldSet) /\ Len(blocks[block]) \in Nat
         /\ starts[block] \in Nat
         /\ item \in Nat \ {0} /\ blockEnd \in Nat /\ length \in Nat
         /\ k = Len(tokens) => place[k] = n /\ out = data
<1>1. InvTyped /\ Factored(place) /\ Segmented(place, home, spot) /\ Decoded(place, home, spot, k) /\ ~Segmenting
  BY DEF Reader, Segmenting
<1>2. data \in Seq(Nat) /\ n \in Nat /\ limit \in Nat /\ Len(tokens) \in Nat /\ Len(blocks) \in Nat
  BY <1>1, Texts DEF InvTyped
<1>3. place[k] \in 0..n /\ place[k] <= limit /\ out = SubSeq(data, 1, place[k])
  BY <1>1, Places DEF Decoded
<1>4. Len(out) = place[k]
  BY <1>2, <1>3 DEF n
<1>5. block \in 1..Len(blocks)
  BY <1>1 DEF Decoded
<1>6. blocks[block] \in Seq(FieldSet) /\ Len(blocks[block]) \in Nat
  <2>1. blocks[block] \in Seq(FieldSet)
    BY <1>1, <1>5 DEF InvTyped
  <2> QED BY <2>1
<1>7. starts[block] \in Nat
  <2>1. starts \in Seq(Nat) /\ block \in 1..Len(starts)
    BY <1>1, <1>5 DEF InvTyped, Segmented
  <2> QED BY <2>1
<1>8. item \in Nat \ {0} /\ blockEnd \in Nat /\ length \in Nat
  BY <1>1 DEF InvTyped
<1>9. k = Len(tokens) => place[k] = n /\ out = data
  <2> SUFFICES ASSUME k = Len(tokens) PROVE place[k] = n /\ out = data
    OBVIOUS
  <2>1. place[k] = n
    BY <1>1 DEF Factored, Segmented
  <2>2. SubSeq(data, 1, n) = data
    BY <1>2 DEF n
  <2> QED BY <1>3, <2>1, <2>2
<1> QED BY <1>2, <1>3, <1>4, <1>5, <1>6, <1>7, <1>8, <1>9

LEMMA EndKeeps ==
  ASSUME NEW place \in Maps, NEW home \in Maps, NEW spot \in Maps, NEW k \in Nat,
         Reader(place, home, spot, k), NEW verdict \in {"done", "refused"}, End(verdict),
         verdict = "done" => out = data, verdict = "refused" => n > limit
  PROVE  IndInv'
<1>1. /\ UNCHANGED <<data, limit, encoderVars, tokens, blocks, starts>>
      /\ UNCHANGED <<block, item, blockEnd, out, length, pc>> /\ status' = verdict
  BY DEF End, encoderVars, tokenizerVars, segmentVars
<1>2. DecoderTyped'
  BY <1>1 DEF Reader, InvTyped, DecoderTyped
<1>3. Ends'
  BY <1>1 DEF Ends, n
<1>4. Decoded(place, home, spot, k)
  BY DEF Reader
<1>5. Decoded(place, home, spot, k)'
  BY <1>1, <1>4 DEF Decoded, AtToken, InMatch, Rungs
<1> QED BY <1>1, <1>2, <1>3, <1>5, ReaderKeeps

LEMMA OpenStep == IndInv /\ OpenBlock => IndInv'
<1> SUFFICES ASSUME IndInv, OpenBlock PROVE IndInv'
  OBVIOUS
<1>1. /\ pc = "table" /\ item' = 1 /\ blockEnd' = Len(out) + BlockSize /\ pc' = "symbol"
      /\ UNCHANGED <<data, limit, encoderVars, block, out, length, status>>
  BY DEF OpenBlock
<1> PICK place \in Maps, home \in Maps, spot \in Maps : \E k \in Nat : Reader(place, home, spot, k)
  BY <1>1, ReaderExists
<1> PICK k \in Nat : Reader(place, home, spot, k)
  OBVIOUS
<1>2. home[k + 1] = block /\ spot[k + 1] = 1 /\ Decoded(place, home, spot, k)
  BY <1>1 DEF Reader, Decoded
<1>3. blockEnd' = starts[block] + BlockSize /\ blockEnd' \in Nat
  <2>1. Len(out) = place[k] /\ starts[block] = place[k] /\ starts[block] \in Nat
    BY <1>2, NextItem, ReaderFacts
  <2> QED BY <1>1, <2>1, Limits
<1>4. UNCHANGED <<data, tokens, blocks, starts, block, out, limit>>
  BY <1>1 DEF encoderVars, tokenizerVars, segmentVars
<1>5. Decoded(place, home, spot, k)'
  BY <1>1, <1>2, <1>3, <1>4 DEF Decoded, AtToken
<1>6. DecoderTyped'
  <2>1. block \in Nat \ {0} /\ length \in Nat
    BY DEF Reader, InvTyped
  <2> QED BY <1>1, <1>3, <1>4, <2>1 DEF DecoderTyped
<1>7. Ends'
  BY <1>1 DEF Reader, Ends, n
<1> QED BY <1>1, <1>5, <1>6, <1>7, ReaderKeeps

LEMMA LeaveStep == IndInv /\ LeaveBlock => IndInv'
<1> SUFFICES ASSUME IndInv, LeaveBlock PROVE IndInv'
  OBVIOUS
<1>1. /\ pc = "symbol" /\ Len(out) >= blockEnd
      /\ \/ block = Len(blocks) /\ End("done")
         \/ block # Len(blocks) /\ item > Len(blocks[block]) /\ NextBlock
         \/ block # Len(blocks) /\ ~(item > Len(blocks[block])) /\ End("garbled")
  BY DEF LeaveBlock
<1> PICK place \in Maps, home \in Maps, spot \in Maps : \E k \in Nat : Reader(place, home, spot, k)
  BY <1>1, ReaderExists
<1> PICK k \in Nat : Reader(place, home, spot, k)
  OBVIOUS
<1>2. Decoded(place, home, spot, k) /\ AtToken(place, home, spot, k) /\ blockEnd = starts[block] + BlockSize
  BY <1>1 DEF Reader, Decoded
<1>3. home[k + 1] = block => k = Len(tokens)
  <2> SUFFICES ASSUME home[k + 1] = block, k # Len(tokens) PROVE FALSE
    OBVIOUS
  <2>1. k + 1 <= Len(tokens)
    BY NextItem, ReaderFacts
  <2>2. place[k] < starts[block] + BlockSize
    BY <2>1, NextItem
  <2>3. Len(out) = place[k] /\ place[k] \in Nat /\ blockEnd \in Nat
    BY ReaderFacts
  <2> QED BY <1>1, <1>2, <2>2, <2>3
<1>4. home[k + 1] \in 1..Len(blocks) /\ block \in 1..Len(blocks) /\ Len(blocks) \in Nat /\ item \in Nat
      /\ Len(blocks[block]) \in Nat
  BY NextItem, ReaderFacts
<1>5. k = Len(tokens) => home[k + 1] = Len(blocks) /\ out = data
  BY ReaderFacts DEF Reader, Segmented, Segmenting
<1>6. CASE block = Len(blocks) /\ End("done")
  <2>1. home[k + 1] = block
    BY <1>2, <1>4, <1>6 DEF AtToken
  <2>2. out = data
    BY <1>3, <1>5, <2>1
  <2> QED BY <1>6, <2>2, EndKeeps
<1>7. ASSUME block # Len(blocks)
      PROVE  home[k + 1] = block + 1 /\ spot[k + 1] = 1 /\ item = Len(blocks[block]) + 1
  <2>1. home[k + 1] # block
    BY <1>3, <1>5, <1>7
  <2> QED BY <1>2, <2>1 DEF AtToken
<1>8. CASE block # Len(blocks) /\ item > Len(blocks[block]) /\ NextBlock
  <2>1. /\ block' = block + 1 /\ pc' = "table"
        /\ UNCHANGED <<data, limit, encoderVars, item, blockEnd, out, length, status>>
    BY <1>8 DEF NextBlock
  <2>2. UNCHANGED <<data, tokens, blocks, starts, out, limit>>
    BY <2>1 DEF encoderVars, tokenizerVars, segmentVars
  <2>3. block' \in 1..Len(blocks) /\ home[k + 1] = block' /\ spot[k + 1] = 1
    BY <1>4, <1>7, <1>8, <2>1
  <2>4. Decoded(place, home, spot, k)'
    BY <1>2, <2>1, <2>2, <2>3 DEF Decoded
  <2>5. DecoderTyped'
    BY <1>4, <2>1, <2>3 DEF DecoderTyped, Reader, InvTyped
  <2>6. Ends'
    BY <2>1 DEF Reader, Ends, n
  <2> QED BY <2>1, <2>4, <2>5, <2>6, ReaderKeeps
<1>9. CASE block # Len(blocks) /\ ~(item > Len(blocks[block])) /\ End("garbled")
  BY <1>4, <1>7, <1>9
<1> QED BY <1>1, <1>6, <1>8, <1>9

(***************************************************************************)
(* Within the fields of a token every field is where it was written.       *)
(***************************************************************************)
LEMMA FieldAt ==
  ASSUME NEW place \in Maps, NEW home \in Maps, NEW spot \in Maps, NEW k \in Nat,
         Reader(place, home, spot, k), home[k + 1] = block,
         NEW j \in 1..Len(Spelled(k + 1)), item = spot[k + 1] + j - 1
  PROVE  item <= Len(blocks[block]) /\ blocks[block][item] = Spelled(k + 1)[j]
<1>1. Carries(blocks[block], spot[k + 1], Spelled(k + 1)) /\ spot[k + 1] \in Nat \ {0}
  BY NextItem
<1>2. Len(Spelled(k + 1)) \in Nat /\ Len(blocks[block]) \in Nat
  BY NextItem, ReaderFacts, SpelledFacts DEF Reader
<1> QED BY <1>1, <1>2 DEF Carries

(***************************************************************************)
(* When the last field of a token has been met, the decoder is at the next *)
(* token.                                                                  *)
(***************************************************************************)
LEMMA TokenDone ==
  ASSUME NEW place \in Maps, NEW home \in Maps, NEW spot \in Maps, NEW k \in Nat, NEW q \in Nat,
         Reader(place, home, spot, k), q = k + 1, q <= Len(tokens), home[q] = block, pc # "table",
         item + 1 = spot[q] + Len(Spelled(q)), place[q] <= limit,
         NEW text, text = SubSeq(data, 1, place[q]), Produce(text), status = "working"
  PROVE  IndInv'
<1>1. /\ out' = text /\ item' = item + 1 /\ pc' = "symbol"
      /\ UNCHANGED <<data, limit, encoderVars, block, blockEnd, length, status>>
      /\ UNCHANGED <<data, limit, tokens, blocks, starts>>
  BY DEF Produce, encoderVars, tokenizerVars, segmentVars
<1>2. /\ block \in 1..Len(blocks) /\ Len(blocks) \in Nat /\ item \in Nat /\ Len(tokens) \in Nat
      /\ blockEnd = starts[block] + BlockSize
  BY ReaderFacts DEF Reader, Decoded
<1>3. q \in 0..Len(tokens) /\ q + 1 \in 1..(Len(tokens) + 1) /\ (q + 1) - 1 = q /\ q # 0
  BY <1>2
<1>4. Written = Len(tokens) + 1
  BY DEF Reader, Segmenting, Written
<1>5. After(place, home, spot, q, home[q + 1], spot[q + 1])
  BY <1>3, <1>4 DEF Reader, Segmented
<1>6. Text(block) = blocks[block] /\ StartOf(block) = starts[block]
  BY <1>2 DEF Text, StartOf
<1>7. AtToken(place, home, spot, q)'
  BY <1>1, <1>2, <1>3, <1>5, <1>6 DEF After, AtToken
<1>8. Decoded(place, home, spot, q)'
  BY <1>1, <1>2, <1>3, <1>7 DEF Decoded
<1>9. DecoderTyped' /\ Ends'
  BY <1>1, <1>2, ReaderFacts DEF Reader, InvTyped, DecoderTyped, Ends, n
<1> QED BY <1>1, <1>8, <1>9, ReaderKeeps

(***************************************************************************)
(* A token is known by its first field, where the block is not full yet.   *)
(***************************************************************************)
LEMMA AtSymbol ==
  ASSUME NEW place \in Maps, NEW home \in Maps, NEW spot \in Maps, NEW k \in Nat,
         Reader(place, home, spot, k), pc = "symbol", Len(out) < blockEnd
  PROVE  /\ home[k + 1] = block /\ item = spot[k + 1] /\ Len(Spelled(k + 1)) \in Nat \ {0}
         /\ item <= Len(blocks[block]) /\ blocks[block][item] = Spelled(k + 1)[1]
<1>1. AtToken(place, home, spot, k)
  BY DEF Reader, Decoded
<1>2. Len(out) = place[k] /\ place[k] \in Nat /\ blockEnd \in Nat /\ item \in Nat
  BY ReaderFacts
<1>3. home[k + 1] = block /\ item = spot[k + 1]
  BY <1>1, <1>2 DEF AtToken
<1>4. Len(Spelled(k + 1)) \in Nat \ {0}
  BY NextItem, SpelledFacts DEF Reader
<1>5. 1 \in 1..Len(Spelled(k + 1)) /\ item = spot[k + 1] + 1 - 1
  BY <1>2, <1>3, <1>4
<1> QED BY <1>3, <1>4, <1>5, FieldAt

\* A step within a match.
LEMMA RungKeeps ==
  ASSUME NEW place \in Maps, NEW home \in Maps, NEW spot \in Maps, NEW k \in Nat,
         Reader(place, home, spot, k), pc # "table", NEW len \in Nat,
         NEW next \in {"byte", "word", "dword", "offset"}, Step(len, next),
         InMatch(home, spot, k)'
  PROVE  IndInv'
<1>1. /\ item' = item + 1 /\ length' = len /\ pc' = next
      /\ UNCHANGED <<data, limit, encoderVars, block, blockEnd, out, status>>
      /\ UNCHANGED <<data, limit, tokens, blocks, starts>>
  BY DEF Step, encoderVars, tokenizerVars, segmentVars
<1>2. Decoded(place, home, spot, k)'
  BY <1>1 DEF Reader, Decoded
<1>3. DecoderTyped' /\ Ends'
  BY <1>1, ReaderFacts DEF Reader, InvTyped, DecoderTyped, Ends, n
<1> QED BY <1>1, <1>2, <1>3, ReaderKeeps

LEMMA PrefixGrows ==
  ASSUME NEW S, NEW d \in Seq(S), NEW m \in Nat, m + 1 \in 1..Len(d)
  PROVE  Append(SubSeq(d, 1, m), d[m + 1]) = SubSeq(d, 1, m + 1)
OBVIOUS

LEMMA LiteralRead ==
  ASSUME NEW place \in Maps, NEW home \in Maps, NEW spot \in Maps, NEW k \in Nat,
         Reader(place, home, spot, k), pc = "symbol", status = "working", home[k + 1] = block, item = spot[k + 1],
         k < Len(tokens), tokens[k + 1].dist = 0, ReadLiteral, Field = tokens[k + 1].byte
  PROVE  IndInv'
<1> PICK q \in Nat : q = k + 1
  OBVIOUS
<1>1. /\ InvTyped /\ Factored(place) /\ q \in 1..Len(tokens) /\ q - 1 = k /\ Len(tokens) \in Nat
      /\ q \in 1..(Len(tokens) + 1) /\ q \in 0..Len(tokens)
  BY ReaderFacts DEF Reader
<1>2. tokens[q].len = 1 /\ Len(Spelled(q)) = 1 /\ tokens[q].byte = data[place[k] + 1]
  <2>1. Spelled(q) = <<Sym(tokens[q].byte)>> /\ tokens[q].len = 1 /\ tokens[q].byte = data[place[k] + 1]
    BY <1>1, SpelledFacts
  <2> QED BY <2>1
<1>3. place[q] = place[k] + 1 /\ place[q] \in 0..n
  BY <1>1, <1>2, Places DEF Factored
<1>4. /\ data \in Seq(Nat) /\ n \in Nat /\ limit \in Nat /\ place[k] \in 0..n /\ Len(out) = place[k]
      /\ out = SubSeq(data, 1, place[k]) /\ item \in Nat
  BY ReaderFacts
<1>5. CASE Len(out) >= limit /\ End("refused")
  <2>1. n > limit
    BY <1>3, <1>4, <1>5
  <2> QED BY <1>5, <2>1, EndKeeps
<1>6. CASE Len(out) < limit /\ Produce(Append(out, Field))
  <2>1. Append(out, Field) = SubSeq(data, 1, place[q])
    <3>1. Field = data[place[k] + 1] /\ place[k] + 1 \in 1..Len(data)
      BY <1>2, <1>3, <1>4 DEF n
    <3>2. Append(SubSeq(data, 1, place[k]), data[place[k] + 1]) = SubSeq(data, 1, place[k] + 1)
      <4> PICK m \in Nat : m = place[k]
        BY <1>4
      <4>1. data \in Seq(Nat) /\ m + 1 \in 1..Len(data)
        BY <1>4, <3>1
      <4>2. Append(SubSeq(data, 1, m), data[m + 1]) = SubSeq(data, 1, m + 1)
        BY <4>1, PrefixGrows, Zenon
      <4> QED BY <4>2
    <3>3. Field = data[place[k] + 1] /\ out = SubSeq(data, 1, place[k]) /\ place[q] = place[k] + 1
      BY <1>3, <1>4, <3>1
    <3> HIDE DEF Field
    <3> QED BY <3>2, <3>3
  <2>2. place[q] <= limit
    BY <1>3, <1>4, <1>6
  <2>3. item = spot[q] /\ home[q] = block
    OBVIOUS
  <2>4. item + 1 = spot[q] + Len(Spelled(q))
    BY <1>2, <2>3
  <2>5. q <= Len(tokens)
    BY <1>1
  <2> QED BY <1>6, <2>1, <2>2, <2>3, <2>4, <2>5, TokenDone
<1> QED BY <1>4, <1>5, <1>6 DEF ReadLiteral

LEMMA SymbolStep == IndInv /\ ReadSymbol => IndInv'
<1> SUFFICES ASSUME IndInv, ReadSymbol PROVE IndInv'
  OBVIOUS
<1>1. /\ pc = "symbol" /\ status = "working" /\ Len(out) < blockEnd
      /\ Expect("sym", 0, ReadLiteral \/ ReadEof \/ ReadMatch)
  BY DEF ReadSymbol, Running
<1> PICK place \in Maps, home \in Maps, spot \in Maps : \E k \in Nat : Reader(place, home, spot, k)
  BY <1>1, ReaderExists
<1> PICK k \in Nat : Reader(place, home, spot, k)
  OBVIOUS
<1> PICK q \in Nat : q = k + 1
  OBVIOUS
<1>2. /\ home[q] = block /\ item = spot[q] /\ Len(Spelled(q)) \in Nat \ {0}
      /\ item <= Len(blocks[block]) /\ blocks[block][item] = Spelled(q)[1]
  BY <1>1, AtSymbol
<1>3. /\ InvTyped /\ Factored(place) /\ Len(tokens) \in Nat /\ k \in 0..Len(tokens)
      /\ q \in 1..(Len(tokens) + 1) /\ item \in Nat \ {0} /\ EofSymbol \in Nat \ {0}
  BY ReaderFacts, NextItem, Limits DEF Reader
<1>4. ASSUME NEW s, Spelled(q)[1] = Sym(s)
      PROVE  Field = s /\ (ReadLiteral \/ ReadEof \/ ReadMatch)
  <2>1. blocks[block][item].kind = "sym" /\ blocks[block][item].size = 0 /\ blocks[block][item].value = s
    BY <1>2, <1>4 DEF Sym
  <2> QED BY <1>1, <1>2, <2>1 DEF Expect, Field
<1>5. CASE q = Len(tokens) + 1
  <2>1. Spelled(q)[1] = Sym(EofSymbol)
    BY <1>3, <1>5, SpelledFacts
  <2>2. Field = EofSymbol /\ (ReadLiteral \/ ReadEof \/ ReadMatch)
    BY <1>4, <2>1
  <2>3. End("done")
    BY <1>3, <2>2 DEF ReadLiteral, ReadEof, ReadMatch
  <2>4. out = data
    BY <1>3, <1>5, ReaderFacts
  <2> QED BY <2>3, <2>4, EndKeeps
<1>6. CASE q # Len(tokens) + 1 /\ tokens[q].dist = 0
  <2>1. q \in 1..Len(tokens)
    BY <1>3, <1>6
  <2>2. Spelled(q)[1] = Sym(tokens[q].byte) /\ tokens[q].byte < EofSymbol /\ tokens[q].byte \in Nat
    BY <1>3, <1>6, <2>1, SpelledFacts, TokenTyped
  <2>3. Field = tokens[q].byte /\ (ReadLiteral \/ ReadEof \/ ReadMatch)
    BY <1>4, <2>2
  <2>4. ReadLiteral
    BY <1>3, <2>2, <2>3 DEF ReadEof, ReadMatch
  <2>5. k < Len(tokens)
    BY <1>3, <2>1
  <2> QED BY <1>1, <1>2, <1>6, <2>3, <2>4, <2>5, LiteralRead
<1>7. CASE q # Len(tokens) + 1 /\ tokens[q].dist # 0
  <2> DEFINE len == tokens[q].len
             dist == tokens[q].dist
             symbol == MatchSymbol(len, dist)
  <2>1. q \in 1..Len(tokens) /\ k < Len(tokens)
    BY <1>3, <1>7
  <2>2. /\ SpelledAs(Spelled(q), len, dist) /\ len \in Nat /\ len >= MinMatch /\ Near(dist)
        /\ symbol > EofSymbol /\ Spelled(q)[1] = Sym(symbol)
    BY <1>3, <1>7, <2>1, SpelledFacts DEF Codable, SpelledAs
  <2>3. Field = symbol /\ (ReadLiteral \/ ReadEof \/ ReadMatch)
    BY <1>4, <2>2
  <2>4. symbol \in Nat /\ (symbol - EofSymbol) % (NibbleMax + 1) = Nibble(len)
    BY <2>2, SymbolParts
  <2>5. IF Nibble(len) < NibbleMax THEN Step(Nibble(len) + MinMatch, "offset") ELSE Step(0, "byte")
    <3> HIDE DEF symbol
    <3> QED BY <1>3, <2>2, <2>3, <2>4 DEF ReadLiteral, ReadEof, ReadMatch
  <2>6. /\ Nibble(len) < NibbleMax => Nibble(len) + MinMatch = len /\ Rungs(len) = 0
        /\ ~(Nibble(len) < NibbleMax) => Rungs(len) >= 1
        /\ Nibble(len) \in Nat
    BY <2>2, NibbleBounds, Limits DEF Rungs
  <2> HIDE DEF len, symbol
  <2>7. ASSUME NEW a \in Nat, NEW next \in {"byte", "offset"}, Step(a, next),
               next = "byte" => Rungs(len) >= 1, next = "offset" => a = len /\ Rungs(len) = 0
        PROVE  IndInv'
    <3>1. /\ item' = item + 1 /\ length' = a /\ pc' = next
          /\ UNCHANGED <<block, tokens>>
      BY <2>7 DEF Step, encoderVars, tokenizerVars
    <3>2. tokens[k + 1].len = len
      BY DEF len
    <3>3. InMatch(home, spot, k)'
      BY <1>2, <1>3, <1>7, <2>1, <2>7, <3>1, <3>2 DEF InMatch, Rungs
    <3> QED BY <1>1, <2>7, <3>3, RungKeeps
  <2>8. CASE Nibble(len) < NibbleMax
    <3>1. Step(len, "offset")
      BY <2>5, <2>6, <2>8
    <3> QED BY <2>2, <2>6, <2>7, <2>8, <3>1
  <2>9. CASE ~(Nibble(len) < NibbleMax)
    BY <2>5, <2>6, <2>7, <2>9
  <2> QED BY <2>8, <2>9
<1> QED BY <1>5, <1>6, <1>7

(***************************************************************************)
(* What a decoder in the middle of a match has before it.                  *)
(***************************************************************************)
MatchAhead(place, home, spot, k, q, len, dist) ==
  /\ q \in 1..Len(tokens) /\ tokens[q].len = len /\ tokens[q].dist = dist
  /\ len \in Nat /\ len >= MinMatch /\ Near(dist) /\ Rungs(len) \in 0..3
  /\ dist \in 1..place[k] /\ RepeatsAfter(data, place[k], dist, len)
  /\ place[q] = place[k] + len /\ place[q] \in 0..n
  /\ home[q] = block /\ spot[q] \in Nat \ {0} /\ item \in Nat /\ item <= Len(blocks[block])
  /\ SpelledAs(Spelled(q), len, dist) /\ Len(Spelled(q)) = 2 + Rungs(len)
  /\ \A j \in 1..(2 + Rungs(len)) : blocks[block][spot[q] + j - 1] = Spelled(q)[j]

LEMMA MatchFacts ==
  ASSUME NEW place \in Maps, NEW home \in Maps, NEW spot \in Maps, NEW k \in Nat, NEW q \in Nat,
         Reader(place, home, spot, k), q = k + 1, pc \in {"byte", "word", "dword", "offset"}
  PROVE  InMatch(home, spot, k) /\ MatchAhead(place, home, spot, k, q, tokens[q].len, tokens[q].dist)
<1>1. InMatch(home, spot, k)
  BY DEF Reader, Decoded
<1>2. /\ InvTyped /\ Factored(place) /\ q \in 1..Len(tokens) /\ q - 1 = k /\ Len(tokens) \in Nat
      /\ q \in 1..(Len(tokens) + 1) /\ q \in 0..Len(tokens) /\ tokens[q].dist # 0 /\ home[q] = block
  BY <1>1, ReaderFacts DEF Reader, InMatch
<1> DEFINE len == tokens[q].len
           dist == tokens[q].dist
<1>3. /\ SpelledAs(Spelled(q), len, dist) /\ len \in Nat /\ len >= MinMatch /\ Near(dist)
  BY <1>2, SpelledFacts DEF Codable
<1>4. Sound(tokens[q], place[k]) /\ place[q] = place[k] + len
  BY <1>2 DEF Factored
<1>5. /\ dist \in 1..place[k] /\ RepeatsAfter(data, place[k], dist, len) /\ place[q] \in 0..n
  <2>1. dist <= place[k] /\ RepeatsAfter(data, place[k], dist, len)
    BY <1>2, <1>4 DEF Sound
  <2>2. place[k] \in Nat /\ place[q] \in 0..n
    BY <1>2, ReaderFacts, Places
  <2>3. dist \in Nat \ {0}
    BY <1>3 DEF Near
  <2> HIDE DEF dist
  <2> QED BY <2>1, <2>2, <2>3
<1> HIDE DEF len, dist
<1>6. Rungs(len) \in 0..3 /\ Len(Spelled(q)) = 2 + Rungs(len)
  BY <1>3, LadderShape DEF SpelledAs
<1>7. Carries(blocks[block], spot[q], Spelled(q)) /\ spot[q] \in Nat \ {0}
  BY <1>2, NextItem
<1>8. \A j \in 1..(2 + Rungs(len)) : blocks[block][spot[q] + j - 1] = Spelled(q)[j]
  BY <1>6, <1>7 DEF Carries
<1>9. item <= spot[q] + 1 + Rungs(len) /\ item \in Nat
  <2>1. \/ Rungs(len) >= 1 /\ item = spot[q] + 1
        \/ Rungs(len) >= 2 /\ item = spot[q] + 2
        \/ Rungs(len) = 3 /\ item = spot[q] + 3
        \/ item = spot[q] + 1 + Rungs(len)
    BY <1>1, <1>2 DEF InMatch, len
  <2> QED BY <1>6, <1>7, <2>1
<1>10. item <= Len(blocks[block])
  <2>1. Len(blocks[block]) \in Nat
    BY ReaderFacts
  <2>2. spot[q] + (2 + Rungs(len)) - 1 <= Len(blocks[block])
    BY <1>6, <1>7 DEF Carries
  <2>3. \A a, r, l, i \in Nat : a + (2 + r) - 1 <= l /\ i <= a + 1 + r => i <= l
    OBVIOUS
  <2>4. spot[q] \in Nat /\ Rungs(len) \in Nat
    BY <1>6, <1>7
  <2> QED BY <1>9, <2>1, <2>2, <2>3, <2>4
<1>11. tokens[q].len = len /\ tokens[q].dist = dist
  BY DEF len, dist
<1> QED BY <1>1, <1>2, <1>3, <1>4, <1>5, <1>6, <1>7, <1>8, <1>9, <1>10, <1>11 DEF MatchAhead

\* The field the decoder asks for is the one before it.
LEMMA Asked ==
  ASSUME NEW kind, NEW size, NEW value, NEW Read \in BOOLEAN, Expect(kind, size, Read), item <= Len(blocks[block]),
         blocks[block][item] = [kind |-> kind, size |-> size, value |-> value]
  PROVE  Read /\ Field = value
BY DEF Expect, Field

LEMMA ByteStep == IndInv /\ ReadByte => IndInv'
<1> SUFFICES ASSUME IndInv, ReadByte PROVE IndInv'
  OBVIOUS
<1> DEFINE read == IF Field < ByteMax THEN Step(Field + NibbleMax + MinMatch, "offset") ELSE Step(0, "word")
<1>1. pc = "byte" /\ Expect("raw", 1, read)
  BY DEF ReadByte
<1> PICK place \in Maps, home \in Maps, spot \in Maps : \E k \in Nat : Reader(place, home, spot, k)
  BY <1>1, ReaderExists
<1> PICK k \in Nat : Reader(place, home, spot, k)
  OBVIOUS
<1> PICK q \in Nat : q = k + 1
  OBVIOUS
<1> PICK len, dist : len = tokens[q].len /\ dist = tokens[q].dist
  OBVIOUS
<1>2. InMatch(home, spot, k) /\ MatchAhead(place, home, spot, k, q, len, dist)
  BY <1>1, MatchFacts
<1>3. /\ len \in Nat /\ Rungs(len) \in 0..3 /\ Rungs(len) >= 1 /\ item = spot[q] + 1 /\ item <= Len(blocks[block])
      /\ spot[q] \in Nat /\ q <= Len(tokens) /\ home[q] = block /\ tokens[q].dist # 0 /\ len >= MinMatch
  BY <1>1, <1>2 DEF InMatch, MatchAhead
<1>4. blocks[block][item] = Spelled(q)[2] /\ SpelledAs(Spelled(q), len, dist)
  <2>1. 2 \in 1..(2 + Rungs(len)) /\ spot[q] + 2 - 1 = item
    BY <1>3
  <2> QED BY <1>2, <2>1 DEF MatchAhead
<1>5. ASSUME NEW a \in Nat, NEW next \in {"word", "offset"}, Step(a, next),
             next = "word" => Rungs(len) >= 2, next = "offset" => a = len /\ Rungs(len) = 1
      PROVE  IndInv'
  <2>1. item' = item + 1 /\ length' = a /\ pc' = next /\ UNCHANGED <<block, tokens>>
    BY <1>5 DEF Step, encoderVars, tokenizerVars
  <2>2. InMatch(home, spot, k)'
    BY <1>3, <1>5, <2>1 DEF InMatch, Rungs
  <2> QED BY <1>1, <1>5, <2>2, RungKeeps
<1>6. CASE Rungs(len) = 1
  <2>1. len - MinMatch - NibbleMax < ByteMax /\ blocks[block][item] = Raw(1, len - MinMatch - NibbleMax)
    BY <1>3, <1>4, <1>6, LadderShape DEF SpelledAs
  <2>2. read /\ Field = len - MinMatch - NibbleMax
    <3> HIDE DEF read
    <3>1. read \in BOOLEAN
      BY DEF read, Step
    <3> QED BY <1>1, <1>3, <2>1, <3>1, Asked DEF Raw
  <2>3. Field + NibbleMax + MinMatch = len
    BY <1>3, <2>2, Limits
  <2>4. Step(len, "offset")
    BY <2>1, <2>2, <2>3
  <2> QED BY <1>3, <1>5, <1>6, <2>4
<1>7. CASE Rungs(len) # 1
  <2>1. blocks[block][item] = Raw(1, ByteMax)
    BY <1>3, <1>4, <1>7 DEF SpelledAs
  <2>2. read /\ Field = ByteMax
    <3> HIDE DEF read
    <3>1. read \in BOOLEAN
      BY DEF read, Step
    <3> QED BY <1>1, <1>3, <2>1, <3>1, Asked DEF Raw
  <2>3. Step(0, "word") /\ Rungs(len) >= 2
    BY <1>3, <1>7, <2>2, Limits
  <2> QED BY <1>5, <2>3
<1> QED BY <1>6, <1>7

LEMMA WordStep == IndInv /\ ReadWord => IndInv'
<1> SUFFICES ASSUME IndInv, ReadWord PROVE IndInv'
  OBVIOUS
<1> DEFINE read == IF Field = 0 THEN Step(0, "dword")
                   ELSE IF Field < NibbleMax THEN End("corrupt")
                   ELSE Step(Field + MinMatch, "offset")
<1>1. pc = "word" /\ Expect("raw", 2, read)
  BY DEF ReadWord
<1> PICK place \in Maps, home \in Maps, spot \in Maps : \E k \in Nat : Reader(place, home, spot, k)
  BY <1>1, ReaderExists
<1> PICK k \in Nat : Reader(place, home, spot, k)
  OBVIOUS
<1> PICK q \in Nat : q = k + 1
  OBVIOUS
<1> PICK len, dist : len = tokens[q].len /\ dist = tokens[q].dist
  OBVIOUS
<1>2. InMatch(home, spot, k) /\ MatchAhead(place, home, spot, k, q, len, dist)
  BY <1>1, MatchFacts
<1>3. /\ len \in Nat /\ Rungs(len) \in {2, 3} /\ item = spot[q] + 2 /\ item <= Len(blocks[block])
      /\ spot[q] \in Nat /\ q <= Len(tokens) /\ home[q] = block /\ tokens[q].dist # 0 /\ len >= MinMatch
  BY <1>1, <1>2 DEF InMatch, MatchAhead
<1>4. blocks[block][item] = Spelled(q)[3] /\ SpelledAs(Spelled(q), len, dist)
  <2>1. 3 \in 1..(2 + Rungs(len)) /\ spot[q] + 3 - 1 = item
    BY <1>3
  <2> QED BY <1>2, <2>1 DEF MatchAhead
<1>5. ASSUME NEW a \in Nat, NEW next \in {"dword", "offset"}, Step(a, next),
             next = "dword" => Rungs(len) = 3, next = "offset" => a = len /\ Rungs(len) = 2
      PROVE  IndInv'
  <2>1. item' = item + 1 /\ length' = a /\ pc' = next /\ UNCHANGED <<block, tokens>>
    BY <1>5 DEF Step, encoderVars, tokenizerVars
  <2>2. InMatch(home, spot, k)'
    BY <1>3, <1>5, <2>1 DEF InMatch, Rungs
  <2> QED BY <1>1, <1>5, <2>2, RungKeeps
<1>6. read \in BOOLEAN
  BY DEF Step, End
<1> HIDE DEF read
<1>7. CASE Rungs(len) = 2
  <2>0. len - MinMatch - NibbleMax >= ByteMax
    BY <1>3, <1>7, LadderShape
  <2>1. blocks[block][item] = Raw(2, len - MinMatch)
    BY <1>4, <1>7 DEF SpelledAs
  <2>2. read /\ Field = len - MinMatch
    BY <1>1, <1>3, <1>6, <2>1, Asked DEF Raw
  <2>3. Field + MinMatch = len /\ Field # 0 /\ ~(Field < NibbleMax)
    <3>1. len \in Nat /\ Field = len - MinMatch
      BY <1>3, <2>2
    <3> HIDE DEF Field
    <3> QED BY <2>0, <3>1, Limits
  <2>4. Step(len, "offset")
    BY <2>2, <2>3 DEF read
  <2> QED BY <1>3, <1>5, <1>7, <2>4
<1>8. CASE Rungs(len) = 3
  <2>1. blocks[block][item] = Raw(2, 0)
    BY <1>4, <1>8 DEF SpelledAs
  <2>2. read /\ Field = 0
    BY <1>1, <1>3, <1>6, <2>1, Asked DEF Raw
  <2>3. Step(0, "dword")
    BY <2>2 DEF read
  <2> QED BY <1>5, <1>8, <2>3
<1> QED BY <1>3, <1>7, <1>8

LEMMA DwordStep == IndInv /\ ReadDword => IndInv'
<1> SUFFICES ASSUME IndInv, ReadDword PROVE IndInv'
  OBVIOUS
<1> DEFINE read == Step(Field + MinMatch, "offset")
<1>1. pc = "dword" /\ Expect("raw", 4, read)
  BY DEF ReadDword
<1> PICK place \in Maps, home \in Maps, spot \in Maps : \E k \in Nat : Reader(place, home, spot, k)
  BY <1>1, ReaderExists
<1> PICK k \in Nat : Reader(place, home, spot, k)
  OBVIOUS
<1> PICK q \in Nat : q = k + 1
  OBVIOUS
<1> PICK len, dist : len = tokens[q].len /\ dist = tokens[q].dist
  OBVIOUS
<1>2. InMatch(home, spot, k) /\ MatchAhead(place, home, spot, k, q, len, dist)
  BY <1>1, MatchFacts
<1>3. /\ len \in Nat /\ Rungs(len) = 3 /\ item = spot[q] + 3 /\ item <= Len(blocks[block])
      /\ spot[q] \in Nat /\ q <= Len(tokens) /\ home[q] = block /\ tokens[q].dist # 0 /\ len >= MinMatch
  BY <1>1, <1>2 DEF InMatch, MatchAhead
<1>4. blocks[block][item] = Spelled(q)[4] /\ SpelledAs(Spelled(q), len, dist)
  <2>1. 4 \in 1..(2 + Rungs(len)) /\ spot[q] + 4 - 1 = item
    BY <1>3
  <2> QED BY <1>2, <2>1 DEF MatchAhead
<1>5. read \in BOOLEAN
  BY DEF Step
<1> HIDE DEF read
<1>6. blocks[block][item] = Raw(4, len - MinMatch)
  BY <1>3, <1>4 DEF SpelledAs
<1>7. read /\ Field = len - MinMatch
  BY <1>1, <1>3, <1>5, <1>6, Asked DEF Raw
<1>8. Step(len, "offset")
  <2>1. Field + MinMatch = len
    BY <1>3, <1>7, Limits
  <2> QED BY <1>7, <2>1 DEF read
<1>9. item' = item + 1 /\ length' = len /\ pc' = "offset" /\ UNCHANGED <<block, tokens>>
  BY <1>8 DEF Step, encoderVars, tokenizerVars
<1>10. InMatch(home, spot, k)'
  BY <1>3, <1>9 DEF InMatch, Rungs
<1> QED BY <1>1, <1>3, <1>8, <1>10, RungKeeps

(***************************************************************************)
(* The symbol of the match a decoder is in is the last one it met, and     *)
(* tells how wide the offset is.                                           *)
(***************************************************************************)
LEMMA WidthKnown ==
  ASSUME NEW place, NEW home, NEW spot, NEW k \in Nat, NEW q, NEW len, NEW dist,
         MatchAhead(place, home, spot, k, q, len, dist), item = spot[q] + 1 + Rungs(len)
  PROVE  OffsetWidth = High(dist)
<1> DEFINE field == blocks[block]
           at == spot[q]
           Last(i) == field[i].kind = "sym" /\ \A j \in (i + 1)..(item - 1) : field[j].kind # "sym"
           symbol == CHOOSE i \in 1..(item - 1) : Last(i)
<1>1. /\ at \in Nat \ {0} /\ item \in Nat /\ item = at + 1 + Rungs(len) /\ Rungs(len) \in 0..3
      /\ len \in Nat /\ len >= MinMatch /\ Near(dist) /\ SpelledAs(Spelled(q), len, dist)
      /\ \A j \in 1..(2 + Rungs(len)) : field[at + j - 1] = Spelled(q)[j]
  BY DEF MatchAhead
<1>2. field[at] = Sym(MatchSymbol(len, dist))
  <2>1. 1 \in 1..(2 + Rungs(len)) /\ at + 1 - 1 = at
    BY <1>1
  <2>2. field[at + 1 - 1] = Spelled(q)[1]
    BY <1>1, <2>1
  <2> QED BY <1>1, <2>1, <2>2 DEF SpelledAs
<1>3. ASSUME NEW j \in (at + 1)..(item - 1)
      PROVE  field[j].kind = "raw"
  <2> PICK i \in 2..(1 + Rungs(len)) : j = at + i - 1
    <3>1. at \in Nat /\ Rungs(len) \in Nat /\ j \in (at + 1)..(at + Rungs(len))
      <4>1. at \in Nat /\ Rungs(len) \in Nat /\ item - 1 = at + Rungs(len)
        BY <1>1
      <4> QED BY <4>1
    <3> HIDE DEF at
    <3>2. (j - at) + 1 \in 2..(1 + Rungs(len)) /\ j = at + ((j - at) + 1) - 1
      BY <3>1
    <3> QED BY <3>2
  <2>1. field[j] = Spelled(q)[i]
    BY <1>1
  <2>2. Spelled(q)[i].kind = "raw"
    <3>1. \/ i = 2 /\ Rungs(len) \in {1, 2, 3}
          \/ i = 3 /\ Rungs(len) \in {2, 3}
          \/ i = 4 /\ Rungs(len) = 3
      BY <1>1
    <3>2. \A c, v : Raw(c, v).kind = "raw"
      BY DEF Raw
    <3>3. \E c, v : Spelled(q)[i] = Raw(c, v)
      BY <1>1, <3>1 DEF SpelledAs
    <3> QED BY <3>2, <3>3
  <2> QED BY <2>1, <2>2
<1>4. field[at].kind = "sym" /\ field[at].value = MatchSymbol(len, dist)
  BY <1>2 DEF Sym
<1>5. at \in 1..(item - 1) /\ Last(at)
  BY <1>1, <1>3, <1>4
<1>6. ASSUME NEW i \in 1..(item - 1), Last(i) PROVE i = at
  <2>1. field[i].kind = "sym" /\ ~(at \in (i + 1)..(item - 1))
    BY <1>4, <1>6
  <2>2. ~(i \in (at + 1)..(item - 1))
    BY <1>3, <2>1
  <2> QED BY <1>1, <1>5, <2>1, <2>2
<1>7. symbol = at
  <2> HIDE DEF Last
  <2> QED BY <1>5, <1>6
<1>8. OffsetWidth = (field[symbol].value - EofSymbol) \div (NibbleMax + 1)
  BY DEF OffsetWidth
<1>9. OffsetWidth = (MatchSymbol(len, dist) - EofSymbol) \div (NibbleMax + 1)
  BY <1>4, <1>7, <1>8
<1> QED BY <1>1, <1>9, SymbolParts

LEMMA OffsetStep == IndInv /\ ReadOffset => IndInv'
<1> SUFFICES ASSUME IndInv, ReadOffset PROVE IndInv'
  OBVIOUS
<1> DEFINE offset == Field + 2^OffsetWidth
           read == IF Len(out) + length > limit THEN End("refused")
                   ELSE IF offset > Len(out) THEN End("corrupt")
                   ELSE Produce(CopyMatch(out, offset, length))
<1>1. pc = "offset" /\ status = "working" /\ Expect("bits", OffsetWidth, read)
  BY DEF ReadOffset, Running
<1> PICK place \in Maps, home \in Maps, spot \in Maps : \E k \in Nat : Reader(place, home, spot, k)
  BY <1>1, ReaderExists
<1> PICK k \in Nat : Reader(place, home, spot, k)
  OBVIOUS
<1> PICK q \in Nat : q = k + 1
  OBVIOUS
<1> PICK len, dist : len = tokens[q].len /\ dist = tokens[q].dist
  OBVIOUS
<1>2. InMatch(home, spot, k) /\ MatchAhead(place, home, spot, k, q, len, dist)
  BY <1>1, MatchFacts
<1>3. /\ len \in Nat /\ Rungs(len) \in 0..3 /\ item = spot[q] + 1 + Rungs(len) /\ item <= Len(blocks[block])
      /\ q \in 1..Len(tokens) /\ home[q] = block /\ length = len /\ Near(dist)
      /\ dist \in 1..place[k] /\ RepeatsAfter(data, place[k], dist, len)
      /\ place[q] = place[k] + len /\ place[q] \in 0..n
  BY <1>1, <1>2 DEF InMatch, MatchAhead
<1> PICK last \in 2..5 : last = 2 + Rungs(len)
  BY <1>3
<1>14. /\ spot[q] \in Nat /\ item \in Nat /\ item + 1 = spot[q] + last /\ Len(Spelled(q)) = last
       /\ item = spot[q] + last - 1
  <2>1. spot[q] \in Nat /\ item \in Nat /\ Len(Spelled(q)) = 2 + Rungs(len) /\ Rungs(len) \in 0..3
    BY <1>2 DEF MatchAhead
  <2>2. item = spot[q] + 1 + Rungs(len)
    BY <1>3
  <2>3. \A at \in Nat : \A r \in 0..3 : (at + 1 + r) + 1 = at + (2 + r) /\ at + 1 + r = at + (2 + r) - 1
    OBVIOUS
  <2>4. /\ (spot[q] + 1 + Rungs(len)) + 1 = spot[q] + (2 + Rungs(len))
        /\ spot[q] + 1 + Rungs(len) = spot[q] + (2 + Rungs(len)) - 1
    BY <2>1, <2>3
  <2>5. item + 1 = spot[q] + last /\ item = spot[q] + last - 1
    BY <2>2, <2>4
  <2> QED BY <2>1, <2>5
<1>4. blocks[block][item] = Spelled(q)[2 + Rungs(len)] /\ SpelledAs(Spelled(q), len, dist)
  <2>1. \A j \in 1..last : blocks[block][spot[q] + j - 1] = Spelled(q)[j]
    BY <1>2 DEF MatchAhead
  <2>2. blocks[block][spot[q] + last - 1] = Spelled(q)[last]
    BY <2>1
  <2>3. blocks[block][item] = Spelled(q)[last]
    BY <1>14, <2>2
  <2> QED BY <1>2, <2>3 DEF MatchAhead
<1>5. blocks[block][item] = Bits(High(dist), dist - 2^High(dist))
  BY <1>4 DEF SpelledAs
<1>6. OffsetWidth = High(dist)
  BY <1>2, <1>3, WidthKnown
<1>7. read \in BOOLEAN
  BY DEF End, Produce
<1> HIDE DEF read
<1>8. read /\ Field = dist - 2^High(dist)
  BY <1>1, <1>3, <1>5, <1>6, <1>7, Asked DEF Bits
<1>9. offset = dist
  <2>1. 2^High(dist) \in Nat /\ dist \in Int
    BY <1>3, HighExists DEF Near
  <2>2. offset = (dist - 2^High(dist)) + 2^High(dist)
    BY <1>6, <1>8
  <2> HIDE DEF offset
  <2> QED BY <2>1, <2>2
<1> HIDE DEF offset
<1>10. /\ data \in Seq(Nat) /\ n \in Nat /\ limit \in Nat /\ place[k] \in 0..n /\ Len(out) = place[k]
       /\ out = SubSeq(data, 1, place[k]) /\ Len(tokens) \in Nat
  BY ReaderFacts
<1>11. CASE place[q] > limit
  <2>1. Len(out) + length > limit /\ n > limit
    BY <1>3, <1>10, <1>11
  <2>2. End("refused")
    BY <1>8, <2>1 DEF read
  <2> QED BY <2>1, <2>2, EndKeeps
<1>12. CASE place[q] <= limit
  <2>1. ~(Len(out) + length > limit) /\ ~(offset > Len(out))
    <3>1. /\ dist \in 1..place[k] /\ place[k] \in Nat /\ Len(out) = place[k]
          /\ place[q] = place[k] + length /\ offset = dist
      BY <1>3, <1>9, <1>10
    <3>2. dist <= place[k] /\ dist \in Nat
      BY <3>1
    <3>3. Len(out) + length = place[q] /\ offset <= Len(out)
      BY <3>1, <3>2
    <3>4. place[q] \in Int /\ limit \in Int /\ Len(out) \in Int /\ offset \in Int
      BY <1>3, <1>10, <3>1, <3>2
    <3> QED BY <1>12, <3>3, <3>4
  <2>2. Produce(CopyMatch(out, offset, length))
    BY <1>8, <2>1 DEF read
  <2>3. CopyMatch(out, offset, length) = SubSeq(data, 1, place[q])
    <3> PICK to \in Nat : to = place[k]
      BY <1>10
    <3>1. to \in 0..Len(data) /\ dist \in 1..to /\ to + len <= Len(data) /\ RepeatsAfter(data, to, dist, len)
      BY <1>3, <1>10 DEF n
    <3>2. Overlapping(SubSeq(data, 1, to), dist, len) = SubSeq(data, 1, to + len)
      BY <1>3, <1>10, <3>1, OverlapExtendsPrefix
    <3>3. CopyMatch(out, offset, length) = Overlapping(out, dist, len)
      BY <1>3, <1>9 DEF CopyMatch, Overlapping
    <3>4. out = SubSeq(data, 1, to) /\ place[q] = to + len
      BY <1>3, <1>10
    <3> QED BY <3>2, <3>3, <3>4
  <2>4. item + 1 = spot[q] + Len(Spelled(q))
    BY <1>14
  <2>5. q <= Len(tokens)
    BY <1>3, <1>10
  <2> HIDE DEF offset
  <2> QED BY <1>1, <1>3, <1>12, <2>2, <2>3, <2>4, <2>5, TokenDone
<1>13. place[q] > limit \/ place[q] <= limit
  BY <1>3, <1>10
<1> QED BY <1>11, <1>12, <1>13

LEMMA NextKeeps == IndInv /\ [Next]_vars => IndInv'
<1> SUFFICES ASSUME IndInv, [Next]_vars PROVE IndInv'
  OBVIOUS
<1>1. CASE EndBlock
  <2>1. CASE index = Len(tokens)
    BY <1>1, <2>1, LastBlockStep
  <2>2. CASE index # Len(tokens)
    BY <1>1, <2>2, FullBlockStep
  <2> QED BY <2>1, <2>2
<1>2. CASE UNCHANGED vars
  <2>1. /\ UNCHANGED <<data, limit, pos, tokens, index, produced, base, current, blocks, starts>>
        /\ UNCHANGED <<block, item, blockEnd, out, length, status, pc>>
    BY <1>2 DEF vars, tokenizerVars, segmentVars, decoderVars
  <2>2. InvTyped' /\ Ends'
    BY <2>1 DEF IndInv, InvTyped, Ends, n
  <2> PICK place \in Maps, home \in Maps, spot \in Maps : Consistent(place, home, spot)
    BY DEF IndInv
  <2>3. Factored(place)' /\ Segmented(place, home, spot)' /\ Decoding(place, home, spot)'
    <3>1. Factored(place)'
      BY <2>1 DEF Consistent, Factored, Sound, MatchSymbol, n
    <3>2. Segmented(place, home, spot)'
      <4>1. \A b, j : /\ Text(b)' = Text(b) /\ StartOf(b)' = StartOf(b)
                      /\ Spelled(j)' = Spelled(j)
        BY <2>1 DEF Text, StartOf, Spelled
      <4>2. Segmenting' = Segmenting /\ Written' = Written /\ LastBlock' = LastBlock /\ n' = n
        BY <2>1 DEF Segmenting, Written, LastBlock, n
      <4>3. \A j, b, i : After(place, home, spot, j, b, i) => After(place, home, spot, j, b, i)'
        BY <4>1 DEF After
      <4>4. \A j : Laid(place, home, spot, j) => Laid(place, home, spot, j)'
        BY <2>1, <4>1, <4>2 DEF Laid, Carries
      <4>5. After(place, home, spot, index, Len(blocks) + 1, Len(current) + 1)
              => After(place, home, spot, index, Len(blocks) + 1, Len(current) + 1)'
        BY <2>1, <4>1 DEF After
      <4>6. Segmented(place, home, spot)
        BY DEF Consistent
      <4> QED BY <2>1, <4>2, <4>3, <4>4, <4>5, <4>6 DEF Segmented
    <3>3. Decoding(place, home, spot)'
      BY <2>1 DEF Consistent, Decoding, Decoded, AtToken, InMatch, Rungs, Segmenting
    <3> QED BY <3>1, <3>2, <3>3
  <2> QED BY <2>2, <2>3 DEF IndInv, Consistent
<1> QED BY <1>1, <1>2, MatchStep, LiteralStep, AddStep, OpenStep, LeaveStep, SymbolStep, ByteStep, WordStep,
           DwordStep, OffsetStep DEF Next, Compress, Decompress, Stopped

----------------------------------------------------------------------------
(* What follows from the invariant *)

LEMMA TypesFollow == IndInv => TypeOK
<1> SUFFICES ASSUME IndInv PROVE TypeOK
  OBVIOUS
<1>0. InvTyped /\ Ends
  BY DEF IndInv
<1> PICK place \in Maps, home \in Maps, spot \in Maps : Consistent(place, home, spot)
  BY DEF IndInv
<1>1. pos \in 0..n /\ n \in Nat
  BY <1>0, PosBelow, Texts
<1>2. index \in 0..Len(tokens) /\ produced \in 0..n /\ base \in 0..n
  <2>1. index \in 0..Len(tokens) /\ produced = place[index] /\ base \in 0..produced /\ Factored(place)
    BY DEF Consistent, Segmented
  <2>2. produced \in 0..n
    BY <1>0, <2>1, Places
  <2> QED BY <1>1, <2>1, <2>2
<1>3. ASSUME NEW b \in 1..Len(blocks), NEW f \in 1..Len(blocks[b]), blocks[b][f].kind = "sym"
      PROVE  blocks[b][f].value < EofSymbol + (NibbleMax + 1) * OffsetBits
  <2>1. blocks[b] \in Seq(FieldSet)
    BY <1>0 DEF InvTyped
  <2>2. blocks[b][f] \in FieldSet
    BY <2>1
  <2> QED BY <1>3, <2>2 DEF FieldSet
<1>4. /\ data \in Plaintexts /\ block \in Nat \ {0} /\ item \in Nat \ {0} /\ blockEnd \in Nat /\ length \in Nat
      /\ pc \in {"factor", "table", "symbol", "byte", "word", "dword", "offset"}
      /\ status \in {"working", "done", "refused", "corrupt", "garbled"}
  BY <1>0 DEF InvTyped, Ends
<1> QED BY <1>1, <1>2, <1>3, <1>4 DEF TypeOK

LEMMA MeetFollows == IndInv => BlocksMeet
<1> SUFFICES ASSUME IndInv, pc \notin {"factor", "table"}
             PROVE  /\ blockEnd = starts[block] + BlockSize
                    /\ block < Len(blocks) /\ item > Len(blocks[block]) => Len(out) = starts[block + 1]
  BY DEF BlocksMeet
<1> PICK place \in Maps, home \in Maps, spot \in Maps : \E k \in Nat : Reader(place, home, spot, k)
  BY ReaderExists
<1> PICK k \in Nat : Reader(place, home, spot, k)
  OBVIOUS
<1>1. Decoded(place, home, spot, k)
  BY DEF Reader
<1>2. blockEnd = starts[block] + BlockSize
  BY <1>1 DEF Decoded
<1>3. ASSUME item > Len(blocks[block]) PROVE Len(out) = starts[block + 1]
  <2>1. item \in Nat /\ Len(blocks[block]) \in Nat /\ Len(out) = place[k]
    BY ReaderFacts
  <2>2. CASE pc = "symbol"
    <3>1. AtToken(place, home, spot, k)
      BY <1>1, <2>2 DEF Decoded
    <3>2. ~(home[k + 1] = block /\ spot[k + 1] = item)
      <4> SUFFICES ASSUME home[k + 1] = block, spot[k + 1] = item PROVE FALSE
        OBVIOUS
      <4>1. Len(Spelled(k + 1)) \in Nat \ {0}
        BY NextItem, SpelledFacts DEF Reader
      <4>2. item + Len(Spelled(k + 1)) - 1 <= Len(blocks[block])
        BY NextItem DEF Carries
      <4> QED BY <1>3, <2>1, <4>1, <4>2
    <3>3. home[k + 1] = block + 1 /\ spot[k + 1] = 1
      BY <3>1, <3>2 DEF AtToken
    <3> QED BY <2>1, <3>3, NextItem
  <2>3. CASE pc # "symbol"
    <3> PICK q \in Nat : q = k + 1
      OBVIOUS
    <3>1. pc \in {"byte", "word", "dword", "offset"}
      BY <2>3 DEF Reader, InvTyped
    <3>2. item <= Len(blocks[block])
      BY <3>1, MatchFacts DEF MatchAhead
    <3> QED BY <1>3, <2>1, <3>2
  <2> QED BY <2>2, <2>3
<1> QED BY <1>2, <1>3

(***************************************************************************)
(* In every state of compress and decompress the counters stay within the  *)
(* input and every symbol has a place in the table of SYMBOL_COUNT code    *)
(* lengths, whatever MIN_MATCH, the block size and the ladder's steps are. *)
(***************************************************************************)
THEOREM TypeCorrect == Spec => []TypeOK
<1>1. Init => IndInv
  BY InitEstablishes
<1>2. IndInv /\ [Next]_vars => IndInv'
  BY NextKeeps
<1>3. IndInv => TypeOK
  BY TypesFollow
<1> QED BY <1>1, <1>2, <1>3, PTL DEF Spec

(***************************************************************************)
(* decompress, which finds the end of a block only by counting what it has *)
(* produced since the block's table, is at the same place of the plaintext *)
(* as compress was whenever a block of any input runs out of symbols, also *)
(* when the block's last match ran past its nominal end.                   *)
(***************************************************************************)
THEOREM BlocksAlwaysMeet == Spec => []BlocksMeet
<1>1. Init => IndInv
  BY InitEstablishes
<1>2. IndInv /\ [Next]_vars => IndInv'
  BY NextKeeps
<1>3. IndInv => BlocksMeet
  BY MeetFollows
<1> QED BY <1>1, <1>2, <1>3, PTL DEF Spec

----------------------------------------------------------------------------
(* The promise *)

\* What has been decompressed is a prefix of the plaintext, within max_size.
Prefix == \E m \in Nat : m <= n /\ m <= limit /\ out = SubSeq(data, 1, m) /\ Len(out) = m

LEMMA OutputFacts == IndInv => Prefix
<1> SUFFICES ASSUME IndInv PROVE Prefix
  OBVIOUS
<1>0. InvTyped
  BY DEF IndInv
<1>1. CASE pc = "factor"
  <2>1. out = << >>
    BY <1>1 DEF IndInv, Consistent, Decoding, Segmenting
  <2>2. 0 \in Nat /\ 0 <= n /\ 0 <= limit /\ out = SubSeq(data, 1, 0) /\ Len(out) = 0
    BY <1>0, <2>1, Texts DEF InvTyped
  <2> QED BY <2>2 DEF Prefix
<1>2. CASE pc # "factor"
  <2> PICK place \in Maps, home \in Maps, spot \in Maps : \E k \in Nat : Reader(place, home, spot, k)
    BY <1>2, ReaderExists
  <2> PICK k \in Nat : Reader(place, home, spot, k)
    OBVIOUS
  <2>1. place[k] \in Nat /\ place[k] <= n /\ place[k] <= limit /\ out = SubSeq(data, 1, place[k]) /\ Len(out) = place[k]
    BY ReaderFacts
  <2> QED BY <2>1 DEF Prefix
<1> QED BY <1>1, <1>2

\* Copying makes the output no shorter.
LEMMA CopyGrows ==
  ASSUME NEW buf \in Seq(Nat), NEW off, NEW len \in Nat, CopyMatch(buf, off, len) \in Seq(Nat)
  PROVE  Len(CopyMatch(buf, off, len)) >= Len(buf)
<1> DEFINE f == CopyMatch(buf, off, len)
           m == Len(buf) + len
<1>1. DOMAIN f = 1..m /\ m \in Nat /\ Len(buf) \in Nat /\ m >= Len(buf)
  BY DEF CopyMatch
<1> HIDE DEF f, m
<1>2. f \in Seq(Nat)
  BY DEF f
<1>3. Len(f) \in Nat /\ DOMAIN f = 1..Len(f)
  BY <1>2
<1>4. Len(f) = m
  BY <1>1, <1>3
<1> QED BY <1>1, <1>4 DEF f

\* The calls of End in the decoder, and its other steps.
LEMMA DecoderCases ==
  ASSUME IndInv, IndInv', Decompress
  PROVE  /\ status = "working"
         /\ \/ \E verdict \in {"done", "refused"} : End(verdict)
            \/ UNCHANGED <<data, limit, out, status>>
            \/ \E text : Produce(text) /\ Len(text) >= Len(out)
<1>1. status' \notin {"garbled", "corrupt"}
  BY DEF IndInv, Ends
<1>2. CASE OpenBlock
  BY <1>2 DEF OpenBlock, Running
<1>3. CASE LeaveBlock
  BY <1>1, <1>3 DEF LeaveBlock, End, NextBlock, Running
<1>0. out \in Seq(Nat) /\ out' \in Seq(Nat) /\ length \in Nat /\ Len(out) \in Nat
  <2>1. Prefix
    BY OutputFacts
  <2>2. Prefix'
    BY OutputFacts, PTL
  <2>3. data \in Seq(Nat) /\ data' \in Seq(Nat) /\ length \in Nat
    <3>1. data \in Seq(Nat) /\ length \in Nat
      BY Texts DEF IndInv, InvTyped
    <3>2. data' = data
      BY DEF Decompress, OpenBlock, LeaveBlock, ReadSymbol, ReadByte, ReadWord, ReadDword, ReadOffset, Expect, Step,
             End, NextBlock, Produce, ReadLiteral, ReadEof, ReadMatch
    <3> QED BY <3>1, <3>2
  <2>4. n \in Nat /\ n' \in Nat /\ n = Len(data) /\ n' = Len(data')
    BY <2>3 DEF n
  <2>5. ASSUME NEW d \in Seq(Nat), NEW m \in Nat, m <= Len(d) PROVE SubSeq(d, 1, m) \in Seq(Nat)
    BY <2>5
  <2>6. out \in Seq(Nat)
    BY <2>1, <2>3, <2>4, <2>5 DEF Prefix
  <2>7. out' \in Seq(Nat)
    BY <2>2, <2>3, <2>4, <2>5 DEF Prefix
  <2> QED BY <2>3, <2>6, <2>7
<1>4. CASE ReadSymbol
  <2>1. Len(Append(out, Field)) >= Len(out)
    BY <1>0
  <2> QED BY <1>1, <1>4, <2>1 DEF ReadSymbol, Expect, ReadLiteral, ReadEof, ReadMatch, Step, End, Running
<1>5. CASE ReadByte
  BY <1>1, <1>5 DEF ReadByte, Expect, Step, End, Running
<1>6. CASE ReadWord
  BY <1>1, <1>6 DEF ReadWord, Expect, Step, End, Running
<1>7. CASE ReadDword
  BY <1>1, <1>7 DEF ReadDword, Expect, Step, End, Running
<1>8. CASE ReadOffset
  <2>1. \/ \E verdict \in {"refused", "corrupt", "garbled"} : End(verdict)
        \/ Produce(CopyMatch(out, Field + 2^OffsetWidth, length))
    BY <1>8 DEF ReadOffset, Expect
  <2>2. status = "working"
    BY <1>8 DEF ReadOffset, Running
  <2>3. ASSUME Produce(CopyMatch(out, Field + 2^OffsetWidth, length))
        PROVE  Len(CopyMatch(out, Field + 2^OffsetWidth, length)) >= Len(out)
    <3>1. out' = CopyMatch(out, Field + 2^OffsetWidth, length)
      BY <2>3 DEF Produce
    <3> QED BY <1>0, <3>1, CopyGrows
  <2> QED BY <1>1, <2>1, <2>2, <2>3 DEF End
<1> QED BY <1>2, <1>3, <1>4, <1>5, <1>6, <1>7, <1>8 DEF Decompress

LEMMA InitImplements == Init => Promise!Init
<1> SUFFICES ASSUME Init PROVE Promise!Init
  OBVIOUS
<1>1. limit \in Nat
  BY InitEstablishes DEF IndInv, InvTyped
<1> QED BY <1>1 DEF Init, Promise!Init

LEMMA StepImplements == IndInv /\ [Next]_vars => [Promise!Next]_(Promise!vars)
<1> SUFFICES ASSUME IndInv, [Next]_vars PROVE Promise!Next \/ UNCHANGED Promise!vars
  OBVIOUS
<1>1. IndInv'
  BY NextKeeps
<1>2. CASE UNCHANGED <<data, limit, out, status>>
  BY <1>2 DEF Promise!vars
<1>3. CASE FactorMatch \/ FactorLiteral \/ AddToken \/ EndBlock \/ UNCHANGED vars
  <2>1. UNCHANGED <<data, limit, out, status>>
    BY <1>3 DEF FactorMatch, FactorLiteral, Factor, AddToken, EndBlock, vars, decoderVars
  <2> QED BY <1>2, <2>1
<1>4. CASE Decompress
  <2>1. status = "working"
    BY <1>1, <1>4, DecoderCases
  <2>2. ASSUME NEW verdict \in {"done", "refused"}, End(verdict)
        PROVE  Promise!Next
    <3>1. UNCHANGED <<data, limit, out>> /\ status' = verdict
      BY <2>2 DEF End
    <3>2. verdict = "done" => out = data
      BY <1>1, <3>1 DEF IndInv, Ends
    <3>3. verdict = "refused" => Len(data) > limit
      BY <1>1, <3>1 DEF IndInv, Ends, n
    <3>4. CASE verdict = "done"
      BY <2>1, <3>1, <3>2, <3>4 DEF Promise!Next, Promise!Return, Promise!End
    <3>5. CASE verdict = "refused"
      BY <2>1, <3>1, <3>3, <3>5 DEF Promise!Next, Promise!Refuse, Promise!End
    <3> QED BY <3>4, <3>5
  <2>3. ASSUME NEW text, Produce(text), Len(text) >= Len(out)
        PROVE  Promise!Next \/ UNCHANGED Promise!vars
    <3>1. UNCHANGED <<data, limit, status>> /\ n' = n /\ out' = text /\ n = Len(data)
      BY <2>3 DEF Produce, n
    <3> PICK m \in Nat : m <= n /\ m <= limit /\ out = SubSeq(data, 1, m) /\ Len(out) = m
      BY OutputFacts DEF Prefix
    <3> PICK k \in Nat : k <= n /\ k <= limit /\ text = SubSeq(data, 1, k) /\ Len(text) = k
      <4>1. Prefix'
        BY <1>1, OutputFacts, PTL
      <4> QED BY <3>1, <4>1 DEF Prefix
    <3>2. CASE k = m
      BY <1>2, <3>1, <3>2
    <3>3. CASE k # m
      <4>1. k \in (Len(out) + 1)..Len(data)
        <5>1. n \in Nat
          BY Texts DEF IndInv
        <5> QED BY <2>3, <3>1, <3>3, <5>1
      <4>2. Promise!Produce
        BY <2>1, <3>1, <4>1 DEF Promise!Produce
      <4> QED BY <4>2 DEF Promise!Next
    <3> QED BY <3>2, <3>3
  <2> QED BY <1>1, <1>2, <1>4, <2>2, <2>3, DecoderCases
<1> QED BY <1>3, <1>4 DEF Next, Compress, Stopped

(***************************************************************************)
(* compress followed by decompress keeps the promise of LosslessCodec, but *)
(* for its last conjunct (every call returns), for any input, any block    *)
(* size, any ladder of match lengths and any max_size: no field is taken   *)
(* for another one, no literal or match is lost at a block's end, and only *)
(* an input longer than max_size is refused.                               *)
(***************************************************************************)
THEOREM PromiseKept == Spec => Promise!Init /\ [][Promise!Next]_(Promise!vars)
<1>1. Init => IndInv /\ Promise!Init
  BY InitEstablishes, InitImplements
<1>2. IndInv /\ [Next]_vars => IndInv'
  BY NextKeeps
<1>3. IndInv /\ [Next]_vars => [Promise!Next]_(Promise!vars)
  BY StepImplements
<1> QED BY <1>1, <1>2, <1>3, PTL DEF Spec
============================================================================
