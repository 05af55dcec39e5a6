--------------------------- MODULE Lz4BlockProofs --------------------------
(***************************************************************************)
(* Proofs about Lz4Block, for every set of plaintexts and every choice of  *)
(* the format's limits: the end-of-block rules, and that decompress_block  *)
(* gives back what it is asked for and never less.                         *)
(*                                                                         *)
(* The history trail says which sequences the block consists of.  The      *)
(* encoder's invariant is that each is true of the plaintext (Sound) and   *)
(* stands in the block where it should, as far as the block reaches        *)
(* (Carries); the decoder's, that it is within one of them, having         *)
(* produced the plaintext up to there.                                     *)
(***************************************************************************)
EXTENDS Lz4Block, ArithmeticLemmas, SequenceTheorems

\* The bytes a block may consist of.
BlockBytes ==
  [kind : {"token"}, value : [literals : 0..TokenMax, match : 0..TokenMax]]
    \union [kind : {"extra"}, value : 0..Continue]
    \union [kind : {"offset"}, value : 1..MaxOffset]
    \union [kind : {"literal", "second"}, value : Nat]

----------------------------------------------------------------------------
(* Sequences and their places *)

Sequences == [at : Nat \ {0}, from : Nat, to : Nat, dist : Nat, len : Nat]

Count(s) == s.to - s.from
Extra(s) == s.len - MinMatch

\* How many bytes extend a length, and where the parts of a sequence begin.
Extenders(len) == IF len < TokenMax THEN 0 ELSE (len - TokenMax) \div Continue + 1
LiteralsAt(s) == s.at + 1 + Extenders(Count(s))
OffsetAt(s) == LiteralsAt(s) + Count(s)
EndAt(s) == IF s.len = 0 THEN OffsetAt(s) ELSE OffsetAt(s) + 2 + Extenders(Extra(s))

ExtensionValue(len, i) ==
  IF i * Continue <= len - TokenMax THEN Continue ELSE (len - TokenMax) % Continue

\* As far as b reaches, it has the bytes of s at their places.
Has(b, i, k, v) == i <= Len(b) => b[i] = [kind |-> k, value |-> v]
HasExtension(b, start, len) ==
  \A i \in 1..Extenders(len) : Has(b, start + i, "extra", ExtensionValue(len, i))
HasLiterals(d, b, s) ==
  \A i \in 1..Count(s) : Has(b, LiteralsAt(s) + i - 1, "literal", d[s.from + i])
HasMatch(b, s) ==
  s.len # 0 => Has(b, OffsetAt(s), "offset", s.dist) /\ HasExtension(b, OffsetAt(s) + 1, Extra(s))
Carries(d, b, s) ==
  /\ Has(b, s.at, "token", Token(s)) /\ HasExtension(b, s.at, Count(s))
  /\ HasLiterals(d, b, s) /\ HasMatch(b, s)

\* What a sequence says is true of the text d.
Sound(d, s) ==
  /\ s.from <= s.to /\ s.to <= Len(d)
  /\ s.len # 0 => /\ s.len >= MinMatch /\ s.to + MfLimit <= Len(d)
                  /\ s.to + s.len + LastLiterals <= Len(d)
                  /\ s.dist \in 1..MaxOffset /\ s.dist <= s.to
                  /\ RepeatsAfter(d, s.to, s.dist, s.len)

Final == trail[Len(trail)]
BlockEnd == IF trail = << >> THEN 1 ELSE EndAt(Final)
Covered == IF trail = << >> THEN 0 ELSE Final.to + Final.len

----------------------------------------------------------------------------
(* The invariant *)

EncoderInv ==
  /\ data \in Seq(Nat) /\ size \in 0..(n + 1)
  /\ pos \in 0..n /\ anchor \in 0..pos /\ block \in Seq(BlockBytes)

TrailInv ==
  /\ trail \in Seq(Sequences)
  /\ \A k \in 1..Len(trail) : Sound(data, trail[k]) /\ Carries(data, block, trail[k])
  /\ \A k \in 1..Len(trail) : EndAt(trail[k]) <= BlockEnd
  /\ \A k \in 1..(Len(trail) - 1) :
       trail[k].len # 0 /\ trail[k + 1].at = EndAt(trail[k]) /\ trail[k + 1].from = trail[k].to + trail[k].len
  /\ trail # << >> => trail[1].at = 1 /\ trail[1].from = 0

StageInv ==
  /\ pc = "compress" => anchor = Covered /\ (trail # << >> => Final.len # 0)
  /\ pc # "compress" => trail # << >> /\ Final.len = 0 /\ Final.to = n
  /\ Len(block) + 1 <= BlockEnd
  /\ whole <=> Len(block) + 1 = BlockEnd
  /\ pc \in {"compress", "store"} => whole /\ at = 1 /\ out = << >> /\ status = "working"

OutInv ==
  /\ out \in Seq(Nat)
  /\ Len(out) <= size /\ Len(out) <= n /\ out = SubSeq(data, 1, Len(out))
  /\ Len(out) = n /\ n > 0 => whole
  /\ status = "done" => Len(out) = size
  /\ status \in {"working", "done", "corrupt"}
  /\ status = "corrupt" /\ whole => size > n

\* After some full bytes of the extension that begins behind base, at the
\* position p, with the length l so far.
Extending(p, l, len, base) ==
  \E j \in 0..(Extenders(len) - 1) :
    p = base + 1 + j /\ l = TokenMax + j * Continue /\ j * Continue <= len - TokenMax

Decoding(s) ==
  /\ Len(out) = IF pc \in {"token", "literalLength", "literals"} THEN s.from ELSE s.to
  /\ pc # "token" => token = Token(s)
  /\ pc \in {"matchLength", "match"} => s.len # 0 /\ offset = s.dist
  /\ pc = "token" => at = s.at
  /\ pc = "literalLength" => Extending(at, length, Count(s), s.at)
  /\ pc = "literals" => at = LiteralsAt(s) /\ length = Count(s)
  /\ pc = "offset" => at = OffsetAt(s)
  /\ pc = "matchLength" => Extending(at, length, Extra(s), OffsetAt(s) + 1)
  /\ pc = "match" => at = EndAt(s) /\ length = Extra(s)

DecoderInv ==
  /\ pc \in {"literalLength", "literals", "matchLength", "match"} => Len(out) < size
  /\ pc \notin {"compress", "store"} /\ status = "working" /\ Len(out) < size =>
       \E k \in 1..Len(trail) : Decoding(trail[k])

IndInv == EncoderInv /\ TrailInv /\ StageInv /\ OutInv /\ DecoderInv

----------------------------------------------------------------------------
(* The match finder *)

(***************************************************************************)
(* The extension loop stops within its limit, and not before the first     *)
(* difference.                                                             *)
(***************************************************************************)
LEMMA MatchLengthBounds ==
  ASSUME NEW s, NEW a \in Nat, NEW b \in Nat, NEW limit \in Nat, NEW k \in 0..limit,
         Agree(s, a, b, k)
  PROVE  MatchLength(s, a, b, limit) \in k..limit /\ Agree(s, a, b, MatchLength(s, a, b, limit))
BY FirstDifferenceBounds DEF MatchLength, FirstDifference

(***************************************************************************)
(* A candidate lies behind pos, near enough, with the same MinMatch bytes. *)
(***************************************************************************)
LEMMA CandidateFacts ==
  ASSUME EncoderInv, NEW q \in Candidates
  PROVE  /\ q \in Nat /\ q < pos /\ pos - q <= MaxOffset
         /\ \A i \in 1..MinMatch : data[q + i] = data[pos + i]
<1>1. q \in SamePrefix(data, pos, MinMatch) /\ pos - q <= MaxOffset
  BY DEF Candidates, Newest
<1>2. q \in 0..(pos - 1) /\ \A i \in 1..MinMatch : data[q + i] = data[pos + i]
  BY <1>1 DEF SamePrefix
<1> QED BY <1>1, <1>2 DEF EncoderInv

----------------------------------------------------------------------------
(* Lengths in several bytes *)

LEMMA ExtendersType ==
  ASSUME NEW len \in Nat
  PROVE  Extenders(len) \in Nat /\ (len >= TokenMax => Extenders(len) >= 1)
<1>1. CASE len < TokenMax
  BY <1>1, Lz4BlockAssumption DEF Extenders
<1>2. CASE len >= TokenMax
  <2> DEFINE rest == len - TokenMax
  <2>1. rest \in Nat /\ Continue \in Nat \ {0}
    BY <1>2, Lz4BlockAssumption
  <2> HIDE DEF rest
  <2>2. rest \div Continue \in Nat
    BY <2>1
  <2>3. Extenders(len) = rest \div Continue + 1
    BY <1>2, Lz4BlockAssumption DEF Extenders, rest
  <2> QED BY <2>2, <2>3
<1> QED BY <1>1, <1>2, Lz4BlockAssumption

(***************************************************************************)
(* A full byte at step j + 1 means that there is another one; any other    *)
(* completes the length, and is the last (_read_length).                   *)
(***************************************************************************)
LEMMA LadderStep ==
  ASSUME NEW len \in Nat, len >= TokenMax, NEW j \in 0..(Extenders(len) - 1), j * Continue <= len - TokenMax
  PROVE  LET v == ExtensionValue(len, j + 1)
         IN /\ v = Continue => j + 1 \in 0..(Extenders(len) - 1) /\ (j + 1) * Continue <= len - TokenMax
            /\ v # Continue => j + 1 = Extenders(len) /\ TokenMax + j * Continue + v = len
            /\ v \in Nat
<1> DEFINE rest == len - TokenMax
           q == rest \div Continue
           r == rest % Continue
           v == ExtensionValue(len, j + 1)
<1>1. rest \in Nat /\ Continue \in Nat \ {0}
  BY Lz4BlockAssumption
<1>2. Extenders(len) = q + 1 /\ v = IF (j + 1) * Continue <= rest THEN Continue ELSE r
  BY Lz4BlockAssumption DEF Extenders, ExtensionValue
<1> HIDE DEF rest
<1>3. q \in Int /\ r \in 0..(Continue - 1) /\ rest = Continue * q + r
  BY <1>1, DivMod
<1>4. j \in Nat /\ j <= q /\ j + 1 \in Nat
  <2> HIDE DEF q, v
  <2> QED BY <1>2, <1>3
<1>5. Continue * (j + 1) <= rest <=> j + 1 <= q
  BY <1>1, <1>4, QuotientBound
<1>6. (j + 1) * Continue = Continue * (j + 1) /\ j * Continue = Continue * j
  BY <1>1, <1>4
<1> HIDE DEF q, r, v
<1>7. CASE j + 1 <= q
  <2>1. v = Continue /\ j + 1 \in 0..(Extenders(len) - 1)
    BY <1>2, <1>3, <1>4, <1>5, <1>6, <1>7
  <2> QED BY <1>1, <1>5, <1>6, <1>7, <2>1 DEF v, rest
<1>8. CASE ~(j + 1 <= q)
  <2>1. j = q
    BY <1>3, <1>4, <1>8
  <2>2. v = r /\ v # Continue /\ v \in Nat
    BY <1>1, <1>2, <1>3, <1>5, <1>6, <1>8
  <2>3. Continue * q \in Int
    BY <1>1, <1>3
  <2>4. TokenMax + j * Continue + v = len
    BY <1>3, <1>6, <2>1, <2>2, <2>3, Lz4BlockAssumption DEF rest
  <2> QED BY <1>2, <2>1, <2>2, <2>4 DEF v
<1> QED BY <1>7, <1>8

(***************************************************************************)
(* The match emitted is long enough, ends before the last literals, and    *)
(* says what the text repeats.                                             *)
(***************************************************************************)
LEMMA MatchFits ==
  ASSUME EncoderInv, pos <= n - MfLimit, NEW q \in Candidates
  PROVE  /\ MatchLength(data, q, pos, MatchLimit - pos) \in MinMatch..(n - LastLiterals - pos)
         /\ RepeatsAfter(data, pos, pos - q, MatchLength(data, q, pos, MatchLimit - pos))
<1> DEFINE limit == MatchLimit - pos
           len == MatchLength(data, q, pos, limit)
<1>1. n \in Nat /\ pos \in Nat
  BY DEF EncoderInv, n
<1>2. limit \in Nat /\ MinMatch \in 0..limit
  BY <1>1, Lz4BlockAssumption DEF MatchLimit
<1>3. q \in Nat /\ q < pos /\ \A i \in 1..MinMatch : data[q + i] = data[pos + i]
  BY CandidateFacts
<1> HIDE DEF limit
<1>4. len \in MinMatch..limit /\ \A i \in 1..len : data[q + i] = data[pos + i]
  <2>1. Agree(data, q, pos, MinMatch)
    BY <1>3 DEF Agree
  <2>2. len \in MinMatch..limit /\ Agree(data, q, pos, len)
    BY <1>1, <1>2, <1>3, <2>1, MatchLengthBounds
  <2> QED BY <2>2 DEF Agree
<1> HIDE DEF len
<1>5. ASSUME NEW i \in 1..len PROVE data[pos + i] = data[pos + i - (pos - q)]
  <2>1. len \in Nat
    BY <1>2, <1>4
  <2>2. pos + i - (pos - q) = q + i
    BY <1>1, <1>3, <2>1
  <2> QED BY <1>4, <2>2
<1>6. RepeatsAfter(data, pos, pos - q, len)
  BY <1>5 DEF RepeatsAfter
<1>7. limit = n - LastLiterals - pos
  BY <1>1, Lz4BlockAssumption DEF limit, MatchLimit
<1> QED BY <1>4, <1>6, <1>7 DEF len, limit

----------------------------------------------------------------------------
(* What is written *)

(***************************************************************************)
(* The bytes of a length extension.                                        *)
(***************************************************************************)
LEMMA ExtendedShape ==
  ASSUME NEW len \in Nat
  PROVE  /\ Extended(len) \in Seq(BlockBytes) /\ Len(Extended(len)) = Extenders(len)
         /\ \A i \in 1..Extenders(len) :
              Extended(len)[i] = [kind |-> "extra", value |-> ExtensionValue(len, i)]
<1>1. CASE len < TokenMax
  <2>1. Extended(len) = << >> /\ Extenders(len) = 0
    BY <1>1 DEF Extended, Extenders
  <2> QED BY <2>1
<1>2. CASE len >= TokenMax
  <2> DEFINE rest == len - TokenMax
             count == rest \div Continue + 1
             f == Extension(rest)
  <2>1. rest \in Nat /\ Continue \in Nat \ {0}
    BY <1>2, Lz4BlockAssumption
  <2>2. Extended(len) = f /\ Extenders(len) = count
    BY <1>2, Lz4BlockAssumption DEF Extended, Extenders
  <2>3. f = [i \in 1..count |-> [kind |-> "extra", value |-> ExtensionValue(len, i)]]
    BY DEF Extension, ExtensionValue
  <2>4. rest % Continue \in 0..Continue /\ Continue \in 0..Continue
    <3> HIDE DEF rest
    <3>1. rest % Continue \in 0..(Continue - 1)
      BY <2>1, DivMod
    <3> QED BY <2>1, <3>1
  <2>5. count \in Nat
    <3> HIDE DEF rest
    <3> QED BY <2>1
  <2>6. ASSUME NEW i \in 1..count PROVE [kind |-> "extra", value |-> ExtensionValue(len, i)] \in BlockBytes
    <3>1. ExtensionValue(len, i) \in 0..Continue
      BY <2>4 DEF ExtensionValue
    <3> QED BY <3>1 DEF BlockBytes
  <2> HIDE DEF f, count, rest
  <2>7. f \in [1..count -> BlockBytes]
    BY <2>3, <2>6
  <2>8. f \in Seq(BlockBytes) /\ Len(f) = count
    BY <2>5, <2>7
  <2> QED BY <2>2, <2>3, <2>8
<1> QED BY <1>1, <1>2, Lz4BlockAssumption

LEMMA LiteralShape ==
  ASSUME data \in Seq(Nat), NEW to \in 0..n, NEW from \in 0..to
  PROVE  /\ Literals(from, to) \in Seq(BlockBytes) /\ Len(Literals(from, to)) = to - from
         /\ \A i \in 1..(to - from) : Literals(from, to)[i] = [kind |-> "literal", value |-> data[from + i]]
<1>1. n \in Nat /\ to - from \in Nat
  BY DEF n
<1>2. ASSUME NEW i \in 1..(to - from) PROVE data[from + i] \in Nat
  BY <1>1 DEF n
<1>3. ASSUME NEW v \in Nat PROVE [kind |-> "literal", value |-> v] \in BlockBytes
  BY DEF BlockBytes
<1> DEFINE f == Literals(from, to)
<1>4. f = [i \in 1..(to - from) |-> [kind |-> "literal", value |-> data[from + i]]]
  BY DEF Literals
<1> HIDE DEF f
<1>5. f \in [1..(to - from) -> BlockBytes]
  BY <1>2, <1>3, <1>4
<1>6. f \in Seq(BlockBytes) /\ Len(f) = to - from
  BY <1>1, <1>5
<1> QED BY <1>4, <1>6 DEF f

(***************************************************************************)
(* Where the parts of a concatenation lie.                                 *)
(***************************************************************************)
LEMMA TwoParts ==
  ASSUME NEW S, NEW a \in Seq(S), NEW b \in Seq(S)
  PROVE  /\ a \o b \in Seq(S) /\ Len(a \o b) = Len(a) + Len(b)
         /\ Len(a) \in Nat /\ Len(b) \in Nat
         /\ \A i \in 1..Len(a) : (a \o b)[i] = a[i]
         /\ \A i \in 1..Len(b) : (a \o b)[Len(a) + i] = b[i]
BY ConcatProperties

PartsOf(w, a, b, c, d) ==
  /\ Len(w) = Len(a) + Len(b) + Len(c) + Len(d)
  /\ \A i \in 1..Len(a) : w[i] = a[i]
  /\ \A i \in 1..Len(b) : w[Len(a) + i] = b[i]
  /\ \A i \in 1..Len(c) : w[Len(a) + Len(b) + i] = c[i]
  /\ \A i \in 1..Len(d) : w[Len(a) + Len(b) + Len(c) + i] = d[i]

LEMMA FourParts ==
  ASSUME NEW S, NEW a \in Seq(S), NEW b \in Seq(S), NEW c \in Seq(S), NEW d \in Seq(S)
  PROVE  a \o b \o c \o d \in Seq(S) /\ PartsOf(a \o b \o c \o d, a, b, c, d)
<1> DEFINE ab == a \o b
           abc == ab \o c
           w == abc \o d
<1>1. /\ ab \in Seq(S) /\ Len(ab) = Len(a) + Len(b)
      /\ Len(a) \in Nat /\ Len(b) \in Nat
      /\ \A i \in 1..Len(a) : ab[i] = a[i]
      /\ \A i \in 1..Len(b) : ab[Len(a) + i] = b[i]
  BY TwoParts
<1> HIDE DEF ab
<1>a. ab \in Seq(S)
  BY <1>1
<1>2. /\ abc \in Seq(S) /\ Len(abc) = Len(ab) + Len(c)
      /\ Len(c) \in Nat
      /\ \A i \in 1..Len(ab) : abc[i] = ab[i]
      /\ \A i \in 1..Len(c) : abc[Len(ab) + i] = c[i]
  BY <1>a, TwoParts
<1> HIDE DEF abc
<1>b. abc \in Seq(S)
  BY <1>2
<1>3. /\ w \in Seq(S) /\ Len(w) = Len(abc) + Len(d)
      /\ Len(d) \in Nat
      /\ \A i \in 1..Len(abc) : w[i] = abc[i]
      /\ \A i \in 1..Len(d) : w[Len(abc) + i] = d[i]
  BY <1>b, TwoParts
<1> HIDE DEF w
<1>4. ASSUME NEW i \in 1..Len(a) PROVE w[i] = a[i]
  BY <1>1, <1>2, <1>3
<1>5. ASSUME NEW i \in 1..Len(b) PROVE w[Len(a) + i] = b[i]
  <2>1. Len(a) + i \in 1..Len(ab) /\ Len(a) + i \in 1..Len(abc)
    BY <1>1, <1>2
  <2> QED BY <1>1, <1>2, <1>3, <2>1
<1>6. ASSUME NEW i \in 1..Len(c) PROVE w[Len(a) + Len(b) + i] = c[i]
  <2>1. Len(ab) + i \in 1..Len(abc)
    BY <1>1, <1>2
  <2> QED BY <1>1, <1>2, <1>3, <2>1
<1>7. ASSUME NEW i \in 1..Len(d) PROVE w[Len(a) + Len(b) + Len(c) + i] = d[i]
  BY <1>1, <1>2, <1>3
<1>8. Len(w) = Len(a) + Len(b) + Len(c) + Len(d)
  BY <1>1, <1>2, <1>3
<1>9. PartsOf(w, a, b, c, d)
  BY <1>4, <1>5, <1>6, <1>7, <1>8 DEF PartsOf
<1> QED BY <1>3, <1>9 DEF w, abc, ab

LEMMA SoundCounts ==
  ASSUME NEW d \in Seq(Nat), NEW s \in Sequences, Sound(d, s)
  PROVE  /\ Count(s) \in Nat /\ Len(d) \in Nat
         /\ s.at \in Nat \ {0} /\ s.from \in Nat /\ s.to \in Nat /\ s.dist \in Nat /\ s.len \in Nat
         /\ s.from <= s.to /\ s.to <= Len(d) /\ s.from + Count(s) = s.to
         /\ s.len # 0 => Extra(s) \in Nat /\ s.len >= 1 /\ Extra(s) + MinMatch = s.len
<1>1. /\ s.at \in Nat \ {0} /\ s.from \in Nat /\ s.to \in Nat /\ s.dist \in Nat /\ s.len \in Nat
  BY DEF Sequences
<1>2. s.from <= s.to /\ s.to <= Len(d) /\ (s.len # 0 => s.len >= MinMatch)
  BY DEF Sound
<1> QED BY <1>1, <1>2, Lz4BlockAssumption DEF Count, Extra

LEMMA MatchPartShape ==
  ASSUME NEW d \in Seq(Nat), NEW s \in Sequences, Sound(d, s)
  PROVE  /\ MatchPart(s) \in Seq(BlockBytes)
         /\ Len(MatchPart(s)) = IF s.len = 0 THEN 0 ELSE 2 + Extenders(Extra(s))
         /\ s.len # 0 =>
              /\ MatchPart(s)[1] = [kind |-> "offset", value |-> s.dist]
              /\ \A i \in 1..Extenders(Extra(s)) :
                   MatchPart(s)[2 + i] = [kind |-> "extra", value |-> ExtensionValue(Extra(s), i)]
<1>1. CASE s.len = 0
  BY <1>1 DEF MatchPart
<1>2. CASE s.len # 0
  <2> DEFINE two == TwoBytes("offset", s.dist)
             extra == Extended(Extra(s))
  <2>1. two \in Seq(BlockBytes) /\ Len(two) = 2 /\ two[1] = [kind |-> "offset", value |-> s.dist]
    <3>1. [kind |-> "offset", value |-> s.dist] \in BlockBytes
      BY <1>2 DEF BlockBytes, Sound
    <3>2. [kind |-> "second", value |-> 0] \in BlockBytes
      BY DEF BlockBytes
    <3> QED BY <3>1, <3>2 DEF TwoBytes
  <2>2. /\ extra \in Seq(BlockBytes) /\ Len(extra) = Extenders(Extra(s))
        /\ \A i \in 1..Extenders(Extra(s)) :
             extra[i] = [kind |-> "extra", value |-> ExtensionValue(Extra(s), i)]
    <3> DEFINE k == Extra(s)
    <3>1. k \in Nat
      <4>1. /\ Count(s) \in Nat /\ Len(d) \in Nat
            /\ s.len # 0 => Extra(s) \in Nat
        BY SoundCounts
      <4> QED BY <1>2, <4>1
    <3> HIDE DEF k
    <3>2. /\ Extended(k) \in Seq(BlockBytes) /\ Len(Extended(k)) = Extenders(k)
          /\ \A i \in 1..Extenders(k) : Extended(k)[i] = [kind |-> "extra", value |-> ExtensionValue(k, i)]
      BY <3>1, ExtendedShape
    <3> QED BY <3>2 DEF k
  <2>3. MatchPart(s) = two \o extra
    BY <1>2 DEF MatchPart, Extra
  <2> HIDE DEF two, extra
  <2>4. /\ two \o extra \in Seq(BlockBytes) /\ Len(two \o extra) = Len(two) + Len(extra)
        /\ \A i \in 1..Len(two) : (two \o extra)[i] = two[i]
        /\ \A i \in 1..Len(extra) : (two \o extra)[Len(two) + i] = extra[i]
    <3>1. two \in Seq(BlockBytes) /\ extra \in Seq(BlockBytes)
      BY <2>1, <2>2
    <3> QED BY <3>1, TwoParts
  <2> QED BY <1>2, <2>1, <2>2, <2>3, <2>4
<1> QED BY <1>1, <1>2

LEMMA TokenByte ==
  ASSUME NEW d \in Seq(Nat), NEW s \in Sequences, Sound(d, s)
  PROVE  [kind |-> "token", value |-> Token(s)] \in BlockBytes
<1>1. Count(s) \in Nat /\ (s.len # 0 => Extra(s) \in Nat)
  BY SoundCounts
<1>2. Lesser(Count(s), TokenMax) \in 0..TokenMax
  BY <1>1, Lz4BlockAssumption DEF Lesser
<1>3. (IF s.len = 0 THEN 0 ELSE Lesser(Extra(s), TokenMax)) \in 0..TokenMax
  BY <1>1, Lz4BlockAssumption DEF Lesser
<1>4. Token(s) \in [literals : 0..TokenMax, match : 0..TokenMax]
  BY <1>2, <1>3 DEF Token, Count, Extra
<1> QED BY <1>4 DEF BlockBytes

(***************************************************************************)
(* Where the bytes of a sequence lie in what is emitted for it             *)
(* (_emit_sequence).                                                       *)
(***************************************************************************)
LEMMA SequenceShape ==
  ASSUME data \in Seq(Nat), NEW s \in Sequences, Sound(data, s)
  PROVE  /\ Sequence(s) \in Seq(BlockBytes)
         /\ s.at + Len(Sequence(s)) = EndAt(s)
         /\ Len(Sequence(s)) = 1 + Extenders(Count(s)) + Count(s) + Len(MatchPart(s))
         /\ Sequence(s)[1] = [kind |-> "token", value |-> Token(s)]
         /\ \A i \in 1..Extenders(Count(s)) :
              Sequence(s)[1 + i] = [kind |-> "extra", value |-> ExtensionValue(Count(s), i)]
         /\ \A i \in 1..Count(s) :
              Sequence(s)[1 + Extenders(Count(s)) + i] = [kind |-> "literal", value |-> data[s.from + i]]
         /\ \A i \in 1..Len(MatchPart(s)) :
              Sequence(s)[1 + Extenders(Count(s)) + Count(s) + i] = MatchPart(s)[i]
<1> DEFINE tok == Byte("token", Token(s))
           extra == Extended(Count(s))
           lits == Literals(s.from, s.to)
           tail == MatchPart(s)
           w == tok \o extra \o lits \o tail
<1>1. tok \in Seq(BlockBytes) /\ Len(tok) = 1 /\ tok[1] = [kind |-> "token", value |-> Token(s)]
  <2> HIDE DEF tok
  <2>1. tok = <<[kind |-> "token", value |-> Token(s)]>>
    BY DEF tok, Byte
  <2>2. [kind |-> "token", value |-> Token(s)] \in BlockBytes
    BY TokenByte
  <2> QED BY <2>1, <2>2
<1>2. /\ Count(s) \in Nat /\ s.at \in Nat /\ s.to \in 0..n /\ s.from \in 0..s.to
  BY SoundCounts DEF n
<1>3. /\ extra \in Seq(BlockBytes) /\ Len(extra) = Extenders(Count(s))
      /\ \A i \in 1..Extenders(Count(s)) : extra[i] = [kind |-> "extra", value |-> ExtensionValue(Count(s), i)]
  <2> DEFINE k == Count(s)
  <2>1. k \in Nat
    BY <1>2
  <2> HIDE DEF k
  <2>2. /\ Extended(k) \in Seq(BlockBytes) /\ Len(Extended(k)) = Extenders(k)
        /\ \A i \in 1..Extenders(k) : Extended(k)[i] = [kind |-> "extra", value |-> ExtensionValue(k, i)]
    BY <2>1, ExtendedShape
  <2> QED BY <2>2 DEF k
<1>4. /\ lits \in Seq(BlockBytes) /\ Len(lits) = Count(s)
      /\ \A i \in 1..Count(s) : lits[i] = [kind |-> "literal", value |-> data[s.from + i]]
  <2> DEFINE from == s.from
             to == s.to
  <2>1. to \in 0..n /\ from \in 0..to
    BY <1>2
  <2> HIDE DEF from, to
  <2>2. /\ Literals(from, to) \in Seq(BlockBytes) /\ Len(Literals(from, to)) = to - from
        /\ \A i \in 1..(to - from) : Literals(from, to)[i] = [kind |-> "literal", value |-> data[from + i]]
    BY <2>1, LiteralShape
  <2> QED BY <2>2 DEF from, to, Count
<1>5. /\ tail \in Seq(BlockBytes)
      /\ Len(tail) = IF s.len = 0 THEN 0 ELSE 2 + Extenders(Extra(s))
  BY MatchPartShape
<1>6. Sequence(s) = w
  BY DEF Sequence, Count
<1> HIDE DEF tok, extra, lits, tail
<1>a. w \in Seq(BlockBytes) /\ PartsOf(w, tok, extra, lits, tail)
  <2>1. tok \in Seq(BlockBytes) /\ extra \in Seq(BlockBytes) /\ lits \in Seq(BlockBytes) /\ tail \in Seq(BlockBytes)
    BY <1>1, <1>3, <1>4, <1>5
  <2> QED BY <2>1, FourParts
<1> HIDE DEF w
<1>7. /\ Len(w) = Len(tok) + Len(extra) + Len(lits) + Len(tail)
      /\ \A i \in 1..Len(tok) : w[i] = tok[i]
      /\ \A i \in 1..Len(extra) : w[Len(tok) + i] = extra[i]
      /\ \A i \in 1..Len(lits) : w[Len(tok) + Len(extra) + i] = lits[i]
      /\ \A i \in 1..Len(tail) : w[Len(tok) + Len(extra) + Len(lits) + i] = tail[i]
  BY <1>a DEF PartsOf
<1>8. Extenders(Count(s)) \in Nat /\ (s.len # 0 => Extenders(Extra(s)) \in Nat)
  BY <1>2, SoundCounts, ExtendersType
<1>b. Len(w) = 1 + Extenders(Count(s)) + Count(s) + Len(tail)
  BY <1>1, <1>3, <1>4, <1>7
<1>9. s.at + Len(w) = EndAt(s)
  <2>1. Len(w) = 1 + Extenders(Count(s)) + Count(s) + Len(tail)
    BY <1>b
  <2>2. CASE s.len = 0
    BY <1>2, <1>5, <1>8, <2>1, <2>2 DEF EndAt, OffsetAt, LiteralsAt
  <2>3. CASE s.len # 0
    <3> DEFINE e == Extenders(Count(s))
               c == Count(s)
               x == Extenders(Extra(s))
               p == s.at
    <3>1. Len(tail) = 2 + x /\ e \in Nat /\ c \in Nat /\ x \in Nat /\ p \in Nat
      BY <1>2, <1>5, <1>8, <2>3
    <3>2. EndAt(s) = p + 1 + e + c + 2 + x
      BY <2>3 DEF EndAt, OffsetAt, LiteralsAt
    <3>3. Len(w) = 1 + e + c + Len(tail)
      BY <2>1
    <3>4. p + Len(w) = EndAt(s)
      <4> HIDE DEF e, c, x, p
      <4> QED BY <3>1, <3>2, <3>3
    <3> QED BY <3>4
  <2> QED BY <2>2, <2>3
<1>10. w[1] = [kind |-> "token", value |-> Token(s)]
  BY <1>1, <1>7
<1>11. \A i \in 1..Extenders(Count(s)) : w[1 + i] = [kind |-> "extra", value |-> ExtensionValue(Count(s), i)]
  BY <1>1, <1>3, <1>7
<1>12. \A i \in 1..Count(s) :
         w[1 + Extenders(Count(s)) + i] = [kind |-> "literal", value |-> data[s.from + i]]
  BY <1>1, <1>3, <1>4, <1>7
<1>13. \A i \in 1..Len(tail) : w[1 + Extenders(Count(s)) + Count(s) + i] = tail[i]
  BY <1>1, <1>3, <1>4, <1>7
<1> QED BY <1>a, <1>b, <1>6, <1>9, <1>10, <1>11, <1>12, <1>13 DEF tail

(***************************************************************************)
(* Every place of a sequence lies between its beginning and its end.       *)
(***************************************************************************)
LEMMA Places ==
  ASSUME NEW d \in Seq(Nat), NEW s \in Sequences, Sound(d, s)
  PROVE  /\ EndAt(s) \in Nat /\ s.at \in 1..(EndAt(s) - 1)
         /\ LiteralsAt(s) \in Nat /\ OffsetAt(s) \in Nat
         /\ LiteralsAt(s) = s.at + 1 + Extenders(Count(s)) /\ OffsetAt(s) = LiteralsAt(s) + Count(s)
         /\ LiteralsAt(s) <= OffsetAt(s) /\ OffsetAt(s) <= EndAt(s)
         /\ Extenders(Count(s)) \in Nat
         /\ \A i \in 1..Extenders(Count(s)) : s.at + i \in 1..(EndAt(s) - 1)
         /\ \A i \in 1..Count(s) : LiteralsAt(s) + i - 1 \in 1..(EndAt(s) - 1)
         /\ s.len = 0 => EndAt(s) = OffsetAt(s)
         /\ s.len # 0 => /\ EndAt(s) = OffsetAt(s) + 2 + Extenders(Extra(s))
                         /\ Extenders(Extra(s)) \in Nat
                         /\ OffsetAt(s) \in 1..(EndAt(s) - 1) /\ OffsetAt(s) + 1 \in 1..(EndAt(s) - 1)
                         /\ \A i \in 1..Extenders(Extra(s)) : OffsetAt(s) + 1 + i \in 1..(EndAt(s) - 1)
<1> DEFINE p == s.at
           c == Count(s)
           e == Extenders(c)
           x == Extenders(Extra(s))
           l == LiteralsAt(s)
           o == OffsetAt(s)
           z == EndAt(s)
<1>1. p \in Nat \ {0} /\ c \in Nat /\ (s.len # 0 => Extra(s) \in Nat)
  BY SoundCounts
<1>2. e \in Nat /\ (s.len # 0 => x \in Nat)
  <2> HIDE DEF c
  <2>1. e \in Nat
    BY <1>1, ExtendersType
  <2>2. s.len # 0 => x \in Nat
    <3> DEFINE k == Extra(s)
    <3>1. s.len # 0 => k \in Nat
      BY <1>1
    <3> HIDE DEF k
    <3>2. s.len # 0 => Extenders(k) \in Nat
      BY <3>1, ExtendersType
    <3> QED BY <3>2 DEF k
  <2> QED BY <2>1, <2>2
<1>3. l = p + 1 + e /\ o = l + c /\ z = IF s.len = 0 THEN o ELSE o + 2 + x
  BY DEF LiteralsAt, OffsetAt, EndAt
<1> HIDE DEF p, c, e, x, l, o, z
<1>4. l \in Nat /\ o \in Nat /\ z \in Nat /\ l <= o /\ o <= z /\ p \in 1..(z - 1)
  BY <1>1, <1>2, <1>3
<1>5. \A i \in 1..e : p + i \in 1..(z - 1)
  BY <1>1, <1>2, <1>3
<1>6. \A i \in 1..c : l + i - 1 \in 1..(z - 1)
  BY <1>1, <1>2, <1>3
<1>7. s.len # 0 => /\ z = o + 2 + x /\ x \in Nat
                   /\ o \in 1..(z - 1) /\ o + 1 \in 1..(z - 1)
                   /\ \A i \in 1..x : o + 1 + i \in 1..(z - 1)
  BY <1>1, <1>2, <1>3
<1>8. s.len = 0 => z = o
  BY <1>3
<1> QED BY <1>2, <1>3, <1>4, <1>5, <1>6, <1>7, <1>8 DEF p, c, e, x, l, o, z

(***************************************************************************)
(* A sequence that stands in b stands in c too, if c has the same bytes up *)
(* to its end, as far as it reaches.                                       *)
(***************************************************************************)
LEMMA CarriesKept ==
  ASSUME NEW d \in Seq(Nat), NEW s \in Sequences, Sound(d, s), NEW b, NEW c,
         Carries(d, b, s),
         \A i \in 1..(EndAt(s) - 1) : i <= Len(c) => i <= Len(b) /\ c[i] = b[i]
  PROVE  Carries(d, c, s)
<1>1. ASSUME NEW i \in 1..(EndAt(s) - 1), NEW k, NEW v, Has(b, i, k, v) PROVE Has(c, i, k, v)
  BY <1>1 DEF Has
<1>2. Has(c, s.at, "token", Token(s))
  <2>1. s.at \in 1..(EndAt(s) - 1)
    BY Places
  <2> QED BY <1>1, <2>1 DEF Carries
<1>3. HasExtension(c, s.at, Count(s))
  <2> SUFFICES ASSUME NEW i \in 1..Extenders(Count(s))
               PROVE  Has(c, s.at + i, "extra", ExtensionValue(Count(s), i))
    BY DEF HasExtension
  <2>1. s.at + i \in 1..(EndAt(s) - 1)
    BY Places
  <2>2. Has(b, s.at + i, "extra", ExtensionValue(Count(s), i))
    BY DEF Carries, HasExtension
  <2> QED BY <1>1, <2>1, <2>2
<1>4. HasLiterals(d, c, s)
  <2> SUFFICES ASSUME NEW i \in 1..Count(s)
               PROVE  Has(c, LiteralsAt(s) + i - 1, "literal", d[s.from + i])
    BY DEF HasLiterals
  <2>1. LiteralsAt(s) + i - 1 \in 1..(EndAt(s) - 1)
    BY Places
  <2>2. Has(b, LiteralsAt(s) + i - 1, "literal", d[s.from + i])
    BY DEF Carries, HasLiterals
  <2> QED BY <1>1, <2>1, <2>2
<1>5. HasMatch(c, s)
  <2> SUFFICES ASSUME s.len # 0
               PROVE  Has(c, OffsetAt(s), "offset", s.dist) /\ HasExtension(c, OffsetAt(s) + 1, Extra(s))
    BY DEF HasMatch
  <2>1. Has(c, OffsetAt(s), "offset", s.dist)
    <3>1. OffsetAt(s) \in 1..(EndAt(s) - 1)
      BY Places
    <3> QED BY <1>1, <3>1 DEF Carries, HasMatch
  <2>2. ASSUME NEW i \in 1..Extenders(Extra(s))
        PROVE  Has(c, OffsetAt(s) + 1 + i, "extra", ExtensionValue(Extra(s), i))
    <3>1. OffsetAt(s) + 1 + i \in 1..(EndAt(s) - 1)
      BY Places
    <3>2. Has(b, OffsetAt(s) + 1 + i, "extra", ExtensionValue(Extra(s), i))
      BY DEF Carries, HasMatch, HasExtension
    <3> QED BY <1>1, <3>1, <3>2
  <2> QED BY <2>1, <2>2 DEF HasExtension
<1> QED BY <1>2, <1>3, <1>4, <1>5 DEF Carries

(***************************************************************************)
(* A sequence emitted at the end of the block stands there.                *)
(***************************************************************************)
LEMMA EmittedCarried ==
  ASSUME data \in Seq(Nat), NEW b \in Seq(BlockBytes), NEW s \in Sequences, Sound(data, s),
         s.at = Len(b) + 1
  PROVE  /\ b \o Sequence(s) \in Seq(BlockBytes)
         /\ Len(b \o Sequence(s)) + 1 = EndAt(s)
         /\ \A i \in 1..Len(b) : (b \o Sequence(s))[i] = b[i]
         /\ Carries(data, b \o Sequence(s), s)
<1> DEFINE w == Sequence(s)
           c == b \o w
           z == Len(w)
           e == Extenders(Count(s))
           k == Count(s)
           x == Extenders(Extra(s))
           m == Len(MatchPart(s))
           at0 == Len(b)
<1>1. /\ w \in Seq(BlockBytes) /\ s.at + z = EndAt(s) /\ z = 1 + e + k + m
      /\ w[1] = [kind |-> "token", value |-> Token(s)]
      /\ \A i \in 1..e : w[1 + i] = [kind |-> "extra", value |-> ExtensionValue(k, i)]
      /\ \A i \in 1..k : w[1 + e + i] = [kind |-> "literal", value |-> data[s.from + i]]
      /\ \A i \in 1..m : w[1 + e + k + i] = MatchPart(s)[i]
  BY SequenceShape
<1>2. w \in Seq(BlockBytes)
  BY <1>1
<1> HIDE DEF w
<1>3. /\ c \in Seq(BlockBytes) /\ Len(c) = at0 + z /\ at0 \in Nat /\ z \in Nat
      /\ \A i \in 1..at0 : c[i] = b[i]
      /\ \A i \in 1..z : c[at0 + i] = w[i]
  BY <1>2, TwoParts
<1>4. /\ e \in Nat /\ k \in Nat /\ LiteralsAt(s) = at0 + 1 + 1 + e /\ OffsetAt(s) = at0 + 1 + 1 + e + k
  BY Places, SoundCounts
<1>5. /\ m \in Nat
      /\ m = IF s.len = 0 THEN 0 ELSE 2 + x
      /\ s.len # 0 =>
           /\ MatchPart(s)[1] = [kind |-> "offset", value |-> s.dist]
           /\ \A i \in 1..x : MatchPart(s)[2 + i] = [kind |-> "extra", value |-> ExtensionValue(Extra(s), i)]
  BY MatchPartShape
<1>6. s.len # 0 => x \in Nat
  BY Places
<1>c. s.at = at0 + 1
  OBVIOUS
<1> HIDE DEF c, e, k, x, m, z, at0
<1>d. z = 1 + e + k + m /\ e \in Nat /\ k \in Nat /\ m \in Nat /\ at0 \in Nat
      /\ LiteralsAt(s) = at0 + 1 + 1 + e /\ OffsetAt(s) = at0 + 1 + 1 + e + k
  BY <1>1, <1>3, <1>4, <1>5
<1>7. Has(c, s.at, "token", Token(s))
  <2>1. s.at = at0 + 1 /\ 1 \in 1..z
    BY <1>c, <1>d
  <2> QED BY <1>1, <1>3, <2>1 DEF Has
<1>8. HasExtension(c, s.at, Count(s))
  <2> SUFFICES ASSUME NEW i \in 1..e
               PROVE  Has(c, s.at + i, "extra", ExtensionValue(k, i))
    BY DEF HasExtension, e, k
  <2>1. 1 + i \in 1..z /\ s.at + i = at0 + (1 + i)
    BY <1>c, <1>d
  <2>2. c[s.at + i] = w[1 + i]
    BY <1>3, <2>1
  <2> QED BY <1>1, <2>2 DEF Has
<1>9. HasLiterals(data, c, s)
  <2> SUFFICES ASSUME NEW i \in 1..k
               PROVE  Has(c, LiteralsAt(s) + i - 1, "literal", data[s.from + i])
    BY DEF HasLiterals, k
  <2>1. 1 + e + i \in 1..z /\ LiteralsAt(s) + i - 1 = at0 + (1 + e + i)
    BY <1>d
  <2>2. c[LiteralsAt(s) + i - 1] = w[1 + e + i]
    BY <1>3, <2>1
  <2> QED BY <1>1, <2>2 DEF Has
<1>10. HasMatch(c, s)
  <2> SUFFICES ASSUME s.len # 0
               PROVE  Has(c, OffsetAt(s), "offset", s.dist) /\ HasExtension(c, OffsetAt(s) + 1, Extra(s))
    BY DEF HasMatch
  <2>0. m = 2 + x /\ x \in Nat
    BY <1>5, <1>6
  <2>1. Has(c, OffsetAt(s), "offset", s.dist)
    <3>1. 1 + e + k + 1 \in 1..z /\ OffsetAt(s) = at0 + (1 + e + k + 1) /\ 1 \in 1..m
      BY <1>d, <2>0
    <3>2. c[OffsetAt(s)] = MatchPart(s)[1]
      BY <1>1, <1>3, <3>1
    <3> QED BY <1>5, <3>2 DEF Has
  <2>2. ASSUME NEW i \in 1..x
        PROVE  Has(c, OffsetAt(s) + 1 + i, "extra", ExtensionValue(Extra(s), i))
    <3>1. /\ 1 + e + k + (2 + i) \in 1..z /\ OffsetAt(s) + 1 + i = at0 + (1 + e + k + (2 + i))
          /\ 2 + i \in 1..m
      <4> DEFINE o == OffsetAt(s)
      <4>1. o = at0 + 1 + 1 + e + k /\ z = 1 + e + k + m
            /\ e \in Nat /\ k \in Nat /\ m \in Nat /\ at0 \in Nat
        BY <1>d
      <4>2. m = 2 + x /\ x \in Nat
        BY <2>0
      <4> HIDE DEF o
      <4>3. 2 + i \in 1..m
        BY <4>2
      <4>4. 1 + e + k + (2 + i) \in 1..z
        BY <4>1, <4>3
      <4>5. o + 1 + i = at0 + (1 + e + k + (2 + i))
        BY <4>1, <4>2
      <4> QED BY <4>3, <4>4, <4>5 DEF o
    <3>2. c[OffsetAt(s) + 1 + i] = MatchPart(s)[2 + i]
      BY <1>1, <1>3, <3>1
    <3> QED BY <1>5, <3>2 DEF Has
  <2> QED BY <2>1, <2>2 DEF HasExtension, x
<1>11. Len(c) + 1 = EndAt(s)
  <2>1. at0 + z + 1 = s.at + z
    <3>1. z \in Nat /\ at0 \in Nat
      BY <1>d
    <3>2. at0 + z + 1 = (at0 + 1) + z
      BY <3>1
    <3> QED BY <1>c, <3>2
  <2> QED BY <1>1, <1>3, <2>1
<1>12. Carries(data, c, s)
  BY <1>7, <1>8, <1>9, <1>10 DEF Carries
<1> QED BY <1>3, <1>11, <1>12 DEF c, w, at0, z

----------------------------------------------------------------------------
(* compress_block *)

LEMMA SequenceBounds ==
  ASSUME TrailInv, data \in Seq(Nat), NEW k \in 1..Len(trail)
  PROVE  /\ trail[k] \in Sequences /\ Sound(data, trail[k]) /\ Carries(data, block, trail[k])
         /\ EndAt(trail[k]) \in Nat /\ EndAt(trail[k]) <= BlockEnd
<1>1. trail[k] \in Sequences /\ Sound(data, trail[k]) /\ Carries(data, block, trail[k])
  BY DEF TrailInv
<1>2. EndAt(trail[k]) \in Nat
  BY <1>1, Places
<1> QED BY <1>1, <1>2 DEF TrailInv

LEMMA FinalFacts ==
  ASSUME TrailInv, data \in Seq(Nat), trail # << >>
  PROVE  /\ Len(trail) \in Nat \ {0} /\ Final = trail[Len(trail)]
         /\ Final \in Sequences /\ Sound(data, Final)
         /\ BlockEnd = EndAt(Final) /\ BlockEnd \in Nat /\ Covered = Final.to + Final.len
<1>1. Len(trail) \in Nat \ {0} /\ Len(trail) \in 1..Len(trail)
  BY DEF TrailInv
<1>2. Final \in Sequences /\ Sound(data, Final) /\ EndAt(Final) \in Nat
  BY <1>1, SequenceBounds DEF Final
<1> QED BY <1>1, <1>2 DEF Final, BlockEnd, Covered

(***************************************************************************)
(* A sequence that is true of the plaintext and goes on where the last one *)
(* ended extends the trail (_emit_sequence).                               *)
(***************************************************************************)
LEMMA EmitKeeps ==
  ASSUME EncoderInv, TrailInv, StageInv, pc = "compress", data' = data,
         NEW to, NEW dist, NEW len, Emit(to, dist, len),
         NEW s, s = [at |-> Len(block) + 1, from |-> anchor, to |-> to, dist |-> dist, len |-> len],
         s \in Sequences, Sound(data, s)
  PROVE  /\ block' \in Seq(BlockBytes) /\ Len(block') + 1 = BlockEnd'
         /\ TrailInv'
         /\ trail' # << >> /\ Final' = s /\ Covered' = to + len
<1> DEFINE b == block'
           t == trail'
           last == Len(trail)
<1>1. b = block \o Sequence(s) /\ t = Append(trail, s) /\ s.at = Len(block) + 1 /\ s.from = anchor
      /\ s.to = to /\ s.len = len
  BY DEF Emit
<1>2. block \in Seq(BlockBytes) /\ data \in Seq(Nat) /\ trail \in Seq(Sequences) /\ last \in Nat
  BY DEF EncoderInv, TrailInv
<1>3. /\ b \in Seq(BlockBytes) /\ Len(b) + 1 = EndAt(s) /\ Carries(data, b, s)
      /\ \A i \in 1..Len(block) : b[i] = block[i]
  BY <1>1, <1>2, EmittedCarried
<1>4. /\ t \in Seq(Sequences) /\ Len(t) = last + 1 /\ t[last + 1] = s
      /\ \A k \in 1..last : t[k] = trail[k]
  <2>1. t = Append(trail, s) /\ trail \in Seq(Sequences)
    BY <1>1, <1>2
  <2> QED BY <2>1
<1>5. t # << >> /\ Final' = s /\ BlockEnd' = EndAt(s) /\ Covered' = to + len
  <2>1. t # << >> /\ t[Len(t)] = s
    BY <1>2, <1>4
  <2> QED BY <1>1, <2>1 DEF Final, BlockEnd, Covered
<1>6. Len(block) + 1 = BlockEnd /\ anchor = Covered /\ (trail # << >> => Final.len # 0)
  BY DEF StageInv
<1>7. EndAt(s) \in Nat /\ s.at <= EndAt(s) /\ Len(block) \in Nat
  <2>1. EndAt(s) \in Nat /\ s.at \in 1..(EndAt(s) - 1) /\ s.at \in Nat
    BY <1>2, Places DEF Sequences
  <2> QED BY <1>2, <2>1
<1> HIDE DEF b, t, last
<1>8. ASSUME NEW k \in 1..(last + 1)
      PROVE  Sound(data, t[k]) /\ Carries(data, b, t[k]) /\ EndAt(t[k]) <= EndAt(s)
  <2>1. CASE k = last + 1
    <3>1. t[k] = s /\ Carries(data, b, s) /\ EndAt(s) \in Nat
      BY <1>3, <1>4, <1>7, <2>1
    <3>2. \A z \in Nat : z <= z
      OBVIOUS
    <3> QED BY <3>1, <3>2
  <2>2. CASE k # last + 1
    <3>1. k \in 1..last /\ t[k] = trail[k]
      BY <1>2, <1>4, <2>2
    <3>2. /\ trail[k] \in Sequences /\ Sound(data, trail[k]) /\ Carries(data, block, trail[k])
          /\ EndAt(trail[k]) \in Nat /\ EndAt(trail[k]) <= BlockEnd
      BY <1>2, <3>1, SequenceBounds DEF last
    <3>3. \A i \in 1..(EndAt(trail[k]) - 1) : i <= Len(b) => i <= Len(block) /\ b[i] = block[i]
      <4> SUFFICES ASSUME NEW i \in 1..(EndAt(trail[k]) - 1)
                   PROVE  i <= Len(block) /\ b[i] = block[i]
        OBVIOUS
      <4> DEFINE z == EndAt(trail[k])
      <4>1. i \in 1..(z - 1) /\ z \in Nat /\ z <= Len(block) + 1
        BY <1>6, <3>2
      <4> HIDE DEF z
      <4>2. i \in 1..Len(block)
        BY <1>7, <4>1
      <4> QED BY <1>3, <4>2
    <3>4. Carries(data, b, trail[k])
      BY <1>2, <3>2, <3>3, CarriesKept
    <3>5. EndAt(trail[k]) <= EndAt(s)
      <4> DEFINE z == EndAt(trail[k])
                 y == EndAt(s)
      <4>1. z \in Nat /\ z <= Len(block) + 1 /\ y \in Nat /\ Len(block) + 1 <= y
        BY <1>1, <1>6, <1>7, <3>2
      <4> HIDE DEF z, y
      <4>2. z <= y
        BY <1>7, <4>1
      <4> QED BY <4>2 DEF z, y
    <3> QED BY <3>1, <3>2, <3>4, <3>5
  <2> QED BY <2>1, <2>2
<1>9. ASSUME NEW k \in 1..last
      PROVE  t[k].len # 0 /\ t[k + 1].at = EndAt(t[k]) /\ t[k + 1].from = t[k].to + t[k].len
  <2>1. CASE k = last
    <3>1. trail # << >>
      BY <1>2, <2>1 DEF last
    <3>2. Final = t[k] /\ t[k + 1] = s
      BY <1>4, <2>1 DEF Final, last
    <3>3. Final.len # 0 /\ s.at = EndAt(Final) /\ s.from = Final.to + Final.len
      BY <1>1, <1>2, <1>6, <3>1, FinalFacts
    <3> QED BY <3>2, <3>3
  <2>2. CASE k # last
    <3>1. k \in 1..(last - 1) /\ k \in 1..last /\ k + 1 \in 1..last
      BY <1>2, <2>2
    <3>2. trail[k].len # 0 /\ trail[k + 1].at = EndAt(trail[k]) /\ trail[k + 1].from = trail[k].to + trail[k].len
      BY <3>1 DEF TrailInv, last
    <3> QED BY <1>4, <3>1, <3>2
  <2> QED BY <2>1, <2>2
<1>10. t[1].at = 1 /\ t[1].from = 0
  <2>1. CASE trail = << >>
    <3>1. t[1] = s
      BY <1>4, <2>1 DEF last
    <3> QED BY <1>1, <1>6, <2>1, <3>1 DEF BlockEnd, Covered
  <2>2. CASE trail # << >>
    <3>1. 1 \in 1..last
      BY <1>2, <2>2 DEF last
    <3> QED BY <1>4, <2>2, <3>1 DEF TrailInv
  <2> QED BY <2>1, <2>2
<1>11. TrailInv'
  <2>1. (last + 1) - 1 = last
    BY <1>2
  <2>2. \A k \in 1..Len(t) : Sound(data, t[k]) /\ Carries(data, b, t[k])
    BY <1>4, <1>8
  <2>3. \A k \in 1..Len(t) : EndAt(t[k]) <= BlockEnd'
    BY <1>4, <1>5, <1>8
  <2>4. \A k \in 1..(Len(t) - 1) :
          t[k].len # 0 /\ t[k + 1].at = EndAt(t[k]) /\ t[k + 1].from = t[k].to + t[k].len
    BY <1>4, <1>9, <2>1
  <2> QED BY <1>4, <1>10, <2>2, <2>3, <2>4 DEF TrailInv, t, b
<1> QED BY <1>3, <1>5, <1>11 DEF b, t

LEMMA InitEstablishes == Init => IndInv
<1> SUFFICES ASSUME Init PROVE IndInv
  OBVIOUS
<1>1. data \in Seq(Nat) /\ n \in Nat /\ size \in 0..(n + 1)
  BY Lz4BlockAssumption DEF Init, n
<1>2. block = << >> /\ trail = << >> /\ out = << >> /\ pos = 0 /\ anchor = 0 /\ whole = TRUE /\ at = 1
      /\ pc = "compress" /\ status = "working"
  BY DEF Init
<1>3. EncoderInv
  BY <1>1, <1>2 DEF EncoderInv
<1>4. TrailInv
  BY <1>2 DEF TrailInv
<1>5. StageInv
  BY <1>2 DEF StageInv, BlockEnd, Covered
<1>6. OutInv
  <2>1. out = SubSeq(data, 1, Len(out))
    BY <1>1, <1>2
  <2> QED BY <1>1, <1>2, <2>1 DEF OutInv
<1>7. DecoderInv
  BY <1>2 DEF DecoderInv
<1> QED BY <1>3, <1>4, <1>5, <1>6, <1>7 DEF IndInv

LEMMA TrailLeftAlone ==
  ASSUME TrailInv, data' = data, block' = block, trail' = trail
  PROVE  TrailInv' /\ BlockEnd' = BlockEnd /\ Final' = Final /\ Covered' = Covered
BY DEF TrailInv, BlockEnd, Final, Covered

(***************************************************************************)
(* While the block is written there is no output.                          *)
(***************************************************************************)
LEMMA OutLeftAlone ==
  ASSUME IndInv, pc \in {"compress", "store"}, pc' \in {"compress", "store"},
         UNCHANGED <<data, size, decoderVars>>
  PROVE  OutInv' /\ DecoderInv' /\ at' = 1 /\ out' = << >> /\ status' = "working"
<1>1. at' = 1 /\ out = << >> /\ out' = out /\ status = "working" /\ status' = status
  BY DEF IndInv, StageInv, decoderVars
<1>2. n' = n /\ n \in Nat /\ Len(out) = 0
  BY <1>1 DEF n, IndInv, EncoderInv
<1>3. OutInv'
  BY <1>1, <1>2 DEF IndInv, OutInv
<1> QED BY <1>1, <1>3 DEF DecoderInv

LEMMA AdvanceStep == IndInv /\ Advance => IndInv'
<1> SUFFICES ASSUME IndInv, Advance PROVE IndInv'
  OBVIOUS
<1>1. pos + 1 <= n /\ n \in Nat /\ pos \in Nat
  BY Lz4BlockAssumption DEF Advance, Searching, IndInv, EncoderInv, n
<1>2. EncoderInv'
  BY <1>1 DEF Advance, IndInv, EncoderInv, n
<1>3. TrailInv' /\ BlockEnd' = BlockEnd /\ Final' = Final /\ Covered' = Covered
  BY TrailLeftAlone DEF Advance, IndInv
<1>4. pc = "compress" /\ pc' = pc /\ UNCHANGED <<data, size, anchor, block, trail, whole, decoderVars>>
  BY DEF Advance, Searching
<1>5. OutInv' /\ DecoderInv' /\ at' = 1 /\ out' = << >> /\ status' = "working"
  BY <1>4, OutLeftAlone
<1>6. StageInv'
  BY <1>3, <1>4, <1>5 DEF IndInv, StageInv
<1> QED BY <1>2, <1>3, <1>5, <1>6 DEF IndInv

LEMMA MatchStep == IndInv /\ EmitMatch => IndInv'
<1> SUFFICES ASSUME IndInv, EmitMatch PROVE IndInv'
  OBVIOUS
<1>0. EncoderInv /\ TrailInv /\ StageInv
  BY DEF IndInv
<1>1. PICK q \in Candidates :
        LET len == MatchLength(data, q, pos, MatchLimit - pos)
        IN Emit(pos, pos - q, len) /\ pos' = pos + len /\ anchor' = pos + len
  BY DEF EmitMatch
<1> DEFINE len == MatchLength(data, q, pos, MatchLimit - pos)
<1>2. /\ pos <= n - MfLimit /\ pc = "compress" /\ pc' = "compress"
      /\ UNCHANGED <<data, size, whole, decoderVars>>
  BY DEF EmitMatch, Searching
<1>3. n \in Nat /\ pos \in Nat /\ anchor \in 0..pos /\ pos \in 0..n /\ n' = n /\ Len(block) \in Nat
  BY <1>0, <1>2 DEF EncoderInv, n
<1>4. len \in MinMatch..(n - LastLiterals - pos) /\ RepeatsAfter(data, pos, pos - q, len)
  BY <1>0, <1>2, MatchFits
<1>5. q \in Nat /\ q < pos /\ pos - q <= MaxOffset
  BY <1>0, CandidateFacts
<1>6. Emit(pos, pos - q, len) /\ pos' = pos + len /\ anchor' = pos + len
  BY <1>1
<1> HIDE DEF len
<1>7. len \in Nat /\ len # 0 /\ len >= MinMatch /\ pos + len + LastLiterals <= n /\ pos + len \in 0..n
  BY <1>3, <1>4, Lz4BlockAssumption
<1> DEFINE s == [at |-> Len(block) + 1, from |-> anchor, to |-> pos, dist |-> pos - q, len |-> len]
<1>8. s \in Sequences
  BY <1>3, <1>5, <1>7 DEF Sequences
<1>9. Sound(data, s)
  <2>1. pos - q \in 1..MaxOffset /\ pos - q <= pos
    BY <1>3, <1>5, Lz4BlockAssumption
  <2>2. pos + MfLimit <= n /\ anchor <= pos /\ pos <= n
    BY <1>2, <1>3, Lz4BlockAssumption
  <2> QED BY <1>4, <1>7, <2>1, <2>2 DEF Sound, n
<1> HIDE DEF s
<1>10. /\ block' \in Seq(BlockBytes) /\ Len(block') + 1 = BlockEnd'
       /\ TrailInv'
       /\ trail' # << >> /\ Final' = s /\ Covered' = pos + len
  BY <1>0, <1>2, <1>6, <1>8, <1>9, EmitKeeps DEF s
<1>11. EncoderInv'
  BY <1>0, <1>2, <1>3, <1>6, <1>7, <1>10 DEF EncoderInv
<1>12. OutInv' /\ DecoderInv' /\ at' = 1 /\ out' = << >> /\ status' = "working"
  BY <1>2, OutLeftAlone
<1>13. StageInv'
  <2>1. s.len = len
    BY DEF s
  <2>2. whole = TRUE \/ whole
    BY <1>2 DEF IndInv, StageInv
  <2>3. Len(block') + 1 <= BlockEnd'
    <3>1. Len(block') \in Nat
      BY <1>10
    <3> DEFINE z == Len(block')
    <3> HIDE DEF z
    <3>2. z + 1 = BlockEnd' /\ z \in Nat
      BY <1>10, <3>1 DEF z
    <3>3. z + 1 <= BlockEnd'
      BY <3>2
    <3> QED BY <3>3 DEF z
  <2> QED BY <1>2, <1>6, <1>7, <1>10, <1>12, <2>1, <2>2, <2>3 DEF StageInv
<1> QED BY <1>10, <1>11, <1>12, <1>13 DEF IndInv

LEMMA LastStep == IndInv /\ EmitLast => IndInv'
<1> SUFFICES ASSUME IndInv, EmitLast PROVE IndInv'
  OBVIOUS
<1>0. EncoderInv /\ TrailInv /\ StageInv
  BY DEF IndInv
<1>1. /\ pc = "compress" /\ pc' = "store" /\ Emit(n, 0, 0)
      /\ UNCHANGED <<data, size, pos, anchor, whole, decoderVars>>
  BY DEF EmitLast
<1>2. n \in Nat /\ pos \in 0..n /\ anchor \in 0..pos /\ n' = n /\ Len(block) \in Nat
  BY <1>0, <1>1 DEF EncoderInv, n
<1> DEFINE s == [at |-> Len(block) + 1, from |-> anchor, to |-> n, dist |-> 0, len |-> 0]
<1>3. s \in Sequences
  BY <1>2 DEF Sequences
<1>4. Sound(data, s)
  BY <1>2 DEF Sound, n
<1> HIDE DEF s
<1>5. /\ block' \in Seq(BlockBytes) /\ Len(block') + 1 = BlockEnd'
      /\ TrailInv'
      /\ trail' # << >> /\ Final' = s
  BY <1>0, <1>1, <1>3, <1>4, EmitKeeps DEF s
<1>6. EncoderInv'
  BY <1>0, <1>1, <1>2, <1>5 DEF EncoderInv
<1>7. OutInv' /\ DecoderInv' /\ at' = 1 /\ out' = << >> /\ status' = "working"
  BY <1>1, OutLeftAlone
<1>8. StageInv'
  <2>1. s.len = 0 /\ s.to = n
    BY DEF s
  <2>2. whole
    BY <1>1 DEF IndInv, StageInv
  <2>3. Len(block') + 1 <= BlockEnd'
    <3>1. Len(block') \in Nat
      BY <1>5
    <3> DEFINE z == Len(block')
    <3> HIDE DEF z
    <3>2. z + 1 = BlockEnd' /\ z \in Nat
      BY <1>5, <3>1 DEF z
    <3>3. z + 1 <= BlockEnd'
      BY <3>2
    <3> QED BY <3>3 DEF z
  <2> QED BY <1>1, <1>2, <1>5, <1>7, <2>1, <2>2, <2>3 DEF StageInv
<1> QED BY <1>5, <1>6, <1>7, <1>8 DEF IndInv

(***************************************************************************)
(* The block may lose its end; what is left of it is as it was.            *)
(***************************************************************************)
LEMMA StoreStep == IndInv /\ Store => IndInv'
<1> SUFFICES ASSUME IndInv, Store PROVE IndInv'
  OBVIOUS
<1>0. EncoderInv /\ TrailInv /\ StageInv /\ OutInv
  BY DEF IndInv
<1>1. PICK end \in 0..Len(block) : block' = SubSeq(block, 1, end) /\ whole' = (end = Len(block))
  BY DEF Store
<1>2. /\ pc = "store" /\ pc' = "token"
      /\ UNCHANGED <<data, size, pos, anchor, trail, at, out, status>>
  BY DEF Store, encoderVars, decoderVars
<1>3. data \in Seq(Nat) /\ n \in Nat /\ n' = n /\ block \in Seq(BlockBytes) /\ Len(block) \in Nat
  BY <1>0, <1>2 DEF EncoderInv, n
<1>4. block' \in Seq(BlockBytes) /\ Len(block') = end /\ \A i \in 1..end : block'[i] = block[i]
  <2>1. end \in Nat /\ end <= Len(block)
    BY <1>3
  <2> QED BY <1>1, <1>3, <2>1
<1>5. EncoderInv'
  BY <1>0, <1>2, <1>3, <1>4 DEF EncoderInv
<1>6. BlockEnd' = BlockEnd /\ Final' = Final /\ Len(block) + 1 = BlockEnd
  BY <1>0, <1>2 DEF BlockEnd, Final, StageInv
<1>7. TrailInv'
  <2>1. ASSUME NEW k \in 1..Len(trail) PROVE Carries(data, block', trail[k])
    <3>1. trail[k] \in Sequences /\ Sound(data, trail[k]) /\ Carries(data, block, trail[k])
      BY <1>0, <1>3, SequenceBounds
    <3>2. \A i \in 1..(EndAt(trail[k]) - 1) :
            i <= Len(block') => i <= Len(block) /\ block'[i] = block[i]
      <4>1. EndAt(trail[k]) \in Nat
        BY <3>1, <1>3, Places
      <4> DEFINE z == EndAt(trail[k])
      <4> SUFFICES ASSUME NEW i \in 1..(z - 1), i <= Len(block')
                   PROVE  i <= Len(block) /\ block'[i] = block[i]
        OBVIOUS
      <4> HIDE DEF z
      <4>2. i \in 1..end
        BY <1>4, <4>1 DEF z
      <4> QED BY <1>3, <1>4, <4>2
    <3> QED BY <1>3, <3>1, <3>2, CarriesKept
  <2> QED BY <1>0, <1>2, <1>6, <2>1 DEF TrailInv
<1>8. StageInv'
  <2>1. trail # << >> /\ Final.len = 0 /\ Final.to = n
    BY <1>0, <1>2 DEF StageInv
  <2>2. Len(block') + 1 <= BlockEnd /\ (whole' <=> Len(block') + 1 = BlockEnd)
    <3> DEFINE z == Len(block)
    <3>1. end \in Nat /\ end <= z /\ z \in Nat /\ z + 1 = BlockEnd /\ whole' = (end = z)
      BY <1>1, <1>3, <1>6
    <3> HIDE DEF z
    <3>2. end + 1 <= z + 1 /\ ((end = z) <=> (end + 1 = z + 1))
      BY <3>1
    <3>3. BlockEnd = z + 1 /\ Len(block') = end /\ whole' = (end = z)
      BY <1>4, <3>1
    <3>4. Len(block') + 1 <= BlockEnd
      BY <3>2, <3>3
    <3>5. whole' <=> Len(block') + 1 = BlockEnd
      <4>1. (Len(block') + 1 = BlockEnd) <=> (end = z)
        BY <3>2, <3>3
      <4>2. whole' <=> (end = z)
        BY <3>3, Zenon
      <4> QED BY <4>1, <4>2, Zenon
    <3> QED BY <3>4, <3>5
  <2> QED BY <1>2, <1>3, <1>6, <2>1, <2>2 DEF StageInv
<1>9. out = << >> /\ at = 1 /\ status = "working"
  BY <1>0, <1>2 DEF StageInv
<1>10. OutInv'
  BY <1>0, <1>2, <1>3, <1>9 DEF OutInv
<1>11. DecoderInv'
  <2>1. trail # << >> /\ Len(trail) \in Nat /\ trail[1].at = 1 /\ trail[1].from = 0
    BY <1>0, <1>2 DEF StageInv, TrailInv
  <2>2. 1 \in 1..Len(trail)
    BY <2>1, <1>0 DEF TrailInv
  <2>3. Decoding(trail[1])'
    BY <1>2, <1>9, <2>1 DEF Decoding
  <2> QED BY <1>2, <2>2, <2>3 DEF DecoderInv
<1> QED BY <1>5, <1>7, <1>8, <1>10, <1>11 DEF IndInv

----------------------------------------------------------------------------
(* decompress_block *)

InBlock == pc \notin {"compress", "store"} /\ status = "working"

LEMMA OutFacts ==
  ASSUME IndInv
  PROVE  /\ data \in Seq(Nat) /\ n \in Nat /\ size \in Nat
         /\ out \in Seq(Nat) /\ Len(out) \in Nat /\ Len(out) <= size /\ Len(out) <= n
         /\ block \in Seq(BlockBytes) /\ Len(block) \in Nat
<1>1. data \in Seq(Nat) /\ block \in Seq(BlockBytes) /\ size \in 0..(n + 1)
  BY DEF IndInv, EncoderInv
<1>2. n \in Nat /\ Len(block) \in Nat
  BY <1>1 DEF n
<1>3. out \in Seq(Nat) /\ Len(out) <= size /\ Len(out) <= n
  BY DEF IndInv, OutInv
<1>4. size \in Nat
  BY <1>1, <1>2
<1> QED BY <1>1, <1>2, <1>3, <1>4

(***************************************************************************)
(* The part of the invariant that is not about the decoder stays.          *)
(***************************************************************************)
LEMMA BlockLeftAlone ==
  ASSUME IndInv, UNCHANGED stored, pc \notin {"compress", "store"}, pc' \notin {"compress", "store"}
  PROVE  EncoderInv' /\ TrailInv' /\ StageInv' /\ n' = n
<1>1. UNCHANGED <<data, size, pos, anchor, trail, block, whole>>
  BY DEF stored, encoderVars
<1>2. n' = n
  BY <1>1 DEF n
<1>3. EncoderInv'
  BY <1>1, <1>2 DEF IndInv, EncoderInv
<1>4. TrailInv' /\ BlockEnd' = BlockEnd /\ Final' = Final
  BY <1>1, TrailLeftAlone DEF IndInv
<1>5. StageInv'
  BY <1>1, <1>2, <1>4 DEF IndInv, StageInv
<1> QED BY <1>2, <1>3, <1>4, <1>5

(***************************************************************************)
(* Reading past the end within a sequence means the block lost its end.    *)
(***************************************************************************)
LEMMA PastEnd ==
  ASSUME IndInv, NEW k \in 1..Len(trail), NEW p \in Nat, p <= EndAt(trail[k]), p > Len(block) + 1
  PROVE  ~whole
<1> DEFINE z == EndAt(trail[k])
           m == Len(block)
<1>1. z \in Nat /\ z <= BlockEnd /\ m \in Nat
  BY SequenceBounds, OutFacts DEF IndInv
<1>2. whole => m + 1 = BlockEnd
  BY DEF IndInv, StageInv
<1>3. p <= z /\ p > m + 1
  OBVIOUS
<1> HIDE DEF z, m
<1> QED BY <1>1, <1>2, <1>3

LEMMA FinalSequence ==
  ASSUME IndInv, pc \notin {"compress", "store"}, NEW k \in 1..Len(trail)
  PROVE  IF trail[k].len = 0
         THEN /\ trail[k] = Final /\ trail[k].to = n /\ BlockEnd = EndAt(trail[k])
         ELSE k + 1 \in 1..Len(trail)
<1>1. trail # << >> /\ Final.len = 0 /\ Final.to = n /\ BlockEnd = EndAt(Final) /\ Len(trail) \in Nat
  BY FinalFacts DEF IndInv, StageInv, EncoderInv
<1>2. CASE k = Len(trail)
  BY <1>1, <1>2 DEF Final
<1>3. CASE k # Len(trail)
  <2>1. k \in 1..(Len(trail) - 1) /\ k + 1 \in 1..Len(trail)
    BY <1>1, <1>3
  <2> QED BY <2>1 DEF IndInv, TrailInv
<1> QED BY <1>2, <1>3

(***************************************************************************)
(* The ways to stop: with as much as was asked for, or with an error that  *)
(* a whole block gives only to who asks for more than there is.            *)
(***************************************************************************)
LEMMA EndKeeps ==
  ASSUME IndInv, InBlock, NEW verdict, End(verdict),
         \/ verdict = "done" /\ Len(out) = size
         \/ verdict = "corrupt" /\ (whole => size > n)
  PROVE  IndInv'
<1>1. UNCHANGED stored /\ UNCHANGED <<at, token, length, offset, out, pc>> /\ status' = verdict
  BY DEF End
<1>2. EncoderInv' /\ TrailInv' /\ StageInv' /\ n' = n
  BY <1>1, BlockLeftAlone DEF InBlock
<1>3. size' = size /\ whole' = whole /\ data' = data
  BY <1>1 DEF stored
<1>4. OutInv'
  BY <1>1, <1>2, <1>3 DEF IndInv, OutInv
<1>5. DecoderInv'
  BY <1>1, <1>3 DEF IndInv, DecoderInv
<1> QED BY <1>2, <1>4, <1>5 DEF IndInv

(***************************************************************************)
(* A step that only moves on in the block.                                 *)
(***************************************************************************)
LEMMA MoveKeeps ==
  ASSUME IndInv, InBlock, Len(out) < size, UNCHANGED stored, UNCHANGED <<out, status>>,
         pc' \notin {"compress", "store"},
         NEW k \in 1..Len(trail), Decoding(trail[k])'
  PROVE  IndInv'
<1>1. EncoderInv' /\ TrailInv' /\ StageInv' /\ n' = n
  BY BlockLeftAlone DEF InBlock
<1>2. size' = size /\ whole' = whole /\ data' = data /\ trail' = trail
  BY DEF stored, encoderVars
<1>3. OutInv'
  BY <1>1, <1>2 DEF IndInv, OutInv
<1>4. DecoderInv'
  BY <1>2 DEF DecoderInv
<1> QED BY <1>1, <1>3, <1>4 DEF IndInv

LEMMA ReturnStep == IndInv /\ ReturnEnough => IndInv'
<1> SUFFICES ASSUME IndInv, ReturnEnough PROVE IndInv'
  OBVIOUS
<1>1. InBlock /\ End("done") /\ Len(out) >= size
  BY DEF ReturnEnough, Running, InBlock
<1>2. Len(out) = size
  BY <1>1, OutFacts
<1> QED BY <1>1, <1>2, EndKeeps

LEMMA TokenStep == IndInv /\ ReadToken => IndInv'
<1> SUFFICES ASSUME IndInv, ReadToken PROVE IndInv'
  OBVIOUS
<1>1. InBlock /\ pc = "token" /\ Len(out) < size
  BY DEF ReadToken, Running, InBlock
<1>2. PICK k \in 1..Len(trail) : Decoding(trail[k])
  BY <1>1 DEF IndInv, DecoderInv, InBlock
<1> DEFINE s == trail[k]
           c == Count(s)
           p == s.at
<1>3. s \in Sequences /\ Sound(data, s) /\ Carries(data, block, s) /\ data \in Seq(Nat)
  BY SequenceBounds, OutFacts DEF IndInv
<1>4. at = p /\ Len(out) = s.from /\ p \in Nat /\ p + 1 <= EndAt(s) /\ c \in Nat
      /\ LiteralsAt(s) = p + 1 + Extenders(c)
  <2>1. at = p /\ Len(out) = s.from
    BY <1>1, <1>2 DEF Decoding
  <2>2. EndAt(s) \in Nat /\ p \in 1..(EndAt(s) - 1) /\ LiteralsAt(s) = p + 1 + Extenders(c)
    BY <1>3, Places
  <2>3. p \in Nat /\ p + 1 <= EndAt(s)
    <3> DEFINE z == EndAt(s)
    <3> HIDE DEF z, p
    <3>1. z \in Nat /\ p \in 1..(z - 1)
      BY <2>2 DEF z
    <3>2. p \in Nat /\ p + 1 <= z
      BY <3>1
    <3> QED BY <3>2 DEF z
  <2>4. c \in Nat
    BY <1>3, SoundCounts
  <2> QED BY <2>1, <2>2, <2>3, <2>4
<1>5. CASE at + 1 > Len(block) + 1
  <2>1. End("corrupt")
    BY <1>5 DEF ReadToken, Expect
  <2>2. ~whole
    <3> DEFINE m == p + 1
    <3>1. m \in Nat /\ m <= EndAt(s) /\ m > Len(block) + 1
      BY <1>4, <1>5
    <3> HIDE DEF m
    <3> QED BY <3>1, PastEnd
  <2> QED BY <1>1, <2>1, <2>2, EndKeeps
<1>6. CASE ~(at + 1 > Len(block) + 1)
  <2>1. block[at] = [kind |-> "token", value |-> Token(s)]
    <3>1. at <= Len(block)
      BY <1>4, <1>6, OutFacts
    <3> QED BY <1>3, <1>4, <3>1 DEF Carries, Has
  <2>2. /\ token' = Token(s) /\ length' = Token(s).literals /\ at' = at + 1
        /\ pc' = IF Token(s).literals = TokenMax THEN "literalLength" ELSE "literals"
        /\ UNCHANGED <<stored, offset, out, status>>
    BY <1>6, <2>1 DEF ReadToken, Expect, Value
  <2>3. Token(s).literals = Lesser(c, TokenMax)
    BY DEF Token, Count
  <2>4. s' = s
    BY <2>2 DEF stored, encoderVars
  <2>5. pc' = "literalLength" => Extending(at', length', Count(s), s.at)
    <3> SUFFICES ASSUME pc' = "literalLength" PROVE Extending(at', length', Count(s), s.at)
      OBVIOUS
    <3>1. length' = TokenMax /\ c >= TokenMax
      BY <1>4, <2>2, <2>3, Lz4BlockAssumption DEF Lesser
    <3>2. 0 \in 0..(Extenders(c) - 1)
      <4> HIDE DEF c
      <4> QED BY <1>4, <3>1, ExtendersType
    <3>3. at' = p + 1 + 0 /\ length' = TokenMax + 0 * Continue /\ 0 * Continue <= c - TokenMax
      <4> HIDE DEF c, p
      <4> QED BY <1>4, <2>2, <3>1, Lz4BlockAssumption
    <3>4. Extending(at', length', c, p)
      <4>1. c' = c /\ p' = p
        BY <2>4 DEF Count
      <4> HIDE DEF c, p
      <4> QED BY <3>2, <3>3, <4>1 DEF Extending
    <3> QED BY <3>4
  <2>6. pc' = "literals" => at' = LiteralsAt(s) /\ length' = c
    <3> SUFFICES ASSUME pc' = "literals" PROVE at' = LiteralsAt(s) /\ length' = c
      OBVIOUS
    <3>1. length' = c /\ c < TokenMax
      BY <1>4, <2>2, <2>3, Lz4BlockAssumption DEF Lesser
    <3>2. Extenders(c) = 0
      BY <3>1 DEF Extenders
    <3> HIDE DEF c, p
    <3> QED BY <1>4, <2>2, <3>1, <3>2
  <2>7. Decoding(s)'
    <3>1. Len(out') = s.from /\ pc' \in {"literalLength", "literals"}
      BY <1>4, <2>2
    <3>2. LiteralsAt(s)' = LiteralsAt(s) /\ Count(s)' = c /\ Token(s)' = Token(s)
      BY <2>4
    <3> HIDE DEF s, c, p
    <3> QED BY <2>2, <2>4, <2>5, <2>6, <3>1, <3>2 DEF Decoding
  <2> QED BY <1>1, <2>2, <2>7, MoveKeeps
<1> QED BY <1>5, <1>6

(***************************************************************************)
(* _read_length, for the literals and for the match: another full byte, or *)
(* the length is complete and its bytes are all read.                      *)
(***************************************************************************)
LEMMA LengthStep ==
  ASSUME IndInv, InBlock, NEW here, NEW next, ReadLength(here, next),
         NEW k \in 1..Len(trail), NEW len \in Nat, NEW base \in Nat,
         Extending(at, length, len, base), HasExtension(block, base, len),
         base + 1 + Extenders(len) <= EndAt(trail[k])
  PROVE  \/ End("corrupt") /\ ~whole
         \/ /\ UNCHANGED <<stored, token, offset, out, status>>
            /\ \/ pc' = here /\ Extending(at', length', len, base)
               \/ pc' = next /\ at' = base + 1 + Extenders(len) /\ length' = len
<1> DEFINE e == Extenders(len)
<1>1. PICK j \in 0..(e - 1) :
        at = base + 1 + j /\ length = TokenMax + j * Continue /\ j * Continue <= len - TokenMax
  BY DEF Extending
<1>2. e \in Nat /\ len >= TokenMax
  <2>1. CASE len >= TokenMax
    BY <2>1, ExtendersType
  <2>2. CASE ~(len >= TokenMax)
    <3>1. e = 0
      BY <2>2, Lz4BlockAssumption DEF Extenders
    <3> QED BY <1>1, <3>1
  <2> QED BY <2>1, <2>2
<1> DEFINE w == ExtensionValue(len, j + 1)
<1>3. /\ w = Continue => j + 1 \in 0..(e - 1) /\ (j + 1) * Continue <= len - TokenMax
      /\ w # Continue => j + 1 = e /\ TokenMax + j * Continue + w = len
      /\ w \in Nat
  BY <1>1, <1>2, LadderStep
<1> HIDE DEF e, w
<1>4. j \in Nat /\ j + 1 <= e /\ j + 1 \in 1..e /\ at = base + (j + 1) /\ at \in Nat
  BY <1>1, <1>2
<1>5. CASE at + 1 > Len(block) + 1
  <2>1. End("corrupt")
    BY <1>5 DEF ReadLength, Expect
  <2>2. ~whole
    <3> DEFINE p == base + 1 + e
    <3>1. p <= EndAt(trail[k])
      BY DEF e
    <3>2. Len(block) \in Nat
      BY OutFacts
    <3>3. p \in Nat /\ p > Len(block) + 1
      BY <1>2, <1>4, <1>5, <3>2
    <3> HIDE DEF p
    <3> QED BY <3>1, <3>3, PastEnd
  <2> QED BY <2>1, <2>2
<1>6. CASE ~(at + 1 > Len(block) + 1)
  <2>1. block[at] = [kind |-> "extra", value |-> w]
    <3>1. at <= Len(block)
      BY <1>4, <1>6, OutFacts
    <3>2. Has(block, base + (j + 1), "extra", w)
      BY <1>4 DEF HasExtension, e, w
    <3> QED BY <1>4, <3>1, <3>2 DEF Has
  <2>2. /\ length' = length + w /\ at' = at + 1
        /\ pc' = IF w = Continue THEN here ELSE next
        /\ UNCHANGED <<stored, token, offset, out, status>>
    BY <1>6, <2>1 DEF ReadLength, Expect, Value
  <2>3. CASE w = Continue
    <3>1. at' = base + 1 + (j + 1)
      BY <1>4, <2>2
    <3>2. length' = TokenMax + (j + 1) * Continue
      <4>1. (j + 1) * Continue = j * Continue + Continue /\ j * Continue \in Nat
        BY <1>4, Lz4BlockAssumption
      <4> QED BY <1>1, <2>2, <2>3, <4>1, Lz4BlockAssumption
    <3>3. Extending(at', length', len, base)
      BY <1>3, <2>3, <3>1, <3>2 DEF Extending, e
    <3> QED BY <2>2, <2>3, <3>3
  <2>4. CASE w # Continue
    <3>1. j + 1 = e /\ length' = len
      <4>1. j + 1 = e /\ TokenMax + j * Continue + w = len
        BY <1>3, <2>4
      <4>2. length' = TokenMax + j * Continue + w
        BY <1>1, <2>2
      <4> QED BY <4>1, <4>2
    <3>2. at' = base + 1 + e
      BY <1>4, <2>2, <3>1
    <3> QED BY <2>2, <2>4, <3>1, <3>2 DEF e
  <2> QED BY <2>3, <2>4
<1> QED BY <1>5, <1>6

LEMMA LiteralLengthStep == IndInv /\ ReadLiteralLength => IndInv'
<1> SUFFICES ASSUME IndInv, ReadLiteralLength PROVE IndInv'
  OBVIOUS
<1>1. InBlock /\ pc = "literalLength" /\ Len(out) < size /\ ReadLength("literalLength", "literals")
  BY DEF ReadLiteralLength, ReadLength, Running, InBlock, IndInv, DecoderInv
<1>2. PICK k \in 1..Len(trail) : Decoding(trail[k])
  BY <1>1 DEF IndInv, DecoderInv, InBlock
<1> DEFINE s == trail[k]
           c == Count(s)
           p == s.at
<1>3. s \in Sequences /\ Sound(data, s) /\ Carries(data, block, s) /\ data \in Seq(Nat)
  BY SequenceBounds, OutFacts DEF IndInv
<1>4. /\ p \in Nat /\ c \in Nat /\ LiteralsAt(s) = p + 1 + Extenders(c)
      /\ p + 1 + Extenders(c) <= EndAt(s)
  <2>1. EndAt(s) \in Nat /\ LiteralsAt(s) \in Nat /\ OffsetAt(s) \in Nat
        /\ LiteralsAt(s) <= OffsetAt(s) /\ OffsetAt(s) <= EndAt(s)
        /\ LiteralsAt(s) = p + 1 + Extenders(c)
    BY <1>3, Places
  <2>2. LiteralsAt(s) <= EndAt(s)
    <3> DEFINE x == LiteralsAt(s)
               y == OffsetAt(s)
               z == EndAt(s)
    <3>1. x \in Nat /\ y \in Nat /\ z \in Nat /\ x <= y /\ y <= z
      BY <2>1
    <3> HIDE DEF x, y, z
    <3>2. x <= z
      BY <3>1
    <3> QED BY <3>2 DEF x, z
  <2>3. p \in Nat /\ c \in Nat
    BY <1>3, SoundCounts
  <2> QED BY <2>1, <2>2, <2>3
<1>5. Extending(at, length, c, p) /\ HasExtension(block, p, c) /\ token = Token(s) /\ Len(out) = s.from
  BY <1>1, <1>2, <1>3 DEF Decoding, Carries
<1> HIDE DEF c, p
<1>6. \/ End("corrupt") /\ ~whole
      \/ /\ UNCHANGED <<stored, token, offset, out, status>>
         /\ \/ pc' = "literalLength" /\ Extending(at', length', c, p)
            \/ pc' = "literals" /\ at' = p + 1 + Extenders(c) /\ length' = c
  BY <1>1, <1>4, <1>5, LengthStep
<1>7. CASE End("corrupt") /\ ~whole
  BY <1>1, <1>7, EndKeeps
<1>8. CASE /\ UNCHANGED <<stored, token, offset, out, status>>
           /\ \/ pc' = "literalLength" /\ Extending(at', length', c, p)
              \/ pc' = "literals" /\ at' = p + 1 + Extenders(c) /\ length' = c
  <2>1. s' = s
    BY <1>8 DEF stored, encoderVars
  <2>2. Decoding(s)'
    <3>1. Len(out') = s.from /\ token' = Token(s)
      BY <1>5, <1>8
    <3>2. LiteralsAt(s)' = LiteralsAt(s) /\ Count(s)' = Count(s) /\ Token(s)' = Token(s)
      BY <2>1
    <3>3. pc' = "literalLength" => Extending(at', length', Count(s), s.at)
      BY <1>8 DEF c, p
    <3>4. pc' = "literals" => at' = LiteralsAt(s) /\ length' = Count(s)
      BY <1>4, <1>8 DEF c
    <3> HIDE DEF s
    <3> QED BY <1>8, <2>1, <3>1, <3>2, <3>3, <3>4 DEF Decoding
  <2> QED BY <1>1, <1>8, <2>2, MoveKeeps
<1> QED BY <1>6, <1>7, <1>8

LEMMA MatchLengthStep == IndInv /\ ReadMatchLength => IndInv'
<1> SUFFICES ASSUME IndInv, ReadMatchLength PROVE IndInv'
  OBVIOUS
<1>1. InBlock /\ pc = "matchLength" /\ Len(out) < size /\ ReadLength("matchLength", "match")
  BY DEF ReadMatchLength, ReadLength, Running, InBlock, IndInv, DecoderInv
<1>2. PICK k \in 1..Len(trail) : Decoding(trail[k])
  BY <1>1 DEF IndInv, DecoderInv, InBlock
<1> DEFINE s == trail[k]
           c == Extra(s)
           p == OffsetAt(s) + 1
<1>3. s \in Sequences /\ Sound(data, s) /\ Carries(data, block, s) /\ data \in Seq(Nat)
  BY SequenceBounds, OutFacts DEF IndInv
<1>4. Extending(at, length, c, p) /\ token = Token(s) /\ Len(out) = s.to /\ s.len # 0 /\ offset = s.dist
  BY <1>1, <1>2 DEF Decoding
<1>5. HasExtension(block, p, c)
  BY <1>3, <1>4 DEF Carries, HasMatch
<1>6. p \in Nat /\ c \in Nat /\ EndAt(s) = p + 1 + Extenders(c) /\ p + 1 + Extenders(c) <= EndAt(s)
  <2> DEFINE o == OffsetAt(s)
             z == EndAt(s)
             x == Extenders(c)
  <2>1. o \in Nat /\ z \in Nat /\ x \in Nat /\ z = o + 2 + x /\ c \in Nat
    BY <1>3, <1>4, Places, SoundCounts
  <2>2. o + 1 \in Nat /\ z = o + 1 + 1 + x /\ o + 1 + 1 + x <= z
    <3> HIDE DEF o, z, x
    <3> QED BY <2>1
  <2> QED BY <2>1, <2>2
<1> HIDE DEF c, p
<1>7. \/ End("corrupt") /\ ~whole
      \/ /\ UNCHANGED <<stored, token, offset, out, status>>
         /\ \/ pc' = "matchLength" /\ Extending(at', length', c, p)
            \/ pc' = "match" /\ at' = p + 1 + Extenders(c) /\ length' = c
  BY <1>1, <1>5, <1>4, <1>6, LengthStep
<1>8. CASE End("corrupt") /\ ~whole
  BY <1>1, <1>8, EndKeeps
<1>9. CASE /\ UNCHANGED <<stored, token, offset, out, status>>
           /\ \/ pc' = "matchLength" /\ Extending(at', length', c, p)
              \/ pc' = "match" /\ at' = p + 1 + Extenders(c) /\ length' = c
  <2>1. s' = s
    BY <1>9 DEF stored, encoderVars
  <2>2. Decoding(s)'
    <3>1. Len(out') = s.to /\ token' = Token(s) /\ offset' = s.dist /\ s.len # 0
      BY <1>4, <1>9
    <3>2. EndAt(s)' = EndAt(s) /\ Extra(s)' = Extra(s) /\ Token(s)' = Token(s)
      BY <2>1
    <3>3. pc' = "matchLength" => Extending(at', length', Extra(s), OffsetAt(s) + 1)
      BY <1>9 DEF c, p
    <3>4. pc' = "match" => at' = EndAt(s) /\ length' = Extra(s)
      BY <1>6, <1>9 DEF c
    <3> HIDE DEF s
    <3> QED BY <1>9, <2>1, <3>1, <3>2, <3>3, <3>4 DEF Decoding
  <2> QED BY <1>1, <1>9, <2>2, MoveKeeps
<1> QED BY <1>7, <1>8, <1>9

(***************************************************************************)
(* What a copy appends to a prefix of a text.                              *)
(***************************************************************************)
LEMMA PrefixType ==
  ASSUME NEW d \in Seq(Nat), NEW m \in Nat, m <= Len(d)
  PROVE  SubSeq(d, 1, m) \in Seq(Nat) /\ Len(SubSeq(d, 1, m)) = m /\ \A i \in 1..m : SubSeq(d, 1, m)[i] = d[i]
OBVIOUS

LEMMA LiteralsExtendPrefix ==
  ASSUME NEW d \in Seq(Nat), NEW from \in Nat, NEW t \in Nat, from + t <= Len(d)
  PROVE  SubSeq(d, 1, from) \o [i \in 1..t |-> d[from + i]] = SubSeq(d, 1, from + t)
<1> DEFINE f == [i \in 1..t |-> d[from + i]]
           a == SubSeq(d, 1, from)
           b == SubSeq(d, 1, from + t)
<1>1. a \in Seq(Nat) /\ Len(a) = from /\ \A i \in 1..from : a[i] = d[i]
  BY PrefixType
<1>2. b \in Seq(Nat) /\ Len(b) = from + t /\ \A i \in 1..(from + t) : b[i] = d[i]
  BY PrefixType, from + t \in Nat
<1>3. f \in Seq(Nat) /\ Len(f) = t /\ \A i \in 1..t : f[i] = d[from + i]
  <2>1. f \in [1..t -> Nat]
    OBVIOUS
  <2>2. \A i \in 1..t : f[i] = d[from + i]
    OBVIOUS
  <2> HIDE DEF f
  <2> QED BY <2>1, <2>2
<1> HIDE DEF a, b, f
<1>4. /\ a \o f \in Seq(Nat) /\ Len(a \o f) = from + t
      /\ \A i \in 1..from : (a \o f)[i] = a[i]
      /\ \A i \in 1..t : (a \o f)[from + i] = f[i]
  <2>1. a \in Seq(Nat) /\ f \in Seq(Nat)
    BY <1>1, <1>3
  <2>2. /\ a \o f \in Seq(Nat) /\ Len(a \o f) = Len(a) + Len(f)
        /\ \A i \in 1..Len(a) : (a \o f)[i] = a[i]
        /\ \A i \in 1..Len(f) : (a \o f)[Len(a) + i] = f[i]
    BY <2>1, TwoParts
  <2>3. Len(a) = from /\ Len(f) = t
    BY <1>1, <1>3
  <2> QED BY <2>2, <2>3
<1>5. ASSUME NEW i \in 1..(from + t) PROVE (a \o f)[i] = b[i]
  <2>1. CASE i <= from
    <3>1. i \in 1..from
      BY <2>1
    <3> QED BY <1>1, <1>2, <1>4, <3>1
  <2>2. CASE i > from
    <3>1. i - from \in 1..t /\ from + (i - from) = i
      BY <2>2
    <3> QED BY <1>2, <1>3, <1>4, <3>1
  <2>3. i <= from \/ i > from
    OBVIOUS
  <2> QED BY <2>1, <2>2, <2>3
<1>6. a \o f = b
  BY <1>2, <1>4, <1>5, SeqEqual
<1> QED BY <1>6 DEF a, b, f

LEMMA CopyExtendsPrefix ==
  ASSUME NEW d \in Seq(Nat), NEW to \in 0..Len(d), NEW off \in 1..to, NEW m \in Nat,
         to + m <= Len(d), RepeatsAfter(d, to, off, m)
  PROVE  CopyMatch(SubSeq(d, 1, to), off, m) = SubSeq(d, 1, to + m)
BY OverlapExtendsPrefix DEF CopyMatch, Overlapping

(***************************************************************************)
(* A step that produces output, all of it within what is wanted, the last  *)
(* of it only from a whole block.                                          *)
(***************************************************************************)
LEMMA OutputKeeps ==
  ASSUME IndInv, InBlock, UNCHANGED stored, status' = status, pc' \in {"token", "offset"},
         NEW m, m \in Nat, m <= size, m <= n, out' = SubSeq(data, 1, m), m = n => whole,
         m < size => \E k \in 1..Len(trail) : Decoding(trail[k])'
  PROVE  IndInv' /\ Len(out') = m
<1>1. EncoderInv' /\ TrailInv' /\ StageInv' /\ n' = n
  BY BlockLeftAlone DEF InBlock
<1>2. size' = size /\ whole' = whole /\ data' = data /\ trail' = trail
  BY DEF stored, encoderVars
<1>3. out' \in Seq(Nat) /\ Len(out') = m
  BY OutFacts, PrefixType DEF n
<1>4. OutInv'
  <2>1. status = "working"
    BY DEF InBlock
  <2> QED BY <1>1, <1>2, <1>3, <2>1 DEF OutInv
<1>5. DecoderInv'
  BY <1>2, <1>3 DEF DecoderInv
<1> QED BY <1>1, <1>3, <1>4, <1>5 DEF IndInv

LEMMA TakenBounds ==
  ASSUME NEW c \in Nat, NEW from \in Nat, NEW wanted \in Nat, from < wanted
  PROVE  /\ Lesser(c, wanted - from) \in Nat /\ Lesser(c, wanted - from) <= c
         /\ from + Lesser(c, wanted - from) <= wanted
         /\ from + Lesser(c, wanted - from) < wanted => Lesser(c, wanted - from) = c
BY DEF Lesser

LEMMA LiteralsStep == IndInv /\ CopyLiterals => IndInv' /\ Len(out') >= Len(out)
<1> SUFFICES ASSUME IndInv, CopyLiterals PROVE IndInv' /\ Len(out') >= Len(out)
  OBVIOUS
<1>1. InBlock /\ pc = "literals" /\ Len(out) < size
  BY DEF CopyLiterals, Running, InBlock, IndInv, DecoderInv
<1>2. PICK k \in 1..Len(trail) : Decoding(trail[k])
  BY <1>1 DEF IndInv, DecoderInv, InBlock
<1> DEFINE s == trail[k]
           c == Count(s)
           l == LiteralsAt(s)
           o == OffsetAt(s)
           z == EndAt(s)
           t == Taken
           b == Len(block)
           from == s.from
           to == s.to
<1>3. s \in Sequences /\ Sound(data, s) /\ Carries(data, block, s) /\ data \in Seq(Nat)
  BY SequenceBounds, OutFacts DEF IndInv
<1>4. at = l /\ length = c /\ token = Token(s) /\ Len(out) = from
  BY <1>1, <1>2 DEF Decoding
<1>5. /\ l \in Nat \ {0} /\ o \in Nat /\ z \in Nat /\ o = l + c /\ o <= z /\ b \in Nat /\ size \in Nat /\ n \in Nat
      /\ c \in Nat /\ from \in Nat /\ to \in Nat /\ to <= n /\ from + c = to
  <2>1. l \in Nat /\ o \in Nat /\ z \in Nat /\ o = l + c /\ o <= z
        /\ l = s.at + 1 + Extenders(c) /\ Extenders(c) \in Nat
    BY <1>3, Places
  <2>2. c \in Nat /\ from \in Nat /\ to \in Nat /\ to <= n /\ from + c = to /\ s.at \in Nat
    BY <1>3, SoundCounts DEF n
  <2>3. l # 0
    <3> DEFINE e == Extenders(c)
               p == s.at
    <3>1. l = p + 1 + e /\ e \in Nat /\ p \in Nat
      BY <2>1, <2>2
    <3> HIDE DEF l, e, p
    <3> QED BY <3>1
  <2> QED BY <2>1, <2>2, <2>3, OutFacts
<1>6. /\ t \in Nat /\ t <= c /\ from + t <= size /\ (from + t < size => t = c)
  <2>1. t = Lesser(c, size - from)
    BY <1>4 DEF Taken
  <2>2. from < size
    BY <1>1, <1>4
  <2>3. c \in Nat /\ from \in Nat /\ size \in Nat
    BY <1>5
  <2> HIDE DEF t, c, from
  <2> QED BY <2>1, <2>2, <2>3, TakenBounds
<1>7. CASE at + t > b + 1
  <2>1. End("corrupt")
    BY <1>1, <1>7 DEF CopyLiterals
  <2>2. ~whole
    <3> DEFINE p == l + t
    <3>1. p \in Nat /\ p <= z /\ p > b + 1
      <4>1. l + t > b + 1
        BY <1>4, <1>7
      <4> HIDE DEF l, t, b, o, z, c
      <4> QED BY <1>5, <1>6, <4>1
    <3> HIDE DEF p
    <3> QED BY <3>1, PastEnd
  <2>3. IndInv'
    BY <1>1, <2>1, <2>2, EndKeeps
  <2>4. Len(out') >= Len(out)
    BY <2>1, OutFacts DEF End
  <2> QED BY <2>3, <2>4
<1>8. CASE ~(at + t > b + 1)
  <2>1. ASSUME NEW i \in 1..t PROVE block[l + i - 1] = [kind |-> "literal", value |-> data[from + i]]
    <3>1. i \in 1..c /\ l + i - 1 <= b
      <4>1. ~(l + t > b + 1)
        BY <1>4, <1>8
      <4> HIDE DEF l, t, b, o, z, c
      <4> QED BY <1>5, <1>6, <4>1
    <3>2. Has(block, l + i - 1, "literal", data[from + i])
      BY <1>3, <3>1 DEF Carries, HasLiterals
    <3> QED BY <3>1, <3>2 DEF Has
  <2>2. ~(\E i \in 0..(t - 1) : block[at + i].kind # "literal")
    <3> SUFFICES ASSUME NEW i \in 0..(t - 1) PROVE block[at + i].kind = "literal"
      OBVIOUS
    <3>1. i + 1 \in 1..t /\ at + i = l + (i + 1) - 1
      <4>1. at = l
        BY <1>4
      <4> HIDE DEF l, t
      <4> QED BY <1>5, <1>6, <4>1
    <3>2. block[l + (i + 1) - 1] = [kind |-> "literal", value |-> data[from + (i + 1)]]
      BY <2>1, <3>1
    <3> QED BY <3>1, <3>2
  <2>3. /\ out' = out \o [i \in 1..t |-> block[at + i - 1].value] /\ pc' = "offset"
        /\ UNCHANGED <<stored, token, offset, status>> /\ at' = at + length /\ length' = length
    BY <1>8, <2>2 DEF CopyLiterals, Produce
  <2>4. [i \in 1..t |-> block[at + i - 1].value] = [i \in 1..t |-> data[from + i]]
    <3>1. ASSUME NEW i \in 1..t PROVE block[at + i - 1].value = data[from + i]
      <4>1. at = l
        BY <1>4
      <4>2. block[l + i - 1] = [kind |-> "literal", value |-> data[from + i]]
        BY <2>1
      <4> HIDE DEF l
      <4> QED BY <4>1, <4>2
    <3> HIDE DEF t, from
    <3> QED BY <3>1
  <2>5. out = SubSeq(data, 1, from)
    BY <1>4 DEF IndInv, OutInv
  <2>6. from + t \in Nat /\ from + t <= n
    <3> HIDE DEF from, t, c, to
    <3> QED BY <1>5, <1>6
  <2>7. out' = SubSeq(data, 1, from + t)
    <3>1. from \in Nat /\ t \in Nat /\ from + t <= Len(data)
      BY <1>5, <1>6, <2>6 DEF n
    <3>2. out' = SubSeq(data, 1, from) \o [i \in 1..t |-> data[from + i]]
      BY <2>3, <2>4, <2>5
    <3> HIDE DEF from, t
    <3> QED BY <1>3, <3>1, <3>2, LiteralsExtendPrefix
  <2>8. from + t = n => whole
    <3> SUFFICES ASSUME from + t = n PROVE whole
      OBVIOUS
    <3>1. t = c /\ to = n
      <4> HIDE DEF from, t, c, to
      <4> QED BY <1>5, <1>6
    <3>2. s.len = 0
      <4> SUFFICES ASSUME s.len # 0 PROVE FALSE
        OBVIOUS
      <4> DEFINE len == s.len
      <4>1. to + len + LastLiterals <= n /\ len \in Nat
        <5>1. len \in Nat
          BY <1>3 DEF Sequences
        <5>2. to + len + LastLiterals <= n
          BY <1>3 DEF Sound, n
        <5> QED BY <5>1, <5>2
      <4> HIDE DEF to, len
      <4> QED BY <1>5, <3>1, <4>1, Lz4BlockAssumption
    <3>3. BlockEnd = z /\ z = o
      BY <1>1, <1>3, <3>2, FinalSequence, Places DEF InBlock
    <3>4. b + 1 <= BlockEnd /\ (whole <=> b + 1 = BlockEnd)
      BY DEF IndInv, StageInv
    <3>5. b + 1 = o
      <4>1. ~(l + c > b + 1) /\ b + 1 <= o
        BY <1>4, <1>8, <3>1, <3>3, <3>4
      <4> HIDE DEF l, c, b, o, z
      <4> QED BY <1>5, <4>1
    <3> QED BY <3>3, <3>4, <3>5
  <2>9. ASSUME from + t < size PROVE Decoding(s)'
    <3>1. t = c /\ from + t = to
      <4>1. t = c
        BY <1>6, <2>9
      <4> QED BY <1>5, <4>1
    <3>2. Len(out') = to
      <4>1. to \in Nat /\ to <= Len(data) /\ out' = SubSeq(data, 1, to)
        BY <1>5, <2>7, <3>1 DEF n
      <4> HIDE DEF to
      <4> QED BY <1>3, <4>1, PrefixType
    <3>3. at' = o /\ token' = Token(s)
      BY <1>4, <1>5, <2>3
    <3>4. s' = s
      BY <2>3 DEF stored, encoderVars
    <3>5. OffsetAt(s)' = OffsetAt(s) /\ Token(s)' = Token(s) /\ s.to' = s.to
      BY <3>4
    <3> HIDE DEF s
    <3> QED BY <2>3, <3>2, <3>3, <3>4, <3>5 DEF Decoding
  <2>10. from + t < size => \E q \in 1..Len(trail) : Decoding(trail[q])'
    BY <2>9
  <2>11. from + t <= size /\ UNCHANGED stored /\ status' = status
    BY <1>6, <2>3
  <2> DEFINE m == from + t
  <2>12. m \in Nat /\ m <= size /\ m <= n /\ out' = SubSeq(data, 1, m) /\ (m = n => whole)
         /\ (m < size => \E q \in 1..Len(trail) : Decoding(trail[q])')
    BY <2>6, <2>7, <2>8, <2>10, <2>11
  <2>13. m >= Len(out)
    <3>1. Len(out) = from /\ from \in Nat /\ t \in Nat
      BY <1>4, <1>5, <1>6
    <3> HIDE DEF from, t
    <3> QED BY <3>1
  <2> HIDE DEF m
  <2>14. IndInv' /\ Len(out') = m
    BY <1>1, <2>3, <2>11, <2>12, OutputKeeps
  <2> QED BY <2>13, <2>14
<1> QED BY <1>7, <1>8

LEMMA OffsetStep == IndInv /\ ReadOffset => IndInv'
<1> SUFFICES ASSUME IndInv, ReadOffset PROVE IndInv'
  OBVIOUS
<1>1. InBlock /\ pc = "offset" /\ Len(out) < size
  BY DEF ReadOffset, Running, InBlock
<1>2. PICK k \in 1..Len(trail) : Decoding(trail[k])
  BY <1>1 DEF IndInv, DecoderInv, InBlock
<1> DEFINE s == trail[k]
           o == OffsetAt(s)
           z == EndAt(s)
           b == Len(block)
           c == Extra(s)
           x == Extenders(c)
<1>3. s \in Sequences /\ Sound(data, s) /\ Carries(data, block, s) /\ data \in Seq(Nat)
  BY SequenceBounds, OutFacts DEF IndInv
<1>4. at = o /\ token = Token(s) /\ Len(out) = s.to
  BY <1>1, <1>2 DEF Decoding
<1>5. o \in Nat /\ z \in Nat /\ b \in Nat /\ b + 1 <= BlockEnd
  BY <1>3, Places, OutFacts DEF IndInv, StageInv
<1>6. CASE s.len = 0
  <2>1. s.to = n /\ BlockEnd = o
    BY <1>1, <1>3, <1>6, FinalSequence, Places DEF InBlock
  <2>2. at + 2 > b + 1
    <3>1. b + 1 <= o /\ at = o
      BY <1>4, <1>5, <2>1
    <3> HIDE DEF b, o
    <3> QED BY <1>5, <3>1
  <2>3. End("corrupt")
    BY <2>2 DEF ReadOffset, Expect
  <2>4. size > n
    BY <1>1, <1>4, <2>1, OutFacts
  <2> QED BY <1>1, <2>3, <2>4, EndKeeps
<1>7. CASE s.len # 0
  <2>1. z = o + 2 + x /\ x \in Nat /\ c \in Nat
    BY <1>3, <1>7, Places, SoundCounts
  <2>2. CASE at + 2 > b + 1
    <3>1. End("corrupt")
      BY <2>2 DEF ReadOffset, Expect
    <3>2. ~whole
      <4> DEFINE p == o + 2
      <4>1. p \in Nat /\ p <= z /\ p > b + 1
        <5>1. o + 2 > b + 1
          BY <1>4, <2>2
        <5> HIDE DEF o, b, z, x
        <5> QED BY <1>5, <2>1, <5>1
      <4> HIDE DEF p
      <4> QED BY <4>1, PastEnd
    <3> QED BY <1>1, <3>1, <3>2, EndKeeps
  <2>3. CASE ~(at + 2 > b + 1)
    <3>1. block[at] = [kind |-> "offset", value |-> s.dist]
      <4>1. o <= b
        <5>1. ~(o + 2 > b + 1)
          BY <1>4, <2>3
        <5> HIDE DEF o, b
        <5> QED BY <1>5, <5>1
      <4> QED BY <1>3, <1>4, <1>7, <4>1 DEF Carries, HasMatch, Has
    <3>2. ~(s.dist = 0 \/ s.dist > Len(out))
      <4>1. s.dist \in 1..MaxOffset /\ s.dist <= s.to
        BY <1>3, <1>7 DEF Sound
      <4> QED BY <1>3, <1>4, <4>1, Lz4BlockAssumption DEF Sequences
    <3>3. /\ offset' = s.dist /\ length' = Token(s).match /\ at' = at + 2
          /\ pc' = IF Token(s).match = TokenMax THEN "matchLength" ELSE "match"
          /\ UNCHANGED <<stored, token, out, status>>
      BY <1>4, <2>3, <3>1, <3>2 DEF ReadOffset, Expect, Value
    <3>4. Token(s).match = Lesser(c, TokenMax)
      BY <1>7 DEF Token, Extra
    <3>5. s' = s
      BY <3>3 DEF stored, encoderVars
    <3>6. pc' = "matchLength" => Extending(at', length', c, o + 1)
      <4> SUFFICES ASSUME pc' = "matchLength" PROVE Extending(at', length', c, o + 1)
        OBVIOUS
      <4>1. length' = TokenMax /\ c >= TokenMax
        BY <2>1, <3>3, <3>4, Lz4BlockAssumption DEF Lesser
      <4>2. 0 \in 0..(x - 1)
        <5> HIDE DEF c
        <5> QED BY <2>1, <4>1, ExtendersType
      <4>3. at' = o + 1 + 1 + 0 /\ length' = TokenMax + 0 * Continue /\ 0 * Continue <= c - TokenMax
        <5> HIDE DEF c, o
        <5> QED BY <1>4, <1>5, <2>1, <3>3, <4>1, Lz4BlockAssumption
      <4> HIDE DEF c, o
      <4> QED BY <4>2, <4>3 DEF Extending
    <3>7. pc' = "match" => at' = z /\ length' = c
      <4> SUFFICES ASSUME pc' = "match" PROVE at' = z /\ length' = c
        OBVIOUS
      <4>1. length' = c /\ c < TokenMax
        BY <2>1, <3>3, <3>4, Lz4BlockAssumption DEF Lesser
      <4>2. x = 0
        BY <4>1 DEF Extenders
      <4> HIDE DEF c, x, o, z
      <4> QED BY <1>4, <1>5, <2>1, <3>3, <4>1, <4>2
    <3>8. Decoding(s)'
      <4>1. Len(out') = s.to /\ pc' \in {"matchLength", "match"} /\ token' = Token(s) /\ offset' = s.dist
        BY <1>4, <3>3
      <4>2. EndAt(s)' = EndAt(s) /\ Extra(s)' = Extra(s) /\ OffsetAt(s)' = OffsetAt(s) /\ Token(s)' = Token(s)
        BY <3>5
      <4> HIDE DEF s
      <4> QED BY <1>7, <3>5, <3>6, <3>7, <4>1, <4>2 DEF Decoding
    <3> QED BY <1>1, <3>3, <3>8, MoveKeeps
  <2> QED BY <2>2, <2>3
<1> QED BY <1>6, <1>7

LEMMA RepeatsLess ==
  ASSUME NEW f, NEW p, NEW off, NEW len \in Nat, NEW t \in Nat, t <= len, RepeatsAfter(f, p, off, len)
  PROVE  RepeatsAfter(f, p, off, t)
BY DEF RepeatsAfter

LEMMA MatchedStep == IndInv /\ CopyMatched => IndInv' /\ Len(out') >= Len(out)
<1> SUFFICES ASSUME IndInv, CopyMatched PROVE IndInv' /\ Len(out') >= Len(out)
  OBVIOUS
<1>1. InBlock /\ pc = "match" /\ Len(out) < size
  BY DEF CopyMatched, Running, InBlock, IndInv, DecoderInv
<1>2. PICK k \in 1..Len(trail) : Decoding(trail[k])
  BY <1>1 DEF IndInv, DecoderInv, InBlock
<1> DEFINE s == trail[k]
           to == s.to
           len == s.len
           t == Lesser(length + MinMatch, size - Len(out))
<1>3. s \in Sequences /\ Sound(data, s) /\ data \in Seq(Nat)
  BY SequenceBounds, OutFacts DEF IndInv
<1>4. at = EndAt(s) /\ length = Extra(s) /\ len # 0 /\ offset = s.dist /\ Len(out) = to
  BY <1>1, <1>2 DEF Decoding
<1>5. /\ to \in Nat /\ len \in Nat /\ length + MinMatch = len /\ s.dist \in Nat
      /\ to + len + LastLiterals <= n /\ n \in Nat /\ size \in Nat /\ to <= n
      /\ s.dist \in 1..to /\ RepeatsAfter(data, to, s.dist, len)
  <2>1. to \in Nat /\ len \in Nat /\ Extra(s) + MinMatch = len /\ to <= n /\ s.dist \in Nat
    BY <1>3, <1>4, SoundCounts DEF n
  <2>2. to + len + LastLiterals <= n /\ s.dist \in 1..MaxOffset /\ s.dist <= to /\ RepeatsAfter(data, to, s.dist, len)
    BY <1>3, <1>4 DEF Sound, n
  <2>3. s.dist \in 1..to
    BY <2>1, <2>2, Lz4BlockAssumption
  <2> QED BY <1>4, <2>1, <2>2, <2>3, OutFacts
<1>6. t \in Nat /\ t <= len /\ to + t <= size /\ (to + t < size => t = len)
  <2>1. t = Lesser(len, size - to) /\ to < size
    BY <1>1, <1>4, <1>5
  <2> HIDE DEF t, len, to
  <2> QED BY <1>5, <2>1, TakenBounds
<1>7. /\ out' = CopyMatch(out, offset, t) /\ pc' = "token" /\ UNCHANGED <<stored, token, offset, status>>
      /\ at' = at
  BY DEF CopyMatched, Produce
<1>8. to + t \in Nat /\ to + t < n
  <2> HIDE DEF to, t, len
  <2> QED BY <1>5, <1>6, Lz4BlockAssumption
<1>9. out' = SubSeq(data, 1, to + t)
  <2>1. out = SubSeq(data, 1, to)
    BY <1>4 DEF IndInv, OutInv
  <2>2. RepeatsAfter(data, to, s.dist, t)
    <3> DEFINE d == s.dist
    <3>1. RepeatsAfter(data, to, d, len) /\ len \in Nat /\ t \in Nat /\ t <= len
      BY <1>5, <1>6
    <3> HIDE DEF d, to, t, len
    <3>2. RepeatsAfter(data, to, d, t)
      BY <3>1, RepeatsLess
    <3> QED BY <3>2 DEF d
  <2> DEFINE d == s.dist
  <2>3. to \in 0..Len(data) /\ d \in 1..to /\ to + t <= Len(data) /\ RepeatsAfter(data, to, d, t)
        /\ offset = d
    <3>1. to \in Nat /\ to <= Len(data) /\ Len(data) \in Nat
      BY <1>5 DEF n
    <3>2. to + t <= Len(data)
      BY <1>5, <1>8 DEF n
    <3>3. to \in 0..Len(data)
      <4> HIDE DEF to
      <4> QED BY <3>1
    <3> QED BY <1>4, <1>5, <2>2, <3>2, <3>3
  <2> HIDE DEF to, t, d
  <2> QED BY <1>3, <1>6, <1>7, <2>1, <2>3, CopyExtendsPrefix
<1>10. ASSUME to + t < size PROVE \E q \in 1..Len(trail) : Decoding(trail[q])'
  <2>1. k + 1 \in 1..Len(trail) /\ k \in 1..(Len(trail) - 1)
    <3>1. k + 1 \in 1..Len(trail)
      BY <1>1, <1>4, FinalSequence DEF InBlock
    <3>2. Len(trail) \in Nat
      BY DEF IndInv, TrailInv
    <3> QED BY <3>1, <3>2
  <2>2. trail[k + 1].at = EndAt(s) /\ trail[k + 1].from = to + len
    BY <2>1 DEF IndInv, TrailInv
  <2>3. t = len
    BY <1>6, <1>10
  <2>4. Len(out') = to + t
    <3> DEFINE m == to + t
    <3>1. m \in Nat /\ m <= Len(data) /\ out' = SubSeq(data, 1, m)
      BY <1>5, <1>8, <1>9 DEF n
    <3> HIDE DEF m
    <3>2. Len(out') = m
      BY <1>3, <3>1, PrefixType
    <3> QED BY <3>2 DEF m
  <2>5. trail' = trail
    BY <1>7 DEF stored, encoderVars
  <2>6. Decoding(trail[k + 1])'
    <3>1. trail'[k + 1].at = at' /\ trail'[k + 1].from = Len(out')
      BY <1>4, <1>7, <2>2, <2>3, <2>4, <2>5
    <3> QED BY <1>7, <3>1 DEF Decoding
  <2> QED BY <2>1, <2>6
<1> DEFINE m == to + t
<1>11. m \in Nat /\ m <= size /\ m <= n /\ out' = SubSeq(data, 1, m) /\ (m = n => whole)
       /\ (m < size => \E q \in 1..Len(trail) : Decoding(trail[q])')
  <2>1. m \in Nat /\ m < n /\ m <= size /\ n \in Nat
    BY <1>5, <1>6, <1>8
  <2>2. out' = SubSeq(data, 1, m) /\ (m < size => \E q \in 1..Len(trail) : Decoding(trail[q])')
    BY <1>9, <1>10
  <2>3. m <= n /\ m # n
    <3> HIDE DEF m
    <3> QED BY <2>1
  <2> QED BY <2>1, <2>2, <2>3
<1>12. m >= Len(out)
  <2>1. Len(out) = to /\ to \in Nat /\ t \in Nat
    BY <1>4, <1>5, <1>6
  <2> HIDE DEF to, t
  <2> QED BY <2>1
<1> HIDE DEF m
<1>13. IndInv' /\ Len(out') = m
  BY <1>1, <1>7, <1>11, OutputKeeps
<1> QED BY <1>12, <1>13

LEMMA NextKeeps == IndInv /\ [Next]_vars => IndInv'
<1> SUFFICES ASSUME IndInv, [Next]_vars PROVE IndInv'
  OBVIOUS
<1>1. CASE Compress
  BY <1>1, AdvanceStep, MatchStep, LastStep, StoreStep DEF Compress
<1>2. CASE Decompress
  BY <1>2, ReturnStep, TokenStep, LiteralLengthStep, LiteralsStep, OffsetStep, MatchLengthStep, MatchedStep
     DEF Decompress
<1>3. CASE UNCHANGED vars
  <2>1. UNCHANGED <<data, size, pos, anchor, block, trail, whole, at, token, length, offset, out, pc, status>>
    BY <1>3 DEF vars, encoderVars, decoderVars
  <2>2. n' = n
    BY <2>1 DEF n
  <2>3. EncoderInv' /\ OutInv'
    BY <2>1, <2>2 DEF IndInv, EncoderInv, OutInv
  <2>4. TrailInv' /\ BlockEnd' = BlockEnd /\ Final' = Final /\ Covered' = Covered
    BY <2>1, TrailLeftAlone DEF IndInv
  <2>5. StageInv'
    BY <2>1, <2>2, <2>4 DEF IndInv, StageInv
  <2>6. DecoderInv'
    <3>1. ASSUME NEW k \in 1..Len(trail), Decoding(trail[k]) PROVE Decoding(trail[k])'
      <4>1. trail[k]' = trail[k]
        BY <2>1
      <4> QED BY <2>1, <3>1, <4>1 DEF Decoding
    <3> QED BY <2>1, <3>1 DEF IndInv, DecoderInv
  <2> QED BY <2>3, <2>4, <2>5, <2>6 DEF IndInv
<1> QED BY <1>1, <1>2, <1>3 DEF Next, Stopped

----------------------------------------------------------------------------

(***************************************************************************)
(* Every byte of a block holds a number that fits it.                      *)
(***************************************************************************)
LEMMA BytesFit ==
  ASSUME NEW b \in BlockBytes
  PROVE  Fits(b)
BY DEF BlockBytes, Fits

LEMMA RulesFollow == IndInv => EndOfBlockRules
<1> SUFFICES ASSUME IndInv PROVE EndOfBlockRules
  OBVIOUS
<1>1. ASSUME NEW i \in 1..Len(block) PROVE Fits(block[i])
  <2>1. block[i] \in BlockBytes
    BY DEF IndInv, EncoderInv
  <2> QED BY <2>1, BytesFit
<1>2. ASSUME NEW k \in 1..Len(trail), trail[k].len # 0
      PROVE  /\ trail[k].to + MfLimit <= n /\ trail[k].to + trail[k].len + LastLiterals <= n
             /\ trail[k].len >= MinMatch
  <2>1. Sound(data, trail[k])
    BY DEF IndInv, TrailInv
  <2> QED BY <1>2, <2>1 DEF Sound, n
<1> QED BY <1>1, <1>2 DEF EndOfBlockRules

LEMMA NeverShortFollows == IndInv => NeverShort
<1> SUFFICES ASSUME IndInv, status = "done" PROVE NeverShort
  BY DEF NeverShort
<1>1. Len(out) = size /\ Len(out) <= n /\ out = SubSeq(data, 1, Len(out)) /\ (Len(out) = n /\ n > 0 => whole)
  BY DEF IndInv, OutInv
<1>2. n \in Nat /\ size \in Nat
  BY OutFacts
<1> QED BY <1>1, <1>2 DEF NeverShort

(***************************************************************************)
(* Whatever the plaintext, compress_block makes a block other decoders can *)
(* read: no match starts or ends too near the end, none is too short or    *)
(* reaches back too far, and every number fits where it is put.            *)
(***************************************************************************)
THEOREM BlocksFollowTheRules == Spec => []EndOfBlockRules
<1>1. Init => IndInv
  BY InitEstablishes
<1>2. IndInv /\ [Next]_vars => IndInv'
  BY NextKeeps
<1>3. IndInv => EndOfBlockRules
  BY RulesFollow
<1> QED BY <1>1, <1>2, <1>3, PTL DEF Spec

(***************************************************************************)
(* What decompress_block returns is what it was asked for, from the block  *)
(* of any plaintext and from what is left of one that lost its end.        *)
(***************************************************************************)
THEOREM NothingReturnedShort == Spec => []NeverShort
<1>1. Init => IndInv
  BY InitEstablishes
<1>2. IndInv /\ [Next]_vars => IndInv'
  BY NextKeeps
<1>3. IndInv => NeverShort
  BY NeverShortFollows
<1> QED BY <1>1, <1>2, <1>3, PTL DEF Spec

----------------------------------------------------------------------------
(* The codec implements LosslessCodec *)

LEMMA WantedFacts ==
  ASSUME IndInv
  PROVE  /\ Wanted \in Seq(Nat) /\ Len(Wanted) = size
         /\ \A m \in 0..size : m <= n => SubSeq(Wanted, 1, m) = SubSeq(data, 1, m)
<1>1. data \in Seq(Nat) /\ n \in Nat /\ size \in Nat /\ n = Len(data)
  BY OutFacts DEF n
<1> DEFINE w == Wanted
<1>2. w = [i \in 1..size |-> IF i <= n THEN data[i] ELSE 0]
  BY DEF Wanted
<1>3. ASSUME NEW i \in 1..size PROVE (IF i <= n THEN data[i] ELSE 0) \in Nat
  BY <1>1
<1> HIDE DEF w
<1>4. w \in [1..size -> Nat]
  BY <1>2, <1>3
<1>5. w \in Seq(Nat) /\ Len(w) = size
  BY <1>1, <1>4
<1>6. ASSUME NEW m \in 0..size, m <= n PROVE SubSeq(w, 1, m) = SubSeq(data, 1, m)
  <2>1. m \in Nat /\ m <= Len(w) /\ m <= Len(data)
    BY <1>1, <1>5, <1>6
  <2>2. /\ SubSeq(w, 1, m) \in Seq(Nat) /\ Len(SubSeq(w, 1, m)) = m
        /\ \A i \in 1..m : SubSeq(w, 1, m)[i] = w[i]
    BY <1>5, <2>1, PrefixType
  <2>3. /\ SubSeq(data, 1, m) \in Seq(Nat) /\ Len(SubSeq(data, 1, m)) = m
        /\ \A i \in 1..m : SubSeq(data, 1, m)[i] = data[i]
    BY <1>1, <2>1, PrefixType
  <2>4. \A i \in 1..m : w[i] = data[i]
    BY <1>1, <1>2, <1>6
  <2> QED BY <2>2, <2>3, <2>4, SeqEqual
<1> QED BY <1>5, <1>6 DEF w

LEMMA InitImplements == Init => Promise!Init
<1> SUFFICES ASSUME Init PROVE Promise!Init
  OBVIOUS
<1>1. IndInv
  BY InitEstablishes
<1>2. Wanted \in Seq(Nat) /\ Len(data) \in Nat
  BY <1>1, WantedFacts, OutFacts DEF n
<1> QED BY <1>2 DEF Init, Promise!Init

(***************************************************************************)
(* A step that neither produces nor ends is no step of the promise.        *)
(***************************************************************************)
LEMMA QuietStep ==
  ASSUME UNCHANGED <<data, size, whole, out, status>>
  PROVE  UNCHANGED Promise!vars
<1>1. Wanted' = Wanted
  BY DEF Wanted, n
<1> QED BY <1>1 DEF Promise!vars

(***************************************************************************)
(* Losing the end of the block is the damage the promise allows for.       *)
(***************************************************************************)
LEMMA StoreImplements == IndInv /\ Store => Promise!Next
<1> SUFFICES ASSUME IndInv, Store PROVE Promise!Next
  OBVIOUS
<1>1. UNCHANGED <<data, size, out, status>> /\ pc = "store" /\ whole' \in BOOLEAN
  BY DEF Store, decoderVars
<1>2. whole /\ out = << >> /\ status = "working"
  BY <1>1 DEF IndInv, StageInv
<1>3. Wanted' = Wanted /\ Len(data)' = Len(data)
  BY <1>1 DEF Wanted, n
<1>4. \E k \in 0..Len(Wanted) : Wanted' = SubSeq(Wanted, k + 1, Len(Wanted))
  <2>1. Wanted \in Seq(Nat) /\ Len(Wanted) \in Nat
    BY WantedFacts, OutFacts
  <2>2. Wanted = SubSeq(Wanted, 0 + 1, Len(Wanted))
    <3> DEFINE w == Wanted
    <3>1. w \in Seq(Nat)
      BY <2>1
    <3> HIDE DEF w
    <3>2. w = SubSeq(w, 0 + 1, Len(w))
      BY <3>1
    <3> QED BY <3>2 DEF w
  <2>3. 0 \in 0..Len(Wanted)
    BY <2>1
  <2> QED BY <1>3, <2>2, <2>3
<1>5. whole' \in {whole, FALSE}
  BY <1>1, <1>2, Zenon
<1>6. Promise!Damage
  BY <1>1, <1>2, <1>3, <1>4, <1>5 DEF Promise!Damage
<1> QED BY <1>6 DEF Promise!Next

(***************************************************************************)
(* Output grows as the promised plaintext, and no further than there is.   *)
(***************************************************************************)
LEMMA GrowthImplements ==
  ASSUME IndInv, IndInv', UNCHANGED <<data, size, whole, status>>, status = "working", Len(out') >= Len(out)
  PROVE  Promise!Next \/ UNCHANGED Promise!vars
<1> DEFINE k == Len(out')
           m == Len(out)
<1>1. /\ k \in Nat /\ m \in Nat /\ size \in Nat /\ n \in Nat /\ k >= m /\ k <= size /\ k <= n
      /\ out' = SubSeq(data, 1, k) /\ out = SubSeq(data, 1, m)
  <2>1. size' = size /\ n' = n /\ data' = data
    BY DEF n
  <2>2. size \in Nat /\ n \in Nat /\ m \in Nat /\ out = SubSeq(data, 1, m)
    BY OutFacts DEF IndInv, OutInv
  <2>3. out' \in Seq(Nat) /\ k <= size /\ k <= n /\ out' = SubSeq(data, 1, k)
    BY <2>1 DEF IndInv, OutInv
  <2> QED BY <2>2, <2>3
<1>2. Wanted' = Wanted /\ n = Len(data)
  BY DEF Wanted, n
<1>3. CASE k = m
  <2>1. out' = out
    BY <1>1, <1>3
  <2> QED BY <2>1, QuietStep
<1>4. CASE k # m
  <2>1. SubSeq(Wanted, 1, k) = SubSeq(data, 1, k) /\ Len(Wanted) = size
    BY <1>1, WantedFacts
  <2>2. k \in (m + 1)..size
    <3> HIDE DEF k, m
    <3> QED BY <1>1, <1>4
  <2>3. \E j \in (Len(out) + 1)..Len(Wanted) : j <= Len(data) /\ out' = SubSeq(Wanted, 1, j)
    BY <1>1, <1>2, <2>1, <2>2
  <2>4. Promise!Produce
    BY <1>2, <2>3 DEF Promise!Produce
  <2> QED BY <2>4 DEF Promise!Next
<1> QED BY <1>3, <1>4

(***************************************************************************)
(* The call returns what was asked for, or refuses to give more than there *)
(* is, or fails on a block that lost its end.                              *)
(***************************************************************************)
LEMMA EndImplements ==
  ASSUME IndInv, IndInv', status = "working", NEW verdict, End(verdict), verdict \in {"done", "corrupt"}
  PROVE  Promise!Next
<1>1. UNCHANGED <<data, size, whole, out>> /\ status' = verdict
  BY DEF End, stored
<1>2. Wanted' = Wanted /\ n' = n /\ n = Len(data) /\ Len(Wanted) = size
  BY <1>1, WantedFacts DEF Wanted, n
<1>3. CASE verdict = "done"
  <2>1. Len(out) = size
    BY <1>1, <1>3 DEF IndInv, OutInv
  <2>2. out = SubSeq(Wanted, 1, size)
    <3>1. out = SubSeq(data, 1, size) /\ size <= n /\ size \in 0..size
      BY <2>1, OutFacts DEF IndInv, OutInv
    <3> QED BY <3>1, WantedFacts
  <2>3. out = Wanted
    <3> DEFINE w == Wanted
    <3>1. w \in Seq(Nat) /\ Len(w) = size /\ out = SubSeq(w, 1, size)
      BY <2>2, WantedFacts
    <3> HIDE DEF w
    <3>2. out = w
      BY <3>1
    <3> QED BY <3>2 DEF w
  <2>4. Promise!Return
    BY <1>1, <1>2, <1>3, <2>3 DEF Promise!Return, Promise!End
  <2> QED BY <2>4 DEF Promise!Next
<1>4. CASE verdict = "corrupt" /\ whole
  <2>1. size > n
    BY <1>1, <1>2, <1>4 DEF IndInv, OutInv
  <2>2. Promise!Refuse
    BY <1>1, <1>2, <1>4, <2>1 DEF Promise!Refuse, Promise!End
  <2> QED BY <2>2 DEF Promise!Next
<1>5. CASE verdict = "corrupt" /\ ~whole
  <2>1. Promise!Fail
    BY <1>1, <1>2, <1>5 DEF Promise!Fail, Promise!End
  <2> QED BY <2>1 DEF Promise!Next
<1> QED BY <1>3, <1>4, <1>5

\* decompress_block's steps stop, go on reading, or produce.
LEMMA DecoderCases ==
  ASSUME IndInv, IndInv', Decompress
  PROVE  \/ \E verdict \in {"done", "corrupt"} : End(verdict)
         \/ UNCHANGED <<data, size, whole, out, status>>
         \/ UNCHANGED <<data, size, whole, status>> /\ Len(out') >= Len(out)
<1>1. status' # "garbled"
  BY DEF IndInv, OutInv
<1>2. CASE ReturnEnough
  BY <1>2 DEF ReturnEnough
<1>3. CASE ReadToken
  BY <1>1, <1>3 DEF ReadToken, Expect, End, stored
<1>4. CASE ReadLiteralLength
  BY <1>1, <1>4 DEF ReadLiteralLength, ReadLength, Expect, End, stored
<1>5. CASE ReadMatchLength
  BY <1>1, <1>5 DEF ReadMatchLength, ReadLength, Expect, End, stored
<1>6. CASE ReadOffset
  BY <1>1, <1>6 DEF ReadOffset, Expect, End, stored
<1>7. CASE CopyLiterals
  <2>1. Len(out') >= Len(out)
    BY <1>7, LiteralsStep
  <2> QED BY <1>1, <1>7, <2>1 DEF CopyLiterals, Produce, End, stored
<1>8. CASE CopyMatched
  <2>1. Len(out') >= Len(out)
    BY <1>8, MatchedStep
  <2> QED BY <1>8, <2>1 DEF CopyMatched, Produce, stored
<1> QED BY <1>2, <1>3, <1>4, <1>5, <1>6, <1>7, <1>8 DEF Decompress

LEMMA StepImplements == IndInv /\ [Next]_vars => [Promise!Next]_(Promise!vars)
<1> SUFFICES ASSUME IndInv, [Next]_vars PROVE Promise!Next \/ UNCHANGED Promise!vars
  OBVIOUS
<1>1. IndInv'
  BY NextKeeps
<1>2. CASE Advance \/ EmitMatch \/ EmitLast \/ UNCHANGED vars
  <2>1. UNCHANGED <<data, size, whole, out, status>>
    BY <1>2 DEF Advance, EmitMatch, EmitLast, vars, decoderVars
  <2> QED BY <2>1, QuietStep
<1>3. CASE Store
  BY <1>3, StoreImplements
<1>4. CASE Decompress
  <2>1. status = "working"
    BY <1>4 DEF Decompress, ReturnEnough, ReadToken, ReadLiteralLength, CopyLiterals, ReadOffset,
                ReadMatchLength, ReadLength, CopyMatched, Running
  <2>2. CASE \E verdict \in {"done", "corrupt"} : End(verdict)
    BY <1>1, <2>1, <2>2, EndImplements
  <2>3. CASE UNCHANGED <<data, size, whole, out, status>>
    BY <2>3, QuietStep
  <2>4. CASE UNCHANGED <<data, size, whole, status>> /\ Len(out') >= Len(out)
    BY <1>1, <2>1, <2>4, GrowthImplements
  <2> QED BY <1>1, <1>4, <2>2, <2>3, <2>4, DecoderCases
<1> QED BY <1>2, <1>3, <1>4 DEF Next, Compress, Stopped

(***************************************************************************)
(* compress_block followed by decompress_block keeps the promise of        *)
(* LosslessCodec, but for its last conjunct (every call returns), for any  *)
(* plaintext, any size asked for and any cut.                              *)
(***************************************************************************)
THEOREM PromiseKept == Spec => Promise!Init /\ [][Promise!Next]_(Promise!vars)
<1>1. Init => IndInv /\ Promise!Init
  BY InitEstablishes, InitImplements
<1>2. IndInv /\ [Next]_vars => IndInv'
  BY NextKeeps
<1>3. IndInv /\ [Next]_vars => [Promise!Next]_(Promise!vars)
  BY StepImplements
<1> QED BY <1>1, <1>2, <1>3, PTL DEF Spec
============================================================================
