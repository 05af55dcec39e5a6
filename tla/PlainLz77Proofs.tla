-------------------------- MODULE PlainLz77Proofs --------------------------
(***************************************************************************)
(* Proofs about PlainLz77, for every set of plaintexts and every choice of *)
(* the format's widths: decompress stays in step with the stream compress  *)
(* wrote, gives back the plaintext, and refuses a framed cell that lost    *)
(* its end.                                                                *)
(*                                                                         *)
(* The history marks says which elements the stream consists of.  Each is  *)
(* true of the plaintext (Sound), has its cells where they belong, as far  *)
(* as the stream reaches (Carries), has its flag in its word (HasFlag) and *)
(* is followed by the next (Follows).  The decoder is within element       *)
(* elements + 1, having produced the plaintext up to there.                *)
(***************************************************************************)
EXTENDS PlainLz77, ArithmeticLemmas, SequenceTheorems

\* The cells a stream may consist of.
StreamCells ==
  [kind : {"flags"}, value : [1..FlagBits -> {0, 1}]]
    \union [kind : {"token"}, value : 0..(MaxOffset * (TokenLimit + 1) - 1)]
    \union [kind : {"nibble"}, value : 0..((NibbleLimit + 1) * (NibbleLimit + 1) - 1)]
    \union [kind : {"byte"}, value : 0..ByteLimit]
    \union [kind : {"word"}, value : 0..(WordLimit - 1)]
    \union [kind : {"literal", "dword", "partial"}, value : Nat]

----------------------------------------------------------------------------
(* Elements and their places *)

Elements ==
  [at : Nat \ {0}, halfPos : Nat, from : Nat, word : Nat \ {0}, bit : 1..FlagBits,
   match : [len : Nat, dist : Nat]]

IsMatch(s) == s.match.len # 0
Flag(s) == IF IsMatch(s) THEN 1 ELSE 0
Width(s) == IF IsMatch(s) THEN s.match.len ELSE 1

Extra(s) == s.match.len - MinMatch
Beyond(s) == Extra(s) - TokenLimit
Long(s) == IsMatch(s) /\ Extra(s) >= TokenLimit

\* A long match: its half of a length byte, and the steps behind.
Nibble(s) == Lesser(Beyond(s), NibbleLimit)
NibbleAt(s) == IF s.halfPos = 0 THEN s.at + 1 ELSE s.halfPos
StepsAt(s) == IF s.halfPos = 0 THEN s.at + 2 ELSE s.at + 1
Steps(s) == ExtraSteps(Beyond(s))

\* The cell behind an element, and the half-used byte it leaves.
EndAt(s) == IF Long(s) THEN StepsAt(s) + Len(Steps(s)) ELSE s.at + 1
HalfAfter(s) == IF ~Long(s) THEN s.halfPos ELSE IF s.halfPos = 0 THEN s.at + 1 ELSE 0

\* The element after s begins where s ends, behind a new flag word if the
\* flag of s was the last of its own.
Follows(s, t) ==
  /\ t.from = s.from + Width(s) /\ t.halfPos = HalfAfter(s)
  /\ IF s.bit = FlagBits
     THEN t.bit = 1 /\ t.word = EndAt(s) /\ t.at = EndAt(s) + 1
     ELSE t.bit = s.bit + 1 /\ t.word = s.word /\ t.at = EndAt(s)

\* What an element says is true of the text d.
Sound(d, s) ==
  /\ s.halfPos < s.at /\ s.word < s.at
  /\ s.from + Width(s) <= Len(d)
  /\ IsMatch(s) => /\ s.match.len >= MinMatch
                   /\ s.match.dist \in 1..MaxOffset /\ s.match.dist <= s.from
                   /\ RepeatsAfter(d, s.from, s.match.dist, s.match.len)

\* As far as b reaches, it has the cells of s at their places.
Intact(b, i) == i \in 1..Len(b) /\ b[i].kind # "partial"
Has(b, i, c) == Intact(b, i) => b[i] = c

TokenValue(s) == (s.match.dist - 1) * (TokenLimit + 1) + Lesser(Extra(s), TokenLimit)
Opening(d, s) == IF IsMatch(s) THEN Cell("token", TokenValue(s)) ELSE Cell("literal", d[s.from + 1])

Half(s, v) == IF s.halfPos = 0 THEN v % (NibbleLimit + 1) ELSE v \div (NibbleLimit + 1)
HasNibble(b, s) ==
  Intact(b, NibbleAt(s)) => b[NibbleAt(s)].kind = "nibble" /\ Half(s, b[NibbleAt(s)].value) = Nibble(s)
HasSteps(b, s) == \A i \in 1..Len(Steps(s)) : Has(b, StepsAt(s) + i - 1, Steps(s)[i])

Carries(d, b, s) ==
  /\ Has(b, s.at, Opening(d, s))
  /\ Long(s) => HasNibble(b, s) /\ HasSteps(b, s)

\* Its flag stands in its word.
HasFlag(b, s, flag) ==
  Intact(b, s.word) => b[s.word].kind = "flags" /\ b[s.word].value[s.bit] = flag

\* Where the element after the last would begin.
Final == marks[Len(marks)]
StreamEnd ==
  IF marks = << >> THEN 2 ELSE IF Final.bit = FlagBits THEN EndAt(Final) + 1 ELSE EndAt(Final)
Here ==
  [at |-> StreamEnd, halfPos |-> nibblePos, from |-> pos, word |-> flagPos, bit |-> Len(flags) + 1,
   match |-> NoMatch]
Stop(k) == IF k <= Len(marks) THEN marks[k] ELSE Here
FlagOf(k) == IF k <= Len(marks) THEN Flag(marks[k]) ELSE 1

----------------------------------------------------------------------------
(* The invariant *)

EncoderInv ==
  /\ data \in Seq(Nat) /\ pos \in 0..n
  /\ limit \in Nat /\ verify \in BOOLEAN /\ (verify => limit = n)
  /\ cells \in Seq(StreamCells) /\ flags \in Seq({0, 1}) /\ Len(flags) < FlagBits
  /\ flagPos \in Nat \ {0} /\ nibblePos \in Nat

TrailInv ==
  /\ marks \in Seq(Elements)
  /\ \A k \in 1..Len(marks) :
       Sound(data, marks[k]) /\ Carries(data, cells, marks[k]) /\ Follows(marks[k], Stop(k + 1))
  /\ \A k \in 1..(Len(marks) + 1) : Stop(k).at <= Here.at
  /\ Stop(1).at = 2 /\ Stop(1).word = 1 /\ Stop(1).bit = 1 /\ Stop(1).halfPos = 0 /\ Stop(1).from = 0
  /\ flagPos < Here.at /\ nibblePos < Here.at

\* A flag is in its word, or still in flags.
FlagInv ==
  /\ \A k \in 1..Len(marks) :
       IF pc = "compress" /\ marks[k].word = flagPos
       THEN marks[k].bit <= Len(flags) /\ flags[marks[k].bit] = Flag(marks[k])
       ELSE HasFlag(cells, marks[k], Flag(marks[k]))
  /\ pc = "compress" => cells[flagPos] = Reserved
  /\ pc # "compress" => HasFlag(cells, Here, 1)

\* The half byte left open is unused, and no long match before has it.
NibbleInv ==
  /\ pc = "compress" /\ nibblePos # 0 =>
       cells[nibblePos].kind = "nibble" /\ cells[nibblePos].value <= NibbleLimit
  /\ \A k \in 1..Len(marks) :
       Long(marks[k]) /\ marks[k].halfPos # 0 => marks[k].halfPos # nibblePos

StageInv ==
  /\ pc # "compress" => pos = n
  /\ Len(cells) + 1 <= Here.at
  /\ whole => Len(cells) + 1 = Here.at /\ \A i \in 1..Len(cells) : cells[i].kind # "partial"
  /\ ~whole /\ Len(cells) + 1 = Here.at => cells # << >> /\ cells[Len(cells)].kind = "partial"
  /\ whole \in BOOLEAN
  /\ pc \in {"compress", "store"} =>
       /\ whole /\ status = "working" /\ at = 1 /\ window = << >> /\ halfPos = 0
       /\ elements = 0 /\ out = << >>

OutInv ==
  /\ Len(out) <= n /\ Len(out) <= limit /\ out = SubSeq(data, 1, Len(out))
  /\ offset \in Nat /\ length \in Nat
  /\ pc \in {"compress", "store", "flag", "nibble", "byte", "word", "dword", "copy"}
  /\ status \in {"working", "done", "refused", "corrupt"}
  /\ status = "done" => (whole => Len(out) = n) /\ (verify => whole)
  /\ status = "refused" => n > limit
  /\ status = "corrupt" => ~whole

\* The flags of s and of what follows it under the same word.
Ahead(s) ==
  /\ window \in Seq({0, 1}) /\ Len(window) = FlagBits + 1 - s.bit
  /\ Intact(cells, s.word)
  /\ \A i \in 1..Len(window) : window[i] = cells[s.word].value[s.bit + i - 1]

\* The decoder within the long match s.
InLadder(s) ==
  /\ Long(s)
  /\ pc = "nibble" => at = s.at + 1 /\ halfPos = s.halfPos /\ length = MinMatch + TokenLimit
  /\ pc # "nibble" => halfPos = HalfAfter(s) /\ Beyond(s) >= NibbleLimit
  /\ pc = "byte" => at = StepsAt(s) /\ length = MinMatch + TokenLimit + NibbleLimit
  /\ pc \in {"word", "dword"} => Beyond(s) - NibbleLimit >= ByteLimit
  /\ pc = "word" => at = StepsAt(s) + 1
  /\ pc = "dword" => at = StepsAt(s) + 2 /\ Beyond(s) + TokenLimit >= WordLimit

Decoding(s) ==
  /\ Len(out) = s.from
  /\ pc = "flag" /\ window = << >> => at = s.word /\ s.bit = 1 /\ halfPos = s.halfPos
  /\ pc = "flag" /\ window # << >> => at = s.at /\ halfPos = s.halfPos
  /\ window # << >> => Ahead(s)
  /\ pc # "flag" => elements < Len(marks) /\ window # << >> /\ IsMatch(s) /\ offset = s.match.dist
  /\ pc \in {"nibble", "byte", "word", "dword"} => InLadder(s)
  /\ pc = "copy" => at = EndAt(s) /\ halfPos = HalfAfter(s) /\ length = s.match.len

DecoderInv ==
  /\ elements \in 0..Len(marks) /\ at \in Nat \ {0} /\ halfPos \in Nat
  /\ window \in Seq({0, 1}) /\ Len(window) <= FlagBits
  /\ \A i \in 1..(at - 1) : Intact(cells, i)
  /\ pc \notin {"compress", "store"} => Decoding(Stop(elements + 1))

IndInv == EncoderInv /\ TrailInv /\ FlagInv /\ NibbleInv /\ StageInv /\ OutInv /\ DecoderInv

----------------------------------------------------------------------------
(* Elements *)

LEMMA Limits ==
  /\ MinMatch \in Nat \ {0} /\ MaxOffset \in Nat \ {0} /\ FlagBits \in Nat \ {0}
  /\ TokenLimit \in Nat \ {0} /\ NibbleLimit \in Nat \ {0} /\ ByteLimit \in Nat \ {0}
  /\ WordLimit \in Nat /\ WordLimit > TokenLimit + NibbleLimit + ByteLimit
  /\ MaxChain \in Nat \ {0}
BY PlainLz77Assumption

(***************************************************************************)
(* The steps behind the half byte of a length (_long_match).               *)
(***************************************************************************)
LEMMA LadderShape ==
  ASSUME NEW b \in Nat
  PROVE  /\ b < NibbleLimit => ExtraSteps(b) = << >>
         /\ b >= NibbleLimit /\ b - NibbleLimit < ByteLimit =>
              ExtraSteps(b) = <<Cell("byte", b - NibbleLimit)>>
         /\ b >= NibbleLimit /\ b - NibbleLimit >= ByteLimit /\ b + TokenLimit < WordLimit =>
              ExtraSteps(b) = <<Cell("byte", ByteLimit), Cell("word", b + TokenLimit)>>
         /\ b >= NibbleLimit /\ b - NibbleLimit >= ByteLimit /\ b + TokenLimit >= WordLimit =>
              ExtraSteps(b) = <<Cell("byte", ByteLimit), Cell("word", 0), Cell("dword", b + TokenLimit)>>
BY Limits DEF ExtraSteps

LEMMA LadderTyped ==
  ASSUME NEW b \in Nat
  PROVE  /\ ExtraSteps(b) \in Seq(StreamCells) /\ Len(ExtraSteps(b)) \in Nat
         /\ \A i \in 1..Len(ExtraSteps(b)) :
              /\ ExtraSteps(b)[i].kind \notin {"flags", "nibble", "partial"}
              /\ ExtraSteps(b)[i] \in StreamCells
<1>1. \A v \in 0..ByteLimit : Cell("byte", v) \in StreamCells
  BY DEF StreamCells, Cell
<1>2. \A v \in 0..(WordLimit - 1) : Cell("word", v) \in StreamCells
  BY DEF StreamCells, Cell
<1>3. \A v \in Nat : Cell("dword", v) \in StreamCells
  BY DEF StreamCells, Cell
<1>4. \A v : Cell("byte", v).kind = "byte" /\ Cell("word", v).kind = "word" /\ Cell("dword", v).kind = "dword"
  BY DEF Cell
<1>5. CASE b < NibbleLimit
  <2>1. ExtraSteps(b) = << >>
    BY <1>5, LadderShape
  <2> QED BY <2>1
<1>6. CASE b >= NibbleLimit /\ b - NibbleLimit < ByteLimit
  <2> DEFINE c == Cell("byte", b - NibbleLimit)
  <2>1. c \in StreamCells /\ c.kind = "byte"
    BY <1>1, <1>4, <1>6, Limits
  <2>2. ExtraSteps(b) = <<c>>
    BY <1>6, LadderShape
  <2> HIDE DEF c
  <2> QED BY <2>1, <2>2
<1>7. CASE b >= NibbleLimit /\ b - NibbleLimit >= ByteLimit /\ b + TokenLimit < WordLimit
  <2> DEFINE c == Cell("byte", ByteLimit)
             w == Cell("word", b + TokenLimit)
  <2>1. c \in StreamCells /\ c.kind = "byte"
    BY <1>1, <1>4, Limits
  <2>2. w \in StreamCells /\ w.kind = "word"
    BY <1>2, <1>4, <1>7, Limits
  <2>3. ExtraSteps(b) = <<c, w>>
    BY <1>7, LadderShape
  <2> HIDE DEF c, w
  <2> QED BY <2>1, <2>2, <2>3
<1>8. CASE b >= NibbleLimit /\ b - NibbleLimit >= ByteLimit /\ b + TokenLimit >= WordLimit
  <2> DEFINE c == Cell("byte", ByteLimit)
             w == Cell("word", 0)
             e == Cell("dword", b + TokenLimit)
  <2>1. c \in StreamCells /\ c.kind = "byte"
    BY <1>1, <1>4, Limits
  <2>2. w \in StreamCells /\ w.kind = "word"
    BY <1>2, <1>4, <1>8, Limits
  <2>3. e \in StreamCells /\ e.kind = "dword"
    BY <1>3, <1>4, <1>8, Limits
  <2>4. ExtraSteps(b) = <<c, w, e>>
    BY <1>8, LadderShape
  <2> HIDE DEF c, w, e
  <2> QED BY <2>1, <2>2, <2>3, <2>4
<1> QED BY <1>5, <1>6, <1>7, <1>8, Limits

\* The steps behind a half byte that is full.
LEMMA Rungs ==
  ASSUME NEW b \in Nat, b >= NibbleLimit, NEW e, e = ExtraSteps(b)
  PROVE  /\ Len(e) \in Nat /\ Len(e) >= 1
         /\ e[1] = Cell("byte", IF b - NibbleLimit < ByteLimit THEN b - NibbleLimit ELSE ByteLimit)
         /\ b - NibbleLimit < ByteLimit => Len(e) = 1
         /\ b - NibbleLimit >= ByteLimit =>
              /\ Len(e) >= 2
              /\ e[2] = Cell("word", IF b + TokenLimit < WordLimit THEN b + TokenLimit ELSE 0)
              /\ IF b + TokenLimit < WordLimit
                 THEN Len(e) = 2
                 ELSE Len(e) = 3 /\ e[3] = Cell("dword", b + TokenLimit)
<1>1. CASE b - NibbleLimit < ByteLimit
  <2> DEFINE c == Cell("byte", b - NibbleLimit)
  <2>1. e = <<c>>
    BY <1>1, LadderShape
  <2> HIDE DEF c
  <2>2. Len(e) = 1 /\ e[1] = c
    BY <2>1
  <2>3. ~(b - NibbleLimit >= ByteLimit)
    BY <1>1, Limits
  <2> QED BY <1>1, <2>2, <2>3 DEF c
<1>2. CASE b - NibbleLimit >= ByteLimit /\ b + TokenLimit < WordLimit
  <2> DEFINE c == Cell("byte", ByteLimit)
             w == Cell("word", b + TokenLimit)
  <2>1. e = <<c, w>>
    BY <1>2, LadderShape
  <2> HIDE DEF c, w
  <2>2. Len(e) = 2 /\ e[1] = c /\ e[2] = w
    BY <2>1
  <2>3. ~(b - NibbleLimit < ByteLimit)
    BY <1>2, Limits
  <2> QED BY <1>2, <2>2, <2>3 DEF c, w
<1>3. CASE b - NibbleLimit >= ByteLimit /\ b + TokenLimit >= WordLimit
  <2> DEFINE c == Cell("byte", ByteLimit)
             w == Cell("word", 0)
             d == Cell("dword", b + TokenLimit)
  <2>1. e = <<c, w, d>>
    BY <1>3, LadderShape
  <2> HIDE DEF c, w, d
  <2>2. Len(e) = 3 /\ e[1] = c /\ e[2] = w /\ e[3] = d
    BY <2>1
  <2>3. ~(b - NibbleLimit < ByteLimit) /\ ~(b + TokenLimit < WordLimit)
    BY <1>3, Limits
  <2> QED BY <1>3, <2>2, <2>3 DEF c, w, d
<1> QED BY <1>1, <1>2, <1>3, Limits

LEMMA ElementTyped ==
  ASSUME NEW s \in Elements
  PROVE  /\ s.at \in Nat \ {0} /\ s.halfPos \in Nat /\ s.from \in Nat /\ s.word \in Nat \ {0}
         /\ s.bit \in 1..FlagBits /\ s.match.len \in Nat /\ s.match.dist \in Nat
BY DEF Elements

(***************************************************************************)
(* An element takes up cells and stands for bytes of the text; the cells   *)
(* of a long match lie between its beginning and its end, but for the half *)
(* byte it shares with the one before.                                     *)
(***************************************************************************)
LEMMA Places ==
  ASSUME NEW d \in Seq(Nat), NEW s \in Elements, Sound(d, s)
  PROVE  /\ Width(s) \in Nat \ {0} /\ s.from < Len(d)
         /\ IsMatch(s) => Extra(s) \in Nat /\ s.match.len = Extra(s) + MinMatch
         /\ Long(s) => /\ Beyond(s) \in Nat /\ Extra(s) = Beyond(s) + TokenLimit
                       /\ NibbleAt(s) \in 1..(EndAt(s) - 1) /\ StepsAt(s) \in Nat
                       /\ EndAt(s) = StepsAt(s) + Len(Steps(s)) /\ Len(Steps(s)) \in Nat
                       /\ NibbleAt(s) < StepsAt(s) /\ s.at < StepsAt(s)
                       /\ \A i \in 1..Len(Steps(s)) : StepsAt(s) + i - 1 \in 1..(EndAt(s) - 1)
         /\ ~Long(s) => EndAt(s) = s.at + 1
         /\ EndAt(s) \in Nat /\ s.at < EndAt(s)
         /\ HalfAfter(s) \in Nat /\ HalfAfter(s) < EndAt(s)
<1>1. /\ s.at \in Nat \ {0} /\ s.halfPos \in Nat /\ s.from \in Nat /\ s.word \in Nat \ {0}
      /\ s.match.len \in Nat /\ s.match.dist \in Nat
  BY ElementTyped
<1>2. s.halfPos < s.at /\ s.from + Width(s) <= Len(d) /\ (IsMatch(s) => s.match.len >= MinMatch) /\ Len(d) \in Nat
  BY DEF Sound
<1>3. Width(s) \in Nat \ {0} /\ s.from < Len(d)
  BY <1>1, <1>2 DEF Width, IsMatch
<1>4. IsMatch(s) => Extra(s) \in Nat /\ s.match.len = Extra(s) + MinMatch
  <2> DEFINE len == s.match.len
  <2>1. len \in Nat /\ (IsMatch(s) => len >= MinMatch) /\ Extra(s) = len - MinMatch
    BY <1>1, <1>2 DEF Extra
  <2> HIDE DEF len
  <2>2. IsMatch(s) => Extra(s) \in Nat /\ len = Extra(s) + MinMatch
    BY <2>1, Limits
  <2> QED BY <2>2 DEF len
<1>5. CASE Long(s)
  <2> DEFINE b == Beyond(s)
             e == Len(Steps(s))
  <2>1. b \in Nat /\ Extra(s) = b + TokenLimit
    BY <1>4, <1>5, Limits DEF Long, Beyond
  <2>2. e \in Nat
    BY <2>1, LadderTyped DEF Steps
  <2>3. EndAt(s) = StepsAt(s) + e
    BY <1>5 DEF EndAt
  <2> HIDE DEF b, e
  <2>4. NibbleAt(s) \in Nat \ {0} /\ NibbleAt(s) < StepsAt(s) /\ StepsAt(s) \in Nat /\ s.at < StepsAt(s)
    BY <1>1, <1>2 DEF NibbleAt, StepsAt
  <2>5. HalfAfter(s) \in Nat /\ HalfAfter(s) < StepsAt(s)
    BY <1>1, <1>2, <1>5 DEF HalfAfter, StepsAt
  <2>6. \A i \in 1..e : StepsAt(s) + i - 1 \in 1..(EndAt(s) - 1)
    BY <1>1, <2>2, <2>3, <2>4
  <2>7. NibbleAt(s) \in 1..(EndAt(s) - 1) /\ EndAt(s) \in Nat /\ s.at < EndAt(s) /\ HalfAfter(s) < EndAt(s)
    BY SMTT(30), <1>1, <2>2, <2>3, <2>4, <2>5
  <2> QED BY <1>3, <1>4, <1>5, <2>1, <2>2, <2>3, <2>4, <2>5, <2>6, <2>7 DEF b, e
<1>6. CASE ~Long(s)
  <2>1. EndAt(s) = s.at + 1 /\ HalfAfter(s) = s.halfPos
    BY <1>6 DEF EndAt, HalfAfter
  <2> QED BY <1>1, <1>2, <1>3, <1>4, <1>6, <2>1
<1> QED BY <1>5, <1>6

----------------------------------------------------------------------------
(* The match finder *)

LEMMA MatchLengthBounds ==
  ASSUME NEW s, NEW a \in Nat, NEW b \in Nat, NEW most \in Nat, NEW k \in 0..most,
         Agree(s, a, b, k)
  PROVE  MatchLength(s, a, b, most) \in k..most /\ Agree(s, a, b, MatchLength(s, a, b, most))
BY FirstDifferenceBounds DEF MatchLength, FirstDifference

(***************************************************************************)
(* The match found is long enough, near enough, and says what the text     *)
(* repeats.                                                                *)
(***************************************************************************)
LEMMA FoundMatch ==
  ASSUME data \in Seq(Nat), pos \in 0..n, FindMatch # NoMatch
  PROVE  /\ FindMatch \in [len : Nat, dist : Nat]
         /\ FindMatch.len >= MinMatch /\ pos + FindMatch.len <= n
         /\ FindMatch.dist \in 1..MaxOffset /\ FindMatch.dist <= pos
         /\ RepeatsAfter(data, pos, FindMatch.dist, FindMatch.len)
<1> DEFINE near == {q \in SamePrefix(data, pos, MinMatch) : pos - q <= MaxOffset}
           cand == Newest(near, MaxChain)
           most == n - pos
           b == LastLongest(data, pos, cand, most)
           len == FirstDifference(data, b, pos, most)
<1>1. n \in Nat /\ pos \in Nat /\ most \in Nat /\ pos <= n
  BY DEF n
<1>2. FindMatch = Longest(data, pos, cand, most)
  BY DEF FindMatch
<1>3. cand # {}
  BY <1>2 DEF Longest
<1>4. FindMatch = [len |-> len, dist |-> pos - b]
  BY <1>2, <1>3 DEF Longest, LastLongest, MatchLength, FirstDifference
<1>5. \A q \in cand : q \in SamePrefix(data, pos, MinMatch) /\ pos - q <= MaxOffset
  BY DEF Newest
<1>6. pos + MinMatch <= n
  <2>1. PICK q \in cand : TRUE
    BY <1>3
  <2>2. SamePrefix(data, pos, MinMatch) # {}
    BY <1>5
  <2>3. ~(pos + MinMatch > n)
    BY <2>2 DEF SamePrefix, n
  <2> HIDE DEF n
  <2> QED BY <1>1, <2>3, Limits
<1>7. ASSUME NEW q \in cand
      PROVE  q \in 0..(pos - 1) /\ pos - q <= MaxOffset /\ Agree(data, q, pos, MinMatch)
  <2>1. q \in SamePrefix(data, pos, MinMatch)
    BY <1>5
  <2>2. q \in 0..(pos - 1) /\ \A i \in 1..MinMatch : data[q + i] = data[pos + i]
    BY <2>1 DEF SamePrefix
  <2> QED BY <1>5, <2>2 DEF Agree
<1> HIDE DEF cand, most
<1>8. MinMatch \in 0..most
  BY <1>1, <1>6, Limits DEF most
<1>9. b \in cand /\ len \in MinMatch..most /\ RepeatsAfter(data, pos, pos - b, len)
  <2>1. cand \in SUBSET (0..(pos - 1)) /\ \A q \in cand : Agree(data, q, pos, MinMatch)
    BY <1>7
  <2> QED BY <1>1, <1>3, <1>8, <2>1, LastLongestRepeats
<1>10. b \in 0..(pos - 1) /\ pos - b <= MaxOffset
  BY <1>7, <1>9
<1> HIDE DEF b, len
<1>11. len \in Nat /\ len >= MinMatch /\ pos + len <= n /\ pos - b \in 1..MaxOffset /\ pos - b <= pos /\ pos - b \in Nat
  BY <1>1, <1>9, <1>10, Limits DEF most
<1>12. FindMatch.len = len /\ FindMatch.dist = pos - b /\ FindMatch \in [len : Nat, dist : Nat]
  <2>1. FindMatch = [len |-> len, dist |-> pos - b]
    BY <1>4
  <2> QED BY <1>11, <2>1
<1> QED BY <1>9, <1>11, <1>12

----------------------------------------------------------------------------
(* The stream as it is written *)

LEMMA Replaced ==
  ASSUME NEW S, NEW a \in Seq(S), NEW k \in 1..Len(a), NEW c \in S
  PROVE  /\ [a EXCEPT ![k] = c] \in Seq(S) /\ Len([a EXCEPT ![k] = c]) = Len(a)
         /\ [a EXCEPT ![k] = c][k] = c
         /\ \A i \in 1..Len(a) : i # k => [a EXCEPT ![k] = c][i] = a[i]
OBVIOUS

LEMMA Appended ==
  ASSUME NEW S, NEW a \in Seq(S), NEW c \in S
  PROVE  /\ Append(a, c) \in Seq(S) /\ Len(Append(a, c)) = Len(a) + 1 /\ Len(a) \in Nat
         /\ Append(a, c)[Len(a) + 1] = c
         /\ \A i \in 1..Len(a) : Append(a, c)[i] = a[i]
OBVIOUS

LEMMA Joined ==
  ASSUME NEW S, NEW a \in Seq(S), NEW b \in Seq(S)
  PROVE  /\ a \o b \in Seq(S) /\ Len(a \o b) = Len(a) + Len(b)
         /\ Len(a) \in Nat /\ Len(b) \in Nat
         /\ \A i \in 1..Len(a) : (a \o b)[i] = a[i]
         /\ \A i \in 1..Len(b) : (a \o b)[Len(a) + i] = b[i]
BY ConcatProperties

(***************************************************************************)
(* Two half bytes, the second added when it is known, come apart again.    *)
(***************************************************************************)
LEMMA SharedByte ==
  ASSUME NEW v \in 0..NibbleLimit, NEW x \in Nat
  PROVE  /\ v % (NibbleLimit + 1) = v
         /\ v + (NibbleLimit + 1) * x \in Nat
         /\ (v + (NibbleLimit + 1) * x) % (NibbleLimit + 1) = v
         /\ (v + (NibbleLimit + 1) * x) \div (NibbleLimit + 1) = x
<1> DEFINE b == NibbleLimit + 1
<1>1. b \in Nat \ {0} /\ v \in 0..(b - 1) /\ v \in Nat /\ v < b
  BY Limits
<1> HIDE DEF b
<1>2. (b * x + v) % b = v /\ (b * x + v) \div b = x /\ b * x + v \in Nat
  BY <1>1, ComesApart
<1>3. b * x \in Nat /\ v + b * x = b * x + v
  BY <1>1
<1>4. v % b = v
  BY <1>1, RemainderSmall
<1> QED BY <1>2, <1>3, <1>4 DEF b

\* b is a stream being written, all of it there, with the flag word and the
\* half byte it has open.
Open(b) ==
  /\ b \in Seq(StreamCells)
  /\ \A i \in 1..Len(b) : b[i].kind # "partial"
  /\ flagPos \in 1..Len(b) /\ b[flagPos].kind = "flags"
  /\ nibblePos # 0 => /\ nibblePos \in 1..Len(b)
                      /\ b[nibblePos].kind = "nibble" /\ b[nibblePos].value \in 0..NibbleLimit

\* c is b with more behind it, and at most these two filled in.
Grown(b, c) ==
  /\ Len(b) <= Len(c)
  /\ \A i \in 1..Len(b) :
       \/ c[i] = b[i]
       \/ i = flagPos
       \/ /\ i = nibblePos /\ nibblePos # 0
          /\ c[i].kind = "nibble"
          /\ \E x \in Nat : c[i].value = b[i].value + (NibbleLimit + 1) * x

(***************************************************************************)
(* An element that stands in the stream keeps standing there while flag    *)
(* words and half bytes are filled in.                                     *)
(***************************************************************************)
LEMMA CarriesGrown ==
  ASSUME NEW d \in Seq(Nat), NEW s \in Elements, Sound(d, s), NEW b, NEW c, Open(b), Grown(b, c),
         EndAt(s) <= Len(b) + 1, Long(s) /\ s.halfPos # 0 => s.halfPos # nibblePos,
         Carries(d, b, s)
  PROVE  Carries(d, c, s)
<1>1. Len(b) \in Nat /\ b \in Seq(StreamCells) /\ \A i \in 1..Len(b) : Intact(b, i)
  BY DEF Open, Intact
<1>2. ASSUME NEW i \in 1..Len(b), b[i].kind # "flags", b[i].kind # "nibble" PROVE c[i] = b[i]
  BY <1>2 DEF Open, Grown
<1>3. ASSUME NEW i \in 1..Len(b), NEW x, x.kind # "flags", x.kind # "nibble", Has(b, i, x) PROVE Has(c, i, x)
  <2>1. b[i] = x
    BY <1>1, <1>3 DEF Has
  <2> QED BY <1>2, <1>3, <2>1 DEF Has
<1>4. /\ s.at \in Nat \ {0} /\ EndAt(s) \in Nat /\ s.at < EndAt(s)
      /\ Long(s) => /\ Beyond(s) \in Nat
                    /\ NibbleAt(s) \in 1..(EndAt(s) - 1)
                    /\ \A i \in 1..Len(Steps(s)) : StepsAt(s) + i - 1 \in 1..(EndAt(s) - 1)
  BY Places, ElementTyped
<1>5. Has(c, s.at, Opening(d, s))
  <2>1. s.at \in 1..Len(b)
    BY <1>1, <1>4
  <2>2. Opening(d, s).kind # "flags" /\ Opening(d, s).kind # "nibble"
    BY DEF Opening, Cell
  <2> QED BY <1>3, <2>1, <2>2 DEF Carries
<1>6. ASSUME Long(s) PROVE HasSteps(c, s)
  <2> SUFFICES ASSUME NEW i \in 1..Len(Steps(s)) PROVE Has(c, StepsAt(s) + i - 1, Steps(s)[i])
    BY DEF HasSteps
  <2>1. StepsAt(s) + i - 1 \in 1..Len(b)
    <3>1. StepsAt(s) + i - 1 \in 1..(EndAt(s) - 1)
      BY <1>4, <1>6
    <3> QED BY <1>1, <1>4, <3>1
  <2>2. Steps(s)[i].kind # "flags" /\ Steps(s)[i].kind # "nibble"
    BY <1>4, <1>6, LadderTyped DEF Steps
  <2>3. Has(b, StepsAt(s) + i - 1, Steps(s)[i])
    BY <1>6 DEF Carries, HasSteps
  <2> QED BY <1>3, <2>1, <2>2, <2>3
<1>7. ASSUME Long(s) PROVE HasNibble(c, s)
  <2> DEFINE p == NibbleAt(s)
  <2>1. p \in 1..Len(b)
    BY <1>1, <1>4, <1>7
  <2>2. b[p].kind = "nibble" /\ Half(s, b[p].value) = Nibble(s)
    BY <1>1, <1>7, <2>1 DEF Carries, HasNibble
  <2>3. CASE c[p] = b[p]
    BY <2>2, <2>3 DEF HasNibble
  <2>4. CASE c[p] # b[p]
    <3>0. p # flagPos
      BY <2>2 DEF Open
    <3>1. p = nibblePos /\ nibblePos # 0 /\ c[p].kind = "nibble"
      BY <2>1, <2>4, <3>0 DEF Grown
    <3>2. PICK x \in Nat : c[p].value = b[p].value + (NibbleLimit + 1) * x
      BY <2>1, <2>4, <3>0 DEF Grown
    <3>3. b[p].value \in 0..NibbleLimit
      BY <3>1 DEF Open
    <3>4. s.halfPos = 0
      BY <1>7, <3>1 DEF NibbleAt
    <3>5. Half(s, c[p].value) = Half(s, b[p].value)
      <4> DEFINE v == b[p].value
      <4>1. v \in 0..NibbleLimit /\ c[p].value = v + (NibbleLimit + 1) * x
        BY <3>2, <3>3
      <4> HIDE DEF v
      <4>2. (v + (NibbleLimit + 1) * x) % (NibbleLimit + 1) = v /\ v % (NibbleLimit + 1) = v
        BY <4>1, SharedByte
      <4> QED BY <3>4, <4>1, <4>2 DEF Half, v
    <3> QED BY <2>2, <3>1, <3>5 DEF HasNibble
  <2> QED BY <2>3, <2>4
<1> QED BY <1>5, <1>6, <1>7 DEF Carries

LEMMA FlagGrown ==
  ASSUME NEW b, NEW c, Open(b), Grown(b, c), NEW s \in Elements, NEW flag,
         s.word <= Len(b), s.word # flagPos, HasFlag(b, s, flag)
  PROVE  HasFlag(c, s, flag)
<1>1. s.word \in 1..Len(b)
  BY ElementTyped DEF Open
<1>2. b[s.word].kind = "flags" /\ b[s.word].value[s.bit] = flag
  BY <1>1 DEF Open, HasFlag, Intact
<1>3. c[s.word] = b[s.word]
  BY <1>1, <1>2 DEF Open, Grown
<1> QED BY <1>2, <1>3 DEF HasFlag

----------------------------------------------------------------------------
(* An element is written *)

\* w is the stream with the cells of s behind it, before its flag is pushed.
Writes(w, s) ==
  /\ w \in Seq(StreamCells) /\ \A i \in 1..Len(w) : w[i].kind # "partial"
  /\ Len(w) + 1 = EndAt(s)
  /\ Grown(cells, w) /\ w[flagPos] = Reserved
  /\ Carries(data, w, s)
  /\ HalfAfter(s) # 0 => w[HalfAfter(s)].kind = "nibble" /\ w[HalfAfter(s)].value \in 0..NibbleLimit

\* s is the element compress has come to.
Due(s) ==
  /\ s \in Elements /\ Sound(data, s)
  /\ s.at = Len(cells) + 1 /\ s.halfPos = nibblePos /\ s.from = pos
  /\ s.word = flagPos /\ s.bit = Len(flags) + 1

\* While compress runs, the stream is all there.
LEMMA StreamOpen ==
  ASSUME IndInv, pc = "compress"
  PROVE  /\ Open(cells) /\ Len(cells) \in Nat /\ Len(cells) + 1 = Here.at
         /\ cells[flagPos] = Reserved
         /\ \A i \in 1..Len(cells) : Intact(cells, i)
<1>1. cells \in Seq(StreamCells) /\ flagPos \in Nat \ {0} /\ nibblePos \in Nat /\ Len(cells) \in Nat
  BY DEF IndInv, EncoderInv
<1>2. whole /\ Len(cells) + 1 = Here.at /\ \A i \in 1..Len(cells) : cells[i].kind # "partial"
  BY DEF IndInv, StageInv
<1>3. flagPos < Here.at /\ nibblePos < Here.at
  BY DEF IndInv, TrailInv
<1>4. cells[flagPos] = Reserved
  BY DEF IndInv, FlagInv
<1>5. flagPos \in 1..Len(cells) /\ (nibblePos # 0 => nibblePos \in 1..Len(cells))
  BY <1>1, <1>2, <1>3
<1>6. nibblePos # 0 => cells[nibblePos].kind = "nibble" /\ cells[nibblePos].value \in 0..NibbleLimit
  <2> SUFFICES ASSUME nibblePos # 0
               PROVE  cells[nibblePos].kind = "nibble" /\ cells[nibblePos].value \in 0..NibbleLimit
    OBVIOUS
  <2>1. cells[nibblePos].kind = "nibble" /\ cells[nibblePos].value <= NibbleLimit
    BY DEF IndInv, NibbleInv
  <2>2. cells[nibblePos] \in StreamCells
    BY <1>1, <1>5
  <2>3. cells[nibblePos].value \in Nat
    BY <2>1, <2>2, Limits DEF StreamCells
  <2> QED BY <2>1, <2>3, Limits
<1>7. Reserved.kind = "flags"
  BY DEF Reserved, Cell
<1>8. Open(cells)
  BY <1>1, <1>2, <1>4, <1>5, <1>6, <1>7 DEF Open
<1> QED BY <1>1, <1>2, <1>4, <1>8 DEF Intact

LEMMA ReservedTyped == Reserved \in StreamCells /\ Reserved.kind = "flags"
BY DEF Reserved, StreamCells, Cell

\* A flag word that is full.
LEMMA WordFilled ==
  ASSUME NEW w \in Seq(StreamCells), NEW p \in 1..Len(w), w[p] = Reserved,
         NEW f \in [1..FlagBits -> {0, 1}]
  PROVE  /\ [w EXCEPT ![p].value = f] \in Seq(StreamCells) /\ Len([w EXCEPT ![p].value = f]) = Len(w)
         /\ [w EXCEPT ![p].value = f][p] = Cell("flags", f)
         /\ \A i \in 1..Len(w) : i # p => [w EXCEPT ![p].value = f][i] = w[i]
<1> DEFINE c == Cell("flags", f)
<1>1. [w EXCEPT ![p].value = f] = [w EXCEPT ![p] = c]
  <2>1. [w EXCEPT ![p].value = f] = [w EXCEPT ![p] = [w[p] EXCEPT !.value = f]]
    OBVIOUS
  <2>2. [Reserved EXCEPT !.value = f] = c
    BY DEF Reserved, Cell
  <2> QED BY <2>1, <2>2
<1>2. c \in StreamCells
  BY DEF StreamCells, Cell
<1> HIDE DEF c
<1>3. /\ [w EXCEPT ![p] = c] \in Seq(StreamCells) /\ Len([w EXCEPT ![p] = c]) = Len(w)
      /\ [w EXCEPT ![p] = c][p] = c
      /\ \A i \in 1..Len(w) : i # p => [w EXCEPT ![p] = c][i] = w[i]
  BY <1>2, Replaced
<1> QED BY <1>1, <1>3 DEF c

(***************************************************************************)
(* _push_flag: the flag goes to the others of its word, or completes them  *)
(* and the word, and the next word is reserved.                            *)
(***************************************************************************)
LEMMA Pushed ==
  ASSUME EncoderInv, NEW w \in Seq(StreamCells), \A i \in 1..Len(w) : w[i].kind # "partial",
         flagPos \in 1..Len(w), w[flagPos] = Reserved, NEW bit \in {0, 1}, PushFlag(w, bit)
  PROVE  /\ cells' \in Seq(StreamCells) /\ flags' \in Seq({0, 1}) /\ Len(flags') < FlagBits
         /\ \A i \in 1..Len(cells') : cells'[i].kind # "partial"
         /\ \A i \in 1..Len(w) : i # flagPos => cells'[i] = w[i]
         /\ cells'[flagPos'] = Reserved
         /\ IF Len(flags) + 1 = FlagBits
            THEN /\ Len(cells') = Len(w) + 1 /\ flagPos' = Len(w) + 1 /\ Len(flags') = 0
                 /\ cells'[flagPos] = Cell("flags", Append(flags, bit))
            ELSE cells' = w /\ flagPos' = flagPos /\ flags' = Append(flags, bit)
         /\ \A j \in 1..Len(flags) : Append(flags, bit)[j] = flags[j]
         /\ Append(flags, bit)[Len(flags) + 1] = bit
         /\ Len(Append(flags, bit)) = Len(flags) + 1
<1> DEFINE f == Append(flags, bit)
<1>1. flags \in Seq({0, 1}) /\ Len(flags) < FlagBits /\ Len(flags) \in Nat /\ flagPos \in Nat
  BY DEF EncoderInv
<1>2. /\ f \in Seq({0, 1}) /\ Len(f) = Len(flags) + 1 /\ f[Len(flags) + 1] = bit
      /\ \A j \in 1..Len(flags) : f[j] = flags[j]
  BY <1>1, Appended
<1> HIDE DEF f
<1>3. CASE Len(flags) + 1 = FlagBits
  <2> DEFINE v == [w EXCEPT ![flagPos].value = f]
  <2>1. f \in [1..FlagBits -> {0, 1}]
    BY <1>2, <1>3
  <2>2. /\ v \in Seq(StreamCells) /\ Len(v) = Len(w) /\ v[flagPos] = Cell("flags", f)
        /\ \A i \in 1..Len(w) : i # flagPos => v[i] = w[i]
    BY <2>1, WordFilled
  <2>3. cells' = Append(v, Reserved) /\ flags' = << >> /\ flagPos' = Len(w) + 1
    BY <1>3 DEF PushFlag, f
  <2> HIDE DEF v
  <2>4. /\ cells' \in Seq(StreamCells) /\ Len(cells') = Len(w) + 1
        /\ cells'[Len(w) + 1] = Reserved /\ \A i \in 1..Len(w) : cells'[i] = v[i]
    <3>1. v \in Seq(StreamCells) /\ Len(v) = Len(w) /\ Reserved \in StreamCells
      BY <2>2, ReservedTyped
    <3> DEFINE r == Reserved
               c == Append(v, r)
    <3>2. /\ c \in Seq(StreamCells) /\ Len(c) = Len(v) + 1 /\ c[Len(v) + 1] = r
          /\ \A i \in 1..Len(v) : c[i] = v[i]
      <4> HIDE DEF r
      <4> QED BY <3>1, Appended DEF r
    <3> QED BY <2>3, <3>1, <3>2
  <2>5. \A i \in 1..Len(cells') : cells'[i].kind # "partial"
    <3> SUFFICES ASSUME NEW i \in 1..Len(cells') PROVE cells'[i].kind # "partial"
      OBVIOUS
    <3>1. CASE i = Len(w) + 1
      BY <2>4, <3>1, ReservedTyped
    <3>2. CASE i = flagPos /\ i # Len(w) + 1
      BY <2>2, <2>4, <3>2 DEF Cell
    <3>3. CASE i # flagPos /\ i # Len(w) + 1
      BY <2>2, <2>4, <3>3
    <3> QED BY <3>1, <3>2, <3>3
  <2>6. flags' \in Seq({0, 1}) /\ Len(flags') = 0 /\ Len(flags') < FlagBits
    BY <2>3, Limits
  <2>7. cells'[flagPos] = Cell("flags", f) /\ \A i \in 1..Len(w) : i # flagPos => cells'[i] = w[i]
    BY <2>2, <2>4
  <2> QED BY <1>2, <1>3, <2>3, <2>4, <2>5, <2>6, <2>7 DEF f
<1>4. CASE Len(flags) + 1 # FlagBits
  <2>1. cells' = w /\ flags' = f /\ flagPos' = flagPos
    BY <1>4 DEF PushFlag, f
  <2>2. Len(f) < FlagBits
    BY <1>1, <1>2, <1>4, Limits
  <2> QED BY <1>2, <1>4, <2>1, <2>2 DEF f
<1> QED BY <1>3, <1>4

(***************************************************************************)
(* An element keeps standing where the stream is cut behind it, or where   *)
(* only flag words change.                                                 *)
(***************************************************************************)
LEMMA CarriesKept ==
  ASSUME NEW d \in Seq(Nat), NEW s \in Elements, Sound(d, s), NEW b, NEW c, Carries(d, b, s),
         \A i \in 1..(EndAt(s) - 1) : Intact(c, i) => Intact(b, i) /\ (c[i] = b[i] \/ b[i].kind = "flags")
  PROVE  Carries(d, c, s)
<1>1. ASSUME NEW i \in 1..(EndAt(s) - 1), NEW x, x.kind # "flags", Has(b, i, x) PROVE Has(c, i, x)
  BY <1>1 DEF Has
<1>2. /\ s.at \in 1..(EndAt(s) - 1)
      /\ Long(s) => /\ Beyond(s) \in Nat
                    /\ NibbleAt(s) \in 1..(EndAt(s) - 1)
                    /\ \A i \in 1..Len(Steps(s)) : StepsAt(s) + i - 1 \in 1..(EndAt(s) - 1)
  BY Places, ElementTyped
<1>3. Has(c, s.at, Opening(d, s))
  <2>1. Opening(d, s).kind # "flags"
    BY DEF Opening, Cell
  <2> QED BY <1>1, <1>2, <2>1 DEF Carries
<1>4. ASSUME Long(s) PROVE HasSteps(c, s)
  <2> SUFFICES ASSUME NEW i \in 1..Len(Steps(s)) PROVE Has(c, StepsAt(s) + i - 1, Steps(s)[i])
    BY DEF HasSteps
  <2>1. Steps(s)[i].kind # "flags"
    BY <1>2, <1>4, LadderTyped DEF Steps
  <2>2. Has(b, StepsAt(s) + i - 1, Steps(s)[i])
    BY <1>4 DEF Carries, HasSteps
  <2> QED BY <1>1, <1>2, <1>4, <2>1, <2>2
<1>5. ASSUME Long(s) PROVE HasNibble(c, s)
  <2>1. NibbleAt(s) \in 1..(EndAt(s) - 1) /\ HasNibble(b, s)
    BY <1>2, <1>5 DEF Carries
  <2> QED BY <2>1 DEF HasNibble
<1> QED BY <1>3, <1>4, <1>5 DEF Carries

LEMMA MarkTyped ==
  ASSUME IndInv, NEW k \in 1..Len(marks)
  PROVE  /\ marks[k] \in Elements /\ Sound(data, marks[k]) /\ Carries(data, cells, marks[k])
         /\ Follows(marks[k], Stop(k + 1)) /\ Stop(k) = marks[k] /\ Len(marks) \in Nat
         /\ Stop(k).at <= Here.at /\ Stop(k + 1).at <= Here.at
         /\ EndAt(marks[k]) <= Stop(k + 1).at /\ EndAt(marks[k]) \in Nat /\ Here.at \in Nat
<1>1. /\ marks \in Seq(Elements) /\ Sound(data, marks[k]) /\ Carries(data, cells, marks[k])
      /\ Follows(marks[k], Stop(k + 1)) /\ \A j \in 1..(Len(marks) + 1) : Stop(j).at <= Here.at
  BY DEF IndInv, TrailInv
<1>2. marks[k] \in Elements /\ Len(marks) \in Nat /\ Stop(k) = marks[k]
  BY <1>1 DEF Stop
<1>3. k \in 1..(Len(marks) + 1) /\ k + 1 \in 1..(Len(marks) + 1)
  BY <1>2
<1>4. data \in Seq(Nat)
  BY DEF IndInv, EncoderInv
<1>5. EndAt(marks[k]) \in Nat
  BY <1>1, <1>2, <1>4, Places
<1>6. EndAt(marks[k]) <= Stop(k + 1).at
  <2> DEFINE t == Stop(k + 1)
             e == EndAt(marks[k])
  <2>1. t.at = e \/ t.at = e + 1
    BY <1>1 DEF Follows
  <2> HIDE DEF t, e
  <2>2. e \in Nat
    BY <1>5 DEF e
  <2>3. e <= t.at
    BY <2>1, <2>2
  <2> QED BY <2>3 DEF t, e
<1>7. Here.at \in Nat
  <2>1. Here.at = StreamEnd
    BY DEF Here
  <2>2. CASE marks = << >>
    BY <2>1, <2>2 DEF StreamEnd
  <2>3. CASE marks # << >>
    <3>1. Len(marks) \in 1..Len(marks) /\ Final \in Elements /\ Sound(data, Final)
      <4>1. Len(marks) \in 1..Len(marks)
        BY <1>1, <2>3
      <4> QED BY <1>1, <4>1 DEF Final, IndInv, TrailInv
    <3>2. EndAt(Final) \in Nat
      BY <1>4, <3>1, Places
    <3> QED BY <2>1, <2>3, <3>2 DEF StreamEnd
  <2> QED BY <2>2, <2>3
<1> QED BY <1>1, <1>2, <1>3, <1>5, <1>6, <1>7

\* What the decoder has is left alone while the stream is written.
LEMMA DecoderAsleep ==
  ASSUME IndInv, pc = "compress", UNCHANGED <<inputs, whole, decoderVars>>, pc' \in {"compress", "store"},
         marks' \in Seq(Elements), EncoderInv'
  PROVE  OutInv' /\ DecoderInv'
<1>1. UNCHANGED <<data, limit, verify, whole, at, window, halfPos, offset, length, elements, out, status>>
  BY DEF inputs, decoderVars
<1>2. at = 1 /\ window = << >> /\ halfPos = 0 /\ elements = 0
  BY DEF IndInv, StageInv
<1>3. OutInv'
  BY <1>1 DEF IndInv, OutInv, n
<1>4. DecoderInv'
  <2>1. elements' \in 0..Len(marks')
    BY <1>1, <1>2
  <2>2. window' \in Seq({0, 1}) /\ Len(window') <= FlagBits
    BY <1>1, <1>2, Limits
  <2>3. at' = 1 /\ halfPos' = 0
    BY <1>1, <1>2
  <2> QED BY <2>1, <2>2, <2>3 DEF DecoderInv
<1> QED BY <1>3, <1>4

(***************************************************************************)
(* An element written where compress has come to, its flag pushed, keeps   *)
(* the whole invariant.                                                    *)
(***************************************************************************)
LEMMA EmitKeeps ==
  ASSUME IndInv, pc = "compress", NEW s, Due(s), NEW w, Writes(w, s), PushFlag(w, Flag(s)),
         nibblePos' = HalfAfter(s), marks' = Append(marks, s), pos' = pos + Width(s),
         UNCHANGED <<inputs, whole, decoderVars, pc>>
  PROVE  IndInv'
<1>0. PICK m : m = Len(marks)
  OBVIOUS
<1> DEFINE l == Len(cells)
           z == Len(w)
           bit == Flag(s)
           full == Len(flags) + 1 = FlagBits
<1>1. /\ s \in Elements /\ Sound(data, s)
      /\ s.at = l + 1 /\ s.halfPos = nibblePos /\ s.from = pos /\ s.word = flagPos /\ s.bit = Len(flags) + 1
  BY DEF Due
<1>2. /\ w \in Seq(StreamCells) /\ \A i \in 1..z : w[i].kind # "partial"
      /\ z + 1 = EndAt(s) /\ Grown(cells, w) /\ w[flagPos] = Reserved /\ Carries(data, w, s)
  BY DEF Writes
<1>3. Open(cells) /\ l \in Nat /\ l + 1 = Here.at /\ cells[flagPos] = Reserved /\ \A i \in 1..l : Intact(cells, i)
  BY StreamOpen
<1>4. /\ data \in Seq(Nat) /\ n \in Nat /\ flags \in Seq({0, 1}) /\ Len(flags) \in Nat /\ Len(flags) < FlagBits
      /\ flagPos \in Nat \ {0} /\ nibblePos \in Nat /\ pos \in Nat /\ EncoderInv
  BY DEF IndInv, EncoderInv, n
<1>5. /\ Width(s) \in Nat \ {0} /\ EndAt(s) \in Nat /\ s.at < EndAt(s)
      /\ HalfAfter(s) \in Nat /\ HalfAfter(s) < EndAt(s)
  BY <1>1, <1>4, Places
<1>6. flagPos \in 1..l /\ z \in Nat /\ l <= z /\ flagPos \in 1..z
  BY <1>2, <1>3 DEF Open, Grown
<1>7. /\ cells' \in Seq(StreamCells) /\ flags' \in Seq({0, 1}) /\ Len(flags') < FlagBits
      /\ \A i \in 1..Len(cells') : cells'[i].kind # "partial"
      /\ \A i \in 1..z : i # flagPos => cells'[i] = w[i]
      /\ cells'[flagPos'] = Reserved
      /\ IF full
         THEN /\ Len(cells') = z + 1 /\ flagPos' = z + 1 /\ Len(flags') = 0
              /\ cells'[flagPos] = Cell("flags", Append(flags, bit))
         ELSE cells' = w /\ flagPos' = flagPos /\ flags' = Append(flags, bit)
      /\ \A j \in 1..Len(flags) : Append(flags, bit)[j] = flags[j]
      /\ Append(flags, bit)[Len(flags) + 1] = bit
      /\ Len(Append(flags, bit)) = Len(flags) + 1
  <2>1. bit \in {0, 1}
    BY DEF Flag
  <2> HIDE DEF bit
  <2>2. PushFlag(w, bit)
    BY DEF bit
  <2> QED BY <1>2, <1>4, <1>6, <2>1, <2>2, Pushed
<1>8. /\ data' = data /\ n' = n /\ whole' = whole /\ pc' = pc /\ limit' = limit /\ verify' = verify
  BY DEF inputs, n
<1>9. /\ marks \in Seq(Elements) /\ m \in Nat /\ marks' \in Seq(Elements) /\ Len(marks') = m + 1
      /\ marks'[m + 1] = s /\ \A k \in 1..m : marks'[k] = marks[k]
  <2>1. marks \in Seq(Elements)
    BY DEF IndInv, TrailInv
  <2> QED BY <1>0, <1>1, <2>1, Appended
<1>10. /\ Here'.at = (IF full THEN EndAt(s) + 1 ELSE EndAt(s))
       /\ Here'.halfPos = HalfAfter(s) /\ Here'.from = pos + Width(s)
       /\ Here'.word = flagPos' /\ Here'.bit = Len(flags') + 1
  <2>1. Final' = s /\ marks' # << >>
    BY <1>9 DEF Final
  <2>2. StreamEnd' = IF full THEN EndAt(s) + 1 ELSE EndAt(s)
    BY <1>1, <2>1 DEF StreamEnd
  <2> QED BY <2>2 DEF Here
<1>11. Len(cells') + 1 = Here'.at
  <2>1. full => Len(cells') = z + 1
    BY <1>7
  <2>2. ~full => Len(cells') = z
    BY <1>7
  <2> HIDE DEF full
  <2> QED BY <1>2, <1>6, <1>10, <2>1, <2>2
<1>12. Follows(s, Here')
  <2>1. full => flagPos' = EndAt(s) /\ Len(flags') = 0
    BY <1>2, <1>7
  <2>2. ~full => flagPos' = flagPos /\ Len(flags') = Len(flags) + 1
    BY <1>7
  <2>3. full <=> s.bit = FlagBits
    BY <1>1
  <2> HIDE DEF full
  <2> QED BY <1>1, <1>4, <1>10, <2>1, <2>2, <2>3 DEF Follows
<1>13. (\A k \in 1..m : Stop(k)' = marks[k]) /\ Stop(m + 1)' = s /\ Stop(m + 2)' = Here'
  <2>1. m + 1 \in 1..Len(marks') /\ ~(m + 2 <= Len(marks')) /\ \A k \in 1..m : k <= Len(marks')
    BY <1>9
  <2> QED BY <1>9, <2>1 DEF Stop
<1> HIDE DEF bit, full
<1>14. EncoderInv'
  <2>1. pos' \in 0..n'
    BY <1>1, <1>4, <1>5, <1>8 DEF Sound, n
  <2>2. flagPos' \in Nat \ {0} /\ nibblePos' \in Nat
    <3>1. flagPos' = z + 1 \/ flagPos' = flagPos
      BY <1>7
    <3> QED BY <1>4, <1>5, <1>6, <3>1
  <2>3. limit' \in Nat /\ verify' \in BOOLEAN /\ (verify' => limit' = n') /\ data' \in Seq(Nat)
    BY <1>8 DEF IndInv, EncoderInv
  <2> QED BY <1>7, <2>1, <2>2, <2>3 DEF EncoderInv
<1>15. Grown(cells, cells') /\ l <= Len(cells')
  <2>1. l <= Len(cells')
    BY <1>6, <1>7
  <2>2. ASSUME NEW i \in 1..l, i # flagPos PROVE cells'[i] = w[i]
    BY <1>6, <1>7, <2>2
  <2> QED BY <1>2, <2>1, <2>2 DEF Grown
<1>16. ASSUME NEW k \in 1..m
       PROVE  /\ marks[k] \in Elements /\ Sound(data, marks[k]) /\ Carries(data, cells', marks[k])
              /\ marks[k].at <= l + 1 /\ Follows(marks[k], Stop(k + 1)')
  <2>1. /\ marks[k] \in Elements /\ Sound(data, marks[k]) /\ Carries(data, cells, marks[k])
        /\ Follows(marks[k], Stop(k + 1)) /\ EndAt(marks[k]) <= l + 1 /\ marks[k].at <= l + 1
    <3>1. /\ marks[k] \in Elements /\ Sound(data, marks[k]) /\ Carries(data, cells, marks[k])
          /\ Follows(marks[k], Stop(k + 1)) /\ Stop(k) = marks[k] /\ Stop(k).at <= Here.at
          /\ EndAt(marks[k]) <= Stop(k + 1).at /\ Stop(k + 1).at <= Here.at /\ EndAt(marks[k]) \in Nat
      BY <1>0, MarkTyped
    <3>2. Stop(k + 1).at \in Int
      <4>1. Stop(k + 1).at = EndAt(marks[k]) \/ Stop(k + 1).at = EndAt(marks[k]) + 1
        BY <3>1 DEF Follows
      <4> QED BY <3>1, <4>1
    <3>3. EndAt(marks[k]) <= l + 1
      BY <1>3, <3>1, <3>2
    <3>4. marks[k].at <= l + 1
      BY <1>3, <3>1
    <3> QED BY <3>1, <3>3, <3>4
  <2>2. Long(marks[k]) /\ marks[k].halfPos # 0 => marks[k].halfPos # nibblePos
    BY <1>0 DEF IndInv, NibbleInv
  <2>3. Carries(data, cells', marks[k])
    BY <1>3, <1>4, <1>15, <2>1, <2>2, CarriesGrown
  <2>4. Follows(marks[k], Stop(k + 1)')
    <3>1. CASE k < m
      <4>1. k + 1 \in 1..m
        BY <1>9, <3>1
      <4>2. Stop(k + 1)' = Stop(k + 1)
        BY <1>0, <1>13, <4>1 DEF Stop
      <4> QED BY <2>1, <4>2
    <3>2. CASE k = m
      <4>1. Stop(k + 1) = Here /\ Stop(k + 1)' = s
        BY <1>0, <1>9, <1>13, <3>2 DEF Stop
      <4>2. Here.at = s.at /\ Here.halfPos = s.halfPos /\ Here.from = s.from /\ Here.word = s.word /\ Here.bit = s.bit
        BY <1>1, <1>3 DEF Here
      <4> QED BY <2>1, <4>1, <4>2 DEF Follows
    <3> QED BY <1>9, <3>1, <3>2
  <2> QED BY <2>1, <2>3, <2>4
<1>17. Carries(data, cells', s)
  <2>1. ASSUME NEW i \in 1..(EndAt(s) - 1)
        PROVE  Intact(w, i) /\ (cells'[i] = w[i] \/ w[i].kind = "flags")
    <3>1. i \in 1..z
      BY <1>2, <1>6, <2>1
    <3> QED BY <1>2, <1>7, <3>1, ReservedTyped DEF Intact
  <2> QED BY <1>1, <1>2, <1>4, <2>1, CarriesKept
<1>18. TrailInv'
  <2>1. ASSUME NEW k \in 1..Len(marks')
        PROVE  Sound(data', marks'[k]) /\ Carries(data', cells', marks'[k]) /\ Follows(marks'[k], Stop(k + 1)')
    <3>1. CASE k \in 1..m
      BY <1>8, <1>9, <1>16, <3>1
    <3>2. CASE k = m + 1
      BY <1>1, <1>8, <1>9, <1>12, <1>13, <1>17, <3>2
    <3> QED BY <1>9, <3>1, <3>2
  <2>2. ASSUME NEW k \in 1..(Len(marks') + 1) PROVE Stop(k)'.at <= Here'.at
    <3>0. Here'.at \in Nat /\ Here'.at >= l + 1 /\ s.at <= Here'.at
      BY <1>1, <1>3, <1>5, <1>6, <1>10
    <3>1. CASE k \in 1..m
      <4>1. marks[k].at <= l + 1 /\ marks[k].at \in Nat
        BY <1>16, <3>1, ElementTyped
      <4> QED BY <1>3, <1>13, <3>0, <3>1, <4>1
    <3>2. CASE k = m + 1
      BY <1>13, <3>0, <3>2
    <3>3. CASE k = m + 2
      BY <1>13, <3>0, <3>3
    <3> QED BY <1>9, <3>1, <3>2, <3>3
  <2>3. Stop(1)'.at = 2 /\ Stop(1)'.word = 1 /\ Stop(1)'.bit = 1 /\ Stop(1)'.halfPos = 0 /\ Stop(1)'.from = 0
    <3>1. Stop(1).at = 2 /\ Stop(1).word = 1 /\ Stop(1).bit = 1 /\ Stop(1).halfPos = 0 /\ Stop(1).from = 0
      BY DEF IndInv, TrailInv
    <3>2. CASE m = 0
      <4>1. Stop(1) = Here /\ Stop(1)' = s
        BY <1>0, <1>9, <1>13, <3>2 DEF Stop
      <4>2. Here.at = s.at /\ Here.halfPos = s.halfPos /\ Here.from = s.from /\ Here.word = s.word /\ Here.bit = s.bit
        BY <1>1, <1>3 DEF Here
      <4> QED BY <3>1, <4>1, <4>2
    <3>3. CASE m # 0
      <4>1. Stop(1)' = marks[1] /\ Stop(1) = marks[1]
        BY <1>0, <1>9, <1>13, <3>3 DEF Stop
      <4> QED BY <3>1, <4>1
    <3> QED BY <3>2, <3>3
  <2>4. flagPos' < Here'.at /\ nibblePos' < Here'.at
    <3>1. flagPos' <= Len(cells')
      BY <1>6, <1>7
    <3>2. HalfAfter(s) < Here'.at
      BY <1>5, <1>10
    <3>3. Len(cells') \in Nat /\ flagPos' \in Nat
      BY <1>7, <1>14 DEF EncoderInv
    <3> QED BY <1>11, <3>1, <3>2, <3>3
  <2> QED BY <1>9, <2>1, <2>2, <2>3, <2>4 DEF TrailInv
<1>19. ASSUME NEW k \in 1..Len(marks')
       PROVE  IF marks'[k].word = flagPos'
              THEN marks'[k].bit <= Len(flags') /\ flags'[marks'[k].bit] = Flag(marks'[k])
              ELSE HasFlag(cells', marks'[k], Flag(marks'[k]))
  <2>1. CASE k = m + 1 /\ full
    <3>1. marks'[k] = s /\ s.word # flagPos'
      BY <1>1, <1>6, <1>7, <1>9, <2>1 DEF full
    <3>2. cells'[s.word].kind = "flags" /\ cells'[s.word].value[s.bit] = bit
      BY <1>1, <1>7, <2>1 DEF Cell
    <3> QED BY <3>1, <3>2 DEF HasFlag, bit
  <2>2. CASE k = m + 1 /\ ~full
    <3>1. marks'[k] = s /\ s.word = flagPos' /\ flags' = Append(flags, bit)
      BY <1>1, <1>7, <1>9, <2>2
    <3>2. s.bit <= Len(flags') /\ flags'[s.bit] = bit
      BY <1>1, <1>4, <1>7, <3>1
    <3> QED BY <3>1, <3>2 DEF bit
  <2>3. CASE k \in 1..m
    <3>1. /\ marks'[k] = marks[k] /\ marks[k] \in Elements /\ marks[k].word \in Nat \ {0}
          /\ marks[k].word < l + 1 /\ marks[k].bit \in Nat \ {0}
      <4>1. marks'[k] = marks[k] /\ marks[k] \in Elements /\ Sound(data, marks[k]) /\ marks[k].at <= l + 1
        BY <1>9, <1>16, <2>3
      <4>2. marks[k].word < marks[k].at /\ marks[k].word \in Nat \ {0} /\ marks[k].at \in Nat /\ marks[k].bit \in 1..FlagBits
        BY <4>1, ElementTyped DEF Sound
      <4> QED BY <1>3, <4>1, <4>2, Limits
    <3>2. IF marks[k].word = flagPos
          THEN marks[k].bit <= Len(flags) /\ flags[marks[k].bit] = Flag(marks[k])
          ELSE HasFlag(cells, marks[k], Flag(marks[k]))
      BY <1>0, <2>3 DEF IndInv, FlagInv
    <3>3. CASE marks[k].word # flagPos
      <4>1. HasFlag(cells', marks[k], Flag(marks[k]))
        BY <1>3, <1>15, <3>1, <3>2, <3>3, FlagGrown
      <4>2. marks[k].word # flagPos'
        BY SMTT(30), <1>3, <1>6, <1>7, <3>1, <3>3
      <4> QED BY <3>1, <4>1, <4>2
    <3>4. CASE marks[k].word = flagPos /\ ~full
      <4>1. flagPos' = flagPos /\ flags' = Append(flags, bit)
        BY <1>7, <3>4
      <4>2. marks[k].bit \in 1..Len(flags)
        BY <1>4, <3>1, <3>2, <3>4
      <4>3. marks[k].bit <= Len(flags') /\ flags'[marks[k].bit] = Flag(marks[k])
        BY <1>4, <1>7, <3>2, <3>4, <4>1, <4>2
      <4> QED BY <3>1, <3>4, <4>1, <4>3
    <3>5. CASE marks[k].word = flagPos /\ full
      <4>1. marks[k].word # flagPos'
        BY <1>6, <1>7, <3>5
      <4>2. marks[k].bit \in 1..Len(flags) /\ flags[marks[k].bit] = Flag(marks[k])
        BY <1>4, <3>1, <3>2, <3>5
      <4>3. cells'[flagPos].kind = "flags" /\ cells'[flagPos].value = Append(flags, bit)
        BY <1>7, <3>5 DEF Cell
      <4>4. HasFlag(cells', marks[k], Flag(marks[k]))
        BY <1>7, <3>5, <4>2, <4>3 DEF HasFlag
      <4> QED BY <3>1, <4>1, <4>4
    <3> QED BY <3>3, <3>4, <3>5
  <2> QED BY <1>9, <2>1, <2>2, <2>3
<1>20. FlagInv'
  <2>1. pc' = "compress"
    BY <1>8
  <2> QED BY <1>7, <1>19, <2>1 DEF FlagInv
<1>21. NibbleInv'
  <2>1. ASSUME nibblePos' # 0 PROVE cells'[nibblePos'].kind = "nibble" /\ cells'[nibblePos'].value <= NibbleLimit
    <3>1. w[HalfAfter(s)].kind = "nibble" /\ w[HalfAfter(s)].value \in 0..NibbleLimit
      BY <2>1 DEF Writes
    <3>2. HalfAfter(s) \in 1..z /\ HalfAfter(s) # flagPos
      BY <1>2, <1>5, <1>6, <2>1, <3>1, ReservedTyped
    <3> QED BY SMTT(30), <1>7, <3>1, <3>2, Limits
  <2>2. ASSUME NEW k \in 1..Len(marks'), Long(marks'[k]), marks'[k].halfPos # 0
        PROVE  marks'[k].halfPos # nibblePos'
    <3>1. CASE k = m + 1
      <4>1. Long(s) /\ s.halfPos # 0
        BY <1>9, <2>2, <3>1
      <4> QED BY <1>9, <3>1, <4>1 DEF HalfAfter
    <3>2. CASE k \in 1..m
      <4>1. Long(marks[k]) /\ marks[k].halfPos # 0 /\ marks'[k] = marks[k]
        BY <1>9, <2>2, <3>2
      <4>2. marks[k].halfPos # nibblePos
        BY <1>0, <3>2, <4>1 DEF IndInv, NibbleInv
      <4>3. marks[k].halfPos < s.at /\ marks[k].halfPos \in Nat
        <5>1. marks[k].halfPos < marks[k].at /\ marks[k].at <= l + 1
          BY <1>16, <3>2 DEF Sound
        <5>2. marks[k].halfPos \in Nat /\ marks[k].at \in Nat
          BY <1>16, <3>2, ElementTyped
        <5> QED BY <1>1, <1>3, <5>1, <5>2
      <4>4. HalfAfter(s) # marks[k].halfPos
        BY <1>1, <1>3, <4>1, <4>2, <4>3 DEF HalfAfter
      <4> QED BY <4>1, <4>4
    <3> QED BY <1>9, <3>1, <3>2
  <2> QED BY <2>1, <2>2 DEF NibbleInv
<1>22. StageInv'
  <2>1. whole /\ status = "working" /\ at = 1 /\ window = << >> /\ halfPos = 0 /\ elements = 0 /\ out = << >>
    BY DEF IndInv, StageInv
  <2>2. UNCHANGED <<at, window, halfPos, elements, out, status>>
    BY DEF decoderVars
  <2>3. whole' /\ pc' = "compress"
    BY <1>8, <2>1
  <2>4. \A i \in 1..Len(cells') : cells'[i].kind # "partial"
    BY <1>7
  <2>5. Len(cells') + 1 <= Here'.at
    <3>1. Len(cells') + 1 \in Nat
      BY <1>7
    <3> QED BY <1>11, <3>1
  <2> QED BY <1>11, <2>1, <2>2, <2>3, <2>4, <2>5 DEF StageInv
<1>23. OutInv' /\ DecoderInv'
  <2>1. pc' \in {"compress", "store"} /\ marks' \in Seq(Elements) /\ UNCHANGED <<inputs, whole, decoderVars>>
    BY <1>8, <1>9
  <2> QED BY <1>14, <2>1, DecoderAsleep
<1> QED BY <1>14, <1>18, <1>20, <1>21, <1>22, <1>23 DEF IndInv

----------------------------------------------------------------------------
(* The steps of compress *)

\* The element compress has come to, if it is m.
Arrived(m) ==
  [at |-> Len(cells) + 1, halfPos |-> nibblePos, from |-> pos, word |-> flagPos, bit |-> Len(flags) + 1,
   match |-> m]

LEMMA EncoderTyped ==
  ASSUME IndInv
  PROVE  /\ data \in Seq(Nat) /\ n \in Nat /\ pos \in 0..n /\ flags \in Seq({0, 1}) /\ Len(flags) \in Nat
         /\ Len(flags) < FlagBits /\ flagPos \in Nat \ {0} /\ nibblePos \in Nat /\ cells \in Seq(StreamCells)
         /\ Len(cells) \in Nat /\ n = Len(data)
BY DEF IndInv, EncoderInv, n

LEMMA ArrivedDue ==
  ASSUME IndInv, pc = "compress", NEW m \in [len : Nat, dist : Nat], Sound(data, Arrived(m))
  PROVE  Due(Arrived(m))
<1> DEFINE s == Arrived(m)
<1>1. /\ s.at = Len(cells) + 1 /\ s.halfPos = nibblePos /\ s.from = pos
      /\ s.word = flagPos /\ s.bit = Len(flags) + 1
  BY DEF Arrived
<1>2. s \in Elements
  <2>1. /\ Len(cells) + 1 \in Nat \ {0} /\ nibblePos \in Nat /\ pos \in Nat /\ flagPos \in Nat \ {0}
        /\ Len(flags) + 1 \in 1..FlagBits
    BY EncoderTyped, Limits
  <2> QED BY <2>1 DEF Arrived, Elements
<1> QED BY <1>1, <1>2 DEF Due

\* The places that are open lie behind the next element.
LEMMA OpenPlaces ==
  ASSUME IndInv, pc = "compress"
  PROVE  nibblePos < Len(cells) + 1 /\ flagPos < Len(cells) + 1
<1>1. Len(cells) + 1 = Here.at
  BY StreamOpen
<1> QED BY <1>1 DEF IndInv, TrailInv

(***************************************************************************)
(* An element of one cell.                                                 *)
(***************************************************************************)
LEMMA OneCellWritten ==
  ASSUME IndInv, pc = "compress", NEW s, Due(s), ~Long(s), NEW c \in StreamCells,
         c.kind \notin {"partial", "flags", "nibble"}, c = Opening(data, s)
  PROVE  Writes(Append(cells, c), s)
<1> DEFINE w == Append(cells, c)
           l == Len(cells)
<1>1. /\ Open(cells) /\ l \in Nat /\ cells[flagPos] = Reserved /\ cells \in Seq(StreamCells)
      /\ \A i \in 1..l : cells[i].kind # "partial"
  BY StreamOpen DEF Open
<1>2. w \in Seq(StreamCells) /\ Len(w) = l + 1 /\ w[l + 1] = c /\ \A i \in 1..l : w[i] = cells[i]
  BY <1>1, Appended
<1>3. s.at = l + 1 /\ s.halfPos = nibblePos /\ EndAt(s) = s.at + 1 /\ HalfAfter(s) = nibblePos
  BY DEF Due, EndAt, HalfAfter
<1> HIDE DEF w
<1>4. \A i \in 1..Len(w) : w[i].kind # "partial"
  BY <1>1, <1>2
<1>5. Grown(cells, w) /\ w[flagPos] = Reserved
  BY <1>1, <1>2 DEF Grown, Open
<1>6. Carries(data, w, s)
  BY <1>2, <1>3 DEF Carries, Has
<1>7. HalfAfter(s) # 0 => w[HalfAfter(s)].kind = "nibble" /\ w[HalfAfter(s)].value \in 0..NibbleLimit
  BY <1>1, <1>2, <1>3 DEF Open
<1>8. Len(w) + 1 = EndAt(s)
  BY <1>1, <1>2, <1>3
<1> QED BY <1>2, <1>4, <1>5, <1>6, <1>7, <1>8 DEF Writes, w

LEMMA LiteralStep == IndInv /\ EmitLiteral => IndInv'
<1> SUFFICES ASSUME IndInv, EmitLiteral PROVE IndInv'
  OBVIOUS
<1> DEFINE s == Arrived(NoMatch)
           c == Cell("literal", data[pos + 1])
<1>1. /\ pc = "compress" /\ pos < n /\ PushFlag(Append(cells, c), 0)
      /\ pos' = pos + 1 /\ marks' = Append(marks, s) /\ nibblePos' = nibblePos
      /\ UNCHANGED <<inputs, whole, decoderVars, pc>>
  BY DEF EmitLiteral, Mark, Arrived
<1>2. NoMatch \in [len : Nat, dist : Nat] /\ NoMatch.len = 0
  BY DEF NoMatch
<1>3. ~IsMatch(s) /\ ~Long(s) /\ Flag(s) = 0 /\ Width(s) = 1 /\ HalfAfter(s) = nibblePos
  BY <1>2 DEF Arrived, IsMatch, Long, Flag, Width, HalfAfter
<1>4. c = Opening(data, s)
  BY <1>3 DEF Opening, Arrived
<1>5. c \in StreamCells /\ c.kind = "literal"
  <2>1. data[pos + 1] \in Nat
    BY <1>1, EncoderTyped
  <2> QED BY <2>1 DEF StreamCells, Cell
<1>6. Sound(data, s)
  <2>1. s.halfPos < s.at /\ s.word < s.at
    BY <1>1, OpenPlaces DEF Arrived
  <2>2. s.from + Width(s) <= Len(data)
    BY <1>1, <1>3, EncoderTyped DEF Arrived
  <2> QED BY <1>3, <2>1, <2>2 DEF Sound
<1>7. Due(s)
  BY <1>1, <1>2, <1>6, ArrivedDue
<1> HIDE DEF s, c
<1>8. Writes(Append(cells, c), s)
  BY <1>1, <1>3, <1>4, <1>5, <1>7, OneCellWritten
<1> QED BY <1>1, <1>3, <1>7, <1>8, EmitKeeps

(***************************************************************************)
(* A number packed from two stays within the product of their ranges.      *)
(***************************************************************************)
LEMMA Packed ==
  ASSUME NEW A \in Nat \ {0}, NEW B \in Nat \ {0}, NEW a \in 0..(A - 1), NEW b \in 0..(B - 1)
  PROVE  a * B + b \in 0..(A * B - 1)
<1>1. a * B \in Nat /\ A * B \in Nat /\ (A - a) * B = A * B - a * B
  OBVIOUS
<1>2. B * (A - a) >= B
  <2>1. A - a \in Nat \ {0}
    OBVIOUS
  <2> QED BY <2>1, ProductAtLeast
<1>3. B * (A - a) = (A - a) * B
  OBVIOUS
<1> QED BY <1>1, <1>2, <1>3

LEMMA TokenFits ==
  ASSUME NEW d, NEW s \in Elements, Sound(d, s), IsMatch(s), Extra(s) \in Nat
  PROVE  /\ Lesser(Extra(s), TokenLimit) \in 0..TokenLimit
         /\ Cell("token", TokenValue(s)) \in StreamCells
         /\ TokenValue(s) \div (TokenLimit + 1) = s.match.dist - 1
         /\ TokenValue(s) % (TokenLimit + 1) = Lesser(Extra(s), TokenLimit)
<1> DEFINE low == Lesser(Extra(s), TokenLimit)
           B == TokenLimit + 1
           a == s.match.dist - 1
<1>1. low \in 0..(B - 1) /\ low \in 0..TokenLimit /\ B \in Nat \ {0}
  BY Limits DEF Lesser
<1>2. a \in 0..(MaxOffset - 1) /\ a \in Nat /\ MaxOffset \in Nat \ {0}
  BY Limits DEF Sound
<1>3. TokenValue(s) = a * B + low
  BY DEF TokenValue
<1> HIDE DEF low, B, a
<1>4. a * B + low \in 0..(MaxOffset * B - 1)
  BY <1>1, <1>2, Packed
<1>5. (B * a + low) % B = low /\ (B * a + low) \div B = a
  BY <1>1, <1>2, ComesApart
<1>6. a * B = B * a
  BY <1>1, <1>2
<1>7. Cell("token", TokenValue(s)) \in StreamCells
  BY <1>3, <1>4 DEF StreamCells, Cell, B
<1> QED BY <1>1, <1>3, <1>5, <1>6, <1>7 DEF low, B, a

\* What a byte two matches share may hold.
LEMMA NibbleFits ==
  ASSUME NEW v \in 0..NibbleLimit, NEW x \in 0..NibbleLimit
  PROVE  Cell("nibble", v + (NibbleLimit + 1) * x) \in StreamCells /\ Cell("nibble", v) \in StreamCells
<1> DEFINE B == NibbleLimit + 1
<1>1. B \in Nat \ {0} /\ v \in 0..(B - 1) /\ x \in 0..(B - 1) /\ v \in Nat /\ x \in Nat
  BY Limits
<1> HIDE DEF B
<1>2. x * B + v \in 0..(B * B - 1)
  BY <1>1, Packed
<1>3. v + B * x = x * B + v
  BY <1>1
<1>4. v \in 0..(B * B - 1)
  <2>1. 0 * B + v \in 0..(B * B - 1)
    BY <1>1, Packed
  <2> QED BY <1>1, <2>1
<1>5. \A y \in 0..(B * B - 1) : Cell("nibble", y) \in StreamCells
  BY DEF StreamCells, Cell, B
<1> QED BY <1>2, <1>3, <1>4, <1>5 DEF B

\* A half byte filled in.
LEMMA HalfFilled ==
  ASSUME NEW w \in Seq(StreamCells), NEW p \in 1..Len(w), w[p].kind = "nibble",
         w[p].value \in 0..NibbleLimit, NEW x \in 0..NibbleLimit
  PROVE  LET v == [w EXCEPT ![p].value = @ + (NibbleLimit + 1) * x]
         IN /\ v \in Seq(StreamCells) /\ Len(v) = Len(w)
            /\ v[p] = Cell("nibble", w[p].value + (NibbleLimit + 1) * x)
            /\ \A i \in 1..Len(w) : i # p => v[i] = w[i]
<1> DEFINE y == w[p].value + (NibbleLimit + 1) * x
           c == Cell("nibble", y)
           v == [w EXCEPT ![p].value = @ + (NibbleLimit + 1) * x]
<1>1. v = [w EXCEPT ![p] = [w[p] EXCEPT !.value = y]]
  OBVIOUS
<1>2. [w[p] EXCEPT !.value = y] = c
  <2>1. w[p] \in StreamCells
    OBVIOUS
  <2>2. w[p] \in [kind : {"nibble"}, value : 0..((NibbleLimit + 1) * (NibbleLimit + 1) - 1)]
    BY <2>1 DEF StreamCells
  <2> HIDE DEF y
  <2> QED BY <2>2 DEF Cell
<1>3. c \in StreamCells
  BY NibbleFits
<1> HIDE DEF c, v
<1>4. LET u == [w EXCEPT ![p] = c]
      IN u \in Seq(StreamCells) /\ Len(u) = Len(w) /\ u[p] = c /\ \A i \in 1..Len(w) : i # p => u[i] = w[i]
  BY <1>3, Replaced
<1>5. v = [w EXCEPT ![p] = c]
  BY <1>1, <1>2
<1>6. v \in Seq(StreamCells) /\ Len(v) = Len(w) /\ v[p] = c /\ \A i \in 1..Len(w) : i # p => v[i] = w[i]
  BY <1>4, <1>5
<1> QED BY <1>6 DEF c, v

\* v is the stream with the token of s and its half byte behind it.
HalfWritten(v, s) ==
  /\ v \in Seq(StreamCells) /\ \A i \in 1..Len(v) : v[i].kind # "partial"
  /\ Len(v) + 1 = StepsAt(s)
  /\ Grown(cells, v) /\ v[flagPos] = Reserved
  /\ v[s.at] = Opening(data, s)
  /\ v[NibbleAt(s)].kind = "nibble" /\ Half(s, v[NibbleAt(s)].value) = Nibble(s)
  /\ HalfAfter(s) # 0 => v[HalfAfter(s)].kind = "nibble" /\ v[HalfAfter(s)].value \in 0..NibbleLimit

(***************************************************************************)
(* The half byte of a long match, in a byte of its own or in the free half *)
(* of the byte before.                                                     *)
(***************************************************************************)
LEMMA NibbleWritten ==
  ASSUME IndInv, pc = "compress", NEW s, Due(s), Long(s), NEW c \in StreamCells,
         c.kind = "token", c = Opening(data, s)
  PROVE  HalfWritten(WithNibble(Append(cells, c), Nibble(s)), s)
<1> DEFINE u == Append(cells, c)
           l == Len(cells)
           x == Nibble(s)
           v == WithNibble(u, x)
<1>1. /\ Open(cells) /\ l \in Nat /\ cells[flagPos] = Reserved /\ cells \in Seq(StreamCells)
      /\ \A i \in 1..l : cells[i].kind # "partial"
  BY StreamOpen DEF Open
<1>2. u \in Seq(StreamCells) /\ Len(u) = l + 1 /\ u[l + 1] = c /\ \A i \in 1..l : u[i] = cells[i]
  BY <1>1, Appended
<1>3. s.at = l + 1 /\ s.halfPos = nibblePos
  BY DEF Due
<1>4. x \in 0..NibbleLimit /\ x \in Nat
  <2>1. Beyond(s) \in Nat
    BY EncoderTyped, Places DEF Due
  <2> QED BY <2>1, Limits DEF Nibble, Lesser
<1>5. flagPos \in 1..l /\ (nibblePos # 0 => nibblePos \in 1..l)
  BY <1>1 DEF Open
<1> HIDE DEF u, x
<1>6. CASE nibblePos = 0
  <2> DEFINE h == Cell("nibble", x)
  <2>1. v = Append(u, h)
    BY <1>6 DEF WithNibble
  <2>2. h \in StreamCells /\ h.kind = "nibble" /\ h.value = x
    BY <1>4, NibbleFits DEF Cell
  <2> HIDE DEF h
  <2>3. v \in Seq(StreamCells) /\ Len(v) = l + 2 /\ v[l + 2] = h /\ \A i \in 1..(l + 1) : v[i] = u[i]
    <3>1. /\ Append(u, h) \in Seq(StreamCells) /\ Len(Append(u, h)) = Len(u) + 1
          /\ Append(u, h)[Len(u) + 1] = h /\ \A i \in 1..Len(u) : Append(u, h)[i] = u[i]
      BY <1>2, <2>2, Appended
    <3>2. Len(u) + 1 = l + 2
      BY <1>1, <1>2
    <3> QED BY <1>2, <2>1, <3>1, <3>2
  <2> HIDE DEF v
  <2>4. NibbleAt(s) = l + 2 /\ StepsAt(s) = l + 3 /\ HalfAfter(s) = l + 2
    BY <1>1, <1>3, <1>6 DEF NibbleAt, StepsAt, HalfAfter
  <2>5. \A i \in 1..l : v[i] = cells[i]
    BY <1>1, <1>2, <2>3
  <2>6. v[l + 1] = c
    BY <1>1, <1>2, <2>3
  <2>7. \A i \in 1..Len(v) : v[i].kind # "partial"
    <3> SUFFICES ASSUME NEW i \in 1..Len(v) PROVE v[i].kind # "partial"
      OBVIOUS
    <3>1. CASE i \in 1..l
      BY <1>1, <2>5, <3>1
    <3>2. CASE i = l + 1
      BY <2>6, <3>2
    <3>3. CASE i = l + 2
      BY <2>2, <2>3, <3>3
    <3> QED BY <1>1, <2>3, <3>1, <3>2, <3>3
  <2>8. Grown(cells, v) /\ v[flagPos] = Reserved
    BY <1>1, <1>5, <2>3, <2>5 DEF Grown
  <2>9. Half(s, x) = x
    BY <1>3, <1>4, <1>6, SharedByte DEF Half
  <2>10. v[l + 2].kind = "nibble" /\ v[l + 2].value = x /\ v[l + 2].value \in 0..NibbleLimit
    BY <1>4, <2>2, <2>3
  <2>11. Len(v) + 1 = StepsAt(s)
    BY <1>1, <2>3, <2>4
  <2> QED BY <1>3, <2>3, <2>4, <2>6, <2>7, <2>8, <2>9, <2>10, <2>11 DEF HalfWritten, x, v, u
<1>7. CASE nibblePos # 0
  <2> DEFINE p == nibblePos
             o == cells[p].value
             y == o + (NibbleLimit + 1) * x
  <2>1. v = [u EXCEPT ![p].value = @ + (NibbleLimit + 1) * x]
    BY <1>7 DEF WithNibble
  <2>2. p \in 1..l /\ cells[p].kind = "nibble" /\ o \in 0..NibbleLimit
    BY <1>1, <1>7 DEF Open
  <2>3. p \in 1..Len(u) /\ u[p].kind = "nibble" /\ u[p].value = o
    BY <1>1, <1>2, <2>2
  <2>4. /\ v \in Seq(StreamCells) /\ Len(v) = Len(u) /\ v[p] = Cell("nibble", y)
        /\ \A i \in 1..Len(u) : i # p => v[i] = u[i]
    <3> HIDE DEF v, p, o
    <3>1. u[p].value \in 0..NibbleLimit
      BY <2>2, <2>3
    <3>2. LET t == [u EXCEPT ![p].value = @ + (NibbleLimit + 1) * x]
          IN /\ t \in Seq(StreamCells) /\ Len(t) = Len(u)
             /\ t[p] = Cell("nibble", u[p].value + (NibbleLimit + 1) * x)
             /\ \A i \in 1..Len(u) : i # p => t[i] = u[i]
      BY <1>2, <1>4, <2>3, <3>1, HalfFilled
    <3> QED BY <2>1, <2>3, <3>2
  <2> HIDE DEF v
  <2>5. NibbleAt(s) = p /\ StepsAt(s) = l + 2 /\ HalfAfter(s) = 0
    BY <1>1, <1>3, <1>7 DEF NibbleAt, StepsAt, HalfAfter
  <2>6. v[p].kind = "nibble" /\ v[p].value = y
    BY <2>4 DEF Cell
  <2>7. Half(s, y) = x
    <3> HIDE DEF o
    <3> QED BY <1>3, <1>4, <1>7, <2>2, SharedByte DEF Half
  <2>8. \A i \in 1..(l + 1) : i # p => v[i] = u[i]
    BY <1>2, <2>4
  <2>9. v[l + 1] = c /\ \A i \in 1..l : i # p => v[i] = cells[i]
    BY <1>1, <1>2, <2>2, <2>8
  <2>10. \A i \in 1..Len(v) : v[i].kind # "partial"
    <3> SUFFICES ASSUME NEW i \in 1..Len(v) PROVE v[i].kind # "partial"
      OBVIOUS
    <3>1. CASE i = p
      BY <2>6, <3>1
    <3>2. CASE i = l + 1
      BY <2>9, <3>2
    <3>3. CASE i \in 1..l /\ i # p
      BY <1>1, <2>9, <3>3
    <3> QED BY <1>1, <1>2, <2>4, <3>1, <3>2, <3>3
  <2>11. Grown(cells, v)
    <3>1. Len(cells) <= Len(v)
      BY <1>1, <1>2, <2>4
    <3>2. ASSUME NEW i \in 1..l, i # p PROVE v[i] = cells[i]
      BY <2>9, <3>2
    <3>3. p = nibblePos /\ nibblePos # 0 /\ v[p].kind = "nibble" /\ \E k \in Nat : v[p].value = cells[p].value + (NibbleLimit + 1) * k
      BY <1>4, <1>7, <2>6
    <3> QED BY <3>1, <3>2, <3>3 DEF Grown
  <2>12. v[flagPos] = Reserved
    <3>1. flagPos # p
      BY <1>1, <2>2, ReservedTyped
    <3> QED BY <1>1, <1>5, <2>9, <3>1
  <2>13. Len(v) + 1 = StepsAt(s)
    BY <1>1, <1>2, <2>4, <2>5
  <2> QED BY <1>3, <2>4, <2>5, <2>6, <2>7, <2>9, <2>10, <2>11, <2>12, <2>13 DEF HalfWritten, x, v, u
<1> QED BY <1>6, <1>7

LEMMA LongWritten ==
  ASSUME IndInv, pc = "compress", NEW s, Due(s), Long(s), NEW v, HalfWritten(v, s)
  PROVE  Writes(v \o Steps(s), s)
<1> DEFINE e == Steps(s)
           w == v \o e
           h == Len(v)
<1>1. /\ v \in Seq(StreamCells) /\ \A i \in 1..h : v[i].kind # "partial"
      /\ h + 1 = StepsAt(s) /\ Grown(cells, v) /\ v[flagPos] = Reserved
      /\ v[s.at] = Opening(data, s)
      /\ v[NibbleAt(s)].kind = "nibble" /\ Half(s, v[NibbleAt(s)].value) = Nibble(s)
      /\ HalfAfter(s) # 0 => v[HalfAfter(s)].kind = "nibble" /\ v[HalfAfter(s)].value \in 0..NibbleLimit
  BY DEF HalfWritten
<1>2. /\ Beyond(s) \in Nat /\ EndAt(s) = StepsAt(s) + Len(e) /\ NibbleAt(s) \in Nat \ {0}
      /\ NibbleAt(s) < StepsAt(s) /\ s.at < StepsAt(s) /\ s.at \in Nat \ {0} /\ s.halfPos < s.at
      /\ s.halfPos \in Nat
  <2>1. s \in Elements /\ Sound(data, s) /\ data \in Seq(Nat)
    BY EncoderTyped DEF Due
  <2>2. s.at \in Nat \ {0} /\ s.halfPos \in Nat /\ s.halfPos < s.at
    BY <2>1, ElementTyped DEF Sound
  <2>3. /\ Beyond(s) \in Nat /\ NibbleAt(s) \in 1..(EndAt(s) - 1) /\ EndAt(s) = StepsAt(s) + Len(e)
        /\ NibbleAt(s) < StepsAt(s) /\ s.at < StepsAt(s)
    BY <2>1, Places
  <2>4. NibbleAt(s) \in Nat \ {0}
    BY <2>2 DEF NibbleAt
  <2> QED BY <2>2, <2>3, <2>4
<1>3. /\ e \in Seq(StreamCells) /\ Len(e) \in Nat /\ \A i \in 1..Len(e) : e[i].kind # "partial"
  BY <1>2, LadderTyped DEF Steps
<1> HIDE DEF e
<1>4. /\ w \in Seq(StreamCells) /\ Len(w) = h + Len(e) /\ h \in Nat
      /\ \A i \in 1..h : w[i] = v[i]
      /\ \A i \in 1..Len(e) : w[h + i] = e[i]
  BY <1>1, <1>3, Joined
<1> HIDE DEF w
<1>5. \A i \in 1..Len(w) : w[i].kind # "partial"
  <2> SUFFICES ASSUME NEW i \in 1..Len(w) PROVE w[i].kind # "partial"
    OBVIOUS
  <2>1. CASE i \in 1..h
    BY <1>1, <1>4, <2>1
  <2>2. CASE i \notin 1..h
    <3>1. i - h \in 1..Len(e) /\ h + (i - h) = i
      BY <1>3, <1>4, <2>2
    <3> QED BY <1>3, <1>4, <3>1
  <2> QED BY <2>1, <2>2
<1>6. Len(w) + 1 = EndAt(s)
  BY <1>1, <1>2, <1>3, <1>4
<1>7. Open(cells) /\ Len(cells) \in Nat
  BY StreamOpen
<1>8. Grown(cells, w) /\ w[flagPos] = Reserved
  <2>1. Len(cells) <= h /\ flagPos \in 1..Len(cells)
    BY <1>1, <1>7 DEF Grown, Open
  <2>2. \A i \in 1..Len(cells) : w[i] = v[i]
    BY <1>4, <1>7, <2>1
  <2>3. Len(cells) <= Len(w)
    BY <1>3, <1>4, <1>7, <2>1
  <2> QED BY <1>1, <2>1, <2>2, <2>3 DEF Grown
<1>9. Carries(data, w, s)
  <2>1. w[s.at] = v[s.at] /\ w[NibbleAt(s)] = v[NibbleAt(s)]
    BY SMTT(30), <1>1, <1>2, <1>4
  <2>2. HasSteps(w, s)
    <3> SUFFICES ASSUME NEW i \in 1..Len(e) PROVE w[StepsAt(s) + i - 1] = e[i]
      BY DEF HasSteps, Has, e
    <3>1. StepsAt(s) + i - 1 = h + i
      BY <1>1, <1>3, <1>4
    <3> QED BY <1>4, <3>1
  <2> QED BY <1>1, <2>1, <2>2 DEF Carries, Has, HasNibble
<1>10. HalfAfter(s) # 0 => w[HalfAfter(s)].kind = "nibble" /\ w[HalfAfter(s)].value \in 0..NibbleLimit
  <2>1. HalfAfter(s) # 0 => HalfAfter(s) \in 1..h
    <3>1. CASE s.halfPos = 0
      <4>1. HalfAfter(s) = s.at + 1 /\ StepsAt(s) = s.at + 2
        BY <3>1 DEF HalfAfter, StepsAt
      <4>2. h + 1 = s.at + 2 /\ h \in Nat /\ s.at \in Nat
        BY <1>1, <1>2, <1>4, <4>1
      <4>3. s.at + 1 \in 1..h
        BY <4>2
      <4> QED BY <4>1, <4>3
    <3>2. CASE s.halfPos # 0
      BY <3>2 DEF HalfAfter
    <3> QED BY <3>1, <3>2
  <2> QED BY <1>1, <1>4, <2>1
<1> QED BY <1>4, <1>5, <1>6, <1>8, <1>9, <1>10 DEF Writes, w, e

LEMMA MatchStep == IndInv /\ EmitMatch => IndInv'
<1> SUFFICES ASSUME IndInv, EmitMatch PROVE IndInv'
  OBVIOUS
<1> DEFINE m == FindMatch
           s == Arrived(m)
           c == Cell("token", TokenValue(s))
           begun == Append(cells, c)
<1>1. pc = "compress" /\ pos < n /\ m # NoMatch /\ UNCHANGED <<inputs, whole, decoderVars, pc>>
  BY DEF EmitMatch
<1>2. /\ m \in [len : Nat, dist : Nat]
      /\ m.len >= MinMatch /\ pos + m.len <= n /\ m.dist \in 1..MaxOffset /\ m.dist <= pos
      /\ RepeatsAfter(data, pos, m.dist, m.len)
  BY <1>1, EncoderTyped, FoundMatch
<1> HIDE DEF m
<1>3. s.match = m /\ s.at = Len(cells) + 1 /\ s.halfPos = nibblePos /\ s.from = pos /\ s.word = flagPos
  BY DEF Arrived
<1>4. IsMatch(s) /\ Flag(s) = 1 /\ Width(s) = m.len
  BY <1>2, <1>3, Limits DEF IsMatch, Flag, Width
<1>5. Sound(data, s)
  <2>1. s.halfPos < s.at /\ s.word < s.at
    BY <1>1, <1>3, OpenPlaces
  <2>2. s.from + Width(s) <= Len(data)
    BY <1>2, <1>3, <1>4, EncoderTyped
  <2> QED BY <1>2, <1>3, <2>1, <2>2 DEF Sound
<1>6. Due(s)
  BY <1>1, <1>2, <1>5, ArrivedDue
<1>7. /\ pos' = pos + m.len /\ marks' = Append(marks, s)
      /\ IF Extra(s) < TokenLimit
         THEN PushFlag(begun, 1) /\ nibblePos' = nibblePos
         ELSE /\ PushFlag(WithNibble(begun, Nibble(s)) \o Steps(s), 1)
              /\ nibblePos' = NextNibblePos(begun)
  <2>1. m = FindMatch
    BY DEF m
  <2> QED BY <1>3, <2>1 DEF EmitMatch, Mark, Arrived, Extra, Beyond, Nibble, Steps, TokenValue
<1> HIDE DEF s
<1>8. s \in Elements /\ Extra(s) \in Nat /\ data \in Seq(Nat)
  BY <1>4, <1>5, <1>6, EncoderTyped, Places DEF Due
<1>9. c \in StreamCells /\ c.kind = "token" /\ c = Opening(data, s)
  BY <1>4, <1>5, <1>8, TokenFits DEF Cell, Opening
<1> HIDE DEF c
<1>10. CASE Extra(s) < TokenLimit
  <2>1. ~Long(s) /\ HalfAfter(s) = nibblePos
    BY <1>3, <1>8, <1>10, Limits DEF Long, HalfAfter
  <2>2. Writes(begun, s)
    BY <1>1, <1>6, <1>9, <2>1, OneCellWritten
  <2> HIDE DEF begun
  <2> QED BY <1>1, <1>4, <1>6, <1>7, <1>10, <2>1, <2>2, EmitKeeps
<1>11. CASE ~(Extra(s) < TokenLimit)
  <2>1. Long(s)
    BY <1>4, <1>8, <1>11, Limits DEF Long
  <2>2. HalfWritten(WithNibble(begun, Nibble(s)), s)
    BY <1>1, <1>6, <1>9, <2>1, NibbleWritten
  <2>3. NextNibblePos(begun) = HalfAfter(s)
    <3>1. Len(begun) + 1 = s.at + 1
      <4>1. cells \in Seq(StreamCells) /\ c \in StreamCells
        BY <1>9, EncoderTyped
      <4>2. Len(begun) = Len(cells) + 1
        BY <4>1, Appended
      <4> QED BY <1>3, <4>2
    <3> QED BY <1>3, <2>1, <3>1 DEF NextNibblePos, HalfAfter
  <2> DEFINE v == WithNibble(begun, Nibble(s))
             w == v \o Steps(s)
  <2>4. Writes(w, s)
    <3> HIDE DEF v
    <3>1. HalfWritten(v, s)
      BY <2>2 DEF v
    <3> QED BY <1>1, <1>6, <2>1, <3>1, LongWritten
  <2>5. PushFlag(w, Flag(s)) /\ nibblePos' = HalfAfter(s)
    BY <1>4, <1>7, <1>11, <2>3
  <2> HIDE DEF w
  <2> QED BY <1>1, <1>4, <1>6, <1>7, <2>4, <2>5, EmitKeeps
<1> QED BY <1>10, <1>11

(***************************************************************************)
(* The history stays true when the stream changes in its flag words only,  *)
(* or loses its end.                                                       *)
(***************************************************************************)
LEMMA TrailKept ==
  ASSUME IndInv, UNCHANGED <<inputs, encoderVars>>,
         \A i \in 1..Len(cells') :
           Intact(cells', i) => Intact(cells, i) /\ (cells'[i] = cells[i] \/ cells[i].kind = "flags")
  PROVE  /\ TrailInv' /\ Here' = Here /\ n' = n /\ data' = data /\ marks' = marks
         /\ \A k \in Nat : Stop(k)' = Stop(k)
<1>1. UNCHANGED <<data, limit, verify, pos, flags, flagPos, nibblePos, marks>>
  BY DEF inputs, encoderVars
<1>2. Here' = Here
  BY <1>1 DEF Here, StreamEnd, Final
<1>3. n' = n
  BY <1>1 DEF n
<1>4. \A k \in Nat : Stop(k)' = Stop(k)
  BY <1>1, <1>2 DEF Stop
<1>5. ASSUME NEW k \in 1..Len(marks) PROVE Carries(data, cells', marks[k])
  <2>1. marks[k] \in Elements /\ Sound(data, marks[k]) /\ Carries(data, cells, marks[k]) /\ data \in Seq(Nat)
    BY MarkTyped, EncoderTyped
  <2>2. \A i \in 1..(EndAt(marks[k]) - 1) :
          Intact(cells', i) => Intact(cells, i) /\ (cells'[i] = cells[i] \/ cells[i].kind = "flags")
    BY DEF Intact
  <2> QED BY <2>1, <2>2, CarriesKept
<1>6. TrailInv'
  <2>1. ASSUME NEW k \in 1..Len(marks')
        PROVE  Sound(data', marks'[k]) /\ Carries(data', cells', marks'[k]) /\ Follows(marks'[k], Stop(k + 1)')
    <3>1. k \in 1..Len(marks) /\ k + 1 \in Nat
      BY <1>1
    <3>2. Sound(data, marks[k]) /\ Follows(marks[k], Stop(k + 1))
      BY <3>1, MarkTyped
    <3>3. Stop(k + 1)' = Stop(k + 1)
      BY <1>4, <3>1
    <3> QED BY <1>1, <1>5, <3>1, <3>2, <3>3
  <2>2. \A k \in 1..(Len(marks') + 1) : Stop(k)'.at <= Here'.at
    <3>1. \A k \in 1..(Len(marks) + 1) : Stop(k).at <= Here.at
      BY DEF IndInv, TrailInv
    <3> QED BY <1>1, <1>2, <1>4, <3>1
  <2>3. Stop(1)'.at = 2 /\ Stop(1)'.word = 1 /\ Stop(1)'.bit = 1 /\ Stop(1)'.halfPos = 0 /\ Stop(1)'.from = 0
    <3>1. Stop(1)' = Stop(1)
      BY <1>4
    <3> QED BY <3>1 DEF IndInv, TrailInv
  <2>4. flagPos' < Here'.at /\ nibblePos' < Here'.at /\ marks' \in Seq(Elements)
    BY <1>1, <1>2 DEF IndInv, TrailInv
  <2> QED BY <2>1, <2>2, <2>3, <2>4 DEF TrailInv
<1> QED BY <1>1, <1>2, <1>3, <1>4, <1>6

LEMMA FinishStep == IndInv /\ Finish => IndInv'
<1> SUFFICES ASSUME IndInv, Finish PROVE IndInv'
  OBVIOUS
<1> DEFINE f == [i \in 1..FlagBits |-> IF i <= Len(flags) THEN flags[i] ELSE 1]
           l == Len(cells)
<1>1. /\ pc = "compress" /\ pos = n /\ pc' = "store" /\ cells' = [cells EXCEPT ![flagPos].value = f]
      /\ UNCHANGED <<inputs, encoderVars, whole, decoderVars>>
  BY DEF Finish
<1>2. /\ data \in Seq(Nat) /\ flags \in Seq({0, 1}) /\ Len(flags) \in Nat /\ Len(flags) < FlagBits
      /\ cells \in Seq(StreamCells) /\ l \in Nat
  BY EncoderTyped
<1>3. Open(cells) /\ l + 1 = Here.at /\ cells[flagPos] = Reserved /\ flagPos \in 1..l
  BY <1>1, StreamOpen DEF Open
<1>4. f \in [1..FlagBits -> {0, 1}]
  <2>1. \A i \in 1..FlagBits : i <= Len(flags) => flags[i] \in {0, 1}
    BY <1>2
  <2> QED BY <2>1
<1>5. (\A i \in 1..Len(flags) : f[i] = flags[i]) /\ f[Len(flags) + 1] = 1
  <2> DEFINE c == Len(flags)
  <2>1. \A i \in 1..FlagBits : f[i] = IF i <= c THEN flags[i] ELSE 1
    OBVIOUS
  <2>2. c + 1 \in 1..FlagBits /\ ~(c + 1 <= c) /\ \A i \in 1..c : i \in 1..FlagBits /\ i <= c
    BY <1>2, Limits
  <2> HIDE DEF c, f
  <2>3. (\A i \in 1..c : f[i] = flags[i]) /\ f[c + 1] = 1
    BY <2>1, <2>2
  <2> QED BY <2>3 DEF c
<1> HIDE DEF f
<1>6. /\ cells' \in Seq(StreamCells) /\ Len(cells') = l /\ cells'[flagPos] = Cell("flags", f)
      /\ \A i \in 1..l : i # flagPos => cells'[i] = cells[i]
  <2> DEFINE u == [cells EXCEPT ![flagPos].value = f]
  <2>1. /\ u \in Seq(StreamCells) /\ Len(u) = Len(cells) /\ u[flagPos] = Cell("flags", f)
        /\ \A i \in 1..Len(cells) : i # flagPos => u[i] = cells[i]
    BY SMTT(30), <1>2, <1>3, <1>4, WordFilled
  <2>2. cells' = u
    BY <1>1
  <2> HIDE DEF u
  <2> QED BY <2>1, <2>2
<1>7. UNCHANGED <<data, limit, verify, pos, flags, flagPos, nibblePos, marks>>
  BY <1>1 DEF inputs, encoderVars
<1>8. \A i \in 1..l : cells'[i].kind # "partial"
  <2>1. cells'[flagPos].kind = "flags"
    BY <1>6 DEF Cell
  <2>2. \A i \in 1..l : cells[i].kind # "partial"
    BY <1>3 DEF Open
  <2> QED BY <1>6, <2>1, <2>2
<1>9. Grown(cells, cells')
  BY <1>2, <1>6 DEF Grown
<1>10. /\ TrailInv' /\ Here' = Here /\ n' = n
  <2>1. \A i \in 1..Len(cells') :
           Intact(cells', i) => Intact(cells, i) /\ (cells'[i] = cells[i] \/ cells[i].kind = "flags")
    BY <1>3, <1>6 DEF Intact, Open
  <2> QED BY <1>1, <2>1, TrailKept
<1>11. EncoderInv'
  BY <1>6, <1>7, <1>10 DEF IndInv, EncoderInv
<1>12. ASSUME NEW k \in 1..Len(marks) PROVE HasFlag(cells', marks[k], Flag(marks[k]))
  <2>1. IF marks[k].word = flagPos
        THEN marks[k].bit <= Len(flags) /\ flags[marks[k].bit] = Flag(marks[k])
        ELSE HasFlag(cells, marks[k], Flag(marks[k]))
    BY <1>1 DEF IndInv, FlagInv
  <2>2. marks[k] \in Elements /\ marks[k].word < Here.at /\ marks[k].word \in Nat \ {0} /\ marks[k].bit \in Nat \ {0}
    <3>1. marks[k] \in Elements /\ Sound(data, marks[k]) /\ marks[k].at <= Here.at /\ Here.at \in Nat
      BY MarkTyped
    <3>2. marks[k].word < marks[k].at /\ marks[k].word \in Nat \ {0} /\ marks[k].at \in Nat /\ marks[k].bit \in 1..FlagBits
      BY <3>1, ElementTyped DEF Sound
    <3> QED BY <3>1, <3>2
  <2>3. CASE marks[k].word = flagPos
    <3>1. marks[k].bit \in 1..Len(flags)
      BY <1>2, <2>1, <2>2, <2>3
    <3> QED BY <1>5, <1>6, <2>1, <2>3, <3>1 DEF HasFlag, Cell
  <2>4. CASE marks[k].word # flagPos
    <3>1. marks[k].word <= l
      BY <1>2, <1>3, <2>2
    <3> QED BY <1>3, <1>9, <2>1, <2>2, <2>4, <3>1, FlagGrown
  <2> QED BY <2>3, <2>4
<1>13. HasFlag(cells', Here, 1)
  BY <1>5, <1>6 DEF HasFlag, Here, Cell
<1>14. FlagInv'
  BY <1>1, <1>7, <1>10, <1>12, <1>13 DEF FlagInv
<1>15. NibbleInv'
  BY <1>1, <1>7 DEF IndInv, NibbleInv
<1>16. StageInv'
  <2>1. whole /\ status = "working" /\ at = 1 /\ window = << >> /\ halfPos = 0 /\ elements = 0 /\ out = << >>
    BY <1>1 DEF IndInv, StageInv
  <2>2. UNCHANGED <<at, window, halfPos, elements, out, status>>
    BY <1>1 DEF decoderVars
  <2>3. whole' /\ pc' = "store" /\ pos' = n'
    BY <1>1, <1>7, <1>10, <2>1
  <2>4. Len(cells') + 1 = Here'.at /\ Len(cells') + 1 \in Nat
    BY <1>2, <1>3, <1>6, <1>10
  <2>5. Len(cells') + 1 <= Here'.at
    BY <2>4
  <2>6. \A i \in 1..Len(cells') : cells'[i].kind # "partial"
    BY <1>6, <1>8
  <2> QED BY <2>1, <2>2, <2>3, <2>4, <2>5, <2>6 DEF StageInv
<1>17. OutInv' /\ DecoderInv'
  <2>1. marks' \in Seq(Elements)
    BY <1>10 DEF TrailInv
  <2> QED BY <1>1, <1>11, <2>1, DecoderAsleep
<1> QED BY <1>10, <1>11, <1>14, <1>15, <1>16, <1>17 DEF IndInv

LEMMA InitEstablishes == Init => IndInv
<1> SUFFICES ASSUME Init PROVE IndInv
  OBVIOUS
<1>1. /\ data \in Seq(Nat) /\ pos = 0 /\ cells = <<Reserved>> /\ flags = << >> /\ flagPos = 1 /\ nibblePos = 0
      /\ marks = << >> /\ whole = TRUE /\ at = 1 /\ window = << >> /\ halfPos = 0 /\ offset = 0 /\ length = 0
      /\ elements = 0 /\ out = << >> /\ pc = "compress" /\ status = "working" /\ n \in Nat /\ n = Len(data)
  BY PlainLz77Assumption DEF Init, n
<1>2. limit \in Nat /\ verify \in BOOLEAN /\ (verify => limit = n)
  <2>1. limit \in {n - 1, n, n + 1} \ {-1}
    BY DEF Init, n
  <2>2. verify \in IF limit = n THEN BOOLEAN ELSE {FALSE}
    BY DEF Init, n
  <2>3. limit \in Nat
    BY <1>1, <2>1
  <2>4. CASE limit = n
    BY <2>2, <2>3, <2>4
  <2>5. CASE limit # n
    <3>1. verify = FALSE
      BY <2>2, <2>5
    <3> QED BY <2>3, <3>1
  <2> QED BY <2>4, <2>5
<1>3. /\ cells \in Seq(StreamCells) /\ Len(cells) = 1 /\ cells[1] = Reserved
  <2> DEFINE r == Reserved
  <2>1. r \in StreamCells /\ cells = <<r>>
    BY <1>1, ReservedTyped
  <2> HIDE DEF r
  <2>2. cells \in Seq(StreamCells) /\ Len(cells) = 1 /\ cells[1] = r
    BY <2>1
  <2> QED BY <2>2 DEF r
<1>4. /\ Len(marks) = 0 /\ Here.at = 2 /\ Here.halfPos = 0 /\ Here.from = 0 /\ Here.word = 1 /\ Here.bit = 1
      /\ Stop(1) = Here
  BY <1>1 DEF Here, StreamEnd, Stop
<1>5. EncoderInv
  BY <1>1, <1>2, <1>3, Limits DEF EncoderInv
<1>6. TrailInv
  BY <1>1, <1>4 DEF TrailInv
<1>7. FlagInv
  BY <1>1, <1>3, <1>4 DEF FlagInv
<1>8. NibbleInv
  BY <1>1, <1>4 DEF NibbleInv
<1>9. StageInv
  <2>1. \A i \in 1..Len(cells) : cells[i].kind # "partial"
    BY <1>3, ReservedTyped
  <2> QED BY <1>1, <1>3, <1>4, <2>1 DEF StageInv
<1>10. OutInv
  BY <1>1, <1>2 DEF OutInv
<1>11. DecoderInv
  BY <1>1, <1>4, Limits DEF DecoderInv
<1> QED BY <1>5, <1>6, <1>7, <1>8, <1>9, <1>10, <1>11 DEF IndInv

----------------------------------------------------------------------------
(* Storing *)

(***************************************************************************)
(* What is stored are the cells written, or the first of them, the last    *)
(* perhaps cut through.                                                    *)
(***************************************************************************)
LEMMA CutShort ==
  ASSUME cells \in Seq(StreamCells), cells' \in {cells} \union Truncations
  PROVE  /\ cells' \in Seq(StreamCells) /\ Len(cells') <= Len(cells) /\ Len(cells') \in Nat
         /\ \A i \in 1..Len(cells') : Intact(cells', i) => cells'[i] = cells[i]
         /\ cells' # cells /\ Len(cells') = Len(cells) =>
              cells' # << >> /\ cells'[Len(cells')].kind = "partial"
<1> DEFINE l == Len(cells)
           cut == Cell("partial", 0)
<1>0. l \in Nat /\ cut \in StreamCells /\ cut.kind = "partial"
  BY DEF Cell, StreamCells
<1>1. CASE cells' = cells
  BY <1>1, <1>0
<1>2. ASSUME NEW k \in 0..(l - 1), cells' = SubSeq(cells, 1, k)
      PROVE  /\ cells' \in Seq(StreamCells) /\ Len(cells') = k
             /\ \A i \in 1..k : cells'[i] = cells[i]
  BY <1>0, <1>2
<1>3. ASSUME NEW k \in 0..(l - 1), cells' = Append(SubSeq(cells, 1, k), Cell("partial", 0))
      PROVE  /\ cells' \in Seq(StreamCells) /\ Len(cells') = k + 1
             /\ \A i \in 1..k : cells'[i] = cells[i]
             /\ cells'[k + 1] = cut
  <2> DEFINE b == SubSeq(cells, 1, k)
  <2>1. b \in Seq(StreamCells) /\ Len(b) = k /\ \A i \in 1..k : b[i] = cells[i]
    BY <1>0
  <2>2. cells' = Append(b, cut)
    BY <1>3
  <2> HIDE DEF b, cut
  <2>3. /\ Append(b, cut) \in Seq(StreamCells) /\ Len(Append(b, cut)) = Len(b) + 1
        /\ Append(b, cut)[Len(b) + 1] = cut /\ \A i \in 1..Len(b) : Append(b, cut)[i] = b[i]
    BY <1>0, <2>1, Appended
  <2> QED BY <2>1, <2>2, <2>3
<1> HIDE DEF cut
<1>4. CASE \E k \in 0..(l - 1) : cells' = SubSeq(cells, 1, k)
  <2>1. PICK k \in 0..(l - 1) : cells' = SubSeq(cells, 1, k)
    BY <1>4
  <2>2. /\ cells' \in Seq(StreamCells) /\ Len(cells') = k /\ \A i \in 1..k : cells'[i] = cells[i]
    BY <1>2, <2>1
  <2> QED BY <1>0, <2>2 DEF Intact
<1>5. CASE \E k \in 0..(l - 1) : cells' = Append(SubSeq(cells, 1, k), Cell("partial", 0))
  <2>1. PICK k \in 0..(l - 1) : cells' = Append(SubSeq(cells, 1, k), Cell("partial", 0))
    BY <1>5
  <2>2. /\ cells' \in Seq(StreamCells) /\ Len(cells') = k + 1 /\ \A i \in 1..k : cells'[i] = cells[i]
        /\ cells'[k + 1] = cut
    BY <1>3, <2>1
  <2>3. ASSUME NEW i \in 1..Len(cells'), Intact(cells', i) PROVE cells'[i] = cells[i]
    <3>1. i # k + 1
      BY <1>0, <2>2, <2>3 DEF Intact
    <3> QED BY <1>0, <2>2, <3>1
  <2>4. Len(cells') <= l /\ Len(cells') \in Nat /\ cells' # << >> /\ cells'[Len(cells')].kind = "partial"
    BY <1>0, <2>2
  <2> QED BY <2>2, <2>3, <2>4
<1>6. \/ cells' = cells \/ (\E k \in 0..(l - 1) : cells' = SubSeq(cells, 1, k))
      \/ \E k \in 0..(l - 1) : cells' = Append(SubSeq(cells, 1, k), Cell("partial", 0))
  BY DEF Truncations
<1> QED BY <1>1, <1>4, <1>5, <1>6

LEMMA StoreStep == IndInv /\ Store => IndInv'
<1> SUFFICES ASSUME IndInv, Store PROVE IndInv'
  OBVIOUS
<1> DEFINE l == Len(cells)
<1>1. /\ pc = "store" /\ cells' \in {cells} \union Truncations /\ whole' = (cells' = cells) /\ pc' = "flag"
      /\ UNCHANGED <<inputs, encoderVars, decoderVars>>
  BY DEF Store
<1>2. cells \in Seq(StreamCells) /\ l \in Nat
  BY EncoderTyped
<1>3. /\ cells' \in Seq(StreamCells) /\ Len(cells') <= l /\ Len(cells') \in Nat
      /\ \A i \in 1..Len(cells') : Intact(cells', i) => cells'[i] = cells[i]
      /\ cells' # cells /\ Len(cells') = l => cells' # << >> /\ cells'[Len(cells')].kind = "partial"
  BY <1>1, <1>2, CutShort
<1>4. /\ UNCHANGED <<data, limit, verify, pos, flags, flagPos, nibblePos, marks>>
      /\ UNCHANGED <<at, window, halfPos, offset, length, elements, out, status>>
  BY <1>1 DEF inputs, encoderVars, decoderVars
<1>5. /\ pos = n /\ whole /\ l + 1 = Here.at /\ \A i \in 1..l : cells[i].kind # "partial"
      /\ status = "working" /\ at = 1 /\ window = << >> /\ halfPos = 0 /\ elements = 0 /\ out = << >>
  BY <1>1 DEF IndInv, StageInv
<1>6. ASSUME NEW i, Intact(cells', i) PROVE Intact(cells, i) /\ cells'[i] = cells[i]
  <2>1. i \in 1..Len(cells') /\ cells'[i] = cells[i] /\ i \in 1..l
    BY <1>2, <1>3, <1>6 DEF Intact
  <2> QED BY <1>5, <2>1 DEF Intact
<1>7. TrailInv' /\ Here' = Here /\ n' = n /\ Stop(1)' = Stop(1)
  <2>1. \A i \in 1..Len(cells') :
          Intact(cells', i) => Intact(cells, i) /\ (cells'[i] = cells[i] \/ cells[i].kind = "flags")
    BY <1>6
  <2> QED BY <1>1, <2>1, TrailKept
<1>8. EncoderInv'
  BY <1>3, <1>4, <1>7 DEF IndInv, EncoderInv
<1>9. FlagInv'
  <2>1. ASSUME NEW s, NEW flag, HasFlag(cells, s, flag) PROVE HasFlag(cells', s, flag)
    BY <1>6, <2>1 DEF HasFlag
  <2>2. \A k \in 1..Len(marks) : HasFlag(cells, marks[k], Flag(marks[k]))
    BY <1>1 DEF IndInv, FlagInv
  <2>3. HasFlag(cells, Here, 1)
    BY <1>1 DEF IndInv, FlagInv
  <2> QED BY <1>1, <1>4, <1>7, <2>1, <2>2, <2>3 DEF FlagInv
<1>10. NibbleInv'
  BY <1>1, <1>4 DEF IndInv, NibbleInv
<1>11. StageInv'
  <2>1. Len(cells') + 1 <= Here'.at
    BY <1>2, <1>3, <1>5, <1>7
  <2>2. whole' => Len(cells') + 1 = Here'.at /\ \A i \in 1..Len(cells') : cells'[i].kind # "partial"
    BY <1>1, <1>5, <1>7
  <2>3. ~whole' /\ Len(cells') + 1 = Here'.at => cells' # << >> /\ cells'[Len(cells')].kind = "partial"
    <3>1. ~whole' => cells' # cells
      BY <1>1
    <3>2. Len(cells') + 1 = Here'.at => Len(cells') = l
      <4>1. Here'.at = l + 1
        BY <1>5, <1>7
      <4> QED BY <1>2, <1>3, <4>1
    <3> QED BY <1>3, <3>1, <3>2
  <2>4. pos' = n' /\ whole' \in BOOLEAN /\ pc' = "flag"
    BY <1>1, <1>4, <1>5, <1>7
  <2> QED BY <2>1, <2>2, <2>3, <2>4 DEF StageInv
<1>12. OutInv'
  BY <1>1, <1>4, <1>5, <1>7 DEF IndInv, OutInv
<1>13. DecoderInv'
  <2>1. /\ elements \in 0..Len(marks) /\ at \in Nat \ {0} /\ halfPos \in Nat
        /\ window \in Seq({0, 1}) /\ Len(window) <= FlagBits
    BY DEF IndInv, DecoderInv
  <2>2. Stop(elements + 1)' = Stop(1)
    <3>1. elements' + 1 = 1
      BY <1>4, <1>5
    <3> QED BY <1>7, <3>1
  <2>3. Stop(1).word = 1 /\ Stop(1).bit = 1 /\ Stop(1).halfPos = 0 /\ Stop(1).from = 0
    BY DEF IndInv, TrailInv
  <2>4. Decoding(Stop(elements + 1))'
    BY <1>1, <1>4, <1>5, <2>2, <2>3 DEF Decoding
  <2> QED BY <1>4, <1>5, <2>1, <2>4 DEF DecoderInv
<1> QED BY <1>7, <1>8, <1>9, <1>10, <1>11, <1>12, <1>13 DEF IndInv

----------------------------------------------------------------------------
(* decompress *)

Reading == {"flag", "nibble", "byte", "word", "dword", "copy"}

LEMMA StoredKept ==
  ASSUME UNCHANGED stored
  PROVE  /\ UNCHANGED <<data, limit, verify, pos, flags, flagPos, nibblePos, marks, cells, whole>>
         /\ n' = n /\ Here' = Here /\ \A k \in Nat : Stop(k)' = Stop(k)
<1>1. UNCHANGED <<data, limit, verify, pos, flags, flagPos, nibblePos, marks, cells, whole>>
  BY DEF stored, inputs, encoderVars
<1>2. Here' = Here /\ n' = n
  BY <1>1 DEF Here, StreamEnd, Final, n
<1>3. \A k \in Nat : Stop(k)' = Stop(k)
  BY <1>1, <1>2 DEF Stop
<1> QED BY <1>1, <1>2, <1>3

(***************************************************************************)
(* While decompress runs the stream stays as it was stored.                *)
(***************************************************************************)
LEMMA DecoderKeeps ==
  ASSUME IndInv, pc \in Reading, pc' \in Reading, UNCHANGED stored, OutInv', DecoderInv'
  PROVE  IndInv'
<1>1. /\ UNCHANGED <<data, limit, verify, pos, flags, flagPos, nibblePos, marks, cells, whole>>
      /\ n' = n /\ Here' = Here
  BY StoredKept
<1>2. pc \notin {"compress", "store"} /\ pc' \notin {"compress", "store"}
  BY DEF Reading
<1>3. EncoderInv'
  BY <1>1 DEF IndInv, EncoderInv
<1>4. TrailInv'
  <2>1. UNCHANGED <<inputs, encoderVars>> /\ cells' = cells
    BY DEF stored
  <2> QED BY <2>1, TrailKept
<1>5. FlagInv'
  BY <1>1, <1>2 DEF IndInv, FlagInv, HasFlag, Intact
<1>6. NibbleInv'
  BY <1>1, <1>2 DEF IndInv, NibbleInv
<1>7. StageInv'
  BY <1>1, <1>2 DEF IndInv, StageInv
<1> QED BY <1>3, <1>4, <1>5, <1>6, <1>7 DEF IndInv

(***************************************************************************)
(* Every verdict the code gives is the right one.                          *)
(***************************************************************************)
LEMMA EndKeeps ==
  ASSUME IndInv, pc \in Reading, NEW verdict \in {"done", "refused", "corrupt"}, End(verdict),
         verdict = "done" => (whole => Len(out) = n) /\ (verify => whole),
         verdict = "refused" => n > limit,
         verdict = "corrupt" => ~whole
  PROVE  IndInv'
<1>1. /\ status' = verdict /\ UNCHANGED stored
      /\ UNCHANGED <<at, window, halfPos, offset, length, elements, out, pc>>
  BY DEF End
<1>2. /\ UNCHANGED <<data, limit, verify, pos, flags, flagPos, nibblePos, marks, cells, whole>>
      /\ n' = n /\ \A k \in Nat : Stop(k)' = Stop(k)
  BY <1>1, StoredKept
<1>3. OutInv'
  BY <1>1, <1>2 DEF IndInv, OutInv
<1>4. pc \notin {"compress", "store"}
  BY DEF Reading
<1>5. DecoderInv'
  <2>0. PICK k : k = elements + 1
    OBVIOUS
  <2>1. /\ elements \in 0..Len(marks) /\ at \in Nat \ {0} /\ halfPos \in Nat
        /\ window \in Seq({0, 1}) /\ Len(window) <= FlagBits
        /\ \A i \in 1..(at - 1) : Intact(cells, i)
        /\ Decoding(Stop(k))
    BY <1>4, <2>0 DEF IndInv, DecoderInv
  <2>2. PICK s : s = Stop(k)
    OBVIOUS
  <2>3. Decoding(s)'
    BY <1>1, <1>2, <2>1, <2>2 DEF Decoding, Ahead, InLadder, Intact
  <2>4. Stop(k)' = s /\ elements' + 1 = k
    <3>1. Len(marks) \in Nat /\ k \in Nat
      BY <2>0, <2>1, MarkTyped DEF IndInv, TrailInv
    <3> QED BY <1>1, <1>2, <2>0, <2>2, <3>1
  <2>5. Decoding(Stop(elements + 1))'
    BY <2>3, <2>4
  <2>6. \A i \in 1..(at' - 1) : Intact(cells', i)
    BY <1>1, <1>2, <2>1
  <2> QED BY <1>1, <1>2, <2>1, <2>5, <2>6 DEF DecoderInv
<1> QED BY <1>1, <1>3, <1>5, DecoderKeeps

(***************************************************************************)
(* The stream has every cell in front of its end, unless its end was lost. *)
(***************************************************************************)
LEMMA Lost ==
  ASSUME IndInv, NEW i \in Nat \ {0}, i < Here.at, ~Intact(cells, i)
  PROVE  ~whole
<1> SUFFICES ASSUME whole PROVE FALSE
  OBVIOUS
<1>1. Len(cells) + 1 = Here.at /\ Len(cells) \in Nat /\ \A j \in 1..Len(cells) : cells[j].kind # "partial"
  BY EncoderTyped DEF IndInv, StageInv
<1>2. i \in 1..Len(cells)
  BY <1>1
<1> QED BY <1>1, <1>2 DEF Intact

LEMMA StopTyped ==
  ASSUME IndInv, NEW k \in 1..(Len(marks) + 1)
  PROVE  /\ Stop(k) \in Elements /\ Stop(k).word < Stop(k).at /\ Stop(k).at <= Here.at
         /\ Here.at \in Nat /\ Len(marks) \in Nat
         /\ Stop(k).bit = 1 => Stop(k).at = Stop(k).word + 1
<1>1. /\ marks \in Seq(Elements) /\ Len(marks) \in Nat /\ \A j \in 1..(Len(marks) + 1) : Stop(j).at <= Here.at
      /\ flagPos < Here.at /\ Stop(1).at = 2 /\ Stop(1).word = 1
  BY DEF IndInv, TrailInv
<1>2. Here.at \in Nat \ {0}
  <2>1. CASE marks = << >>
    BY <2>1 DEF Here, StreamEnd
  <2>2. CASE marks # << >>
    <3>1. Len(marks) \in 1..Len(marks)
      BY <1>1, <2>2
    <3>2. Here.at \in Nat
      BY <3>1, MarkTyped
    <3>3. flagPos \in Nat \ {0}
      BY EncoderTyped
    <3> QED BY <1>1, <3>2, <3>3
  <2> QED BY <2>1, <2>2
<1>3. ASSUME k = Len(marks) + 1 PROVE Stop(k) \in Elements /\ Stop(k).word < Stop(k).at
  <2>1. Stop(k) = Here
    BY <1>1, <1>3 DEF Stop
  <2>2. /\ nibblePos \in Nat /\ pos \in Nat /\ flagPos \in Nat \ {0} /\ Len(flags) + 1 \in 1..FlagBits
    BY EncoderTyped, Limits
  <2>3. NoMatch \in [len : Nat, dist : Nat]
    BY DEF NoMatch
  <2>4. Here \in Elements
    <3>1. StreamEnd \in Nat \ {0}
      BY <1>2 DEF Here
    <3> QED BY <2>2, <2>3, <3>1 DEF Here, Elements
  <2>5. Here.word = flagPos
    BY DEF Here
  <2> QED BY <1>1, <2>1, <2>4, <2>5
<1>4. ASSUME k \in 1..Len(marks) PROVE Stop(k) \in Elements /\ Stop(k).word < Stop(k).at
  <2>1. Stop(k) = marks[k] /\ marks[k] \in Elements /\ Sound(data, marks[k])
    BY <1>4, MarkTyped
  <2> QED BY <2>1 DEF Sound
<1>5. ASSUME Stop(k).bit = 1 PROVE Stop(k).at = Stop(k).word + 1
  <2>1. CASE k = 1
    BY <1>1, <2>1
  <2>2. CASE k # 1
    <3>1. PICK j : j = k - 1
      OBVIOUS
    <3>2. j \in 1..Len(marks) /\ j + 1 = k
      BY <1>1, <2>2, <3>1
    <3>3. marks[j] \in Elements /\ Follows(marks[j], Stop(k))
      BY <3>2, MarkTyped
    <3>4. marks[j].bit \in 1..FlagBits
      BY <3>3, ElementTyped
    <3>5. marks[j].bit = FlagBits
      BY <1>5, <3>3, <3>4, Limits DEF Follows
    <3> QED BY <3>3, <3>5 DEF Follows
  <2> QED BY <2>1, <2>2
<1>6. Stop(k) \in Elements /\ Stop(k).word < Stop(k).at
  BY <1>1, <1>3, <1>4
<1> QED BY <1>1, <1>2, <1>5, <1>6

(***************************************************************************)
(* The decoder is within an element of the stream, or past the last.       *)
(***************************************************************************)
LEMMA AtElement ==
  ASSUME IndInv, pc \in Reading, elements < Len(marks), NEW s, s = Stop(elements + 1)
  PROVE  /\ s \in Elements /\ Sound(data, s) /\ Carries(data, cells, s) /\ Follows(s, Stop(elements + 2))
         /\ HasFlag(cells, s, Flag(s)) /\ s.at \in Nat \ {0} /\ s.halfPos \in Nat /\ s.from \in Nat
         /\ EndAt(s) <= Here.at /\ EndAt(s) \in Nat /\ s.at < EndAt(s) /\ Here.at \in Nat
         /\ Decoding(s) /\ elements \in Nat /\ Len(marks) \in Nat /\ s.from + Width(s) <= n
<1>0. PICK k : k = elements + 1
  OBVIOUS
<1>1. elements \in 0..Len(marks) /\ Decoding(s) /\ Len(marks) \in Nat
  <2>1. pc \notin {"compress", "store"} /\ marks \in Seq(Elements)
    BY DEF Reading, IndInv, TrailInv
  <2> QED BY <2>1 DEF IndInv, DecoderInv
<1>2. k \in 1..Len(marks) /\ k + 1 = elements + 2 /\ s = Stop(k)
  BY <1>0, <1>1
<1>3. /\ s = marks[k] /\ s \in Elements /\ Sound(data, s) /\ Carries(data, cells, s) /\ Follows(s, Stop(elements + 2))
      /\ EndAt(s) <= Stop(k + 1).at /\ Stop(k + 1).at <= Here.at /\ EndAt(s) \in Nat /\ Here.at \in Nat
  BY <1>2, MarkTyped
<1>4. EndAt(s) <= Here.at
  <2>1. k + 1 \in 1..(Len(marks) + 1)
    BY <1>1, <1>2
  <2>2. Stop(k + 1).at \in Nat
    BY <2>1, StopTyped, ElementTyped
  <2> QED BY <1>3, <2>2
<1>5. HasFlag(cells, s, Flag(s))
  BY <1>2, <1>3 DEF IndInv, FlagInv, Reading
<1>6. s.at < EndAt(s) /\ s.at \in Nat \ {0} /\ s.halfPos \in Nat /\ s.from \in Nat
  BY <1>3, Places, ElementTyped, EncoderTyped
<1>7. s.from + Width(s) <= n
  BY <1>3, EncoderTyped DEF Sound
<1> QED BY <1>1, <1>3, <1>4, <1>5, <1>6, <1>7

LEMMA AtEnd ==
  ASSUME IndInv, pc \in Reading, ~(elements < Len(marks)), NEW s, s = Stop(elements + 1)
  PROVE  /\ s = Here /\ elements = Len(marks) /\ Decoding(s) /\ Len(out) = n /\ HasFlag(cells, s, 1)
         /\ elements \in Nat /\ Here.at \in Nat
<1>1. elements \in 0..Len(marks) /\ Decoding(s) /\ Len(marks) \in Nat
  <2>1. pc \notin {"compress", "store"} /\ marks \in Seq(Elements)
    BY DEF Reading, IndInv, TrailInv
  <2> QED BY <2>1 DEF IndInv, DecoderInv
<1>2. elements = Len(marks)
  BY <1>1
<1>3. s = Here
  BY <1>1, <1>2 DEF Stop
<1>4. Here.from = pos /\ pos = n
  BY DEF Here, Reading, IndInv, StageInv
<1>5. HasFlag(cells, s, 1)
  BY <1>3 DEF IndInv, FlagInv, Reading
<1>6. Here.at \in Nat
  <2>1. Len(marks) + 1 \in 1..(Len(marks) + 1)
    BY <1>1
  <2> QED BY <2>1, StopTyped
<1> QED BY <1>1, <1>2, <1>3, <1>4, <1>5, <1>6 DEF Decoding

LEMMA NextFlag ==
  ASSUME IndInv, pc \in Reading, window # << >>, NEW s, s = Stop(elements + 1)
  PROVE  window[1] = IF elements < Len(marks) THEN Flag(s) ELSE 1
<1>1. /\ Decoding(s) /\ HasFlag(cells, s, IF elements < Len(marks) THEN Flag(s) ELSE 1) /\ s.bit \in 1..FlagBits
  <2>1. CASE elements < Len(marks)
    BY <2>1, AtElement, ElementTyped
  <2>2. CASE ~(elements < Len(marks))
    <3>1. Here.bit \in 1..FlagBits
      <4>1. Here.bit = Len(flags) + 1
        BY DEF Here
      <4> QED BY <4>1, EncoderTyped, Limits
    <3> QED BY <2>2, <3>1, AtEnd
  <2> QED BY <2>1, <2>2
<1>2. /\ window \in Seq({0, 1}) /\ Intact(cells, s.word)
      /\ \A i \in 1..Len(window) : window[i] = cells[s.word].value[s.bit + i - 1]
  BY <1>1 DEF Decoding, Ahead
<1>3. 1 \in 1..Len(window) /\ s.bit + 1 - 1 = s.bit
  BY <1>1, <1>2, Limits
<1>4. window[1] = cells[s.word].value[s.bit]
  BY <1>2, <1>3
<1> QED BY <1>1, <1>2, <1>4 DEF HasFlag

\* What a read finds when all the cells before it were there.
LEMMA ReadFinds ==
  ASSUME IndInv, at < Here.at
  PROVE  /\ Missing => ~whole
         /\ ~Missing => Intact(cells, at) /\ \A i \in 1..at : Intact(cells, i)
<1>1. at \in Nat \ {0} /\ (\A i \in 1..(at - 1) : Intact(cells, i)) /\ Len(cells) \in Nat
  BY EncoderTyped DEF IndInv, DecoderInv
<1>2. Missing <=> ~Intact(cells, at)
  BY <1>1 DEF Missing, Intact
<1>3. ~Intact(cells, at) => ~whole
  BY <1>1, Lost
<1>4. \A i \in 1..at : i \in 1..(at - 1) \/ i = at
  BY <1>1
<1> QED BY <1>1, <1>2, <1>3, <1>4

(***************************************************************************)
(* A step within a match keeps the invariant if it leaves the decoder at   *)
(* the next field of it.                                                   *)
(***************************************************************************)
LEMMA Within ==
  ASSUME IndInv, pc \in Reading, Running, elements < Len(marks), NEW s, s = Stop(elements + 1),
         UNCHANGED <<stored, window, elements, out, status>>, window # << >>, IsMatch(s),
         at' \in Nat \ {0}, halfPos' \in Nat, \A i \in 1..(at' - 1) : Intact(cells, i),
         pc' \in {"nibble", "byte", "word", "dword", "copy"},
         offset' = s.match.dist, length' \in Nat,
         pc' # "copy" => InLadder(s)',
         pc' = "copy" => at' = EndAt(s) /\ halfPos' = HalfAfter(s) /\ length' = s.match.len
  PROVE  IndInv'
<1>1. /\ UNCHANGED <<data, limit, verify, pos, flags, flagPos, nibblePos, marks, cells, whole>>
      /\ n' = n /\ \A k \in Nat : Stop(k)' = Stop(k)
  BY StoredKept
<1>2. s \in Elements /\ Decoding(s) /\ elements \in Nat
  BY AtElement
<1>3. Stop(elements + 1)' = s
  <2>1. elements + 1 \in Nat /\ elements' + 1 = elements + 1
    BY <1>2
  <2> QED BY <1>1, <2>1
<1>4. Decoding(s)'
  <2>1. Ahead(s)'
    BY <1>1, <1>2 DEF Decoding, Ahead, Intact
  <2>2. Len(out') = s.from
    BY <1>2 DEF Decoding
  <2> QED BY <1>1, <2>1, <2>2 DEF Decoding
<1>5. DecoderInv'
  <2>1. elements \in 0..Len(marks) /\ window \in Seq({0, 1}) /\ Len(window) <= FlagBits
    BY DEF IndInv, DecoderInv
  <2>2. \A i \in 1..(at' - 1) : Intact(cells', i)
    BY <1>1
  <2>3. Decoding(Stop(elements + 1))'
    BY <1>3, <1>4
  <2> QED BY <1>1, <2>1, <2>2, <2>3 DEF DecoderInv
<1>6. OutInv'
  <2>1. s.match.dist \in Nat
    BY <1>2, ElementTyped
  <2> QED BY <1>1, <2>1 DEF IndInv, OutInv, Running
<1>7. pc' \in Reading
  BY DEF Reading
<1> QED BY <1>5, <1>6, <1>7, DecoderKeeps

LEMMA Behind ==
  ASSUME NEW S, NEW a \in Seq(S), a # << >>
  PROVE  /\ SubSeq(a, 2, Len(a)) \in Seq(S) /\ Len(SubSeq(a, 2, Len(a))) = Len(a) - 1 /\ Len(a) \in Nat \ {0}
         /\ \A i \in 1..(Len(a) - 1) : SubSeq(a, 2, Len(a))[i] = a[i + 1]
<1>1. Len(a) \in Nat \ {0} /\ 2 \in 1..(Len(a) + 1)
  OBVIOUS
<1> DEFINE b == SubSeq(a, 2, Len(a))
<1>2. b \in Seq(S) /\ Len(b) = Len(a) - 1 /\ \A i \in 1..Len(b) : b[i] = a[2 + i - 1]
  <2>1. \A i \in 2..Len(a) : a[i] \in S
    BY <1>1
  <2>2. /\ b \in Seq(S) /\ Len(b) = (IF 2 <= Len(a) THEN Len(a) - 2 + 1 ELSE 0)
        /\ \A i \in 1..(Len(a) - 2 + 1) : b[i] = a[2 + i - 1]
    <3>1. 2 \in Int /\ Len(a) \in Int
      BY <1>1
    <3> QED BY <2>1, <3>1, SubSeqProperties
  <2> HIDE DEF b
  <2>3. Len(b) = Len(a) - 1 /\ Len(a) - 2 + 1 = Len(b)
    <3> DEFINE l == Len(a)
    <3>1. Len(b) = (IF 2 <= l THEN l - 2 + 1 ELSE 0) /\ l \in Nat \ {0}
      BY <1>1, <2>2
    <3> HIDE DEF l
    <3>2. Len(b) = l - 1 /\ l - 2 + 1 = l - 1
      BY <3>1
    <3> QED BY <3>2 DEF l
  <2> QED BY <2>2, <2>3
<1> HIDE DEF b
<1>3. \A i \in 1..(Len(a) - 1) : b[i] = a[i + 1]
  BY <1>1, <1>2
<1> QED BY <1>1, <1>2, <1>3 DEF b

LEMMA FrontLength ==
  ASSUME NEW d \in Seq(Nat), NEW k \in 0..Len(d)
  PROVE  Len(SubSeq(d, 1, k)) = k
OBVIOUS

(***************************************************************************)
(* An element decoded is followed by the next.                             *)
(***************************************************************************)
LEMMA Moves ==
  ASSUME IndInv, pc \in Reading, Running, elements < Len(marks), NEW s, s = Stop(elements + 1),
         window # << >>, NEW text, Produce(text), text = SubSeq(data, 1, s.from + Width(s)),
         s.from + Width(s) <= limit,
         at' = EndAt(s), halfPos' = HalfAfter(s), \A i \in 1..(EndAt(s) - 1) : Intact(cells, i)
  PROVE  IndInv'
<1>1. /\ out' = text /\ elements' = elements + 1 /\ window' = SubSeq(window, 2, Len(window))
      /\ pc' = "flag" /\ UNCHANGED <<stored, halfPos, offset, length, status>>
  BY DEF Produce
<1>2. /\ UNCHANGED <<data, limit, verify, pos, flags, flagPos, nibblePos, marks, cells, whole>>
      /\ n' = n /\ \A k \in Nat : Stop(k)' = Stop(k)
  BY <1>1, StoredKept
<1>3. PICK t : t = Stop(elements + 2)
  OBVIOUS
<1>4. /\ s \in Elements /\ Sound(data, s) /\ Follows(s, t) /\ EndAt(s) \in Nat /\ s.at < EndAt(s)
      /\ Decoding(s) /\ elements \in Nat /\ Len(marks) \in Nat /\ s.from + Width(s) <= n /\ s.at \in Nat
  BY <1>3, AtElement
<1>5. s.bit \in 1..FlagBits /\ s.from \in Nat /\ Width(s) \in Nat \ {0} /\ data \in Seq(Nat) /\ n = Len(data)
      /\ HalfAfter(s) \in Nat /\ limit \in Nat
  BY <1>4, EncoderTyped, ElementTyped, Places DEF IndInv, EncoderInv
<1>6. /\ window \in Seq({0, 1}) /\ Len(window) = FlagBits + 1 - s.bit
      /\ Intact(cells, s.word)
      /\ \A i \in 1..Len(window) : window[i] = cells[s.word].value[s.bit + i - 1]
  BY <1>4 DEF Decoding, Ahead
<1>7. /\ window' \in Seq({0, 1}) /\ Len(window') = FlagBits - s.bit
      /\ \A i \in 1..(FlagBits - s.bit) : window'[i] = window[i + 1]
  <2> DEFINE b == s.bit
  <2>1. /\ window' \in Seq({0, 1}) /\ Len(window') = Len(window) - 1
        /\ \A i \in 1..(Len(window) - 1) : window'[i] = window[i + 1]
    BY <1>1, <1>6, Behind
  <2>2. b \in 1..FlagBits /\ Len(window) = FlagBits + 1 - b
    BY <1>5, <1>6
  <2> HIDE DEF b
  <2>3. Len(window) - 1 = FlagBits - b
    BY <2>2, Limits
  <2>4. /\ window' \in Seq({0, 1}) /\ Len(window') = FlagBits - b
        /\ \A i \in 1..(FlagBits - b) : window'[i] = window[i + 1]
    BY <2>1, <2>3
  <2> QED BY <2>4 DEF b
<1>8. Len(out') = s.from + Width(s) /\ out' = SubSeq(data', 1, Len(out'))
  <2> DEFINE k == s.from + Width(s)
  <2>1. k \in 0..Len(data)
    BY <1>4, <1>5
  <2>2. Len(SubSeq(data, 1, k)) = k
    <3> HIDE DEF k
    <3> QED BY <1>5, <2>1, FrontLength
  <2> QED BY <1>1, <1>2, <2>2
<1>9. Stop(elements + 1)' = t
  <2>1. elements + 2 \in Nat /\ elements' + 1 = elements + 2
    BY <1>1, <1>4
  <2> QED BY <1>2, <1>3, <2>1
<1>10. Decoding(t)'
  <2>1. Len(out') = t.from /\ t.halfPos = halfPos'
    BY <1>4, <1>8 DEF Follows
  <2>2. CASE s.bit = FlagBits
    <3>1. window' = << >>
      BY <1>7, <2>2, Limits
    <3>2. t.bit = 1 /\ t.word = at'
      BY <1>4, <2>2 DEF Follows
    <3> QED BY <1>1, <2>1, <3>1, <3>2 DEF Decoding
  <2>3. CASE s.bit # FlagBits
    <3>1. t.bit = s.bit + 1 /\ t.word = s.word /\ t.at = at'
      BY <1>4, <2>3 DEF Follows
    <3>2. window' # << >>
      BY <1>5, <1>7, <2>3, Limits
    <3>3. Len(window') = FlagBits + 1 - t.bit
      BY <1>5, <1>7, <3>1, Limits
    <3>4. ASSUME NEW i \in 1..Len(window') PROVE window'[i] = cells[t.word].value[t.bit + i - 1]
      <4>1. i \in 1..(FlagBits - s.bit) /\ i + 1 \in 1..Len(window) /\ s.bit + (i + 1) - 1 = t.bit + i - 1
        <5> DEFINE b == s.bit
                   c == t.bit
        <5>1. /\ b \in 1..FlagBits /\ Len(window) = FlagBits + 1 - b /\ c = b + 1
              /\ Len(window') = FlagBits - b
          BY <1>5, <1>6, <1>7, <3>1
        <5> HIDE DEF b, c
        <5>2. i \in 1..(FlagBits - b) /\ i + 1 \in 1..Len(window) /\ b + (i + 1) - 1 = c + i - 1
          BY <3>4, <5>1, Limits
        <5> QED BY <5>2 DEF b, c
      <4>2. window'[i] = window[i + 1]
        BY <1>7, <4>1
      <4>3. window[i + 1] = cells[s.word].value[s.bit + (i + 1) - 1]
        BY <1>6, <4>1
      <4> QED BY <3>1, <4>1, <4>2, <4>3
    <3>5. Ahead(t)'
      BY <1>2, <1>6, <1>7, <3>1, <3>3, <3>4 DEF Ahead, Intact
    <3> QED BY <1>1, <2>1, <3>1, <3>2, <3>5 DEF Decoding
  <2> QED BY <2>2, <2>3
<1>11. DecoderInv'
  <2>1. elements' \in 0..Len(marks')
    BY <1>1, <1>2, <1>4
  <2>2. Len(window') <= FlagBits /\ at' \in Nat \ {0} /\ halfPos' \in Nat
    BY SMTT(30), <1>4, <1>5, <1>7, Limits
  <2>3. \A i \in 1..(at' - 1) : Intact(cells', i)
    BY <1>2
  <2>4. Decoding(Stop(elements + 1))'
    BY <1>9, <1>10
  <2> QED BY <1>7, <2>1, <2>2, <2>3, <2>4 DEF DecoderInv
<1>12. OutInv'
  <2>1. Len(out') <= n' /\ Len(out') <= limit'
    BY <1>2, <1>4, <1>8
  <2>2. offset' \in Nat /\ length' \in Nat /\ status' = "working"
    BY <1>1 DEF IndInv, OutInv, Running
  <2> QED BY <1>1, <1>8, <2>1, <2>2 DEF OutInv
<1>13. pc' \in Reading
  BY <1>1 DEF Reading
<1> QED BY <1>1, <1>11, <1>12, <1>13, DecoderKeeps

----------------------------------------------------------------------------
(* The steps of decompress *)

LEMMA LoadStep == IndInv /\ LoadFlags => IndInv'
<1> SUFFICES ASSUME IndInv, LoadFlags PROVE IndInv'
  OBVIOUS
<1>1. /\ Running /\ pc = "flag" /\ window = << >> /\ pc \in Reading
      /\ Expect("flags", /\ window' = Value /\ at' = at + 1
                         /\ UNCHANGED <<stored, halfPos, offset, length, elements, out, pc, status>>)
  BY DEF LoadFlags, Reading
<1>2. PICK s : s = Stop(elements + 1)
  OBVIOUS
<1>3. elements \in 0..Len(marks) /\ Len(marks) \in Nat /\ Decoding(s) /\ at \in Nat \ {0}
  BY <1>1, <1>2 DEF IndInv, DecoderInv, TrailInv
<1>4. s \in Elements /\ s.word < s.at /\ s.at <= Here.at /\ Here.at \in Nat /\ s.bit = 1 /\ s.at = s.word + 1
  <2>1. elements + 1 \in 1..(Len(marks) + 1)
    BY <1>3
  <2>2. s.bit = 1
    BY <1>1, <1>3 DEF Decoding
  <2> QED BY <1>2, <2>1, <2>2, StopTyped
<1>5. at = s.word /\ halfPos = s.halfPos /\ Len(out) = s.from
  BY <1>1, <1>3 DEF Decoding
<1>6. at < Here.at
  BY <1>3, <1>4, <1>5
<1>7. CASE Missing
  <2>1. End("corrupt") /\ ~whole
    BY <1>1, <1>6, <1>7, ReadFinds DEF Expect
  <2> QED BY <1>1, <2>1, EndKeeps
<1>8. CASE ~Missing
  <2>1. Intact(cells, at) /\ \A i \in 1..at : Intact(cells, i)
    BY <1>6, <1>8, ReadFinds
  <2>2. cells[at].kind = "flags"
    BY <1>1, <1>2, <1>5, <2>1, AtElement, AtEnd DEF HasFlag
  <2>3. /\ window' = cells[at].value /\ at' = at + 1
        /\ UNCHANGED <<stored, halfPos, offset, length, elements, out, pc, status>>
    BY <1>1, <1>8, <2>2 DEF Expect, Value
  <2>4. window' \in Seq({0, 1}) /\ Len(window') = FlagBits /\ window' # << >>
    <3>1. cells[at] \in StreamCells
      BY <2>1, EncoderTyped DEF Intact
    <3>2. cells[at].value \in [1..FlagBits -> {0, 1}]
      BY <2>2, <3>1 DEF StreamCells
    <3> QED BY <2>3, <3>2, Limits
  <2>5. /\ UNCHANGED <<data, limit, verify, pos, flags, flagPos, nibblePos, marks, cells, whole>>
        /\ n' = n /\ \A k \in Nat : Stop(k)' = Stop(k)
    BY <2>3, StoredKept
  <2>6. Stop(elements + 1)' = s
    <3>1. elements + 1 \in Nat /\ elements' + 1 = elements + 1
      BY <1>3, <2>3
    <3> QED BY <1>2, <2>5, <3>1
  <2>7. Decoding(s)'
    <3>1. Len(window') = FlagBits + 1 - s.bit /\ \A i \in 1..Len(window') : s.bit + i - 1 = i
      BY <1>4, <2>4, Limits
    <3>2. Ahead(s)'
      BY <1>5, <2>1, <2>3, <2>4, <2>5, <3>1 DEF Ahead, Intact
    <3>3. at' = s.at
      BY <1>4, <1>5, <2>3
    <3> QED BY <1>1, <1>5, <2>3, <2>4, <3>2, <3>3 DEF Decoding
  <2>8. DecoderInv'
    <3>1. at' \in Nat \ {0} /\ \A i \in 1..(at' - 1) : Intact(cells', i)
      BY <1>3, <2>1, <2>3, <2>5
    <3>2. halfPos' \in Nat /\ elements' \in 0..Len(marks') /\ Len(window') <= FlagBits
      BY <1>3, <2>3, <2>4, <2>5, Limits DEF IndInv, DecoderInv
    <3>3. Decoding(Stop(elements + 1))'
      BY <2>6, <2>7
    <3> QED BY <2>4, <3>1, <3>2, <3>3 DEF DecoderInv
  <2>9. OutInv'
    BY <2>3, <2>5 DEF IndInv, OutInv
  <2>10. pc' \in Reading
    BY <1>1, <2>3
  <2> QED BY <1>1, <2>3, <2>8, <2>9, <2>10, DecoderKeeps
<1> QED BY <1>7, <1>8

LEMMA ReadLiteralStep == IndInv /\ ReadLiteral => IndInv'
<1> SUFFICES ASSUME IndInv, ReadLiteral PROVE IndInv'
  OBVIOUS
<1>1. /\ Running /\ pc = "flag" /\ window # << >> /\ window[1] = 0 /\ pc \in Reading
      /\ Expect("literal", IF Len(out) >= limit THEN End("refused")
                           ELSE Produce(Append(out, Value)) /\ at' = at + 1)
  BY DEF ReadLiteral, Reading
<1>2. PICK s : s = Stop(elements + 1)
  OBVIOUS
<1>3. elements < Len(marks) /\ Flag(s) = 0
  BY <1>1, <1>2, NextFlag
<1>4. /\ s \in Elements /\ Sound(data, s) /\ Carries(data, cells, s) /\ EndAt(s) <= Here.at
      /\ s.at \in Nat \ {0} /\ s.from \in Nat
      /\ EndAt(s) \in Nat /\ s.at < EndAt(s) /\ Here.at \in Nat /\ Decoding(s) /\ s.from + Width(s) <= n
  BY <1>1, <1>2, <1>3, AtElement
<1>5. ~IsMatch(s) /\ Width(s) = 1 /\ EndAt(s) = s.at + 1 /\ HalfAfter(s) = s.halfPos
  BY <1>3 DEF Flag, IsMatch, Width, EndAt, HalfAfter, Long
<1>6. at = s.at /\ halfPos = s.halfPos /\ Len(out) = s.from
  BY <1>1, <1>4 DEF Decoding
<1>7. at < Here.at
  BY <1>4, <1>6
<1>8. CASE Missing
  <2>1. End("corrupt") /\ ~whole
    BY <1>1, <1>7, <1>8, ReadFinds DEF Expect
  <2> QED BY <1>1, <2>1, EndKeeps
<1>9. CASE ~Missing
  <2>1. Intact(cells, at) /\ \A i \in 1..at : Intact(cells, i)
    BY <1>7, <1>9, ReadFinds
  <2>2. cells[at] = Cell("literal", data[s.from + 1])
    BY <1>4, <1>5, <1>6, <2>1 DEF Carries, Has, Opening
  <2>3. cells[at].kind = "literal" /\ Value = data[s.from + 1]
    BY <2>2 DEF Cell, Value
  <2>4. IF Len(out) >= limit THEN End("refused") ELSE Produce(Append(out, Value)) /\ at' = at + 1
    BY <1>1, <1>9, <2>3 DEF Expect
  <2>5. limit \in Nat /\ data \in Seq(Nat) /\ n \in Nat /\ n = Len(data) /\ out = SubSeq(data, 1, Len(out))
    BY EncoderTyped DEF IndInv, EncoderInv, OutInv
  <2>6. CASE Len(out) >= limit
    <3>1. n > limit
      BY <1>4, <1>5, <1>6, <2>5, <2>6
    <3> QED BY <1>1, <2>4, <2>6, <3>1, EndKeeps
  <2>7. CASE ~(Len(out) >= limit)
    <3>1. Append(out, Value) = SubSeq(data, 1, s.from + Width(s))
      <4> DEFINE k == s.from
      <4>1. k \in 0..(Len(data) - 1) /\ k + 1 <= Len(data) /\ out = SubSeq(data, 1, k) /\ Value = data[k + 1]
        BY <1>4, <1>5, <1>6, <2>3, <2>5
      <4> HIDE DEF k
      <4>2. Append(SubSeq(data, 1, k), data[k + 1]) = SubSeq(data, 1, k + 1)
        BY <2>5, <4>1
      <4> QED BY <1>5, <4>1, <4>2 DEF k
    <3>2. s.from + Width(s) <= limit
      BY <1>4, <1>5, <1>6, <2>5, <2>7
    <3>3. Produce(Append(out, Value)) /\ at' = EndAt(s) /\ halfPos' = HalfAfter(s)
      BY <1>5, <1>6, <2>4, <2>7 DEF Produce
    <3>4. \A i \in 1..(EndAt(s) - 1) : Intact(cells, i)
      BY <1>4, <1>5, <1>6, <2>1
    <3> DEFINE text == Append(out, Value)
    <3> HIDE DEF text
    <3>5. Produce(text) /\ text = SubSeq(data, 1, s.from + Width(s))
      BY <3>1, <3>3 DEF text
    <3> QED BY <1>1, <1>2, <1>3, <3>2, <3>3, <3>4, <3>5, Moves
  <2> QED BY <2>6, <2>7
<1> QED BY <1>8, <1>9

(***************************************************************************)
(* The stream is taken to end where it was to have a match; it does end    *)
(* there unless it was cut, and then the text is short.                    *)
(***************************************************************************)
LEMMA ReadEndStep == IndInv /\ ReadEnd => IndInv'
<1> SUFFICES ASSUME IndInv, ReadEnd PROVE IndInv'
  OBVIOUS
<1>1. /\ Running /\ pc = "flag" /\ window # << >> /\ at > Len(cells) /\ End(Verdict) /\ pc \in Reading
  BY DEF ReadEnd, Reading
<1>2. PICK s : s = Stop(elements + 1)
  OBVIOUS
<1>3. /\ at \in Nat \ {0} /\ Len(cells) \in Nat /\ Len(cells) + 1 <= Here.at
      /\ \A i \in 1..(at - 1) : Intact(cells, i)
      /\ whole => Len(cells) + 1 = Here.at
      /\ ~whole /\ Len(cells) + 1 = Here.at => cells # << >> /\ cells[Len(cells)].kind = "partial"
      /\ n \in Nat /\ limit \in Nat /\ (verify => limit = n) /\ n = Len(data)
  BY EncoderTyped DEF IndInv, DecoderInv, StageInv, EncoderInv
<1>4. CASE elements < Len(marks)
  <2>1. /\ s.at < EndAt(s) /\ EndAt(s) <= Here.at /\ EndAt(s) \in Nat /\ Here.at \in Nat /\ s.at \in Nat
        /\ Decoding(s) /\ s.from + Width(s) <= n /\ s \in Elements /\ Sound(data, s) /\ s.from \in Nat
    BY <1>1, <1>2, <1>4, AtElement
  <2>2. at = s.at /\ Len(out) = s.from
    BY <1>1, <2>1 DEF Decoding
  <2>3. s.from < n
    BY <1>3, <2>1, EncoderTyped, Places
  <2>4. ~whole
    BY <1>1, <1>3, <2>1, <2>2
  <2>5. verify => Verdict = "corrupt"
    BY <1>3, <2>1, <2>2, <2>3 DEF Verdict
  <2>6. Verdict \in {"done", "refused", "corrupt"} /\ Verdict # "refused"
    BY DEF Verdict
  <2>7. CASE Verdict = "done"
    BY <1>1, <2>4, <2>5, <2>7, EndKeeps
  <2>8. CASE Verdict = "corrupt"
    BY <1>1, <2>4, <2>8, EndKeeps
  <2> QED BY <2>6, <2>7, <2>8
<1>5. CASE ~(elements < Len(marks))
  <2>1. s = Here /\ Decoding(s) /\ Len(out) = n /\ Here.at \in Nat
    BY <1>1, <1>2, <1>5, AtEnd
  <2>2. at = Here.at
    BY <1>1, <2>1 DEF Decoding
  <2>3. whole
    <3> SUFFICES ASSUME ~whole PROVE FALSE
      OBVIOUS
    <3>1. CASE Len(cells) + 1 = Here.at
      <4>1. cells # << >> /\ cells[Len(cells)].kind = "partial"
        BY <1>3, <3>1
      <4>2. Len(cells) # 0
        BY <4>1, EncoderTyped
      <4>3. Len(cells) \in 1..(at - 1)
        BY <1>3, <2>1, <2>2, <3>1, <4>2
      <4> QED BY <1>3, <4>1, <4>3 DEF Intact
    <3>2. CASE Len(cells) + 1 # Here.at
      <4>1. Len(cells) + 1 \in 1..(at - 1)
        BY <1>3, <2>1, <2>2, <3>2
      <4>2. Intact(cells, Len(cells) + 1)
        BY <1>3, <4>1
      <4> QED BY <1>3, <4>2 DEF Intact
    <3> QED BY <3>1, <3>2
  <2>4. Verdict = "done"
    BY <1>3, <2>1 DEF Verdict
  <2> QED BY <1>1, <2>1, <2>3, <2>4, EndKeeps
<1> QED BY <1>4, <1>5

(***************************************************************************)
(* The decoder within a match.                                             *)
(***************************************************************************)
LEMMA MatchShape ==
  ASSUME IndInv, pc \in {"nibble", "byte", "word", "dword"}, NEW s, s = Stop(elements + 1)
  PROVE  /\ elements < Len(marks) /\ window # << >> /\ IsMatch(s) /\ offset = s.match.dist
         /\ s \in Elements /\ s.match.len \in Nat /\ InLadder(s) /\ Long(s) /\ pc \in Reading
         /\ Beyond(s) \in Nat /\ s.match.len = Beyond(s) + TokenLimit + MinMatch
         /\ HalfAfter(s) \in Nat /\ StepsAt(s) \in Nat \ {0}
         /\ EndAt(s) = StepsAt(s) + Len(Steps(s)) /\ Len(Steps(s)) \in Nat
         /\ Carries(data, cells, s) /\ EndAt(s) <= Here.at /\ Here.at \in Nat
         /\ s.at \in Nat \ {0} /\ s.halfPos \in Nat /\ s.halfPos < s.at /\ NibbleAt(s) < EndAt(s)
         /\ at \in Nat \ {0} /\ halfPos \in Nat
         /\ \A i \in 1..(at - 1) : Intact(cells, i)
<1>1. pc \in Reading /\ pc # "flag" /\ pc # "copy" /\ pc \notin {"compress", "store"}
  BY DEF Reading
<1>2. Decoding(s) /\ at \in Nat \ {0} /\ halfPos \in Nat /\ \A i \in 1..(at - 1) : Intact(cells, i)
  BY <1>1 DEF IndInv, DecoderInv
<1>3. /\ elements < Len(marks) /\ window # << >> /\ IsMatch(s) /\ offset = s.match.dist /\ InLadder(s) /\ Long(s)
  BY <1>1, <1>2 DEF Decoding, InLadder
<1>4. /\ s \in Elements /\ Sound(data, s) /\ Carries(data, cells, s) /\ EndAt(s) <= Here.at /\ Here.at \in Nat
      /\ s.at \in Nat \ {0} /\ s.halfPos \in Nat /\ s.match.len \in Nat /\ s.halfPos < s.at
  BY <1>1, <1>3, AtElement, ElementTyped DEF Sound
<1>5. /\ Beyond(s) \in Nat /\ Extra(s) = Beyond(s) + TokenLimit /\ s.match.len = Extra(s) + MinMatch
      /\ HalfAfter(s) \in Nat /\ StepsAt(s) \in Nat /\ s.at < StepsAt(s)
      /\ EndAt(s) = StepsAt(s) + Len(Steps(s)) /\ Len(Steps(s)) \in Nat
      /\ NibbleAt(s) \in 1..(EndAt(s) - 1) /\ EndAt(s) \in Nat
  BY <1>3, <1>4, EncoderTyped, Places
<1>6. s.match.len = Beyond(s) + TokenLimit + MinMatch
  BY <1>5
<1>7. StepsAt(s) \in Nat \ {0} /\ NibbleAt(s) < EndAt(s)
  BY <1>4, <1>5
<1> QED BY <1>1, <1>2, <1>3, <1>4, <1>5, <1>6, <1>7

LEMMA ReadTokenStep == IndInv /\ ReadToken => IndInv'
<1> SUFFICES ASSUME IndInv, ReadToken PROVE IndInv'
  OBVIOUS
<1> DEFINE low == Value % (TokenLimit + 1)
<1>1. /\ Running /\ pc = "flag" /\ window # << >> /\ window[1] = 1 /\ at <= Len(cells) /\ pc \in Reading
      /\ Expect("token", /\ Take(Value \div (TokenLimit + 1) + 1, low + MinMatch,
                                 IF low = TokenLimit THEN "nibble" ELSE "copy")
                         /\ UNCHANGED halfPos)
  BY DEF ReadToken, Reading
<1>2. PICK s : s = Stop(elements + 1)
  OBVIOUS
<1>3. elements < Len(marks) /\ IsMatch(s)
  <2>1. ASSUME ~(elements < Len(marks)) PROVE FALSE
    <3>1. s = Here /\ Decoding(s) /\ Here.at \in Nat
      BY <1>1, <1>2, <2>1, AtEnd
    <3>2. at = Here.at
      BY <1>1, <3>1 DEF Decoding
    <3>3. Len(cells) + 1 <= Here.at /\ Len(cells) \in Nat
      BY EncoderTyped DEF IndInv, StageInv
    <3> QED BY <1>1, <3>1, <3>2, <3>3
  <2>2. Flag(s) = 1
    BY <1>1, <1>2, <2>1, NextFlag
  <2> QED BY <2>1, <2>2 DEF Flag
<1>4. /\ s \in Elements /\ Sound(data, s) /\ Carries(data, cells, s) /\ EndAt(s) <= Here.at
      /\ s.at \in Nat \ {0} /\ s.from \in Nat /\ s.halfPos \in Nat
      /\ EndAt(s) \in Nat /\ s.at < EndAt(s) /\ Here.at \in Nat /\ Decoding(s)
  BY <1>1, <1>2, <1>3, AtElement
<1>5. at = s.at /\ halfPos = s.halfPos
  BY <1>1, <1>4 DEF Decoding
<1>6. at < Here.at
  BY <1>4, <1>5
<1>7. CASE Missing
  <2>1. End("corrupt") /\ ~whole
    BY <1>1, <1>6, <1>7, ReadFinds DEF Expect
  <2> QED BY <1>1, <2>1, EndKeeps
<1>8. CASE ~Missing
  <2>1. Intact(cells, at) /\ \A i \in 1..at : Intact(cells, i)
    BY <1>6, <1>8, ReadFinds
  <2>2. cells[at] = Cell("token", TokenValue(s))
    BY <1>3, <1>4, <1>5, <2>1 DEF Carries, Has, Opening
  <2>3. cells[at].kind = "token" /\ Value = TokenValue(s)
    BY <2>2 DEF Cell, Value
  <2>4. /\ Extra(s) \in Nat /\ s.match.len = Extra(s) + MinMatch
        /\ Value \div (TokenLimit + 1) = s.match.dist - 1 /\ low = Lesser(Extra(s), TokenLimit)
        /\ s.match.dist \in Nat /\ s.match.len \in Nat
    <3>1. Extra(s) \in Nat /\ s.match.len = Extra(s) + MinMatch
      BY <1>3, <1>4, EncoderTyped, Places
    <3> QED BY <1>3, <1>4, <2>3, <3>1, TokenFits, ElementTyped
  <2> HIDE DEF low
  <2>5. /\ offset' = s.match.dist /\ length' = low + MinMatch /\ pc' = (IF low = TokenLimit THEN "nibble" ELSE "copy")
        /\ at' = at + 1 /\ halfPos' = halfPos /\ UNCHANGED <<stored, window, elements, out, status>>
    <3>1. /\ Take(Value \div (TokenLimit + 1) + 1, low + MinMatch, IF low = TokenLimit THEN "nibble" ELSE "copy")
          /\ UNCHANGED halfPos
      BY <1>1, <1>8, <2>3 DEF Expect
    <3>2. Value \div (TokenLimit + 1) + 1 = s.match.dist
      <4> DEFINE q == Value \div (TokenLimit + 1)
                 o == s.match.dist
      <4>1. q = o - 1 /\ o \in Nat
        BY <2>4
      <4> HIDE DEF q, o
      <4>2. q + 1 = o
        BY <4>1
      <4> QED BY <4>2 DEF q, o
    <3> QED BY <3>1, <3>2 DEF Take
  <2>6. /\ at' \in Nat \ {0} /\ at' = s.at + 1 /\ halfPos' = s.halfPos /\ halfPos' \in Nat
        /\ \A i \in 1..(at' - 1) : Intact(cells, i)
    BY <1>4, <1>5, <2>1, <2>5
  <2>7. CASE Extra(s) < TokenLimit
    <3>1. low = Extra(s) /\ low # TokenLimit /\ ~Long(s)
      BY <2>4, <2>7, Limits DEF Lesser, Long
    <3>2. pc' = "copy" /\ at' = EndAt(s) /\ halfPos' = HalfAfter(s) /\ length' = s.match.len
      BY <2>4, <2>5, <2>6, <3>1 DEF EndAt, HalfAfter
    <3> QED BY <1>1, <1>2, <1>3, <2>4, <2>5, <2>6, <3>2, Within
  <2>8. CASE ~(Extra(s) < TokenLimit)
    <3>1. low = TokenLimit /\ Long(s)
      BY <1>3, <2>4, <2>8, Limits DEF Lesser, Long
    <3>2. pc' = "nibble" /\ length' = MinMatch + TokenLimit /\ length' \in Nat
      BY <2>5, <3>1, Limits
    <3>3. InLadder(s)'
      BY <2>6, <3>1, <3>2 DEF InLadder
    <3> QED BY <1>1, <1>2, <1>3, <2>4, <2>5, <2>6, <3>2, <3>3, Within
  <2> QED BY <2>7, <2>8
<1> QED BY <1>7, <1>8

(***************************************************************************)
(* The length read from a half byte, for a new one and for an old one.     *)
(***************************************************************************)
LEMMA NibbleRead ==
  ASSUME IndInv, pc = "nibble", Running, NEW s, s = Stop(elements + 1), NEW half, half = Nibble(s),
         UNCHANGED <<stored, window, elements, out, status>>, offset' = offset, length' = length + half,
         pc' = (IF half = NibbleLimit THEN "byte" ELSE "copy"),
         at' = StepsAt(s), halfPos' = HalfAfter(s), \A i \in 1..(StepsAt(s) - 1) : Intact(cells, i)
  PROVE  IndInv'
<1>1. /\ elements < Len(marks) /\ window # << >> /\ IsMatch(s) /\ offset = s.match.dist
      /\ s \in Elements /\ s.match.len \in Nat /\ InLadder(s) /\ Long(s) /\ pc \in Reading
      /\ Beyond(s) \in Nat /\ s.match.len = Beyond(s) + TokenLimit + MinMatch
      /\ HalfAfter(s) \in Nat /\ StepsAt(s) \in Nat \ {0} /\ EndAt(s) = StepsAt(s) + Len(Steps(s))
  BY MatchShape DEF Reading
<1>2. length = MinMatch + TokenLimit
  BY <1>1 DEF InLadder
<1>3. at' \in Nat \ {0} /\ halfPos' \in Nat /\ \A i \in 1..(at' - 1) : Intact(cells, i)
  BY <1>1
<1>4. CASE Beyond(s) < NibbleLimit
  <2>1. half = Beyond(s) /\ half # NibbleLimit
    BY <1>1, <1>4, Limits DEF Nibble, Lesser
  <2>2. Steps(s) = << >>
    BY <1>1, <1>4, LadderShape DEF Steps
  <2>3. pc' = "copy" /\ at' = EndAt(s) /\ length' = s.match.len
    <3>1. StepsAt(s) + Len(Steps(s)) = StepsAt(s)
      BY <1>1, <2>2
    <3>2. length' = s.match.len
      BY <1>1, <1>2, <2>1, Limits
    <3> QED BY <1>1, <2>1, <3>1, <3>2
  <2> QED BY <1>1, <1>3, <2>3, Within
<1>5. CASE ~(Beyond(s) < NibbleLimit)
  <2>1. half = NibbleLimit /\ Beyond(s) >= NibbleLimit
    BY <1>1, <1>5, Limits DEF Nibble, Lesser
  <2>2. pc' = "byte" /\ length' = MinMatch + TokenLimit + NibbleLimit /\ length' \in Nat
    BY <1>2, <2>1, Limits
  <2>3. InLadder(s)'
    BY <1>1, <2>1, <2>2 DEF InLadder
  <2> QED BY <1>1, <1>3, <2>2, <2>3, Within
<1> QED BY <1>4, <1>5

LEMMA NewNibbleStep == IndInv /\ ReadNewNibble => IndInv'
<1> SUFFICES ASSUME IndInv, ReadNewNibble PROVE IndInv'
  OBVIOUS
<1> DEFINE low == Value % (NibbleLimit + 1)
<1>1. /\ Running /\ pc = "nibble" /\ halfPos = 0 /\ pc \in Reading
      /\ Expect("nibble", /\ Take(offset, length + low, IF low = NibbleLimit THEN "byte" ELSE "copy")
                          /\ halfPos' = at)
  BY DEF ReadNewNibble, Reading
<1>2. PICK s : s = Stop(elements + 1)
  OBVIOUS
<1>3. /\ InLadder(s) /\ Long(s) /\ Carries(data, cells, s) /\ EndAt(s) <= Here.at /\ Here.at \in Nat
      /\ s.at \in Nat \ {0} /\ NibbleAt(s) < EndAt(s) /\ EndAt(s) = StepsAt(s) + Len(Steps(s))
      /\ Len(Steps(s)) \in Nat
  BY <1>1, <1>2, MatchShape
<1>4. /\ s.halfPos = 0 /\ at = s.at + 1 /\ NibbleAt(s) = at /\ StepsAt(s) = at + 1 /\ HalfAfter(s) = at
  BY <1>1, <1>3 DEF InLadder, NibbleAt, StepsAt, HalfAfter
<1>5. at < Here.at
  BY <1>3, <1>4
<1>6. CASE Missing
  <2>1. End("corrupt") /\ ~whole
    BY <1>1, <1>5, <1>6, ReadFinds DEF Expect
  <2> QED BY <1>1, <2>1, EndKeeps
<1>7. CASE ~Missing
  <2>1. Intact(cells, at) /\ \A i \in 1..at : Intact(cells, i)
    BY <1>5, <1>7, ReadFinds
  <2>2. cells[at].kind = "nibble" /\ low = Nibble(s)
    BY <1>3, <1>4, <2>1 DEF Carries, HasNibble, Half, Value
  <2>3. Take(offset, length + low, IF low = NibbleLimit THEN "byte" ELSE "copy") /\ halfPos' = at
    BY <1>1, <1>7, <2>2 DEF Expect
  <2>4. PICK half : half = Nibble(s)
    OBVIOUS
  <2> HIDE DEF low
  <2>5. /\ UNCHANGED <<stored, window, elements, out, status>> /\ offset' = offset /\ length' = length + half
        /\ pc' = (IF half = NibbleLimit THEN "byte" ELSE "copy")
        /\ at' = StepsAt(s) /\ halfPos' = HalfAfter(s)
    BY <1>4, <2>2, <2>3, <2>4 DEF Take
  <2>6. \A i \in 1..(StepsAt(s) - 1) : Intact(cells, i)
    <3>1. StepsAt(s) - 1 = at
      BY <1>3, <1>4
    <3> QED BY <2>1, <3>1
  <2> QED BY <1>1, <1>2, <2>4, <2>5, <2>6, NibbleRead
<1> QED BY <1>6, <1>7

LEMMA OldNibbleStep == IndInv /\ ReadOldNibble => IndInv'
<1> SUFFICES ASSUME IndInv, ReadOldNibble PROVE IndInv'
  OBVIOUS
<1> DEFINE high == cells[halfPos].value \div (NibbleLimit + 1)
<1>1. /\ Running /\ pc = "nibble" /\ halfPos # 0
      /\ length' = length + high /\ pc' = (IF high = NibbleLimit THEN "byte" ELSE "copy") /\ halfPos' = 0
      /\ UNCHANGED <<stored, at, window, offset, elements, out, status>>
  BY DEF ReadOldNibble
<1>2. PICK s : s = Stop(elements + 1)
  OBVIOUS
<1>3. /\ InLadder(s) /\ Long(s) /\ Carries(data, cells, s) /\ s.at \in Nat \ {0}
      /\ s.halfPos \in Nat /\ s.halfPos < s.at /\ \A i \in 1..(at - 1) : Intact(cells, i)
  BY <1>1, <1>2, MatchShape
<1>4. /\ s.halfPos = halfPos /\ at = s.at + 1 /\ NibbleAt(s) = halfPos /\ StepsAt(s) = at /\ HalfAfter(s) = 0
  BY <1>1, <1>3 DEF InLadder, NibbleAt, StepsAt, HalfAfter
<1>5. halfPos \in 1..(at - 1)
  BY <1>1, <1>3, <1>4
<1>6. high = Nibble(s)
  BY <1>1, <1>3, <1>4, <1>5 DEF Carries, HasNibble, Half
<1> HIDE DEF high
<1>7. PICK half : half = Nibble(s)
  OBVIOUS
<1>8. /\ length' = length + half /\ pc' = (IF half = NibbleLimit THEN "byte" ELSE "copy")
      /\ at' = StepsAt(s) /\ halfPos' = HalfAfter(s) /\ \A i \in 1..(StepsAt(s) - 1) : Intact(cells, i)
  BY <1>1, <1>3, <1>4, <1>6, <1>7
<1> QED BY <1>1, <1>2, <1>7, <1>8, NibbleRead

(***************************************************************************)
(* The steps behind the half byte are read as they were written.           *)
(***************************************************************************)
LEMMA StepRead ==
  ASSUME IndInv, pc \in {"byte", "word", "dword"}, NEW s, s = Stop(elements + 1),
         NEW i \in 1..Len(Steps(s)), at = StepsAt(s) + i - 1
  PROVE  /\ Missing => ~whole
         /\ ~Missing => cells[at] = Steps(s)[i] /\ (\A j \in 1..at : Intact(cells, j))
<1>1. /\ Long(s) /\ Carries(data, cells, s) /\ EndAt(s) <= Here.at /\ Here.at \in Nat
      /\ StepsAt(s) \in Nat \ {0} /\ EndAt(s) = StepsAt(s) + Len(Steps(s)) /\ Len(Steps(s)) \in Nat
  BY MatchShape
<1>2. at < Here.at
  BY <1>1
<1>3. Has(cells, StepsAt(s) + i - 1, Steps(s)[i])
  BY <1>1 DEF Carries, HasSteps
<1> QED BY <1>2, <1>3, ReadFinds DEF Has

LEMMA ReadByteStep == IndInv /\ ReadByte => IndInv'
<1> SUFFICES ASSUME IndInv, ReadByte PROVE IndInv'
  OBVIOUS
<1>1. /\ Running /\ pc = "byte" /\ pc \in Reading
      /\ Expect("byte", /\ UNCHANGED halfPos
                        /\ IF Value = ByteLimit THEN Take(offset, 0, "word") ELSE Take(offset, length + Value, "copy"))
  BY DEF ReadByte, Reading
<1>2. PICK s : s = Stop(elements + 1)
  OBVIOUS
<1>3. /\ elements < Len(marks) /\ window # << >> /\ IsMatch(s) /\ offset = s.match.dist
      /\ s.match.len \in Nat /\ InLadder(s) /\ Long(s) /\ Beyond(s) \in Nat
      /\ s.match.len = Beyond(s) + TokenLimit + MinMatch /\ HalfAfter(s) \in Nat
      /\ StepsAt(s) \in Nat \ {0} /\ EndAt(s) = StepsAt(s) + Len(Steps(s)) /\ Len(Steps(s)) \in Nat
  BY <1>1, <1>2, MatchShape
<1>4. PICK b : b = Beyond(s)
  OBVIOUS
<1>5. /\ at = StepsAt(s) /\ halfPos = HalfAfter(s) /\ b >= NibbleLimit /\ b \in Nat /\ Steps(s) = ExtraSteps(b)
      /\ length = MinMatch + TokenLimit + NibbleLimit
  BY <1>1, <1>3, <1>4 DEF InLadder, Steps
<1>6. /\ Len(Steps(s)) >= 1
      /\ Steps(s)[1] = Cell("byte", IF b - NibbleLimit < ByteLimit THEN b - NibbleLimit ELSE ByteLimit)
      /\ b - NibbleLimit < ByteLimit => Len(Steps(s)) = 1
  BY <1>5, Rungs
<1>7. 1 \in 1..Len(Steps(s)) /\ at = StepsAt(s) + 1 - 1
  BY <1>3, <1>5, <1>6
<1>8. CASE Missing
  <2>1. End("corrupt") /\ ~whole
    BY <1>1, <1>2, <1>7, <1>8, StepRead DEF Expect
  <2> QED BY <1>1, <2>1, EndKeeps
<1>9. CASE ~Missing
  <2>1. cells[at] = Steps(s)[1] /\ \A j \in 1..at : Intact(cells, j)
    BY <1>1, <1>2, <1>7, <1>9, StepRead
  <2>2. cells[at].kind = "byte" /\ Value = IF b - NibbleLimit < ByteLimit THEN b - NibbleLimit ELSE ByteLimit
    BY <1>6, <2>1 DEF Cell, Value
  <2>3. UNCHANGED halfPos /\ IF Value = ByteLimit THEN Take(offset, 0, "word") ELSE Take(offset, length + Value, "copy")
    BY <1>1, <1>9, <2>2 DEF Expect
  <2>4. /\ at' = at + 1 /\ offset' = s.match.dist /\ halfPos' = HalfAfter(s)
        /\ UNCHANGED <<stored, window, elements, out, status>>
    BY <1>3, <1>5, <2>3 DEF Take
  <2>5. at' \in Nat \ {0} /\ halfPos' \in Nat /\ \A j \in 1..(at' - 1) : Intact(cells, j)
    BY <1>3, <1>5, <2>1, <2>4
  <2>6. CASE b - NibbleLimit < ByteLimit
    <3>1. Value # ByteLimit /\ Value = b - NibbleLimit
      BY <2>2, <2>6, Limits, <1>5
    <3>2. pc' = "copy" /\ length' = length + (b - NibbleLimit)
      BY <2>3, <3>1 DEF Take
    <3>3. at' = EndAt(s) /\ length' = s.match.len
      <4>1. length' = s.match.len
        BY <1>3, <1>4, <1>5, <3>2, Limits
      <4>2. at' = EndAt(s)
        BY <1>3, <1>5, <1>6, <2>4, <2>6
      <4> QED BY <4>1, <4>2
    <3> QED BY <1>1, <1>2, <1>3, <2>4, <2>5, <3>2, <3>3, Within
  <2>7. CASE ~(b - NibbleLimit < ByteLimit)
    <3>1. Value = ByteLimit
      BY <2>2, <2>7
    <3>2. pc' = "word" /\ length' = 0
      BY <2>3, <3>1 DEF Take
    <3>3. InLadder(s)'
      <4>1. Beyond(s) - NibbleLimit >= ByteLimit /\ Beyond(s) >= NibbleLimit /\ at' = StepsAt(s) + 1
        BY <1>4, <1>5, <2>4, <2>7, Limits
      <4> QED BY <1>3, <2>4, <3>2, <4>1 DEF InLadder
    <3> QED BY <1>1, <1>2, <1>3, <2>4, <2>5, <3>2, <3>3, Within
  <2> QED BY <2>6, <2>7
<1> QED BY <1>8, <1>9

LEMMA ReadWordStep == IndInv /\ ReadWord => IndInv'
<1> SUFFICES ASSUME IndInv, ReadWord PROVE IndInv'
  OBVIOUS
<1>1. /\ Running /\ pc = "word" /\ pc \in Reading
      /\ Expect("word", IF Value = 0 THEN Take(offset, 0, "dword") /\ UNCHANGED halfPos
                        ELSE IF Value < Floor THEN End("corrupt")
                        ELSE Take(offset, Value + MinMatch, "copy") /\ UNCHANGED halfPos)
  BY DEF ReadWord, Reading
<1>2. PICK s : s = Stop(elements + 1)
  OBVIOUS
<1>3. /\ elements < Len(marks) /\ window # << >> /\ IsMatch(s) /\ offset = s.match.dist
      /\ s.match.len \in Nat /\ InLadder(s) /\ Long(s) /\ Beyond(s) \in Nat
      /\ s.match.len = Beyond(s) + TokenLimit + MinMatch /\ HalfAfter(s) \in Nat
      /\ StepsAt(s) \in Nat \ {0} /\ EndAt(s) = StepsAt(s) + Len(Steps(s)) /\ Len(Steps(s)) \in Nat
  BY <1>1, <1>2, MatchShape
<1>4. PICK b : b = Beyond(s)
  OBVIOUS
<1>5. /\ at = StepsAt(s) + 1 /\ halfPos = HalfAfter(s) /\ b >= NibbleLimit /\ b - NibbleLimit >= ByteLimit
      /\ b \in Nat /\ Steps(s) = ExtraSteps(b)
  BY <1>1, <1>3, <1>4 DEF InLadder, Steps
<1>6. /\ Len(Steps(s)) >= 2
      /\ Steps(s)[2] = Cell("word", IF b + TokenLimit < WordLimit THEN b + TokenLimit ELSE 0)
      /\ b + TokenLimit < WordLimit => Len(Steps(s)) = 2
  BY <1>5, Rungs
<1>7. 2 \in 1..Len(Steps(s)) /\ at = StepsAt(s) + 2 - 1
  BY <1>3, <1>5, <1>6
<1>8. /\ at + 1 = StepsAt(s) + 2 /\ at \in Nat
      /\ Len(Steps(s)) = 2 => at + 1 = EndAt(s)
  <2> DEFINE z == StepsAt(s)
             l == Len(Steps(s))
  <2>1. at = z + 1 /\ z \in Nat \ {0} /\ EndAt(s) = z + l
    BY <1>3, <1>5
  <2> HIDE DEF z, l
  <2>2. at + 1 = z + 2 /\ at \in Nat
    BY <2>1
  <2>3. l = 2 => at + 1 = EndAt(s)
    BY <2>1
  <2> QED BY <2>2, <2>3 DEF z, l
<1>9. CASE Missing
  <2>1. End("corrupt") /\ ~whole
    BY <1>1, <1>2, <1>7, <1>9, StepRead DEF Expect
  <2> QED BY <1>1, <2>1, EndKeeps
<1>10. CASE ~Missing
  <2>1. cells[at] = Steps(s)[2] /\ \A j \in 1..at : Intact(cells, j)
    BY <1>1, <1>2, <1>7, <1>10, StepRead
  <2>2. cells[at].kind = "word" /\ Value = IF b + TokenLimit < WordLimit THEN b + TokenLimit ELSE 0
    BY <1>6, <2>1 DEF Cell, Value
  <2>3. IF Value = 0 THEN Take(offset, 0, "dword") /\ UNCHANGED halfPos
        ELSE IF Value < Floor THEN End("corrupt")
        ELSE Take(offset, Value + MinMatch, "copy") /\ UNCHANGED halfPos
    BY <1>1, <1>10, <2>2 DEF Expect
  <2>4. CASE b + TokenLimit < WordLimit
    <3>1. Value = b + TokenLimit /\ Value # 0 /\ ~(Value < Floor)
      BY <1>5, <2>2, <2>4, Limits DEF Floor
    <3>2. Take(offset, Value + MinMatch, "copy") /\ UNCHANGED halfPos
      BY <2>3, <3>1
    <3>3. /\ pc' = "copy" /\ offset' = s.match.dist /\ halfPos' = HalfAfter(s) /\ at' = at + 1
          /\ length' = b + TokenLimit + MinMatch /\ UNCHANGED <<stored, window, elements, out, status>>
      BY <1>3, <1>5, <3>1, <3>2 DEF Take
    <3>4. at' \in Nat \ {0} /\ halfPos' \in Nat /\ \A j \in 1..(at' - 1) : Intact(cells, j)
      <4>1. at' = at + 1 /\ at \in Nat /\ halfPos' = HalfAfter(s)
        BY <1>8, <3>3
      <4>2. at' \in Nat \ {0} /\ at' - 1 = at
        BY <4>1
      <4> QED BY <1>3, <2>1, <4>1, <4>2
    <3>5. length' = s.match.len /\ at' = EndAt(s)
      <4>1. length' = s.match.len
        BY <1>3, <1>4, <3>3
      <4>2. at' = EndAt(s)
        BY <1>6, <1>8, <2>4, <3>3
      <4> QED BY <4>1, <4>2
    <3> QED BY <1>1, <1>2, <1>3, <3>3, <3>4, <3>5, Within
  <2>5. CASE ~(b + TokenLimit < WordLimit)
    <3>1. Value = 0
      BY <2>2, <2>5
    <3>2. /\ pc' = "dword" /\ offset' = s.match.dist /\ halfPos' = HalfAfter(s) /\ at' = at + 1
          /\ length' = 0 /\ UNCHANGED <<stored, window, elements, out, status>>
      BY <1>3, <1>5, <2>3, <3>1 DEF Take
    <3>3. at' \in Nat \ {0} /\ halfPos' \in Nat /\ \A j \in 1..(at' - 1) : Intact(cells, j)
      <4>1. at' = at + 1 /\ at \in Nat /\ halfPos' = HalfAfter(s)
        BY <1>8, <3>2
      <4>2. at' \in Nat \ {0} /\ at' - 1 = at
        BY <4>1
      <4> QED BY <1>3, <2>1, <4>1, <4>2
    <3>4. InLadder(s)'
      <4>1. /\ Beyond(s) - NibbleLimit >= ByteLimit /\ Beyond(s) >= NibbleLimit
            /\ Beyond(s) + TokenLimit >= WordLimit
        BY <1>4, <1>5, <2>5, Limits
      <4>2. at' = StepsAt(s) + 2
        BY <1>8, <3>2
      <4> QED BY <1>3, <3>2, <4>1, <4>2 DEF InLadder
    <3> QED BY <1>1, <1>2, <1>3, <3>2, <3>3, <3>4, Within
  <2> QED BY <2>4, <2>5
<1> QED BY <1>9, <1>10

LEMMA ReadDwordStep == IndInv /\ ReadDword => IndInv'
<1> SUFFICES ASSUME IndInv, ReadDword PROVE IndInv'
  OBVIOUS
<1>1. /\ Running /\ pc = "dword" /\ pc \in Reading
      /\ Expect("dword", IF Value < Floor THEN End("corrupt")
                         ELSE Take(offset, Value + MinMatch, "copy") /\ UNCHANGED halfPos)
  BY DEF ReadDword, Reading
<1>2. PICK s : s = Stop(elements + 1)
  OBVIOUS
<1>3. /\ elements < Len(marks) /\ window # << >> /\ IsMatch(s) /\ offset = s.match.dist
      /\ s.match.len \in Nat /\ InLadder(s) /\ Long(s) /\ Beyond(s) \in Nat
      /\ s.match.len = Beyond(s) + TokenLimit + MinMatch /\ HalfAfter(s) \in Nat
      /\ StepsAt(s) \in Nat \ {0} /\ EndAt(s) = StepsAt(s) + Len(Steps(s)) /\ Len(Steps(s)) \in Nat
  BY <1>1, <1>2, MatchShape
<1>4. PICK b : b = Beyond(s)
  OBVIOUS
<1>5. /\ at = StepsAt(s) + 2 /\ halfPos = HalfAfter(s) /\ b >= NibbleLimit /\ b - NibbleLimit >= ByteLimit
      /\ b + TokenLimit >= WordLimit /\ b \in Nat /\ Steps(s) = ExtraSteps(b)
  BY <1>1, <1>3, <1>4 DEF InLadder, Steps
<1>6. Len(Steps(s)) = 3 /\ Steps(s)[3] = Cell("dword", b + TokenLimit)
  <2>1. ~(b + TokenLimit < WordLimit)
    BY <1>5, Limits
  <2> QED BY <1>5, <2>1, Rungs
<1>7. 3 \in 1..Len(Steps(s)) /\ at = StepsAt(s) + 3 - 1
  BY <1>3, <1>5, <1>6
<1>8. CASE Missing
  <2>1. End("corrupt") /\ ~whole
    BY <1>1, <1>2, <1>7, <1>8, StepRead DEF Expect
  <2> QED BY <1>1, <2>1, EndKeeps
<1>9. CASE ~Missing
  <2>1. cells[at] = Steps(s)[3] /\ \A j \in 1..at : Intact(cells, j)
    BY <1>1, <1>2, <1>7, <1>9, StepRead
  <2>2. cells[at].kind = "dword" /\ Value = b + TokenLimit
    BY <1>6, <2>1 DEF Cell, Value
  <2>3. ~(Value < Floor)
    BY <1>5, <2>2, Limits DEF Floor
  <2>4. /\ pc' = "copy" /\ offset' = s.match.dist /\ halfPos' = HalfAfter(s) /\ at' = at + 1
        /\ length' = b + TokenLimit + MinMatch /\ UNCHANGED <<stored, window, elements, out, status>>
    BY <1>1, <1>3, <1>5, <1>9, <2>2, <2>3 DEF Expect, Take
  <2>5. at' \in Nat \ {0} /\ halfPos' \in Nat /\ \A j \in 1..(at' - 1) : Intact(cells, j)
    BY SMTT(30), <1>3, <1>5, <2>1, <2>4
  <2>6. length' = s.match.len /\ at' = EndAt(s)
    <3>1. length' = s.match.len
      BY <1>3, <1>4, <2>4
    <3>2. at' = EndAt(s)
      BY <1>3, <1>5, <1>6, <2>4
    <3> QED BY <3>1, <3>2
  <2> QED BY <1>1, <1>2, <1>3, <2>4, <2>5, <2>6, Within
<1> QED BY <1>8, <1>9

LEMMA CopyStep == IndInv /\ Copy => IndInv'
<1> SUFFICES ASSUME IndInv, Copy PROVE IndInv'
  OBVIOUS
<1>1. /\ Running /\ pc = "copy" /\ pc \in Reading
      /\ IF offset > Len(out) THEN End("corrupt")
         ELSE IF Len(out) + length > limit THEN End("refused")
         ELSE Produce(CopyMatch(out, offset, length)) /\ UNCHANGED at
  BY DEF Copy, Reading
<1>2. PICK s : s = Stop(elements + 1)
  OBVIOUS
<1>3. /\ elements < Len(marks) /\ Decoding(s) /\ \A i \in 1..(at - 1) : Intact(cells, i)
  <2>1. pc \notin {"compress", "store"}
    BY <1>1
  <2> QED BY <1>1, <1>2, <2>1 DEF IndInv, DecoderInv, Decoding
<1>4. /\ window # << >> /\ IsMatch(s) /\ offset = s.match.dist /\ Len(out) = s.from
      /\ at = EndAt(s) /\ halfPos = HalfAfter(s) /\ length = s.match.len
  BY <1>1, <1>3 DEF Decoding
<1>5. /\ Sound(data, s) /\ s \in Elements /\ s.from + Width(s) <= n /\ s.from \in Nat /\ s.match.len \in Nat
      /\ data \in Seq(Nat) /\ n \in Nat /\ n = Len(data) /\ limit \in Nat /\ out = SubSeq(data, 1, Len(out))
  BY <1>1, <1>2, <1>3, AtElement, ElementTyped, EncoderTyped DEF IndInv, EncoderInv, OutInv
<1>6. /\ Width(s) = s.match.len /\ s.match.dist \in 1..MaxOffset /\ s.match.dist <= s.from
      /\ RepeatsAfter(data, s.from, s.match.dist, s.match.len)
  BY <1>4, <1>5 DEF Sound, Width
<1>7. ~(offset > Len(out))
  BY <1>4, <1>5, <1>6, Limits
<1>8. CASE Len(out) + length > limit
  <2>1. n > limit
    BY <1>4, <1>5, <1>6, <1>8
  <2> QED BY <1>1, <1>7, <1>8, <2>1, EndKeeps
<1>9. CASE ~(Len(out) + length > limit)
  <2>1. PICK text : text = CopyMatch(out, offset, length)
    OBVIOUS
  <2>2. Produce(text) /\ at' = EndAt(s) /\ halfPos' = HalfAfter(s)
    BY <1>1, <1>4, <1>7, <1>9, <2>1 DEF Produce
  <2>3. text = SubSeq(data, 1, s.from + Width(s))
    <3> DEFINE to == s.from
               off == s.match.dist
               m == s.match.len
    <3>1. /\ to \in 0..Len(data) /\ off \in 1..to /\ m \in Nat /\ to + m <= Len(data)
          /\ RepeatsAfter(data, to, off, m)
      BY <1>5, <1>6, Limits
    <3>2. text = Overlapping(SubSeq(data, 1, to), off, m)
      <4>1. out = SubSeq(data, 1, to) /\ offset = off /\ length = m
        BY <1>4, <1>5
      <4> HIDE DEF to, off, m
      <4> QED BY <2>1, <4>1 DEF CopyMatch, Overlapping
    <3> HIDE DEF to, off, m
    <3>3. text = SubSeq(data, 1, to + m)
      BY <1>5, <3>1, <3>2, OverlapExtendsPrefix
    <3> QED BY <1>6, <3>3 DEF to, m
  <2>4. s.from + Width(s) <= limit
    BY <1>4, <1>5, <1>6, <1>9
  <2>5. \A i \in 1..(EndAt(s) - 1) : Intact(cells, i)
    BY <1>3, <1>4
  <2> QED BY <1>1, <1>2, <1>3, <1>4, <2>2, <2>3, <2>4, <2>5, Moves
<1> QED BY <1>8, <1>9

LEMMA NextKeeps == IndInv /\ [Next]_vars => IndInv'
<1> SUFFICES ASSUME IndInv, [Next]_vars PROVE IndInv'
  OBVIOUS
<1>1. CASE Compress
  BY <1>1, LiteralStep, MatchStep, FinishStep, StoreStep DEF Compress
<1>2. CASE Decompress
  BY <1>2, LoadStep, ReadLiteralStep, ReadEndStep, ReadTokenStep, NewNibbleStep, OldNibbleStep, ReadByteStep,
     ReadWordStep, ReadDwordStep, CopyStep DEF Decompress
<1>3. CASE UNCHANGED vars
  <2>1. UNCHANGED stored /\ UNCHANGED <<at, window, halfPos, offset, length, elements, out, status, pc>>
    BY <1>3 DEF vars, stored, encoderVars, decoderVars, inputs
  <2>2. /\ UNCHANGED <<data, limit, verify, pos, flags, flagPos, nibblePos, marks, cells, whole>>
        /\ n' = n /\ Here' = Here /\ \A k \in Nat : Stop(k)' = Stop(k)
    BY <2>1, StoredKept
  <2>3. EncoderInv' /\ OutInv' /\ NibbleInv'
    BY <2>1, <2>2 DEF IndInv, EncoderInv, OutInv, NibbleInv
  <2>4. TrailInv'
    <3>1. UNCHANGED <<inputs, encoderVars>> /\ cells' = cells
      BY <2>1 DEF stored
    <3> QED BY <3>1, TrailKept
  <2>5. FlagInv' /\ StageInv'
    BY <2>1, <2>2 DEF IndInv, FlagInv, StageInv, HasFlag, Intact
  <2>6. DecoderInv'
    <3>1. /\ elements \in 0..Len(marks) /\ at \in Nat \ {0} /\ halfPos \in Nat
          /\ window \in Seq({0, 1}) /\ Len(window) <= FlagBits
          /\ \A i \in 1..(at - 1) : Intact(cells, i)
          /\ pc \notin {"compress", "store"} => Decoding(Stop(elements + 1))
      BY DEF IndInv, DecoderInv
    <3>2. PICK s : s = Stop(elements + 1)
      OBVIOUS
    <3>3. Stop(elements + 1)' = s
      <4>1. elements + 1 \in Nat /\ elements' + 1 = elements + 1
        BY <2>1, <3>1
      <4> QED BY <2>2, <3>2, <4>1
    <3>4. Decoding(s) => Decoding(s)'
      BY <2>1, <2>2 DEF Decoding, Ahead, InLadder, Intact
    <3>5. pc' \notin {"compress", "store"} => Decoding(Stop(elements + 1))'
      BY <2>1, <3>1, <3>2, <3>3, <3>4
    <3>6. \A i \in 1..(at' - 1) : Intact(cells', i)
      BY <2>1, <2>2, <3>1
    <3> QED BY <2>1, <2>2, <3>1, <3>5, <3>6 DEF DecoderInv
  <2> QED BY <2>3, <2>4, <2>5, <2>6 DEF IndInv
<1> QED BY <1>1, <1>2, <1>3 DEF Next, Stopped

----------------------------------------------------------------------------
(* What follows *)

(***************************************************************************)
(* Every cell of a stream holds a value of its field's width.              *)
(***************************************************************************)
LEMMA CellsFit ==
  ASSUME NEW c \in StreamCells
  PROVE  Fits(c)
BY DEF StreamCells, Fits

LEMMA TypesFollow == IndInv => TypeOK
<1> SUFFICES ASSUME IndInv PROVE TypeOK
  OBVIOUS
<1>1. ASSUME NEW i \in 1..Len(cells) PROVE Fits(cells[i])
  <2>1. cells[i] \in StreamCells
    BY EncoderTyped
  <2> QED BY <2>1, CellsFit
<1>2. pos \in 0..n /\ flagPos \in Nat \ {0} /\ nibblePos \in Nat
  BY EncoderTyped
<1>3. /\ at \in Nat \ {0} /\ halfPos \in Nat /\ offset \in Nat /\ length \in Nat
      /\ window \in Seq({0, 1}) /\ Len(window) <= FlagBits
      /\ pc \in {"compress", "store", "flag", "nibble", "byte", "word", "dword", "copy"}
      /\ status \in {"working", "done", "refused", "corrupt", "garbled"}
  BY DEF IndInv, DecoderInv, OutInv
<1> QED BY <1>1, <1>2, <1>3 DEF TypeOK

LEMMA InStepFollows == IndInv => InStep
<1> SUFFICES ASSUME IndInv, pc = "flag", window # << >>, elements < Len(marks)
             PROVE  marks[elements + 1].at = at /\ marks[elements + 1].halfPos = halfPos
  BY DEF InStep
<1>1. Decoding(Stop(elements + 1)) /\ elements \in 0..Len(marks) /\ Len(marks) \in Nat
  BY DEF IndInv, DecoderInv, TrailInv
<1>2. Stop(elements + 1) = marks[elements + 1]
  <2>1. elements + 1 <= Len(marks)
    BY <1>1
  <2> QED BY <2>1 DEF Stop
<1> QED BY <1>1, <1>2 DEF Decoding

LEMMA TruncatedRefused == IndInv => TruncatedCellRefused
BY DEF IndInv, OutInv, TruncatedCellRefused

(***************************************************************************)
(* Whatever the plaintext and the widths of the format, every field of the *)
(* stream holds a number that fits it: no to_bytes of _Encoder fails.      *)
(***************************************************************************)
THEOREM TypeCorrect == Spec => []TypeOK
<1>1. Init => IndInv
  BY InitEstablishes
<1>2. IndInv /\ [Next]_vars => IndInv'
  BY NextKeeps
<1>3. IndInv => TypeOK
  BY TypesFollow
<1> QED BY <1>1, <1>2, <1>3, PTL DEF Spec

(***************************************************************************)
(* decompress begins every element where compress began it, with the same  *)
(* half-used length byte pending, for any plaintext and any cut.           *)
(***************************************************************************)
THEOREM DecoderInStep == Spec => []InStep
<1>1. Init => IndInv
  BY InitEstablishes
<1>2. IndInv /\ [Next]_vars => IndInv'
  BY NextKeeps
<1>3. IndInv => InStep
  BY InStepFollows
<1> QED BY <1>1, <1>2, <1>3, PTL DEF Spec

(***************************************************************************)
(* A framed cell that lost its end is refused, wherever it was cut.        *)
(***************************************************************************)
THEOREM CutCellsRefused == Spec => []TruncatedCellRefused
<1>1. Init => IndInv
  BY InitEstablishes
<1>2. IndInv /\ [Next]_vars => IndInv'
  BY NextKeeps
<1>3. IndInv => TruncatedCellRefused
  BY TruncatedRefused
<1> QED BY <1>1, <1>2, <1>3, PTL DEF Spec

----------------------------------------------------------------------------
(* The codec implements LosslessCodec *)

LEMMA OutFacts ==
  ASSUME IndInv
  PROVE  /\ data \in Seq(Nat) /\ n \in Nat /\ n = Len(data) /\ limit \in Nat /\ Len(out) \in Nat
         /\ Len(out) <= n /\ Len(out) <= limit /\ out = SubSeq(data, 1, Len(out)) /\ out \in Seq(Nat)
<1>1. data \in Seq(Nat) /\ n \in Nat /\ n = Len(data) /\ limit \in Nat
  BY EncoderTyped DEF IndInv, EncoderInv
<1>2. Len(out) <= n /\ Len(out) <= limit /\ out = SubSeq(data, 1, Len(out))
  BY DEF IndInv, OutInv
<1>3. PICK k : k = Len(out)
  OBVIOUS
<1>4. CASE pc \in {"compress", "store"}
  <2>1. out = << >>
    BY <1>4 DEF IndInv, StageInv
  <2> QED BY <1>1, <1>2, <2>1
<1>5. CASE pc \notin {"compress", "store"}
  <2>1. elements \in 0..Len(marks) /\ Len(marks) \in Nat /\ Len(out) = Stop(elements + 1).from
    BY <1>5 DEF IndInv, DecoderInv, TrailInv, Decoding
  <2>2. elements + 1 \in 1..(Len(marks) + 1)
    BY <2>1
  <2>3. Len(out) \in Nat
    BY <2>1, <2>2, StopTyped, ElementTyped
  <2>4. k \in Nat /\ k <= Len(data) /\ out = SubSeq(data, 1, k)
    BY <1>1, <1>2, <1>3, <2>3
  <2>5. out \in Seq(Nat)
    BY <1>1, <2>4
  <2> QED BY <1>1, <1>2, <2>3, <2>5
<1> QED BY <1>4, <1>5

LEMMA InitImplements == Init => Promise!Init
<1> SUFFICES ASSUME Init PROVE Promise!Init
  OBVIOUS
<1>1. limit \in Nat
  BY InitEstablishes DEF IndInv, EncoderInv
<1> QED BY <1>1 DEF Init, Promise!Init

(***************************************************************************)
(* Losing the end of the stream is the damage the promise allows for.      *)
(***************************************************************************)
LEMMA StoreImplements == IndInv /\ Store => Promise!Next
<1> SUFFICES ASSUME IndInv, Store PROVE Promise!Next
  OBVIOUS
<1>1. UNCHANGED <<data, limit, out, status>> /\ pc = "store" /\ whole' \in BOOLEAN
  BY DEF Store, decoderVars, inputs
<1>2. whole /\ whole \in BOOLEAN /\ out = << >> /\ status = "working"
  BY <1>1 DEF IndInv, StageInv
<1>3. \E k \in 0..Len(data) : data' = SubSeq(data, k + 1, Len(data))
  <2>1. data \in Seq(Nat) /\ Len(data) \in Nat
    BY OutFacts
  <2>2. data = SubSeq(data, 0 + 1, Len(data))
    BY <2>1
  <2>3. 0 \in 0..Len(data)
    BY <2>1
  <2> QED BY <1>1, <2>2, <2>3
<1>4. whole' \in {whole, FALSE}
  BY <1>1, <1>2, Zenon
<1>5. Promise!Damage
  BY <1>1, <1>2, <1>3, <1>4 DEF Promise!Damage
<1> QED BY <1>5 DEF Promise!Next

(***************************************************************************)
(* Output grows as the plaintext, and no further than the caller allows.   *)
(***************************************************************************)
LEMMA GrowthImplements ==
  ASSUME IndInv, IndInv', UNCHANGED <<data, limit, whole, status>>, status = "working", Len(out') >= Len(out)
  PROVE  Promise!Next \/ UNCHANGED Promise!vars
<1> DEFINE k == Len(out')
           m == Len(out)
<1>1. /\ m \in Nat /\ n \in Nat /\ n = Len(data) /\ out = SubSeq(data, 1, m)
  BY OutFacts
<1>2. n' = n
  BY DEF n
<1>3. k <= n /\ k <= limit /\ out' = SubSeq(data, 1, k)
  BY <1>2 DEF IndInv, OutInv
<1>4. k \in Nat
  BY OutFacts
<1> HIDE DEF k, m
<1>5. k >= m
  BY DEF k, m
<1>6. CASE k = m
  <2>1. out' = out
    BY <1>1, <1>3, <1>6
  <2> QED BY <2>1 DEF Promise!vars
<1>7. CASE k # m
  <2>1. k \in (m + 1)..n
    BY <1>1, <1>3, <1>4, <1>5, <1>7
  <2>2. \E j \in (Len(out) + 1)..Len(data) : j <= limit /\ out' = SubSeq(data, 1, j)
    BY <1>1, <1>3, <2>1 DEF m
  <2>3. Promise!Produce
    BY <2>2 DEF Promise!Produce
  <2> QED BY <2>3 DEF Promise!Next
<1> QED BY <1>6, <1>7

LEMMA EndImplements ==
  ASSUME IndInv, IndInv', status = "working", NEW verdict, End(verdict), verdict \in {"done", "refused", "corrupt"}
  PROVE  Promise!Next
<1>1. UNCHANGED <<data, limit, whole, out>> /\ status' = verdict
  BY DEF End, stored, inputs
<1>2. n' = n /\ n = Len(data)
  BY <1>1 DEF n
<1>3. CASE verdict = "done"
  <2>1. whole => Len(out) = n
    BY <1>1, <1>2, <1>3 DEF IndInv, OutInv
  <2>2. whole => out = data
    <3> SUFFICES ASSUME whole PROVE out = data
      OBVIOUS
    <3>1. data \in Seq(Nat) /\ out = SubSeq(data, 1, Len(data))
      BY <1>2, <2>1, OutFacts
    <3> QED BY <3>1
  <2>3. Promise!Return
    BY <1>1, <1>3, <2>2 DEF Promise!Return, Promise!End
  <2> QED BY <2>3 DEF Promise!Next
<1>4. CASE verdict = "refused"
  <2>1. n > limit
    BY <1>1, <1>2, <1>4 DEF IndInv, OutInv
  <2>2. Promise!Refuse
    BY <1>1, <1>2, <1>4, <2>1 DEF Promise!Refuse, Promise!End
  <2> QED BY <2>2 DEF Promise!Next
<1>5. CASE verdict = "corrupt"
  <2>1. ~whole
    BY <1>1, <1>5 DEF IndInv, OutInv
  <2>2. Promise!Fail
    BY <1>1, <1>5, <2>1 DEF Promise!Fail, Promise!End
  <2> QED BY <2>2 DEF Promise!Next
<1> QED BY <1>3, <1>4, <1>5

LEMMA CopyLength ==
  ASSUME NEW b \in Seq(Nat), NEW off, NEW len \in Nat
  PROVE  Len(CopyMatch(b, off, len)) = Len(b) + len
<1> DEFINE f == CopyMatch(b, off, len)
           m == Len(b) + len
<1>1. m \in Nat /\ DOMAIN f = 1..m /\ f = [i \in 1..m |-> f[i]]
  BY DEF CopyMatch
<1> HIDE DEF f, m
<1>2. f \in [1..m -> {f[i] : i \in 1..m}]
  BY <1>1
<1>3. Len(f) = m
  BY <1>1, <1>2
<1> QED BY <1>3 DEF f, m

\* decompress's steps stop, go on reading, or produce.
LEMMA DecoderCases ==
  ASSUME IndInv, IndInv', Decompress
  PROVE  \/ \E verdict \in {"done", "refused", "corrupt"} : End(verdict)
         \/ UNCHANGED <<data, limit, whole, out, status>>
         \/ UNCHANGED <<data, limit, whole, status>> /\ Len(out') >= Len(out)
<1>1. status' # "garbled"
  BY DEF IndInv, OutInv
<1>2. out \in Seq(Nat) /\ Len(out) \in Nat /\ length \in Nat
  BY OutFacts DEF IndInv, OutInv
<1>3. CASE LoadFlags
  BY <1>1, <1>3 DEF LoadFlags, Expect, End, stored, inputs
<1>4. CASE ReadLiteral
  <2>1. Len(Append(out, Value)) >= Len(out)
    BY <1>2
  <2> QED BY <1>1, <1>4, <2>1 DEF ReadLiteral, Expect, Produce, End, stored, inputs
<1>5. CASE ReadEnd
  <2>1. Verdict \in {"done", "refused", "corrupt"} /\ End(Verdict)
    BY <1>5 DEF ReadEnd, Verdict
  <2> QED BY <2>1
<1>6. CASE ReadToken
  BY <1>1, <1>6 DEF ReadToken, Expect, Take, End, stored, inputs
<1>7. CASE ReadNewNibble
  BY <1>1, <1>7 DEF ReadNewNibble, Expect, Take, End, stored, inputs
<1>8. CASE ReadOldNibble
  BY <1>8 DEF ReadOldNibble, stored, inputs
<1>9. CASE ReadByte
  BY <1>1, <1>9 DEF ReadByte, Expect, Take, End, stored, inputs
<1>10. CASE ReadWord
  BY <1>1, <1>10 DEF ReadWord, Expect, Take, End, stored, inputs
<1>11. CASE ReadDword
  BY <1>1, <1>11 DEF ReadDword, Expect, Take, End, stored, inputs
<1>12. CASE Copy
  <2>1. Len(CopyMatch(out, offset, length)) >= Len(out)
    <3>1. Len(CopyMatch(out, offset, length)) = Len(out) + length
      BY <1>2, CopyLength
    <3> QED BY <1>2, <3>1
  <2>2. \/ End("corrupt") \/ End("refused") \/ Produce(CopyMatch(out, offset, length))
    BY <1>12 DEF Copy
  <2> QED BY <2>1, <2>2 DEF Produce, stored, inputs
<1> QED BY <1>3, <1>4, <1>5, <1>6, <1>7, <1>8, <1>9, <1>10, <1>11, <1>12 DEF Decompress

LEMMA StepImplements == IndInv /\ [Next]_vars => [Promise!Next]_(Promise!vars)
<1> SUFFICES ASSUME IndInv, [Next]_vars PROVE Promise!Next \/ UNCHANGED Promise!vars
  OBVIOUS
<1>1. IndInv'
  BY NextKeeps
<1>2. CASE EmitLiteral \/ EmitMatch \/ Finish \/ UNCHANGED vars
  <2>1. UNCHANGED <<data, limit, whole, out, status>>
    BY <1>2 DEF EmitLiteral, EmitMatch, Finish, vars, decoderVars, inputs
  <2> QED BY <2>1 DEF Promise!vars
<1>3. CASE Store
  BY <1>3, StoreImplements
<1>4. CASE Decompress
  <2>1. status = "working"
    BY <1>4 DEF Decompress, LoadFlags, ReadLiteral, ReadEnd, ReadToken, ReadNewNibble, ReadOldNibble, ReadByte,
                ReadWord, ReadDword, Copy, Running
  <2>2. CASE \E verdict \in {"done", "refused", "corrupt"} : End(verdict)
    BY <1>1, <2>1, <2>2, EndImplements
  <2>3. CASE UNCHANGED <<data, limit, whole, out, status>>
    BY <2>3 DEF Promise!vars
  <2>4. CASE UNCHANGED <<data, limit, whole, status>> /\ Len(out') >= Len(out)
    BY <1>1, <2>1, <2>4, GrowthImplements
  <2> QED BY <1>1, <1>4, <2>2, <2>3, <2>4, DecoderCases
<1> QED BY <1>2, <1>3, <1>4 DEF Next, Compress, Stopped

(***************************************************************************)
(* compress followed by decompress, raw or framed, keeps the promise of    *)
(* LosslessCodec, but for its last conjunct (every call returns), for any  *)
(* plaintext, any max_size and any cut.                                    *)
(***************************************************************************)
THEOREM PromiseKept == Spec => Promise!Init /\ [][Promise!Next]_(Promise!vars)
<1>1. Init => IndInv /\ Promise!Init
  BY InitEstablishes, InitImplements
<1>2. IndInv /\ [Next]_vars => IndInv'
  BY NextKeeps
<1>3. IndInv /\ [Next]_vars => [Promise!Next]_(Promise!vars)
  BY StepImplements
<1> QED BY <1>1, <1>2, <1>3, PTL DEF Spec
============================================================================
