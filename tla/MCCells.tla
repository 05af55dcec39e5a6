------------------------------ MODULE MCCells ------------------------------
(* Cells of every ESE format, texts for the 7-bit formats, and plaintexts  *)
(* for the compact XPRESS9 codec.  The three samples share one run: a      *)
(* behaviour is about one of them.                                         *)
EXTENDS SevenBit, EseCells, CompactXpress9, SequencesExt

CONSTANTS
  MaxLength,  \* longest plaintext
  MaxUnits,   \* longest text of 7-bit units
  MaxSource   \* longest plaintext of the compact codec

----------------------------------------------------------------------------
(* Plaintexts, some of which pay for a frame *)

MCPlaintexts ==
  UNION {[1..k -> {1, 2}] : k \in 0..3}
    \union {[i \in 1..k |-> 1 + (i % m)] : k \in 4..MaxLength, m \in 1..2}

\* All literals, or literals up to s and one match of distance k for the rest.
Tokenized(d, s, k) == [i \in 1..s |-> Literal(d[i])] \o <<Match(k, Len(d) - s)>>
Repeats(d, s, k) == k <= s /\ \A i \in (s + 1)..Len(d) : d[i] = d[i - k]
MCFactored(d) ==
  {[i \in 1..Len(d) |-> Literal(d[i])]}
    \union {Tokenized(d, p[1], p[2]) :
              p \in {q \in (1..(Len(d) - 1)) \X (1..2) : Repeats(d, q[1], q[2])}}

----------------------------------------------------------------------------
(* Sessions of up to three blocks that take every symbol they can from k   *)
(* before, across blocks too.                                              *)

Symbol(d, i, k) == IF i > k /\ d[i] = d[i - k] THEN Match(k, 1) ELSE Literal(d[i])
Block(d, from, to, k, index, signature) ==
  <<Header(to - from, to - from, signature, 0, index, {})>>
    \o [i \in 1..(to - from) |-> Symbol(d, from + i, k)]
Session(d, b, c, k, signature) ==
  [data |-> d, ends |-> {b, c, Len(d)}, sound |-> TRUE,
   payload |-> Block(d, 0, b, k, 0, signature) \o Block(d, b, c, k, 1, signature)
                 \o IF c < Len(d) THEN Block(d, c, Len(d), k, 2, signature) ELSE << >>]

\* A total that is too large; a match that passes its block; parameters that
\* change.
TooLong == Session([i \in 1..(MaxDecoded + 1) |-> 1], 2, 4, 1, 7)
Passing ==
  [data |-> <<1, 1, 1>>, ends |-> {}, sound |-> FALSE,
   payload |-> <<Header(2, 2, 7, 0, 0, {}), Literal(1), Match(1, 2), Header(1, 1, 7, 0, 1, {}), Literal(1)>>]
Otherwise ==
  [Session(<<1, 2>>, 1, 2, 1, 7) EXCEPT !.sound = FALSE, !.ends = {}, !.payload[3].params = 1]

MCSessions ==
  {Session(d, 1, 2, k, 7) : d \in {<<1, 2>>, <<2, 1, 2>>, <<1, 1, 1, 2>>}, k \in 1..2}
    \union {Session(<<1, 2, 1, 2>>, 2, 3, 2, 7), Session(<<2, 2, 2>>, 1, 2, 1, 8),
            TooLong, Passing, Otherwise}
MCPayloads == {s.payload : s \in MCSessions}
MCHeaderSize == [c \in Codecs |-> IF c = "XPRESS10" THEN 3 ELSE IF c = "XPRESS9" THEN 2 ELSE 1]

----------------------------------------------------------------------------
(* Texts of which one unit differs from all others, and one that is dirty *)

Bits(v) == [b \in 1..UnitBits |-> IF v = "ones" \/ (v = "low" /\ b = 1) THEN 1 ELSE 0]
MCTexts ==
  {[i \in 1..k |-> IF i = j THEN Bits(v) ELSE Bits(w)] :
     k \in 1..MaxUnits, j \in 1..MaxUnits, v \in {"ones", "low"}, w \in {"ones", "none"}}
    \union {<< >>, [i \in 1..MaxUnits |-> IF i = 3 THEN Dirty ELSE Bits("low")]}

----------------------------------------------------------------------------
(* All short binary texts, runs that reach the end of each length code,    *)
(* and pairs that come again between other bytes.                          *)

MCSources ==
  UNION {[1..k -> {0, 1}] : k \in 0..MaxSource}
    \union {<<0, 0, 0, 0>> \o FlattenSeq(w) : w \in [1..5 -> {<<0, 0>>, <<1>>, <<2>>}]}
    \union {[i \in 1..k |-> IF i <= j THEN 0 ELSE 1] : k \in MaxSource..20, j \in 0..3}

----------------------------------------------------------------------------

NoText == units = << >> /\ fed = 0 /\ acc = << >> /\ packed = << >> /\ flags = 0
            /\ rat = 0 /\ racc = << >> /\ read = << >> /\ wide = FALSE /\ stage = "refused"
NoCell ==
  /\ ReadingInit /\ verify = FALSE /\ want = ByFirstByte /\ damage = "none" /\ data = << >>
  /\ fmt = "NONE" /\ payload = << >> /\ id = "NONE" /\ field = NoField
  /\ sound = TRUE /\ ends = {} /\ step = "refused"
NoSource ==
  /\ source = << >> /\ place = 0 /\ recent = << >> /\ written = << >>
  /\ got = 0 /\ known = << >> /\ lastWasPtr = FALSE /\ produced = << >> /\ phase = "done"

MCInit ==
  \/ Init /\ NoText /\ NoSource
  \/ SevenBitInit /\ NoCell /\ NoSource
  \/ CompactInit /\ NoText /\ NoCell
MCNext ==
  \/ Next /\ UNCHANGED <<sevenVars, compactVars>>
  \/ SevenBitNext /\ UNCHANGED <<vars, compactVars>>
  \/ CompactNext /\ UNCHANGED <<vars, sevenVars>>
MCSpec == MCInit /\ [][MCNext]_<<vars, sevenVars, compactVars>>
============================================================================
