--------------------------- MODULE MCXpress9Wire ---------------------------
(* Two samples of what an XPRESS9 block carries: Huffman tables of a small *)
(* alphabet, and, with the constants of the code, tokens with lengths and  *)
(* offsets around each boundary of the wire alphabets.  The tokens go with *)
(* the empty foreign table.                                                *)
EXTENDS Xpress9Trees, Xpress9Symbols

CONSTANTS
  MaxOffBits,  \* offsets up to 2^MaxOffBits
  MaxLenBits   \* match lengths up to 2^MaxLenBits

VARIABLE token

----------------------------------------------------------------------------
(* Tables *)

Table(f) == [s \in Symbols |-> IF s \in DOMAIN f THEN f[s] ELSE 0]
Steep == <<1, 1, 2, 3, 5, 8, 13, 300>>

\* No, one and two symbols, with runs of zeros of every length before, between
\* and behind them; three in one row or more; counts steep enough to be cut
\* down, counts even enough to be stored, tables in which rows follow one
\* another.
MCCounts ==
  {FilledUp(Table([s \in S |-> 400])) : S \in {{}} \union {{a, b} : a \in {0, 7, 8, 11}, b \in Symbols}}
    \union {Table([s \in {a, b, c} |-> IF s = b THEN 900 ELSE 300]) :
              a \in {0, 1, 7}, b \in {8, 9, 12}, c \in {4, 13, 14, 15}}
    \union {Table([s \in a..(a + n) |-> Steep[s - a + 1]]) : a \in {0, 3, 8}, n \in 4..7}
    \union {Table([s \in Symbols |-> 20]), Table([s \in Symbols |-> 5 + 400 * (s % 2)]),
            Table([s \in Symbols |-> IF s < 8 THEN 40 ELSE 80])}
MCVectors == {CodeLengths(f, MaxLen) : f \in MCCounts}

ForeignElements ==
  [op : {0, 1, MaxLen, FillOp, PrevOp, Row0Op, Row1Op}, n : {0}]
    \union [op : {ZeroOp}, n : {0, Extend}] \union [op : {MoreOp}, n : {0, Continue}]
MCForeign == UNION {[1..n -> ForeignElements] : n \in 0..3}

\* A code of all opcodes; one entry too long, one that spoils the tree, two.
FullSmall == SmallEntries([s \in Opcodes |-> IF s < 5 THEN 3 ELSE 4])
MCForeignSmall ==
  {FullSmall, [FullSmall EXCEPT ![6] = SmallMax], [FullSmall EXCEPT ![6] = 1],
   [FullSmall EXCEPT ![6] = 2, ![7] = 3]}

----------------------------------------------------------------------------
(* Tokens *)

\* Small numbers, and the neighbours of the larger powers of two.
Around(bits) == (1..40) \union UNION {(2^b - 1)..(2^b + 1) : b \in 5..(bits - 1)} \union {2^bits - 1}

\* Lengths around the end of the short slot and of the long alphabet too.
Lengths(base) ==
  {l \in Around(MaxLenBits) : l >= base}
    \union {base + MaxShort - 1 + d : d \in -2..2}
    \union {base + MaxShort - 1 + MaxLong + d : d \in -2..2}
    \union {LengthLimit(base) + d : d \in -1..1}

Sample ==
  [kind : {"lit"}, sym : 0..(LitCount - 1), off : {0}, len : {1}]
    \union [kind : {"ptr"}, sym : {0}, off : Around(MaxOffBits), len : Lengths(PtrBase)]
    \union [kind : {"mtf"}, sym : 0..(MtfSlots - 1), off : {1, 700}, len : Lengths(MtfBase)]

NoToken == [kind |-> "none"]

Init ==
  /\ TreesInit
  /\ token \in IF ~own /\ stream = << >> /\ small = FullSmall THEN Sample ELSE {NoToken}
Next == token = NoToken /\ TreesNext /\ UNCHANGED token
Spec == Init /\ [][Next]_<<treeVars, token>>

----------------------------------------------------------------------------

(***************************************************************************)
(* The decoder asks for the fields the encoder wrote, in the same order    *)
(* and with the same widths (_encode_tokens, _decode_block), and reads the *)
(* token the encoder had.                                                  *)
(***************************************************************************)
TokenSurvivesWire == token # NoToken => FieldsLineUp(token) /\ SurvivesWire(token)

(***************************************************************************)
(* _collect_frequencies finds a place in its two tables of counts exactly  *)
(* for the tokens with an offset below 2^24 and a length not much above    *)
(* that; beyond, compress fails with an IndexError.                        *)
(***************************************************************************)
SymbolsHaveRoom == token # NoToken => HasRoom(token)
============================================================================
