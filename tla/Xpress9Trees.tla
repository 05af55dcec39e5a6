---------------------------- MODULE Xpress9Trees ---------------------------
(***************************************************************************)
(* One Huffman table of an XPRESS9 block from counts to codewords, on both *)
(* sides of the wire (ese/xpress9.py): codes from counts, their lengths as *)
(* opcodes, the opcodes' own code and its small table, the choice between  *)
(* that and the uniform code (_encode_huffman_table); then the reader      *)
(* (_decode_length_table, _decode_small_table, _CanonicalHuffman).         *)
(***************************************************************************)
EXTENDS Xpress9Lengths, Xpress9Codes

CONSTANTS
  Counts,        \* tables of symbol counts
  ForeignSmall,  \* small tables of other encoders
  SmallMax,      \* _SMALL_TABLE_MAX_LENGTH
  SmallPrev      \* _SMALL_TABLE_INITIAL_PREV

ASSUME TreesAssumption ==
  /\ SmallMax \in Nat \ {0} /\ SmallPrev \in 1..SmallMax
  /\ Counts \subseteq [Symbols -> Nat]
  /\ \A f \in Counts : CodeLengths(f, MaxLen) \in Vectors

Opcodes == 0..Row1Op   \* _TABLE_ALPHABET_SIZE of them

Same   == -1           \* a small table's entry: the length before again
None   == << >>        \* a table that is not there yet

VARIABLES
  counts,   \* writer: counts
  small,    \* writer: the entries of the small table
  mode,     \* writer: "open", then "stored" or "coded"
  rsmall,   \* reader: lengths of the opcodes' code
  decoder   \* reader: lengths of the table's code

treeVars == <<tableVars, counts, small, mode, rsmall, decoder>>

\* _encode_block never leaves an alphabet empty, nor the long one with a lone
\* symbol.
FilledUp(f) ==
  LET absent == DOMAIN f \ Present(f)
      extra  == IF Present(f) = {} THEN {0, 1}
                ELSE IF Cardinality(Present(f)) = 1 THEN {Min(absent)} ELSE {}
  IN [s \in DOMAIN f |-> IF s \in extra THEN 1 ELSE f[s]]

----------------------------------------------------------------------------
(* The small table: lengths of the opcodes' code, each against the one     *)
(* before.                                                                 *)

OpcodeLengths ==
  CodeLengths([s \in Opcodes |-> Cardinality({k \in DOMAIN stream : stream[k].op = s})], SmallMax)

SmallEntries(lens) ==
  LET prev(s) == IF s = 0 THEN SmallPrev ELSE lens[s - 1]
  IN [s \in Opcodes |-> IF lens[s] = prev(s) THEN Same
                        ELSE IF lens[s] > prev(s) THEN lens[s] - 1 ELSE lens[s]]

\* The variant takes a value as it stands.
Unbiased(value, prev) == value
Biased(value, prev) == IF value >= prev THEN value + 1 ELSE value

SmallLengths(entries) ==
  LET lens[s \in {-1} \union Opcodes] ==
        IF s = -1 THEN SmallPrev
        ELSE IF entries[s] = Same THEN lens[s - 1] ELSE Biased(entries[s], lens[s - 1])
  IN [s \in Opcodes |-> lens[s]]

----------------------------------------------------------------------------
(* Costs, in bits.  Bits(n) of them hold 0..n. *)

Bits(n) == Log2(n + 1)

StoredCost ==
  3 + Total(counts, Symbols) * Log2(Size) + Total(counts, ShortOnes(Size)..(Size - 1))

ElementCost(e, lens) ==
  IF e.op = MoreOp THEN Bits(Continue)
  ELSE lens[e.op] + IF e.op = ZeroOp THEN Bits(Extend) ELSE 0

CodedCost(lens) ==
  LET entries == SmallEntries(lens)
      data    == FoldSet(LAMBDA s, sum : counts[s] * lengths[s] + sum, 0, Symbols)
      table   == FoldSet(LAMBDA s, sum : 1 + (IF entries[s] = Same THEN 0 ELSE Bits(SmallMax - 1)) + sum,
                         0, Opcodes)
      body    == FoldSet(LAMBDA k, sum : ElementCost(stream[k], lens) + sum, 0, DOMAIN stream)
  IN 3 + data + table + body

Choose ==
  /\ StartReading
  /\ mode' = IF StoredCost <= CodedCost(OpcodeLengths) THEN "stored" ELSE "coded"
  /\ small' = SmallEntries(OpcodeLengths)
  /\ UNCHANGED <<counts, rsmall, decoder>>

----------------------------------------------------------------------------
(* The reader *)

KeepTrees == UNCHANGED <<counts, small, mode, rsmall, decoder>>

ReadStored ==
  /\ phase = "read" /\ mode = "stored" /\ decoder = None
  /\ IF Accepted(UniformLengths(Size)) THEN decoder' = UniformLengths(Size) /\ UNCHANGED tableVars
     ELSE Fail("error") /\ UNCHANGED <<writerVars, decoder>>
  /\ UNCHANGED <<counts, small, mode, rsmall>>

ReadSmall ==
  /\ phase = "read" /\ mode = "coded" /\ rsmall = None
  /\ \E lens \in {SmallLengths(small)} :
       IF (\A s \in Opcodes : lens[s] <= SmallMax) /\ Accepted(lens)
       THEN rsmall' = lens /\ UNCHANGED tableVars
       ELSE Fail("error") /\ UNCHANGED <<writerVars, rsmall>>
  /\ UNCHANGED <<counts, small, mode, decoder>>

ReadBody == mode = "coded" /\ rsmall # None /\ ReadTable /\ KeepTrees

BuildDecoder ==
  /\ phase = "done" /\ decoder = None
  /\ IF Accepted(read) THEN decoder' = read /\ UNCHANGED tableVars
     ELSE Fail("error") /\ UNCHANGED <<writerVars, decoder>>
  /\ UNCHANGED <<counts, small, mode, rsmall>>

----------------------------------------------------------------------------

TreesInit ==
  /\ \/ /\ own = TRUE /\ counts \in Counts /\ lengths = CodeLengths(counts, MaxLen)
        /\ small = None /\ mode = "open"
     \/ own = FALSE /\ counts = [s \in Symbols |-> 0] /\ small \in ForeignSmall /\ mode = "coded"
  /\ TableInit
  /\ rsmall = None /\ decoder = None

WriteBody ==
  /\ WriteLength \/ ScanZeros \/ WriteFill \/ WriteZero \/ WriteRun \/ WriteMore
  /\ KeepTrees

TreesNext == WriteBody \/ Choose \/ ReadStored \/ ReadSmall \/ ReadBody \/ BuildDecoder
TreesSpec == TreesInit /\ [][TreesNext]_treeVars

----------------------------------------------------------------------------

\* The decoder takes exactly this codeword for s.
Takes(lens, code, s) == Decoded9(lens, code) = [t \in {s} |-> Len(code)]

\* The code the writer uses.
Codeword(s) == IF mode = "stored" THEN UniformCode(Size, s) ELSE Code(lengths, s)

(***************************************************************************)
(* The writer's codewords, built from counts, mean the same to the decoder *)
(* the reader has built from the table: for the opcodes while the table is *)
(* read (_encode_small_table, _decode_small_table), then for every symbol  *)
(* that occurs (_build_huffman_codes, _encode_huffman_table,               *)
(* _CanonicalHuffman).  No table of the writer's is refused.               *)
(***************************************************************************)
CodesAgree ==
  own =>
    /\ phase # "error"
    /\ rsmall # None /\ consumed = 0 =>
         \A s \in Present(OpcodeLengths) :
           Takes(rsmall, Code(OpcodeLengths, s), s)
    /\ decoder # None =>
         \A s \in Present(counts) : Takes(decoder, Codeword(s), s)
============================================================================
