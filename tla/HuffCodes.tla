----------------------------- MODULE HuffCodes -----------------------------
(***************************************************************************)
(* The Huffman codes of an XPRESS_HUFF block (ntdll/xpress_huff.py): code  *)
(* lengths by package-merge, canonical codes, the packed table of lengths, *)
(* and the decode table the other side builds from it.  The encoder never  *)
(* sees the decoder's table: both derive the code from the lengths alone.  *)
(***************************************************************************)
EXTENDS Integers, Sequences, SequencesExt, FiniteSetsExt

CONSTANTS
  SymbolCount,  \* SYMBOL_COUNT
  MaxLength,    \* MAX_CODE_LENGTH, also _ROOT_BITS
  Frequencies   \* the counts a block may have: functions from its symbols

ASSUME HuffCodesAssumption ==
  /\ SymbolCount \in Nat /\ SymbolCount >= 2 /\ SymbolCount % 2 = 0
  /\ MaxLength \in Nat \ {0} /\ SymbolCount <= 2^MaxLength
  /\ \A f \in Frequencies : DOMAIN f \subseteq 0..(SymbolCount - 1) /\ DOMAIN f # {}

Symbols == 0..(SymbolCount - 1)
Slots == 0..(2^MaxLength - 1)

VARIABLES
  freqs,      \* _encode_block: symbol counts, with fillers
  round,      \* _limited_lengths: merges done
  packages,   \* _limited_lengths: current
  lengths,    \* _limited_lengths: the result
  codes,      \* _canonical_codes: the codes assigned so far
  table,      \* _build_decode_table
  entry,      \* _build_decode_table: the first free slot
  phase       \* "fill", "merge", "codes", "table", "done" or "error"

vars == <<freqs, round, packages, lengths, codes, table, entry, phase>>

----------------------------------------------------------------------------
(* The encoder *)

\* The code needs two symbols at least; the smallest unused one is added.
AddFiller ==
  /\ phase = "fill" /\ Cardinality(DOMAIN freqs) < 2
  /\ LET filler == Min(Symbols \ DOMAIN freqs)
     IN freqs' = [s \in DOMAIN freqs \union {filler} |-> IF s = filler THEN 1 ELSE freqs[s]]
  /\ UNCHANGED <<round, packages, lengths, codes, table, entry, phase>>

\* The symbols by count, equal counts by number.
Rarer(s, t) == freqs[s] < freqs[t] \/ (freqs[s] = freqs[t] /\ s < t)
Items ==
  [i \in 1..Cardinality(DOMAIN freqs) |->
     CHOOSE s \in DOMAIN freqs : Cardinality({t \in DOMAIN freqs : Rarer(t, s)}) = i - 1]

\* Python's order of (weight, indices) pairs.
SmallerTuple(a, b) ==
  \E k \in 1..Len(b) : /\ \A j \in 1..(k - 1) : j <= Len(a) /\ a[j] = b[j]
                       /\ k > Len(a) \/ a[k] < b[k]
Lighter(p, q) == p.weight < q.weight \/ (p.weight = q.weight /\ SmallerTuple(p.items, q.items))

Base == [i \in 1..Len(Items) |-> [weight |-> freqs[Items[i]], items |-> <<i>>]]

StartMerging ==
  /\ phase = "fill" /\ Cardinality(DOMAIN freqs) >= 2
  /\ packages' = Base
  /\ phase' = "merge"
  /\ UNCHANGED <<freqs, round, lengths, codes, table, entry>>

\* Neighbours in pairs, an odd last one dropped; the variant pairs the wrong
\* ones.
PairedApart(s) ==
  [j \in 1..(Len(s) \div 2) |->
     LET k == Len(s) \div 2 + j
     IN [weight |-> s[j].weight + s[k].weight, items |-> s[j].items \o s[k].items]]
Paired(s) ==
  [j \in 1..(Len(s) \div 2) |->
     [weight |-> s[2 * j - 1].weight + s[2 * j].weight,
      items |-> s[2 * j - 1].items \o s[2 * j].items]]

Merge ==
  /\ phase = "merge" /\ round < MaxLength - 1
  /\ packages' = SortSeq(Base \o Paired(packages), Lighter)
  /\ round' = round + 1
  /\ UNCHANGED <<freqs, lengths, codes, table, entry, phase>>

\* The 2n - 2 lightest packages: a symbol's length is how often it occurs in
\* them.  The variant takes one package too few.
TakenOneShort == 2 * Len(Items) - 3
Taken == 2 * Len(Items) - 2

CountLengths ==
  /\ phase = "merge" /\ round = MaxLength - 1
  /\ LET chosen == FlattenSeq([j \in 1..Taken |-> packages[j].items])
     IN lengths' = [s \in DOMAIN freqs |->
                      Cardinality({k \in 1..Len(chosen) : Items[chosen[k]] = s})]
  /\ phase' = "codes"
  /\ UNCHANGED <<freqs, round, packages, codes, table, entry>>

\* Shorter codes first, equal lengths by symbol.  The variant orders by symbol
\* alone.
BySymbol(s, t, len) == s < t
Canonical(s, t, len) == len[s] < len[t] \/ (len[s] = len[t] /\ s < t)

\* The next symbol that has none yet gets the successor of the last code,
\* widened to its length.
AssignCode ==
  /\ phase = "codes" /\ DOMAIN codes # DOMAIN lengths
  /\ LET left == DOMAIN lengths \ DOMAIN codes
         next == CHOOSE s \in left : \A t \in left \ {s} : Canonical(s, t, lengths)
         last == CHOOSE s \in DOMAIN codes : \A t \in DOMAIN codes \ {s} : Canonical(t, s, lengths)
         code == IF DOMAIN codes = {} THEN 0
                 ELSE (codes[last] + 1) * 2^(lengths[next] - lengths[last])
     IN codes' = [s \in DOMAIN codes \union {next} |-> IF s = next THEN code ELSE codes[s]]
  /\ UNCHANGED <<freqs, round, packages, lengths, table, entry, phase>>

----------------------------------------------------------------------------
(* The table of lengths on the wire, two symbols to a byte *)

LengthOf(s) == IF s \in DOMAIN lengths THEN lengths[s] ELSE 0

Packed == [i \in 0..(SymbolCount \div 2 - 1) |-> LengthOf(2 * i) + (MaxLength + 1) * LengthOf(2 * i + 1)]

\* _lengths_from_table; the variant swaps the two halves of a byte.
UnpackedSwapped(bytes) ==
  [s \in Symbols |-> IF s % 2 = 1 THEN bytes[s \div 2] % (MaxLength + 1)
                                  ELSE bytes[s \div 2] \div (MaxLength + 1)]
Unpacked(bytes) ==
  [s \in Symbols |-> IF s % 2 = 0 THEN bytes[s \div 2] % (MaxLength + 1)
                                  ELSE bytes[s \div 2] \div (MaxLength + 1)]

----------------------------------------------------------------------------
(* The decoder *)

\* Symbols are laid out in canonical order, each over the slots that begin
\* with its code; overflow and a gap at the end are errors.
Coded == {s \in Symbols : Unpacked(Packed)[s] > 0}
Laid == {table[i] : i \in 0..(entry - 1)}

OpenTable ==
  /\ phase = "codes" /\ DOMAIN codes = DOMAIN lengths
  /\ table' = [i \in Slots |-> 0]
  /\ phase' = "table"
  /\ UNCHANGED <<freqs, round, packages, lengths, codes, entry>>

LayOut ==
  /\ phase = "table" /\ Laid # Coded
  /\ LET len  == Unpacked(Packed)
         left == Coded \ Laid
         next == CHOOSE s \in left : \A t \in left \ {s} : Canonical(s, t, len)
         end  == entry + 2^(MaxLength - len[next])
     IN IF end > 2^MaxLength
        THEN phase' = "error" /\ UNCHANGED <<table, entry>>
        ELSE /\ table' = [i \in Slots |-> IF i \in entry..(end - 1) THEN next ELSE table[i]]
             /\ entry' = end
             /\ UNCHANGED phase
  /\ UNCHANGED <<freqs, round, packages, lengths, codes>>

CloseTable ==
  /\ phase = "table" /\ Laid = Coded
  /\ phase' = IF entry = 2^MaxLength THEN "done" ELSE "error"
  /\ UNCHANGED <<freqs, round, packages, lengths, codes, table, entry>>

----------------------------------------------------------------------------

Init ==
  /\ freqs \in Frequencies
  /\ round = 0 /\ packages = << >> /\ lengths = << >> /\ codes = << >>
  /\ table = << >> /\ entry = 0
  /\ phase = "fill"

Stopped == phase \in {"done", "error"} /\ UNCHANGED vars

Next ==
  \/ AddFiller \/ StartMerging \/ Merge \/ CountLengths \/ AssignCode
  \/ OpenTable \/ LayOut \/ CloseTable \/ Stopped

Spec == Init /\ [][Next]_vars

----------------------------------------------------------------------------

(***************************************************************************)
(* The lengths form a complete prefix code: _build_decode_table neither    *)
(* overflows nor leaves a gap, whatever the counts, and every length fits  *)
(* the nibble the table has for it.                                        *)
(***************************************************************************)
CodeIsComplete == phase # "error" /\ \A s \in DOMAIN lengths : lengths[s] \in 1..MaxLength

(***************************************************************************)
(* A symbol's code, followed by any bits, indexes a slot that holds the    *)
(* symbol: the codes of _canonical_codes are those of _build_decode_table. *)
(***************************************************************************)
CodesDecode ==
  phase = "done" =>
    \A s \in DOMAIN codes, i \in Slots :
      i \div 2^(MaxLength - lengths[s]) = codes[s] => table[i] = s

(***************************************************************************)
(* No code with lengths up to MaxLength is shorter on the block's symbols: *)
(* what package-merge promises.                                            *)
(***************************************************************************)
Cost(len) == MapThenSumSet(LAMBDA s : freqs[s] * len[s], DOMAIN freqs)
Kraft(len) == MapThenSumSet(LAMBDA s : 2^(MaxLength - len[s]), DOMAIN freqs)

LengthsAreOptimal ==
  phase = "codes" /\ codes = << >> =>
    \A other \in [DOMAIN freqs -> 1..MaxLength] :
      Kraft(other) <= 2^MaxLength => Cost(lengths) <= Cost(other)
============================================================================
