---------------------------- MODULE Xpress9Codes ---------------------------
(***************************************************************************)
(* The Huffman codes of XPRESS9 (ese/xpress9.py): lengths from counts by   *)
(* Huffman's method with two queues, cut down to a longest length, then    *)
(* canonical codes (_build_huffman_codes); and the reader's decoder, built *)
(* from the lengths alone (_CanonicalHuffman).  A table of counts or       *)
(* lengths is a function on symbols; zero means absent.                    *)
(***************************************************************************)
EXTENDS Integers, Sequences, FiniteSetsExt

Present(f) == {s \in DOMAIN f : f[s] > 0}
Total(f, S) == FoldSet(LAMBDA s, sum : f[s] + sum, 0, S)

----------------------------------------------------------------------------
(* Lengths *)

Rarer(counts, s, t) == counts[s] < counts[t] \/ (counts[s] = counts[t] /\ s < t)
Rank(counts, s) == Cardinality({t \in Present(counts) : Rarer(counts, t, s)})
Leaf(counts, r) == CHOOSE s \in Present(counts) : Rank(counts, s) = r

\* The lighter head of the two queues; a leaf goes first.
Popped(counts, q) ==
  LET more == q.leaf < Cardinality(Present(counts))
      s    == Leaf(counts, q.leaf)
  IN IF more /\ (q.next > Len(q.nodes) \/ counts[s] <= q.nodes[q.next].count)
     THEN [node |-> [count |-> counts[s], under |-> {s}], rest |-> [q EXCEPT !.leaf = @ + 1]]
     ELSE [node |-> q.nodes[q.next], rest |-> [q EXCEPT !.next = @ + 1]]

\* The inner nodes in the order of their making.
Nodes(counts) ==
  LET q[k \in Nat] ==
        IF k = 0 THEN [leaf |-> 0, next |-> 1, nodes |-> << >>]
        ELSE LET a == Popped(counts, q[k - 1])
                 b == Popped(counts, a.rest)
             IN [b.rest EXCEPT !.nodes =
                   Append(@, [count |-> a.node.count + b.node.count,
                              under |-> a.node.under \union b.node.under])]
  IN q[Cardinality(Present(counts)) - 1].nodes

\* How many symbols are how deep: as deep as inner nodes are above them.
Levels(counts) ==
  LET nodes == Nodes(counts)
      depth == [s \in Present(counts) |-> Cardinality({j \in DOMAIN nodes : s \in nodes[j].under})]
  IN [l \in 1..Cardinality(DOMAIN counts) |-> Cardinality({s \in Present(counts) : depth[s] = l})]

\* HuffmanTruncateTree: a pair at the deepest level gives one symbol to the
\* level above it, the other shares the place of the deepest leaf that may
\* still move down.
Deepest(levels, S) == Max({l \in S : levels[l] > 0})
Shortened(levels, i, max) ==
  LET j == Deepest(levels, 1..(max - 1))
  IN [levels EXCEPT ![j] = @ - 1, ![j + 1] = @ + 2, ![i - 1] = @ + 1, ![i] = @ - 2]

Truncated(levels, max) ==
  LET cut[f \in [DOMAIN levels -> Nat]] ==
        LET i == Deepest(f, DOMAIN f) IN IF i <= max THEN f ELSE cut[Shortened(f, i, max)]
  IN cut[levels]

\* The longest codewords go to the rarest symbols; a lone symbol has one bit.
CodeLengths(counts, max) ==
  LET levels == Truncated(Levels(counts), max)
      length(s) == CHOOSE l \in 1..max : Total(levels, (l + 1)..max) <= Rank(counts, s)
                                           /\ Rank(counts, s) < Total(levels, l..max)
      lone == Cardinality(Present(counts)) = 1
  IN [s \in DOMAIN counts |->
        IF s \notin Present(counts) THEN 0 ELSE IF lone THEN 1 ELSE length(s)]

----------------------------------------------------------------------------
(* Codes.  A code is written bit-reversed into a stream that begins with   *)
(* the lowest bit: its highest bit comes first.                            *)

InStream(code, len) == [i \in 1..len |-> (code \div 2^(len - i)) % 2]

Before(lengths, s, t) == lengths[s] < lengths[t] \/ (lengths[s] = lengths[t] /\ s < t)

\* Every symbol before s moved the code on by one, at its own length.
Code(lengths, s) ==
  LET earlier == {t \in Present(lengths) : Before(lengths, t, s)}
  IN InStream(FoldSet(LAMBDA t, sum : sum + 2^(lengths[s] - lengths[t]), 0, earlier), lengths[s])

\* The uniform code of a stored table: ShortOnes(n) symbols of Log2(n) bits,
\* the others one longer.
Log2(n) == CHOOSE m \in 0..29 : 2^m <= n /\ n < 2^(m + 1)
ShortOnes(n) == 2^(Log2(n) + 1) - n
UniformCode(n, s) ==
  IF s < ShortOnes(n) THEN InStream(s, Log2(n))
  ELSE InStream(2 * ShortOnes(n) + (s - ShortOnes(n)), Log2(n) + 1)
UniformLengths(n) == [s \in 0..(n - 1) |-> IF s < ShortOnes(n) THEN Log2(n) ELSE Log2(n) + 1]

----------------------------------------------------------------------------
(* _CanonicalHuffman *)

Longest(lengths) == Max({lengths[s] : s \in DOMAIN lengths})
At(lengths, l) == Cardinality({s \in DOMAIN lengths : lengths[s] = l})

\* Every level pairs all its nodes, down to one root.
Accepted(lengths) ==
  LET nodes[l \in Nat] == IF l > Longest(lengths) THEN 0
                          ELSE nodes[l + 1] \div 2 + At(lengths, l)
  IN \/ Cardinality(Present(lengths)) = 1
     \/ /\ Present(lengths) # {}
        /\ \A l \in 1..Longest(lengths) : nodes[l] % 2 = 0
        /\ nodes[1] = 2

\* decode: the symbol, mapped to the number of bits it takes.
FirstCode(lengths) ==
  LET first[l \in Nat] == IF l = 1 THEN 0 ELSE 2 * (first[l - 1] + At(lengths, l - 1))
  IN [l \in 1..Longest(lengths) |-> first[l]]

Decoded9(lengths, bits) ==
  LET first == FirstCode(lengths)
      index == [l \in 1..Longest(lengths) |-> FoldSet(LAMBDA k, sum : sum + At(lengths, k), 0, 1..(l - 1))]
      code[l \in Nat] == IF l = 0 THEN 0 ELSE 2 * code[l - 1] + bits[l]
      ends  == {l \in 1..Longest(lengths) : l <= Len(bits) /\ code[l] - first[l] < At(lengths, l)}
      l0    == Min(ends)
      place(s) == Cardinality({t \in Present(lengths) : Before(lengths, t, s)})
  IN IF Cardinality(Present(lengths)) = 1
     THEN [s \in Present(lengths) |-> lengths[s]]
     ELSE [s \in {t \in Present(lengths) : ends # {} /\ place(t) = index[l0] + code[l0] - first[l0]}
             |-> l0]
============================================================================
