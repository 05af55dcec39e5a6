---------------------------- MODULE MCHuffCodes ----------------------------
(* Every choice of up to five symbols with small and steep counts, and     *)
(* eight symbols with codes of three bits, which leaves no choice.         *)
EXTENDS HuffCodes

Counts == {1, 2, 4, 9}

AllFrequencies ==
  UNION {[S -> Counts] : S \in SUBSET (1..5) \ {{}}}
    \union {[s \in Symbols |-> 2^s], [s \in Symbols |-> 1], [s \in {0} |-> 3], [s \in Symbols \ {3} |-> s + 1]}
============================================================================
