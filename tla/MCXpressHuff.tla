---------------------------- MODULE MCXpressHuff ---------------------------
(* Short binary inputs and long runs, with blocks of five bytes and a      *)
(* length ladder whose every step a short match reaches.                   *)
EXTENDS XpressHuff

CONSTANTS
  MaxInput,  \* longest binary input enumerated
  MaxRun     \* longest run of one byte

AllInputs ==
  UNION {[1..k -> {0, 1}] : k \in 0..MaxInput}
    \union {[i \in 1..k |-> IF i = 1 THEN a ELSE b] : k \in 1..MaxRun, a \in {0, 1}, b \in {0, 1}}
============================================================================
