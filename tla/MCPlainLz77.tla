---------------------------- MODULE MCPlainLz77 ----------------------------
(* Short binary inputs and up to three runs, whose long matches share bytes *)
(* and climb every step of the ladder.                                      *)
EXTENDS PlainLz77

CONSTANTS
  MaxInput,  \* longest binary input enumerated
  MaxRun     \* longest of two runs

Runs(a, b, c) == [i \in 1..(a + b + c) |-> IF i <= a THEN 0 ELSE IF i <= a + b THEN 1 ELSE 2]

AllInputs ==
  UNION {[1..k -> {0, 1}] : k \in 0..MaxInput}
    \union {Runs(a, b, c) : a \in 1..MaxRun, b \in 0..MaxRun, c \in {0}}
    \union {Runs(a, b, c) : a \in {6, 8}, b \in {6, 8}, c \in {6, 8}}
============================================================================
