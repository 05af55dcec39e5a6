------------------------------ MODULE MCLznt1 ------------------------------
(* Binary inputs of up to two chunks of eight bytes, and runs.             *)
EXTENDS Lznt1

CONSTANTS
  MaxInput,  \* longest binary input enumerated
  MaxRun     \* longest of two runs

AllInputs ==
  UNION {[1..k -> {0, 1}] : k \in 0..MaxInput}
    \union {[i \in 1..(a + b) |-> IF i <= a THEN 0 ELSE 1] : a \in 1..MaxRun, b \in 0..MaxRun}
    \union {[i \in 1..k |-> i % 5] : k \in 0..MaxRun}
============================================================================
