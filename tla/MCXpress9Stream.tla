-------------------------- MODULE MCXpress9Stream --------------------------
(* Every token stream of every short binary block. *)
EXTENDS Xpress9Stream

CONSTANT MaxBlock   \* longest block enumerated

AllBlocks == UNION {[1..n -> {0, 1}] : n \in 1..MaxBlock}
============================================================================
