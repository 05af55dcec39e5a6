--------------------------- MODULE MCXpress9Real ---------------------------
(* The tokenizer with the constants of the code on one block it cannot     *)
(* round-trip.                                                             *)
EXTENDS Xpress9Codec

\* b"ababababbababaababbababacbababaabaaaaaaaaaaaaaaaaaaaaaaaaa"
TheBlock ==
  LET a == 97  b == 98  c == 99
  IN <<a, b, a, b, a, b, a, b, b, a, b, a, b, a, a, b, a, b, b, a, b, a, b, a, c,
       b, a, b, a, b, a, a, b>> \o [i \in 1..25 |-> a]

OneBlock == {TheBlock}

\* Words that differ are taken to hash apart.
WordItself(w) == w

\* _MAX_OFFSET_BY_LENGTH
MaxOffsetByLength == [len \in 0..5 |-> <<0, 0, 64, 1024, 8192, 65536>>[len + 1]]
============================================================================
