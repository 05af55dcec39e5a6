-------------------------- MODULE MCCompactXpress9 -------------------------
(* The compact codec with the constants of the code, on a text too short   *)
(* to be more than stored and on one it cannot read back.                  *)
EXTENDS CompactXpress9

\* b"aaaaaaaaaaaaa" and b"aaaaaaaabaabbb"
MCSources ==
  LET a == 97  b == 98
  IN {[i \in 1..13 |-> a], <<a, a, a, a, a, a, a, a, b, a, a, b, b, b>>}
============================================================================
