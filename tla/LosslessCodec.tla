--------------------------- MODULE LosslessCodec ---------------------------
(***************************************************************************)
(* What compress followed by decompress promises, whatever the format: the *)
(* output grows as a prefix of the plaintext and ends as the plaintext;    *)
(* only a plaintext longer than the caller's max_size is refused, and no   *)
(* more than max_size bytes are ever produced.                             *)
(*                                                                         *)
(* What is compressed may be damaged before it is decompressed.  Parts of  *)
(* the plaintext may be missing at the front, where the format lets the    *)
(* rest stand alone; and the end may be missing, after which a prefix may  *)
(* be all there is, but nothing that is not a prefix.                      *)
(***************************************************************************)
EXTENDS Integers, Sequences

CONSTANT Plaintexts

VARIABLES
  data,    \* the plaintext
  whole,   \* the end is not missing
  limit,   \* max_size; a number no shorter than data stands for None
  out,     \* what decompress has produced
  status   \* "working", then "done", "refused" or "corrupt"

vars == <<data, whole, limit, out, status>>

Init ==
  /\ data \in Plaintexts /\ whole = TRUE /\ limit \in Nat
  /\ out = << >> /\ status = "working"

Damage ==
  /\ status = "working" /\ out = << >>
  /\ \E k \in 0..Len(data) : data' = SubSeq(data, k + 1, Len(data))
  /\ whole' \in {whole, FALSE}
  /\ UNCHANGED <<limit, out, status>>

Produce ==
  /\ status = "working"
  /\ \E k \in (Len(out) + 1)..Len(data) :
       k <= limit /\ out' = SubSeq(data, 1, k)
  /\ UNCHANGED <<data, whole, limit, status>>

End(verdict) ==
  /\ status = "working" /\ status' = verdict
  /\ UNCHANGED <<data, whole, limit, out>>

Return == (whole => out = data) /\ End("done")
Refuse == Len(data) > limit /\ End("refused")
Fail   == ~whole /\ End("corrupt")

Next == Damage \/ Produce \/ Return \/ Refuse \/ Fail

\* Every call returns.
Returns == <>(status # "working")

Spec == Init /\ [][Next]_vars /\ Returns
============================================================================
