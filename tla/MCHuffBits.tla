----------------------------- MODULE MCHuffBits -----------------------------
(* Blocks of a few operations over words of four bits.                     *)
EXTENDS HuffBits

Bits(c, v) == [kind |-> "bits", size |-> c, value |-> v]
RawCells(k, v) == [kind |-> "raw", size |-> k, value |-> v]

\* Every bit count, with values whose high and low bits differ, and raw
\* values of one, two and four cells.
SampleItems ==
  {Bits(0, 0), Bits(1, 1), Bits(2, 1), Bits(2, 2), Bits(3, 5), Bits(3, 2),
   RawCells(1, 2), RawCells(2, 9), RawCells(4, 177)}
============================================================================
