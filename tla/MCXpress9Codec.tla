--------------------------- MODULE MCXpress9Codec --------------------------
(* The tokenizer on every short binary block and on longer blocks made of  *)
(* a few words, with the hash length, chunk size and wire alphabets scaled *)
(* down so that every path is short.                                       *)
EXTENDS Xpress9Codec, SequencesExt

CONSTANTS
  MaxBlock,   \* longest binary block enumerated
  MaxWords    \* longest block of words enumerated

BinaryBlocks == UNION {[1..k -> {0, 1}] : k \in 1..MaxBlock}

\* Words chosen so that a match found at one position is often beaten by a
\* longer one a byte or two further on.
Words == {<<0, 1, 1>>, <<1, 1, 1>>, <<1, 0>>}

WordBlocks == UNION {{FlattenSeq(ws) : ws \in [1..k -> Words]} : k \in 1..MaxWords}

\* The best match starts two bytes after the first one found.
TwoAheadWins == <<0, 1, 1, 1, 1, 1, 0, 1, 0, 1, 1, 1, 0, 1, 1>>

AllBlocks == BinaryBlocks \union WordBlocks \union {TwoAheadWins}

\* Distinct words hash apart, except that words that differ only in their
\* first byte collide.
CollidingHash(w) == Tail(w)

\* No limit on the distance of any match but those of length 3.
ShortReach == [len \in 0..3 |-> IF len = 3 THEN 6 ELSE 0]
============================================================================
