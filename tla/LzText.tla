------------------------------- MODULE LzText ------------------------------
(***************************************************************************)
(* What the LZ77 codecs share: comparing two stretches of a text and       *)
(* copying a match that may overlap its own output.  Positions in a text   *)
(* are zero-based, as in the code.                                         *)
(***************************************************************************)
EXTENDS Integers, Sequences, FiniteSets

\* How many elements agree from positions a and b on, limit at most; the
\* extension loop every match finder ends in.
MatchLength(s, a, b, limit) ==
  CHOOSE l \in 0..limit :
    /\ \A i \in 1..l : s[a + i] = s[b + i]
    /\ l < limit => s[a + l + 1] # s[b + l + 1]

\* The match of length len whose source lies off elements back.
CopyMatch(buf, off, len) ==
  [i \in 1..(Len(buf) + len) |->
     IF i <= Len(buf) THEN buf[i]
     ELSE buf[Len(buf) - off + 1 + ((i - Len(buf) - 1) % off)]]

\* The earlier positions with the same k elements as position p, in a text
\* where every position is indexed once it has been passed.
SamePrefix(s, p, k) ==
  IF p + k > Len(s) THEN {}
  ELSE {q \in 0..(p - 1) : \A i \in 1..k : s[q + i] = s[p + i]}

\* The count greatest members of a set of positions: the newest ones.
Newest(S, count) == {q \in S : Cardinality({r \in S : r > q}) < count}

\* Among candidate sources for p the newest one of the longest match.
NoMatch == [len |-> 0, dist |-> 0]
Longest(s, p, candidates, limit) ==
  IF candidates = {} THEN NoMatch
  ELSE LET len(q) == MatchLength(s, q, p, limit)
           q == CHOOSE q \in candidates :
                  \A r \in candidates : len(q) > len(r) \/ (len(q) = len(r) /\ q >= r)
       IN [len |-> len(q), dist |-> p - q]
============================================================================
