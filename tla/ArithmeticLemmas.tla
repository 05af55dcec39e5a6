-------------------------- MODULE ArithmeticLemmas -------------------------
(***************************************************************************)
(* Facts the codec proofs share: the least-number principle for sets,      *)
(* which stands in for induction, quotients and remainders, and comparing  *)
(* and copying stretches of a text that may overlap.                       *)
(***************************************************************************)
EXTENDS Integers, Sequences, FiniteSets, FiniteSetTheorems, WellFoundedInduction, TLAPS

(***************************************************************************)
(* Every non-empty set of naturals has a least element.                    *)
(***************************************************************************)
LEMMA LeastNatural ==
  ASSUME NEW S \in SUBSET Nat, S # {}
  PROVE  \E m \in S : \A k \in S : m <= k
<1> DEFINE T == {0..s : s \in S}
<1>1. T \subseteq FiniteSubsetsOf(Nat)
  <2> SUFFICES ASSUME NEW s \in S PROVE 0..s \in FiniteSubsetsOf(Nat)
    OBVIOUS
  <2>1. IsFiniteSet(0..s)
    BY FS_Interval
  <2> QED BY <2>1 DEF FiniteSubsetsOf
<1>2. T # {}
  OBVIOUS
<1>3. PICK X \in T : \A Y \in T : ~(<<Y, X>> \in StrictSubsetOrdering(Nat))
  <2>1. IsWellFoundedOn(StrictSubsetOrdering(Nat), FiniteSubsetsOf(Nat))
    BY FS_StrictSubsetOrderingWellFounded
  <2> HIDE DEF T
  <2> QED BY <1>1, <1>2, <2>1, WFMin
<1>4. PICK m \in S : X = 0..m
  BY <1>3
<1>5. ASSUME NEW k \in S, k < m PROVE FALSE
  <2>1. <<0..k, 0..m>> \notin StrictSubsetOrdering(Nat)
    BY <1>3, <1>4
  <2>2. m \in 0..m /\ m \notin 0..k /\ 0..k \subseteq 0..m
    BY <1>5
  <2> QED BY <2>1, <2>2 DEF StrictSubsetOrdering
<1> QED BY <1>5

(***************************************************************************)
(* Quotient and remainder determine a natural number.                      *)
(***************************************************************************)
LEMMA DivMod ==
  ASSUME NEW a \in Nat, NEW b \in Nat \ {0}
  PROVE  /\ a % b \in 0..(b - 1)
         /\ a \div b \in Int
         /\ a = b * (a \div b) + (a % b)
  OBVIOUS

LEMMA ProductAtLeast ==
  ASSUME NEW b \in Nat \ {0}, NEW k \in Nat \ {0}
  PROVE  b * k >= b
  OBVIOUS

LEMMA RemainderUnique ==
  ASSUME NEW b \in Nat \ {0}, NEW q \in Int, NEW p \in Int,
         NEW r \in 0..(b - 1), NEW s \in 0..(b - 1),
         b * q + r = b * p + s
  PROVE  r = s
<1>0. b * q \in Int /\ b * p \in Int
  OBVIOUS
<1>1. CASE q = p
  BY <1>0, <1>1
<1>2. CASE q > p
  <2>1. b * (q - p) >= b BY <1>2, ProductAtLeast
  <2>2. b * (q - p) = b * q - b * p OBVIOUS
  <2> QED BY <1>0, <2>1, <2>2
<1>3. CASE p > q
  <2>1. b * (p - q) >= b BY <1>3, ProductAtLeast
  <2>2. b * (p - q) = b * p - b * q OBVIOUS
  <2> QED BY <1>0, <2>1, <2>2
<1> QED BY <1>1, <1>2, <1>3

(***************************************************************************)
(* A number put together from a quotient and a remainder comes apart as it *)
(* was put together.                                                       *)
(***************************************************************************)
LEMMA ComesApart ==
  ASSUME NEW b \in Nat \ {0}, NEW q \in Nat, NEW r \in 0..(b - 1)
  PROVE  (b * q + r) % b = r /\ (b * q + r) \div b = q /\ b * q + r \in Nat
<1> DEFINE a == b * q + r
           p == a \div b
           s == a % b
<1>1. b * q \in Nat /\ a \in Nat
  OBVIOUS
<1>2. s \in 0..(b - 1) /\ p \in Int /\ a = b * p + s
  <2> HIDE DEF a
  <2> QED BY <1>1, DivMod
<1> HIDE DEF p, s
<1>3. r = s
  BY <1>2, RemainderUnique
<1>4. b * q = b * p
  <2>1. b * p \in Int
    BY <1>2
  <2> QED BY <1>1, <1>2, <1>3, <2>1
<1>5. CASE q > p
  <2>1. b * (q - p) >= b BY <1>2, <1>5, ProductAtLeast
  <2>2. b * (q - p) = b * q - b * p BY <1>2
  <2>3. b * p \in Int BY <1>2
  <2> QED BY <1>1, <1>4, <2>1, <2>2, <2>3
<1>6. CASE p > q
  <2>1. b * (p - q) >= b BY <1>2, <1>6, ProductAtLeast
  <2>2. b * (p - q) = b * p - b * q BY <1>2
  <2>3. b * p \in Int BY <1>2
  <2> QED BY <1>1, <1>4, <2>1, <2>2, <2>3
<1>7. p = q
  BY <1>2, <1>5, <1>6
<1> QED BY <1>1, <1>3, <1>7 DEF p, s

(***************************************************************************)
(* Going back by the divisor leaves the remainder as it was.               *)
(***************************************************************************)
LEMMA RemainderShift ==
  ASSUME NEW a \in Nat, NEW b \in Nat \ {0}, a >= b
  PROVE  (a - b) % b = a % b
<1> DEFINE q == a \div b
           r == a % b
           p == (a - b) \div b
           s == (a - b) % b
<1>1. r \in 0..(b - 1) /\ q \in Int /\ a = b * q + r
  BY DivMod
<1>2. s \in 0..(b - 1) /\ p \in Int /\ a - b = b * p + s
  BY DivMod, a - b \in Nat
<1> HIDE DEF q, r, p, s
<1>3. b * q + r = b * (p + 1) + s
  <2>1. b * (p + 1) = b * p + b BY <1>2
  <2>2. b * p \in Int /\ b * q \in Int BY <1>1, <1>2
  <2> QED BY <1>1, <1>2, <2>1, <2>2
<1> QED BY <1>1, <1>2, <1>3, RemainderUnique, p + 1 \in Int DEF r, s

(***************************************************************************)
(* A remainder below the divisor is the number itself.                     *)
(***************************************************************************)
LEMMA RemainderSmall ==
  ASSUME NEW a \in Nat, NEW b \in Nat \ {0}, a < b
  PROVE  a % b = a
  OBVIOUS

(***************************************************************************)
(* The quotient is the greatest number of times the divisor fits.          *)
(***************************************************************************)
LEMMA QuotientBound ==
  ASSUME NEW a \in Nat, NEW b \in Nat \ {0}, NEW j \in Nat
  PROVE  b * j <= a <=> j <= a \div b
<1> DEFINE q == a \div b
           r == a % b
<1>1. q \in Int /\ r \in 0..(b - 1) /\ a = b * q + r
  BY DivMod
<1> HIDE DEF q, r
<1>2. b * q \in Int /\ b * j \in Int
  BY <1>1
<1>3. CASE j = q
  BY <1>1, <1>2, <1>3 DEF q
<1>4. CASE j > q
  <2>1. b * (j - q) >= b
    BY <1>1, <1>4, ProductAtLeast
  <2>2. b * (j - q) = b * j - b * q
    BY <1>1
  <2> QED BY <1>1, <1>2, <1>4, <2>1, <2>2 DEF q
<1>5. CASE q > j
  <2>1. b * (q - j) >= b
    BY <1>1, <1>5, ProductAtLeast
  <2>2. b * (q - j) = b * q - b * j
    BY <1>1
  <2> QED BY <1>1, <1>2, <1>5, <2>1, <2>2 DEF q
<1> QED BY <1>1, <1>3, <1>4, <1>5

----------------------------------------------------------------------------
(* Comparing and copying *)

\* The k elements behind a are those behind b.
Agree(s, a, b, k) == \A i \in 1..k : s[a + i] = s[b + i]

\* How many they are, limit at most.
FirstDifference(s, a, b, limit) ==
  CHOOSE l \in 0..limit :
    /\ \A i \in 1..l : s[a + i] = s[b + i]
    /\ l < limit => s[a + l + 1] # s[b + l + 1]

(***************************************************************************)
(* The extension loop stops within its limit, and not before the first     *)
(* difference.                                                             *)
(***************************************************************************)
LEMMA FirstDifferenceBounds ==
  ASSUME NEW s, NEW a \in Nat, NEW b \in Nat, NEW limit \in Nat, NEW k \in 0..limit,
         Agree(s, a, b, k)
  PROVE  FirstDifference(s, a, b, limit) \in k..limit /\ Agree(s, a, b, FirstDifference(s, a, b, limit))
<1> DEFINE Good(l) == /\ \A i \in 1..l : s[a + i] = s[b + i]
                      /\ l < limit => s[a + l + 1] # s[b + l + 1]
           S == {l \in 0..limit : l = limit \/ s[a + l + 1] # s[b + l + 1]}
<1>1. S \in SUBSET Nat /\ S # {}
  OBVIOUS
<1>2. PICK m \in S : \A l \in S : m <= l
  <2> HIDE DEF S
  <2> QED BY <1>1, LeastNatural
<1>3. m \in 0..limit /\ Good(m)
  <2>1. m \in 0..limit /\ (m < limit => s[a + m + 1] # s[b + m + 1])
    BY <1>2
  <2>2. ASSUME NEW i \in 1..m PROVE s[a + i] = s[b + i]
    <3>1. i - 1 \in 0..limit /\ i - 1 < m
      BY <2>1
    <3>2. i - 1 \notin S
      <4> SUFFICES ASSUME i - 1 \in S PROVE FALSE
        OBVIOUS
      <4>1. m <= i - 1
        BY <1>2
      <4> QED BY <2>1, <3>1, <4>1
    <3>3. s[a + (i - 1) + 1] = s[b + (i - 1) + 1]
      BY <3>1, <3>2
    <3>4. a + (i - 1) + 1 = a + i /\ b + (i - 1) + 1 = b + i
      BY <2>1
    <3> QED BY <3>3, <3>4
  <2> QED BY <2>1, <2>2
<1> DEFINE L == FirstDifference(s, a, b, limit)
<1>4. L \in 0..limit /\ Good(L)
  <2>1. L = CHOOSE l \in 0..limit : Good(l)
    BY DEF FirstDifference
  <2>2. \E l \in 0..limit : Good(l)
    BY <1>3
  <2> HIDE DEF Good, L
  <2> QED BY <2>1, <2>2
<1>5. L >= k
  <2> SUFFICES ASSUME L < k PROVE FALSE
    BY <1>4
  <2> HIDE DEF L
  <2>1. s[a + L + 1] # s[b + L + 1]
    BY <1>4
  <2>2. L + 1 \in 1..k
    BY <1>4
  <2>3. a + (L + 1) = a + L + 1 /\ b + (L + 1) = b + L + 1
    BY <1>4
  <2> QED BY <2>1, <2>2, <2>3 DEF Agree
<1> QED BY <1>4, <1>5 DEF Agree

\* From at + 1 on, len values of f equal those off places before them.
RepeatsAfter(f, at, off, len) == \A i \in 1..len : f[at + i] = f[at + i - off]

\* They are the off values in front of at + 1, over and over.
CyclesAfter(f, at, off, len) ==
  \A i \in 1..len : f[at + i] = f[at - off + 1 + ((i - 1) % off)]

(***************************************************************************)
(* Of bounded numbers at bounded places the greatest, and of those the     *)
(* last, can be chosen.                                                    *)
(***************************************************************************)
LEMMA LastGreatest ==
  ASSUME NEW p \in Nat, NEW S \in SUBSET (0..p), S # {}, NEW most \in Nat,
         NEW f \in [S -> 0..most]
  PROVE  \E q \in S : \A r \in S : f[q] > f[r] \/ (f[q] = f[r] /\ q >= r)
<1> DEFINE short == {most - f[q] : q \in S}
<1>1. short \in SUBSET Nat /\ short # {}
  <2>1. \A q \in S : most - f[q] \in Nat
    OBVIOUS
  <2> QED BY <2>1
<1>2. PICK m \in short : \A k \in short : m <= k
  <2> HIDE DEF short
  <2> QED BY <1>1, LeastNatural
<1>3. PICK a \in S : m = most - f[a]
  BY <1>2
<1>4. \A r \in S : f[a] >= f[r]
  <2> SUFFICES ASSUME NEW r \in S PROVE f[a] >= f[r]
    OBVIOUS
  <2>1. m <= most - f[r]
    BY <1>2
  <2>2. f[a] \in 0..most /\ f[r] \in 0..most
    OBVIOUS
  <2> QED BY <1>3, <2>1, <2>2
<1> DEFINE T == {q \in S : f[q] = f[a]}
           left == {p - q : q \in T}
<1>5. left \in SUBSET Nat /\ left # {}
  OBVIOUS
<1>6. PICK l \in left : \A k \in left : l <= k
  <2> HIDE DEF left
  <2> QED BY <1>5, LeastNatural
<1>7. PICK b \in T : l = p - b
  BY <1>6
<1>8. ASSUME NEW r \in S PROVE f[b] > f[r] \/ (f[b] = f[r] /\ b >= r)
  <2>1. f[b] = f[a] /\ f[a] >= f[r] /\ f[b] \in Nat /\ f[r] \in Nat /\ b \in Nat /\ r \in Nat
    <3>1. b \in S /\ f[b] = f[a] /\ f[b] \in 0..most /\ f[r] \in 0..most /\ b \in 0..p /\ r \in 0..p
      BY <1>7
    <3>2. f[a] >= f[r]
      BY <1>4
    <3> QED BY <3>1, <3>2
  <2>2. f[r] = f[a] => l <= p - r
    <3>1. ASSUME f[r] = f[a] PROVE p - r \in left
      BY <3>1
    <3> HIDE DEF left
    <3> QED BY <1>6, <3>1
  <2> QED BY <1>7, <2>1, <2>2
<1> QED BY <1>7, <1>8

(***************************************************************************)
(* Of bounded numbers at bounded places the greatest, and of those the     *)
(* first, can be chosen.                                                   *)
(***************************************************************************)
LEMMA FirstGreatest ==
  ASSUME NEW S \in SUBSET Nat, S # {}, NEW most \in Nat, NEW f \in [S -> 0..most]
  PROVE  \E q \in S : \A r \in S : f[q] > f[r] \/ (f[q] = f[r] /\ q <= r)
<1> DEFINE short == {most - f[q] : q \in S}
<1>1. short \in SUBSET Nat /\ short # {}
  <2>1. \A q \in S : most - f[q] \in Nat
    OBVIOUS
  <2> QED BY <2>1
<1>2. PICK m \in short : \A k \in short : m <= k
  <2> HIDE DEF short
  <2> QED BY <1>1, LeastNatural
<1>3. PICK a \in S : m = most - f[a]
  BY <1>2
<1>4. \A r \in S : f[a] >= f[r]
  <2> SUFFICES ASSUME NEW r \in S PROVE f[a] >= f[r]
    OBVIOUS
  <2>1. m <= most - f[r]
    BY <1>2
  <2>2. f[a] \in 0..most /\ f[r] \in 0..most
    OBVIOUS
  <2> QED BY <1>3, <2>1, <2>2
<1> DEFINE T == {q \in S : f[q] = f[a]}
<1>5. T \in SUBSET Nat /\ T # {}
  OBVIOUS
<1>6. PICK b \in T : \A k \in T : b <= k
  <2> HIDE DEF T
  <2> QED BY <1>5, LeastNatural
<1>7. ASSUME NEW r \in S PROVE f[b] > f[r] \/ (f[b] = f[r] /\ b <= r)
  <2>1. f[b] = f[a] /\ f[a] >= f[r] /\ f[b] \in Nat /\ f[r] \in Nat
    <3>1. b \in S /\ f[b] = f[a] /\ f[b] \in 0..most /\ f[r] \in 0..most
      BY <1>6
    <3>2. f[a] >= f[r]
      BY <1>4
    <3> QED BY <3>1, <3>2
  <2>2. f[r] = f[a] => b <= r
    <3>1. ASSUME f[r] = f[a] PROVE r \in T
      BY <3>1
    <3> HIDE DEF T
    <3> QED BY <1>6, <3>1
  <2> QED BY <2>1, <2>2
<1> QED BY <1>6, <1>7

\* Of the places in C the newest of those where the text goes on like behind p
\* for longest.
LastLongest(s, p, C, limit) ==
  CHOOSE q \in C : \A r \in C :
    \/ FirstDifference(s, q, p, limit) > FirstDifference(s, r, p, limit)
    \/ FirstDifference(s, q, p, limit) = FirstDifference(s, r, p, limit) /\ q >= r

(***************************************************************************)
(* There is one, and it is a match as long as any of C is known to be.     *)
(***************************************************************************)
LEMMA LastLongestRepeats ==
  ASSUME NEW s, NEW p \in Nat, NEW limit \in Nat, NEW least \in 0..limit,
         NEW C \in SUBSET (0..(p - 1)), C # {},
         \A q \in C : Agree(s, q, p, least)
  PROVE  LET b == LastLongest(s, p, C, limit)
             len == FirstDifference(s, b, p, limit)
         IN b \in C /\ len \in least..limit /\ RepeatsAfter(s, p, p - b, len)
<1> DEFINE f == [q \in C |-> FirstDifference(s, q, p, limit)]
           Best(q) == \A r \in C : \/ FirstDifference(s, q, p, limit) > FirstDifference(s, r, p, limit)
                                   \/ FirstDifference(s, q, p, limit) = FirstDifference(s, r, p, limit) /\ q >= r
           b == LastLongest(s, p, C, limit)
           len == FirstDifference(s, b, p, limit)
<1>1. ASSUME NEW q \in C
      PROVE  FirstDifference(s, q, p, limit) \in least..limit /\ Agree(s, q, p, FirstDifference(s, q, p, limit))
  <2>1. q \in Nat /\ Agree(s, q, p, least)
    OBVIOUS
  <2> QED BY <2>1, FirstDifferenceBounds
<1>2. b \in C
  <2>0. C \in SUBSET (0..p)
    OBVIOUS
  <2>1. f \in [C -> 0..limit]
    <3>1. \A q \in C : FirstDifference(s, q, p, limit) \in 0..limit
      BY <1>1
    <3> QED BY <3>1
  <2>2. \A q \in C : f[q] = FirstDifference(s, q, p, limit)
    OBVIOUS
  <2>3. \E q \in C : \A r \in C : f[q] > f[r] \/ (f[q] = f[r] /\ q >= r)
    <3> HIDE DEF f
    <3> QED BY <2>0, <2>1, LastGreatest
  <2> HIDE DEF f
  <2>4. \E q \in C : Best(q)
    BY <2>2, <2>3
  <2>5. b = CHOOSE q \in C : Best(q)
    BY DEF LastLongest
  <2> HIDE DEF Best, b
  <2> QED BY <2>4, <2>5
<1> HIDE DEF b
<1>3. len \in least..limit /\ Agree(s, b, p, len)
  BY <1>1, <1>2
<1>4. RepeatsAfter(s, p, p - b, len)
  <2> HIDE DEF len
  <2> SUFFICES ASSUME NEW i \in 1..len PROVE s[p + i] = s[p + i - (p - b)]
    BY DEF RepeatsAfter
  <2>1. p + i - (p - b) = b + i
    BY <1>2, <1>3
  <2> QED BY <1>3, <2>1 DEF Agree
<1> QED BY <1>2, <1>3, <1>4 DEF b

(***************************************************************************)
(* A stretch of a function that repeats what lies off places before it is  *)
(* the cyclic repetition of the off values in front of it.                 *)
(***************************************************************************)
LEMMA OverlapIsCyclic ==
  ASSUME NEW f, NEW at \in Nat, NEW off \in Nat \ {0}, NEW len \in Nat,
         off <= at,
         RepeatsAfter(f, at, off, len)
  PROVE  CyclesAfter(f, at, off, len)
<1> DEFINE bad == {i \in 1..len : f[at + i] # f[at - off + 1 + ((i - 1) % off)]}
<1> SUFFICES ASSUME bad # {} PROVE FALSE
  BY DEF CyclesAfter
<1>1. bad \in SUBSET Nat
  OBVIOUS
<1>2. PICK m \in bad : \A k \in bad : m <= k
  <2> HIDE DEF bad
  <2> QED BY <1>1, LeastNatural
<1>3. m \in 1..len /\ f[at + m] # f[at - off + 1 + ((m - 1) % off)]
  BY <1>2
<1>4. CASE m - 1 < off
  <2>1. (m - 1) % off = m - 1
    BY <1>3, <1>4, RemainderSmall, m - 1 \in Nat
  <2>2. at - off + 1 + (m - 1) = at + m - off
    BY <1>3
  <2> QED BY <1>3, <2>1, <2>2 DEF RepeatsAfter
<1>5. CASE m - 1 >= off
  <2> DEFINE j == m - off
  <2>1. j \in 1..len /\ j < m /\ at + j = at + m - off
    BY <1>3, <1>5
  <2>2. j \notin bad
    <3> SUFFICES ASSUME j \in bad PROVE FALSE
      OBVIOUS
    <3>1. m <= j
      BY <1>2
    <3> QED BY <1>3, <2>1, <3>1
  <2>3. f[at + j] = f[at - off + 1 + ((j - 1) % off)]
    BY <2>1, <2>2
  <2>4. (j - 1) % off = (m - 1) % off
    <3>1. ((m - 1) - off) % off = (m - 1) % off
      BY <1>3, <1>5, RemainderShift, m - 1 \in Nat
    <3>2. (m - 1) - off = j - 1
      BY <1>3
    <3> QED BY <3>1, <3>2
  <2>5. f[at + m] = f[at + m - off]
    BY <1>3 DEF RepeatsAfter
  <2> QED BY <1>3, <2>1, <2>3, <2>4, <2>5
<1>6. m - 1 \in Int /\ off \in Int
  BY <1>3
<1> QED BY <1>4, <1>5, <1>6
(***************************************************************************)
(* A cyclic read of the last off elements stays inside a prefix of n.      *)
(***************************************************************************)
LEMMA CycleInside ==
  ASSUME NEW n \in Nat, NEW off \in 1..n, NEW i \in Nat
  PROVE  n - off + 1 + (i % off) \in 1..n
<1> DEFINE r == i % off
<1>1. off \in Nat \ {0} /\ off <= n
  OBVIOUS
<1>2. r \in 0..(off - 1)
  BY <1>1, DivMod
<1> HIDE DEF r
<1>3. n - off + 1 + r \in 1..n
  BY <1>1, <1>2
<1> QED BY <1>3 DEF r

\* A match of len elements appended to a text, from off elements back.
Overlapping(buf, off, len) ==
  [i \in 1..(Len(buf) + len) |->
     IF i <= Len(buf) THEN buf[i]
     ELSE buf[Len(buf) - off + 1 + ((i - Len(buf) - 1) % off)]]

(***************************************************************************)
(* Copying a match onto a prefix of a text extends the prefix, whether or  *)
(* not the match overlaps what it produces.                                *)
(***************************************************************************)
LEMMA OverlapExtendsPrefix ==
  ASSUME NEW d \in Seq(Nat), NEW to \in 0..Len(d), NEW off \in 1..to, NEW m \in Nat,
         to + m <= Len(d), RepeatsAfter(d, to, off, m)
  PROVE  Overlapping(SubSeq(d, 1, to), off, m) = SubSeq(d, 1, to + m)
<1> DEFINE pre == SubSeq(d, 1, to)
<1>1. Len(pre) = to /\ \A i \in 1..to : pre[i] = d[i]
  OBVIOUS
<1>2. SubSeq(d, 1, to + m) = [i \in 1..(to + m) |-> d[i]]
  OBVIOUS
<1>3. CyclesAfter(d, to, off, m)
  BY OverlapIsCyclic, to \in Nat, off \in Nat \ {0}, off <= to
<1> HIDE DEF pre
<1>4. ASSUME NEW i \in 1..(to + m), i > to
      PROVE  d[i] = pre[to - off + 1 + ((i - to - 1) % off)]
  <2>1. i - to \in 1..m /\ to + (i - to) = i /\ i - to - 1 \in Nat
    BY <1>4
  <2>2. d[to + (i - to)] = d[to - off + 1 + ((i - to - 1) % off)]
    BY <1>3, <2>1 DEF CyclesAfter
  <2>3. to - off + 1 + ((i - to - 1) % off) \in 1..to
    BY <2>1, CycleInside, to \in Nat, off \in 1..to
  <2> QED BY <1>1, <2>1, <2>2, <2>3
<1>5. Overlapping(pre, off, m) =
        [i \in 1..(to + m) |-> IF i <= to THEN pre[i] ELSE pre[to - off + 1 + ((i - to - 1) % off)]]
  BY <1>1 DEF Overlapping
<1>6. to + m \in Nat /\ to \in Nat
  OBVIOUS
<1>7. Overlapping(pre, off, m) = [i \in 1..(to + m) |-> d[i]]
  BY <1>1, <1>4, <1>5, <1>6
<1> QED BY <1>2, <1>7 DEF pre
============================================================================
