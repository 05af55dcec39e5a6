--------------------------- MODULE Xpress9Session --------------------------
(***************************************************************************)
(* The blocks of an XPRESS9 cell (ese/xpress9.py): _session_blocks walks   *)
(* all headers first, decompress then bounds the declared total and        *)
(* decodes block after block into one output, into which matches reach     *)
(* back across blocks.                                                     *)
(*                                                                         *)
(* A payload is a sequence of cells: headers, and tokens with one cell     *)
(* each in place of their bits.  Xpress9Lengths, Xpress9Codes and          *)
(* Xpress9Symbols are about those bits, Xpress9Stream about the repeated   *)
(* offsets; here a match says its distance.                                *)
(***************************************************************************)
EXTENDS Integers, Sequences, LzText

CONSTANTS
  Payloads,   \* what decompress may be given
  MaxDecoded  \* _MAX_DECODED_SIZE

Faults == {"magic", "reserved", "crc", "flags", "mtf"}

\* cells: comp_size_bits without header and tables.  params: window size, list
\* length and the two shortest match lengths.
Header(size, cells, signature, params, index, faults) ==
  [kind |-> "header", size |-> size, cells |-> cells, signature |-> signature,
   params |-> params, index |-> index, faults |-> faults]
Headers ==
  [kind : {"header"}, size : Nat, cells : Nat, signature : Nat, params : Nat, index : Nat,
   faults : SUBSET Faults]

\* A literal has distance 0 and length 1.
Literal(v)  == [kind |-> "token", value |-> v, back |-> 0, len |-> 1]
Match(k, n) == [kind |-> "token", value |-> 0, back |-> k, len |-> n]
Tokens == {t \in [kind : {"token"}, value : Nat, back : Nat, len : Nat] : t.back = 0 => t.len = 1}

ASSUME SessionAssumption ==
  /\ MaxDecoded \in Nat
  /\ Payloads \subseteq Seq(Headers \union Tokens)

VARIABLES
  payload,
  spans,    \* blocks accepted: header, where its tokens begin, where they end
  offset,   \* cells walked over
  total,    \* declared_total
  block,    \* blocks decoded
  at,       \* cells read
  target,   \* the length of out at the end of the block
  out,
  step      \* "walk", "total", "block", "token", then "decoded" or "error"

readingVars == <<spans, offset, total, block, at, target, out>>
sessionVars == <<payload, readingVars, step>>

Refuse == step' = "error" /\ UNCHANGED <<payload, readingVars>>

----------------------------------------------------------------------------
(* _session_blocks *)

\* The variant trusts the order of the blocks.
InAnyOrder(h) == spans = << >> => h.index = 0
InSession(h) == h.index = Len(spans)

\* parse_block_header, then the checks against the first block and the payload.
Accepts(h) ==
  /\ h.kind = "header" /\ h.faults = {} /\ h.cells > 0
  /\ spans # << >> => /\ h.signature = spans[1].header.signature
                      /\ h.params = spans[1].header.params
  /\ InSession(h)
  /\ offset + 1 + h.cells <= Len(payload)

WalkBlock ==
  /\ step = "walk" /\ offset < Len(payload)
  /\ LET h == payload[offset + 1]
     IN IF ~Accepts(h) THEN Refuse
        ELSE /\ spans' = Append(spans, [header |-> h, from |-> offset + 1, to |-> offset + 1 + h.cells])
             /\ offset' = offset + 1 + h.cells
             /\ total' = total + h.size
             /\ UNCHANGED <<payload, block, at, target, out, step>>

WalkEnd ==
  /\ step = "walk" /\ offset >= Len(payload)
  /\ IF spans = << >> THEN Refuse
     ELSE step' = "total" /\ UNCHANGED <<payload, readingVars>>

----------------------------------------------------------------------------
(* decompress and _decode_block *)

CheckTotal ==
  /\ step = "total"
  /\ IF total > MaxDecoded THEN Refuse
     ELSE step' = "block" /\ UNCHANGED <<payload, readingVars>>

StartBlock ==
  /\ step = "block" /\ block < Len(spans)
  /\ target' = Len(out) + spans[block + 1].header.size
  /\ at' = spans[block + 1].from
  /\ step' = "token"
  /\ UNCHANGED <<payload, spans, offset, total, block, out>>

\* A match reaches back no further than the output and ends within the block;
\* the variant stops one short of that.
FitsBelow(t) == t.back <= Len(out) /\ Len(out) + t.len < target
Fits(t) == t.back <= Len(out) /\ Len(out) + t.len <= target

Expanded(t) == IF t.back = 0 THEN Append(out, t.value) ELSE CopyMatch(out, t.back, t.len)

\* A block that asks for more bits than it has ends in a check of the bits
\* consumed, if not before.
DecodeToken ==
  /\ step = "token" /\ Len(out) < target
  /\ IF at >= spans[block + 1].to THEN Refuse
     ELSE LET t == payload[at + 1]
          IN IF t.kind # "token" \/ ~Fits(t) THEN Refuse
             ELSE /\ out' = Expanded(t) /\ at' = at + 1
                  /\ UNCHANGED <<payload, spans, offset, total, block, target, step>>

\* The tokens must have used the block's bits exactly.
EndBlock ==
  /\ step = "token" /\ Len(out) >= target
  /\ IF Len(out) # target \/ at # spans[block + 1].to THEN Refuse
     ELSE /\ block' = block + 1 /\ step' = "block"
          /\ UNCHANGED <<payload, spans, offset, total, at, target, out>>

EndBlocks ==
  /\ step = "block" /\ block >= Len(spans)
  /\ step' = "decoded"
  /\ UNCHANGED <<payload, readingVars>>

----------------------------------------------------------------------------

ReadingInit ==
  /\ spans = << >> /\ offset = 0 /\ total = 0 /\ block = 0 /\ at = 0 /\ target = 0 /\ out = << >>

SessionInit == payload \in Payloads /\ ReadingInit /\ step = "walk"

SessionNext ==
  \/ WalkBlock \/ WalkEnd \/ CheckTotal \/ StartBlock \/ DecodeToken \/ EndBlock \/ EndBlocks
SessionSpec == SessionInit /\ [][SessionNext]_sessionVars

----------------------------------------------------------------------------

(***************************************************************************)
(* What _session_blocks accepts are the blocks 0, 1, 2... of one session,  *)
(* with one set of parameters, each behind the other and without a gap;    *)
(* the bytes decoded are theirs in that order, and never more than each    *)
(* declares or than _MAX_DECODED_SIZE altogether.                          *)
(***************************************************************************)
SpanOK(i) ==
  LET s == spans[i]
  IN /\ s.header = payload[s.from] /\ s.header.index = i - 1 /\ s.header.faults = {}
     /\ s.header.signature = spans[1].header.signature /\ s.header.params = spans[1].header.params
     /\ s.from = (IF i = 1 THEN 0 ELSE spans[i - 1].to) + 1
     /\ s.from < s.to /\ s.to <= Len(payload)

OneSession ==
  /\ \A i \in 1..Len(spans) : SpanOK(i)
  /\ step \in {"total", "block", "token", "decoded"} =>
       spans # << >> /\ spans[Len(spans)].to = Len(payload)
  /\ step \in {"block", "token", "decoded"} => Len(out) <= MaxDecoded
============================================================================
