-------------------------- MODULE Xpress9Symbols ---------------------------
(***************************************************************************)
(* How a token is spelled on the XPRESS9 wire: a short symbol carrying the *)
(* kind and a short length, a long-length symbol when the length does not  *)
(* fit, then raw low bits of an escaped length and of a pointer offset     *)
(* (_collect_frequencies and _encode_tokens write, _decode_block and       *)
(* _read_match_length read).  The Huffman codes of the two alphabets are   *)
(* not modelled here: they carry symbols unchanged.  A raw field has no    *)
(* mark of its own on the wire, so both sides must agree on its width.     *)
(***************************************************************************)
EXTENDS Integers, Sequences

CONSTANTS
  MtfSlots,    \* _ENC_MTF_ENTRY_COUNT / mtf_entry_count
  PtrBase,     \* _ENC_PTR_MIN_MATCH_LENGTH
  MtfBase,     \* _ENC_MTF_MIN_MATCH_LENGTH
  MaxShort,    \* _MAX_SHORT_LENGTH
  MaxLong,     \* _MAX_LONG_LENGTH
  LitCount,    \* 256 literal symbols
  MaxWindow    \* _MAX_WINDOW_SIZE_LOG

ASSUME SymbolsAssumption ==
  /\ MaxWindow \in Nat \ {0}
  /\ MtfSlots \in Nat \ {0} /\ LitCount \in Nat \ {0}
  /\ PtrBase \in Nat \ {0} /\ MtfBase \in Nat \ {0}
  /\ MaxShort \in Nat /\ MaxShort >= 2 /\ MaxLong \in Nat \ {0}

\* offset.bit_length() - 1, for the numbers below 2^30 that a block can hold.
Msb(n) == CHOOSE m \in 0..29 : 2^m <= n /\ n < 2^(m + 1)

ShortAlphabet == LitCount + (MaxWindow + MtfSlots) * MaxShort
LongAlphabet  == MaxLong + MaxWindow

Short(s)     == [code |-> "short", bits |-> 0, v |-> s]
Long(s)      == [code |-> "long", bits |-> 0, v |-> s]
Raw(bits, v) == [code |-> "raw", bits |-> bits, v |-> v]
LowBits(n)   == Raw(Msb(n), n - 2^Msb(n))

----------------------------------------------------------------------------
(* The encoder *)

\* A length that fills the short slot is followed by its excess; an excess of
\* MaxLong or more is escaped in turn.  In the variant the escape is taken one
\* length too late.
LongFieldsLate(long) ==
  LET escaped == long - (MaxLong - 1)
  IN IF long <= MaxLong THEN <<Long(long)>>
     ELSE <<Long(Msb(escaped) + MaxLong), LowBits(escaped)>>

LongFields(long) ==
  LET escaped == long - (MaxLong - 1)
  IN IF long <= MaxLong - 1 THEN <<Long(long)>>
     ELSE <<Long(Msb(escaped) + MaxLong), LowBits(escaped)>>

\* Each class of offsets has a row of short symbols; in the variant the classes
\* count from one.
MatchFieldsFromOne(class, adj) ==
  LET base == LitCount + (class + 1) * MaxShort
  IN IF adj < MaxShort - 1 THEN <<Short(base + adj)>>
     ELSE <<Short(base + MaxShort - 1)>> \o LongFields(adj - (MaxShort - 1))
MatchFields(class, adj) ==
  LET base == LitCount + class * MaxShort
  IN IF adj < MaxShort - 1 THEN <<Short(base + adj)>>
     ELSE <<Short(base + MaxShort - 1)>> \o LongFields(adj - (MaxShort - 1))

\* _encode_tokens for one token
Encoded(t) ==
  CASE t.kind = "lit" -> <<Short(t.sym)>>
    [] t.kind = "mtf" -> MatchFields(t.sym, t.len - MtfBase)
    [] t.kind = "ptr" -> MatchFields(MtfSlots + Msb(t.off), t.len - PtrBase)
                           \o <<LowBits(t.off)>>

\* _collect_frequencies counts in tables of the alphabets' sizes.
InAlphabets(w) ==
  \A k \in DOMAIN w : /\ w[k].code = "short" => w[k].v < ShortAlphabet
                      /\ w[k].code = "long" => w[k].v < LongAlphabet

----------------------------------------------------------------------------
(* The decoder *)

Class(w) == (w[1].v - LitCount) \div MaxShort
Slot(w)  == (w[1].v - LitCount) % MaxShort

IsLiteral(w) == w[1].v < LitCount
HasLong(w)   == ~IsLiteral(w) /\ Slot(w) = MaxShort - 1
HasEscape(w) == HasLong(w) /\ w[2].v >= MaxLong
HasOffset(w) == ~IsLiteral(w) /\ Class(w) >= MtfSlots

\* What the decoder asks its reader for, in order.
Requests(w) ==
  LET if(c, r) == IF c THEN <<r>> ELSE << >>
  IN <<[code |-> "short", bits |-> 0]>>
       \o if(HasLong(w), [code |-> "long", bits |-> 0])
       \o if(HasEscape(w), [code |-> "raw", bits |-> w[2].v - MaxLong])
       \o if(HasOffset(w), [code |-> "raw", bits |-> Class(w) - MtfSlots])

\* _read_match_length
ReadMatchLength(w) ==
  IF ~HasLong(w) THEN Slot(w)
  ELSE (MaxShort - 1) + IF HasEscape(w) THEN w[3].v + 2^(w[2].v - MaxLong) + (MaxLong - 1)
                        ELSE w[2].v

\* The reading half of _decode_block.  An MTF token carries no offset.
Decoded(w) ==
  IF IsLiteral(w) THEN [kind |-> "lit", sym |-> w[1].v, off |-> 0, len |-> 1]
  ELSE IF ~HasOffset(w)
  THEN [kind |-> "mtf", sym |-> Class(w), off |-> 0, len |-> ReadMatchLength(w) + MtfBase]
  ELSE [kind |-> "ptr", sym |-> 0, len |-> ReadMatchLength(w) + PtrBase,
        off |-> w[Len(w)].v + 2^(Class(w) - MtfSlots)]

----------------------------------------------------------------------------

(***************************************************************************)
(* The decoder asks for the fields the encoder wrote, in the same order    *)
(* and with the same widths.                                               *)
(***************************************************************************)
FieldsLineUp(t) ==
  LET w == Encoded(t)
  IN Requests(w) = [i \in 1..Len(w) |-> [code |-> w[i].code, bits |-> w[i].bits]]

(***************************************************************************)
(* The alphabets hold exactly the tokens with an offset below 2^MaxWindow  *)
(* and an escaped length below that.                                       *)
(***************************************************************************)
LengthLimit(base) == base + (MaxShort - 1) + (MaxLong - 1) + 2^MaxWindow
HasRoom(t) ==
  InAlphabets(Encoded(t)) <=>
    /\ t.off < 2^MaxWindow
    /\ t.len < LengthLimit(IF t.kind = "mtf" THEN MtfBase ELSE PtrBase)

(***************************************************************************)
(* A token survives the wire; an MTF token loses only its offset, which    *)
(* the decoder takes from its own list.                                    *)
(***************************************************************************)
SurvivesWire(t) ==
  Decoded(Encoded(t)) = IF t.kind = "mtf" THEN [t EXCEPT !.off = 0] ELSE t
============================================================================
