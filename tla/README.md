# Formal models of ntcompress

ntcompress is a pure-Python library of the compression formats of Microsoft's
ESE database engine (`src/src/ntcompress/ese`) and of Windows' `ntdll.dll`
(`src/src/ntcompress/ntdll`). Nothing in it runs concurrently and nothing is
stored between calls. What makes it hard is that every format is a *protocol
between two programs that never meet*: `compress` and `decompress` each keep
their own copy of some state — a list of recent offsets, a position that decides
how a word is divided, a half-used byte, a reserved word — and advance it by
their own rules over an unmarked stream of bits. One side advancing one step
early is invisible until much later, and a test sees it only if its input
happens to lead there.

The project therefore models each codec as a system of two processes joined by
the stream, lets the encoder run over all inputs of a small instance, and asks
whether the decoder stays in step with it. Paths below are relative to
`src/src/ntcompress`.

## 1. Inventory

| Part | State it keeps | Operations | Status |
|---|---|---|---|
| ESE XPRESS9, token stream and offset lists (`ese/xpress9.py`) | four recent offsets and a "last token was a match" flag, once on each side | emit literal, pointer, repeated offset; decode each; end-of-block checks | modelled, proved |
| ESE XPRESS9, tokenizer (`_lz77_tokenize` and helpers) | hash chains, inserted data end, Pass 1 limit, flag, lazy plan | chunk insertion, chain walk, lazy evaluation, literal loop, tail | modelled, proved |
| ESE XPRESS9, wire symbols (`_encode_tokens`, `_decode_block`) | none | length ladder, offset class, escapes | modelled |
| ESE XPRESS9, Huffman tables on the wire (`_encode_huffman_table`, `_decode_length_table`, …) | position and previous length, once on each side; two queues; small table | codes from counts, truncation, opcodes, runs of zeros, uniform mode; reader and decoder | modelled, opcodes proved |
| ESE XPRESS9, blocks, session and cell (`decompress`, headers) | session signature, block index, positions, declared total | header checks, block walk, decoding across blocks, plaintext checksum | modelled, walk proved |
| XPRESS_HUFF, bit writer and reader (`ntdll/xpress_huff.py`) | two deferred words, pending bits; 32-bit register, spare bits | write/read bits, bytes, words, dwords; refill; finish | modelled, proved |
| XPRESS_HUFF, codes | package lists, lengths, codes, decode table | package-merge, canonical codes, packing, table building | modelled |
| XPRESS_HUFF, codec | tokens, block cut; output length, block end | factorization, block cut, EOF symbol, length ladder | modelled |
| Plain LZ77 (`ntdll/xpress.py`) | flag word in the making, shared nibble position, on both sides | literal, match, finish; decode | modelled |
| ESE XPRESS, LZ4 and XPRESS10 cells (`ese/*.py`) | none | frames, refusal to grow, declared size, two checksums around the decode, `verify` | modelled |
| LZNT1 (`ntdll/lznt1.py`) | position in chunk, open flag group | chunks, headers, words | modelled |
| LZ4 block (`ese/lz4.py`) | anchor, hash table of positions | sequences, length extension, end rules; decode to a size | modelled |
| 7-bit ASCII/Unicode cells (`ese/_sevenbit.py`, …) | bit accumulator, once on each side | packing, unit count from flag bits and length, padding check | modelled |
| Compact XPRESS9 (`ntdll/xpress9.py`) | own offset list | second encoder for the XPRESS9 tokens; decoder with parts of `ese/xpress9.py` | modelled |
| XP10, DEFLATE, ZLIB (`ntdll/*.py`) | none | calls to the LZ4 block codec or to zlib | not modelled: no logic of their own |
| SCRUB (`ese/scrub.py`) | none | marker and fill | partly: a cell erased in place; the fill bytes are left out |
| ESE dispatch (`ese/__init__.py`) | a table filled at import | format asked for or auto-detected, sentinels | modelled |
| ntdll dispatch (`ntdll/__init__.py`) | a table filled at import | lookup by the caller's format | not modelled: one step |
| Checksums (`ese/checksums.py`) | tables | CRC-32C, CRC-64 | not modelled: arithmetic on fixed tables, tested against check values |
| Exceptions and types | none | none | not modelled: declarations |

How the parts meet. The dispatchers look up a codec module by the first byte
(ESE) or by the caller's format (ntdll). An ESE cell module adds a header and
calls a raw codec: `ese/xpress.py` calls `ntdll/xpress.py`; `ese/xpress10.py`
and `ntdll/xp10.py` call the block codec of `ese/lz4.py`; `ntdll/xpress9.py`
calls the block decoder of `ese/xpress9.py` with an encoder of its own.
`PROJECT.json` lists every part again, with the reason where one is left out.

What is hard, and what each part must therefore get right (every item is a
hazard of `PROJECT.json`, with its line):

* **Two copies of one state.** XPRESS9's offset lists; the deferred and
  prefetched words of XPRESS_HUFF; Plain LZ77's flag words and shared nibbles;
  LZNT1's positions. *Correct when* both copies agree after every element.
* **Ends that are not marked.** XPRESS_HUFF blocks end when enough output has
  been counted; a Plain LZ77 stream ends at any match flag without a match;
  LZNT1 and LZ4 know no total length. *Correct when* both sides find the same
  end, and a missing end is noticed where the format allows it.
* **Ladders.** Four length encodings in three codecs, each with its own
  boundaries, zero escapes and re-added bases. *Correct when* every length is
  read back and no field exceeds its width.
* **Blocks and frames.** Blocks of a session may be lost, repeated, reordered or
  come from elsewhere; sizes are declared in one place and produced in another;
  checks run before or after decoding, or not at all without `verify`. *Correct
  when* what passes is the plaintext, or a prefix where nothing could tell.
* **Limits.** `max_size`, `uncompressed_size`, the window, the chunk, the
  alphabets. *Correct when* exactly what exceeds them is refused, and never the
  codec's own output.
* **Termination.** Chain walks that rely on a sentinel, loops over positions
  that advance only on success.

## 2. Modules

| Module | Models | Kind |
|---|---|---|
| `LosslessCodec` | what any codec promises | abstract specification |
| `Xpress9Stream` | *any* XPRESS9 encoder and the decoder of the code | abstract specification of the tokenizer, model of the decoder |
| `Xpress9Codec` | the tokenizer as written; decoder behind the wire symbols | implements `Xpress9Stream` |
| `Xpress9Symbols` | spelling of a token as symbols and raw fields | operators, used by `Xpress9Codec` and `CompactXpress9` |
| `Xpress9Lengths` | a table of code lengths as opcodes, written and read | system |
| `Xpress9Codes` | Huffman lengths, truncation, canonical and uniform codes, `_CanonicalHuffman` | operators |
| `Xpress9Trees` | one table from counts to codewords on both sides | extends the two above |
| `Xpress9Session` | the walk over blocks, their decoding into one output | system |
| `EseCells` | frames, refusals, dispatch, damage, `verify` for XPRESS, XPRESS9, XPRESS10, LZ4 | extends `Xpress9Session` |
| `SevenBit` | both 7-bit formats, bit by bit | system |
| `CompactXpress9` | the compact codec | system, over an instance of `Xpress9Symbols` |
| `HuffBits` | `_BitWriter` and `_BitReader` over one block | system |
| `HuffCodes` | code lengths to decode table | system |
| `XpressHuff` | tokens, blocks, symbols of XPRESS_HUFF | implements `LosslessCodec` |
| `PlainLz77`, `Lznt1`, `Lz4Block` | the three byte-oriented codecs | implement `LosslessCodec` |
| `LzText` | match comparison, overlapping copy, newest candidates | operators shared by these, `Xpress9Session` and `CompactXpress9` |
| `Xpress9Proofs` (token stream, tokenizer, tables of lengths), `EseCellsProofs` (with `SevenBit` and `CompactXpress9`), `HuffBitsProofs`, `XpressHuffProofs`, `Lz4BlockProofs`, `PlainLz77Proofs`, `Lznt1Proofs`, `ArithmeticLemmas` | theorems | proofs |
| `MC*` | finite sets of inputs for the runs | instances |

The three layers of XPRESS_HUFF are checked apart, each assuming what the one
below it shows: `XpressHuff` treats a block as a sequence of fields, `HuffCodes`
shows that the code carries any set of symbols, and `HuffBits` that fields are
found again where they were put and that a block is read to its last byte, where
the next table begins.

XPRESS9 is layered the same way. `Xpress9Session` lets one cell stand for a
token, `Xpress9Stream` and `Xpress9Codec` say what the tokens are and how the
offset lists follow them, `Xpress9Symbols` spells a token as symbols and raw
bits, and `Xpress9Trees` shows that the codes of both alphabets, opcodes included,
mean the same on both sides. `EseCells` puts a codec's tokens into a frame and
lets them be damaged there; what the raw decoders make of bytes is in the codecs'
own modules.

### Correspondence with the code

`PROJECT.json`'s `map` gives the lines for every definition. The conventions:

* **Actions.** An action is one turn of the loop in the code, with everything
  that turn changes. `Xpress9Codec` has one per path of `_lz77_tokenize` and one
  per candidate of `_chain_lookup`; its `pc` is the place in the loop. A refused read or a raised exception is a
  final value of `status`, `result` or `phase`, never a missing action.
* **Data.** Plaintext bytes are small numbers. The stream is a sequence of
  *cells*, one per field the code writes, each with its kind. The decoder asks
  for a field by kind and width, as the code does by calling the matching read;
  if another one lies there, the code would silently misread it, and the model
  ends in `"garbled"`. A state the properties forbid thus stands for any
  misreading, whatever bits it would produce.
* **Positions** are zero-based as in the code where they point into the
  plaintext, one-based where they point into a sequence of cells. XPRESS9
  keeps distances negative; the model keeps them positive.
* **Searches.** A hash chain visits the newest earlier positions with the same
  prefix first and stops after a count (`Newest`, `Longest`). `_CHAIN_PRUNE` in
  `ntdll/xpress.py` only bounds memory, at four times what a search looks at,
  and is left out. In `Xpress9Codec` the chain walk takes a step per candidate
  (`WalkPast`, `WalkOnto`), since its sentinel, its test of the bytes around the
  best match's end, and its budget of misses do decide the result; the pairs of
  the unrolled loop are single steps, which they equal;
  the hash function is a parameter, and the instance uses one that collides.
* **History variables** (`trail`, `marks`, `starts`, `chunkAt`,
  `whole`, `lost`, `elements`, `ends`, `sound`) are written and read by properties only.
* **Variants.** An operator named for what it gets wrong
  (`TakenSlotNeverShifted`, `RefillsLate`, …) stands before the
  definition it varies and is used by no action. Substituting it must break the
  property listed beside it in `PROJECT.json`.
* **Checksums** are what they are taken over (`field.plain`, `field.packed`): no
  two contents of a model have the same. Collisions are out of scope.
* **One pass for two.** `_encode_huffman_table` first collects the opcodes and
  `_write_length_sequence` then derives them again by the same rules;
  `Xpress9Lengths` has one writer, whose opcodes `Xpress9Trees` counts, prices
  and reads back.
* **Not reachable.** In `_limited_lengths` the branch for a single symbol is
  never taken, since `_encode_block` adds fillers up to two, and has no action.
  `MAX_MATCH_LENGTH` of the dword step (2^32 − 1) needs four gigabytes of input.

Points where the code is subtler than it looks, and how they are modelled:

* `XpressHuff!LeaveBlock`: when the last block ends exactly at its nominal end,
  the decoder leaves it *without* reading the EOF symbol and stops because less
  than a table is left. The model keeps this path apart from `ReadEof`.
* `XpressHuff!Usable`: the shortest match at distance one would have the number
  of the EOF symbol and is emitted as literals.
* `PlainLz77!PushFlag`: the next flag word is reserved right after the 32nd
  element, not when it is needed; if a shared nibble is pending, its byte lies
  before that word, and its second half is filled in after it.
* `Lznt1!ReadWord`: a displacement may reach before the chunk as far as the
  decoder is concerned; only the encoder keeps chunks independent.

* `Xpress9Lengths!WriteMore`: an extension that is full promises another one;
  a rest that is an exact multiple ends with an extension of zero.
* `Xpress9Trees!ReadStored`: the uniform lengths pass the same check as any
  others when the decoder is built from them.
* `EseCells!PlainToken`: the LZ4 decoder stops at the declared size in the middle
  of a token, plain LZ77 refuses to pass it, and XPRESS9 bounds each match by its
  block.
* `SevenBit!Relabel`: other producers count the bits of the last byte
  differently; the reader rounds down on purpose. `_check_padding` says it is
  "Gated on ``verify`` by the callers" (`ese/_sevenbit.py:105`), but both
  callers always check, and so does `Parse`.
* `CompactXpress9`: the compact decoder takes list handling and lengths from
  `ese/xpress9.py`, whose rules its own encoder does not follow (finding 2).

## 3. Specifications and properties

**`LosslessCodec`** says that output grows as a prefix of the plaintext and
ends as the plaintext, that only a plaintext longer than the caller's limit is
refused, that the limit is never exceeded, and that every call returns. Between
compressing and decompressing, the stream may be damaged: plaintext may be missing
at the front (where the format lets the rest stand alone), or the end may be
missing, after which the call may fail or stop short, but never writes anything
that is not a prefix. The four codecs implement it; each instance says what `limit` is: `max_size`
(`XpressHuff`, `PlainLz77`), no limit (`Lznt1`), or the size the caller asks for
(`Lz4Block`, where the "plaintext" is what was asked for and asking for more
than there is must fail).

**`Xpress9Stream`** lets the encoder emit *any* token its own checks permit, so
what holds for it holds for whatever match finder is used; `Xpress9Codec` is
shown to take only its steps. Its properties (`OutputFollowsInput`, `ListsAgree`,
`NoFalseRejection`) carry an exception, `ReusedFirst`: the code has a defect
there (finding 1) and the exception delimits it exactly — without reuse of slot
0 after a literal the codec is correct.

Damage, the action `Store` of a codec, is modelled where the format says what
becomes of it: `PlainLz77` and `Lz4Block` may lose their end at any byte, within
a field or between two; `Lznt1` may lose chunks at the front, bytes at the end,
or gain an end mark with a byte behind it. `Lossless` says what may happen then;
`TruncatedCellRefused`, `CutsNoticed` and `NeverShort` say what the code promises
beyond it: a framed XPRESS cell is refused, LZNT1 misses only whole chunks, and
an LZ4 block is never returned short.

**Cells.** `CellsComeBack` is the promise about cells left alone, for every
combination of format stored and format asked for; `DamageNoticed` the promise about
damaged ones: cut, altered, with blocks lost, moved, repeated or exchanged
for another session's, erased, or with another first byte. It states what each
format can notice with `verify` and without. `SizesAgree` relates
`decompressed_size` to what is being decoded at any time. `OneSession` is what
`_session_blocks` promises the decoder. `UnitsComeBack` covers flag bits that are
not the encoder's own. `CompactFollows` delimits finding 2 as `ReusedFirst`
does finding 1: while repeated offsets are the first of the list and follow a
literal, and no length is escaped, the compact codec is right (proved for every text:
`CompactReadsBack`).

**Tables.** `TableComesBack` compares two private positions and previous lengths
over opcodes that carry neither; `CodesAgree` follows counts through truncated
codes, opcodes, the opcodes' own code and the choice of mode into the reader's
decoder. `TableTypeOK` holds of the reader on any foreign stream too.

**Fairness.** One thread calls `compress` to its end and then `decompress` to
its end; no other thread can keep it from its next step. Weak fairness of
`Compress \/ Decompress` (of `Tokenize` and of `DecodeWire`) states just that.
No fairness is placed on single actions: which one runs is decided by guards.
`Terminates` (XPRESS9) and `Returns` (inside `Lossless`) need it.

## 4. Runs

| Run | Question | Instance |
|---|---|---|
| `Stream` | do lists and outputs agree for every token stream? | all binary blocks of 1–9 bytes, all token choices, 3 slots |
| `Codec` | is the tokenizer one of these encoders, and does it end? | all binary blocks up to 8 bytes, words of a longer alphabet up to 18 bytes; chunk 7, hash of 3 bytes with collisions, depth 2, 2 misses |
| `Wire` | do tables and tokens mean the same on both sides? | tables of 24 symbols in rows of 8, lengths to 5, opcode lengths to 4: absent, lone and paired symbols at every distance, steep, even and row-like counts; all foreign streams of up to 3 opcodes; tokens with the constants of the code, lengths to 2^16, offsets to 2^25 − 1, dense around each boundary |
| `HuffBits` | do writer and reader keep step? | all blocks of up to 5 operations, 0 to 3 bits and 1, 2, 4 raw cells, words of 4 bits |
| `HuffCodes` | are the codes complete, optimal, and the same on both sides? | 8 symbols, 3-bit limit; any up to 5 of five symbols with 4 counts, plus steep and flat counts of all eight |
| `XpressHuff` | does the decoder find the blocks and the plaintext? | all binary inputs up to 8, runs to 20; blocks of 5, ladder 3/2/8 |
| `PlainLz77` | are elements and half-bytes met where they were left, and what becomes of a cut stream or cell? | all binary inputs up to 7, two runs to 14 each, three runs; flag words of 3, ladder 2/2/2/9; cut at every byte |
| `Lznt1` | are words divided alike, chunks independent, and cuts noticed? | all binary inputs up to 10, two runs to 12; chunks of 8, words of 4 bits, 2 to 3 of them displacement; cut before every chunk and at every byte |
| `Lz4Block` | end rules, and any size asked for? | all binary inputs up to 9, two runs to 10, runs without a match; sizes 0 to n + 1; cut at every byte |
| `Cells` | do cells come back, is damage noticed, do sizes agree; 7-bit units; when is the compact codec right? | plaintexts to 9, sessions of 2–3 blocks with matches across them, size field 8, limit 10; texts to 18 units with one that differs; binary sources to 9, runs to 20, pairs among other bytes, 2 slots, ladder 3/2/3 |
| `RoundTrip`, `Compact` | findings 1 and 2 | see below |

**Bounds.** Every bound is a constant named in the module or the `.cfg`.
Constants of the formats are scaled down so that *each boundary is crossed by an
input that is enumerated*: ladders whose every step is reached by a run of a
dozen bytes, flag words that fill after three elements, chunks, blocks and words
small enough for two or three of them, chains shorter than the number of
candidates, distances too far to encode. A scaled constant keeps the relations
the code relies on, which the `ASSUME`s state (for instance that a word cannot
say a length the steps before it could). What scaling loses are coincidences of
the real numbers: the tokens of `Wire`, `RoundTrip` and `Compact` use those, and the proofs hold for
all of them. Two byte values suffice for most questions, since matching tests
only equality; runs of distinct values add inputs without any match. TLC checks
for deadlock in most runs, where finished calls stutter by an explicit action;
`Wire`, whose samples simply end, says so in its `.cfg`. The two
samples of `Wire`, and the three of `Cells`, are independent systems in one
run: a behaviour is about one of them and the others rest. The alphabet of `Wire` has 24 symbols so that the uniform code has two
lengths, as the real one of 704 has.

What the properties relate, beyond one assignment: `CursorsAgree`, `ListsAgree`,
`InStep` and `BlocksMeet` compare the decoder's private state with what the
encoder's was at the same element, across any number of steps;
`EndsAtNextBlock` and `CutsNoticed` concern ends nobody marks;
`LengthsAreOptimal` compares package-merge with every other code;
`LastPtrIsCurrent` holds only at the top of the loop, since lazy literals leave
the flag stale in between.

### Findings

1. **XPRESS9 cells that cannot be read back** (`RoundTrip`, `xpress9.py:1335`).
   When a token reuses slot 0 right after a literal, `_emit_mtf` copies the
   first entry over the second while `_take_mtf_offset`
   leaves the list alone. A later reference to slot 1 means different offsets.
   The run is a 58-byte input with the code's own constants; the Python library
   raises `IntegrityError` on the cell it made from it.
2. **Compact XPRESS9 streams that cannot be read back** (`Compact`,
   `ntdll/xpress9.py:307`). `compress` names a repeated offset by its place in a
   list it does not reorder and does not skip the slot of the match before;
   `_take_mtf_offset` does both. It also writes an escaped length relative to
   half the base that `_read_match_length` adds (`ntdll/xpress9.py:328-333`). The
   run refuses `b'aaaaaaaabaabbb'`; so does the library
   (`DecompressionError`), and `b'a' * 300` ends in `IntegrityError`. `Cells`
   shows where the codec is right.

Known limits, stated as such. The block header announces a
window of 64 KiB and `xpress9.py:1782-1783` says it "limits match distances", but
the tokenizer emits any distance up to what `_MAX_OFFSET_BY_LENGTH` allows; the decoder of this
library does not care. An offset of 2^24 or more, or a length beyond
`LengthLimit`, has no symbol, and `compress` fails with `IndexError`
(`xpress9.py:1600`) instead of an error of the library: `SymbolsHaveRoom` says exactly when.
The bits of both tables are masked to 13 bits (`xpress9.py:1756`); at most
eight bits for each of 960 symbols, two small tables of 33 entries of four bits,
two modes and 21 bits of list state make 7971, which fit. The compact header counts
the payload in 28 bits, not modelled.

No finding, but worth knowing when reading `CheckMtf`: `_check_mtf` compares its
first two bytes without regard to the end of the inserted data, so a match may
end one byte past it, contrary to the comment at `xpress9.py:1413`. `Codec` shows
that this is harmless.

## 5. Proofs

TLC sees small instances; TLAPS proves the following for all values of the
constants that satisfy the named assumptions.

**`Xpress9Proofs`, first part: `Xpress9Stream`** (assumption: `StreamAssumption` — non-empty blocks of
integers, two slots or more, positive minimum lengths; the blocks need not be
finite in number). `TypeCorrect`, `DecoderFollowsEncoder`, `ListsStayEqual`,
`OwnStreamsAccepted`. None of the properties is inductive: that the decoder's
list equals the encoder's *after the same token* says nothing of the token to
come. `IndInv` adds `StreamInv`: the history `trail` joins each token to the
encoder's state before and after it, and records what the token means there
(`Meaning`: which byte, which distance really repeats, which slot was meant).
The decoder's step is then compared with the recorded one: for a literal the
byte is the plaintext's; for a match `CopyExtendsPrefix` shows that an
overlapping copy of a prefix of the plaintext is a longer prefix, which needs
`OverlapIsCyclic` of `ArithmeticLemmas`; `SameUpdate` shows where the two list
updates coincide and, by what it assumes, where they do not. That positions grow
strictly along `trail` gives the rejections: no check for size fires early.

**`Xpress9Proofs`, second part: `Xpress9Codec`** (assumptions: `StreamAssumption`; `CodecAssumption` —
positive chunk, depth and tick, a repeated match's first bytes within what a hash
covers, blocks of bytes no longer than the decoder's ceiling; `PowersAssumption` —
2^0 = 1, and the powers of two up to 2^30 are numbers). `CodecTypeCorrect`,
`FlagTellsTheTruth`, and `TokenizerImplementsStream`: the tokenizer of the code refines
`Xpress9Stream`, whatever the hash function, the chunk size, the depth of the
search and the filter on distances. What is proved of every encoder is thereby
proved of this one (`CodecFollowsStream`). A step of the tokenizer is allowed by the
stream only for reasons found several steps before, so the invariant keeps them.
`ControlInv` says for each place of the loop what is known there: `WalkInv`
that a walk has found nothing, or a match longer than its floor that really repeats at
the position it looks ahead to; `PlanInv` that the match planned repeats where it
will stand *once the literals before it are out*, that it is then not refused by the
rule about slot 0, and that its slot still names its distance; and that
the flag is stale in "plan" only. `BoundsInv` — chains lead backwards, Pass 1 stops `HashLen`
bytes before the end — keeps every byte looked at inside the block,
also those `_check_mtf` compares beyond the inserted data (`CheckMtfRepeats`).
`SpellInv` is about the wire: each token is one that `_encode_tokens` can spell,
and `TokenComesAcross` shows for any such token that `_decode_block` reads it back,
through all rungs of the length ladder and the most significant bit of the offset, so that
`DecodeWire` is a step of the stream's decoder. `WireCarriesTokens` collects what is known
of such a token: the reader asks for just the fields written, in their order and widths
(`TokenLinesUp`); the token comes across; and its symbols are in the alphabets exactly
if its offset is below 2^`MaxWindow` and its length within the last escape
(`TokenHasRoom`, from `MsbWithin`: the most significant bit is below the window just where
the number fits it). These are `TokenSurvivesWire` and `SymbolsHaveRoom`, which TLC
evaluates on a sample, for every token; a repeated offset is supposed to fit the window too,
which `SymbolsHaveRoom` also asks of a token though it is not written. The assumption here is
`WindowAssumption`: `MaxWindow` is 1 to 30, and the powers of two up to 2^30 double.

**`HuffBitsProofs`** (assumptions: `HuffBitsAssumption` — bit counts below a
word, raw values of one to four cells; `PowersAssumption` — the powers of two in
use double at each step, which the provers do not know). `TypeCorrect`,
`ReaderFollowsWriter`, `OwnBlocksComplete`, `BlocksAbut`, `ValuesComeBack`.
`IndInv` adds `TrailInv`: what each operation does to the writer's cursor, to its free
bits and to the two reserved words, which `trail` records.
The reader's cursor and spare bits, begun in `Finish` where the writer's began,
obey the same recurrence; the block's length is the writer's last cursor and
bounds all of them, hence no read past the end and no byte left over.

`ValuesComeBack` is `ValuesSurvive`, and needs a second layer, `ValuesInv`, on top of
that. Its first part, `ContentInv`, says where each item's bits are: in the word that
was pending when it was put (`Field`, at the free bits left there), or split
between that word and the next; a raw value in the cells at the cursor. What keeps it
is that a word once filled is behind everything written later (`Ordered`, `Behind`) and that
the bits of the pending word below the free ones are still clear (`Clear`). Its second
part, `RegisterInv`, says that the reader's register holds the rest of the pending
word followed by the next one, as they stand in the finished block. `FittingTakes` and
`SplitTakes` are the arithmetic: what the register's upper bits give for an item that
lies within a word and for one that lies across two.

**`Xpress9Proofs`, third part: `Xpress9Lengths`** (assumption: `LengthsAssumption`, for any alphabet and
row size, and for foreign streams of any kind). `LengthsStayInside` is
`TableTypeOK`; `LengthsComeBack` is `TableComesBack`. The invariant behind the
second joins each opcode to where the writer stood before and after it (`expected`)
and says what the opcode must mean there: the length it stands for, a run of
zeros that ends within its row, a fill that ends at the next row. While the reader
is at an opcode its position, previous length and open run are those of the
trail, and all lengths before its position are the writer's; so a row above
is the writer's row above, and no check of the reader fires. That the writer's
rest (`left`) and the reader's run add up to the end of the run of zeros links the
two across any number of extensions.

**`EseCellsProofs`** (assumptions: `SessionAssumption`, `CellsAssumption`).
`BlocksOfOneSession` is `OneSession` for any payload at all. That the accepted spans are
consecutive is kept by each step of the walk (`WalkInv`); that the output stays below the
limit is not: the invariant carries, as a function, the sums of the sizes that the first
blocks declare (`Sums`), ties the output after so many blocks to its sum (`OutFollows`),
and gets the bound from `CheckTotal`, which saw the last sum.

Within the whole cell model `CellsOfOneSession` repeats it, and `DeclaredSizeHolds` is
`SizesAgree`: `CellInv` says which format is decoded at which step, so that each
decoder's own bound is the one `decompressed_size` reads (`BelowTotal` for XPRESS9).
`CellsGiveBack` and `DamageIsNoticed` are `CellsComeBack` and `DamageNoticed`. They need
what is no longer in the cell: what the encoder wrote. `CellsAssumption` says of a token
sequence that a match finder may make (`Factored`), and of the payload of a sound session,
that its tokens are true of the plaintext where they stand (`Spells`) and that its
headers describe its blocks (`InBlocks`); both are what the encoders' own models show
(`Xpress9Stream`, `Lz4Block`), and TLC evaluates them on the sample. The invariant
then holds that payload `p` fixed beside the damaged one. `PlainCell` and `PlainRead`:
while the tokens read are those of `p`, the output is the plaintext up to where they
lead (`TokenExtends`). `SessionCell` and `SessionRead`: the damaged payload agrees with
`p` up to a boundary between blocks `m`, and behind `m` it ends or has a header that
does not fit (`Misfit`: not complete, with a fault, of another number or session). Every way
to damage a cell gives such an `m` (`CutFollows`, `HeaderFollows`, `RearrangeFollows`,
`SpliceFollows`), by `NextBlock`, `BlockEndsBefore` and `NumbersGrow`; `AcceptsOwnBlocks`
shows that the walk gets to `m` and never past it, so that what is decoded ends between
blocks.

The second part of the module is about the 7-bit formats, which share with the
frames only that they are cells (assumption: `SevenBitAssumption` — the texts are sequences of
units, of any length and number). `AccumulatorsSmall` is `SevenBitTypeOK`,
`TextComesBack` is `UnitsComeBack`. All bits of a text are numbered through
(`TextBit`), with zeros after them; the invariant says of both accumulators, of
every byte and of every unit read which stretch of these bits it is, and counts the
bits moved: those in bytes and in the accumulator are those of the units taken.
A unit read is then the unit written because both are the same stretch. How
many units the reader stops after follows from the header's arithmetic
(`UnitCount`) for whatever flag bits.

The third part is about the compact codec (assumptions: `CompactAssumption` — texts of
any alphabet shorter than 2^30, as many slots as one likes, `MaxShort` at least 2;
`PowersAssumption` as above). `CompactReadsBack` is `CompactFollows`: it delimits finding 2 for
every text. The invariant says that there is a sequence of spots (`Trail`), each a position of
compress and its list there, joined by the tokens written (`WritesTo`: a literal that
stands there, a match that repeats, by slot or by distance). While every token so far is
one on which the two sides cannot differ, the decoder is where the encoder was, with the *same
list* (`AtSpot`), though the two sides keep it by different rules; `RemembersKind` is why: the
rule for behind a match, which the encoder does not have, applies only behind one.
That an error is met only at a token that is not of this kind (`PhasesFit`) makes the
promise hold of refusals too.

**`Lz4BlockProofs`** (assumption: `Lz4BlockAssumption`). `BlocksFollowTheRules` is
`EndOfBlockRules`, `NothingReturnedShort` is `NeverShort`. The history `trail` names the
sequences the block consists of and where each begins. The encoder's part of the
invariant says of each that it is true of the plaintext (`Sound`: its match
really repeats, and ends where the rules say) and stands in the block where it
should, as far as the block still reaches (`Carries`), so that losing the end
takes nothing else from it. The decoder's part (`Decoding`) says within which
sequence it is, at which byte, and that its output is the plaintext up to
there. Neither property is inductive: a length of several bytes is right only
because of the bytes still to come (`LadderStep`), and the whole plaintext is
reached only through the last literals, behind which nothing can be lost
(`FinalSequence`). That a whole block is refused only to those who
ask for too much is part of the invariant as well, so that each step of the codec is
one of `LosslessCodec` or a stutter: `PromiseKept` is `Lossless` without
its last conjunct, that every call returns, which stays with TLC.

**`XpressHuffProofs`** (assumptions: `XpressHuffAssumption` — plaintexts of bytes below
`EofSymbol`, positive constants, and a `WordLimit` above what half byte and byte hold
together; `PowersAssumption` as above). `TypeCorrect` is `TypeOK`,
`BlocksAlwaysMeet` is `BlocksMeet`, and `PromiseKept` is `Lossless` without termination. The
difficulty is that a block says nothing of its end: compress ends it at a token, the
decoder when it has produced enough, and the two must mean the same token. No
variable remembers where a token went, so the invariant says that there *are* three maps
from tokens to numbers: where in the plaintext a token ends (`place`), which block has its
fields (`home`) and from which field on (`spot`). `Factored` says that each token is true of
the plaintext where it stands, `Segmented` that the fields of consecutive tokens follow each
other, in one block or across the end of one: a token's block was still short of
`BlockSize` when it came, and a block was full when the next began. Hence the
decoder, which has met the first `k` tokens (`Decoding`), leaves a block exactly
where `home` changes, also behind a match that runs past the block's end. Inside a
match `InMatch` says which rungs of the ladder were read (`Rungs`) and what they
add up to; the symbol's offset width is found again by looking back (`OffsetWidth`), and a
match whose symbol would be the one for the end of the file was not made
(`MatchSymbol(t.len, t.dist) > EofSymbol` in `Sound`). Lengths of 2^32 and more, which
`write_u32` cannot hold, are outside the model.

**`PlainLz77Proofs`** (assumption: `PlainLz77Assumption` — any plaintexts, any positive
widths, and a `WordLimit` above what token, half byte and byte hold together, as
65536 is above 7 + 15 + 255). `TypeCorrect` is `TypeOK`, `DecoderInStep` is `InStep`,
`CutCellsRefused` is `TruncatedCellRefused`, and `PromiseKept` is `Lossless` without
termination, raw or framed. The history `marks` names the elements of the stream, with
the half byte open where each begins. As for LZ4 each is true of the plaintext (`Sound`)
and has its cells where they belong, as far as the stream reaches (`Carries`). Two
places are filled in only later, and each has an invariant of its own: a flag stands in
its word, or still in `flags` while that word is only reserved (`HasFlag`, `FlagInv`); the
upper half of an open half byte is unused, and no long match before has it
(`NibbleInv`), so that filling it in changes what no earlier element wrote. `Follows`
joins each element to the next through both: behind the last flag of a word the next
element stands one cell further, and a long match leaves a half byte open or uses up
the one it found. `Decoding` says that the decoder is within element `elements + 1`, with
the rest of its word's flags in `window` (`Ahead`) and, inside a long match, at which of
its steps (`InLadder`); that the ladder's next step is there to be read follows only
from the length meant. A cut takes only the end, so every cell before `at` is the
encoder's, and `ReadEnd` finds too little only where something was lost; a raw stream
then ends early, a framed cell is refused for its size.

**`Lznt1Proofs`** (assumptions: `Lznt1Assumption` — any plaintexts, any positive sizes, and a
chunk no longer than the greatest displacement; `PowersAssumption` — a word's two parts have
`WordBits` bits together, which the provers do not know of powers). `TypeCorrect` is `TypeOK`,
`CutsAreNoticed` is `CutsNoticed`, and `PromiseKept` is `Lossless` without termination, also
where chunks are missing at the front. No variable remembers an element, and both sides
find the division of a word from a position each counts for itself. The invariant therefore
says that there *is* a sequence of elements, each with its flag byte, its bit there, its first
byte and its position (`Spots`), which a chunk's bytes hold and of which its text is true
(`Packed`, `Sound`, `Holds`). While a chunk is filled (`Filling`) that is said of the bytes it would
have if it ended here (`Pending`, the open group padded with zeros), so that an element
more changes one flag bit and nothing before it (`FlagsUsed`), and the end of the chunk
changes nothing at all. `Chunked` says that a buffer is chunks that each stand for their part of
the plaintext. `RestOfChunks` shows that without its first chunks a buffer is one of
the rest of the plaintext, with all places moved (`PlacesFrom`): chunks decompress
independently. The decoder reads what may have lost its end, so `Decoding` compares it with a
buffer `w` that did not (`Kept`): it is between two chunks of `w`, in a raw one, or
behind the first `m` elements of a compressed one, with the flags from the next
element's on. Its position is then that element's `from`, and the word comes apart as
it was put together (`WordsComeApart`). The padding of the last group is left without
reading anything, because the chunk's end is reached first (`AtElement`). A chunk is
entered only if all of it is there, which is why a lost end is noticed unless
it was lost between chunks.

Induction over data is not available to the provers, so `ArithmeticLemmas`
derives what it needs from the least-number principle (`LeastNatural`), itself
proved from the well-foundedness of the naturals' order in the library. It also holds
what several codecs share about comparing and copying: that an overlapping copy of a
prefix of the plaintext extends that prefix (`OverlapExtendsPrefix`), and what the match
finders' `Longest` returns: a match that really repeats, within the limit
(`LastLongestRepeats`).

**Only model-checked:** all liveness (`Terminates`, `Returns`; of `Lossless` in the four
ntdll codecs just this conjunct is left to TLC, their steps are proved by
`PromiseKept`); everything about
recursive or sorted data (`HuffCodes`, `Xpress9Codes` and with it `CodesAgree`).
`TokenSurvivesWire` and `SymbolsHaveRoom` are stated in the run's own module and proved, for
any token, as `WireCarriesTokens`.

## 6. Not modelled

What has steps that depend on one another is modelled. Left out, with the reason:

* **ntdll dispatch, DEFLATE, ZLIB, XP10:** one call each, to the LZ4 block codec
  or to zlib. `ntdll.decompress` passes XP10 no size (`ntdll/__init__.py:112`) and
  gets an empty result; `Lz4Block` says what each size yields.
* **SCRUB's fill bytes** and the recognition of them: data without steps.
* **The registries:** tables filled at import.
* **Memory:** without `max_size`, plain LZ77 may produce gigabytes from a 32-bit
  length.

What further theorems would need: for `HuffCodes` and `Xpress9Codes`, induction over
sorted sequences, which is out of the provers' reach.

Out of scope: the CRC arithmetic, DEFLATE and ZLIB (the zlib library does all
of it), memory and speed. Byte-identity with Windows' own encoders is a matter of
recorded outputs, which the tests compare, and of no property here.

## 7. Running

```
tlc -workers 2 -config MCXpress9Codec.cfg MCXpress9Codec
tlapm Xpress9Proofs.tla
```

Every run takes less than a minute on two cores; the proofs take some minutes
each from nothing. The tokens of `Xpress9Codec` were also compared with those of
the Python code on sample inputs, and finding 1 was confirmed by
running `compress` and `decompress` on its input, as was finding 2.
