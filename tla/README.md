# layline: models, checks and proofs

layline turns Rust types into binary wire formats. `layline-derive` parses the
`#[derive(Layout)]`, `#[derive(Message)]` and `#[derive(Choice)]` attributes,
`layline-codegen` validates the resulting model and writes the encode and decode
functions, `layline-core` is what the generated code runs on, and `layline` is the
facade. There is one thread of control and no state outlives a call but a decoder's
buffer; what makes the code hard is *order in a buffer*: bytes that arrive in any chunks,
fields reserved first and filled in later, checksums over bytes that may still change,
offsets a message states about itself, and buffers that run out between two writes.

This directory holds TLA+ modules translated from that code, the TLC runs that check
them on small instances, and theorems that TLAPS proves for every value of the
constants.

## Inventory

| Part | Where | State | Operations | What is hard | What makes it correct |
|---|---|---|---|---|---|
| Stream framer | `layline-core/src/frame.rs` | `buf`, `len`, `spent`, `stats` | `parse`, `push`, `pop` | arbitrary chunks, a frame that stays borrowed until the next call, resync inside a damaged frame, a full buffer, a scan past an incomplete frame | every byte in exactly one frame or discarded once; no true frame missed; the answer independent of the chunks; `pop` returns; a full buffer always yields something |
| Generated byte-addressed messages | `layline-codegen/src/walk/message/*` | `out`, marks of reserved fields and range edges, a nested layout being filled in; decode's `__at`, `__hi`; the rows of the segment table | one step per segment, stamps at a segment's end, late stamps and late checks after the last; a row per segment | reserved fields filled twice, checksums over bytes not final yet, ranges that hold their own field, offsets that move the cursor backwards, overflow between two writes, numbers a parameter states, a table computed beside the cursor | decode reads what encode wrote; damage under a checksum is refused; nothing written is changed but a reserved zero; the table is where decode reads |
| Model validation | `layline-codegen/src/validate/*`, `clashes` in `walk/message/body.rs` | none | accepts or refuses a model | cyclic checksums, one field derived twice, a reference to a later field | accepts only what encode and decode can keep |
| Bit cursor | `layline-core/src/bits.rs` | `at`; `base`, `used` | `read`, `skip`, `write`, `patch` | fields across bytes in two bit orders, a write refused half-way, a patch inside shared bytes | reads return what was written; a refused write leaves no trace; a patch changes its own bits |
| Buffers | `layline-core/src/buffer.rs` | `room`, `at` | `push`, `rewind`, `pad` | a push that does not fit | all the bytes or none |
| Number codings | `layline-core/src/num*` | none | LEB128, zigzag, Exp-Golomb | width limits in the last byte, `i64::MIN`, 65-bit prefixes | decode is the inverse of encode and refuses what does not fit |
| Bit-addressed messages | `walk/message/bits.rs` | a bit cursor and patch positions | as above, in bits | presence bits, counts patched later | as above |
| Choices and switches | `walk/message/{switch,choice}.rs`, `segment.rs` | the arm's measured length | encode the arm to measure it, rewind, encode it again | the two encodings must agree; open arms and windows | the window is filled exactly, the tag is the arm's |
| References between items | `emit/graph.rs`, `walk/reference.rs`, `walk/message/recursion.rs`, `layline-core/src/message.rs` | the vectors of three fixpoints, a reachability matrix, the nesting depth | the fixpoints, one generated constant per item, a nested decode | least fixpoints over a cyclic graph in declaration order; constants that must not wait for themselves; a depth that switches do not count | refuses exactly the modules that cannot end or be sized; the constants are right and resolve; the native stack is bounded |
| Layout solver and fixed layouts | `layline-derive/src/layout/*`, `walk/row.rs`, `walk/fixed.rs` | the wire bytes a view wraps | place fields or refuse; encode, decode; a view's getters and setters, `verify`, `seal` | five kinds of access for one field, chosen by the container's size, mode and orders; windows padded on one side; checksums over checksums; checks written once for decode and once for views | the fields are independent whatever the container; the table says where they are; a view and decode agree; what is sealed verifies |
| Enums, newtypes, dispatch, catalogues | `layline-derive/src/{codec,dispatch}.rs`, `layline-codegen/src/walk/fixed.rs`, `validate/catalogue.rs` | the variants listed so far, the number the next one stands for | a variant at a time; decode and encode by the list | a last arm that takes what is left, numbers counted on from variant to variant, numbers wider than their field | every bit pattern is one value and that value is written as it; what does not fit is refused |
| Derive of messages | `layline-derive/src/message/*` | a field's slots, the bodies, the segments | read attributes, make bodies, lower, check | four functions that each take some attributes, checks written once for the derive and once for the model | nothing written is dropped, a refusal points at a field unless it is one of five |
| Table audit | `audit.rs` | none | checks over `SEGMENTS` tables | spans without a fixed start | agrees with the generator |
| Token output, facade | `emit*`, `tokens.rs`, `layline/src` | none | model to text, re-exports | none of it is order or state | left to the tests |

Calls go one way: the generated code calls the buffers, the bit cursor and the codings;
a `FrameSpec` supplied by the user is called back by `parse`; the user's `Choice` and
`Message` values are called back by the generated code with a depth and a context.

## Modules

| Module | Models | Composes |
|---|---|---|
| `Framing` | what a `Decoder` promises: a stream that grows and a cut of it that grows | |
| `Frame` | `frame.rs`: `parse`, `complete_frame_beyond`, `push`, `pop` with every turn of its loop | `Framing` through `ImplementsFraming` |
| `FrameProofs` | theorems about `Frame` | `Frame` |
| `MCFrame` | seven small protocols, and `PopReturns` | `Frame` |
| `Walk` | the generated encode and decode of a byte-addressed message and the generator's acceptance | |
| `MCWalk` | families of message definitions | `Walk` |
| `BitStream` | what the bit cursors promise: a sequence of bits | |
| `BitCursor` | `bits.rs` over a fixed `Buffer`: `write` with its undo, `patch`, `read`, `skip`, `at`, each loop turn a step | `BitStream` through `ImplementsBitStream` |
| `BitCursorProofs` | theorems about `BitCursor`, and that it implements `BitStream` | `BitCursor` |
| `Numbers` | LEB128, zigzag and Exp-Golomb, encode and decode a loop turn at a time | |
| `Recursion` | the checks over a whole module, the constants generated from them and the decoder's depth | |
| `RecursionProofs` | theorems about `Recursion` | `Recursion` |
| `Words` | machine words as sets of bit positions, and their bytes | |
| `Record` | what a layout promises: a record of independent fields | `Words` |
| `Layout` | the layout derive: the solver, encode, decode, views | `Words`; `Record` through `IsRecord` |
| `LayoutProofs` | theorems about `Layout` | `Layout` |
| `Tables` | the segment table of a byte-addressed message beside the cursor that decodes it; the validator's cursor, `fixed_bits`, `arms_fit` | |
| `TablesProofs` | theorems about `Tables` | `Tables` |
| `BitMessage` | bit-addressed messages: validation, encode with its patched flags, decode, table | stands on `BitStream`'s promise |
| `Catalogue` | enums, newtypes, `EnumDef`s and dispatches: which variant a number reaches and which number a variant writes | |
| `BitMessageProofs` | theorems about `BitMessage` | `BitMessage` |
| `CatalogueProofs` | theorems about `Catalogue` | `Catalogue` |
| `Attributes` | the derive of a byte-addressed message, from attributes to segments and errors | |
| `AttributesProofs` | theorems about `Attributes` | `Attributes` |
| `MCBitCursor`, `MCNumbers`, `MCRecursion`, `MCLayout`, `MCBitMessage`, `MCCatalogue`, `MCAttributes` | their constants for TLC | |

### Frame

A behaviour is one `Decoder<S, N>`; the protocol `S` is chosen in `Init`. The trait's
constants are functions on `Protocols` and its methods are operator constants, so the
proofs hold for every protocol that satisfies the const assertions of `Decoder::new`
(`ProtocolAssumption`) and whose methods answer for the arguments `parse` gives them
(`MethodAssumption`). `Push` is `push`; `PopCall` is `pop` up to its loop; `PopDesync`,
`PopIncomplete` and `PopFrame` are the three arms of the loop. `stream`, `log`,
`refused` and `due` are history variables: all the bytes taken, the pieces they were
cut into, the bytes refused, and when the last `need` says a frame may be complete.
The loops of `parse` are the least offset with a candidate (`Starts`, `Least`).

A decoder that is fed in pieces can only be right if the protocol does not change its
mind, and two assumptions say what `FrameSpec` asks of it. `ContractAssumption`:
`candidate` reads `CANDIDATE_LEN` bytes, `measure`'s answer stands when more bytes
arrive, and while it says `More` no frame is whole. That is what "The frame is this many
bytes long, whether or not they have all arrived" and "Not enough bytes yet"
(`frame.rs:10`) mean. `NeedAssumption`: the number in `More` is "a lower bound on the
bytes still needed; zero counts as one", and `MAX_FRAME` "the largest frame this protocol
can send", so the bytes needed never go past it. Both speak of strings of at most
`MaxOffered` bytes, which is any number. The protocols of `MCFrame` satisfy them, which
TLC checks.

Fairness is `WF(PopTurn)`: a call that has begun runs to its return. Nothing obliges a
caller to call.

### Walk

A behaviour takes one message definition, one value and one buffer, asks the generator
(`Generate`), encodes, perhaps damages one byte, and decodes. Every segment is one
encode step and one decode step; the generated code runs straight through, so a step is
a segment's whole code with its seeks, stamps and marks, and `Wrote` and `Read` hold
the ways out of it (overflow, panic, parse error). Late stamps and late checks are
steps of their own after the last segment, in declaration order.

Abstraction: every scalar, element, character, record and checksum is one byte, a
variable-length number one or two, and a switch's arm as many as it declares. A byte is
a number and, for a checksum, the bytes it was computed over: an ideal checksum, so that
a check that passes by accident is never what a run shows. The first half of the module is
the generator itself: `Places`, `Order` and `Derivations` are the tables it works from,
`RunsPast`, `Excises` and `CoversLaterPatch` decide how a checksum is stamped, and
`CoverageOk`, `Stampable`, `SwitchOk`, `Known`, `ParamMay`, `Clashes` and `HasSlot` are
what it refuses.

A `Repeat` is a run of any count of the model, or a text: `count` says where its number
comes from, `RunLength` is decode's reading of it, `RunStates` what encode states or
asserts, and `AffineInverse` and `SideOf` the number encode derives, `Unstatable` where
it panics. A `Switch` whose length a field states is encoded once by `MeasureArm` before
anything else, rewound, and encoded again by `EncodeSwitch`. A parameter (`Needs`) is a
number both sides are given: encode asserts a run against it (`Asserted`, `Agrees`)
instead of stating it. A `nested` run is a message of one run whose count the holder
passes: encode passes the number it holds, decode the number it read.

Five conditions on definitions appear in properties, each for something the generator
accepts although encode and decode do not agree on it (see below). `Final`: every
checksum is computed after every byte it covers was last written. `SharedAgree`: segments
that state one field in the same way, the one kind of sharing `Clashes` lets pass, agree
on it for this value (all other sharing is refused, and a refusal that is missed violates
the property). `LengthSelects`: an arm chosen by the body's length is as long as its
number says and ends the body; the derive sees to the latter (`lower.rs:62`), the
validation of a model built by hand does not. `RemainingIsLast`: an optional field that is there when
bytes are left is the last one. `HolderAgrees`: a parameter sizes no capped or borrowed
run and states no stride, and no computed field is passed to a nested message. They are
as narrow as the runs allow: leaving any of them out violates `RoundTripSettled`.
`FilledOnce` alone asks for more of a shared field, that there is none (`Unshared`), for
each of its segments fills it in.

Left out: `#[range]` and the placeholders that satisfy one, flags that are `bool`s (and
so duplicates of one in `Clashes`), scaled and signed strides (two that state one field
clash there; here all are one byte), text a codec rejects, nested messages other than that run, elements wider than a byte, and
arithmetic past `usize::MAX`.

### Tables

One step is one segment: the generator's row for it (`Pushed`, `Advanced`), the
validator's cursor, and decode's step over a wire chosen freely, so that the row can be
compared with the cursor. Records include one of a fixed size that may be absent and one
whose size is padded. `FixedBits` and `ArmFits` are read off the table. `Segments`
is every form of segment with every way the wire or the model sizes it. Whatever a wire
can do to a segment it may do: nothing here depends on encode.

### BitMessage

`PushRow` is the generator's loop over the fields: a row, and what it leaves of the count
for the next one. The code it generates is then called with a value or with a wire
(`Called`). Encode writes field by field, marks where each flag field went, and patches
the flags when it knows which fields there were (`PatchFlags`); decode
reads field by field, the presence bits and flags first. A value is the set of its bits
in a `u64`, sign-extended when signed. A codec's code has a bit at least, so the error of
a variable-length read that took none (`bits.rs:380`) does not occur. The cursor is a sequence of bits, which is what
`BitCursor` is shown to implement.

### Catalogue

`ListVariant`, `OpenVariant`, `RefuseVariant` and `EndVariants` are the loop over the
variants of an enum or a dispatch, with the number the next variant counts on from;
`ValidateEnum` and `CheckNewtype` the other two kinds. An accepted item then decodes any
bits or is given any value (`FromRaw`, `Hold`), encodes it (`Encode`, or `Stamp` for a
number encode derives), and decodes that again. Widths are sizes: the number of values.

### Attributes

`ReadAttribute` fills a slot, `ParseField` is `msg_field` with `field_body` and
`optional`, `LowerFixed` and `LowerSegment` the lowering with the block that is flushed
before every other segment, `CheckCoverage` and `CheckPredicates` the derive's checks
and `Validate` the model's, with `Blamed` the derive's search for the field to point at.
A type is an option or not of a run of elements; an attribute a word with the fields or
the parameter it names and a number.

`Validate` refuses what the model's validation refuses, in its order: a message that
borrows its input and has parameters (`Borrows`, `Needs`); segment by segment what
follows an open end, a position stated with `#[at]` that is not the cursor's or stands
after bytes only the wire counts (`Misplaced`, `Unplaced`), fixed bytes at an offset
(`BytesAtOffset`), a reference to what is not there yet or is no number (`Resolved`), a
parameter that encode would have to write (`WrittenBack`) and a range; and then checksums
that cover each other (`Stampable`). Only some of these complaints name a field.

Positions are in bytes, and an array has two elements. Left out: references into a nested
layout, attributes of the struct itself, and what the code generator refuses after the
validation, which is always an error at the struct (`Clashes` of `Walk`).

### BitCursor

A behaviour is one `BitWriter` made over a buffer that may already hold bytes, and a
`BitReader` over the bytes written since, both of one bit order. A call (`WriteCall`,
`PatchCall`, `ReadCall`) sets up the local variables and `WriteChunk`, `PatchChunk` and
`ReadChunk` are the turns of the three loops; `WriteOverflow` is the refusal of a byte
with the rewind and the mask that undo the field. A byte is a function from bit numbers
to 0 or 1, so the shifts and masks of the code are written bit by bit and a chunk that left
its byte would be no function of the module.

The refinement mapping to `BitStream` hides the middle of a call: while a write runs
the stream still ends where the write began, so that the undo is a stutter; while a
patch runs the stream shows the patched bits already; while a read runs the position is
where it began. Only calls are bounded (`MaxCalls`), so the states in the middle of
every one of them are reached.

### Numbers

A behaviour chooses a coding and a number, encodes it into a buffer of some size, and
decodes the result with other bytes behind it; or decodes any input. One turn of a loop
of the code is one step. `Width` is the width of the number (64 in the code) and `Group`
the payload bits of a byte (7): 7 and 2 keep what makes the code's last byte special, a
last group that holds one bit (64 = 9 * 7 + 1, 7 = 3 * 2 + 1). Arithmetic is on
`0 .. 2^Width - 1`, with shifts that drop bits. The reference definitions
(`Reference`) work over the integers and know nothing of shifts.

### Recursion

An item is a message with one body or a choice with a body for each arm; a body is a
sequence of segments, reduced to what `reference.rs` asks of one. `Turn` is a turn of
the inner loop of `least_fixpoint`, `Again` its next pass, `EndsSettled`, `SizedSettled`
and `OpenSettled` what `graph.rs` does with the three results; `Reach` is a turn of the
outer loop of the transitive closure in `open_end_cycles`; `Lower` validates an item and
generates it, keeping only the terms of its `OPEN_ENDED`. `Compile` is external: rustc
refuses constants that wait for each other and the generated assertions that fail.
`Decode`, `Enter`, `Leave` and `TooDeep` are the chain of nested decode calls open at
one time on an accepted module, with the `depth` each was given.

Each item's validation comes after the graph checks, as in `emit_source`, so
`RefusedAlone`, the check of a single item that a derive makes without the graph, never
has anything left to refuse here. The derive itself, which sees one item at a time, is
not modelled.

What the questions mean is stated without a fixpoint, by sets that lead back into
themselves: items are endless when some of them form a `Trap`, infinite when some are
`Inline` in one another. A choice of no arms and no fallback has no wire either; it is
not a trap but `Invalid`, for that is the reason the code refuses it.

Fairness is `WF(Next)`: the generator and the decoder run straight through, and `Leave`
is always possible for a decoder that has not refused.

### Layout

A behaviour takes one declaration (`Derive` accepts it with its fields placed, or
refuses it), then encodes a value or receives bytes, and edits the bytes through the
view: `SetField` is a setter, `SealView` is `seal`. `Solves`, `Resolves`, `Viewless` and
`CheckLayout` are the reasons to refuse. Getters, `decode` and `verify` change nothing
and are the operators `Get`, `Decoded` and `Verify`.

`Access` of the code is the heart of it. `InPlace` picks the bytes a field is read from
and written to in place: a whole scalar, a nested layout, a word of words mode, or a
window, with its register, shift, mask and seventeenth byte. `Hoisted` layouts are
decoded and encoded through one local word instead (`Read`, `StoreLocal`), a register
or a `u128`, while their view still uses windows; so the same field has two accesses
that must agree. A word is the set of the positions of its ones (`Words`), which makes
`|`, `&` and shifts set operations, and a byte has `Byte` bits.

`DeclarationAssumption` says what a declaration is once it is parsed (`Declarable`): the
kinds of field `plan_word`, `plan_words` and `plan_bytes` make, positive widths within
their types, whole bytes or words where the mode has them.

The checksum algorithm is stood for by the exclusive or of the covered bytes. Left out:
`#[at]` (a position restated), overlays, strict `bool`s, `from_bits` and `to_bits`,
nested layouts whose own decode can fail, and prefixes wider than a register.

## Runs

| Run | Shows | Bounds |
|---|---|---|
| `frame` | no byte lost or repeated, no true frame missed, chunks do not matter without a scan, exact saturating counters, `Framing` implemented, `pop` returns | bytes 0..3, capacity 4, chunks of 1 to 3 bytes, 5 bytes offered, counters saturate at 2 |
| `walk` | decode reads what encode wrote; only reserved zeros are overwritten, once; every one-byte change under a checksum is refused; overflow is exact; decode never reads past the message; `stampable` refuses exactly the cycles | up to four segments, collections of 0 to 2 elements, arms of 0 to 2 bytes, scales to 2, caps of 1, alignment to 3, one byte already in the buffer, buffers of 3, 6 and 20 bytes, numbers up to 4; damage in definitions of up to three segments and in those of four that end in a checksum over all before it |
| `tables` | every row is where decode reads it; an accepted `#[at]` is the cursor; the fixed prefix is fixed and a refused arm never fits | three segments of any form, sizes of 1 and 2 bytes, wires that give 0 or 3 bytes and the offset 4, alignment 2 |
| `bit_message` | a message is read back whole with its flags, is Short when cut, and fits or overflows exactly; rows are where decode reads; a wire that decodes is written back bit for bit | 16 messages, bytes of 4 bits, a `u64` of 6, fields as wide as that, every wire of two bytes, buffers of 1 and 3 |
| `catalogue` | every bit pattern is kept by decode and encode; a value that does not fit is refused and never cut; a number stands for the variant Rust numbers with it | fields of 2, 4 and 16 values in a `u64` of 16, every enum of up to four variants, `EnumDef`s from -2 on, dispatches of up to three arms |
| `attributes` | an accepted struct's segments show every attribute and nothing else, in order; a refusal points at a field unless it is one of the five listed below | fields of 33 types with up to four of 36 attributes, and mixes of up to four fields, with parameters, stated positions and checksums over checksums among them |
| `bit_cursor` | the chunked cursors are a sequence of bits, a refused write leaves no trace, bits past the cursor are zero, bytes held before are untouched | bytes of 3 bits, values of 5, buffers of 2 and 4 bytes with 0 or 1 held, positions to 13, three calls |
| `numbers` | decode is what the coding means, with the widest numbers and every malformed end; encode inverts it, is shortest, and overflows only when it must | numbers of 7 bits in groups of 2, buffers of 0 to 5 bytes; every input of up to 3 bytes, and of 4 and 5 with at most one byte after the first that ends a number |
| `recursion` | the three fixpoints are exact whatever the order of the items, the constants resolve and are right, nothing follows an open end, the stack is bounded, the generator and every chain of calls end | three items: rings of messages, a message with two choices, last records and arms at an offset and runs that never are empty; a depth limit of 2 |
| `walk_checks` (violation) | an accepted definition whose message its own decode refuses | as `walk`, two checksums, undamaged, buffers of 20 bytes, numbers up to 7 |
| `layout` | every accepted layout is a record of independent fields to encode, decode, setters and `seal`; a view reads what decode reads and verifies what decode checks; `FIELDS` is where the fields are on the wire, and under `endian = be, order = msb` that is the numbering of a standard's table | 126 declarations, bytes of 3 bits, a `u64` of 4 bytes and a `u128` of 8, four bit patterns an element, two setters |
| `layout_overlap` (violation) | two fields of an accepted layout share a wire byte | one declaration |

Why the bounds are enough. In `frame` a capacity of 4 equals every `MAX_FRAME`, so the
full-buffer answers occur; 5 bytes leave room for a damaged frame with a true one inside
it and for bytes refused; counters that saturate at 2 saturate. In `walk` a payload, two
checksums and a tail in every order give every relative position of a reserved field,
its filler, the checksum and the two ends of its range; a collection of two elements
tells one element from the length. The number bound of 4 makes
positions too wide for their field, and the buffer of 3 or 6 bytes overflows in every
segment. The runs and switches stand last, before a tail, before a checksum over all and
after one over themselves, and `Held = 3` is a number that agrees with some parameters
and counts and not with others.

In `tables` a row depends on what came before it only through the last row of unknown
width and the bits since, so three segments hold every case; `TablesProofs` says so for
any number. In `bit_message` bytes of four bits let a field end in each bit of one, and
each way of gating a field occurs with each kind of field. In `catalogue` a field of two
or four values can be listed whole by the four variants, which is when the last arm
takes the rest. In `attributes` a field is checked with every attribute against every
type, and the order of fields matters only to references, blocks and ranges, which short
mixes of segments reach.

In `layout` bytes of three bits let a field start, end and cross at every bit of a byte;
containers of 1 to 10 bytes are a register with and without unused bytes, a `u128`, and
wider than either, with a field that takes one byte more than a register holds. The four
patterns are zeros, ones, and two that differ from their mirror image. Twenty-three of the
declarations are there to be refused, each for one reason; the word of words mode is two
bytes as in the code.

In `bit_cursor` a field of five bits lies inside a byte, fills one or spans three, and a
field overflows after zero, one or two of its bytes were pushed; three calls are enough
for a refused write between two others, and for a write, a patch of it and a read. In
`numbers` five bytes are one more than the widest number takes. In `recursion` three
items allow cycles of one, two and three, a cycle with a tail into it or out of it, and
every order of declaration; a depth limit of 2 lets a switch stand between any two
descents.

Deadlock is checked in `frame`, where a decoder can always be popped. In the other runs
the calls return and the behaviour ends (`bit_cursor` after `MaxCalls` calls, `tables`
after `MaxSegments` segments), so it is not.

Fairness is stated where something must end: `pop` (`PopReturns`) and the generator's
fixpoints with the chain of decode calls (`Settles`). The other modules' code runs
straight through once per call and has no loop that could fail to end but over a list
that shrinks.

## Theorems

### FrameProofs

`TypeCorrect`, `Accounting` and `Unstalled` are invariants proved through
`IInv == TypeOK /\ BytesAccounted /\ NeverStalls /\ NothingSpent`. `NothingSpent`
(inside `pop` the returned frame has been released) is the strengthening they need: a
turn of `pop`'s loop cuts at the buffer's start, which is the end of the last piece only
when nothing is spent. `NeverStalls` needs what `parse` answers on a full buffer, so
everything rests on `ParseAnswer`: for any protocol and any bytes, a discard is between
1 and the buffer's length, a frame is within `HEADER_LEN..MAX_FRAME` and passed
`verify` or is handed over as corrupt under `Consume`, and an `Incomplete` answer comes
only on fewer bytes than the capacity. `Refinement` shows the steps map to `Framing`'s:
a push to `Arrive`, a turn that cuts to `Cut`, the rest to stutters. `StatsAreExact` goes
piece by piece: one more piece is one more member of the sets the counters count, and the
bytes it drops are new because the pieces come in order (`Ordered`). For these the
assumptions are `ProtocolAssumption`, `ChunksAssumption` and `MethodAssumption`; nothing
is assumed of `verify`, `candidate` or `measure` but their types.

`Lossless` and `ChunkingIsInvisible` compare what was decided when a part of the stream
had arrived with what the whole stream says, and rest on `ContractAssumption`. The
argument is about positions: each position of the stream is `Barren` (no frame begins
there, and none ever will), `Fruitful` (a frame is whole and `parse` returns it) or still
open, and a position that is one of the first two stays it when bytes arrive
(`PositionsStand`). `HistoryInv` judges every piece by it: a returned frame is fruitful at
its start with its length and verdict (`Kept`), and discarded bytes are barren (`Firm`) or
were given up by the scan for the verified frame behind them (`GivenUp`). `PieceIs` is the
judgement `parse` makes on the buffer, `JudgedCut` carries it to the stream, `JudgedStands`
through a push. The last piece needs care: between the turn that gives bytes up and the
one that returns the frame behind them, that frame is not in the history yet, which is why
`GivenUp` keeps `pc` there. `Lossless` follows since a true frame is fruitful.
`ChunkingIsInvisible` is the same judgement read as one pass over the whole stream:
`FramesInOne` is a recursion from the front, so the proof shows that it has a value at
every position (`CutExists`), that it skips barren positions (`FirmSkips`) and takes
fruitful ones (`FruitfulCuts`), and then goes backwards over the pieces.

`NeedIsHonest` is an action property: until the bytes an `Incomplete` answer asked for are
there, `parse` goes on answering `Incomplete` (`NeedHolds`, from `NeedAssumption`), so
nothing is cut and the buffer still starts with what was there at the time (`DueInv`).

### TablesProofs

`TablesAreWire`, `StatedPositionsAreWire` and `TablesAreTyped`: for a message of any
number of segments of any sizes, and any wire, each row stands where decode read its
field, and an accepted `#[at]` is the cursor. `TableIsWire` speaks of the rows pushed so
far and is not inductive, for the next row's start is computed from `Rows::at` and
`Rows::from`, which nothing in it mentions. The strengthening is
`IInv == TypeOK /\ NextIsCursor /\ PosIsAt /\ TableIsWire`: the cursor is `table.at` bits
after the end of the last row of unknown width, and the validator knows its position
exactly while there is no such row. `SegmentShape` collects what all segments have in
common, `OwnRowIsWire` is the new row, `PushKeeps` the rows before it. The assumptions
are the types of the constants.

`PrefixesAreExact` and `ArmsFitExactly`, in the same module: what `fixed_bits` and `arms_fit` read off a
table, the bytes decode consumed agree with. Where a row is is not enough for that: rows
at constant bits must also follow one another without a gap and be fixed up to the last
of them, and decode must never have gone back over them. That is `Ordered`, with
`PInv == IInv /\ Ordered`: `InRow` says it of the rows that are there, `Prefix` that the
fixed ones come first, and `FixedSoFar` where decode stands while all of them are.
`FixedBitsStops` computes the loop of `fixed_bits` from the length of that prefix, and
`FixedBitsMet` finds the byte of the wire it stands for.

### BitMessageProofs

`TableOfBitsIsRead`: for every message that is accepted, every codec and every wire, each
row of the table starts at the bit where decode read its field. The table is finished
before the code it describes runs, so the invariant has two halves. `Follow` says each
row was made of what the rows before it left of the count; `CursorIsCount` that decode's
cursor is where the count before its field says, counted from the end of the last field
of unknown width. `RowsGrow` extends the first by a row, `DecodeFieldKeeps` the second by
a field; `FieldEnds` is what the two must agree on, the width of a field that is always
there.

`RoundTripHolds` and `WireIsKeptHolds`: for every accepted message, codec, value, wire and
room, decode restores what encode wrote, a cut message is `Short`, overflow is exact, and
a wire that decodes is encoded without a panic and, where every gate is one bit, bit for
bit as it was. What `RoundTrip` says of the end is not inductive, for it says nothing of
the bits on the way. `WireInv` adds them, one conjunct per phase. Everything is told by
where the fields end (`Ends`), which the value decides alone, and by what of a field
`Lies` on a string at a position. `Encoded` puts the fields written so far at their ends.
The patch moves nothing and makes a flag what the gated fields are (`Carried`): it is a
map over all the bits, and that one field's bits are not another's is the order of the
ends (`PatchWrites`); that two gates of one flag do not disturb each other is what
`bit_alone` is for (`CarriedIs`). Decoding again, `Restored` follows: the gate says what
the value is (`GatedIs`), since a flag comes back (`Back`) with the bits it was sent with
(`BackIs`); a code stands where it was written and no other does, the codes being
prefix-free (`StandsOnce`); and a value that fits its field is sign-extended back to
itself (`Sound`). Short follows as well: a field whose bits are all there is read
(`AgainReads`). For `WireIsKept`, `First` traces each field decode makes to its place on
somebody else's wire, `TracedEnds` finds these places to be the ends of the value decoded,
and so `FromWire` says what encode will write; a flag whose gates are single bits and
agree with its fields is patched to itself (`CarriedIsKept`).

Assumed are `BitMessageAssumption`'s types and that no code is empty or a prefix of
another, which is what a `BitCodec` must be for its reader to know where it ends (a codec
whose decode takes no bit is refused as malformed, `bits.rs:380`).

### CatalogueProofs

`RawsReturn` and `HeldReturns`: for every width, integer type and list of variants, every
bit pattern is decoded to a value that is written as those bits, and every value a
program can hold is written as bits that are read back as it, or refused. The generated
match has no arm for what is left over: its last arm takes the rest, whatever that is.
What makes it right is what the loop over the variants has established by then, the
invariant `IInv`: every value is listed once, under its own variant (`Forward`: the loop
never comes back to one), inside the field's range, and where no variant takes the
others, as many are listed as the field has values. By the pigeonhole principle
(`NoneIsMissing`) none is missing, so the rest is one variant. `HInv` adds what a program
holds (`HeldAs`) and what became of it on the way (`Travels`). Both rest on `RawReturns`,
the round trip of one bit pattern. The assumptions are `CatalogueAssumption`: types, a
representation at least as wide as its field, and a fallback declared last.

`DiscriminantsAreWire`: a variant without a `#[value]` is listed under the number Rust
gives it, for every list of variants. `CountsOn` adds what `codec_key` carries from one
variant to the next: the number counted on from is one past Rust's number of the variant
before, while there is one; a `#[value]` ends it. Rust's numbering is defined by
recursion over the list, and `NumberingExists` shows that there is such a function.

### BitCursorProofs

`HeldBytesAreKept`: for every width of a byte and of a value, every size of buffer and
every sequence of calls, nothing but a cursor's own bits is touched. The invariant adds
to `PadIsZero` what the running call may still do: `Writing` says that what an undo
returns to is in the buffer and not before the writer, `Patching` that what is left to
patch ends before the cursor. `PlacedIsWithin` is about the shifts and masks: a chunk put
down at a bit has no ones past its own end, in either bit order. The assumptions are the
types of `CursorAssumption`.

`CursorsImplementStream`: the refinement that `bit_cursor` checks on bytes of three bits,
for a byte and a value of any width. A position is split once into a byte and a bit of it
(`Coordinates`, `Unique`), and after that no step does arithmetic on shifts: a chunk put
down in a byte is the next bits of its field and nothing beside them (`PlacedIsField`,
`HoleIs`), so an overwritten byte changes those bits of the buffer alone (`PutBits`).
The invariant adds to that one what a running call has done: `Writes`
and `Patches` say that a prefix of the field is where the field belongs, `Reads` that the
value collected so far is the bits read so far, `Fits` that the buffer is within its
size. `BitStream`'s calls happen when a write returns or is refused, when a patch begins
and when a read returns; every other step is a stutter. A refusal is right because the
buffer is then full to the byte with bits of the field to go (`WriteOverflowRefines`),
and an undo gives back the earlier bits because the mask keeps them (`KeptKeeps`). The
zeros a reader may take past the cursor are those that `PadIsZero` says are there
(`PadBits`). One assumption matters: a buffer has fewer bits than a position can count
(`CursorAssumption`), without which a position could saturate inside the buffer.

### RecursionProofs

`EndlessDecided`, `InfiniteDecided`, `ConstantsAreResolved`, `OpenEndsDecided` and
`StackIsBounded`: for modules of any number of items declared in any order, and any depth
limit. `Found` is why a refusal's absence can
be trusted: no item of a trap is ever added to the set (`TrapIsNotAdded`), so when
all are in it there is no trap. `Pass` is why a refusal can be: in a pass that has added
nothing so far, every item the loop has gone by and left out does not hold, and when the
loop is done what was left out is a trap (`RestIsTrap`). `Inline` goes the same way. The
answers outlive the loops, and the bound on the stack uses them: an accepted module
has no types inline in one another, so the choices under a switch are fewer than those
under the item it is in (`UnderShrinks`), and `Spent` counts the calls still to come,
`Rank` at this depth and `Level` for each depth left.

The open ends are the third fixpoint and more: the closure of "the last segment refers
to", the literals written for what lies on a cycle of it, and rustc's evaluation of the
constants that remain, which all have to agree. `OpenInv` says what each has established.
The closure is transitive when its loop ends, so an item that is on no cycle reaches
strictly fewer items than the ones that lead to it, and by induction on that number its
constant has a value (`ConstantsAreResolved`). That the value is the fixpoint's goes the
same way, and the fixpoint is what reads to the end by the argument for the other two.
Assumed are the types of `RecursionAssumption`, that a message has one body, and that
names are looked up with their kind (`Resolved`), as `graph.rs` does.

### AttributesProofs

`NothingIsIgnored` and `RefusedInPlaceHolds`: for structs of any number of fields of any
types with any attributes. `field_body` is a tree of functions that each refuse some
slots and take others, and what none of them looks at would be lost in silence. So there
is a lemma for each (`BorrowedFaithful` to `FixedFaithful`): a body that is not refused
is `Faithful`, it shows every slot that is filled and no attribute besides. On the way up
the tree a caller owes its callee the slots it has refused already, which is where a
stride beside `#[text]`, say, is accounted for; `MsgFieldFaithful` is the root, with the
three kinds of option. The inductive invariant `DeriveInv` carries this to the end: the
slots are what has been read (`ReadInto`), each body is faithful to its field's slots
(`Parsed`), and the segments and the block that is not flushed yet hold the fields so far
in order, each segment aligned as its field is (`Laid`, `Gathered`). For
`RefusedInPlace`, fields come in the order of the struct, so one that follows an open end
has a predecessor that is one (`OnlyAscends`); what a segment refers to is what some field
names (`ReferencesSited`), so a reference that does not resolve is found by the derive's
own search (`BlamedReference`); and a range that `check_coverage` passed has places at
both ends (`PlacesFound`). `BlamedField` puts these together: a segment the validation
refuses is blamed on a field, or is one of the exceptions. The exceptions speak of the
struct and its bodies, which an error leaves as they are (`ExceptionsKept`,
`StampableKept`). Assumed is `AttributesAssumption`: what `Written` says of attributes, a
struct of one field at least, and parameters named unlike fields.

### LayoutProofs

`ViewAndDecodeAgree`: for every width of a byte and of a register, every layout the derive
accepts and any bytes, a view reads what decode reads and finds the fault decode finds
first. The two share no access: decode shifts one register loaded from all the bytes, a
view loads a window for each field, padded on one side by the byte order, perhaps with a
last byte beside a `u128`. What they share is the wire. `Spot` is the wire bit that bit
`x` of an access is; `LoadReads` and `StoreWrites` say that a load reads those bits and
that a store writes them and leaves every other bit as it was, for every register, shift,
width and byte order; and `WindowIs` and `LocalWordIs` say that a window and the local
word have the same spots, those of the container's numbering. What is left is that `solve`
puts a field inside the record: fields are declared one after another (`DeclaredIs`,
`DeclaredOrder`) and `msb` mirrors one within its region (`PhysicalIs`). The invariant
`LayoutInv` says that a record's layout is an accepted declaration and that the bytes of
a hoisted one are as many as its size, which a setter and `seal` must keep. Assumed are
the sizes of the registers and `DeclarationAssumption`.

`TheTableIsTheWire`: the rows of `FIELDS` are, under the numbering of the layout
(`WireBit`), the wire bits that a write of the field changes; and under `endian = be,
order = msb` the bits of a packed field are where a standard's table numbers them. A
write knows nothing of the numbering: `WrittenIs` says which spots the access of an
element writes, and `WholeField`, `WordField` and `PackedField` which blocks of bytes,
bits of a word or bits of the register those are in every mode. `TouchedIs` adds the
elements up to the declared bits, numbered; `RowsCover` says that the rows, which are
merged or cut by the kind of field, cover the same bits; `NetworkIs` is the mirror of
`msb` meeting the mirror of the bytes.

`AcceptedFieldsAreApart`: no two fields of an accepted layout share a bit of the wire.
`CheckLayout` counts one row at every bit, so no two rows have a bit in common (`Apart`),
and `WireBit` sends no two bits to one place (`WireBitDiffers`).

Both assume `FillsWords` of the accepted declarations: under `words` and `endian = be`, an
array of bytes fills its words. This leaves out exactly what the run `layout_overlap`
exhibits, a defect of the code and no restriction of the derive: without it both are
false. So that finding is the only way in which an accepted layout of the model has
overlapping fields or a wrong table. The declarations of the run `layout` meet it, with
one of an array in big-endian words among them.

### What is only model-checked

`PopReturns` and `Settles`, liveness properties;
all of `Walk`; and of `Layout` `StampsPass` and `IsRecord`.
`Numbers` stays with TLC: it uses the library's bitwise operators, which the provers do
not know, and its references compute by recursion over the input.

The provers cannot apply the library's induction rules, which take a predicate as a
parameter. Where a proof needs induction over data it argues by least counterexample:
`NatLeast` says that a nonempty set of naturals has a least element, and that a function
defined by recursion is the one its definition describes is shown by exhibiting that one
first (`FlattenedInOrder`, `EndsExist`, `NumberingExists`).

## What disagrees

- A checksum that covers another, late checksum may be stamped before it
  (`walk_checks`): lateness looks at reserved fields, not at late checksums, and late
  stamps run in declaration order.
- In words mode under `endian = be` a byte array that shares its word with a bit field is
  accepted, and the two are the same wire byte (`layout_overlap`): `#[bits(8)] a: u8`
  and `b: [u8; 1]` in `words = 1`. The bit field goes through the big-endian word, the
  array to the byte of its declared position.

What the passing runs state as exact exceptions, all of them accepted by the generator:

- `Final` (`Walk`): `covers_a_later_patch` also misses reserved fields of nested layouts
  and fields filled by optional records, which have no place in wire order.
- `SharedAgree`: two collections counted by one field are accepted and their lengths never
  compared. Encode states the number of one of them, and decode reads both by it. When
  they agree both are read back.
- `LengthSelects`: an arm chosen by the length of the body need not be that long; encode
  writes it and decode reads another arm. In a model built by hand such a switch need not
  be last either, and decode then takes the bytes after it for the arm's.
- `RemainingIsLast`: "Must be the last field." (`model/message.rs:96`) is checked only
  against segments that are sized by the wire, so two such fields may follow each other,
  and a partial tail reads as absent.
- `HolderAgrees`: encode compares a run with the parameter that sizes it, but not a
  borrowed one (`repeat.rs:651`), nor the caps of what a parameter sizes, nor a stride
  that a parameter states; and `#[with]` of a field that encode computes passes the
  number the caller left in it (`value.rs:236`), while decode passes the one on the wire.
- `ConstantsResolve` (`Recursion`): a record at an offset that ends a body forwards its
  `OPEN_ENDED`, but the search for cycles of such constants does not follow it
  (`reference.rs:73`), so two messages that end in each other, one of them at an offset,
  generate constants that rustc refuses. `OpenEndedIsExact`: for the same reason the end
  of an item on such a cycle can be overlooked (`EndOverlooked`): a choice whose cycle is
  written as a literal gets `false` although an arm that ends in a record at an offset
  reads to the end, and a field after it is accepted.
- `EndlessIsExact`: a run that ends with a marked element always holds that element, and
  of two options on the two senses of one flag one is always there, but the search for
  endless recursion counts each of them as skippable.
- `NothingIgnored` (`Attributes`): `#[range]` and `#[magic]` on a run that `#[until]` ends
  are dropped (`LosesClaim`): whether a claim stands beside a count is asked before
  `#[until]` is made the count (`field.rs:193`, `field.rs:316`).
- `RefusedInPlace` (`Attributes`): the derive reports "codegen errors pointed at the
  attribute that caused them" (`message/validate.rs:1`), but `invalid` knows where to point
  for three kinds of error, and the rest is at the struct. That is right for parameters
  on a message that borrows its input (`validate/message.rs:30`) and for checksums that
  cover each other (`validate/message.rs:489`), which concern the struct as a whole. It
  also happens for a field that stands elsewhere than its `#[at]`, for fixed bytes at an
  offset (`#[seek(off)] b: &[u8; 2]`, `validate/message.rs:316`) and for a parameter that
  encode would have to write back (`names.rs:66`), which are of one field. For a reference
  that does not resolve, `reference_site` points at the first field that names the
  target, which need not be the one whose reference fails.
- `EveryRawReturns` (`Catalogue`, `SignLeaves`): the signed representation of an
  `EnumDef` is sign-extended past its field's bits by `to_raw`; `HeldOrRefused`
  (`CutsSign`): a signed newtype narrower than its carrier is masked.

Also seen while modelling. `Parsed::Incomplete`'s `need` is documented as a lower bound
(`frame.rs:142`), and is none for a protocol with `SCAN_PAST_INCOMPLETE`, where a
shorter frame inside the incomplete one may complete first. `NeedIsLowerBoundWithoutScan` is stated
for the other protocols. `complete_frame_beyond` does not check the body range
(`frame.rs:231`) that `parse` will refuse, so a scan may give up an incomplete frame for a
verified one inside it that is then a `BadHeader`, and the true frame is lost for nothing:
the exception `NoFrameLost` makes. Not disagreements: with the scan the frames returned depend on the chunks by design, so
`ChunkingDoesNotMatter` is stated for the other protocols. An `EnumDef` may have
a `bool` representation, and the code generated for it casts to `bool`; `validate_dispatch` accepts
ids that `derive(Dispatch)` refuses; a text, `var` or `message` collection is always a
`Vec`, also where a boxed slice was declared; `#[at]` on a sought segment is checked
against the cursor before the seek; `to_i64` of a 64-bit codec wraps where its doc says it
saturates (`bound.rs:25`); and a choice's numbers are cast to `i64`.

## Not modelled

- The table audit (`audit.rs`): a second reading of the tables `Tables` and `Layout`
  generate.
- Bit groups and `walk/fixed.rs`'s layouts: the accesses of `Layout` lowered a second
  time.
- The CRC and sum algorithms: arithmetic of a library's kind; every model uses an ideal
  checksum or an exclusive or.
- What parses tokens or writes them: the syntax inside attributes, containers'
  attributes, `derive(Choice)`, `emit*`, source formatting.
- `Committed` (`emit/committed.rs`), which compares generated files with those on disk: an
  `update` stops at the first filesystem error, and the next one compares every file
  again; `check` takes an owned directory it cannot read as one without extra files, and
  says nothing of the other directories' then.
- Encode of a value nested deeper than the limit of decode (`message.rs:6`): encode has no
  limit.

## Plan

Done, in this order: `Frame` with its proofs, `Walk`, the bit cursor, the number
codings, the references between items, the layouts; then `Tables` with its proofs,
bit-addressed messages, catalogues, the derive of messages, and `Walk`'s switches,
counts, parameters and values; then the proofs about `Recursion`'s open ends, the derive
of messages, the bits of a message, the numbers of an enum's variants, the decoder's
stream, and the views, tables and overlaps of a layout. Next:

1. Proofs: `Walk`'s `OverflowIsExact`; `Layout`'s `IsRecord` from the places its accesses
   write, which `LayoutProofs` has.
2. The table audit against `Tables` and `Layout`; bit groups and the second lowering of
   layouts against `Layout`; nested messages in `Walk` through a second body.
