----------------------------- MODULE BitCursor -----------------------------
(***************************************************************************)
(* The bit cursors of layline-core (bits.rs) over a fixed Buffer            *)
(* (buffer.rs).  BitWriter appends a field chunk by chunk, at most one byte *)
(* to a chunk, and undoes the whole field when the buffer refuses a byte;   *)
(* patch overwrites bits already written; BitReader collects a field chunk  *)
(* by chunk.  A turn of one of the three loops is a step.                   *)
(*                                                                         *)
(* A byte is a function from 0 .. W - 1 to {0, 1}, bit 0 the lowest; a      *)
(* value is one from 0 .. MaxBits - 1.  Shifts, masks and ors are written   *)
(* on them bit by bit.                                                      *)
(***************************************************************************)
EXTENDS Integers, Sequences

CONSTANTS
  W,         \* bits of a byte (8)
  MaxBits,   \* bits of a u64 (64)
  Values,    \* the values a caller writes
  Caps,      \* sizes of the Buffer
  Held,      \* the bytes the Buffer may hold when the cursor is made
  PosMax,    \* u64::MAX, where a reader's position saturates
  MaxCalls   \* bound: calls in one behaviour

Byte == [0 .. W - 1 -> {0, 1}]
Value == [0 .. MaxBits - 1 -> {0, 1}]

ASSUME CursorAssumption ==
  /\ W \in Nat \ {0} /\ MaxBits \in Nat /\ MaxCalls \in Nat
  /\ Values \subseteq Value
  /\ Caps \subseteq Nat
  /\ Held \subseteq Seq(Byte)
  /\ PosMax \in Nat
  \* A slice has fewer bits than a position can count.
  /\ \A cap \in Caps : W * cap < PosMax
  /\ \A held \in Held : \A cap \in Caps : Len(held) <= cap

----------------------------------------------------------------------------
(* Words *)

ZeroByte == [k \in 0 .. W - 1 |-> 0]
ZeroValue == [k \in 0 .. MaxBits - 1 |-> 0]

\* (value >> by) & chunk_mask(take), as a byte.
Chunk(value, by, take) ==
  [k \in 0 .. W - 1 |-> IF k < take /\ k + by < MaxBits THEN value[k + by] ELSE 0]

\* chunk_mask(n) as a byte: its low n bits set.
Mask(n) == [k \in 0 .. W - 1 |-> IF k < n THEN 1 ELSE 0]

Shl(byte, by) == [k \in 0 .. W - 1 |-> IF k >= by THEN byte[k - by] ELSE 0]
Or(a, b) == [k \in 0 .. W - 1 |-> IF a[k] = 1 \/ b[k] = 1 THEN 1 ELSE 0]
And(a, b) == [k \in 0 .. W - 1 |-> IF a[k] = 1 /\ b[k] = 1 THEN 1 ELSE 0]
Not(a) == [k \in 0 .. W - 1 |-> 1 - a[k]]

CeilDiv(n) == (n + W - 1) \div W
Saturated(n) == IF n > PosMax THEN PosMax ELSE n
Lesser(a, b) == IF a < b THEN a ELSE b

----------------------------------------------------------------------------
VARIABLES
  msb,         \* the type parameter MSB
  cap, out,    \* the Buffer: its size and the bytes written
  base,        \* bytes in the Buffer when the writer was made
  used,        \* bits used in the last byte, 0 .. W - 1
  at,          \* the reader's position in bits, over out[base ..]
  pc,          \* "idle", or the call that is running
  arg,         \* its arguments: value, bits and, for a patch, the position
  left,        \* bits of the field still to do
  cur,         \* patch's own position
  mark,        \* what write keeps to undo, and where read began
  value,       \* what read has collected
  answer,      \* what the last call answered
  calls

buffer == <<cap, out>>
writer == <<base, used>>
local == <<arg, left, cur, mark, value>>
vars == <<msb, buffer, writer, at, pc, local, answer, calls>>

Answered(kind, v) == [kind |-> kind, value |-> v]

\* position
Position == (Len(out) - base) * W - (IF used = 0 THEN 0 ELSE W - used)

NoMark == [len |-> 0, used |-> 0, position |-> 0]
NoArg == [value |-> ZeroValue, bits |-> 0, at |-> 0]

Init ==
  /\ msb \in BOOLEAN /\ cap \in Caps /\ out \in Held
  /\ base = Len(out) /\ used = 0 /\ at = 0
  /\ pc = "idle" /\ arg = NoArg /\ left = 0 /\ cur = 0 /\ mark = NoMark
  /\ value = ZeroValue /\ answer = Answered("none", ZeroValue) /\ calls = 0

Call == pc = "idle" /\ calls < MaxCalls /\ calls' = calls + 1

\* The chunk the loops of append, patch and read take when `from` bits of a byte are used.
Take(from) == Lesser(left, W - from)

\* The chunk of arg.value that append and patch move into a byte with `from` bits used.
Placed(from) ==
  LET take == Take(from)
      free == W - from
  IN  IF msb THEN Shl(Chunk(arg.value, left - take, take), free - take)
             ELSE Shl(Chunk(arg.value, arg.bits - left, take), from)

----------------------------------------------------------------------------
(* write *)

WriteCall(v, n) ==
  /\ Call
  /\ pc' = "write"
  /\ arg' = [value |-> v, bits |-> n, at |-> 0]
  /\ left' = n
  /\ mark' = [len |-> Len(out), used |-> used, position |-> Position]
  /\ UNCHANGED <<msb, buffer, writer, at, cur, value, answer>>

\* Fixed::push of one byte refuses it.
Full == used = 0 /\ Len(out) + 1 > cap

\* One turn of append's loop.
WriteChunk ==
  LET pushed == IF used = 0 THEN Append(out, ZeroByte) ELSE out
  IN  /\ pc = "write" /\ left > 0 /\ ~Full
      /\ out' = [pushed EXCEPT ![Len(pushed)] = Or(@, Placed(used))]
      /\ used' = (used + Take(used)) % W
      /\ left' = left - Take(used)
      /\ UNCHANGED <<msb, cap, base, at, pc, arg, cur, mark, value, answer, calls>>

\* Mutant: the low bits are kept in either order.
KeptLow == Mask(mark.used)

\* The bits of the last byte that were written before this field.
Kept == IF msb THEN Shl(Mask(W), W - mark.used) ELSE Mask(mark.used)

\* push refused a byte: rewind, and clear what was written past the cursor.
WriteOverflow ==
  LET rewound == SubSeq(out, 1, Lesser(mark.len, Len(out)))
  IN  /\ pc = "write" /\ left > 0 /\ Full
      /\ out' = IF mark.used >= 1 /\ Len(rewound) > 0
                THEN [rewound EXCEPT ![Len(rewound)] = And(@, Kept)] ELSE rewound
      /\ used' = mark.used
      /\ pc' = "idle"
      /\ answer' = Answered("overflow", ZeroValue)
      /\ UNCHANGED <<msb, cap, base, at, local, calls>>

WriteReturns ==
  /\ pc = "write" /\ left = 0
  /\ pc' = "idle"
  /\ answer' = Answered("written", ZeroValue)
  /\ UNCHANGED <<msb, buffer, writer, at, local, calls>>

----------------------------------------------------------------------------
(* patch *)

\* Mutant: counted from the start of the buffer.
ByteOfBuffer(p) == p \div W + 1

\* The byte of the buffer that holds bit p of those this writer appended.
ByteOf(p) == base + p \div W + 1

\* The bits must already be written.
PatchCall(v, n, p) ==
  /\ Call
  /\ p + n <= Position
  /\ pc' = "patch"
  /\ arg' = [value |-> v, bits |-> n, at |-> p]
  /\ left' = n /\ cur' = p
  /\ UNCHANGED <<msb, buffer, writer, at, mark, value, answer>>

PatchChunk ==
  LET from == cur % W
      hole == Shl(Mask(Take(from)), IF msb THEN W - from - Take(from) ELSE from)
  IN  /\ pc = "patch" /\ left > 0
      /\ out' = [out EXCEPT ![ByteOf(cur)] = Or(And(@, Not(hole)), Placed(from))]
      /\ cur' = cur + Take(from)
      /\ left' = left - Take(from)
      /\ UNCHANGED <<msb, cap, writer, at, pc, arg, mark, value, answer, calls>>

PatchReturns ==
  /\ pc = "patch" /\ left = 0
  /\ pc' = "idle"
  /\ UNCHANGED <<msb, buffer, writer, at, local, answer, calls>>

----------------------------------------------------------------------------
(* BitReader, over the bytes the writer appended *)

ReaderAt(p) ==
  /\ Call
  /\ at' = p
  /\ UNCHANGED <<msb, buffer, writer, pc, local, answer>>

\* The bytes a reader needs for n more bits, and whether they are there.
There(n) == CeilDiv(Saturated(at + n)) <= Len(out) - base

Short ==
  /\ answer' = Answered("short", ZeroValue)
  /\ UNCHANGED <<at, pc, local>>

ReadCall(n) ==
  /\ Call
  /\ IF There(n)
     THEN /\ pc' = "read"
          /\ arg' = [value |-> ZeroValue, bits |-> n, at |-> 0]
          /\ left' = n /\ value' = ZeroValue
          /\ mark' = [mark EXCEPT !.position = at]
          /\ UNCHANGED <<at, cur, answer>>
     ELSE Short
  /\ UNCHANGED <<msb, buffer, writer>>

\* value << take, its top bits dropped.
ShlValue(v, by) == [k \in 0 .. MaxBits - 1 |-> IF k >= by THEN v[k - by] ELSE 0]

ReadChunk ==
  LET from == at % W
      take == Take(from)
      byte == out[ByteOf(at)]
      \* (byte >> by) & chunk_mask(take), shifted to its place in the value.
      Taken(by, to) ==
        [k \in 0 .. MaxBits - 1 |-> IF k - to \in 0 .. take - 1 THEN byte[k - to + by] ELSE 0]
      OrValue(a, b) == [k \in 0 .. MaxBits - 1 |-> IF a[k] = 1 \/ b[k] = 1 THEN 1 ELSE 0]
  IN  /\ pc = "read" /\ left > 0
      /\ value' = IF msb THEN OrValue(ShlValue(value, take), Taken(W - from - take, 0))
                         ELSE OrValue(value, Taken(from, arg.bits - left))
      /\ at' = at + take
      /\ left' = left - take
      /\ UNCHANGED <<msb, buffer, writer, pc, arg, cur, mark, answer, calls>>

ReadReturns ==
  /\ pc = "read" /\ left = 0
  /\ pc' = "idle"
  /\ answer' = Answered("read", value)
  /\ UNCHANGED <<msb, buffer, writer, at, local, calls>>

Skip(n) ==
  /\ Call
  /\ IF There(n)
     THEN /\ at' = Saturated(at + n)
          /\ answer' = Answered("skipped", ZeroValue)
          /\ UNCHANGED <<pc, local>>
     ELSE Short
  /\ UNCHANGED <<msb, buffer, writer>>

----------------------------------------------------------------------------
Turn ==
  WriteChunk \/ WriteOverflow \/ WriteReturns \/ PatchChunk \/ PatchReturns
  \/ ReadChunk \/ ReadReturns

Next ==
  \/ \E n \in 0 .. MaxBits :
       \/ \E v \in Values : WriteCall(v, n) \/ \E p \in 0 .. Position - n : PatchCall(v, n, p)
       \/ ReadCall(n)
  \/ \E p \in 0 .. PosMax : ReaderAt(p) \/ Skip(p)
  \/ Turn

Spec == Init /\ [][Next]_vars

----------------------------------------------------------------------------
(* What should hold *)

\* Which bit of a byte is the k-th in stream order, from 0.
BitIndex(k) == IF msb THEN W - 1 - k ELSE k

\* The bits of the last byte past the cursor: append ors its chunks into them, so a bit
\* left behind by a refused or misplaced chunk would show up in the next field.
PadIsZero == used > 0 => \A k \in used .. W - 1 : out[Len(out)][BitIndex(k)] = 0

\* A call, a refused or undone one too, leaves alone the bytes that are not its own: those
\* in the buffer when the cursor was made never change, and the bits past the cursor are
\* zero at every moment, in the middle of a write too.
HeldBytesStay == []PadIsZero /\ [][SubSeq(out', 1, base) = SubSeq(out, 1, base)]_vars

\* The stream's bits: those before the cursor, and before the call while a write runs.
\* A patch that has begun shows as if it had ended.
Stream ==
  LET n == IF pc = "write" THEN mark.position ELSE Position
      Stored(k) == out[base + k \div W + 1][BitIndex(k % W)]
      Patched(k) ==
        IF msb THEN arg.value[arg.bits - 1 - (k - arg.at)] ELSE arg.value[k - arg.at]
  IN  [k \in 1 .. n |-> IF pc = "patch" /\ k - 1 - arg.at \in 0 .. arg.bits - 1
                        THEN Patched(k - 1) ELSE Stored(k - 1)]

Abstract ==
  INSTANCE BitStream WITH
    room <- cap - base, stream <- Stream, MaxCap <- 0,
    pos <- IF pc = "read" THEN mark.position ELSE at

\* The cursors implement BitStream: a field is appended whole or not at all, refused
\* only when its last byte does not fit, patched without touching the bits beside it,
\* and read back as it was written, in both bit orders and at every position.
ImplementsBitStream == [][Abstract!Next]_(Abstract!vars)
=============================================================================
