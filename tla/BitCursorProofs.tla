-------------------------- MODULE BitCursorProofs --------------------------
(***************************************************************************)
(* The cursors touch nothing but their own bits: for every byte width,      *)
(* field, buffer and sequence of calls, the bytes that were there when the  *)
(* writer was made stay, and the bits past its cursor are zero.             *)
(*                                                                         *)
(* A field is put down at `used', and a chunk has no bits past its own      *)
(* width (PlacedIsWithin), so what append ors in ends at the new cursor and *)
(* what patch overwrites ends before the old one.  An undone field is cut   *)
(* off at the length that write marked and masked down to the bits it       *)
(* marked.                                                                  *)
(***************************************************************************)
EXTENDS BitCursor, SequenceTheorems, TLAPS

Typed ==
    /\ msb \in BOOLEAN
    /\ out \in Seq(Byte)
    /\ base \in Nat /\ base <= Len(out)
    /\ used \in 0 .. W - 1 /\ (used > 0 => base < Len(out))

(* What write can return to is in the buffer, and never before the writer. *)
Writing ==
    pc = "write" =>
        /\ left \in Nat /\ arg.bits \in Nat
        /\ mark.len \in Nat /\ base <= mark.len /\ mark.len <= Len(out)
        /\ mark.used \in 0 .. W - 1 /\ (mark.used > 0 => base < mark.len)

(* What patch still has to write lies before the cursor.                   *)
Patching ==
    pc = "patch" =>
        /\ left \in Nat /\ arg.bits \in Nat
        /\ cur \in Nat /\ cur + left <= Position

IInv == Typed /\ Writing /\ Patching /\ PadIsZero

----------------------------------------------------------------------------
(* Words and positions. *)
LEMMA WordTypes ==
    /\ W \in Nat /\ W > 0 /\ ZeroByte \in Byte
    /\ \A a, b : Or(a, b) \in Byte /\ And(a, b) \in Byte
    /\ \A k \in 0 .. W - 1 : BitIndex(k) \in 0 .. W - 1 /\ ZeroByte[k] = 0
    /\ \A a, b : \A k \in 0 .. W - 1 : a[k] = 0 \/ b[k] = 0 => And(a, b)[k] = 0
    /\ \A a, b : \A k \in 0 .. W - 1 : a[k] = 0 /\ b[k] = 0 => Or(a, b)[k] = 0
<1>1. W \in Nat /\ W > 0
  BY CursorAssumption
<1>2. ZeroByte \in Byte
  BY DEF ZeroByte, Byte
<1>3. \A a, b : Or(a, b) \in Byte /\ And(a, b) \in Byte
  BY DEF Or, And, Byte
<1>4. \A k \in 0 .. W - 1 : BitIndex(k) \in 0 .. W - 1 /\ ZeroByte[k] = 0
  BY <1>1 DEF BitIndex, ZeroByte
<1>5. \A a, b : \A k \in 0 .. W - 1 : a[k] = 0 \/ b[k] = 0 => And(a, b)[k] = 0
  BY DEF And
<1>6. \A a, b : \A k \in 0 .. W - 1 : a[k] = 0 /\ b[k] = 0 => Or(a, b)[k] = 0
  BY DEF Or
<1> QED BY <1>1, <1>2, <1>3, <1>4, <1>5, <1>6

LEMMA Remainder ==
    ASSUME NEW n \in Nat, NEW d \in Nat, d > 0, NEW q \in Int, q = n \div d
    PROVE  n - d * q = n % d /\ n % d \in 0 .. d - 1 /\ q >= 0
<1>1. n - d * q = n % d
  BY SMTT(30)
<1>2. n % d \in 0 .. d - 1 /\ n \div d >= 0
  OBVIOUS
<1> QED BY <1>1, <1>2

LEMMA Wraps == W % W = 0 /\ \A n \in 0 .. W - 1 : n % W = n
BY CursorAssumption

(* A chunk put down at `from' ends where its bits do.                      *)
LEMMA PlacedIsWithin ==
    ASSUME NEW from \in 0 .. W - 1, left \in Nat, arg.bits \in Nat, msb \in BOOLEAN
    PROVE  /\ Take(from) \in Nat /\ Take(from) <= left /\ from + Take(from) <= W
           /\ left > 0 => Take(from) > 0
           /\ \A k \in from + Take(from) .. W - 1 : Placed(from)[BitIndex(k)] = 0
<1>1. W \in Nat /\ W > 0
  BY CursorAssumption
<1>2. /\ Take(from) \in Nat /\ Take(from) <= left /\ from + Take(from) <= W
      /\ left > 0 => Take(from) > 0
  BY <1>1 DEF Take, Lesser
<1> DEFINE take == Take(from)
<1> HIDE DEF take
<1>3. take \in Nat /\ take <= W - from
  BY <1>1, <1>2 DEF take
<1>4. ASSUME NEW v, NEW by \in Int, NEW k \in 0 .. W - 1, k >= take
      PROVE  Chunk(v, by, take)[k] = 0
  BY <1>1, <1>3, <1>4 DEF Chunk
<1>5. ASSUME NEW v, NEW by \in Int, NEW k \in from + take .. W - 1
      PROVE  Shl(Chunk(v, by, take), from)[k] = 0
  <2>1. k \in 0 .. W - 1 /\ k >= from /\ k - from \in 0 .. W - 1 /\ k - from >= take
    BY <1>1, <1>3
  <2>2. Shl(Chunk(v, by, take), from)[k] = Chunk(v, by, take)[k - from]
    BY <2>1 DEF Shl
  <2> QED BY <1>4, <2>1, <2>2
<1>6. ASSUME NEW v, NEW by \in Int, NEW k \in from + take .. W - 1
      PROVE  Shl(Chunk(v, by, take), W - from - take)[W - 1 - k] = 0
  <2>1. W - 1 - k \in 0 .. W - 1 /\ ~(W - 1 - k >= W - from - take)
    BY <1>1, <1>3
  <2> QED BY <2>1 DEF Shl
<1>7. ASSUME NEW k \in from + take .. W - 1
      PROVE  Placed(from)[BitIndex(k)] = 0
  <2>1. CASE msb
    <3>1. Placed(from) = Shl(Chunk(arg.value, left - take, take), W - from - take)
      BY <2>1 DEF Placed, take
    <3>2. BitIndex(k) = W - 1 - k
      BY <2>1 DEF BitIndex
    <3> QED BY <1>3, <1>6, <3>1, <3>2
  <2>2. CASE ~msb
    <3>1. Placed(from) = Shl(Chunk(arg.value, arg.bits - left, take), from)
      BY <2>2 DEF Placed, take
    <3>2. BitIndex(k) = k
      BY <2>2 DEF BitIndex
    <3> QED BY <1>3, <1>5, <3>1, <3>2
  <2> QED BY <2>1, <2>2
<1> QED BY <1>2, <1>7 DEF take

----------------------------------------------------------------------------
(* The buffer. *)
HeldStays == SubSeq(out', 1, base) = SubSeq(out, 1, base)

(* A byte of a buffer is overwritten.                                      *)
LEMMA Overwrite ==
    ASSUME NEW bytes \in Seq(Byte), NEW n \in 1 .. Len(bytes), NEW byte \in Byte
    PROVE  /\ [bytes EXCEPT ![n] = byte] \in Seq(Byte)
           /\ Len([bytes EXCEPT ![n] = byte]) = Len(bytes)
           /\ [bytes EXCEPT ![n] = byte][n] = byte
           /\ \A m \in 1 .. Len(bytes) : m # n => [bytes EXCEPT ![n] = byte][m] = bytes[m]
BY ExceptSeq

LEMMA SameBytes ==
    ASSUME NEW s \in Seq(Byte), NEW t \in Seq(Byte), base \in Nat,
           base <= Len(s), base <= Len(t), \A n \in 1 .. base : s[n] = t[n]
    PROVE  SubSeq(s, 1, base) = SubSeq(t, 1, base)
<1>1. SubSeq(s, 1, base) \in Seq(Byte) /\ SubSeq(t, 1, base) \in Seq(Byte)
  OBVIOUS
<1>2. Len(SubSeq(s, 1, base)) = base /\ Len(SubSeq(t, 1, base)) = base
  OBVIOUS
<1>3. \A n \in 1 .. base : SubSeq(s, 1, base)[n] = s[n] /\ SubSeq(t, 1, base)[n] = t[n]
  OBVIOUS
<1> QED BY <1>1, <1>2, <1>3, SeqEqual

----------------------------------------------------------------------------
(* Calls that leave the buffer and the writer alone.                       *)
LEMMA QuietKeeps ==
    ASSUME IInv, msb' = msb, out' = out, base' = base, used' = used, Writing', Patching'
    PROVE  IInv' /\ HeldStays
<1>1. Typed' /\ PadIsZero'
  BY DEF IInv, Typed, PadIsZero, BitIndex
<1> QED BY <1>1 DEF IInv, HeldStays

LEMMA WriteCallKeeps ==
    ASSUME IInv, NEW v, NEW n \in 0 .. MaxBits, WriteCall(v, n)
    PROVE  IInv' /\ HeldStays
<1>1. /\ pc' = "write" /\ arg' = [value |-> v, bits |-> n, at |-> 0] /\ left' = n
      /\ mark' = [len |-> Len(out), used |-> used, position |-> Position]
      /\ msb' = msb /\ out' = out /\ base' = base /\ used' = used
  BY DEF WriteCall, buffer, writer
<1>2. Writing' /\ Patching'
  BY <1>1, CursorAssumption DEF IInv, Typed, Writing, Patching
<1> QED BY <1>1, <1>2, QuietKeeps

LEMMA PatchCallKeeps ==
    ASSUME IInv, NEW v, NEW n \in 0 .. MaxBits, NEW p \in 0 .. Position - n, PatchCall(v, n, p)
    PROVE  IInv' /\ HeldStays
<1>1. /\ pc' = "patch" /\ arg' = [value |-> v, bits |-> n, at |-> p] /\ left' = n /\ cur' = p
      /\ p + n <= Position
      /\ msb' = msb /\ out' = out /\ base' = base /\ used' = used
  BY DEF PatchCall, buffer, writer
<1>2. Position' = Position
  BY <1>1 DEF Position
<1>3. Writing' /\ Patching'
  BY <1>1, <1>2, CursorAssumption DEF Writing, Patching
<1> QED BY <1>1, <1>3, QuietKeeps

(* What a reader does, and a call that returns.                            *)
LEMMA ReaderKeeps ==
    ASSUME IInv, \/ \E n \in 0 .. MaxBits : ReadCall(n)
                 \/ \E p \in 0 .. PosMax : ReaderAt(p) \/ Skip(p)
                 \/ WriteReturns \/ PatchReturns \/ ReadChunk \/ ReadReturns
                 \/ UNCHANGED vars
    PROVE  IInv' /\ HeldStays
<1> DEFINE Same == /\ msb' = msb /\ out' = out /\ base' = base /\ used' = used
                   /\ \/ pc' \in {"idle", "read"}
                      \/ pc' = pc /\ left' = left /\ arg' = arg /\ mark' = mark /\ cur' = cur
<1>1. Same
  <2>1. CASE \E n \in 0 .. MaxBits : ReadCall(n)
    BY <2>1 DEF ReadCall, Short, Call, buffer, writer, local
  <2>2. CASE \E p \in 0 .. PosMax : ReaderAt(p) \/ Skip(p)
    BY <2>2 DEF ReaderAt, Skip, Short, Call, buffer, writer, local
  <2>3. CASE WriteReturns \/ PatchReturns
    BY <2>3 DEF WriteReturns, PatchReturns, buffer, writer, local
  <2>4. CASE ReadChunk
    BY <2>4 DEF ReadChunk, buffer, writer
  <2>5. CASE ReadReturns
    BY <2>5 DEF ReadReturns, buffer, writer, local
  <2>6. CASE UNCHANGED vars
    BY <2>6 DEF vars, buffer, writer, local
  <2> QED BY <2>1, <2>2, <2>3, <2>4, <2>5, <2>6
<1>2. Writing' /\ Patching'
  BY <1>1 DEF IInv, Writing, Patching, Position
<1> QED BY <1>1, <1>2, QuietKeeps

----------------------------------------------------------------------------
(* A turn of append's loop.                                                *)
LEMMA WriteChunkKeeps == ASSUME IInv, WriteChunk PROVE IInv' /\ HeldStays
<1> DEFINE pushed == IF used = 0 THEN Append(out, ZeroByte) ELSE out
           last == Len(pushed)
           byte == Or(pushed[last], Placed(used))
<1>1. /\ Typed /\ Writing /\ PadIsZero
      /\ pc = "write" /\ left > 0 /\ left \in Nat /\ arg.bits \in Nat
  BY DEF IInv, Writing, WriteChunk
<1>2. /\ out' = [pushed EXCEPT ![last] = byte]
      /\ used' = (used + Take(used)) % W /\ left' = left - Take(used)
      /\ msb' = msb /\ base' = base /\ pc' = pc /\ arg' = arg /\ mark' = mark
  BY DEF WriteChunk
<1>3. /\ Take(used) \in Nat /\ Take(used) <= left /\ used + Take(used) <= W /\ Take(used) > 0
      /\ \A k \in used + Take(used) .. W - 1 : Placed(used)[BitIndex(k)] = 0
  BY <1>1, PlacedIsWithin DEF Typed
<1>4. /\ pushed \in Seq(Byte) /\ last \in Nat /\ base < last /\ Len(out) <= last
      /\ \A n \in 1 .. base : pushed[n] = out[n]
  BY <1>1, WordTypes DEF Typed
<1>5. \A k \in used .. W - 1 : pushed[last][BitIndex(k)] = 0
  <2>1. CASE used = 0
    <3>1. pushed[last] = ZeroByte
      BY <1>1, <2>1 DEF Typed
    <3> QED BY <2>1, <3>1, WordTypes
  <2>2. CASE used # 0
    BY <1>1, <2>2 DEF Typed, PadIsZero
  <2> QED BY <2>1, <2>2
<1> HIDE DEF pushed, last
<1>6. /\ out' \in Seq(Byte) /\ Len(out') = last /\ out'[last] = byte
      /\ \A n \in 1 .. base : out'[n] = out[n]
  <2>1. byte \in Byte /\ last \in 1 .. Len(pushed) /\ base \in Nat
    BY <1>1, <1>4, WordTypes DEF Typed, last
  <2> HIDE DEF byte
  <2> QED BY <1>2, <1>4, <2>1, Overwrite DEF last
<1>7. used' \in 0 .. W - 1 /\ (used' > 0 => used' = used + Take(used))
  <2>1. CASE used + Take(used) = W
    BY <1>2, <2>1, Wraps, WordTypes
  <2>2. CASE used + Take(used) # W
    <3>1. W \in Nat /\ W > 0 /\ used \in 0 .. W - 1
      BY <1>1, WordTypes DEF Typed
    <3>2. used + Take(used) \in 0 .. W - 1
      BY <1>3, <2>2, <3>1
    <3> QED BY <1>2, <3>2, Wraps
  <2> QED BY <2>1, <2>2
<1>8. Typed'
  BY <1>1, <1>2, <1>4, <1>6, <1>7 DEF Typed
<1>9. Writing' /\ Patching'
  BY <1>1, <1>2, <1>3, <1>4, <1>6 DEF Writing, Patching
<1>10. PadIsZero'
  <2> SUFFICES ASSUME used' > 0, NEW k \in used' .. W - 1
               PROVE  byte[BitIndex(k)] = 0
    BY <1>2, <1>6 DEF PadIsZero, BitIndex
  <2>1. k \in used + Take(used) .. W - 1 /\ k \in used .. W - 1 /\ k \in 0 .. W - 1
    BY <1>1, <1>3, <1>7, WordTypes DEF Typed
  <2>2. /\ pushed[last][BitIndex(k)] = 0 /\ Placed(used)[BitIndex(k)] = 0
        /\ BitIndex(k) \in 0 .. W - 1
    BY <1>3, <1>5, <2>1, WordTypes
  <2> QED BY <2>2, WordTypes
<1>11. HeldStays
  BY <1>1, <1>4, <1>6, SameBytes DEF Typed, HeldStays
<1> QED BY <1>8, <1>9, <1>10, <1>11 DEF IInv

(* The buffer refuses a byte: the field is undone.                         *)
LEMMA WriteOverflowKeeps == ASSUME IInv, WriteOverflow PROVE IInv' /\ HeldStays
<1> DEFINE rewound == SubSeq(out, 1, mark.len)
           last == mark.len
<1>1. /\ Typed /\ Writing /\ W \in Nat /\ W > 0
      /\ mark.len \in Nat /\ base <= mark.len /\ mark.len <= Len(out)
      /\ mark.used \in 0 .. W - 1 /\ (mark.used > 0 => base < mark.len)
  BY WordTypes DEF IInv, Writing, WriteOverflow
<1>2. /\ rewound \in Seq(Byte) /\ Len(rewound) = last
      /\ \A n \in 1 .. last : rewound[n] = out[n]
  BY <1>1 DEF Typed
<1>3. /\ out' = IF mark.used >= 1 /\ Len(rewound) > 0
                THEN [rewound EXCEPT ![Len(rewound)] = And(@, Kept)] ELSE rewound
      /\ used' = mark.used /\ pc' = "idle" /\ msb' = msb /\ base' = base
  <2>1. Lesser(mark.len, Len(out)) = mark.len
    BY <1>1 DEF Typed, Lesser
  <2> QED BY <2>1 DEF WriteOverflow
<1> HIDE DEF rewound, last
<1>4. CASE mark.used = 0
  <2>1. out' = rewound
    BY <1>3, <1>4
  <2>2. Typed'
    <3>1. base <= Len(out') /\ used' = 0
      BY <1>1, <1>2, <1>3, <1>4, <2>1 DEF last
    <3> QED BY <1>1, <1>2, <1>3, <2>1, <3>1 DEF Typed
  <2>3. Writing' /\ Patching' /\ PadIsZero'
    BY <1>3, <1>4 DEF Writing, Patching, PadIsZero
  <2>4. HeldStays
    <3>1. /\ base \in Nat /\ base <= Len(rewound) /\ base <= Len(out)
          /\ \A n \in 1 .. base : rewound[n] = out[n]
      BY <1>1, <1>2 DEF Typed, last
    <3> QED BY <1>1, <1>2, <2>1, <3>1, SameBytes DEF Typed, HeldStays
  <2> QED BY <2>2, <2>3, <2>4 DEF IInv
<1>5. CASE mark.used > 0
  <2> DEFINE byte == And(rewound[last], Kept)
  <2>1. last \in 1 .. Len(rewound) /\ base < last /\ byte \in Byte
    <3>1. last \in 1 .. Len(rewound) /\ base < last
      BY <1>1, <1>2, <1>5 DEF Typed, last
    <3>2. byte \in Byte
      BY WordTypes
    <3> QED BY <3>1, <3>2
  <2>2. out' = [rewound EXCEPT ![last] = byte]
    BY <1>1, <1>2, <1>3, <1>5, <2>1
  <2>3. /\ out' \in Seq(Byte) /\ Len(out') = last /\ out'[last] = byte
        /\ \A n \in 1 .. base : out'[n] = out[n]
    <3> HIDE DEF byte
    <3> QED BY <1>1, <1>2, <2>1, <2>2, Overwrite DEF Typed
  <2>4. Typed' /\ Writing' /\ Patching'
    BY <1>1, <1>3, <2>1, <2>3 DEF Typed, Writing, Patching
  <2>5. ASSUME NEW k \in mark.used .. W - 1 PROVE Kept[BitIndex(k)] = 0
    <3>1. CASE msb
      <4>1. BitIndex(k) = W - 1 - k /\ W - 1 - k \in 0 .. W - 1 /\ ~(W - 1 - k >= W - mark.used)
        BY <1>1, <3>1 DEF BitIndex
      <4> QED BY <3>1, <4>1 DEF Kept, Shl
    <3>2. CASE ~msb
      <4>1. BitIndex(k) = k /\ k \in 0 .. W - 1 /\ ~(k < mark.used)
        BY <1>1, <3>2 DEF BitIndex
      <4> QED BY <3>2, <4>1 DEF Kept, Mask
    <3> QED BY <3>1, <3>2
  <2>6. PadIsZero'
    <3> SUFFICES ASSUME NEW k \in mark.used .. W - 1 PROVE byte[BitIndex(k)] = 0
      BY <1>3, <2>3 DEF PadIsZero, BitIndex
    <3>1. k \in 0 .. W - 1
      BY <1>1
    <3> QED BY <2>5, <3>1, WordTypes
  <2>7. HeldStays
    BY <1>1, <2>1, <2>3, SameBytes DEF Typed, HeldStays
  <2> QED BY <2>4, <2>6, <2>7 DEF IInv
<1> QED BY <1>1, <1>4, <1>5

(* A turn of patch's loop: the byte is one of this writer's, and its bits  *)
(* end before the cursor.                                                  *)
LEMMA PatchChunkKeeps == ASSUME IInv, PatchChunk PROVE IInv' /\ HeldStays
<1> DEFINE from == cur % W
           full == cur \div W
           hole == Shl(Mask(Take(from)), IF msb THEN W - from - Take(from) ELSE from)
           n == ByteOf(cur)
           byte == Or(And(out[n], Not(hole)), Placed(from))
<1>1. /\ Typed /\ Writing /\ Patching /\ PadIsZero /\ W \in Nat /\ W > 0
      /\ pc = "patch" /\ left > 0 /\ left \in Nat /\ arg.bits \in Nat
      /\ cur \in Nat /\ cur + left <= Position
  BY WordTypes DEF IInv, Patching, PatchChunk
<1>2. /\ out' = [out EXCEPT ![n] = byte]
      /\ cur' = cur + Take(from) /\ left' = left - Take(from)
      /\ msb' = msb /\ base' = base /\ used' = used /\ pc' = pc /\ arg' = arg
  BY DEF PatchChunk, writer
<1>3. /\ cur - W * full = from /\ from \in 0 .. W - 1 /\ full \in Int /\ full >= 0
      /\ n = base + full + 1
  BY <1>1, Remainder DEF ByteOf
<1> HIDE DEF from, full
<1>4. /\ Take(from) \in Nat /\ Take(from) <= left /\ from + Take(from) <= W /\ Take(from) > 0
      /\ \A k \in from + Take(from) .. W - 1 : Placed(from)[BitIndex(k)] = 0
  BY <1>1, <1>3, PlacedIsWithin DEF Typed
<1> DEFINE own == Len(out) - base
<1>5. own \in Nat /\ Position = own * W - (IF used = 0 THEN 0 ELSE W - used)
  BY <1>1 DEF Typed, Position
<1> HIDE DEF own
<1>6. full < own
  <2>1. W * full < own * W
    BY <1>1, <1>3, <1>5 DEF Typed
  <2> QED BY <1>1, <1>3, <1>5, <2>1
<1>7. used > 0 /\ full = own - 1 => from + Take(from) <= used
  <2> SUFFICES ASSUME used > 0, full = own - 1 PROVE from + Take(from) <= used
    OBVIOUS
  <2>1. W * full = own * W - W
    BY <1>1, <1>5
  <2>2. cur + Take(from) <= own * W - W + used
    BY <1>1, <1>4, <1>5 DEF Typed
  <2> QED BY <1>1, <1>3, <1>4, <1>5, <2>1, <2>2 DEF Typed
<1>8. n \in 1 .. Len(out) /\ n > base /\ (n = Len(out) <=> full = own - 1) /\ byte \in Byte
  BY <1>1, <1>3, <1>6, WordTypes DEF Typed, own
<1> HIDE DEF n, byte
<1>9. /\ out' \in Seq(Byte) /\ Len(out') = Len(out) /\ out'[n] = byte
      /\ \A m \in 1 .. Len(out) : m # n => out'[m] = out[m]
  BY <1>1, <1>2, <1>8, Overwrite DEF Typed
<1>10. Typed'
  BY <1>1, <1>2, <1>9 DEF Typed
<1>11. Writing' /\ Patching'
  <2>1. Position' = Position
    BY <1>2, <1>9 DEF Position
  <2>2. cur' \in Nat /\ left' \in Nat /\ cur' + left' = cur + left
    BY <1>1, <1>2, <1>4
  <2> QED BY <1>1, <1>2, <2>1, <2>2 DEF Writing, Patching
<1>12. PadIsZero'
  <2> SUFFICES ASSUME used > 0, NEW k \in used .. W - 1
               PROVE  out'[Len(out)][BitIndex(k)] = 0
    BY <1>2, <1>9 DEF PadIsZero, BitIndex
  <2>1. out[Len(out)][BitIndex(k)] = 0 /\ k \in 0 .. W - 1
    BY <1>1 DEF PadIsZero, Typed
  <2>2. CASE n # Len(out)
    <3>1. Len(out) \in 1 .. Len(out)
      BY <1>1 DEF Typed
    <3> QED BY <1>9, <2>1, <2>2, <3>1
  <2>3. CASE n = Len(out)
    <3>1. k \in from + Take(from) .. W - 1
      BY <1>1, <1>3, <1>4, <1>7, <1>8, <2>3 DEF Typed
    <3>2. Placed(from)[BitIndex(k)] = 0 /\ BitIndex(k) \in 0 .. W - 1
      BY <1>4, <2>1, <3>1, WordTypes
    <3>3. byte[BitIndex(k)] = 0
      BY <2>1, <2>3, <3>2, WordTypes DEF byte
    <3> QED BY <1>9, <2>3, <3>3
  <2> QED BY <2>2, <2>3
<1>13. HeldStays
  <2>1. \A m \in 1 .. base : out'[m] = out[m]
    BY <1>1, <1>8, <1>9 DEF Typed
  <2> QED BY <1>1, <1>9, <2>1, SameBytes DEF Typed, HeldStays
<1> QED BY <1>10, <1>11, <1>12, <1>13 DEF IInv

----------------------------------------------------------------------------
LEMMA StepKeeps == IInv /\ [Next]_vars => IInv' /\ HeldStays
<1> SUFFICES ASSUME IInv, [Next]_vars PROVE IInv' /\ HeldStays
  OBVIOUS
<1>1. CASE \E n \in 0 .. MaxBits : \E v \in Values : WriteCall(v, n)
  BY <1>1, WriteCallKeeps
<1>2. CASE \E n \in 0 .. MaxBits : \E v \in Values :
             \E p \in 0 .. Position - n : PatchCall(v, n, p)
  BY <1>2, PatchCallKeeps
<1>3. CASE WriteChunk
  BY <1>3, WriteChunkKeeps
<1>4. CASE WriteOverflow
  BY <1>4, WriteOverflowKeeps
<1>5. CASE PatchChunk
  BY <1>5, PatchChunkKeeps
<1>6. CASE \/ \E n \in 0 .. MaxBits : ReadCall(n)
           \/ \E p \in 0 .. PosMax : ReaderAt(p) \/ Skip(p)
           \/ WriteReturns \/ PatchReturns \/ ReadChunk \/ ReadReturns
           \/ UNCHANGED vars
  BY <1>6, ReaderKeeps
<1> QED BY <1>1, <1>2, <1>3, <1>4, <1>5, <1>6 DEF Next, Turn

(* bits.rs: whatever is written, refused, undone, patched or read, the     *)
(* bytes that were in the buffer when the writer was made stay as they     *)
(* were, and the bits past its cursor are zero in the middle of a call too.*)
THEOREM HeldBytesAreKept == Spec => HeldBytesStay
<1>1. Init => IInv
  BY CursorAssumption DEF Init, IInv, Typed, Writing, Patching, PadIsZero
<1>2. IInv => PadIsZero
  BY DEF IInv
<1> QED BY <1>1, <1>2, StepKeeps, PTL DEF Spec, HeldBytesStay, HeldStays

----------------------------------------------------------------------------
(***************************************************************************)
(* The cursors implement BitStream, for every byte width, field width,      *)
(* buffer and sequence of calls.                                           *)
(*                                                                         *)
(* A position is a byte and a bit of it (Coordinates, Unique).  A chunk put *)
(* down in a byte is the next bits of its field and disturbs no other bit   *)
(* (PlacedIsField, HoleIs, PutBits), so what a running call has done is a   *)
(* prefix of its field where the field belongs (Writes, Patches), or in the *)
(* value being collected (Reads).  The calls of BitStream happen when a     *)
(* write returns or is refused, when a patch starts and when a read         *)
(* returns; every other step leaves the stream as it is.  A refusal is      *)
(* right because the buffer is full to the byte and the field is not done.  *)
(***************************************************************************)

(* The bytes the writer appended.                                          *)
Own == Len(out) - base

(* The k-th bit of those a writer appended, from 0.                        *)
BitOf(bytes, k) == bytes[base + k \div W + 1][BitIndex(k % W)]

(* How many bits of the field the running call has done.                   *)
Done == arg.bits - left

(* The k-th bit of the field in the order of the stream.                   *)
WireBit(k) == IF msb THEN arg.value[arg.bits - 1 - k] ELSE arg.value[k]

----------------------------------------------------------------------------
LEMMA Coordinates ==
    ASSUME NEW k \in Nat
    PROVE  k \div W \in Nat /\ k % W \in 0 .. W - 1 /\ k = W * (k \div W) + (k % W)
<1>1. W \in Nat /\ W > 0
  BY CursorAssumption
<1>2. k \div W \in Int /\ k \div W >= 0 /\ k % W \in 0 .. W - 1
  BY <1>1
<1>3. ASSUME NEW q \in Int, q = k \div W PROVE k = W * q + (k % W)
  <2>1. k - W * q = k % W /\ k % W \in Int /\ W * q \in Int
    BY <1>1, <1>3, Remainder
  <2> QED BY <2>1
<1>4. k = W * (k \div W) + (k % W)
  BY <1>2, <1>3, Zenon
<1>5. k \div W \in Nat
  BY <1>2
<1> QED BY <1>2, <1>4, <1>5, Zenon

LEMMA Unique ==
    ASSUME NEW q \in Nat, NEW r \in 0 .. W - 1
    PROVE  (W * q + r) \div W = q /\ (W * q + r) % W = r /\ W * q + r \in Nat
<1>1. W \in Nat /\ W > 0
  BY CursorAssumption
<1>2. W * q + r \in Nat
  BY <1>1
<1>3. ASSUME NEW k \in Nat, k = W * q + r PROVE k \div W = q
  BY <1>1, <1>3, SMTT(30)
<1>4. ASSUME NEW k \in Nat, k = W * q + r PROVE k % W = r
  BY <1>1, <1>4, SMTT(30)
<1> QED BY <1>2, <1>3, <1>4

LEMMA Product ==
    /\ \A a, b \in Int : a < b => W * a + W <= W * b
    /\ \A a, b \in Int : W * a < W * b => a < b
    /\ \A a \in Int : W * (a + 1) = W * a + W /\ a * W = W * a /\ W * a \in Int
<1>1. W \in Nat /\ W > 0
  BY CursorAssumption
<1>2. \A a \in Int : W * (a + 1) = W * a + W /\ a * W = W * a /\ W * a \in Int
  BY <1>1
<1>3. ASSUME NEW a \in Int, NEW b \in Int, a < b PROVE W * a + W <= W * b
  <2>1. W * (a + 1) <= W * b
    BY <1>1, <1>3
  <2> QED BY <1>2, <2>1
<1>4. ASSUME NEW a \in Int, NEW b \in Int, W * a < W * b PROVE a < b
  BY <1>1, <1>4
<1> QED BY <1>2, <1>3, <1>4

(* How many bytes a number of bits touches.                                *)
LEMMA Touches ==
    ASSUME NEW n \in Nat, NEW m \in Nat
    PROVE  CeilDiv(n) \in Nat /\ (CeilDiv(n) <= m <=> n <= W * m)
<1>1. W \in Nat /\ W > 0
  BY CursorAssumption
<1> DEFINE c == CeilDiv(n)
           r == (n + W - 1) % W
<1>2. c \in Nat /\ r \in 0 .. W - 1 /\ n + W - 1 = W * c + r
  BY <1>1, Coordinates DEF CeilDiv
<1> HIDE DEF c, r
<1>3. ASSUME c <= m PROVE n <= W * m
  <2>1. W * c <= W * m
    <3>1. c = m \/ c < m
      BY <1>2, <1>3
    <3> QED BY <1>1, <1>2, <3>1, Product
  <2> QED BY <1>1, <1>2, <2>1, Product
<1>4. ASSUME ~(c <= m) PROVE n > W * m
  <2>1. W * m + W <= W * c /\ W * m \in Int /\ W * c \in Int
    <3>1. m < c /\ m \in Int /\ c \in Int
      BY <1>2, <1>4
    <3> QED BY <3>1, Product, Zenon
  <2> QED BY <1>1, <1>2, <2>1
<1> QED BY <1>1, <1>2, <1>3, <1>4, Product DEF c

----------------------------------------------------------------------------
(* Chunks. *)

(* What is put down at `from' is the field's bits and nothing beside them.  *)
LEMMA PlacedIsField ==
    ASSUME NEW from \in 0 .. W - 1, msb \in BOOLEAN,
           arg.value \in Value, arg.bits \in 0 .. MaxBits, left \in Nat, left <= arg.bits,
           NEW r \in 0 .. W - 1
    PROVE  Placed(from)[BitIndex(r)] =
             IF r \in from .. from + Take(from) - 1 THEN WireBit(Done + (r - from)) ELSE 0
<1>1. W \in Nat /\ W > 0 /\ MaxBits \in Nat /\ arg.bits \in Nat
  BY CursorAssumption
<1> DEFINE take == Take(from)
<1>2. take \in Nat /\ take <= left /\ from + take <= W
  BY <1>1, PlacedIsWithin
<1>3. CASE msb
  <2> DEFINE k == W - 1 - r - (W - from - take)
  <2>1. Placed(from) = Shl(Chunk(arg.value, left - take, take), W - from - take)
    BY <1>3 DEF Placed
  <2>2. BitIndex(r) = W - 1 - r
    BY <1>3 DEF BitIndex
  <2> HIDE DEF take
  <2>3. CASE r \in from .. from + take - 1
    <3>1. /\ W - 1 - r >= W - from - take /\ W - 1 - r \in 0 .. W - 1
          /\ k \in 0 .. W - 1 /\ k < take /\ k + (left - take) < MaxBits
          /\ k + (left - take) = arg.bits - 1 - (Done + (r - from))
      BY <1>1, <1>2, <2>3 DEF Done
    <3>2. Placed(from)[BitIndex(r)] = Chunk(arg.value, left - take, take)[k]
      BY <2>1, <2>2, <3>1 DEF Shl
    <3>3. Chunk(arg.value, left - take, take)[k] = arg.value[k + (left - take)]
      BY <3>1 DEF Chunk
    <3> QED BY <1>3, <2>3, <3>1, <3>2, <3>3 DEF WireBit, take
  <2>4. CASE r \notin from .. from + take - 1
    <3>1. W - 1 - r \in 0 .. W - 1
      BY <1>1
    <3>2. CASE W - 1 - r >= W - from - take
      <4>1. k \in 0 .. W - 1 /\ ~(k < take)
        BY <1>1, <1>2, <2>4, <3>2
      <4>2. Chunk(arg.value, left - take, take)[k] = 0
        BY <4>1 DEF Chunk
      <4> QED BY <2>1, <2>2, <2>4, <3>1, <3>2, <4>2 DEF Shl, take
    <3>3. CASE ~(W - 1 - r >= W - from - take)
      BY <2>1, <2>2, <2>4, <3>1, <3>3 DEF Shl, take
    <3> QED BY <3>2, <3>3
  <2> QED BY <2>3, <2>4 DEF take
<1>4. CASE ~msb
  <2> DEFINE k == r - from
  <2>1. Placed(from) = Shl(Chunk(arg.value, arg.bits - left, take), from)
    BY <1>4 DEF Placed
  <2>2. BitIndex(r) = r
    BY <1>4 DEF BitIndex
  <2> HIDE DEF take
  <2>3. CASE r \in from .. from + take - 1
    <3>1. /\ r >= from /\ k \in 0 .. W - 1 /\ k < take /\ k + (arg.bits - left) < MaxBits
          /\ k + (arg.bits - left) = Done + (r - from)
      BY <1>1, <1>2, <2>3 DEF Done
    <3>2. Placed(from)[BitIndex(r)] = Chunk(arg.value, arg.bits - left, take)[k]
      BY <2>1, <2>2, <3>1 DEF Shl
    <3>3. Chunk(arg.value, arg.bits - left, take)[k] = arg.value[k + (arg.bits - left)]
      BY <3>1 DEF Chunk
    <3> QED BY <1>4, <2>3, <3>1, <3>2, <3>3 DEF WireBit, take
  <2>4. CASE r \notin from .. from + take - 1
    <3>1. CASE r >= from
      <4>1. k \in 0 .. W - 1 /\ ~(k < take)
        BY <1>1, <1>2, <2>4, <3>1
      <4>2. Chunk(arg.value, arg.bits - left, take)[k] = 0
        BY <4>1 DEF Chunk
      <4> QED BY <2>1, <2>2, <2>4, <3>1, <4>2 DEF Shl, take
    <3>2. CASE ~(r >= from)
      BY <2>1, <2>2, <2>4, <3>2 DEF Shl, take
    <3> QED BY <3>1, <3>2
  <2> QED BY <2>3, <2>4 DEF take
<1> QED BY <1>3, <1>4

----------------------------------------------------------------------------
(* Bits of the buffer. *)
LEMMA BitAt ==
    ASSUME NEW bytes, NEW q \in Nat, NEW r \in 0 .. W - 1
    PROVE  BitOf(bytes, W * q + r) = bytes[base + q + 1][BitIndex(r)]
BY Unique, Zenon DEF BitOf

(* The byte a bit is in is there, and holds bits.                          *)
LEMMA BitIsThere ==
    ASSUME NEW bytes \in Seq(Byte), base \in Nat, base <= Len(bytes),
           NEW k \in Nat, k < W * (Len(bytes) - base)
    PROVE  base + k \div W + 1 \in 1 .. Len(bytes) /\ BitOf(bytes, k) \in {0, 1}
<1> DEFINE q == k \div W
           r == k % W
<1>1. q \in Nat /\ r \in 0 .. W - 1 /\ k = W * q + r
  BY Coordinates
<1> HIDE DEF q, r
<1>2. q < Len(bytes) - base
  <2>1. W * q \in Int /\ Len(bytes) - base \in Int /\ W * (Len(bytes) - base) \in Int
    BY <1>1, Product
  <2>2. W * q < W * (Len(bytes) - base)
    BY <1>1, <2>1
  <2> QED BY <1>1, <2>1, <2>2, Product
<1>3. base + q + 1 \in 1 .. Len(bytes)
  <2>1. Len(bytes) \in Nat
    OBVIOUS
  <2> QED BY <1>1, <1>2, <2>1
<1>4. bytes[base + q + 1] \in Byte /\ BitIndex(r) \in 0 .. W - 1
  BY <1>1, <1>3, WordTypes
<1>5. bytes[base + q + 1][BitIndex(r)] \in {0, 1}
  BY <1>4 DEF Byte
<1> QED BY <1>3, <1>5 DEF BitOf, q, r

(* A byte that differs from an old one in the bits of a chunk alone.       *)
Puts(byte, old, from, take) ==
    \A m \in 0 .. W - 1 :
        byte[BitIndex(m)] = IF m \in from .. from + take - 1 THEN WireBit(Done + (m - from))
                            ELSE old[BitIndex(m)]

(* One byte is overwritten, and of it only the bits of a chunk.            *)
LEMMA PutBits ==
    ASSUME NEW bytes \in Seq(Byte), base \in Nat, base <= Len(bytes), NEW q \in Nat,
           base + q + 1 <= Len(bytes),
           NEW from \in 0 .. W - 1, NEW take \in Nat, from + take <= W, NEW byte \in Byte,
           Puts(byte, bytes[base + q + 1], from, take),
           NEW k \in Nat, k < W * (Len(bytes) - base)
    PROVE  BitOf([bytes EXCEPT ![base + q + 1] = byte], k) =
             IF k \in W * q + from .. W * q + from + take - 1
             THEN WireBit(Done + (k - (W * q + from))) ELSE BitOf(bytes, k)
<1> DEFINE a == k \div W
           r == k % W
           n == base + q + 1
           after == [bytes EXCEPT ![n] = byte]
<1>1. /\ a \in Nat /\ r \in 0 .. W - 1 /\ k = W * a + r /\ W \in Nat
      /\ BitOf(after, k) = after[base + a + 1][BitIndex(r)]
      /\ BitOf(bytes, k) = bytes[base + a + 1][BitIndex(r)]
  BY Coordinates, CursorAssumption DEF BitOf
<1>2. base + a + 1 \in 1 .. Len(bytes)
  BY BitIsThere
<1> HIDE DEF a, r
<1>3. /\ after[n] = byte /\ n \in 1 .. Len(bytes)
      /\ \A m \in 1 .. Len(bytes) : m # n => after[m] = bytes[m]
  BY Overwrite
<1> HIDE DEF after
<1> DEFINE start == W * q
           other == W * a
<1>4. /\ start \in Int /\ other \in Int /\ k = other + r /\ a \in Int /\ q \in Int
      /\ r \in 0 .. W - 1 /\ W \in Nat /\ (a = q => start = other)
  BY <1>1, Product
<1>5. /\ a < q => other + W <= start
      /\ q < a => start + W <= other
  BY <1>4, Product, Zenon
<1> HIDE DEF start, other
<1> DEFINE own == k \in start + from .. start + from + take - 1
           Put == BitOf(after, k) = IF own THEN WireBit(Done + (k - (start + from)))
                                    ELSE BitOf(bytes, k)
<1>6. ASSUME a = q PROVE Put
  <2>1. BitOf(after, k) = byte[BitIndex(r)]
    BY <1>1, <1>3, <1>6
  <2>2. CASE r \in from .. from + take - 1
    <3>1. k \in start + from .. start + from + take - 1 /\ k - (start + from) = r - from
      BY <1>4, <1>6, <2>2
    <3>2. byte[BitIndex(r)] = WireBit(Done + (r - from))
      BY <1>1, <2>2 DEF Puts
    <3>3. WireBit(Done + (k - (start + from))) = WireBit(Done + (r - from))
      BY <3>1, Zenon
    <3> QED BY <2>1, <3>1, <3>2, <3>3, Zenon
  <2>3. CASE r \notin from .. from + take - 1
    <3>1. k \notin start + from .. start + from + take - 1
      BY <1>4, <1>6, <2>3
    <3>2. byte[BitIndex(r)] = bytes[n][BitIndex(r)] /\ BitOf(bytes, k) = bytes[n][BitIndex(r)]
      BY <1>1, <1>6, <2>3 DEF Puts
    <3> QED BY <2>1, <3>1, <3>2, Zenon
  <2> QED BY <2>2, <2>3
<1>7. ASSUME a # q PROVE Put
  <2>1. k \notin start + from .. start + from + take - 1
    <3>1. CASE a < q
      BY <1>4, <1>5, <3>1
    <3>2. CASE q < a
      BY <1>4, <1>5, <3>2
    <3> QED BY <1>4, <1>7, <3>1, <3>2
  <2>2. after[base + a + 1] = bytes[base + a + 1]
    BY <1>1, <1>2, <1>3, <1>7
  <2> QED BY <1>1, <2>1, <2>2
<1>8. Put
  BY <1>6, <1>7
<1> QED BY <1>8 DEF after, start

----------------------------------------------------------------------------
(* Where the cursor is. *)
LEMMA PositionIs ==
    ASSUME Typed
    PROVE  /\ Own \in Nat /\ Position \in Nat /\ W * Own \in Nat
           /\ Position <= W * Own /\ W * Own < Position + W
           /\ used = 0 => Position = W * Own
           /\ used > 0 => Own > 0 /\ Position = W * (Own - 1) + used
<1>1. W \in Nat /\ W > 0 /\ used \in 0 .. W - 1 /\ Own \in Nat /\ (used > 0 => Own > 0)
  BY CursorAssumption DEF Typed, Own
<1>2. Position = W * Own - (IF used = 0 THEN 0 ELSE W - used) /\ W * Own \in Int
  BY <1>1, Product DEF Position, Own
<1>3. W * Own = W * (Own - 1) + W /\ W * (Own - 1) \in Int
  BY <1>1, Product
<1>4. W * Own >= 0 /\ (used > 0 => W * (Own - 1) >= 0)
  BY <1>1
<1> QED BY <1>1, <1>2, <1>3, <1>4

LEMMA PadBits ==
    ASSUME Typed, PadIsZero, NEW k \in Position .. W * Own - 1
    PROVE  BitOf(out, k) = 0
<1>1. W \in Nat /\ used \in 0 .. W - 1 /\ Own \in Nat /\ base + Own = Len(out)
  BY CursorAssumption DEF Typed, Own
<1>2. used > 0 /\ Own - 1 \in Nat /\ Position = W * (Own - 1) + used /\ W * (Own - 1) \in Int
  BY <1>1, PositionIs, Product
<1> DEFINE r == k - W * (Own - 1)
<1>3. r \in used .. W - 1 /\ k = W * (Own - 1) + r
  <2>1. W * Own = W * (Own - 1) + W
    BY <1>1, Product
  <2> QED BY <1>1, <1>2, <2>1, PositionIs
<1> HIDE DEF r
<1>4. BitOf(out, k) = out[base + (Own - 1) + 1][BitIndex(r)]
  BY <1>1, <1>2, <1>3, BitAt
<1>5. base + (Own - 1) + 1 = Len(out)
  BY <1>1 DEF Typed
<1> QED BY <1>2, <1>3, <1>4, <1>5 DEF PadIsZero

----------------------------------------------------------------------------
(* The invariant. *)

(* What of the running field is done is in the buffer, or in the value.     *)
Writes ==
    pc = "write" =>
        /\ arg.value \in Values /\ arg.bits \in 0 .. MaxBits /\ left <= arg.bits
        /\ mark.position = (mark.len - base) * W - (IF mark.used = 0 THEN 0 ELSE W - mark.used)
        /\ mark.position \in Nat /\ Position = mark.position + Done
        /\ \A k \in 0 .. Done - 1 : BitOf(out, mark.position + k) = WireBit(k)

Patches ==
    pc = "patch" =>
        /\ arg.value \in Values /\ arg.bits \in 0 .. MaxBits /\ left <= arg.bits
        /\ arg.at \in Nat /\ arg.at + arg.bits <= Position /\ cur = arg.at + Done
        /\ \A k \in 0 .. Done - 1 : BitOf(out, arg.at + k) = WireBit(k)

Reads ==
    pc = "read" =>
        /\ arg.bits \in 0 .. MaxBits /\ left \in 0 .. arg.bits
        /\ mark.position \in Nat /\ at = mark.position + Done
        /\ mark.position + arg.bits <= W * Own
        /\ value \in Value
        /\ \A k \in 0 .. MaxBits - 1 :
             value[k] = IF k < Done
                        THEN BitOf(out, IF msb THEN at - 1 - k ELSE mark.position + k) ELSE 0

(* The buffer is never over its size.                                      *)
Fits ==
    /\ cap \in Caps /\ Len(out) <= cap /\ at \in Nat
    /\ mark \in [len : Int, used : Int, position : Int]

RInv == IInv /\ Writes /\ Patches /\ Reads /\ Fits

(* Where the reader is for BitStream: a read that runs has not moved it.    *)
Pos == IF pc = "read" THEN mark.position ELSE at

Implements == [Abstract!Next]_(Abstract!vars)

----------------------------------------------------------------------------
(* The stream. *)
LEMMA StreamIs ==
    /\ pc # "patch" =>
         Stream = [k \in 1 .. IF pc = "write" THEN mark.position ELSE Position |-> BitOf(out, k - 1)]
    /\ pc = "patch" =>
         Stream = [k \in 1 .. Position |-> IF k - 1 - arg.at \in 0 .. arg.bits - 1
                                            THEN WireBit(k - 1 - arg.at) ELSE BitOf(out, k - 1)]
BY DEF Stream, BitOf, WireBit

LEMMA StreamIsNext ==
    /\ pc' # "patch" =>
         Stream' = [k \in 1 .. IF pc' = "write" THEN mark'.position ELSE Position' |->
                        BitOf(out, k - 1)']
    /\ pc' = "patch" =>
         Stream' = [k \in 1 .. Position' |-> IF k - 1 - arg'.at \in 0 .. arg'.bits - 1
                                             THEN WireBit(k - 1 - arg.at)' ELSE BitOf(out, k - 1)']
BY DEF Stream, BitOf, WireBit

LEMMA BitOfNext ==
    ASSUME base' = base, msb' = msb, NEW k
    PROVE  BitOf(out, k)' = BitOf(out', k)
BY DEF BitOf, BitIndex

LEMMA WireBitType ==
    ASSUME arg.value \in Value, arg.bits \in 0 .. MaxBits, NEW d \in 0 .. arg.bits - 1
    PROVE  WireBit(d) \in {0, 1}
<1>1. d \in 0 .. MaxBits - 1 /\ arg.bits - 1 - d \in 0 .. MaxBits - 1
  BY CursorAssumption
<1> QED BY <1>1 DEF WireBit, Value

(* The bits before the cursor are there.                                   *)
LEMMA PrefixType ==
    ASSUME Typed, NEW k \in 1 .. Position
    PROVE  BitOf(out, k - 1) \in {0, 1}
<1>1. Position \in Nat /\ W * Own \in Nat /\ Position <= W * Own
  BY PositionIs
<1>2. k - 1 \in Nat /\ k - 1 < W * Own
  BY <1>1
<1> QED BY <1>2, BitIsThere DEF Typed, Own

(* The bytes the stream touches are those the writer appended.             *)
LEMMA TouchesOwn ==
    ASSUME Typed
    PROVE  CeilDiv(Position) = Own
<1>1. Own \in Nat /\ Position \in Nat /\ Position <= W * Own /\ W * Own < Position + W
  BY PositionIs
<1>2. CeilDiv(Position) \in Nat /\ CeilDiv(Position) <= Own
  BY <1>1, Touches
<1>3. ASSUME CeilDiv(Position) < Own PROVE FALSE
  <2>1. Own - 1 \in Nat /\ CeilDiv(Position) <= Own - 1
    BY <1>1, <1>2, <1>3
  <2>2. Position <= W * (Own - 1)
    BY <1>1, <2>1, Touches
  <2>3. W * Own = W * (Own - 1) + W /\ W * Own \in Int /\ W * (Own - 1) \in Int
    BY <1>1, Product
  <2>4. W \in Nat
    BY CursorAssumption
  <2> QED BY <1>1, <2>2, <2>3, <2>4
<1> QED BY <1>1, <1>2, <1>3

----------------------------------------------------------------------------
(* Steps of the stream. *)
LEMMA Stutters ==
    ASSUME msb' = msb, cap' = cap, base' = base, answer' = answer, Stream' = Stream, Pos' = Pos
    PROVE  Implements
BY DEF Implements, Abstract!vars, Pos

LEMMA ImplementsWrite ==
    ASSUME msb' = msb, cap' = cap, base' = base, Pos' = Pos,
           NEW v \in Values, NEW n \in 0 .. MaxBits,
           \/ /\ CeilDiv(Len(Stream) + n) <= cap - base
              /\ Stream' = Stream \o [k \in 1 .. n |-> IF msb THEN v[n - k] ELSE v[k - 1]]
              /\ answer' = Answered("written", ZeroValue)
           \/ /\ ~(CeilDiv(Len(Stream) + n) <= cap - base)
              /\ Stream' = Stream
              /\ answer' = Answered("overflow", ZeroValue)
    PROVE  Implements
<1>1. Abstract!Write
  BY DEF Abstract!Write, Abstract!Touched, CeilDiv, Abstract!WireBits, Abstract!Answered,
         Answered, Abstract!Zero, ZeroValue, Pos
<1> QED BY <1>1 DEF Implements, Abstract!Next

LEMMA ImplementsPatch ==
    ASSUME msb' = msb, cap' = cap, base' = base, Pos' = Pos, answer' = answer,
           NEW v \in Values, NEW n \in 0 .. MaxBits, NEW p \in 0 .. Len(Stream) - n,
           Stream' = [k \in 1 .. Len(Stream) |->
                        IF k - p \in 1 .. n THEN (IF msb THEN v[n - (k - p)] ELSE v[k - p - 1])
                        ELSE Stream[k]]
    PROVE  Implements
<1>1. Abstract!WireBits(v, n) = [k \in 1 .. n |-> IF msb THEN v[n - k] ELSE v[k - 1]]
  BY DEF Abstract!WireBits
<1>2. \A k \in 1 .. Len(Stream) : k - p \in 1 .. n =>
        Abstract!WireBits(v, n)[k - p] = IF msb THEN v[n - (k - p)] ELSE v[k - p - 1]
  BY <1>1
<1>3. Stream' = [k \in 1 .. Len(Stream) |->
                   IF k - p \in 1 .. n THEN Abstract!WireBits(v, n)[k - p] ELSE Stream[k]]
  BY <1>2
<1>4. Abstract!Patch
  BY <1>3 DEF Abstract!Patch, Pos
<1> QED BY <1>4 DEF Implements, Abstract!Next

LEMMA ImplementsRead ==
    ASSUME msb' = msb, cap' = cap, base' = base, Stream' = Stream, NEW n \in 0 .. MaxBits,
           \/ /\ CeilDiv(Saturated(Pos + n)) <= CeilDiv(Len(Stream))
              /\ answer' = Answered("read", Abstract!ValueOf(SubSeq(Abstract!Padded, Pos + 1, Pos + n), n))
              /\ Pos' = Pos + n
           \/ /\ ~(CeilDiv(Saturated(Pos + n)) <= CeilDiv(Len(Stream)))
              /\ answer' = Answered("short", ZeroValue)
              /\ Pos' = Pos
    PROVE  Implements
<1>1. Abstract!Read
  BY DEF Abstract!Read, Abstract!Touched, CeilDiv, Abstract!Saturated, Saturated, Abstract!Answered,
         Answered, Abstract!Zero, ZeroValue, Pos
<1> QED BY <1>1 DEF Implements, Abstract!Next

LEMMA ImplementsSkip ==
    ASSUME msb' = msb, cap' = cap, base' = base, Stream' = Stream, NEW n \in 0 .. PosMax,
           \/ /\ CeilDiv(Saturated(Pos + n)) <= CeilDiv(Len(Stream))
              /\ answer' = Answered("skipped", ZeroValue) /\ Pos' = Pos + n
           \/ /\ ~(CeilDiv(Saturated(Pos + n)) <= CeilDiv(Len(Stream)))
              /\ answer' = Answered("short", ZeroValue) /\ Pos' = Pos
    PROVE  Implements
<1>1. Abstract!Skip
  BY DEF Abstract!Skip, Abstract!Touched, CeilDiv, Abstract!Saturated, Saturated, Abstract!Answered,
         Answered, Abstract!Zero, ZeroValue, Pos
<1> QED BY <1>1 DEF Implements, Abstract!Next

----------------------------------------------------------------------------
(* Calls and answers. *)
LEMMA WriteCallRefines ==
    ASSUME RInv, NEW v \in Values, NEW n \in 0 .. MaxBits, WriteCall(v, n)
    PROVE  Writes' /\ Patches' /\ Reads' /\ Fits' /\ Implements
<1>1. /\ pc = "idle" /\ pc' = "write" /\ arg' = [value |-> v, bits |-> n, at |-> 0] /\ left' = n
      /\ mark' = [len |-> Len(out), used |-> used, position |-> Position]
      /\ msb' = msb /\ cap' = cap /\ out' = out /\ base' = base /\ used' = used /\ at' = at
      /\ answer' = answer
  BY DEF WriteCall, Call, buffer, writer
<1>2. Typed /\ Fits /\ n \in Nat /\ Position \in Nat
  BY PositionIs, CursorAssumption DEF RInv, IInv
<1>3. Position' = Position /\ Done' = 0
  BY <1>1, <1>2 DEF Position, Done
<1>4. Writes' /\ Patches' /\ Reads'
  BY <1>1, <1>2, <1>3 DEF Writes, Patches, Reads, Position
<1>5. Fits'
  BY <1>1, <1>2 DEF Fits, Typed
<1>6. Stream' = Stream
  <2>1. \A k : BitOf(out, k)' = BitOf(out, k)
    BY <1>1 DEF BitOf, BitIndex
  <2>2. Stream = [k \in 1 .. Position |-> BitOf(out, k - 1)]
    BY <1>1, StreamIs
  <2>3. Stream' = [k \in 1 .. Position |-> BitOf(out, k - 1)']
    BY <1>1, StreamIsNext
  <2> QED BY <2>1, <2>2, <2>3
<1>7. Pos' = Pos
  BY <1>1 DEF Pos
<1> QED BY <1>1, <1>4, <1>5, <1>6, <1>7, Stutters

LEMMA WriteReturnsRefines ==
    ASSUME RInv, WriteReturns
    PROVE  Writes' /\ Patches' /\ Reads' /\ Fits' /\ Implements
<1>1. /\ pc = "write" /\ pc' = "idle" /\ left = 0
      /\ arg' = arg /\ left' = left /\ mark' = mark
      /\ msb' = msb /\ cap' = cap /\ out' = out /\ base' = base /\ used' = used /\ at' = at
      /\ answer' = Answered("written", ZeroValue)
  BY DEF WriteReturns, buffer, writer, local
<1> DEFINE n == arg.bits
           v == arg.value
<1>2. /\ Typed /\ Fits /\ Writes /\ v \in Values /\ n \in 0 .. MaxBits /\ n \in Nat
      /\ Done = n /\ mark.position \in Nat /\ Position = mark.position + n
      /\ \A k \in 0 .. n - 1 : BitOf(out, mark.position + k) = WireBit(k)
  BY <1>1, CursorAssumption DEF RInv, IInv, Writes, Done
<1>3. Position' = Position
  BY <1>1 DEF Position
<1>4. Writes' /\ Patches' /\ Reads' /\ Fits'
  BY <1>1, <1>2 DEF Writes, Patches, Reads, Fits
<1>5. Stream = [k \in 1 .. mark.position |-> BitOf(out, k - 1)] /\ Len(Stream) = mark.position
  <2>1. Stream = [k \in 1 .. mark.position |-> BitOf(out, k - 1)]
    BY <1>1, StreamIs
  <2> QED BY <1>2, <2>1
<1>6. Stream' = [k \in 1 .. mark.position + n |-> BitOf(out, k - 1)]
  <2>1. \A k : BitOf(out, k)' = BitOf(out, k)
    BY <1>1 DEF BitOf, BitIndex
  <2> QED BY <1>1, <1>2, <1>3, <2>1, StreamIsNext
<1>7. Stream' = Stream \o [k \in 1 .. n |-> IF msb THEN v[n - k] ELSE v[k - 1]]
  <2> DEFINE t == [k \in 1 .. n |-> IF msb THEN v[n - k] ELSE v[k - 1]]
  <2>1. ASSUME NEW d \in 0 .. n - 1 PROVE t[d + 1] = WireBit(d) /\ WireBit(d) \in {0, 1}
    <3>1. d + 1 \in 1 .. n /\ n - (d + 1) = n - 1 - d /\ d + 1 - 1 = d
      BY <1>2
    <3>2. v \in Value
      BY <1>2, CursorAssumption
    <3> QED BY <1>2, <3>1, <3>2, WireBitType DEF WireBit
  <2>2. \A k \in 1 .. n : t[k] = WireBit(k - 1) /\ t[k] \in {0, 1}
    <3> SUFFICES ASSUME NEW k \in 1 .. n PROVE t[k] = WireBit(k - 1) /\ t[k] \in {0, 1}
      OBVIOUS
    <3>1. k - 1 \in 0 .. n - 1 /\ (k - 1) + 1 = k
      BY <1>2
    <3> HIDE DEF t
    <3> QED BY <2>1, <3>1
  <2>3. t \in Seq({0, 1}) /\ Len(t) = n
    <3>1. t = [k \in 1 .. n |-> t[k]]
      OBVIOUS
    <3> HIDE DEF t
    <3>2. [k \in 1 .. n |-> t[k]] \in Seq({0, 1}) /\ Len([k \in 1 .. n |-> t[k]]) = n
      BY <1>2, <2>2
    <3> QED BY <3>1, <3>2, Zenon
  <2> HIDE DEF t
  <2>4. Stream \in Seq({0, 1}) /\ Stream' \in Seq({0, 1}) /\ Len(Stream') = mark.position + n
    <3>1. \A k \in 1 .. mark.position + n : BitOf(out, k - 1) \in {0, 1}
      BY <1>2, PrefixType
    <3>2. Stream \in Seq({0, 1})
      <4>1. mark.position \in Nat /\ \A k \in 1 .. mark.position : BitOf(out, k - 1) \in {0, 1}
        BY <1>2, <3>1
      <4>2. [k \in 1 .. mark.position |-> BitOf(out, k - 1)] \in Seq({0, 1})
        BY <4>1
      <4> QED BY <1>5, <4>2, Zenon
    <3>3. Stream' \in Seq({0, 1}) /\ Len(Stream') = mark.position + n
      BY <1>2, <1>6, <3>1
    <3> QED BY <3>2, <3>3
  <2>5. /\ Stream \o t \in Seq({0, 1}) /\ Len(Stream \o t) = mark.position + n
        /\ \A k \in 1 .. mark.position + n :
             (Stream \o t)[k] = IF k <= mark.position THEN Stream[k] ELSE t[k - mark.position]
    BY <1>2, <1>5, <2>3, <2>4, ConcatProperties
  <2>6. ASSUME NEW k \in 1 .. mark.position + n
        PROVE  BitOf(out, k - 1) = IF k <= mark.position THEN Stream[k] ELSE t[k - mark.position]
    <3>1. CASE k <= mark.position
      BY <1>2, <1>5, <3>1
    <3>2. CASE ~(k <= mark.position)
      <4> DEFINE d == k - 1 - mark.position
      <4>1. d \in 0 .. n - 1 /\ k - 1 = mark.position + d /\ k - mark.position = d + 1
        BY <1>2, <3>2
      <4> HIDE DEF d
      <4>2. BitOf(out, k - 1) = WireBit(d)
        BY <1>2, <4>1
      <4> QED BY <2>1, <3>2, <4>1, <4>2
    <3> QED BY <3>1, <3>2
  <2>7. \A k \in 1 .. mark.position + n : Stream'[k] = (Stream \o t)[k]
    BY <1>6, <2>5, <2>6
  <2>8. Stream' = Stream \o t
    BY <2>4, <2>5, <2>7, SeqEqual
  <2> QED BY <2>8 DEF t
<1>8. CeilDiv(Len(Stream) + n) <= cap - base
  <2>1. Own \in Nat /\ cap - base \in Nat /\ Own <= cap - base /\ Position \in Nat
    BY <1>2, PositionIs, CursorAssumption DEF Fits, Typed, Own
  <2>2. CeilDiv(Position) = Own
    BY <1>2, TouchesOwn
  <2> QED BY <1>2, <1>5, <2>1, <2>2
<1>9. Pos' = Pos
  BY <1>1 DEF Pos
<1> HIDE DEF n, v
<1> QED BY <1>1, <1>2, <1>4, <1>7, <1>8, <1>9, ImplementsWrite

LEMMA PatchCallRefines ==
    ASSUME RInv, NEW v \in Values, NEW n \in 0 .. MaxBits, NEW p \in 0 .. Position - n,
           PatchCall(v, n, p)
    PROVE  Writes' /\ Patches' /\ Reads' /\ Fits' /\ Implements
<1>1. /\ pc = "idle" /\ pc' = "patch" /\ arg' = [value |-> v, bits |-> n, at |-> p]
      /\ left' = n /\ cur' = p /\ mark' = mark
      /\ msb' = msb /\ cap' = cap /\ out' = out /\ base' = base /\ used' = used /\ at' = at
      /\ answer' = answer
  BY DEF PatchCall, Call, buffer, writer
<1>2. Typed /\ Fits /\ n \in Nat /\ Position \in Nat /\ p \in Nat /\ p + n <= Position
  BY PositionIs, CursorAssumption DEF RInv, IInv
<1>3. Position' = Position /\ Done' = 0
  BY <1>1, <1>2 DEF Position, Done
<1>4. Writes' /\ Patches' /\ Reads'
  BY <1>1, <1>2, <1>3 DEF Writes, Patches, Reads
<1>5. Fits'
  BY <1>1, <1>2 DEF Fits
<1>6. Stream = [k \in 1 .. Position |-> BitOf(out, k - 1)] /\ Len(Stream) = Position
  <2>1. Stream = [k \in 1 .. Position |-> BitOf(out, k - 1)]
    BY <1>1, StreamIs
  <2> QED BY <1>2, <2>1
<1>7. Stream' = [k \in 1 .. Position |->
                   IF k - p \in 1 .. n THEN (IF msb THEN v[n - (k - p)] ELSE v[k - p - 1])
                   ELSE Stream[k]]
  <2>1. Stream' = [k \in 1 .. Position |-> IF k - 1 - p \in 0 .. n - 1
                     THEN WireBit(k - 1 - arg.at)' ELSE BitOf(out, k - 1)']
    BY <1>1, <1>3, StreamIsNext
  <2>2. ASSUME NEW k \in 1 .. Position
        PROVE  /\ k - 1 - p \in 0 .. n - 1 <=> k - p \in 1 .. n
               /\ WireBit(k - 1 - arg.at)' = IF msb THEN v[n - (k - p)] ELSE v[k - p - 1]
               /\ BitOf(out, k - 1)' = Stream[k]
    <3>1. n - 1 - (k - 1 - p) = n - (k - p) /\ k - 1 - p = k - p - 1
      BY <1>2
    <3>2. k - 1 - p \in 0 .. n - 1 <=> k - p \in 1 .. n
      BY <1>2
    <3>3. WireBit(k - 1 - arg.at)' = IF msb THEN v[n - (k - p)] ELSE v[k - p - 1]
      BY <1>1, <3>1 DEF WireBit
    <3>4. BitOf(out, k - 1)' = Stream[k]
      BY <1>1, <1>6, BitOfNext
    <3> QED BY <3>2, <3>3, <3>4
  <2> QED BY <2>1, <2>2
<1>8. Pos' = Pos
  BY <1>1 DEF Pos
<1> QED BY <1>1, <1>4, <1>5, <1>6, <1>7, <1>8, ImplementsPatch

LEMMA PatchReturnsRefines ==
    ASSUME RInv, PatchReturns
    PROVE  Writes' /\ Patches' /\ Reads' /\ Fits' /\ Implements
<1>1. /\ pc = "patch" /\ pc' = "idle" /\ left = 0 /\ arg' = arg /\ mark' = mark
      /\ msb' = msb /\ cap' = cap /\ out' = out /\ base' = base /\ used' = used /\ at' = at
      /\ answer' = answer
  BY DEF PatchReturns, buffer, writer, local
<1>2. /\ Typed /\ Fits /\ arg.bits \in Nat /\ arg.at \in Nat /\ Done = arg.bits /\ Position \in Nat
      /\ \A k \in 0 .. arg.bits - 1 : BitOf(out, arg.at + k) = WireBit(k)
  BY <1>1, PositionIs, CursorAssumption DEF RInv, IInv, Patches, Done
<1>3. Position' = Position
  BY <1>1 DEF Position
<1>4. Writes' /\ Patches' /\ Reads' /\ Fits'
  BY <1>1, <1>2 DEF Writes, Patches, Reads, Fits
<1>5. Stream' = Stream
  <2>1. Stream = [k \in 1 .. Position |-> IF k - 1 - arg.at \in 0 .. arg.bits - 1
                                          THEN WireBit(k - 1 - arg.at) ELSE BitOf(out, k - 1)]
    BY <1>1, StreamIs
  <2>2. ASSUME NEW k \in 1 .. Position, k - 1 - arg.at \in 0 .. arg.bits - 1
        PROVE  WireBit(k - 1 - arg.at) = BitOf(out, k - 1)
    <3>1. k - 1 = arg.at + (k - 1 - arg.at)
      BY <1>2
    <3> QED BY <1>2, <2>2, <3>1, Zenon
  <2>3. \A k : BitOf(out, k)' = BitOf(out, k)
    BY <1>1 DEF BitOf, BitIndex
  <2>4. Stream' = [k \in 1 .. Position |-> BitOf(out, k - 1)]
    BY <1>1, <1>3, <2>3, StreamIsNext
  <2> QED BY <2>1, <2>2, <2>4
<1>6. Pos' = Pos
  BY <1>1 DEF Pos
<1> QED BY <1>1, <1>4, <1>5, <1>6, Stutters

----------------------------------------------------------------------------
(* A turn of append's loop puts the next bits of the field at the cursor,   *)
(* which moves past them.                                                   *)
LEMMA AppendBits ==
    ASSUME Typed, PadIsZero, WriteChunk,
           arg.value \in Value, arg.bits \in 0 .. MaxBits, left \in Nat, left <= arg.bits, cap \in Nat
    PROVE  /\ Position' = Position + Take(used)
           /\ \A k \in 0 .. Position - 1 : BitOf(out, k)' = BitOf(out, k)
           /\ \A k \in Position .. Position + Take(used) - 1 :
                BitOf(out, k)' = WireBit(Done + (k - Position))
           /\ Len(out') >= Len(out) /\ (Len(out) <= cap => Len(out') <= cap)
<1> DEFINE pushed == IF used = 0 THEN Append(out, ZeroByte) ELSE out
           last == Len(pushed)
           byte == Or(pushed[last], Placed(used))
           take == Take(used)
           q == last - base - 1
<1>1. /\ left > 0 /\ ~Full /\ out' = [pushed EXCEPT ![last] = byte]
      /\ used' = (used + take) % W /\ msb' = msb /\ base' = base
  BY DEF WriteChunk
<1>2. W \in Nat /\ W > 0 /\ used \in 0 .. W - 1 /\ base \in Nat /\ base <= Len(out) /\ arg.bits \in Nat
  BY CursorAssumption DEF Typed
<1>3. /\ take \in Nat /\ take > 0 /\ used + take <= W
  BY <1>1, <1>2, PlacedIsWithin DEF Typed
<1> HIDE DEF take
<1>4. /\ pushed \in Seq(Byte) /\ last \in Nat /\ base < last /\ Len(out) <= last
      /\ last = Len(out) + (IF used = 0 THEN 1 ELSE 0)
      /\ \A n \in 1 .. Len(out) : pushed[n] = out[n]
  BY <1>2, WordTypes DEF Typed
<1>5. \A m \in used .. W - 1 : pushed[last][BitIndex(m)] = 0
  <2>1. CASE used = 0
    <3>1. pushed[last] = ZeroByte
      BY <2>1 DEF Typed
    <3> QED BY <2>1, <3>1, WordTypes
  <2>2. CASE used # 0
    BY <1>2, <2>2 DEF PadIsZero
  <2> QED BY <2>1, <2>2
<1> HIDE DEF pushed, last
<1>6. q \in Nat /\ base + q + 1 = last /\ last \in 1 .. Len(pushed)
  BY <1>2, <1>4 DEF last
<1>7. Position = W * q + used /\ Position \in Nat /\ W * q \in Int /\ W * (q + 1) = W * q + W
  <2>1. W * q \in Int /\ W * (q + 1) = W * q + W
    BY <1>6, Product
  <2>2. CASE used = 0
    <3>1. q = Own
      BY <1>2, <1>4, <2>2 DEF Own, Typed
    <3> QED BY <2>1, <2>2, <3>1, PositionIs
  <2>3. CASE used > 0
    <3>1. q = Own - 1
      BY <1>2, <1>4, <2>3 DEF Own, Typed
    <3> QED BY <2>1, <2>3, <3>1, PositionIs
  <2> QED BY <1>2, <2>1, <2>2, <2>3
<1>8. Puts(byte, pushed[last], used, take)
  <2> SUFFICES ASSUME NEW m \in 0 .. W - 1
               PROVE  byte[BitIndex(m)] = IF m \in used .. used + take - 1
                                          THEN WireBit(Done + (m - used))
                                          ELSE pushed[last][BitIndex(m)]
    BY DEF Puts
  <2> DEFINE x == BitIndex(m)
             a == pushed[last]
             b == Placed(used)
  <2>1. x \in 0 .. W - 1 /\ a[x] \in {0, 1} /\ byte[x] = IF a[x] = 1 \/ b[x] = 1 THEN 1 ELSE 0
    <3>1. x \in 0 .. W - 1
      BY WordTypes
    <3>2. a \in Byte
      BY <1>4, <1>6
    <3> QED BY <3>1, <3>2 DEF Or, Byte
  <2>2. b[x] = IF m \in used .. used + take - 1 THEN WireBit(Done + (m - used)) ELSE 0
    BY <1>2, PlacedIsField DEF Typed, take
  <2> HIDE DEF x, a, b
  <2>3. CASE m \in used .. used + take - 1
    <3>1. Done + (m - used) \in 0 .. arg.bits - 1 /\ m \in used .. W - 1
      <4>1. take <= left
        BY <1>1, <1>2, PlacedIsWithin DEF Typed, take
      <4> QED BY <1>2, <1>3, <2>3, <4>1 DEF Done
    <3>2. WireBit(Done + (m - used)) \in {0, 1} /\ a[x] = 0
      BY <1>5, <3>1, WireBitType DEF a, x
    <3> QED BY <2>1, <2>2, <2>3, <3>2 DEF x
  <2>4. CASE m \notin used .. used + take - 1
    BY <2>1, <2>2, <2>4 DEF a, x
  <2> QED BY <2>3, <2>4
<1>9. byte \in Byte
  BY WordTypes
<1> HIDE DEF q, byte
<1>10. ASSUME NEW k \in Nat, k < Position + take
       PROVE  BitOf(out, k)' = IF k \in Position .. Position + take - 1
                               THEN WireBit(Done + (k - Position)) ELSE BitOf(pushed, k)
  <2>1. W * (Len(pushed) - base) = W * (q + 1)
    <3>1. Len(pushed) - base = q + 1
      BY <1>2, <1>6, <1>4 DEF last, q
    <3> QED BY <3>1
  <2>2. k < W * (Len(pushed) - base)
    BY <1>2, <1>3, <1>7, <1>10, <2>1
  <2>3. BitOf([pushed EXCEPT ![base + q + 1] = byte], k) =
          IF k \in W * q + used .. W * q + used + take - 1
          THEN WireBit(Done + (k - (W * q + used))) ELSE BitOf(pushed, k)
    <3>1. base + q + 1 <= Len(pushed) /\ base <= Len(pushed)
      BY <1>2, <1>4, <1>6 DEF last
    <3>2. Puts(byte, pushed[base + q + 1], used, take)
      BY <1>6, <1>8
    <3>3. /\ used \in 0 .. W - 1 /\ take \in Nat /\ used + take <= W /\ base \in Nat
          /\ pushed \in Seq(Byte) /\ q \in Nat /\ k \in Nat
      BY <1>2, <1>3, <1>4, <1>6
    <3> QED BY <1>9, <2>2, <3>1, <3>2, <3>3, PutBits
  <2>4. BitOf(out, k)' = BitOf([pushed EXCEPT ![base + q + 1] = byte], k)
    BY <1>1, <1>6, BitOfNext
  <2> QED BY <1>7, <2>3, <2>4
<1>11. \A k \in 0 .. Position - 1 : BitOf(out, k)' = BitOf(out, k)
  <2> SUFFICES ASSUME NEW k \in 0 .. Position - 1 PROVE BitOf(out, k)' = BitOf(out, k)
    OBVIOUS
  <2>1. k \in Nat /\ k < Position + take /\ k \notin Position .. Position + take - 1
    BY <1>3, <1>7
  <2>2. base + k \div W + 1 \in 1 .. Len(out)
    <3>1. k < W * Own
      BY <1>7, <2>1, PositionIs
    <3> QED BY <2>1, <3>1, BitIsThere DEF Own, Typed
  <2>3. BitOf(pushed, k) = BitOf(out, k)
    BY <1>4, <2>2, Zenon DEF BitOf
  <2> QED BY <1>10, <2>1, <2>3
<1>12. \A k \in Position .. Position + take - 1 : BitOf(out, k)' = WireBit(Done + (k - Position))
  <2> SUFFICES ASSUME NEW k \in Position .. Position + take - 1
               PROVE  BitOf(out, k)' = WireBit(Done + (k - Position))
    OBVIOUS
  <2>1. k \in Nat /\ k < Position + take
    BY <1>3, <1>7
  <2> QED BY <1>10, <2>1
<1>13. Len(out') = last
  BY <1>1, <1>4, <1>6, <1>9, Overwrite DEF last
<1>14. Position' = Position + take
  <2>1. Position' = (last - base) * W - (IF used' = 0 THEN 0 ELSE W - used')
    BY <1>1, <1>13 DEF Position
  <2>2. (last - base) * W = W * q + W
    <3>1. last - base = q + 1
      BY <1>2, <1>4 DEF q
    <3> QED BY <1>2, <1>6, <1>7, <3>1, Product
  <2>3. CASE used + take = W
    <3>1. used' = 0
      BY <1>1, <2>3, Wraps
    <3> QED BY <1>2, <1>3, <1>7, <2>1, <2>2, <2>3, <3>1
  <2>4. CASE used + take # W
    <3>1. used + take \in 0 .. W - 1
      BY <1>2, <1>3, <2>4
    <3>2. used' = used + take
      BY <1>1, <3>1, Wraps
    <3> QED BY <1>2, <1>3, <1>7, <2>1, <2>2, <3>1, <3>2
  <2> QED BY <2>3, <2>4
<1>15. Len(out') >= Len(out) /\ (Len(out) <= cap => Len(out') <= cap)
  <2>1. ~(used = 0 /\ Len(out) + 1 > cap)
    BY <1>1 DEF Full
  <2>2. CASE used = 0
    <3>1. Len(out') = Len(out) + 1 /\ Len(out) \in Nat
      BY <1>4, <1>13, <2>2 DEF Typed
    <3> QED BY <2>1, <2>2, <3>1
  <2>3. CASE used # 0
    BY <1>4, <1>13, <2>3 DEF Typed
  <2> QED BY <2>2, <2>3
<1> QED BY <1>11, <1>12, <1>14, <1>15 DEF take

LEMMA WriteChunkRefines ==
    ASSUME RInv, WriteChunk
    PROVE  Writes' /\ Patches' /\ Reads' /\ Fits' /\ Implements
<1> DEFINE take == Take(used)
<1>1. /\ pc = "write" /\ pc' = pc /\ arg' = arg /\ mark' = mark /\ left' = left - take /\ left > 0
      /\ msb' = msb /\ cap' = cap /\ base' = base /\ at' = at /\ answer' = answer
  BY DEF WriteChunk
<1>2. /\ Typed /\ PadIsZero /\ Fits /\ left \in Nat /\ cap \in Nat
      /\ arg.value \in Value /\ arg.bits \in 0 .. MaxBits /\ arg.bits \in Nat /\ left <= arg.bits
      /\ mark.position \in Nat /\ Position = mark.position + Done /\ Done \in Nat
      /\ Done = arg.bits - left
  <2>1. Typed /\ PadIsZero /\ Fits /\ Writing /\ Writes
    BY DEF RInv, IInv
  <2>2. left \in Nat
    BY <1>1, <2>1 DEF Writing
  <2>3. /\ arg.value \in Values /\ arg.bits \in 0 .. MaxBits /\ left <= arg.bits
        /\ mark.position \in Nat /\ Position = mark.position + Done
    BY <1>1, <2>1 DEF Writes
  <2>4. cap \in Nat /\ arg.value \in Value /\ arg.bits \in Nat
    BY <2>1, <2>3, CursorAssumption DEF Fits
  <2>5. Done = arg.bits - left /\ Done \in Nat
    BY <2>2, <2>3, <2>4 DEF Done
  <2> QED BY <2>1, <2>2, <2>3, <2>4, <2>5
<1>3. /\ Position' = Position + take
      /\ \A k \in 0 .. Position - 1 : BitOf(out, k)' = BitOf(out, k)
      /\ \A k \in Position .. Position + take - 1 : BitOf(out, k)' = WireBit(Done + (k - Position))
      /\ Len(out') >= Len(out) /\ (Len(out) <= cap => Len(out') <= cap)
  BY <1>2, AppendBits
<1>4. take \in Nat /\ take <= left
  BY <1>2, PlacedIsWithin DEF Typed
<1> HIDE DEF take
<1>5. Done' = Done + take /\ left' \in Nat /\ left' <= arg.bits
  BY <1>1, <1>2, <1>4 DEF Done
<1>6. ASSUME NEW k \in 0 .. Done + take - 1
      PROVE  BitOf(out', mark.position + k) = WireBit(k)
  <2>1. PICK n \in Nat : n = mark.position + k
    BY <1>2, <1>4
  <2>2. BitOf(out', mark.position + k) = BitOf(out, n)'
    BY <1>1, <2>1, BitOfNext
  <2>3. CASE k < Done
    <3>1. n \in 0 .. Position - 1 /\ k \in 0 .. Done - 1
      BY <1>2, <2>1, <2>3
    <3>2. BitOf(out, mark.position + k) = WireBit(k)
      BY <1>1, <3>1 DEF RInv, Writes
    <3> QED BY <1>3, <2>1, <2>2, <3>1, <3>2
  <2>4. CASE ~(k < Done)
    <3>1. n \in Position .. Position + take - 1 /\ Done + (n - Position) = k
      BY <1>2, <1>4, <2>1, <2>4
    <3> QED BY <1>3, <2>2, <3>1
  <2> QED BY <2>3, <2>4
<1>7. Writes'
  <2>1. mark.position = (mark.len - base) * W - (IF mark.used = 0 THEN 0 ELSE W - mark.used)
    BY <1>1 DEF RInv, Writes
  <2>2. Position' = mark.position + Done'
    <3> DEFINE a == mark.position
               d == Done
               b == Position'
               e == Done'
    <3>1. a \in Nat /\ d \in Nat /\ take \in Nat /\ b = a + d + take /\ e = d + take
      BY <1>2, <1>3, <1>4, <1>5
    <3> HIDE DEF a, b, d, e
    <3>2. b = a + e
      BY <3>1
    <3> QED BY <3>2 DEF a, b, e
  <2>3. /\ arg'.value \in Values /\ arg'.bits \in 0 .. MaxBits /\ left' <= arg'.bits
        /\ mark'.position \in Nat
    BY <1>1, <1>2, <1>5 DEF RInv, Writes
  <2>4. mark'.position = (mark'.len - base') * W - (IF mark'.used = 0 THEN 0 ELSE W - mark'.used)
    BY <1>1, <2>1
  <2>5. Position' = mark'.position + Done'
    BY <1>1, <2>2
  <2>6. \A k \in 0 .. Done' - 1 : BitOf(out, mark.position + k)' = WireBit(k)'
    <3>1. 0 .. Done' - 1 = 0 .. Done + take - 1
      <4>1. Done' = Done + take /\ Done \in Nat /\ take \in Nat
        BY <1>2, <1>4, <1>5
      <4> QED BY <4>1
    <3>2. \A k \in 0 .. Done' - 1 : BitOf(out', mark.position + k) = WireBit(k)
      BY <1>6, <3>1
    <3> QED BY <1>1, <3>2 DEF BitOf, BitIndex, WireBit
  <2> QED BY <2>3, <2>4, <2>5, <2>6 DEF Writes
<1>8. Patches' /\ Reads' /\ Fits'
  BY <1>1, <1>2, <1>3 DEF Patches, Reads, Fits
<1>9. Stream' = Stream
  <2>1. Stream = [k \in 1 .. mark.position |-> BitOf(out, k - 1)]
    BY <1>1, StreamIs
  <2>2. Stream' = [k \in 1 .. mark.position |-> BitOf(out, k - 1)']
    BY <1>1, StreamIsNext
  <2>3. \A k \in 1 .. mark.position : BitOf(out, k - 1)' = BitOf(out, k - 1)
    <3> SUFFICES ASSUME NEW k \in 1 .. mark.position PROVE BitOf(out, k - 1)' = BitOf(out, k - 1)
      OBVIOUS
    <3>1. k - 1 \in 0 .. Position - 1
      BY <1>2
    <3> QED BY <1>3, <3>1
  <2> QED BY <2>1, <2>2, <2>3
<1>10. Pos' = Pos
  BY <1>1 DEF Pos
<1> QED BY <1>1, <1>7, <1>8, <1>9, <1>10, Stutters

(* The mask of an undo keeps what was there before the field.              *)
LEMMA KeptKeeps ==
    ASSUME msb \in BOOLEAN, mark.used \in 0 .. W - 1, NEW r \in 0 .. mark.used - 1, NEW byte \in Byte
    PROVE  And(byte, Kept)[BitIndex(r)] = byte[BitIndex(r)]
<1>1. W \in Nat /\ W > 0
  BY CursorAssumption
<1>2. Kept[BitIndex(r)] = 1 /\ BitIndex(r) \in 0 .. W - 1
  <2>1. CASE msb
    <3>1. /\ BitIndex(r) = W - 1 - r /\ W - 1 - r \in 0 .. W - 1 /\ W - 1 - r >= W - mark.used
          /\ W - 1 - r - (W - mark.used) \in 0 .. W - 1 /\ W - 1 - r - (W - mark.used) < W
      BY <1>1, <2>1 DEF BitIndex
    <3> QED BY <2>1, <3>1 DEF Kept, Shl, Mask
  <2>2. CASE ~msb
    <3>1. BitIndex(r) = r /\ r \in 0 .. W - 1 /\ r < mark.used
      BY <1>1, <2>2 DEF BitIndex
    <3> QED BY <2>2, <3>1 DEF Kept, Mask
  <2> QED BY <2>1, <2>2
<1>3. byte[BitIndex(r)] \in {0, 1}
  BY <1>2 DEF Byte
<1> QED BY <1>2, <1>3 DEF And

(* An undone field leaves the bits that were there before it, and it did    *)
(* not fit.                                                                 *)
LEMMA WriteOverflowRefines ==
    ASSUME RInv, WriteOverflow
    PROVE  Writes' /\ Patches' /\ Reads' /\ Fits' /\ Implements
<1> DEFINE rewound == SubSeq(out, 1, mark.len)
           n == arg.bits
           m == mark.len - base
<1>1. /\ pc = "write" /\ pc' = "idle" /\ left > 0 /\ Full /\ mark' = mark /\ used' = mark.used
      /\ msb' = msb /\ cap' = cap /\ base' = base /\ at' = at /\ answer' = Answered("overflow", ZeroValue)
  BY DEF WriteOverflow, local
<1>2. /\ Typed /\ Fits /\ left \in Nat /\ cap \in Nat /\ Len(out) \in Nat /\ W \in Nat /\ W > 0
      /\ arg.value \in Values /\ n \in 0 .. MaxBits /\ n \in Nat /\ Done = n - left
      /\ mark.position \in Nat /\ Position = mark.position + Done
      /\ mark.position = m * W - (IF mark.used = 0 THEN 0 ELSE W - mark.used)
      /\ m \in Nat /\ mark.len \in Nat /\ mark.len <= Len(out) /\ base \in Nat
      /\ mark.used \in 0 .. W - 1 /\ (mark.used > 0 => m > 0)
  <2>1. Typed /\ PadIsZero /\ Fits /\ Writing /\ Writes
    BY DEF RInv, IInv
  <2>2. Len(out) \in Nat /\ W \in Nat /\ W > 0 /\ base \in Nat
    BY <2>1, CursorAssumption DEF Typed
  <2>3. /\ left \in Nat /\ mark.len \in Nat /\ base <= mark.len /\ mark.len <= Len(out)
        /\ mark.used \in 0 .. W - 1 /\ (mark.used > 0 => base < mark.len)
    BY <1>1, <2>1 DEF Writing
  <2>4. /\ arg.value \in Values /\ n \in 0 .. MaxBits /\ left <= n
        /\ mark.position \in Nat /\ Position = mark.position + Done
        /\ mark.position = m * W - (IF mark.used = 0 THEN 0 ELSE W - mark.used)
    BY <1>1, <2>1 DEF Writes
  <2>5. cap \in Nat /\ n \in Nat /\ Done = n - left
    BY <2>1, <2>4, CursorAssumption DEF Fits, Done
  <2>6. m \in Nat /\ (mark.used > 0 => m > 0)
    BY <2>2, <2>3
  <2> HIDE DEF n, m
  <2> QED BY <2>1, <2>2, <2>3, <2>4, <2>5, <2>6
<1>3. /\ rewound \in Seq(Byte) /\ Len(rewound) = mark.len
      /\ \A k \in 1 .. mark.len : rewound[k] = out[k]
  <2>1. out \in Seq(Byte) /\ mark.len \in Nat /\ mark.len <= Len(out)
    BY <1>2 DEF Typed
  <2> QED BY <2>1
<1>4. out' = IF mark.used >= 1 /\ Len(rewound) > 0
             THEN [rewound EXCEPT ![Len(rewound)] = And(@, Kept)] ELSE rewound
  <2>1. Lesser(mark.len, Len(out)) = mark.len
    BY <1>2 DEF Lesser
  <2> QED BY <2>1 DEF WriteOverflow
<1> HIDE DEF rewound
<1>5. /\ Len(out') = mark.len
      /\ \A k \in 1 .. mark.len : out'[k] = IF k = mark.len /\ mark.used > 0
                                           THEN And(out[k], Kept) ELSE out[k]
  <2>1. CASE mark.used = 0
    BY <1>3, <1>4, <2>1
  <2>2. CASE mark.used > 0
    <3> DEFINE byte == And(rewound[mark.len], Kept)
    <3>1. mark.len \in 1 .. Len(rewound) /\ byte \in Byte
      <4>1. m > 0 /\ m \in Int /\ m = mark.len - base /\ base \in Nat /\ mark.len \in Nat
        BY <1>2, <2>2
      <4> HIDE DEF m
      <4>2. mark.len \in Nat /\ mark.len >= 1
        BY <4>1
      <4> QED BY <1>3, <4>2, WordTypes
    <3>2. out' = [rewound EXCEPT ![mark.len] = byte]
      <4>1. mark.used >= 1 /\ Len(rewound) > 0 /\ Len(rewound) = mark.len
        <5>1. mark.used \in 0 .. W - 1 /\ W \in Nat
          BY <1>2
        <5> QED BY <1>3, <2>2, <3>1, <5>1
      <4> QED BY <1>4, <4>1
    <3>3. byte = And(out[mark.len], Kept)
      BY <1>3, <3>1
    <3> HIDE DEF byte
    <3>4. /\ Len(out') = mark.len /\ out'[mark.len] = byte
          /\ \A k \in 1 .. mark.len : k # mark.len => out'[k] = rewound[k]
      BY <1>3, <3>1, <3>2, Overwrite
    <3> QED BY <1>3, <2>2, <3>3, <3>4
  <2>3. mark.used \in Nat
    <3>1. mark.used \in 0 .. W - 1 /\ W \in Nat
      BY <1>2
    <3> QED BY <3>1
  <2> QED BY <2>1, <2>2, <2>3
<1>6. Position' = mark.position
  BY <1>1, <1>2, <1>5 DEF Position
<1>7. ASSUME NEW k \in 0 .. mark.position - 1
      PROVE  BitOf(out, k)' = BitOf(out, k)
  <2> DEFINE a == k \div W
             r == k % W
  <2>1. a \in Nat /\ r \in 0 .. W - 1 /\ k = W * a + r /\ W * a \in Int /\ W * m = m * W
    <3>1. k \in Nat /\ m \in Int
      BY <1>2
    <3>2. a \in Nat /\ r \in 0 .. W - 1 /\ k = W * a + r
      BY <3>1, Coordinates, Zenon
    <3>3. a \in Int
      BY <3>2
    <3> HIDE DEF a, r, m
    <3> QED BY <3>1, <3>2, <3>3, Product, Zenon
  <2>2. BitOf(out, k)' = out'[base + a + 1][BitIndex(r)] /\ BitOf(out, k) = out[base + a + 1][BitIndex(r)]
    BY <1>1, BitOfNext DEF BitOf
  <2> HIDE DEF a, r, m
  <2> DEFINE wa == W * a
             wm == W * m
             gap == IF mark.used = 0 THEN 0 ELSE W - mark.used
             p == mark.position
  <2>3. /\ a \in Int /\ m \in Int /\ mark.used \in 0 .. W - 1 /\ W \in Nat /\ r \in 0 .. W - 1
        /\ m \in Nat /\ a \in Nat
    BY <1>2, <2>1
  <2>4. wa \in Int /\ wm \in Int /\ gap \in 0 .. W /\ (mark.used > 0 => gap = W - mark.used)
    BY <2>3, Product
  <2>5. p = wm - gap /\ k = wa + r /\ k \in 0 .. p - 1
    <3>1. p = m * W - gap
      BY <1>2
    <3> QED BY <2>1, <3>1, Zenon
  <2>6. \A x, y \in Int : W * x < W * y => x < y
    BY Product, Zenon
  <2>7. W * (a + 1) = wa + W
    BY <2>3, Product
  <2>8. wa < wm
    <3> HIDE DEF wa, wm, gap, p
    <3> QED BY <2>3, <2>4, <2>5
  <2>9. a < m
    BY <2>3, <2>6, <2>8, Zenon
  <2>10. base + a + 1 \in 1 .. mark.len /\ (base + a + 1 = mark.len => m = a + 1)
    <3>1. base \in Nat /\ mark.len \in Nat /\ m = mark.len - base
      BY <1>2 DEF m
    <3> QED BY <2>3, <2>9, <3>1
  <2>11. CASE base + a + 1 = mark.len /\ mark.used > 0
    <3>1. r < mark.used
      <4>1. wm = wa + W
        BY <2>10, <2>11, <2>7
      <4> HIDE DEF wa, wm, gap, p
      <4> QED BY <2>3, <2>4, <2>5, <2>11, <4>1
    <3>2. r \in 0 .. mark.used - 1
      BY <2>3, <3>1
    <3>3. base + a + 1 \in 1 .. Len(out)
      <4>1. mark.len \in Nat /\ Len(out) \in Nat /\ mark.len <= Len(out)
        BY <1>2
      <4> QED BY <2>10, <4>1
    <3>4. And(out[base + a + 1], Kept)[BitIndex(r)] = out[base + a + 1][BitIndex(r)]
      <4>1. out[base + a + 1] \in Byte
        BY <1>2, <3>3 DEF Typed
      <4> QED BY <1>2, <3>2, <4>1, KeptKeeps DEF Typed
    <3> QED BY <1>5, <2>2, <2>10, <2>11, <3>4
  <2>12. CASE ~(base + a + 1 = mark.len /\ mark.used > 0)
    BY <1>5, <2>2, <2>10, <2>12
  <2> QED BY <2>11, <2>12
<1> HIDE DEF m
<1>8. Stream' = Stream /\ Len(Stream) = mark.position
  <2>1. Stream = [k \in 1 .. mark.position |-> BitOf(out, k - 1)]
    BY <1>1, StreamIs
  <2>2. Stream' = [k \in 1 .. mark.position |-> BitOf(out, k - 1)']
    BY <1>1, <1>6, StreamIsNext
  <2>3. \A k \in 1 .. mark.position : BitOf(out, k - 1)' = BitOf(out, k - 1)
    <3> SUFFICES ASSUME NEW k \in 1 .. mark.position PROVE BitOf(out, k - 1)' = BitOf(out, k - 1)
      OBVIOUS
    <3>1. k - 1 \in 0 .. mark.position - 1
      BY <1>2
    <3> QED BY <1>7, <3>1
  <2> QED BY <1>2, <2>1, <2>2, <2>3
<1>9. ~(CeilDiv(Len(Stream) + n) <= cap - base)
  <2>1. used = 0 /\ Len(out) = cap /\ cap - base = Own
    BY <1>1, <1>2 DEF Full, Fits, Own
  <2>2. Position = W * Own /\ Own \in Nat /\ W * Own \in Nat
    BY <1>2, <2>1, PositionIs
  <2> DEFINE p == mark.position
             wo == W * Own
  <2>3. p \in Nat /\ n \in Nat /\ left \in Nat /\ left > 0 /\ wo = p + (n - left)
    BY <1>1, <1>2, <2>2
  <2> HIDE DEF p, wo, n
  <2>4. p + n > wo /\ p + n \in Nat
    BY <2>3
  <2>5. mark.position + n > W * Own
    BY <2>4 DEF p, wo
  <2>6. mark.position + n \in Nat
    BY <2>4 DEF p
  <2> QED BY <1>8, <2>1, <2>2, <2>5, <2>6, Touches
<1>10. Writes' /\ Patches' /\ Reads'
  BY <1>1 DEF Writes, Patches, Reads
<1>11. Fits'
  BY <1>1, <1>2, <1>5 DEF Fits
<1>12. Pos' = Pos
  BY <1>1 DEF Pos
<1> QED BY <1>1, <1>2, <1>8, <1>9, <1>10, <1>11, <1>12, ImplementsWrite

----------------------------------------------------------------------------
(* What a patch clears are the bits of its chunk.                          *)
LEMMA HoleIs ==
    ASSUME NEW from \in 0 .. W - 1, NEW take \in Nat, from + take <= W, msb \in BOOLEAN,
           NEW r \in 0 .. W - 1
    PROVE  Shl(Mask(take), IF msb THEN W - from - take ELSE from)[BitIndex(r)] =
             IF r \in from .. from + take - 1 THEN 1 ELSE 0
<1>1. W \in Nat /\ W > 0
  BY CursorAssumption
<1>2. CASE msb
  <2> DEFINE by == W - from - take
             x == W - 1 - r
  <2>1. BitIndex(r) = x /\ x \in 0 .. W - 1
    BY <1>1, <1>2 DEF BitIndex
  <2>2. CASE x >= by
    <3>1. x - by \in 0 .. W - 1 /\ (x - by < take <=> r \in from .. from + take - 1)
      BY <1>1, <2>2
    <3>2. Shl(Mask(take), by)[x] = Mask(take)[x - by]
      BY <2>1, <2>2 DEF Shl
    <3>3. Mask(take)[x - by] = IF x - by < take THEN 1 ELSE 0
      BY <3>1 DEF Mask
    <3> HIDE DEF x, by
    <3>4. (IF msb THEN by ELSE from) = by
      BY <1>2
    <3> QED BY <2>1, <3>1, <3>2, <3>3, <3>4 DEF by
  <2>3. CASE ~(x >= by)
    <3>1. r \notin from .. from + take - 1
      BY <1>1, <2>3
    <3>2. Shl(Mask(take), by)[x] = 0
      BY <2>1, <2>3 DEF Shl
    <3> QED BY <1>2, <2>1, <3>1, <3>2
  <2> QED BY <2>2, <2>3
<1>3. CASE ~msb
  <2>1. BitIndex(r) = r
    BY <1>3 DEF BitIndex
  <2>2. CASE r >= from
    <3>1. r - from \in 0 .. W - 1 /\ (r - from < take <=> r \in from .. from + take - 1)
      BY <1>1, <2>2
    <3>2. Shl(Mask(take), from)[r] = Mask(take)[r - from]
      BY <2>2 DEF Shl
    <3>3. Mask(take)[r - from] = IF r - from < take THEN 1 ELSE 0
      BY <3>1 DEF Mask
    <3> QED BY <1>3, <2>1, <3>1, <3>2, <3>3
  <2>3. CASE ~(r >= from)
    <3>1. r \notin from .. from + take - 1
      BY <1>1, <2>3
    <3>2. Shl(Mask(take), from)[r] = 0
      BY <2>3 DEF Shl
    <3> QED BY <1>3, <2>1, <3>1, <3>2
  <2> QED BY <2>2, <2>3
<1> QED BY <1>2, <1>3

(* A turn of patch's loop puts the next bits of the field where the field   *)
(* is to be, and leaves the bits beside it.                                *)
LEMMA PatchBits ==
    ASSUME Typed, PatchChunk, cur \in Nat, left \in Nat, cur + left <= Position,
           arg.value \in Value, arg.bits \in 0 .. MaxBits, left <= arg.bits
    PROVE  /\ Len(out') = Len(out)
           /\ Take(cur % W) \in Nat /\ Take(cur % W) <= left
           /\ \A k \in 0 .. Position - 1 :
                BitOf(out, k)' = IF k \in cur .. cur + Take(cur % W) - 1
                                 THEN WireBit(Done + (k - cur)) ELSE BitOf(out, k)
<1> DEFINE from == cur % W
           q == cur \div W
           take == Take(from)
           n == base + q + 1
           hole == Shl(Mask(take), IF msb THEN W - from - take ELSE from)
           byte == Or(And(out[n], Not(hole)), Placed(from))
<1>1. out' = [out EXCEPT ![n] = byte] /\ msb' = msb /\ base' = base /\ left > 0
  BY DEF PatchChunk, writer, ByteOf
<1>2. /\ W \in Nat /\ W > 0 /\ base \in Nat /\ base <= Len(out) /\ arg.bits \in Nat
      /\ msb \in BOOLEAN /\ out \in Seq(Byte) /\ Len(out) \in Nat
  BY CursorAssumption DEF Typed
<1>3. q \in Nat /\ from \in 0 .. W - 1 /\ cur = W * q + from
  BY Coordinates, Zenon
<1> HIDE DEF from, q
<1>4. take \in Nat /\ take > 0 /\ take <= left /\ from + take <= W
  BY <1>1, <1>2, <1>3, PlacedIsWithin
<1>5. Position \in Nat /\ Position <= W * Own /\ Own \in Nat /\ W * Own \in Nat
  BY PositionIs
<1>6. base + q + 1 <= Len(out) /\ n \in 1 .. Len(out)
  <2>1. cur < W * Own
    BY <1>1, <1>5
  <2>2. base + q + 1 \in 1 .. Len(out)
    BY <1>2, <2>1, BitIsThere DEF q, Own
  <2>3. base + q + 1 \in Int
    BY <1>2, <1>3
  <2> QED BY <1>2, <2>2, <2>3
<1>7. Puts(byte, out[n], from, take)
  <2> SUFFICES ASSUME NEW m \in 0 .. W - 1
               PROVE  byte[BitIndex(m)] = IF m \in from .. from + take - 1
                                          THEN WireBit(Done + (m - from))
                                          ELSE out[n][BitIndex(m)]
    BY DEF Puts
  <2> DEFINE x == BitIndex(m)
             old == out[n]
             placed == Placed(from)
  <2>1. x \in 0 .. W - 1 /\ old[x] \in {0, 1}
    <3>1. x \in 0 .. W - 1 /\ old \in Byte
      BY <1>2, <1>6, WordTypes
    <3> QED BY <3>1 DEF Byte
  <2>2. placed[x] = IF m \in from .. from + take - 1 THEN WireBit(Done + (m - from)) ELSE 0
    BY <1>2, <1>3, PlacedIsField
  <2>3. hole[x] = IF m \in from .. from + take - 1 THEN 1 ELSE 0
    BY <1>2, <1>3, <1>4, HoleIs
  <2> HIDE DEF x, old, placed, hole
  <2>4. byte[x] = IF (IF old[x] = 1 /\ 1 - hole[x] = 1 THEN 1 ELSE 0) = 1 \/ placed[x] = 1
                  THEN 1 ELSE 0
    BY <2>1 DEF Or, And, Not, old, placed
  <2>5. CASE m \in from .. from + take - 1
    <3>1. WireBit(Done + (m - from)) \in {0, 1}
      <4>1. Done = arg.bits - left
        BY DEF Done
      <4>2. from \in Nat /\ m - from \in 0 .. take - 1
        BY <1>3, <1>4, <2>5
      <4> DEFINE k == m - from
      <4>3. Done + k \in 0 .. arg.bits - 1
        <5>1. k \in Nat /\ k < take
          BY <1>4, <4>2
        <5>2. left \in Nat /\ take <= left /\ left <= arg.bits /\ arg.bits \in Nat /\ take \in Nat
          BY <1>2, <1>4
        <5> HIDE DEF k, take, Done
        <5> QED BY <4>1, <5>1, <5>2
      <4> QED BY <4>3, WireBitType
    <3>2. hole[x] = 1 /\ placed[x] = WireBit(Done + (m - from))
      BY <2>2, <2>3, <2>5
    <3> HIDE DEF byte
    <3> QED BY <2>4, <2>5, <3>1, <3>2 DEF x
  <2>6. CASE m \notin from .. from + take - 1
    <3>1. hole[x] = 0 /\ placed[x] = 0
      BY <2>2, <2>3, <2>6
    <3> HIDE DEF byte
    <3> QED BY <2>1, <2>4, <2>6, <3>1 DEF x, old
  <2> QED BY <2>5, <2>6
<1>8. byte \in Byte
  BY WordTypes
<1> HIDE DEF byte, take
<1>9. Len(out') = Len(out)
  BY <1>1, <1>2, <1>6, <1>8, Overwrite
<1>10. ASSUME NEW k \in 0 .. Position - 1
       PROVE  BitOf(out, k)' = IF k \in cur .. cur + take - 1
                               THEN WireBit(Done + (k - cur)) ELSE BitOf(out, k)
  <2>1. k \in Nat /\ k < W * (Len(out) - base)
    <3>1. Own = Len(out) - base
      BY DEF Own
    <3> QED BY <1>5, <3>1
  <2>2. BitOf([out EXCEPT ![base + q + 1] = byte], k) =
          IF k \in W * q + from .. W * q + from + take - 1
          THEN WireBit(Done + (k - (W * q + from))) ELSE BitOf(out, k)
    <3>1. Puts(byte, out[base + q + 1], from, take)
      BY <1>7
    <3> QED BY <1>2, <1>3, <1>4, <1>6, <1>8, <2>1, <3>1, PutBits
  <2>3. BitOf(out, k)' = BitOf([out EXCEPT ![base + q + 1] = byte], k)
    BY <1>1, BitOfNext
  <2> QED BY <1>3, <2>2, <2>3
<1> QED BY <1>4, <1>9, <1>10 DEF take, from

LEMMA PatchChunkRefines ==
    ASSUME RInv, PatchChunk
    PROVE  Writes' /\ Patches' /\ Reads' /\ Fits' /\ Implements
<1> DEFINE take == Take(cur % W)
           size == Position
<1>1. /\ pc = "patch" /\ pc' = pc /\ arg' = arg /\ mark' = mark /\ left' = left - take /\ left > 0
      /\ cur' = cur + take /\ used' = used
      /\ msb' = msb /\ cap' = cap /\ base' = base /\ at' = at /\ answer' = answer
  BY DEF PatchChunk, writer
<1>2. /\ Typed /\ Fits /\ left \in Nat /\ cur \in Nat /\ cur + left <= size
      /\ arg.value \in Value /\ arg.bits \in 0 .. MaxBits /\ arg.bits \in Nat /\ left <= arg.bits
      /\ arg.at \in Nat /\ arg.at + arg.bits <= size /\ cur = arg.at + Done /\ Done \in Nat
      /\ Done = arg.bits - left /\ size \in Nat
  <2>1. Typed /\ Fits /\ Patching /\ Patches /\ Position \in Nat
    BY PositionIs DEF RInv, IInv
  <2>2. /\ left \in Nat /\ arg.bits \in Nat /\ cur \in Nat /\ cur + left <= size
        /\ arg.value \in Values /\ arg.bits \in 0 .. MaxBits /\ left <= arg.bits
        /\ arg.at \in Nat /\ arg.at + arg.bits <= size /\ cur = arg.at + Done
    BY <1>1, <2>1 DEF Patching, Patches
  <2>3. Done = arg.bits - left /\ Done \in Nat
    BY <2>2 DEF Done
  <2> QED BY <2>1, <2>2, <2>3, CursorAssumption
<1>3. /\ Len(out') = Len(out) /\ take \in Nat /\ take <= left
      /\ \A k \in 0 .. size - 1 :
           BitOf(out, k)' = IF k \in cur .. cur + take - 1
                            THEN WireBit(Done + (k - cur)) ELSE BitOf(out, k)
  BY <1>2, PatchBits
<1> HIDE DEF take
<1>4. Position' = size
  BY <1>1, <1>3 DEF Position
<1> HIDE DEF size
<1>5. Done' = Done + take /\ left' \in Nat /\ left' <= arg.bits /\ Done + take <= arg.bits
  <2>1. left \in Nat /\ take \in Nat /\ take <= left /\ arg.bits \in Nat /\ left <= arg.bits
        /\ Done = arg.bits - left /\ Done' = arg.bits - left' /\ left' = left - take
    BY <1>1, <1>2, <1>3 DEF Done
  <2> QED BY <2>1
<1>6. ASSUME NEW d \in 0 .. Done + take - 1
      PROVE  BitOf(out', arg.at + d) = WireBit(d)
  <2>1. /\ arg.at \in Nat /\ Done \in Nat /\ take \in Nat /\ size \in Nat /\ cur = arg.at + Done
        /\ arg.at + arg.bits <= size /\ Done + take <= arg.bits /\ arg.bits \in Nat
    BY <1>2, <1>3, <1>5
  <2>2. PICK n \in Nat : n = arg.at + d
    BY <2>1
  <2>3. n \in 0 .. size - 1
    BY <2>1, <2>2
  <2>4. BitOf(out', arg.at + d) = BitOf(out, n)'
    BY <1>1, <2>2, BitOfNext
  <2>5. CASE d < Done
    <3>1. n \notin cur .. cur + take - 1 /\ d \in 0 .. Done - 1
      BY <2>1, <2>2, <2>5
    <3>2. BitOf(out, arg.at + d) = WireBit(d)
      BY <1>1, <3>1 DEF RInv, Patches
    <3> QED BY <1>3, <2>2, <2>3, <2>4, <3>1, <3>2
  <2>6. CASE ~(d < Done)
    <3>1. n \in cur .. cur + take - 1 /\ Done + (n - cur) = d
      BY <2>1, <2>2, <2>6
    <3> QED BY <1>3, <2>3, <2>4, <3>1
  <2> QED BY <2>5, <2>6
<1>7. Patches'
  <2>1. /\ arg'.value \in Values /\ arg'.bits \in 0 .. MaxBits /\ left' <= arg'.bits
        /\ arg'.at \in Nat /\ arg'.at + arg'.bits <= Position'
    BY <1>1, <1>2, <1>4, <1>5 DEF RInv, Patches
  <2>2. cur' = arg'.at + Done'
    <3>1. arg.at \in Nat /\ Done \in Nat /\ take \in Nat /\ cur = arg.at + Done
      BY <1>2, <1>3
    <3> QED BY <1>1, <1>5, <3>1
  <2>3. \A k \in 0 .. Done' - 1 : BitOf(out, arg.at + k)' = WireBit(k)'
    <3>1. 0 .. Done' - 1 = 0 .. Done + take - 1
      <4>1. Done' = Done + take /\ Done \in Nat /\ take \in Nat
        BY <1>2, <1>3, <1>5
      <4> QED BY <4>1
    <3>2. \A k \in 0 .. Done' - 1 : BitOf(out', arg.at + k) = WireBit(k)
      BY <1>6, <3>1
    <3> QED BY <1>1, <3>2 DEF BitOf, BitIndex, WireBit
  <2> QED BY <2>1, <2>2, <2>3 DEF Patches
<1>8. Writes' /\ Reads' /\ Fits'
  BY <1>1, <1>2, <1>3 DEF Writes, Reads, Fits
<1>9. Stream' = Stream
  <2>1. Stream = [k \in 1 .. size |-> IF k - 1 - arg.at \in 0 .. arg.bits - 1
                                      THEN WireBit(k - 1 - arg.at) ELSE BitOf(out, k - 1)]
    BY <1>1, StreamIs DEF size
  <2>2. Stream' = [k \in 1 .. size |-> IF k - 1 - arg.at \in 0 .. arg.bits - 1
                                       THEN WireBit(k - 1 - arg.at)' ELSE BitOf(out, k - 1)']
    BY <1>1, <1>4, StreamIsNext
  <2>3. ASSUME NEW k \in 1 .. size, k - 1 - arg.at \notin 0 .. arg.bits - 1
        PROVE  BitOf(out, k - 1)' = BitOf(out, k - 1)
    <3>1. k - 1 \in 0 .. size - 1 /\ k - 1 \notin cur .. cur + take - 1
      <4>1. /\ arg.at \in Nat /\ Done \in Nat /\ take \in Nat /\ size \in Nat /\ cur = arg.at + Done
            /\ Done + take <= arg.bits /\ arg.bits \in Nat
        BY <1>2, <1>3, <1>5
      <4> QED BY <2>3, <4>1
    <3> QED BY <1>3, <3>1
  <2>4. \A k \in 1 .. size : WireBit(k - 1 - arg.at)' = WireBit(k - 1 - arg.at)
    BY <1>1 DEF WireBit
  <2> QED BY <2>1, <2>2, <2>3, <2>4
<1>10. Pos' = Pos
  BY <1>1 DEF Pos
<1> QED BY <1>1, <1>7, <1>8, <1>9, <1>10, Stutters

----------------------------------------------------------------------------
(* Readers. *)

(* What a reader does leaves the stream alone.                             *)
LEMMA ReaderStream ==
    ASSUME msb' = msb, out' = out, base' = base, used' = used,
           pc \in {"idle", "read"}, pc' \in {"idle", "read"}
    PROVE  Stream' = Stream /\ Stream = [k \in 1 .. Position |-> BitOf(out, k - 1)]
<1>1. Stream = [k \in 1 .. Position |-> BitOf(out, k - 1)]
  BY StreamIs
<1>2. Stream' = [k \in 1 .. Position |-> BitOf(out, k - 1)']
  <2>1. Position' = Position
    BY DEF Position
  <2> QED BY <2>1, StreamIsNext
<1>3. \A k : BitOf(out, k)' = BitOf(out, k)
  BY DEF BitOf, BitIndex
<1> QED BY <1>1, <1>2, <1>3

(* A field is there when its bits are among the bytes appended, and the     *)
(* position after them does not saturate.                                  *)
LEMMA ThereIs ==
    ASSUME RInv, pc = "idle", NEW n \in Nat
    PROVE  /\ There(n) <=> CeilDiv(Saturated(at + n)) <= CeilDiv(Len(Stream))
           /\ There(n) => at + n <= W * Own /\ Saturated(at + n) = at + n
<1>1. Typed /\ Fits /\ at \in Nat /\ PosMax \in Nat /\ W * cap < PosMax /\ W \in Nat /\ cap \in Nat
  BY CursorAssumption DEF RInv, IInv, Fits
<1>2. Own \in Nat /\ Position \in Nat /\ W * Own \in Nat /\ CeilDiv(Position) = Own
  BY <1>1, PositionIs, TouchesOwn
<1>3. Len(Stream) = Position
  <2>1. Stream = [k \in 1 .. Position |-> BitOf(out, k - 1)]
    BY StreamIs
  <2> QED BY <1>2, <2>1
<1>4. There(n) <=> CeilDiv(Saturated(at + n)) <= Own
  BY DEF There, Own
<1>5. ASSUME CeilDiv(Saturated(at + n)) <= Own
      PROVE  at + n <= W * Own /\ Saturated(at + n) = at + n
  <2>1. Saturated(at + n) \in Nat
    BY <1>1 DEF Saturated
  <2>2. Saturated(at + n) <= W * Own
    BY <1>2, <1>5, <2>1, Touches
  <2>3. W * Own <= W * cap /\ W * cap \in Int
    <3>1. Own \in Int /\ cap \in Int /\ (Own = cap \/ Own < cap)
      BY <1>1, <1>2 DEF Fits, Typed, Own
    <3>2. W * cap \in Int /\ (Own < cap => W * Own + W <= W * cap)
      BY <3>1, Product
    <3>3. Own = cap => W * Own = W * cap
      OBVIOUS
    <3> QED BY <1>1, <1>2, <3>1, <3>2, <3>3
  <2> DEFINE s == Saturated(at + n)
             b == W * Own
             c == W * cap
  <2>4. s = IF at + n > PosMax THEN PosMax ELSE at + n
    BY DEF Saturated
  <2>5. s <= b /\ b <= c /\ c < PosMax /\ b \in Nat /\ c \in Int /\ s \in Nat
    BY <1>1, <1>2, <2>1, <2>2, <2>3
  <2> HIDE DEF s, b, c
  <2>6. at + n <= b /\ s = at + n
    BY <1>1, <2>4, <2>5
  <2> QED BY <2>6 DEF s, b
<1> QED BY <1>2, <1>3, <1>4, <1>5

LEMMA ReaderAtRefines ==
    ASSUME RInv, NEW p \in 0 .. PosMax, ReaderAt(p)
    PROVE  Writes' /\ Patches' /\ Reads' /\ Fits' /\ Implements
<1>1. /\ pc = "idle" /\ pc' = pc /\ at' = p /\ mark' = mark
      /\ msb' = msb /\ cap' = cap /\ out' = out /\ base' = base /\ used' = used /\ answer' = answer
  BY DEF ReaderAt, Call, buffer, writer, local
<1>2. Writes' /\ Patches' /\ Reads' /\ Fits'
  BY <1>1, CursorAssumption DEF Writes, Patches, Reads, Fits, RInv
<1>3. Stream' = Stream
  BY <1>1, ReaderStream
<1>4. Abstract!ReaderAt
  BY <1>1, <1>3 DEF Abstract!ReaderAt
<1> QED BY <1>2, <1>4 DEF Implements, Abstract!Next

LEMMA SkipRefines ==
    ASSUME RInv, NEW p \in 0 .. PosMax, Skip(p)
    PROVE  Writes' /\ Patches' /\ Reads' /\ Fits' /\ Implements
<1>1. /\ pc = "idle" /\ pc' = pc /\ mark' = mark
      /\ msb' = msb /\ cap' = cap /\ out' = out /\ base' = base /\ used' = used
      /\ \/ There(p) /\ at' = Saturated(at + p) /\ answer' = Answered("skipped", ZeroValue)
         \/ ~There(p) /\ at' = at /\ answer' = Answered("short", ZeroValue)
  BY DEF Skip, Short, Call, buffer, writer, local
<1>2. p \in Nat /\ at \in Nat /\ PosMax \in Nat
  BY CursorAssumption DEF RInv, Fits
<1>3. at' \in Nat
  BY <1>1, <1>2 DEF Saturated
<1>4. Writes' /\ Patches' /\ Reads' /\ Fits'
  BY <1>1, <1>3 DEF Writes, Patches, Reads, Fits, RInv
<1>5. Stream' = Stream
  BY <1>1, ReaderStream
<1>6. Pos = at /\ Pos' = at'
  BY <1>1 DEF Pos
<1>7. /\ There(p) <=> CeilDiv(Saturated(at + p)) <= CeilDiv(Len(Stream))
      /\ There(p) => Saturated(at + p) = at + p
  BY <1>1, <1>2, ThereIs
<1> QED BY <1>1, <1>4, <1>5, <1>6, <1>7, ImplementsSkip

LEMMA ReadCallRefines ==
    ASSUME RInv, NEW n \in 0 .. MaxBits, ReadCall(n)
    PROVE  Writes' /\ Patches' /\ Reads' /\ Fits' /\ Implements
<1>1. /\ pc = "idle"
      /\ msb' = msb /\ cap' = cap /\ out' = out /\ base' = base /\ used' = used
  BY DEF ReadCall, Call, buffer, writer
<1>2. Typed /\ Fits /\ n \in Nat /\ at \in Nat /\ MaxBits \in Nat /\ W \in Nat
  BY CursorAssumption DEF RInv, IInv, Fits
<1>3. CASE There(n)
  <2>1. /\ pc' = "read" /\ arg' = [value |-> ZeroValue, bits |-> n, at |-> 0] /\ left' = n
        /\ value' = ZeroValue /\ mark' = [mark EXCEPT !.position = at] /\ at' = at /\ answer' = answer
    BY <1>3 DEF ReadCall
  <2>2. Done' = 0
    BY <1>2, <2>1 DEF Done
  <2>3. at + n <= W * Own /\ Own' = Own
    BY <1>1, <1>2, <1>3, ThereIs DEF Own
  <2>4. mark'.position = at /\ mark' \in [len : Int, used : Int, position : Int]
    BY <1>2, <2>1 DEF Fits
  <2>5. Reads'
    <3>1. value' \in Value /\ \A k \in 0 .. MaxBits - 1 : value'[k] = 0
      BY <2>1 DEF ZeroValue, Value
    <3>2. \A k \in 0 .. MaxBits - 1 : ~(k < Done')
      BY <1>2, <2>2
    <3>3. /\ arg'.bits \in 0 .. MaxBits /\ left' \in 0 .. arg'.bits /\ mark'.position \in Nat
          /\ at' = mark'.position + Done' /\ mark'.position + arg'.bits <= W * Own'
      BY <1>2, <2>1, <2>2, <2>3, <2>4
    <3> QED BY <3>1, <3>2, <3>3 DEF Reads
  <2>6. Writes' /\ Patches' /\ Fits'
    BY <1>1, <1>2, <2>1, <2>4 DEF Writes, Patches, Fits
  <2>7. Stream' = Stream
    BY <1>1, <2>1, ReaderStream
  <2>8. Pos' = Pos
    BY <1>1, <2>1, <2>4 DEF Pos
  <2> QED BY <1>1, <2>1, <2>5, <2>6, <2>7, <2>8, Stutters
<1>4. CASE ~There(n)
  <2>1. pc' = pc /\ mark' = mark /\ at' = at /\ answer' = Answered("short", ZeroValue)
    BY <1>4 DEF ReadCall, Short, local
  <2>2. Writes' /\ Patches' /\ Reads' /\ Fits'
    BY <1>1, <1>2, <2>1 DEF Writes, Patches, Reads, Fits
  <2>3. Stream' = Stream
    BY <1>1, <2>1, ReaderStream
  <2>4. Pos = at /\ Pos' = Pos
    BY <1>1, <2>1 DEF Pos
  <2>5. ~(CeilDiv(Saturated(at + n)) <= CeilDiv(Len(Stream)))
    BY <1>1, <1>2, <1>4, ThereIs
  <2> QED BY <1>1, <2>1, <2>2, <2>3, <2>4, <2>5, ImplementsRead
<1> QED BY <1>3, <1>4

(* A turn of read's loop collects the next bits of the field.              *)
LEMMA ReadChunkRefines ==
    ASSUME RInv, ReadChunk
    PROVE  Writes' /\ Patches' /\ Reads' /\ Fits' /\ Implements
<1> DEFINE from == at % W
           q == at \div W
           take == Take(from)
           byte == out[base + q + 1]
           start == mark.position
           Taken(by, to) ==
             [k \in 0 .. MaxBits - 1 |-> IF k - to \in 0 .. take - 1 THEN byte[k - to + by] ELSE 0]
           OrValue(a, b) == [k \in 0 .. MaxBits - 1 |-> IF a[k] = 1 \/ b[k] = 1 THEN 1 ELSE 0]
<1>1. /\ pc = "read" /\ pc' = pc /\ left > 0 /\ at' = at + take /\ left' = left - take
      /\ arg' = arg /\ mark' = mark /\ answer' = answer
      /\ msb' = msb /\ cap' = cap /\ out' = out /\ base' = base /\ used' = used
  BY DEF ReadChunk, buffer, writer
<1>2. value' = IF msb THEN OrValue(ShlValue(value, take), Taken(W - from - take, 0))
                      ELSE OrValue(value, Taken(from, arg.bits - left))
  BY DEF ReadChunk, ByteOf
<1> DEFINE n == arg.bits
           d == Done
<1>3. /\ Typed /\ Fits /\ Reads /\ msb \in BOOLEAN /\ W \in Nat /\ W > 0 /\ MaxBits \in Nat
      /\ n \in 0 .. MaxBits /\ n \in Nat /\ left \in Nat /\ left <= n /\ at \in Nat /\ start \in Nat
      /\ d = n - left /\ d \in Nat /\ at = start + d /\ start + n <= W * Own
      /\ value \in Value
  <2>1. Typed /\ Fits /\ Reads
    BY DEF RInv, IInv
  <2>2. /\ n \in 0 .. MaxBits /\ left \in 0 .. n /\ start \in Nat /\ at = start + d
        /\ start + n <= W * Own /\ value \in Value /\ at \in Nat /\ msb \in BOOLEAN
    BY <1>1, <2>1 DEF Reads, Fits, Typed
  <2>3. W \in Nat /\ W > 0 /\ MaxBits \in Nat
    BY CursorAssumption
  <2>4. d = n - left
    BY DEF Done
  <2> HIDE DEF n, d, start
  <2> QED BY <2>1, <2>2, <2>3, <2>4
<1>4. q \in Nat /\ from \in 0 .. W - 1 /\ at = W * q + from
  BY <1>3, Coordinates, Zenon
<1> HIDE DEF from, q
<1>5. take \in Nat /\ take > 0 /\ take <= left /\ from + take <= W
  BY <1>1, <1>3, <1>4, PlacedIsWithin
<1> HIDE DEF take, d, n, start
(* The bits of the chunk, by their place in the stream.                     *)
<1>6. ASSUME NEW m \in 0 .. take - 1
      PROVE  /\ BitOf(out, at + m) = byte[BitIndex(from + m)]
             /\ BitOf(out, at + m) \in {0, 1}
  <2>1. from + m \in 0 .. W - 1 /\ at + m = W * q + (from + m) /\ at + m \in Nat
    <3>1. W * q \in Int
      BY <1>3, <1>4
    <3> QED BY <1>3, <1>4, <1>5, <3>1
  <2>2. BitOf(out, W * q + (from + m)) = byte[BitIndex(from + m)]
    BY <1>4, <2>1, BitAt
  <2>3. at + m < W * (Len(out) - base)
    <3>1. Own = Len(out) - base /\ W * Own \in Nat
      BY <1>3, PositionIs DEF Own
    <3> DEFINE size == W * Own
    <3>2. size \in Nat /\ start + n <= size
      BY <1>3, <3>1
    <3> HIDE DEF size
    <3>3. at + m < size
      BY <1>3, <1>5, <3>2
    <3> QED BY <3>1, <3>3 DEF size
  <2>4. BitOf(out, at + m) \in {0, 1}
    BY <1>3, <2>1, <2>3, BitIsThere DEF Typed
  <2> QED BY <2>1, <2>2, <2>4
<1>7. \A k \in 0 .. MaxBits - 1 :
        value[k] = IF k < d THEN BitOf(out, IF msb THEN at - 1 - k ELSE start + k) ELSE 0
  BY <1>1, <1>3 DEF Reads, d, start
<1>8. value \in [0 .. MaxBits - 1 -> {0, 1}] /\ d + take <= n /\ n <= MaxBits
  <2>1. n <= MaxBits /\ d + take <= n
    BY <1>3, <1>5
  <2> QED BY <1>3, <2>1 DEF Value
<1>9. ASSUME NEW k \in 0 .. MaxBits - 1
      PROVE  value'[k] = IF k < d + take
                         THEN BitOf(out, IF msb THEN at + take - 1 - k ELSE start + k) ELSE 0
  <2>1. CASE msb
    <3> DEFINE by == W - from - take
               a == ShlValue(value, take)[k]
               b == Taken(by, 0)[k]
    <3>1. value'[k] = IF a = 1 \/ b = 1 THEN 1 ELSE 0
      BY <1>2, <2>1
    <3>2. a = IF k >= take THEN value[k - take] ELSE 0
      BY DEF ShlValue
    <3>3. b = IF k < take THEN byte[k + by] ELSE 0
      BY <1>3, <1>5
    <3> HIDE DEF a, b
    <3>4. CASE k < take
      <4> DEFINE m == take - 1 - k
      <4>1. m \in 0 .. take - 1 /\ at + m = at + take - 1 - k /\ k < d + take
        BY <1>3, <1>5, <3>4
      <4>2. BitIndex(from + m) = k + by
        <5>1. W - 1 - (from + m) = k + by
          BY <1>3, <1>4, <1>5
        <5> QED BY <2>1, <5>1 DEF BitIndex
      <4> HIDE DEF m, by
      <4>3. b = BitOf(out, at + m) /\ b \in {0, 1} /\ a = 0
        <5>1. a = 0 /\ b = byte[k + by]
          BY <1>5, <3>2, <3>3, <3>4
        <5> QED BY <1>6, <4>1, <4>2, <5>1
      <4> QED BY <2>1, <3>1, <4>1, <4>3
    <3>5. CASE ~(k < take)
      <4> DEFINE j == k - take
      <4>1. j \in 0 .. MaxBits - 1 /\ (j < d <=> k < d + take) /\ at - 1 - j = at + take - 1 - k
        BY <1>3, <1>5, <3>5
      <4>2. a = value[j] /\ b = 0
        BY <1>5, <3>2, <3>3, <3>5
      <4> HIDE DEF j
      <4>3. value[j] \in {0, 1}
        BY <1>8, <4>1
      <4>4. value[j] = IF j < d THEN BitOf(out, at - 1 - j) ELSE 0
        BY <1>7, <2>1, <4>1
      <4> QED BY <2>1, <3>1, <4>1, <4>2, <4>3, <4>4
    <3> QED BY <3>4, <3>5
  <2>2. CASE ~msb
    <3> DEFINE a == value[k]
               b == Taken(from, d)[k]
    <3>1. value'[k] = IF a = 1 \/ b = 1 THEN 1 ELSE 0
      BY <1>2, <1>3, <2>2 DEF n
    <3>2. b = IF k \in d .. d + take - 1 THEN byte[k - d + from] ELSE 0
      BY <1>3, <1>5
    <3>3. a = IF k < d THEN BitOf(out, start + k) ELSE 0
      BY <1>7, <2>2
    <3>4. a \in {0, 1}
      BY <1>8
    <3> HIDE DEF a, b
    <3>5. CASE k < d
      <4>1. b = 0 /\ k < d + take
        BY <1>3, <1>5, <3>2, <3>5
      <4> QED BY <2>2, <3>1, <3>3, <3>4, <3>5, <4>1
    <3>6. CASE k \in d .. d + take - 1
      <4> DEFINE m == k - d
      <4>1. m \in 0 .. take - 1 /\ at + m = start + k /\ k < d + take /\ ~(k < d) /\ m + from = from + m
        BY <1>3, <1>4, <1>5, <3>6
      <4>2. BitIndex(from + m) = from + m
        BY <2>2 DEF BitIndex
      <4>3. b = byte[m + from]
        BY <3>2, <3>6
      <4> HIDE DEF m
      <4>4. b = BitOf(out, at + m) /\ b \in {0, 1}
        BY <1>6, <4>1, <4>2, <4>3
      <4> QED BY <2>2, <3>1, <3>3, <4>1, <4>4
    <3>7. CASE k >= d + take
      <4>1. b = 0 /\ ~(k < d) /\ ~(k < d + take)
        BY <1>3, <1>5, <3>2, <3>7
      <4> QED BY <2>2, <3>1, <3>3, <4>1
    <3>8. k < d \/ k \in d .. d + take - 1 \/ k >= d + take
      BY <1>3, <1>5
    <3> QED BY <3>5, <3>6, <3>7, <3>8
  <2> QED BY <2>1, <2>2
<1>10. Done' = d + take /\ left' \in 0 .. n /\ at' = start + (d + take) /\ at' \in Nat
  <2>1. Done' = n - left'
    BY <1>1 DEF Done, n
  <2> QED BY <1>1, <1>3, <1>5, <2>1
<1>11. Reads'
  <2>1. value' \in Value
    <3>1. ASSUME NEW a, NEW b PROVE OrValue(a, b) \in Value
      BY DEF Value
    <3> HIDE DEF OrValue, Taken
    <3> QED BY <1>2, <3>1
  <2>2. /\ arg'.bits \in 0 .. MaxBits /\ left' \in 0 .. arg'.bits /\ mark'.position \in Nat
        /\ at' = mark'.position + Done' /\ mark'.position + arg'.bits <= W * Own'
    <3>1. Own' = Own
      BY <1>1 DEF Own
    <3> QED BY <1>1, <1>3, <1>10, <3>1 DEF n, start
  <2>3. ASSUME NEW k \in 0 .. MaxBits - 1
        PROVE  value'[k] = IF k < Done'
                           THEN BitOf(out, IF msb THEN at - 1 - k ELSE mark.position + k)' ELSE 0
    <3>1. at' - 1 - k = at + take - 1 - k
      BY <1>1, <1>3, <1>5
    <3>2. BitOf(out, IF msb THEN at - 1 - k ELSE mark.position + k)' =
            BitOf(out, IF msb THEN at' - 1 - k ELSE start + k)
      <4>1. CASE msb
        BY <1>1, <4>1 DEF BitOf, BitIndex
      <4>2. CASE ~msb
        BY <1>1, <4>2 DEF BitOf, BitIndex, start
      <4> QED BY <4>1, <4>2
    <3> QED BY <1>9, <1>10, <3>1, <3>2
  <2> QED BY <2>1, <2>2, <2>3 DEF Reads
<1>12. Writes' /\ Patches' /\ Fits'
  BY <1>1, <1>3, <1>10 DEF Writes, Patches, Fits
<1>13. Stream' = Stream
  BY <1>1, ReaderStream
<1>14. Pos' = Pos
  BY <1>1 DEF Pos
<1> QED BY <1>1, <1>11, <1>12, <1>13, <1>14, Stutters

LEMMA ReadReturnsRefines ==
    ASSUME RInv, ReadReturns
    PROVE  Writes' /\ Patches' /\ Reads' /\ Fits' /\ Implements
<1> DEFINE n == arg.bits
           start == mark.position
           size == W * Own
           fill == W * Abstract!Touched(Len(Stream)) - Len(Stream)
           zeros == [k \in 1 .. fill |-> 0]
<1>1. /\ pc = "read" /\ pc' = "idle" /\ left = 0 /\ answer' = Answered("read", value)
      /\ mark' = mark /\ at' = at
      /\ msb' = msb /\ cap' = cap /\ out' = out /\ base' = base /\ used' = used
  BY DEF ReadReturns, buffer, writer, local
<1>2. /\ Typed /\ PadIsZero /\ Fits /\ Reads /\ MaxBits \in Nat /\ PosMax \in Nat
      /\ n \in 0 .. MaxBits /\ n \in Nat /\ Done = n
      /\ start \in Nat /\ at = start + n /\ start + n <= size
      /\ value \in Value
      /\ Own \in Nat /\ Position \in Nat /\ size \in Nat /\ Position <= size
      /\ CeilDiv(Position) = Own
  <2>1. Typed /\ PadIsZero /\ Fits /\ Reads /\ MaxBits \in Nat /\ PosMax \in Nat
    BY CursorAssumption DEF RInv, IInv
  <2>2. /\ n \in 0 .. MaxBits /\ start \in Nat /\ at = start + Done /\ start + n <= size
        /\ value \in Value
    BY <1>1, <2>1 DEF Reads
  <2>3. Done = n /\ n \in Nat
    BY <1>1, <2>1, <2>2 DEF Done
  <2>4. Own \in Nat /\ Position \in Nat /\ size \in Nat /\ Position <= size /\ CeilDiv(Position) = Own
    BY <2>1, PositionIs, TouchesOwn
  <2> QED BY <2>1, <2>2, <2>3, <2>4
<1>3. Writes' /\ Patches' /\ Reads' /\ Fits'
  BY <1>1, <1>2 DEF Writes, Patches, Reads, Fits
<1>4. Stream' = Stream /\ Stream = [k \in 1 .. Position |-> BitOf(out, k - 1)]
  BY <1>1, ReaderStream
<1>5. Len(Stream) = Position /\ Stream \in Seq({0, 1})
  <2>1. \A k \in 1 .. Position : BitOf(out, k - 1) \in {0, 1}
    BY <1>2, PrefixType
  <2> QED BY <1>2, <1>4, <2>1
<1>6. fill = size - Position /\ fill \in Nat
  <2>1. Abstract!Touched(Len(Stream)) = Own
    BY <1>2, <1>5 DEF Abstract!Touched, CeilDiv
  <2>2. fill = size - Position
    BY <1>5, <2>1
  <2> HIDE DEF size, fill
  <2> QED BY <1>2, <2>2
<1> HIDE DEF fill, size
(* The bits before the cursor and the zeros after it are the bits there.    *)
<1>7. /\ Abstract!Padded \in Seq({0, 1}) /\ Len(Abstract!Padded) = size
      /\ \A k \in 1 .. size : Abstract!Padded[k] = BitOf(out, k - 1)
  <2>1. zeros \in Seq({0, 1}) /\ Len(zeros) = fill /\ \A k \in 1 .. fill : zeros[k] = 0
    BY <1>6
  <2>2. Abstract!Padded = Stream \o zeros
    BY DEF Abstract!Padded, fill
  <2> HIDE DEF zeros
  <2>3. /\ Stream \o zeros \in Seq({0, 1}) /\ Len(Stream \o zeros) = Position + fill
        /\ \A k \in 1 .. Position + fill :
             (Stream \o zeros)[k] = IF k <= Position THEN Stream[k] ELSE zeros[k - Position]
    BY <1>5, <2>1, ConcatProperties
  <2>4. Position + fill = size
    BY <1>2, <1>6
  <2>5. ASSUME NEW k \in 1 .. size PROVE (Stream \o zeros)[k] = BitOf(out, k - 1)
    <3>1. CASE k <= Position
      <4>1. k \in 1 .. Position
        BY <1>2, <3>1
      <4> QED BY <1>4, <2>3, <2>4, <3>1, <4>1
    <3>2. CASE ~(k <= Position)
      <4>1. k - Position \in 1 .. fill
        BY <1>2, <1>6, <3>2
      <4>2. (Stream \o zeros)[k] = 0
        BY <2>1, <2>3, <2>4, <3>2, <4>1
      <4>3. k - 1 \in Position .. size - 1
        BY <1>2, <3>2
      <4>4. BitOf(out, k - 1) = 0
        BY <1>2, <4>3, PadBits DEF size
      <4> QED BY <4>2, <4>4
    <3> QED BY <3>1, <3>2
  <2> QED BY <2>2, <2>3, <2>4, <2>5
<1> DEFINE field == SubSeq(Abstract!Padded, start + 1, start + n)
<1>8. \A k \in 1 .. n : field[k] = BitOf(out, start + k - 1)
  <2>1. ASSUME NEW k \in 1 .. n PROVE field[k] = BitOf(out, start + k - 1)
    <3>1. start + 1 \in Int /\ start + n \in Int /\ k \in 1 .. (start + n) - (start + 1) + 1
      BY <1>2
    <3>2. field[k] = Abstract!Padded[(start + 1) + k - 1]
      BY <1>7, <3>1
    <3>3. (start + 1) + k - 1 = start + k /\ start + k \in 1 .. size
      BY <1>2
    <3>4. (start + k) - 1 = start + k - 1
      BY <1>2
    <3>5. Abstract!Padded[start + k] = BitOf(out, (start + k) - 1)
      BY <1>7, <3>3
    <3> QED BY <3>2, <3>3, <3>4, <3>5
  <2> QED BY <2>1
<1> HIDE DEF field
<1>9. value = Abstract!ValueOf(field, n)
  <2>1. ASSUME NEW k \in 0 .. MaxBits - 1
        PROVE  value[k] = IF k >= n THEN 0 ELSE IF msb THEN field[n - k] ELSE field[k + 1]
    <3>1. value[k] = IF k < n THEN BitOf(out, IF msb THEN at - 1 - k ELSE start + k) ELSE 0
      BY <1>1, <1>2 DEF Reads
    <3>2. CASE k >= n
      BY <1>2, <3>1, <3>2
    <3>3. CASE k < n /\ msb
      <4>1. n - k \in 1 .. n /\ start + (n - k) - 1 = at - 1 - k /\ ~(k >= n)
        BY <1>2, <3>3
      <4>2. field[n - k] = BitOf(out, start + (n - k) - 1)
        BY <1>8, <4>1
      <4> QED BY <3>1, <3>3, <4>1, <4>2
    <3>4. CASE k < n /\ ~msb
      <4>1. k + 1 \in 1 .. n /\ start + (k + 1) - 1 = start + k /\ ~(k >= n)
        BY <1>2, <3>4
      <4>2. field[k + 1] = BitOf(out, start + (k + 1) - 1)
        BY <1>8, <4>1
      <4> QED BY <3>1, <3>4, <4>1, <4>2
    <3> QED BY <1>2, <3>2, <3>3, <3>4
  <2>2. value = [k \in 0 .. MaxBits - 1 |-> value[k]]
    BY <1>2 DEF Value
  <2>3. Abstract!ValueOf(field, n) =
          [k \in 0 .. MaxBits - 1 |->
             IF k >= n THEN 0 ELSE IF msb THEN field[n - k] ELSE field[k + 1]]
    BY DEF Abstract!ValueOf
  <2> QED BY <2>1, <2>2, <2>3
<1>10. CeilDiv(Saturated(start + n)) <= CeilDiv(Len(Stream))
  <2>1. Saturated(start + n) \in Nat /\ Saturated(start + n) <= start + n
    BY <1>2 DEF Saturated
  <2>2. Saturated(start + n) <= W * Own
    BY <1>2, <2>1 DEF size
  <2> QED BY <1>2, <1>5, <2>1, <2>2, Touches
<1>11. Pos = start /\ Pos' = start + n
  BY <1>1, <1>2 DEF Pos
<1> HIDE DEF start, n
<1>12. answer' = Answered("read", Abstract!ValueOf(SubSeq(Abstract!Padded, Pos + 1, Pos + n), n))
  BY <1>1, <1>9, <1>11 DEF field
<1> QED BY <1>1, <1>2, <1>3, <1>4, <1>10, <1>11, <1>12, ImplementsRead

----------------------------------------------------------------------------
LEMMA StandRefines ==
    ASSUME RInv, UNCHANGED vars
    PROVE  Writes' /\ Patches' /\ Reads' /\ Fits' /\ Implements
<1>1. /\ pc' = pc /\ arg' = arg /\ left' = left /\ cur' = cur /\ mark' = mark /\ value' = value
      /\ at' = at /\ answer' = answer
      /\ msb' = msb /\ cap' = cap /\ out' = out /\ base' = base /\ used' = used
  BY DEF vars, buffer, writer, local
<1>2. Writes' /\ Patches' /\ Reads' /\ Fits'
  BY <1>1 DEF RInv, Writes, Patches, Reads, Fits, Position, Own, Done, WireBit, BitOf, BitIndex
<1>3. Stream' = Stream
  BY <1>1 DEF Stream, Position, BitIndex
<1>4. Pos' = Pos
  BY <1>1 DEF Pos
<1> QED BY <1>1, <1>2, <1>3, <1>4, Stutters

LEMMA StepRefines == RInv /\ [Next]_vars => RInv' /\ Implements
<1> DEFINE Goal == Writes' /\ Patches' /\ Reads' /\ Fits' /\ Implements
<1> SUFFICES ASSUME RInv, [Next]_vars PROVE Goal
  BY StepKeeps DEF RInv
<1>1. ASSUME NEW n \in 0 .. MaxBits, NEW v \in Values, WriteCall(v, n) PROVE Goal
  BY <1>1, WriteCallRefines
<1>2. ASSUME NEW n \in 0 .. MaxBits, NEW v \in Values, NEW p \in 0 .. Position - n,
             PatchCall(v, n, p)
      PROVE  Goal
  BY <1>2, PatchCallRefines
<1>3. ASSUME NEW n \in 0 .. MaxBits, ReadCall(n) PROVE Goal
  BY <1>3, ReadCallRefines
<1>4. ASSUME NEW p \in 0 .. PosMax, ReaderAt(p) PROVE Goal
  BY <1>4, ReaderAtRefines
<1>5. ASSUME NEW p \in 0 .. PosMax, Skip(p) PROVE Goal
  BY <1>5, SkipRefines
<1>6. CASE WriteChunk
  BY <1>6, WriteChunkRefines
<1>7. CASE WriteOverflow
  BY <1>7, WriteOverflowRefines
<1>8. CASE WriteReturns
  BY <1>8, WriteReturnsRefines
<1>9. CASE PatchChunk
  BY <1>9, PatchChunkRefines
<1>10. CASE PatchReturns
  BY <1>10, PatchReturnsRefines
<1>11. CASE ReadChunk
  BY <1>11, ReadChunkRefines
<1>12. CASE ReadReturns
  BY <1>12, ReadReturnsRefines
<1>13. CASE UNCHANGED vars
  BY <1>13, StandRefines
<1> HIDE DEF Goal
<1> QED
  BY <1>1, <1>2, <1>3, <1>4, <1>5, <1>6, <1>7, <1>8, <1>9, <1>10, <1>11, <1>12, <1>13
     DEF Next, Turn

(* bits.rs: for every byte width, field width, buffer and sequence of       *)
(* calls, the cursors do what BitStream says: a field is appended whole or  *)
(* not at all and refused only when its last byte does not fit, a patch     *)
(* changes its own bits alone, and a field is read back as it was written,  *)
(* in either bit order and at every position.                              *)
THEOREM CursorsImplementStream == Spec => ImplementsBitStream
<1>1. Init => RInv
  <2> SUFFICES ASSUME Init PROVE RInv
    OBVIOUS
  <2>1. IInv
    BY CursorAssumption DEF Init, IInv, Typed, Writing, Patching, PadIsZero
  <2>2. Writes /\ Patches /\ Reads
    BY DEF Init, Writes, Patches, Reads
  <2>3. Fits
    BY CursorAssumption DEF Init, Fits, NoMark
  <2> QED BY <2>1, <2>2, <2>3 DEF RInv
<1> QED BY <1>1, StepRefines, PTL DEF Spec, ImplementsBitStream, Implements
=============================================================================
