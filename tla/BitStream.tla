----------------------------- MODULE BitStream -----------------------------
(***************************************************************************)
(* What the bit cursors of layline-core (bits.rs) promise, without bytes:   *)
(* a sequence of bits that a writer extends by whole fields or not at all   *)
(* and may overwrite in place, and a reader that takes fields from it.  A   *)
(* field goes into the sequence with its top bit first or its bottom bit    *)
(* first.  The sequence is stored in bytes, so a reader may also take the   *)
(* zeros that fill the last byte.                                           *)
(***************************************************************************)
EXTENDS Integers, Sequences

CONSTANTS
  W,         \* bits of a byte
  MaxBits,   \* bits of the widest field
  Values,    \* the values fields are given: functions from 0 .. MaxBits - 1 to {0, 1}
  MaxCap,    \* bytes of the largest buffer
  PosMax     \* the largest position a reader holds, where sums saturate

VARIABLES
  msb,       \* whether a field's top bit comes first
  room,      \* bytes the writer may fill
  stream,    \* the bits written
  pos,       \* the reader's position
  answer     \* what the last write, read or skip answered

vars == <<msb, room, stream, pos, answer>>

Answered(kind, value) == [kind |-> kind, value |-> value]
Zero == [k \in 0 .. MaxBits - 1 |-> 0]

\* The low n bits of v, in the order they take in the stream.
WireBits(v, n) == [k \in 1 .. n |-> IF msb THEN v[n - k] ELSE v[k - 1]]

\* The value of n bits read from s.
ValueOf(s, n) ==
  [k \in 0 .. MaxBits - 1 |-> IF k >= n THEN 0 ELSE IF msb THEN s[n - k] ELSE s[k + 1]]

\* How many bytes n bits touch.
Touched(n) == (n + W - 1) \div W

Padded == stream \o [k \in 1 .. W * Touched(Len(stream)) - Len(stream) |-> 0]

Saturated(n) == IF n > PosMax THEN PosMax ELSE n

Init ==
  /\ msb \in BOOLEAN /\ room \in 0 .. MaxCap
  /\ stream = <<>> /\ pos = 0 /\ answer = Answered("none", Zero)

Write ==
  \E v \in Values, n \in 0 .. MaxBits :
    /\ IF Touched(Len(stream) + n) <= room
       THEN stream' = stream \o WireBits(v, n) /\ answer' = Answered("written", Zero)
       ELSE answer' = Answered("overflow", Zero) /\ UNCHANGED stream
    /\ UNCHANGED <<msb, room, pos>>

Patch ==
  \E v \in Values, n \in 0 .. MaxBits :
    \E p \in 0 .. Len(stream) - n :
      /\ stream' = [k \in 1 .. Len(stream) |->
                      IF k - p \in 1 .. n THEN WireBits(v, n)[k - p] ELSE stream[k]]
      /\ UNCHANGED <<msb, room, pos, answer>>

ReaderAt == pos' \in 0 .. PosMax /\ UNCHANGED <<msb, room, stream, answer>>

\* A reader takes a field if every byte it touches is there, and else stays.
Read ==
  \E n \in 0 .. MaxBits :
    /\ IF Touched(Saturated(pos + n)) <= Touched(Len(stream))
       THEN /\ answer' = Answered("read", ValueOf(SubSeq(Padded, pos + 1, pos + n), n))
            /\ pos' = pos + n
       ELSE answer' = Answered("short", Zero) /\ UNCHANGED pos
    /\ UNCHANGED <<msb, room, stream>>

Skip ==
  \E n \in 0 .. PosMax :
    /\ IF Touched(Saturated(pos + n)) <= Touched(Len(stream))
       THEN answer' = Answered("skipped", Zero) /\ pos' = pos + n
       ELSE answer' = Answered("short", Zero) /\ UNCHANGED pos
    /\ UNCHANGED <<msb, room, stream>>

Next == Write \/ Patch \/ ReaderAt \/ Read \/ Skip

Spec == Init /\ [][Next]_vars
=============================================================================
