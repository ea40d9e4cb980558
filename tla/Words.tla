------------------------------- MODULE Words -------------------------------
(***************************************************************************)
(* Machine words and bytes as the generated accessors of a layout handle   *)
(* them.  A word is the set of the positions of its ones, so that | is     *)
(* \cup, & is \cap and !m is the complement in the word's width.  A byte   *)
(* is a word of Byte bits; a byte array is a function on 0 .. n-1.         *)
(***************************************************************************)
EXTENDS Integers

CONSTANT Byte           \* bits in a byte

ASSUME ByteAssumption == Byte \in Nat \ {0}

Bits(n)       == 0 .. n - 1
Shl(x, k, n)  == {b + k : b \in x} \cap Bits(n)
Shr(x, k)     == {b - k : b \in {c \in x : c >= k}}
Not(x, n)     == Bits(n) \ x

(* `value as iN`: the sign bit of an n-bit integer copied up to bit m.     *)
SignCast(x, n, m) == (IF n - 1 \in x THEN x \cup (n .. m - 1) ELSE x) \cap Bits(m)

(* Extent: a field of `width` bits at bit `start` of a word.               *)
Extract(bits, start, width)   == Shr(bits, start) \cap Bits(width)
Insert(bits, start, width, v) ==
    (bits \ {b + start : b \in Bits(width)}) \cup {b + start : b \in v \cap Bits(width)}

----------------------------------------------------------------------------
(* uN::from_le_bytes and from_be_bytes over n bytes, and their inverses.   *)
Significance(endian, n, i) == IF endian = "le" THEN i ELSE n - 1 - i

FromBytes(endian, n, bytes) ==
    UNION {{Byte * Significance(endian, n, i) + b : b \in bytes[i]} : i \in 0 .. n - 1}

ToBytes(endian, n, x) ==
    [i \in 0 .. n - 1 |->
        {b \in Bits(Byte) : Byte * Significance(endian, n, i) + b \in x}]

(* `len` bytes at `offset` of a buffer, padded with zeros on their most    *)
(* significant side to a register of `reg` bytes.                          *)
LoadBytes(endian, offset, len, reg, buf) ==
    FromBytes(endian, len, [i \in 0 .. len - 1 |-> buf[offset + i]]) \cap Bits(Byte * reg)

(* The `len` bytes of a register of `reg` bytes that are not padding.      *)
Picked(endian, len, reg, x) ==
    LET first == IF endian = "le" THEN 0 ELSE reg - len
    IN  [i \in 0 .. len - 1 |-> ToBytes(endian, reg, x)[first + i]]

Put(buf, at, len, bytes) ==
    [i \in DOMAIN buf |-> IF i \in at .. at + len - 1 THEN bytes[i - at] ELSE buf[i]]

(* usize::next_power_of_two, for the sizes a register has.                 *)
NextPowerOfTwo(n) == CHOOSE r \in {1, 2, 4, 8, 16} : n <= r /\ r < 2 * n
============================================================================
