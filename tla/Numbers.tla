------------------------------ MODULE Numbers ------------------------------
(***************************************************************************)
(* The number codings of layline-core (num/varint.rs, num/expgolomb.rs):    *)
(* unsigned and signed LEB128, zigzag on top of unsigned LEB128 as the doc  *)
(* of zigzag combines them, and Exp-Golomb on a bit cursor.  A turn of an   *)
(* encode or decode loop is a step.                                         *)
(*                                                                         *)
(* A behaviour encodes a number into a buffer that may run out and decodes  *)
(* what was written with more input after it, or decodes any input.         *)
(*                                                                         *)
(* A LEB128 byte is Group bits and, above them, the continuation bit; the   *)
(* Exp-Golomb coding is over single bits, in bytes of as many.  Reading and *)
(* writing those bits is what BitCursor implements (BitStream).             *)
(***************************************************************************)
EXTENDS Integers, Sequences, Bitwise

CONSTANTS
  Width,    \* bits of a u64 (64)
  Group,    \* bits of the number in a LEB128 byte (7)
  Rooms,    \* sizes of the Buffer in bytes
  Inputs,   \* inputs to decode, LEB128 bytes
  Bits,     \* inputs to decode, Exp-Golomb bits in whole bytes
  Tails,    \* what follows a written LEB128 number in the input
  BitTails  \* what follows a written Exp-Golomb number

ASSUME NumbersAssumption ==
  /\ Group \in Nat \ {0, 1} /\ Width \in Nat \ {0}
  \* The last byte of the widest number holds one bit of it: 64 is 9 * 7 + 1.
  /\ Width % Group = 1
  /\ Rooms \subseteq Nat
  /\ Inputs \cup Tails \subseteq Seq(0 .. 2 ^ (Group + 1) - 1)
  /\ Bits \cup BitTails \subseteq Seq({0, 1})

----------------------------------------------------------------------------
(* u64 and i64 *)

Modulus == 2 ^ Width
Unsigned == 0 .. Modulus - 1
Signed == -(2 ^ (Width - 1)) .. 2 ^ (Width - 1) - 1

AsU64(n) == n % Modulus
AsI64(n) == IF n % Modulus \in Signed THEN n % Modulus ELSE (n % Modulus) - Modulus

\* n << by and n >> by on a u64, by < Width.
Shl(n, by) == AsU64(n * 2 ^ by)
Shr(n, by) == n \div 2 ^ by

Payload(b) == b % 2 ^ Group
Continues(b) == b \div 2 ^ Group = 1
SignBit(b) == (b \div 2 ^ (Group - 1)) % 2 = 1

\* i >> 63 is all ones for a negative number.
ZigZag(n) == Shl(AsU64(n), 1) ^^ AsU64(n \div 2 ^ (Width - 1))
UnZigZag(raw) == AsI64(Shr(raw, 1) ^^ AsU64(-(raw % 2)))

----------------------------------------------------------------------------
VARIABLES
  coding,    \* which number type
  number,    \* the number to encode
  room,      \* bytes the Buffer takes
  phase,     \* "encode", "overflow", "written", "decode" or "decoded"
  rest,      \* encode: what is left of the number
  out,       \* what is written: bytes, or bits
  data,      \* decode: the input
  at,        \* decode: bytes or bits read
  shift,     \* decode: bits collected; Exp-Golomb: zeros counted
  acc,       \* decode: the u64 collected
  answer     \* what decode returned

encoding == <<rest, out>>
decoding == <<data, at, shift, acc, answer>>
vars == <<coding, number, room, phase, encoding, decoding>>

Codings == {"Uleb128", "Zigzag", "Sleb128", "ExpGolomb"}
Leb == {"Uleb128", "Zigzag"}

NumbersOf(c) == IF c \in {"Zigzag", "Sleb128"} THEN Signed ELSE Unsigned
InputsOf(c) == IF c = "ExpGolomb" THEN Bits ELSE Inputs

\* What encode's loop starts from.
Raw(c, n) == IF c = "Zigzag" THEN ZigZag(n) ELSE n

NoAnswer == [kind |-> "none", number |-> 0, used |-> 0]
Read(n, used) == [kind |-> "Read", number |-> n, used |-> used]
Short == [kind |-> "Short", number |-> 0, used |-> 0]
Malformed == [kind |-> "Malformed", number |-> 0, used |-> 0]

Init ==
  /\ coding \in Codings
  /\ out = <<>> /\ at = 0 /\ shift = 0 /\ acc = 0 /\ answer = NoAnswer
  /\ \/ /\ phase = "encode" /\ number \in NumbersOf(coding) /\ room \in Rooms
        /\ rest = Raw(coding, number) /\ data = <<>>
     \/ /\ phase = "decode" /\ data \in InputsOf(coding)
        /\ number = 0 /\ room = 0 /\ rest = 0

----------------------------------------------------------------------------
(* encode *)

\* Bytes that a coding's first n bytes, or bits, take.
BytesOf(n) == IF coding = "ExpGolomb" THEN (n + Group) \div (Group + 1) ELSE n
Fits(n) == BytesOf(n) <= room

\* push or a cursor's write: all of s, or an overflow that ends encode.
Put(s, then) ==
  /\ IF Fits(Len(out \o s)) THEN out' = out \o s /\ phase' = then
                       ELSE UNCHANGED out /\ phase' = "overflow"
  /\ UNCHANGED <<coding, number, room, decoding>>

\* Mutant: the continuation bit looks at what the number was before the shift.
UlebPutLate ==
  /\ phase = "encode" /\ coding \in Leb
  /\ rest' = Shr(rest, Group)
  /\ Put(<<Payload(rest) + IF rest # 0 THEN 2 ^ Group ELSE 0>>,
         IF rest # 0 THEN "encode" ELSE "written")

UlebPut ==
  /\ phase = "encode" /\ coding \in Leb
  /\ rest' = Shr(rest, Group)
  /\ Put(<<Payload(rest) + IF rest' # 0 THEN 2 ^ Group ELSE 0>>,
         IF rest' # 0 THEN "encode" ELSE "written")

\* Mutant: the last byte's sign bit is not looked at.
SlebDoneEarly(left, byte) == left \in {0, -1}

SlebDone(left, byte) == \/ left = 0 /\ ~SignBit(byte)
                        \/ left = -1 /\ SignBit(byte)

SlebPut ==
  /\ phase = "encode" /\ coding = "Sleb128"
  /\ rest' = rest \div 2 ^ Group
  /\ LET byte == Payload(rest)
         done == SlebDone(rest', byte)
     IN  Put(<<byte + IF done THEN 0 ELSE 2 ^ Group>>, IF done THEN "written" ELSE "encode")

\* ExpGolomb::split: how many zeros, and the bits after the one.
Zeros(n) ==
  IF n = Modulus - 1 THEN Width ELSE CHOOSE z \in 0 .. Width : n + 1 \in 2 ^ z .. 2 ^ (z + 1) - 1
Suffix(n) == IF n = Modulus - 1 THEN 0 ELSE n + 1 - 2 ^ Zeros(n)

\* n bits of v, the top one first.
TopFirst(v, n) == [k \in 1 .. n |-> (v \div 2 ^ (n - k)) % 2]

\* Three writes, one a step: each is whole or refused, and what the ones before it wrote stays.
GolombPut ==
  /\ phase = "encode" /\ coding = "ExpGolomb"
  /\ UNCHANGED rest
  /\ LET zeros == Zeros(rest)
     IN  CASE Len(out) = 0 /\ zeros > 0 -> Put(TopFirst(0, zeros), "encode")
           [] Len(out) = zeros /\ zeros > 0 -> Put(<<1>>, "encode")
           [] Len(out) = 0 /\ zeros = 0 -> Put(<<1>>, "written")
           [] OTHER -> Put(TopFirst(Suffix(rest), zeros), "written")

----------------------------------------------------------------------------
(* decode *)

TailsOf(c) == IF c = "ExpGolomb" THEN BitTails ELSE Tails

\* A bit cursor's input is whole bytes.
Whole(s) == coding = "ExpGolomb" => Len(s) % (Group + 1) = 0

\* The written number is decoded, with other input after it.
DecodeCalled ==
  /\ phase = "written"
  /\ \E tail \in TailsOf(coding) :
       /\ Whole(out \o tail)
       /\ data' = out \o tail
  /\ phase' = "decode"
  /\ UNCHANGED <<coding, number, room, encoding, at, shift, acc, answer>>

Return(a) ==
  /\ answer' = a /\ phase' = "decoded"
  /\ UNCHANGED <<coding, number, room, encoding, data, at, shift, acc>>

Collect(a) ==
  /\ acc' = a /\ at' = at + 1 /\ shift' = shift + Group
  /\ UNCHANGED <<coding, number, room, phase, encoding, data, answer>>

\* Mutant: only the group's place is checked, not its bits.
UlebTooWideByPlace(payload) == shift >= Width

\* The group is past the type, or has bits that are shifted out of it.
UlebTooWide(payload) == shift >= Width \/ Shr(Shl(payload, shift), shift) # payload

UlebTake ==
  /\ phase = "decode" /\ coding \in Leb /\ at < Len(data)
  /\ LET b == data[at + 1]
         total == acc | Shl(Payload(b), shift)
     IN  IF UlebTooWide(Payload(b)) THEN Return(Malformed)
         ELSE IF Continues(b) THEN Collect(total)
         ELSE Return(Read(IF coding = "Zigzag" THEN UnZigZag(total) ELSE total, at + 1))

\* The group is past the type, or holds the type's last bit and other bits than copies of it.
SlebTooWide(payload) ==
  \/ shift >= Width
  \/ shift = Width - 1 /\ payload # IF payload % 2 = 0 THEN 0 ELSE 2 ^ Group - 1

\* The bits above the ones collected are copies of the last byte's sign bit.
SlebExtended(total, last) ==
  IF shift + Group < Width /\ SignBit(last)
  THEN AsI64(total | Shl(Modulus - 1, shift + Group)) ELSE AsI64(total)

SlebTake ==
  /\ phase = "decode" /\ coding = "Sleb128" /\ at < Len(data)
  /\ LET b == data[at + 1]
         total == acc | Shl(Payload(b), shift)
     IN  IF SlebTooWide(Payload(b)) THEN Return(Malformed)
         ELSE IF Continues(b) THEN Collect(total)
         ELSE Return(Read(SlebExtended(total, b), at + 1))

\* The loop ran out of bytes.
LebEnds ==
  /\ phase = "decode" /\ coding # "ExpGolomb" /\ at = Len(data)
  /\ Return(Short)

\* A zero bit before the one.
GolombZero ==
  /\ phase = "decode" /\ coding = "ExpGolomb" /\ at < Len(data) /\ data[at + 1] = 0
  /\ IF shift + 1 > Width THEN Return(Malformed)
     ELSE /\ shift' = shift + 1 /\ at' = at + 1
          /\ UNCHANGED <<coding, number, room, phase, encoding, data, acc, answer>>

\* checked_add.
SumFits(base, suffix) == base + suffix < Modulus

\* The one bit and, read as one field, the bits after it.
GolombOne ==
  /\ phase = "decode" /\ coding = "ExpGolomb" /\ at < Len(data) /\ data[at + 1] = 1
  /\ LET end == at + 1 + shift
         suffix == IF shift = 0 THEN 0
                   ELSE LET f[k \in 0 .. shift] ==
                              IF k = 0 THEN 0 ELSE 2 * f[k - 1] + data[at + 1 + k]
                        IN  f[shift]
         base == 2 ^ shift - 1
     IN  IF end > Len(data) THEN Return(Short)
         ELSE IF ~SumFits(base, suffix) THEN Return(Malformed)
         ELSE Return(Read(base + suffix, end))

GolombEnds ==
  /\ phase = "decode" /\ coding = "ExpGolomb" /\ at = Len(data)
  /\ Return(Short)

----------------------------------------------------------------------------
Next ==
  \/ UlebPut \/ SlebPut \/ GolombPut
  \/ DecodeCalled
  \/ UlebTake \/ SlebTake \/ LebEnds \/ GolombZero \/ GolombOne \/ GolombEnds

Spec == Init /\ [][Next]_vars

----------------------------------------------------------------------------
(* What a coding means, over the integers *)

GroupsOfWidest == (Width + Group - 1) \div Group

\* The bytes of data up to the first that does not continue, or all of them.
Ends(s) == {k \in 1 .. Len(s) : ~Continues(s[k])}
Given(s) == IF Ends(s) = {} THEN s
            ELSE SubSeq(s, 1, CHOOSE k \in Ends(s) : \A j \in Ends(s) : k <= j)

\* The number that groups in base 2 ^ Group stand for, lowest first.
Sum(s) ==
  LET f[k \in 0 .. Len(s)] ==
        IF k = 0 THEN 0 ELSE f[k - 1] + Payload(s[k]) * 2 ^ (Group * (k - 1))
  IN  f[Len(s)]
TwosComplement(s) ==
  IF Len(s) > 0 /\ SignBit(s[Len(s)]) THEN Sum(s) - 2 ^ (Group * Len(s)) ELSE Sum(s)

\* 0, -1, 1, -2, 2 ... are numbered from 0.
Alternated(n) == IF n % 2 = 0 THEN n \div 2 ELSE -((n + 1) \div 2)

Meaning(c, s) ==
  CASE c = "Uleb128" -> Sum(s) [] c = "Zigzag" -> Alternated(Sum(s))
    [] c = "Sleb128" -> TwosComplement(s)

LebReference(c, s) ==
  IF Len(Given(s)) > GroupsOfWidest THEN Malformed
  ELSE IF Len(Given(s)) = GroupsOfWidest /\ Meaning(c, Given(s)) \notin NumbersOf(c)
       THEN Malformed
  ELSE IF Ends(s) = {} THEN Short
  ELSE Read(Meaning(c, Given(s)), Len(Given(s)))

\* n zeros, a one and n bits b stand for the b-th of the numbers from 2 ^ n - 1.
GolombReference(s) ==
  LET ones == {k \in 1 .. Len(s) : s[k] = 1}
      zeros == IF ones = {} THEN Len(s) ELSE (CHOOSE k \in ones : \A j \in ones : k <= j) - 1
  IN  IF zeros > Width THEN Malformed
      ELSE IF ones = {} \/ Len(s) < 2 * zeros + 1 THEN Short
      ELSE LET n == CHOOSE n \in 2 ^ zeros - 1 .. 2 ^ (zeros + 1) - 2 :
                      TopFirst(n + 1 - 2 ^ zeros, zeros) = SubSeq(s, zeros + 2, 2 * zeros + 1)
           IN  IF n \in Unsigned THEN Read(n, 2 * zeros + 1) ELSE Malformed

Reference(c, s) == IF c = "ExpGolomb" THEN GolombReference(s) ELSE LebReference(c, s)

----------------------------------------------------------------------------
(* What should hold *)

\* Whatever the input, decode answers what the coding means: the number over the
\* integers, "too wide" as soon as the bytes say so and before their end is known, and
\* never a number that its type cannot hold.
DecodeIsReference == phase = "decoded" => answer = Reference(coding, data)

\* Decode reads back what encode wrote, the least and greatest numbers too, and stops at
\* its end whatever follows.
NumberRoundTrip == phase = "decoded" /\ out # <<>> => answer = Read(number, Len(out))

\* All that the inputs of a coding mean, and how long the codings of n among them are.
Readings == [c \in Codings |-> {Reference(c, s) : s \in InputsOf(c)}]
Lengths(n) == {r.used : r \in {r \in Readings[coding] : r.kind = "Read" /\ r.number = n}}

\* Encode writes a shortest coding, although decode reads longer ones too, and overflows
\* only when no coding of the number fits in the buffer.
ShortestOrOverflow ==
  /\ phase = "written" => \A n \in Lengths(number) : Len(out) <= n
  /\ phase = "overflow" => \A n \in Lengths(number) : ~Fits(n)
=============================================================================
