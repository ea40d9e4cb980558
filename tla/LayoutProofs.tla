---------------------------- MODULE LayoutProofs ----------------------------
(***************************************************************************)
(* A view and decode read the same values of any bytes, and the FIELDS     *)
(* table says where they are, for every width of a byte and of a register  *)
(* and every layout the derive accepts.                                    *)
(*                                                                         *)
(* Every bit of an access has a place on the wire (Spot).  A load reads    *)
(* the bits at those places and a store writes them and no others          *)
(* (LoadReads, StoreWrites), whatever the register, its shift, its byte    *)
(* order and the byte that does not fit in it.  The places of a window are *)
(* those the bits of the container have in the local word (WindowIs,       *)
(* LocalWordIs), and solve leaves every field in the record (DeclaredIs,   *)
(* PhysicalIs), so both read the same bits.                                *)
(*                                                                         *)
(* A row of FIELDS is a run of the numbering of the layout (WireBit).  An  *)
(* element is written to a block of bytes, to its bits of one word, or to  *)
(* its bits of the register (WholeField, WordField, PackedField), and each *)
(* of these is the numbering of the bits that were declared (TouchedIs),   *)
(* which the rows cover (RowsCover).  CheckLayout counts one row at every  *)
(* bit, and the numbering sends no two bits to one place (Apart).          *)
(***************************************************************************)
EXTENDS Layout, WellFoundedInduction, FiniteSetTheorems, TLAPS

----------------------------------------------------------------------------
(* Positions: a bit of a word is a bit of one of its bytes.                *)

LEMMA Coordinates ==
    ASSUME NEW k \in Nat
    PROVE  k \div Byte \in Nat /\ k % Byte \in Bits(Byte) /\ k = Byte * (k \div Byte) + (k % Byte)
<1>1. Byte \in Nat /\ Byte > 0
  BY ByteAssumption
<1>2. k \div Byte \in Nat /\ k % Byte \in 0 .. Byte - 1
  BY <1>1
<1>3. ASSUME NEW q \in Nat, q = k \div Byte PROVE k = Byte * q + (k % Byte)
  <2>1. k - Byte * q = k % Byte
    BY <1>1, <1>3, SMTT(30)
  <2>2. k % Byte \in Int /\ Byte * q \in Int
    BY <1>1
  <2> QED BY <2>1, <2>2
<1>4. k = Byte * (k \div Byte) + (k % Byte)
  BY <1>2, <1>3, Zenon
<1> QED BY <1>2, <1>4, Zenon DEF Bits

LEMMA Unique ==
    ASSUME NEW q \in Nat, NEW r \in Bits(Byte)
    PROVE  (Byte * q + r) \div Byte = q /\ (Byte * q + r) % Byte = r /\ Byte * q + r \in Nat
<1>1. Byte \in Nat /\ Byte > 0 /\ r \in 0 .. Byte - 1
  BY ByteAssumption DEF Bits
<1>2. Byte * q + r \in Nat
  BY <1>1
<1>3. ASSUME NEW k \in Nat, k = Byte * q + r PROVE k \div Byte = q
  BY <1>1, <1>3, SMTT(30)
<1>4. ASSUME NEW k \in Nat, k = Byte * q + r PROVE k % Byte = r
  BY <1>1, <1>4, SMTT(30)
<1> QED BY <1>2, <1>3, <1>4

LEMMA ByteOrder ==
    ASSUME NEW a \in Int, NEW b \in Int, NEW r \in Bits(Byte), NEW s \in Bits(Byte)
    PROVE  /\ Byte * a \in Int /\ Byte * b \in Int
           /\ Byte * a + r < Byte * b <=> a < b
           /\ Byte * a + r = Byte * b + s <=> a = b /\ r = s
<1>1. Byte \in Nat /\ Byte > 0 /\ r \in 0 .. Byte - 1 /\ s \in 0 .. Byte - 1
  BY ByteAssumption DEF Bits
<1>2. ASSUME NEW x \in Int, NEW y \in Int, x < y PROVE Byte * x + Byte <= Byte * y
  BY <1>1, <1>2, SMTT(30)
<1>3. Byte * a \in Int /\ Byte * b \in Int
  BY <1>1
<1>4. CASE a < b
  <2>1. Byte * a + Byte <= Byte * b
    BY <1>2, <1>4
  <2> QED BY <1>1, <1>3, <1>4, <2>1
<1>5. CASE b < a
  <2>1. Byte * b + Byte <= Byte * a
    BY <1>2, <1>5
  <2> QED BY <1>1, <1>3, <1>5, <2>1
<1>6. CASE a = b
  BY <1>1, <1>3, <1>6
<1> QED BY <1>4, <1>5, <1>6

(* A sum of a multiple of Byte and anything.                               *)
LEMMA Distributes ==
    ASSUME NEW a \in Int, NEW b \in Int
    PROVE  Byte * (a + b) = Byte * a + Byte * b /\ Byte * (a - b) = Byte * a - Byte * b
           /\ a * Byte = Byte * a
BY ByteAssumption, SMTT(30)

----------------------------------------------------------------------------
(* Bytes of a word and words of bytes.                                     *)

Buffers(n) == [0 .. n - 1 -> SUBSET Bits(Byte)]

LEMMA SignificanceIs ==
    ASSUME NEW endian, NEW n \in Nat, NEW i \in 0 .. n - 1
    PROVE  /\ Significance(endian, n, i) \in 0 .. n - 1
           /\ Significance(endian, n, Significance(endian, n, i)) = i
BY DEF Significance

LEMMA InFromBytes ==
    ASSUME NEW endian, NEW n \in Nat, NEW bytes \in Buffers(n),
           NEW s \in 0 .. n - 1, NEW b \in Bits(Byte)
    PROVE  Byte * s + b \in FromBytes(endian, n, bytes) <=> b \in bytes[Significance(endian, n, s)]
<1>1. \A i \in 0 .. n - 1 : bytes[i] \subseteq Bits(Byte) /\ Bits(Byte) \subseteq Int
  BY DEF Buffers, Bits
<1>2. ASSUME b \in bytes[Significance(endian, n, s)]
      PROVE  Byte * s + b \in FromBytes(endian, n, bytes)
  <2>1. PICK i \in 0 .. n - 1 : i = Significance(endian, n, s) /\ Significance(endian, n, i) = s
    BY SignificanceIs
  <2>2. b \in bytes[i] /\ Byte * s + b = Byte * Significance(endian, n, i) + b
    BY <1>2, <2>1
  <2> QED BY <2>2 DEF FromBytes
<1>3. ASSUME Byte * s + b \in FromBytes(endian, n, bytes)
      PROVE  b \in bytes[Significance(endian, n, s)]
  <2>0. PICK i \in 0 .. n - 1 : \E c \in bytes[i] : Byte * s + b = Byte * Significance(endian, n, i) + c
    BY <1>3 DEF FromBytes
  <2>1. PICK c \in bytes[i] : Byte * s + b = Byte * Significance(endian, n, i) + c
    BY <2>0
  <2>2. Significance(endian, n, i) \in Int /\ s \in Int /\ c \in Bits(Byte)
    BY <1>1, SignificanceIs
  <2>3. s = Significance(endian, n, i) /\ b = c
    BY <2>1, <2>2, ByteOrder
  <2> QED BY <2>3, SignificanceIs
<1> QED BY <1>2, <1>3

LEMMA FromBytesIs ==
    ASSUME NEW endian, NEW n \in Nat, NEW bytes \in Buffers(n)
    PROVE  /\ FromBytes(endian, n, bytes) \subseteq Bits(Byte * n)
           /\ \A k \in Bits(Byte * n) :
                /\ k \div Byte \in 0 .. n - 1
                /\ k \in FromBytes(endian, n, bytes)
                     <=> k % Byte \in bytes[Significance(endian, n, k \div Byte)]
<1>1. \A i \in 0 .. n - 1 : bytes[i] \subseteq Bits(Byte) /\ Bits(Byte) \subseteq Int
  BY DEF Buffers, Bits
<1>2. ASSUME NEW k \in FromBytes(endian, n, bytes) PROVE k \in Bits(Byte * n)
  <2>0. PICK i \in 0 .. n - 1 : \E c \in bytes[i] : k = Byte * Significance(endian, n, i) + c
    BY DEF FromBytes
  <2>1. PICK c \in bytes[i] : k = Byte * Significance(endian, n, i) + c
    BY <2>0
  <2>2. PICK s \in 0 .. n - 1 : s = Significance(endian, n, i)
    BY SignificanceIs
  <2>3. c \in Bits(Byte) /\ k = Byte * s + c
    BY <1>1, <2>1, <2>2
  <2>4. k < Byte * n
    BY <2>3, ByteOrder
  <2>5. k \in Nat
    BY <2>3, Unique
  <2>6. Byte * n \in Nat
    BY ByteAssumption
  <2> QED BY <2>4, <2>5, <2>6 DEF Bits
<1>3. ASSUME NEW k \in Bits(Byte * n)
      PROVE  /\ k \div Byte \in 0 .. n - 1
             /\ k \in FromBytes(endian, n, bytes)
                  <=> k % Byte \in bytes[Significance(endian, n, k \div Byte)]
  <2>1. Byte * n \in Nat
    BY ByteAssumption
  <2>2. k \in Nat /\ k < Byte * n
    BY <2>1 DEF Bits
  <2>3. PICK q \in Nat, r \in Bits(Byte) : q = k \div Byte /\ r = k % Byte /\ k = Byte * q + r
    BY <2>2, Coordinates
  <2>4. q < n
    BY <2>2, <2>3, ByteOrder
  <2>5. q \in 0 .. n - 1
    BY <2>4
  <2> QED BY <2>3, <2>5, InFromBytes
<1> QED BY <1>2, <1>3

(* Loading the bytes of a register, and picking them out of it.            *)
LEMMA LoadBytesIs ==
    ASSUME NEW endian, NEW offset \in Nat, NEW len \in Nat, NEW reg \in Nat, len <= reg,
           NEW m \in Nat, offset + len <= m, NEW buf \in Buffers(m)
    PROVE  /\ LoadBytes(endian, offset, len, reg, buf) \subseteq Bits(Byte * len)
           /\ \A k \in Bits(Byte * len) :
                /\ k \div Byte \in 0 .. len - 1
                /\ k \in LoadBytes(endian, offset, len, reg, buf)
                     <=> k % Byte \in buf[offset + Significance(endian, len, k \div Byte)]
<1> DEFINE bytes == [i \in 0 .. len - 1 |-> buf[offset + i]]
<1>1. bytes \in Buffers(len)
  <2>1. \A i \in 0 .. len - 1 : offset + i \in 0 .. m - 1
    OBVIOUS
  <2> QED BY <2>1 DEF Buffers
<1>2. \A i \in 0 .. len - 1 : bytes[i] = buf[offset + i]
  OBVIOUS
<1>3. LoadBytes(endian, offset, len, reg, buf) = FromBytes(endian, len, bytes) \cap Bits(Byte * reg)
  BY DEF LoadBytes
<1> HIDE DEF bytes
<1>4. Byte * len <= Byte * reg /\ Byte * len \in Nat /\ Byte * reg \in Nat
  BY ByteAssumption, SMTT(30)
<1>5. Bits(Byte * len) \subseteq Bits(Byte * reg)
  BY <1>4 DEF Bits
<1>6. FromBytes(endian, len, bytes) \subseteq Bits(Byte * len)
  BY <1>1, FromBytesIs
<1>7. LoadBytes(endian, offset, len, reg, buf) = FromBytes(endian, len, bytes)
  BY <1>3, <1>5, <1>6
<1>8. ASSUME NEW k \in Bits(Byte * len)
      PROVE  /\ k \div Byte \in 0 .. len - 1
             /\ k \in FromBytes(endian, len, bytes)
                  <=> k % Byte \in buf[offset + Significance(endian, len, k \div Byte)]
  <2>1. k \div Byte \in 0 .. len - 1
    BY <1>1, FromBytesIs
  <2>2. k \in FromBytes(endian, len, bytes) <=> k % Byte \in bytes[Significance(endian, len, k \div Byte)]
    BY <1>1, FromBytesIs
  <2>3. Significance(endian, len, k \div Byte) \in 0 .. len - 1
    BY <2>1, SignificanceIs
  <2> QED BY <1>2, <2>1, <2>2, <2>3
<1> QED BY <1>6, <1>7, <1>8

LEMMA PickedIs ==
    ASSUME NEW endian, NEW len \in Nat, NEW reg \in Nat, len <= reg, NEW x
    PROVE  /\ Picked(endian, len, reg, x) \in Buffers(len)
           /\ \A i \in 0 .. len - 1, b \in Bits(Byte) :
                b \in Picked(endian, len, reg, x)[i] <=> Byte * Significance(endian, len, i) + b \in x
<1> DEFINE first == IF endian = "le" THEN 0 ELSE reg - len
           picked == Picked(endian, len, reg, x)
<1>1. picked = [i \in 0 .. len - 1 |-> ToBytes(endian, reg, x)[first + i]]
  BY DEF Picked
<1>2. ASSUME NEW i \in 0 .. len - 1
      PROVE  /\ first + i \in 0 .. reg - 1
             /\ Significance(endian, reg, first + i) = Significance(endian, len, i)
  BY DEF Significance
<1> HIDE DEF first
<1>3. ASSUME NEW i \in 0 .. len - 1
      PROVE  picked[i] = {b \in Bits(Byte) : Byte * Significance(endian, len, i) + b \in x}
  <2>1. picked[i] = ToBytes(endian, reg, x)[first + i]
    BY <1>1
  <2>2. ToBytes(endian, reg, x)[first + i]
          = {b \in Bits(Byte) : Byte * Significance(endian, reg, first + i) + b \in x}
    BY <1>2 DEF ToBytes
  <2> QED BY <1>2, <2>1, <2>2
<1>4. picked \in Buffers(len)
  <2>1. picked = [i \in 0 .. len - 1 |-> picked[i]]
    BY <1>1
  <2>2. \A i \in 0 .. len - 1 : picked[i] \in SUBSET Bits(Byte)
    BY <1>3
  <2> HIDE DEF picked
  <2> QED BY <2>1, <2>2 DEF Buffers
<1>5. \A i \in 0 .. len - 1, b \in Bits(Byte) :
        b \in picked[i] <=> Byte * Significance(endian, len, i) + b \in x
  BY <1>3
<1> QED BY <1>4, <1>5

LEMMA PutIs ==
    ASSUME NEW at \in Nat, NEW len \in Nat, NEW m \in Nat, at + len <= m,
           NEW buf \in Buffers(m), NEW bytes \in Buffers(len)
    PROVE  /\ Put(buf, at, len, bytes) \in Buffers(m)
           /\ \A k \in at .. at + len - 1 : Put(buf, at, len, bytes)[k] = bytes[k - at]
           /\ \A k \in (0 .. m - 1) \ (at .. at + len - 1) : Put(buf, at, len, bytes)[k] = buf[k]
<1>1. DOMAIN buf = 0 .. m - 1
  BY DEF Buffers
<1>2. \A k \in at .. at + len - 1 : k \in 0 .. m - 1 /\ k - at \in 0 .. len - 1
  OBVIOUS
<1>3. \A k \in at .. at + len - 1 : bytes[k - at] \in SUBSET Bits(Byte)
  BY <1>2 DEF Buffers
<1>4. \A k \in 0 .. m - 1 : buf[k] \in SUBSET Bits(Byte)
  BY DEF Buffers
<1>5. Put(buf, at, len, bytes)
        = [k \in 0 .. m - 1 |-> IF k \in at .. at + len - 1 THEN bytes[k - at] ELSE buf[k]]
  BY <1>1 DEF Put
<1>6. Put(buf, at, len, bytes) \in Buffers(m)
  BY <1>3, <1>4, <1>5 DEF Buffers
<1> QED BY <1>2, <1>5, <1>6

----------------------------------------------------------------------------
(* Accesses.                                                               *)

(* An access is within a record of m bytes; what its register has no room  *)
(* for is the low bits of one more byte.                                   *)
Within(a, m) ==
    /\ a = [endian |-> a.endian, offset |-> a.offset, len |-> a.len, reg |-> a.reg,
            shift |-> a.shift, bits |-> a.bits, tail |-> a.tail]
    /\ a.offset \in Nat /\ a.len \in Nat /\ a.reg \in Nat /\ a.shift \in Nat /\ a.bits \in Nat
    /\ a.len <= a.reg /\ a.offset + a.len <= m
    /\ a.tail = <<>> => a.shift + a.bits <= Byte * a.len
    /\ a.tail # <<>> =>
        /\ a.len = Wide /\ a.reg = Wide /\ a.shift < Byte /\ a.bits <= Byte * Wide
        /\ a.tail[1] \in (0 .. m - 1) \ (a.offset .. a.offset + Wide - 1)
        /\ a.tail[2] = a.shift + a.bits - Byte * Wide
        /\ a.tail[2] \in 1 .. Byte

(* Where on the wire bit x of the value of an access is.                   *)
Spot(a, x) ==
    IF x + a.shift < Byte * a.len
    THEN <<a.offset + Significance(a.endian, a.len, (x + a.shift) \div Byte), (x + a.shift) % Byte>>
    ELSE <<a.tail[1], x + a.shift - Byte * a.len>>

OnWire(m) == (0 .. m - 1) \X Bits(Byte)

LEMMA SpotIs ==
    ASSUME NEW m \in Nat, NEW a, Within(a, m), NEW x \in Bits(a.bits)
    PROVE  /\ Spot(a, x) \in OnWire(m)
           /\ x + a.shift < Byte * a.len =>
                /\ (x + a.shift) \div Byte \in 0 .. a.len - 1
                /\ Spot(a, x)[1] \in a.offset .. a.offset + a.len - 1
                /\ x + a.shift = Byte * Significance(a.endian, a.len, Spot(a, x)[1] - a.offset) + Spot(a, x)[2]
           /\ ~(x + a.shift < Byte * a.len) =>
                /\ a.tail # <<>> /\ x + a.shift - Byte * a.len \in 0 .. a.tail[2] - 1
<1>1. a.len \in Nat /\ a.shift \in Nat /\ a.offset \in Nat /\ a.bits \in Nat /\ a.offset + a.len <= m
  BY DEF Within
<1>2. x \in Nat /\ x < a.bits
  BY <1>1 DEF Bits
<1>3. Byte * a.len \in Nat
  BY <1>1, ByteAssumption
<1>4. CASE x + a.shift < Byte * a.len
  <2>1. PICK k \in Nat : k = x + a.shift
    BY <1>1, <1>2
  <2>2. PICK q \in Nat, r \in Bits(Byte) : q = k \div Byte /\ r = k % Byte /\ k = Byte * q + r
    BY Coordinates
  <2>3. q < a.len
    <3>1. Byte * q + r < Byte * a.len /\ a.len \in Int /\ q \in Int
      BY <1>1, <1>4, <2>1, <2>2
    <3> QED BY <3>1, ByteOrder
  <2>4. q \in 0 .. a.len - 1
    BY <1>1, <2>3
  <2>5. PICK i \in 0 .. a.len - 1 : i = Significance(a.endian, a.len, q) /\ q = Significance(a.endian, a.len, i)
    BY <1>1, <2>4, SignificanceIs
  <2>6. Spot(a, x) = <<a.offset + i, r>>
    BY <1>4, <2>1, <2>2, <2>5 DEF Spot
  <2>7. a.offset + i \in 0 .. m - 1 /\ a.offset + i \in a.offset .. a.offset + a.len - 1 /\ a.offset + i - a.offset = i
    BY <1>1
  <2>8. Spot(a, x)[1] = a.offset + i /\ Spot(a, x)[2] = r
    BY <2>6
  <2>9. x + a.shift = Byte * Significance(a.endian, a.len, Spot(a, x)[1] - a.offset) + Spot(a, x)[2]
    <3>1. Significance(a.endian, a.len, Spot(a, x)[1] - a.offset) = q
      <4>1. Spot(a, x)[1] - a.offset = i
        BY <1>1, <2>7, <2>8
      <4> QED BY <2>5, <4>1, Zenon
    <3>2. x + a.shift = Byte * q + r
      BY <2>1, <2>2
    <3> QED BY <2>8, <3>1, <3>2
  <2>10. Spot(a, x) \in OnWire(m)
    BY <2>6, <2>7 DEF OnWire
  <2>11. (x + a.shift) \div Byte \in 0 .. a.len - 1
    BY <2>1, <2>2, <2>4
  <2> QED BY <1>4, <2>7, <2>8, <2>9, <2>10, <2>11
<1>5. CASE ~(x + a.shift < Byte * a.len)
  <2>1. a.tail # <<>>
    <3>1. SUFFICES ASSUME a.tail = <<>> PROVE FALSE
      OBVIOUS
    <3>2. a.shift + a.bits <= Byte * a.len
      BY <3>1 DEF Within
    <3> QED BY <1>1, <1>2, <1>3, <1>5, <3>2
  <2>2. /\ a.len = Wide /\ a.tail[1] \in 0 .. m - 1
        /\ a.tail[2] = a.shift + a.bits - Byte * Wide /\ a.tail[2] \in 1 .. Byte
    BY <2>1 DEF Within
  <2>3. x + a.shift - Byte * a.len \in 0 .. a.tail[2] - 1
    BY <1>1, <1>2, <1>3, <1>5, <2>2
  <2>4. x + a.shift - Byte * a.len \in Bits(Byte)
    BY <2>2, <2>3, ByteAssumption DEF Bits
  <2>5. Spot(a, x) \in OnWire(m)
    BY <1>5, <2>2, <2>4 DEF Spot, OnWire
  <2> QED BY <1>5, <2>1, <2>3, <2>5
<1> QED BY <1>4, <1>5

LEMMA SpotsDiffer ==
    ASSUME NEW m \in Nat, NEW a, Within(a, m), NEW x \in Bits(a.bits), NEW y \in Bits(a.bits),
           Spot(a, x) = Spot(a, y)
    PROVE  x = y
<1>1. a.len \in Nat /\ a.shift \in Nat /\ a.offset \in Nat /\ a.bits \in Nat /\ Byte * a.len \in Nat
  BY ByteAssumption DEF Within
<1>2. x \in Nat /\ y \in Nat
  BY <1>1 DEF Bits
<1>3. ASSUME NEW u \in Bits(a.bits), NEW v \in Bits(a.bits), Spot(a, u) = Spot(a, v),
             u + a.shift < Byte * a.len
      PROVE  v + a.shift < Byte * a.len
  <2>1. SUFFICES ASSUME ~(v + a.shift < Byte * a.len) PROVE FALSE
    OBVIOUS
  <2>2. a.tail # <<>> /\ Spot(a, v)[1] = a.tail[1]
    BY <2>1, SpotIs DEF Spot
  <2>3. Spot(a, u)[1] \in a.offset .. a.offset + a.len - 1
    BY <1>3, SpotIs
  <2>4. a.tail[1] \notin a.offset .. a.offset + a.len - 1
    BY <2>2 DEF Within
  <2> QED BY <1>3, <2>2, <2>3, <2>4
<1>4. CASE x + a.shift < Byte * a.len
  <2>1. y + a.shift < Byte * a.len
    BY <1>3, <1>4
  <2>2. x + a.shift = Byte * Significance(a.endian, a.len, Spot(a, x)[1] - a.offset) + Spot(a, x)[2]
    BY <1>4, SpotIs
  <2>3. y + a.shift = Byte * Significance(a.endian, a.len, Spot(a, y)[1] - a.offset) + Spot(a, y)[2]
    BY <2>1, SpotIs
  <2>4. x + a.shift = y + a.shift
    BY <2>2, <2>3
  <2> QED BY <1>1, <1>2, <2>4
<1>5. CASE ~(x + a.shift < Byte * a.len)
  <2>1. ~(y + a.shift < Byte * a.len)
    BY <1>3, <1>5
  <2>2. Spot(a, x)[2] = x + a.shift - Byte * a.len
    BY <1>5 DEF Spot
  <2>3. Spot(a, y)[2] = y + a.shift - Byte * a.len
    BY <2>1 DEF Spot
  <2>4. x + a.shift - Byte * a.len = y + a.shift - Byte * a.len
    BY <2>2, <2>3
  <2> QED BY <1>1, <1>2, <2>4
<1> QED BY <1>4, <1>5

(* A read gives the bits at the spots of the access.                       *)
LEMMA LoadReads ==
    ASSUME NEW m \in Nat, NEW a, Within(a, m), NEW buf \in Buffers(m)
    PROVE  Load(a, buf) = {x \in Bits(a.bits) : Spot(a, x)[2] \in buf[Spot(a, x)[1]]}
<1> DEFINE word == LoadBytes(a.endian, a.offset, a.len, a.reg, buf)
           low == Shr(word, a.shift)
           high == IF a.tail = <<>> THEN {} ELSE Shl(buf[a.tail[1]], Wide * Byte - a.shift, Wide * Byte)
<1>1. /\ a.len \in Nat /\ a.reg \in Nat /\ a.shift \in Nat /\ a.offset \in Nat /\ a.bits \in Nat
      /\ a.len <= a.reg /\ a.offset + a.len <= m
  BY DEF Within
<1>2. Byte * a.len \in Nat
  BY <1>1, ByteAssumption
<1>3. Load(a, buf) = (low \cup high) \cap Bits(a.bits)
  BY DEF Load
<1>4. /\ word \subseteq Bits(Byte * a.len)
      /\ \A k \in Bits(Byte * a.len) :
           k \in word <=> k % Byte \in buf[a.offset + Significance(a.endian, a.len, k \div Byte)]
  BY <1>1, LoadBytesIs
<1> HIDE DEF word
<1>5. ASSUME NEW x \in Bits(a.bits), x + a.shift < Byte * a.len
      PROVE  x \in low \cup high <=> Spot(a, x)[2] \in buf[Spot(a, x)[1]]
  <2>1. x \in Nat /\ x + a.shift \in Bits(Byte * a.len)
    BY <1>1, <1>2, <1>5 DEF Bits
  <2>2. x \in low <=> x + a.shift \in word
    <3>1. x \in low <=> \E c \in word : c >= a.shift /\ x = c - a.shift
      BY DEF Shr
    <3>2. \A c \in word : c \in Int
      BY <1>2, <1>4 DEF Bits
    <3>3. x + a.shift >= a.shift /\ x = (x + a.shift) - a.shift
      BY <1>1, <2>1
    <3>4. \A c \in word : x = c - a.shift => c = x + a.shift
      BY <1>1, <2>1, <3>2
    <3> QED BY <3>1, <3>3, <3>4
  <2>3. x \notin high
    <3>1. CASE a.tail = <<>>
      BY <3>1
    <3>2. CASE a.tail # <<>>
      <4>1. a.len = Wide /\ a.tail[1] \in 0 .. m - 1
        BY <3>2 DEF Within
      <4>2. buf[a.tail[1]] \subseteq Nat
        BY <4>1 DEF Buffers, Bits
      <4>3. ASSUME NEW b \in buf[a.tail[1]] PROVE x # b + (Wide * Byte - a.shift)
        <5>1. b \in Nat
          BY <4>2
        <5>2. Wide * Byte = Byte * a.len
          BY <1>1, <4>1, Distributes
        <5> QED BY <1>1, <1>2, <1>5, <2>1, <5>1, <5>2
      <4> QED BY <3>2, <4>3 DEF Shl
    <3> QED BY <3>1, <3>2
  <2>4. Spot(a, x) = <<a.offset + Significance(a.endian, a.len, (x + a.shift) \div Byte), (x + a.shift) % Byte>>
    BY <1>5 DEF Spot
  <2>5. x + a.shift \in word
          <=> (x + a.shift) % Byte \in buf[a.offset + Significance(a.endian, a.len, (x + a.shift) \div Byte)]
    BY <1>4, <2>1
  <2>6. x \in low \cup high <=> x + a.shift \in word
    BY <2>2, <2>3
  <2> HIDE DEF low, high
  <2> QED BY <2>4, <2>5, <2>6
<1>6. ASSUME NEW x \in Bits(a.bits), ~(x + a.shift < Byte * a.len)
      PROVE  x \in low \cup high <=> Spot(a, x)[2] \in buf[Spot(a, x)[1]]
  <2>1. x \in Nat /\ x < a.bits
    BY <1>1 DEF Bits
  <2>2. a.tail # <<>> /\ x + a.shift - Byte * a.len \in 0 .. a.tail[2] - 1
    BY <1>6, SpotIs
  <2>3. /\ a.len = Wide /\ a.tail[1] \in 0 .. m - 1 /\ a.shift < Byte
        /\ a.tail[2] = a.shift + a.bits - Byte * Wide /\ a.tail[2] \in 1 .. Byte /\ a.bits <= Byte * Wide
    BY <2>2 DEF Within
  <2>4. Wide * Byte = Byte * a.len
    BY <1>1, <2>3, Distributes
  <2>5. x \notin low
    <3>1. \A c \in word : c \in Int /\ c < Byte * a.len
      BY <1>2, <1>4 DEF Bits
    <3>2. \A c \in word : x # c - a.shift
      BY <1>1, <1>2, <1>6, <2>1, <3>1
    <3> QED BY <3>2 DEF Shr
  <2>6. buf[a.tail[1]] \subseteq Bits(Byte)
    BY <2>3 DEF Buffers
  <2>7. x \in Bits(Wide * Byte)
    BY <1>1, <1>2, <2>1, <2>3, <2>4 DEF Bits
  <2>8. x \in high <=> x + a.shift - Byte * a.len \in buf[a.tail[1]]
    <3>1. x \in high <=> \E b \in buf[a.tail[1]] : x = b + (Wide * Byte - a.shift)
      BY <2>2, <2>7 DEF Shl
    <3>2. \A b \in buf[a.tail[1]] : b \in Int
      BY <2>6 DEF Bits
    <3>3. \A b \in Int : x = b + (Wide * Byte - a.shift) <=> b = x + a.shift - Byte * a.len
      BY <1>1, <1>2, <2>1, <2>4
    <3> QED BY <3>1, <3>2, <3>3
  <2>9. Spot(a, x) = <<a.tail[1], x + a.shift - Byte * a.len>>
    BY <1>6 DEF Spot
  <2> QED BY <2>5, <2>8, <2>9
<1> QED BY <1>3, <1>5, <1>6

(* A bit of a register's bytes that no value's bit has is left alone.      *)
LEMMA SpotOf ==
    ASSUME NEW m \in Nat, NEW a, Within(a, m), NEW w \in a.offset .. a.offset + a.len - 1,
           NEW b \in Bits(Byte), NEW p, p = Byte * Significance(a.endian, a.len, w - a.offset) + b
    PROVE  /\ p \in Bits(Byte * a.len) /\ p \in Nat
           /\ a.offset + Significance(a.endian, a.len, p \div Byte) = w /\ p % Byte = b
           /\ p - a.shift \in Bits(a.bits) => Spot(a, p - a.shift) = <<w, b>>
<1>1. a.len \in Nat /\ a.shift \in Nat /\ a.offset \in Nat /\ a.bits \in Nat /\ Byte * a.len \in Nat
  BY ByteAssumption DEF Within
<1>2. PICK i \in 0 .. a.len - 1 : i = w - a.offset /\ a.offset + i = w
  BY <1>1
<1>3. PICK s \in 0 .. a.len - 1 : s = Significance(a.endian, a.len, i) /\ i = Significance(a.endian, a.len, s)
  BY <1>1, SignificanceIs
<1>4. p = Byte * s + b
  BY <1>2, <1>3
<1>5. s \in Nat
  BY <1>1
<1>6. p \div Byte = s /\ p % Byte = b /\ p \in Nat
  BY <1>4, <1>5, Unique
<1>7. p < Byte * a.len
  <2>1. s < a.len /\ s \in Int /\ a.len \in Int
    BY <1>1
  <2> QED BY <1>4, <2>1, ByteOrder
<1>8. p \in Bits(Byte * a.len)
  BY <1>1, <1>6, <1>7 DEF Bits
<1>9. ASSUME p - a.shift \in Bits(a.bits) PROVE Spot(a, p - a.shift) = <<w, b>>
  <2>1. (p - a.shift) + a.shift = p
    BY <1>1, <1>6
  <2> QED BY <1>2, <1>3, <1>6, <1>7, <2>1 DEF Spot
<1> QED BY <1>2, <1>3, <1>6, <1>8, <1>9

(* What is stored in the bytes of the register.                            *)
Over(a, buf, raw) ==
    (LoadBytes(a.endian, a.offset, a.len, a.reg, buf)
        \cap Not(Shl(Bits(a.bits), a.shift, a.reg * Byte), a.reg * Byte))
      \cup Shl(raw \cap Bits(a.bits), a.shift, a.reg * Byte)

LEMMA OverIs ==
    ASSUME NEW m \in Nat, NEW a, Within(a, m), NEW buf \in Buffers(m), NEW raw \in SUBSET Nat,
           NEW p \in Bits(Byte * a.len)
    PROVE  p \in Over(a, buf, raw) <=>
             IF p - a.shift \in Bits(a.bits) THEN p - a.shift \in raw
             ELSE p % Byte \in buf[a.offset + Significance(a.endian, a.len, p \div Byte)]
<1> DEFINE word == LoadBytes(a.endian, a.offset, a.len, a.reg, buf)
           there == Shl(Bits(a.bits), a.shift, a.reg * Byte)
           new == Shl(raw \cap Bits(a.bits), a.shift, a.reg * Byte)
<1>1. /\ a.len \in Nat /\ a.reg \in Nat /\ a.shift \in Nat /\ a.offset \in Nat /\ a.bits \in Nat
      /\ a.len <= a.reg /\ a.offset + a.len <= m
  BY DEF Within
<1>2. Byte * a.len \in Nat /\ a.reg * Byte \in Nat /\ Byte * a.len <= a.reg * Byte
  BY <1>1, ByteAssumption, SMTT(30)
<1>3. p \in Nat /\ p \in Bits(a.reg * Byte)
  BY <1>2 DEF Bits
<1>4. p \in word <=> p % Byte \in buf[a.offset + Significance(a.endian, a.len, p \div Byte)]
  BY <1>1, LoadBytesIs
<1>5. ASSUME NEW S \in SUBSET Bits(a.bits)
      PROVE  p \in Shl(S, a.shift, a.reg * Byte) <=> p - a.shift \in S
  <2>1. p \in Shl(S, a.shift, a.reg * Byte) <=> \E b \in S : p = b + a.shift
    BY <1>3 DEF Shl
  <2>2. \A b \in S : b \in Int
    BY <1>5 DEF Bits
  <2>3. \A b \in Int : p = b + a.shift <=> b = p - a.shift
    BY <1>1, <1>3
  <2> QED BY <2>1, <2>2, <2>3
<1>6. p \in there <=> p - a.shift \in Bits(a.bits)
  BY <1>5
<1>7. p \in new <=> p - a.shift \in raw \cap Bits(a.bits)
  BY <1>5
<1>8. p \in Not(there, a.reg * Byte) <=> ~(p \in there)
  BY <1>3 DEF Not
<1>9. Over(a, buf, raw) = (word \cap Not(there, a.reg * Byte)) \cup new
  BY DEF Over
<1> HIDE DEF word, there, new
<1>10. CASE p - a.shift \in Bits(a.bits)
  BY <1>6, <1>7, <1>8, <1>9, <1>10
<1>11. CASE p - a.shift \notin Bits(a.bits)
  <2>1. p \in Over(a, buf, raw) <=> p \in word
    BY <1>6, <1>7, <1>8, <1>9, <1>11
  <2> QED BY <1>4, <1>11, <2>1
<1> QED BY <1>10, <1>11

(* The store, before the byte that the register has no room for.           *)
Inner(a, buf, raw) ==
    Put(buf, a.offset, a.len, Picked(a.endian, a.len, a.reg, Over(a, buf, raw)))

LEMMA InnerIs ==
    ASSUME NEW m \in Nat, NEW a, Within(a, m), NEW buf \in Buffers(m), NEW raw \in SUBSET Nat
    PROVE  /\ Inner(a, buf, raw) \in Buffers(m)
           /\ \A w \in (0 .. m - 1) \ (a.offset .. a.offset + a.len - 1) : Inner(a, buf, raw)[w] = buf[w]
           /\ \A w \in a.offset .. a.offset + a.len - 1, b \in Bits(Byte) :
                LET p == Byte * Significance(a.endian, a.len, w - a.offset) + b
                IN  b \in Inner(a, buf, raw)[w] <=>
                      IF p - a.shift \in Bits(a.bits) THEN p - a.shift \in raw ELSE b \in buf[w]
<1> DEFINE picked == Picked(a.endian, a.len, a.reg, Over(a, buf, raw))
<1>1. /\ a.len \in Nat /\ a.reg \in Nat /\ a.shift \in Nat /\ a.offset \in Nat /\ a.bits \in Nat
      /\ a.len <= a.reg /\ a.offset + a.len <= m
  BY DEF Within
<1>2. /\ picked \in Buffers(a.len)
      /\ \A i \in 0 .. a.len - 1, b \in Bits(Byte) :
           b \in picked[i] <=> Byte * Significance(a.endian, a.len, i) + b \in Over(a, buf, raw)
  BY <1>1, PickedIs
<1>3. Inner(a, buf, raw) = Put(buf, a.offset, a.len, picked)
  BY DEF Inner
<1> HIDE DEF picked
<1>4. /\ Inner(a, buf, raw) \in Buffers(m)
      /\ \A k \in a.offset .. a.offset + a.len - 1 : Inner(a, buf, raw)[k] = picked[k - a.offset]
      /\ \A k \in (0 .. m - 1) \ (a.offset .. a.offset + a.len - 1) : Inner(a, buf, raw)[k] = buf[k]
  <2>1. picked \in Buffers(a.len)
    BY <1>2
  <2>2. /\ Put(buf, a.offset, a.len, picked) \in Buffers(m)
        /\ \A k \in a.offset .. a.offset + a.len - 1 :
             Put(buf, a.offset, a.len, picked)[k] = picked[k - a.offset]
        /\ \A k \in (0 .. m - 1) \ (a.offset .. a.offset + a.len - 1) :
             Put(buf, a.offset, a.len, picked)[k] = buf[k]
    <3>1. \A offset, len \in Nat : offset + len <= m /\ picked \in Buffers(len) =>
            /\ Put(buf, offset, len, picked) \in Buffers(m)
            /\ \A k \in offset .. offset + len - 1 : Put(buf, offset, len, picked)[k] = picked[k - offset]
            /\ \A k \in (0 .. m - 1) \ (offset .. offset + len - 1) :
                 Put(buf, offset, len, picked)[k] = buf[k]
      BY PutIs
    <3> QED BY <1>1, <2>1, <3>1, Zenon
  <2> QED BY <1>3, <2>2, Zenon
<1>5. ASSUME NEW w \in a.offset .. a.offset + a.len - 1, NEW b \in Bits(Byte),
             NEW p, p = Byte * Significance(a.endian, a.len, w - a.offset) + b
      PROVE  b \in Inner(a, buf, raw)[w] <=>
               IF p - a.shift \in Bits(a.bits) THEN p - a.shift \in raw ELSE b \in buf[w]
  <2>1. w - a.offset \in 0 .. a.len - 1
    BY <1>1
  <2>2. b \in Inner(a, buf, raw)[w] <=> p \in Over(a, buf, raw)
    BY <1>2, <1>4, <1>5, <2>1
  <2>3. p \in Bits(Byte * a.len)
    BY <1>5, SpotOf
  <2>4. a.offset + Significance(a.endian, a.len, p \div Byte) = w /\ p % Byte = b
    BY <1>5, SpotOf
  <2>5. p \in Over(a, buf, raw) <=>
          IF p - a.shift \in Bits(a.bits) THEN p - a.shift \in raw
          ELSE p % Byte \in buf[a.offset + Significance(a.endian, a.len, p \div Byte)]
    BY <2>3, OverIs
  <2> QED BY <2>2, <2>4, <2>5, Zenon
<1>6. ASSUME NEW w \in a.offset .. a.offset + a.len - 1, NEW b \in Bits(Byte)
      PROVE  LET p == Byte * Significance(a.endian, a.len, w - a.offset) + b
             IN  b \in Inner(a, buf, raw)[w] <=>
                   IF p - a.shift \in Bits(a.bits) THEN p - a.shift \in raw ELSE b \in buf[w]
  BY <1>5
<1> QED BY <1>4, <1>6

(* A store writes the value's bits at their spots, and no other bit.       *)
LEMMA StoreWrites ==
    ASSUME NEW m \in Nat, NEW a, Within(a, m), NEW buf \in Buffers(m), NEW raw \in SUBSET Nat
    PROVE  /\ Store(a, buf, raw) \in Buffers(m)
           /\ \A x \in Bits(a.bits) : Spot(a, x)[2] \in Store(a, buf, raw)[Spot(a, x)[1]] <=> x \in raw
           /\ \A w \in 0 .. m - 1, b \in Bits(Byte) :
                (\A x \in Bits(a.bits) : Spot(a, x) # <<w, b>>)
                  => (b \in Store(a, buf, raw)[w] <=> b \in buf[w])
<1> DEFINE out == Inner(a, buf, raw)
           last == (out[a.tail[1]] \cap Not(Bits(a.tail[2]), Byte))
                     \cup (Shr(raw, Wide * Byte - a.shift) \cap Bits(a.tail[2]))
           range == a.offset .. a.offset + a.len - 1
           stored == Store(a, buf, raw)
<1>1. /\ a.len \in Nat /\ a.reg \in Nat /\ a.shift \in Nat /\ a.offset \in Nat /\ a.bits \in Nat
      /\ a.len <= a.reg /\ a.offset + a.len <= m /\ Byte * a.len \in Nat
  BY ByteAssumption DEF Within
<1>2. stored = IF a.tail = <<>> THEN out ELSE [out EXCEPT ![a.tail[1]] = last]
  BY DEF Store, Inner, Over
<1>3. out \in Buffers(m) /\ \A w \in (0 .. m - 1) \ range : out[w] = buf[w]
  BY InnerIs
<1>4. ASSUME NEW w \in range, NEW b \in Bits(Byte),
             NEW p, p = Byte * Significance(a.endian, a.len, w - a.offset) + b
      PROVE  b \in out[w] <=> IF p - a.shift \in Bits(a.bits) THEN p - a.shift \in raw ELSE b \in buf[w]
  BY <1>4, InnerIs
<1>5. /\ a.tail # <<>> =>
           /\ a.tail[1] \in (0 .. m - 1) \ range /\ a.len = Wide /\ a.shift < Byte
           /\ a.tail[2] = a.shift + a.bits - Byte * Wide /\ a.tail[2] \in 1 .. Byte
  BY DEF Within
<1> HIDE DEF out
(* The byte the register has no room for. *)
<1>6. ASSUME a.tail # <<>>
      PROVE  /\ last \in SUBSET Bits(Byte)
             /\ \A b \in Bits(Byte) :
                  b \in last <=> IF b < a.tail[2] THEN Byte * a.len + b - a.shift \in raw
                                 ELSE b \in buf[a.tail[1]]
  <2>1. out[a.tail[1]] = buf[a.tail[1]] /\ buf[a.tail[1]] \subseteq Bits(Byte)
    BY <1>3, <1>5, <1>6 DEF Buffers
  <2>2. Wide * Byte = Byte * a.len
    <3>1. a.len = Wide /\ a.len \in Int /\ Byte \in Int
      BY <1>1, <1>5, <1>6, ByteAssumption
    <3> QED BY <3>1, Distributes
  <2>3. a.tail[2] \in Nat /\ a.tail[2] <= Byte /\ Byte \in Nat
    BY <1>5, <1>6, ByteAssumption
  <2>4. Bits(a.tail[2]) \subseteq Bits(Byte)
    BY <2>3 DEF Bits
  <2>5. ASSUME NEW b \in Bits(Byte)
        PROVE  b \in last <=> IF b < a.tail[2] THEN Byte * a.len + b - a.shift \in raw
                              ELSE b \in buf[a.tail[1]]
    <3>1. b \in Bits(a.tail[2]) <=> b < a.tail[2]
      BY <2>3 DEF Bits
    <3>2. b \in Not(Bits(a.tail[2]), Byte) <=> ~(b < a.tail[2])
      BY <3>1 DEF Not
    <3>3. b \in Shr(raw, Wide * Byte - a.shift) <=> Byte * a.len + b - a.shift \in raw
      <4>1. b \in Shr(raw, Wide * Byte - a.shift)
              <=> \E c \in raw : c >= Wide * Byte - a.shift /\ b = c - (Wide * Byte - a.shift)
        BY DEF Shr
      <4>2. b \in Nat
        BY <2>3 DEF Bits
      <4>3. \A c \in Nat : c >= Wide * Byte - a.shift /\ b = c - (Wide * Byte - a.shift)
                             <=> c = Byte * a.len + b - a.shift
        BY <1>1, <2>2, <4>2
      <4> QED BY <4>1, <4>3
    <3> QED BY <2>1, <3>1, <3>2, <3>3
  <2>6. last \in SUBSET Bits(Byte)
    BY <2>1, <2>4
  <2> QED BY <2>5, <2>6
<1> HIDE DEF last
<1>7. stored \in Buffers(m)
  <2>1. CASE a.tail = <<>>
    BY <1>2, <1>3, <2>1
  <2>2. CASE a.tail # <<>>
    BY <1>2, <1>3, <1>5, <1>6, <2>2 DEF Buffers
  <2> QED BY <2>1, <2>2
<1>8. \A w \in 0 .. m - 1 : stored[w] = IF a.tail # <<>> /\ w = a.tail[1] THEN last ELSE out[w]
  <2>1. DOMAIN out = 0 .. m - 1
    BY <1>3 DEF Buffers
  <2> QED BY <1>2, <2>1
<1> HIDE DEF stored
<1>9. ASSUME NEW x \in Bits(a.bits)
      PROVE  Spot(a, x)[2] \in stored[Spot(a, x)[1]] <=> x \in raw
  <2>0. x \in Nat /\ Spot(a, x)[1] \in 0 .. m - 1 /\ Spot(a, x)[2] \in Bits(Byte)
    BY <1>1, SpotIs DEF OnWire, Bits
  <2>1. CASE x + a.shift < Byte * a.len
    <3>1. PICK w \in range, b \in Bits(Byte) :
            w = Spot(a, x)[1] /\ b = Spot(a, x)[2]
              /\ x + a.shift = Byte * Significance(a.endian, a.len, w - a.offset) + b
      BY <2>0, <2>1, SpotIs
    <3>2. PICK p : p = Byte * Significance(a.endian, a.len, w - a.offset) + b
      OBVIOUS
    <3>3. p - a.shift = x
      BY <1>1, <2>0, <3>1, <3>2
    <3>4. b \in out[w] <=> x \in raw
      BY <1>4, <3>2, <3>3
    <3>5. stored[w] = out[w]
      BY <1>5, <1>8, <2>0, <3>1
    <3> QED BY <3>1, <3>4, <3>5
  <2>2. CASE ~(x + a.shift < Byte * a.len)
    <3>1. a.tail # <<>> /\ x + a.shift - Byte * a.len \in 0 .. a.tail[2] - 1
      BY <2>2, SpotIs
    <3>2. Spot(a, x) = <<a.tail[1], x + a.shift - Byte * a.len>>
      BY <2>2 DEF Spot
    <3>3. PICK b \in Bits(Byte) : b = Spot(a, x)[2] /\ b = x + a.shift - Byte * a.len
      <4>1. Spot(a, x)[2] = x + a.shift - Byte * a.len
        BY <3>2
      <4> QED BY <2>0, <4>1, Zenon
    <3>4. b < a.tail[2] /\ Byte * a.len + b - a.shift = x
      <4>1. a.tail[2] \in Int
        BY <1>5, <3>1, ByteAssumption
      <4>2. b < a.tail[2]
        BY <3>1, <3>3, <4>1
      <4>3. Byte * a.len + b - a.shift = x
        BY <1>1, <2>0, <3>3
      <4> QED BY <4>2, <4>3
    <3>5. b \in last <=> x \in raw
      BY <1>6, <3>1, <3>4
    <3> QED BY <1>8, <2>0, <3>1, <3>2, <3>3, <3>5
  <2> QED BY <2>1, <2>2
<1>10. ASSUME NEW w \in 0 .. m - 1, NEW b \in Bits(Byte), \A x \in Bits(a.bits) : Spot(a, x) # <<w, b>>
       PROVE  b \in stored[w] <=> b \in buf[w]
  <2>1. CASE w \in range
    <3>1. PICK p : p = Byte * Significance(a.endian, a.len, w - a.offset) + b
      OBVIOUS
    <3>2. p - a.shift \notin Bits(a.bits)
      BY <1>10, <2>1, <3>1, SpotOf
    <3>3. b \in out[w] <=> b \in buf[w]
      BY <1>4, <2>1, <3>1, <3>2
    <3> QED BY <1>5, <1>8, <2>1, <3>3
  <2>2. CASE w \notin range /\ ~(a.tail # <<>> /\ w = a.tail[1])
    BY <1>3, <1>8, <2>2
  <2>3. CASE w \notin range /\ a.tail # <<>> /\ w = a.tail[1]
    <3>1. stored[w] = last
      BY <1>8, <2>3
    <3>2. CASE b < a.tail[2]
      <4>1. PICK x : x = Byte * a.len + b - a.shift
        OBVIOUS
      <4>2. b \in Nat
        BY ByteAssumption DEF Bits
      <4>3. x \in Nat /\ x < a.bits /\ x + a.shift = Byte * a.len + b
        <5>1. a.len = Wide /\ a.shift < Byte /\ a.tail[2] = a.shift + a.bits - Byte * a.len
          BY <1>5, <2>3
        <5>2. Byte <= Byte * a.len
          BY <1>1, <5>1, LayoutAssumption, ByteAssumption, SMTT(30)
        <5> QED BY <1>1, <3>2, <4>1, <4>2, <5>1, <5>2, ByteAssumption
      <4>4. x \in Bits(a.bits)
        BY <1>1, <4>3 DEF Bits
      <4>5. Spot(a, x) = <<a.tail[1], b>>
        BY <1>1, <4>2, <4>3 DEF Spot
      <4> QED BY <1>10, <2>3, <4>4, <4>5
    <3>3. CASE ~(b < a.tail[2])
      BY <1>6, <2>3, <3>1, <3>3
    <3> QED BY <3>2, <3>3
  <2> QED BY <2>1, <2>2, <2>3
<1> QED BY <1>7, <1>9, <1>10 DEF stored

----------------------------------------------------------------------------
(* Windows: the access of a packed field of bits mode.                     *)

(* The wire bit of a bit of the container, in bits mode.                   *)
WordBit(l, n) == <<IF l.endian = "le" THEN n \div Byte ELSE l.size - 1 - n \div Byte, n % Byte>>

LEMMA NextPowerOfTwoIs ==
    ASSUME NEW n \in 1 .. 16 PROVE NextPowerOfTwo(n) \in Nat /\ n <= NextPowerOfTwo(n)
<1>1. \E r \in {1, 2, 4, 8, 16} : n <= r /\ r < 2 * n
  OBVIOUS
<1>2. NextPowerOfTwo(n) \in {1, 2, 4, 8, 16} /\ n <= NextPowerOfTwo(n)
  BY <1>1 DEF NextPowerOfTwo
<1> QED BY <1>2

(* The bytes of a range of bits, and where each bit is in them.            *)
LEMMA SpanIs ==
    ASSUME NEW size \in Nat, NEW at \in Nat, NEW bits \in Nat \ {0}, at + bits <= Byte * size,
           NEW first, first = at \div Byte, NEW shift, shift = at % Byte,
           NEW span, span = (at + bits - 1) \div Byte - at \div Byte + 1
    PROVE  /\ first \in Nat /\ shift \in Bits(Byte) /\ at = Byte * first + shift
           /\ span \in Nat \ {0} /\ first + span <= size
           /\ shift + bits <= Byte * span
           /\ \A k \in Nat : k < span => Byte * k < shift + bits
           /\ \A x \in Bits(bits), s \in Nat, b \in Bits(Byte) :
                x + shift = Byte * s + b => (at + x) \div Byte = first + s /\ (at + x) % Byte = b
<1>1. first \in Nat /\ shift \in Bits(Byte) /\ at = Byte * first + shift
  BY Coordinates
<1>2. shift \in Nat /\ shift < Byte /\ Byte \in Nat /\ Byte * first \in Nat
  BY <1>1, ByteAssumption DEF Bits
<1>3. PICK top \in Nat : top = at + bits - 1
  OBVIOUS
<1>4. PICK e \in Nat, r \in Bits(Byte) : e = top \div Byte /\ r = top % Byte /\ top = Byte * e + r
  BY Coordinates
<1>5. r \in Nat /\ r < Byte
  BY <1>2 DEF Bits
<1>6. span = e - first + 1
  BY <1>3, <1>4
<1>7. first < e + 1
  <2>1. Byte * first + shift < Byte * (e + 1)
    <3>1. Byte * (e + 1) = Byte * e + Byte * 1 /\ Byte * e \in Nat
      BY <1>2, Distributes
    <3> QED BY <1>1, <1>2, <1>3, <1>4, <1>5, <3>1
  <2> QED BY <1>1, <2>1, ByteOrder
<1>8. e < size
  <2>1. Byte * e + r < Byte * size
    BY <1>3, <1>4, <1>1, ByteAssumption
  <2> QED BY <2>1, ByteOrder
<1>9. span \in Nat \ {0} /\ first + span <= size
  BY <1>1, <1>6, <1>7, <1>8
<1>10. Byte * span = Byte * e - Byte * first + Byte /\ Byte * span \in Nat /\ Byte * e \in Nat
  <2>1. Byte * span = Byte * (e - first) + Byte * 1
    BY <1>1, <1>6, Distributes
  <2>2. Byte * (e - first) = Byte * e - Byte * first
    BY <1>1, Distributes
  <2>3. Byte * span \in Nat /\ Byte * e \in Nat
    BY <1>2, <1>9
  <2> QED BY <1>2, <2>1, <2>2, <2>3
<1>11. shift + bits <= Byte * span
  BY <1>1, <1>2, <1>3, <1>4, <1>5, <1>10
<1>12. ASSUME NEW k \in Nat, k < span PROVE Byte * k < shift + bits
  <2>1. PICK d \in Nat : d = e - first /\ k <= d
    BY <1>1, <1>6, <1>7, <1>12
  <2>2. Byte * k <= Byte * d /\ Byte * k \in Nat /\ Byte * d \in Nat
    BY <1>2, <2>1, SMTT(30)
  <2>3. Byte * d = Byte * e - Byte * first
    <3>1. Byte * (e - first) = Byte * e - Byte * first
      BY <1>1, Distributes
    <3> QED BY <2>1, <3>1
  <2>4. Byte * e \in Nat
    BY <1>10
  <2>5. shift + bits = Byte * e + r + 1 - Byte * first
    BY <1>1, <1>2, <1>3, <1>4, <1>5, <2>4
  <2>6. Byte * d < shift + bits
    BY <1>2, <1>5, <2>3, <2>4, <2>5
  <2> QED BY <1>2, <2>2, <2>6
<1>13. ASSUME NEW x \in Bits(bits), NEW s \in Nat, NEW b \in Bits(Byte), x + shift = Byte * s + b
       PROVE  (at + x) \div Byte = first + s /\ (at + x) % Byte = b
  <2>1. x \in Nat
    BY DEF Bits
  <2>2. Byte * (first + s) = Byte * first + Byte * s /\ Byte * s \in Nat /\ b \in Nat
    BY <1>1, <1>2, Distributes DEF Bits
  <2>3. at + x = Byte * (first + s) + b
    BY <1>1, <1>2, <1>13, <2>1, <2>2
  <2>4. first + s \in Nat
    BY <1>1
  <2> QED BY <2>3, <2>4, Unique
<1> QED BY <1>1, <1>9, <1>11, <1>12, <1>13

LEMMA WindowIs ==
    ASSUME NEW l, l.size \in Nat, l.endian \in {"le", "be"},
           NEW at \in Nat, NEW bits \in Nat \ {0}, NEW wide \in BOOLEAN,
           at + bits <= Byte * l.size, bits <= Byte * Wide
    PROVE  /\ Within(Window(l, at, bits, wide), l.size)
           /\ Window(l, at, bits, wide).bits = bits
           /\ \A x \in Bits(bits) : Spot(Window(l, at, bits, wide), x) = WordBit(l, at + x)
<1>1. PICK first, shift, span :
        first = at \div Byte /\ shift = at % Byte /\ span = (at + bits - 1) \div Byte - at \div Byte + 1
  OBVIOUS
<1>2. first \in Nat /\ shift \in Bits(Byte) /\ at = Byte * first + shift
  BY <1>1, SpanIs
<1>3. span \in Nat \ {0} /\ first + span <= l.size /\ shift + bits <= Byte * span
  BY <1>1, SpanIs
<1>4. \A k \in Nat : k < span => Byte * k < shift + bits
  BY <1>1, SpanIs
<1>5. \A x \in Bits(bits), s \in Nat, b \in Bits(Byte) :
        x + shift = Byte * s + b => (at + x) \div Byte = first + s /\ (at + x) % Byte = b
  BY <1>1, SpanIs
<1>6. /\ shift \in Nat /\ shift < Byte /\ Byte \in Nat /\ Byte * span \in Nat
      /\ Wide \in Nat /\ Wide >= 2 /\ Wide <= 16 /\ Byte * Wide \in Nat
  BY <1>2, <1>3, ByteAssumption, LayoutAssumption DEF Bits
<1>7. ASSUME NEW x \in Bits(bits)
      PROVE  \E s \in Nat, b \in Bits(Byte) :
               /\ s = (x + shift) \div Byte /\ b = (x + shift) % Byte /\ x + shift = Byte * s + b
               /\ WordBit(l, at + x) = <<IF l.endian = "le" THEN first + s ELSE l.size - 1 - (first + s), b>>
  <2>1. x + shift \in Nat
    BY <1>6 DEF Bits
  <2>2. PICK s \in Nat, b \in Bits(Byte) :
          s = (x + shift) \div Byte /\ b = (x + shift) % Byte /\ x + shift = Byte * s + b
    BY <2>1, Coordinates
  <2>3. (at + x) \div Byte = first + s /\ (at + x) % Byte = b
    BY <1>5, <2>2
  <2> QED BY <2>2, <2>3 DEF WordBit
<1>8. CASE span <= Wide
  <2>1. PICK reg \in Nat : reg = (IF wide THEN Wide ELSE NextPowerOfTwo(span)) /\ span <= reg
    <3>1. span \in 1 .. 16
      BY <1>3, <1>6, <1>8
    <3> QED BY <1>6, <1>8, <3>1, NextPowerOfTwoIs
  <2>2. PICK offset : offset = WireOffset(l, first, span)
    OBVIOUS
  <2>3. offset = IF l.endian = "le" THEN first ELSE l.size - first - span
    BY <2>2 DEF WireOffset
  <2>4. offset \in Nat /\ offset + span <= l.size
    BY <1>2, <1>3, <2>3
  <2>5. PICK a : a = [endian |-> l.endian, offset |-> offset, len |-> span, reg |-> reg,
                      shift |-> shift, bits |-> bits, tail |-> <<>>]
    OBVIOUS
  <2>6. Window(l, at, bits, wide) = a
    BY <1>1, <1>8, <2>1, <2>2, <2>5 DEF Window, At
  <2>7. /\ a.endian = l.endian /\ a.offset = offset /\ a.len = span /\ a.reg = reg /\ a.shift = shift
        /\ a.bits = bits /\ a.tail = <<>>
    BY <2>5
  <2>8. Within(a, l.size)
    BY <1>3, <1>6, <2>1, <2>4, <2>5 DEF Within
  <2>9. ASSUME NEW x \in Bits(bits) PROVE Spot(a, x) = WordBit(l, at + x)
    <3>1. x \in Nat /\ x < bits
      BY DEF Bits
    <3>2. x + a.shift < Byte * a.len
      BY <1>3, <1>6, <2>7, <3>1
    <3>3. PICK s \in Nat, b \in Bits(Byte) :
            /\ s = (x + shift) \div Byte /\ b = (x + shift) % Byte /\ x + shift = Byte * s + b
            /\ WordBit(l, at + x) = <<IF l.endian = "le" THEN first + s ELSE l.size - 1 - (first + s), b>>
      BY <1>7
    <3>4. Spot(a, x) = <<offset + Significance(l.endian, span, s), b>>
      BY <2>7, <3>2, <3>3 DEF Spot
    <3>5. s < span
      <4>1. Byte * s + b < Byte * span
        BY <2>7, <3>2, <3>3
      <4> QED BY <1>3, <4>1, ByteOrder
    <3>6. offset + Significance(l.endian, span, s)
            = IF l.endian = "le" THEN first + s ELSE l.size - 1 - (first + s)
      BY <1>2, <1>3, <2>3, <3>5 DEF Significance
    <3> QED BY <3>3, <3>4, <3>6
  <2> QED BY <2>6, <2>7, <2>8, <2>9
<1>9. CASE ~(span <= Wide)
  <2>1. Byte * (Wide + 1) = Byte * Wide + Byte
    BY <1>6, SMTT(30)
  <2>2. span = Wide + 1
    <3>1. SUFFICES ASSUME Wide + 1 < span PROVE FALSE
      BY <1>3, <1>6, <1>9
    <3>2. Byte * (Wide + 1) < shift + bits
      BY <1>4, <1>6, <3>1
    <3> QED BY <1>6, <2>1, <3>2
  <2>3. Byte * Wide < shift + bits /\ shift + bits <= Byte * Wide + Byte
    BY <1>3, <1>4, <1>6, <2>1, <2>2
  <2>4. PICK offset, rest, odd :
          offset = WireOffset(l, first, Wide) /\ rest = WireOffset(l, first + Wide, 1)
            /\ odd = bits - (Wide * Byte - shift)
    OBVIOUS
  <2>5. /\ offset = IF l.endian = "le" THEN first ELSE l.size - first - Wide
        /\ rest = IF l.endian = "le" THEN first + Wide ELSE l.size - (first + Wide) - 1
    BY <2>4 DEF WireOffset
  <2>6. odd = shift + bits - Byte * Wide
    <3>1. Wide * Byte = Byte * Wide
      BY <1>6, Distributes
    <3> QED BY <1>6, <2>4, <3>1
  <2>7. /\ offset \in Nat /\ offset + Wide <= l.size
        /\ rest \in (0 .. l.size - 1) \ (offset .. offset + Wide - 1)
    BY <1>2, <1>3, <1>6, <2>2, <2>5
  <2>8. odd \in 1 .. Byte
    BY <1>6, <2>3, <2>6
  <2>9. PICK a : a = [endian |-> l.endian, offset |-> offset, len |-> Wide, reg |-> Wide,
                      shift |-> shift, bits |-> bits, tail |-> <<rest, odd>>]
    OBVIOUS
  <2>10. Window(l, at, bits, wide) = a
    BY <1>1, <1>9, <2>4, <2>9 DEF Window, At
  <2>11. /\ a.endian = l.endian /\ a.offset = offset /\ a.len = Wide /\ a.reg = Wide /\ a.shift = shift
         /\ a.bits = bits /\ a.tail = <<rest, odd>> /\ a.tail[1] = rest /\ a.tail[2] = odd
         /\ a.tail # <<>>
    BY <2>9
  <2>12. Within(a, l.size)
    BY <1>3, <1>6, <2>6, <2>7, <2>8, <2>9, <2>11 DEF Within
  <2>13. ASSUME NEW x \in Bits(bits) PROVE Spot(a, x) = WordBit(l, at + x)
    <3>1. x \in Nat /\ x < bits
      BY DEF Bits
    <3>3. PICK s \in Nat, b \in Bits(Byte) :
            /\ s = (x + shift) \div Byte /\ b = (x + shift) % Byte /\ x + shift = Byte * s + b
            /\ WordBit(l, at + x) = <<IF l.endian = "le" THEN first + s ELSE l.size - 1 - (first + s), b>>
      BY <1>7
    <3>4. CASE x + shift < Byte * Wide
      <4>1. Spot(a, x) = <<offset + Significance(l.endian, Wide, s), b>>
        BY <2>11, <3>3, <3>4 DEF Spot
      <4>2. s < Wide
        BY <1>6, <3>3, <3>4, ByteOrder
      <4>3. offset + Significance(l.endian, Wide, s)
              = IF l.endian = "le" THEN first + s ELSE l.size - 1 - (first + s)
        BY <1>2, <1>6, <2>5, <4>2 DEF Significance
      <4> QED BY <3>3, <4>1, <4>3
    <3>5. CASE ~(x + shift < Byte * Wide)
      <4>1. Spot(a, x) = <<rest, x + shift - Byte * Wide>>
        BY <2>11, <3>5 DEF Spot
      <4>2. PICK c \in Bits(Byte) : c = x + shift - Byte * Wide /\ x + shift = Byte * Wide + c
        BY <1>6, <2>3, <3>1, <3>5 DEF Bits
      <4>3. s = Wide /\ b = c
        <5>1. Byte * s + b = Byte * Wide + c /\ s \in Int /\ Wide \in Int
          BY <1>6, <3>3, <4>2
        <5> QED BY <5>1, ByteOrder
      <4>4. rest = IF l.endian = "le" THEN first + s ELSE l.size - 1 - (first + s)
        BY <1>2, <1>6, <2>5, <4>3
      <4> QED BY <3>3, <4>1, <4>2, <4>3, <4>4
    <3> QED BY <3>4, <3>5
  <2> QED BY <2>10, <2>11, <2>12, <2>13
<1> QED BY <1>8, <1>9

----------------------------------------------------------------------------
(* Folds: the naturals are well ordered, so a recursive function over      *)
(* 0 .. n whose steps stay in a set exists and stays there.                *)
LEMMA NatLeast ==
    ASSUME NEW T \in SUBSET Nat, T # {}
    PROVE  \E x \in T : \A y \in T : x <= y
<1> DEFINE R == OpToRel(<, Nat)
<1>1. IsWellFoundedOn(R, Nat)
  BY NatLessThanWellFounded
<1>2. PICK x \in T : \A y \in T : <<y, x>> \notin R
  <2> HIDE DEF R
  <2> QED BY <1>1, WFMin
<1>3. \A y \in T : ~(y < x)
  BY <1>2 DEF OpToRel
<1>4. \A y \in T : x <= y
  <2> HIDE DEF R
  <2> QED BY <1>3
<1> QED BY <1>4

FoldUpTo(base, step, f, n) == f = [k \in 0 .. n |-> IF k = 0 THEN base ELSE step[<<k, f[k - 1]>>]]

LEMMA FoldStays ==
    ASSUME NEW V, NEW n \in Nat, NEW f, f[0] \in V,
           \A k \in 1 .. n : f[k - 1] \in V => f[k] \in V
    PROVE  \A k \in 0 .. n : f[k] \in V
<1> DEFINE T == {k \in Nat : k <= n /\ f[k] \notin V}
<1> SUFFICES ASSUME T # {} PROVE FALSE
  OBVIOUS
<1>1. PICK k \in T : \A y \in T : k <= y
  <2> HIDE DEF T
  <2>1. T \in SUBSET Nat
    BY DEF T
  <2> QED BY <2>1, NatLeast
<1>2. k \in Nat /\ k <= n /\ f[k] \notin V
  OBVIOUS
<1>3. k \in 1 .. n
  <2>1. k # 0
    BY <1>2
  <2> QED BY <1>2, <2>1
<1>4. k - 1 \in Nat /\ k - 1 \notin T
  <2>1. k - 1 \in Nat /\ ~(k <= k - 1)
    BY <1>3
  <2> HIDE DEF T
  <2> QED BY <1>1, <2>1
<1>5. f[k - 1] \in V
  BY <1>3, <1>4
<1> QED BY <1>2, <1>3, <1>5

LEMMA FoldExists ==
    ASSUME NEW V, NEW n \in Nat, NEW base \in V, NEW step \in [(1 .. n) \X V -> V]
    PROVE  \E f : FoldUpTo(base, step, f, n) /\ \A k \in 0 .. n : f[k] \in V
<1> DEFINE T == {k \in Nat : k <= n /\ ~\E f : FoldUpTo(base, step, f, k)}
<1>1. T = {}
  <2> SUFFICES ASSUME T # {} PROVE FALSE
    OBVIOUS
  <2>1. PICK k \in T : \A y \in T : k <= y
    <3> HIDE DEF T
    <3>1. T \in SUBSET Nat
      BY DEF T
    <3> QED BY <3>1, NatLeast
  <2>2. k \in Nat /\ k <= n /\ ~\E f : FoldUpTo(base, step, f, k)
    OBVIOUS
  <2>3. k # 0
    <3>1. FoldUpTo(base, step, [j \in 0 .. 0 |-> base], 0)
      BY DEF FoldUpTo
    <3> QED BY <2>2, <3>1
  <2>4. k - 1 \in Nat /\ k - 1 <= n /\ k - 1 \notin T
    <3>1. k - 1 \in Nat /\ k - 1 <= n /\ ~(k <= k - 1)
      BY <2>2, <2>3
    <3> HIDE DEF T
    <3> QED BY <2>1, <3>1
  <2>5. PICK f : FoldUpTo(base, step, f, k - 1)
    BY <2>4
  <2> DEFINE g == [j \in 0 .. k |-> IF j < k THEN f[j] ELSE step[<<k, f[k - 1]>>]]
  <2>6. ASSUME NEW j \in 0 .. k
        PROVE  g[j] = IF j = 0 THEN base ELSE step[<<j, g[j - 1]>>]
    <3>1. \A x \in 0 .. k - 1 : f[x] = IF x = 0 THEN base ELSE step[<<x, f[x - 1]>>]
      BY <2>5 DEF FoldUpTo
    <3>2. CASE j = k
      <4>1. g[k - 1] = f[k - 1] /\ g[j] = step[<<k, f[k - 1]>>]
        BY <2>2, <2>3, <3>2
      <4> QED BY <2>3, <3>2, <4>1
    <3>3. CASE j # k
      <4>1. j \in 0 .. k - 1 /\ g[j] = f[j]
        BY <2>2, <3>3
      <4>2. j # 0 => g[j - 1] = f[j - 1]
        BY <2>2, <3>3
      <4> QED BY <3>1, <4>1, <4>2
    <3> QED BY <3>2, <3>3
  <2>7. FoldUpTo(base, step, g, k)
    <3>1. g = [j \in 0 .. k |-> g[j]]
      OBVIOUS
    <3> HIDE DEF g
    <3> QED BY <2>6, <3>1 DEF FoldUpTo
  <2> QED BY <2>2, <2>7
<1>2. PICK f : FoldUpTo(base, step, f, n)
  BY <1>1
<1>3. \A k \in 0 .. n : f[k] = IF k = 0 THEN base ELSE step[<<k, f[k - 1]>>]
  BY <1>2 DEF FoldUpTo
<1>4. \A k \in 0 .. n : f[k] \in V
  <2>1. f[0] \in V
    <3>1. 0 \in 0 .. n
      OBVIOUS
    <3>2. f[0] = base
      BY <1>3, <3>1, Zenon
    <3> QED BY <3>2
  <2>2. ASSUME NEW k \in 1 .. n, f[k - 1] \in V PROVE f[k] \in V
    <3>1. f[k] = step[<<k, f[k - 1]>>]
      BY <1>3
    <3> QED BY <2>2, <3>1
  <2> QED BY <2>1, <2>2, FoldStays
<1> QED BY <1>2, <1>4

----------------------------------------------------------------------------
(* Where the fields are declared: one after another.                       *)
LEMMA DeclaredTypes ==
    ASSUME NEW l, Declarable(l)
    PROVE  /\ l.mode \in {"bits", "bytes", "words"} /\ l.endian \in {"le", "be"} /\ l.order \in {"lsb", "msb"}
           /\ l.size \in Nat /\ l.prefix \in Nat /\ l.prefix <= U64
           /\ l.pinned \in SUBSET SUBSET Nat /\ l.view \in BOOLEAN
           /\ l.fields \in Seq(FieldDecl) /\ Len(l.fields) \in Nat /\ DOMAIN l.fields = 1 .. Len(l.fields)
           /\ \A i \in DOMAIN l.fields :
                /\ l.fields[i].bits \in Nat \ {0} /\ l.fields[i].len \in Nat /\ l.fields[i].prim \in Nat \ {0}
                /\ Count(l.fields[i]) \in Nat \ {0} /\ Width(l.fields[i]) \in Nat \ {0}
                /\ l.fields[i].bits <= Width(l.fields[i])
<1>1. l \in LayoutDecl
  BY DEF Declarable
<1>2. U64 \in Nat
  BY LayoutAssumption, ByteAssumption DEF U64
<1>3. /\ l.mode \in {"bits", "bytes", "words"} /\ l.endian \in {"le", "be"} /\ l.order \in {"lsb", "msb"}
      /\ l.size \in Nat /\ l.prefix \in 0 .. U64
      /\ l.pinned \in SUBSET SUBSET Nat /\ l.view \in BOOLEAN
      /\ l.fields \in Seq(FieldDecl)
  BY <1>1 DEF LayoutDecl
<1>4. l.prefix \in Nat /\ l.prefix <= U64
  BY <1>2, <1>3
<1>5. Len(l.fields) \in Nat /\ DOMAIN l.fields = 1 .. Len(l.fields)
  BY <1>3
<1>6. ASSUME NEW i \in DOMAIN l.fields
      PROVE  /\ l.fields[i].bits \in Nat \ {0} /\ l.fields[i].len \in Nat /\ l.fields[i].prim \in Nat \ {0}
             /\ Count(l.fields[i]) \in Nat \ {0} /\ Width(l.fields[i]) \in Nat \ {0}
             /\ l.fields[i].bits <= Width(l.fields[i])
  <2>1. l.fields[i] \in FieldDecl
    BY <1>3, <1>5
  <2>2. /\ l.fields[i].bits \in Nat \ {0} /\ l.fields[i].len \in Nat /\ l.fields[i].prim \in Nat \ {0}
    BY <2>1 DEF FieldDecl
  <2>3. Count(l.fields[i]) \in Nat \ {0}
    BY <2>2 DEF Count
  <2>4. \A b, c \in Nat \ {0} : b * c \in Nat \ {0} /\ b <= b * c
    BY SMTT(30)
  <2>5. Width(l.fields[i]) \in Nat \ {0} /\ l.fields[i].bits <= Width(l.fields[i])
    BY <2>2, <2>3, <2>4 DEF Width
  <2> QED BY <2>2, <2>3, <2>5
<1> QED BY <1>3, <1>4, <1>5, <1>6

LEMMA DeclaredIs ==
    ASSUME NEW l, Declarable(l)
    PROVE  /\ Declared(l, 1) = l.prefix
           /\ \A i \in 1 .. Len(l.fields) : Declared(l, i + 1) = Declared(l, i) + Width(l.fields[i])
           /\ \A i \in 1 .. Len(l.fields) + 1 : Declared(l, i) \in Nat /\ Declared(l, i) >= l.prefix
<1> DEFINE n == Len(l.fields)
           w(k) == Width(l.fields[k])
           Rec(f) == [k \in 0 .. n |-> IF k = 0 THEN l.prefix ELSE f[k - 1] + w(k)]
           end == CHOOSE f : f = Rec(f)
           step == [q \in (1 .. n) \X Nat |-> q[2] + w(q[1])]
<1>1. n \in Nat /\ l.prefix \in Nat /\ \A k \in 1 .. n : w(k) \in Nat
  BY DeclaredTypes
<1>2. \A i : Declared(l, i) = end[i - 1]
  BY DEF Declared
<1> HIDE DEF n, w
<1>3. step \in [(1 .. n) \X Nat -> Nat]
  BY <1>1
<1>4. \A k \in 1 .. n, v \in Nat : step[<<k, v>>] = v + w(k)
  OBVIOUS
<1> HIDE DEF step
<1>5. PICK f : FoldUpTo(l.prefix, step, f, n) /\ \A k \in 0 .. n : f[k] \in Nat
  BY <1>1, <1>3, FoldExists
<1>6. f = Rec(f)
  <2>1. f = [k \in 0 .. n |-> IF k = 0 THEN l.prefix ELSE step[<<k, f[k - 1]>>]]
    BY <1>5 DEF FoldUpTo
  <2>2. \A k \in 0 .. n : k # 0 => step[<<k, f[k - 1]>>] = f[k - 1] + w(k)
    BY <1>1, <1>4, <1>5
  <2> QED BY <2>1, <2>2
<1>7. end = Rec(end)
  <2> HIDE DEF Rec
  <2> QED BY <1>6
<1> HIDE DEF end
<1>8. end[0] = l.prefix /\ \A k \in 1 .. n : end[k] = end[k - 1] + w(k)
  BY <1>1, <1>7
<1>9. \A k \in 0 .. n : end[k] \in {v \in Nat : v >= l.prefix}
  <2> DEFINE V == {v \in Nat : v >= l.prefix}
  <2>1. end[0] \in V
    BY <1>1, <1>8
  <2>2. \A k \in 1 .. n : end[k - 1] \in V => end[k] \in V
    BY <1>1, <1>8
  <2> HIDE DEF V
  <2>3. \A k \in 0 .. n : end[k] \in V
    BY <1>1, <2>1, <2>2, FoldStays
  <2> QED BY <2>3 DEF V
<1>10. Declared(l, 1) = l.prefix
  BY <1>2, <1>8
<1>11. ASSUME NEW i \in 1 .. n PROVE Declared(l, i + 1) = Declared(l, i) + w(i)
  <2>1. (i + 1) - 1 = i
    BY <1>1
  <2> QED BY <1>2, <1>8, <2>1
<1>12. ASSUME NEW i \in 1 .. n + 1 PROVE Declared(l, i) \in Nat /\ Declared(l, i) >= l.prefix
  <2>1. i - 1 \in 0 .. n
    BY <1>1
  <2> QED BY <1>2, <1>9, <2>1
<1> QED BY <1>10, <1>11, <1>12 DEF n, w

LEMMA DeclaredOrder ==
    ASSUME NEW l, Declarable(l), NEW i \in 1 .. Len(l.fields), NEW j \in i + 1 .. Len(l.fields) + 1
    PROVE  Declared(l, i) + Width(l.fields[i]) <= Declared(l, j)
<1> DEFINE n == Len(l.fields)
           f == [k \in 0 .. n - i |-> Declared(l, i + 1 + k)]
           V == {v \in Nat : v >= Declared(l, i + 1)}
<1>1. n \in Nat /\ i \in 1 .. n /\ j \in i + 1 .. n + 1
  BY DeclaredTypes
<1>2. /\ \A k \in 1 .. n : Declared(l, k + 1) = Declared(l, k) + Width(l.fields[k])
      /\ \A k \in 1 .. n + 1 : Declared(l, k) \in Nat
      /\ \A k \in 1 .. n : Width(l.fields[k]) \in Nat
  <2>1. \A k \in 1 .. Len(l.fields) : Declared(l, k + 1) = Declared(l, k) + Width(l.fields[k])
    BY DeclaredIs
  <2>2. \A k \in 1 .. Len(l.fields) + 1 : Declared(l, k) \in Nat
    BY DeclaredIs
  <2>3. DOMAIN l.fields = 1 .. Len(l.fields) /\ \A k \in DOMAIN l.fields : Width(l.fields[k]) \in Nat
    BY DeclaredTypes
  <2>4. \A k \in 1 .. Len(l.fields) : Width(l.fields[k]) \in Nat
    BY <2>3
  <2> QED BY <2>1, <2>2, <2>4
<1> HIDE DEF n
<1>3. f[0] \in V
  <2>1. i + 1 + 0 = i + 1 /\ 0 \in 0 .. n - i /\ i + 1 \in 1 .. n + 1
    BY <1>1
  <2> QED BY <1>2, <2>1
<1>4. ASSUME NEW k \in 1 .. n - i, f[k - 1] \in V PROVE f[k] \in V
  <2>1. PICK p \in 1 .. n : p = i + k
    BY <1>1
  <2>2. f[k - 1] = Declared(l, p) /\ f[k] = Declared(l, p + 1)
    <3>1. i + 1 + (k - 1) = p /\ i + 1 + k = p + 1 /\ k - 1 \in 0 .. n - i /\ k \in 0 .. n - i
      BY <1>1, <2>1
    <3> QED BY <3>1
  <2>3. Declared(l, p) \in Nat /\ Declared(l, p) >= Declared(l, i + 1)
    BY <1>4, <2>2
  <2>4. Declared(l, p + 1) \in Nat /\ Declared(l, p + 1) >= Declared(l, p)
    <3>1. p + 1 \in 1 .. n + 1 /\ p \in 1 .. n
      BY <1>1, <2>1
    <3>2. Declared(l, p + 1) \in Nat /\ Width(l.fields[p]) \in Nat
      BY <1>2, <3>1
    <3>3. Declared(l, p + 1) = Declared(l, p) + Width(l.fields[p])
      BY <1>2, <3>1
    <3> QED BY <2>3, <3>2, <3>3
  <2>5. Declared(l, i + 1) \in Nat
    <3>1. i + 1 \in 1 .. n + 1
      BY <1>1
    <3> QED BY <1>2, <3>1
  <2>6. Declared(l, p + 1) >= Declared(l, i + 1)
    BY <2>3, <2>4, <2>5
  <2>7. Declared(l, p + 1) \in V
    BY <2>4, <2>6
  <2> HIDE DEF f, V
  <2> QED BY <2>2, <2>7, Zenon
<1>5. \A k \in 0 .. n - i : f[k] \in V
  <2>1. n - i \in Nat
    BY <1>1
  <2> HIDE DEF f, V
  <2> QED BY <1>3, <1>4, <2>1, FoldStays
<1>6. PICK k \in 0 .. n - i : k = j - (i + 1)
  BY <1>1
<1>7. f[k] = Declared(l, j)
  <2>1. i + 1 + k = j
    BY <1>1, <1>6
  <2> QED BY <2>1
<1>8. Declared(l, j) >= Declared(l, i + 1)
  BY <1>5, <1>7
<1>9. Declared(l, i + 1) = Declared(l, i) + Width(l.fields[i])
  BY <1>1, <1>2
<1> QED BY <1>8, <1>9

(* The layout a declaration is solved to.                                  *)
LEMMA SolvedIs ==
    ASSUME NEW d, Declarable(d), NEW l, l = Solved(d)
    PROVE  /\ l.mode = d.mode /\ l.size = d.size /\ l.endian = d.endian /\ l.order = d.order
           /\ l.prefix = d.prefix /\ l.pinned = d.pinned /\ l.view = d.view /\ l.truncate = d.truncate
           /\ Total(l) = Total(d) /\ Hoisted(l) = Hoisted(d) /\ Len(l.fields) = Len(d.fields)
           /\ DOMAIN l.fields = DOMAIN d.fields /\ DOMAIN l.fields = 1 .. Len(l.fields)
           /\ \A i \in DOMAIN d.fields :
                l.fields[i] = [d.fields[i] EXCEPT !.at =
                                 Physical(d, d.fields[i].bits, Packed(d.fields[i]), Declared(d, i))]
<1> DEFINE placed == [i \in DOMAIN d.fields |->
                        [d.fields[i] EXCEPT !.at =
                           Physical(d, d.fields[i].bits, Packed(d.fields[i]), Declared(d, i))]]
<1>1. l = [d EXCEPT !.fields = placed]
  BY DEF Solved
<1>2. d \in LayoutDecl
  BY DEF Declarable
<1>3. DOMAIN d.fields = 1 .. Len(d.fields) /\ Len(d.fields) \in Nat
  BY DeclaredTypes
<1>4. DOMAIN placed = 1 .. Len(d.fields)
  BY <1>3
<1>5. \A i \in DOMAIN d.fields :
        placed[i] = [d.fields[i] EXCEPT !.at =
                       Physical(d, d.fields[i].bits, Packed(d.fields[i]), Declared(d, i))]
  OBVIOUS
<1> HIDE DEF placed
<1>6. l.fields = placed
  BY <1>1, <1>2 DEF LayoutDecl
<1>7. /\ l.mode = d.mode /\ l.size = d.size /\ l.endian = d.endian /\ l.order = d.order
      /\ l.prefix = d.prefix /\ l.pinned = d.pinned /\ l.view = d.view /\ l.truncate = d.truncate
  BY <1>1, <1>2 DEF LayoutDecl
<1>8. DOMAIN l.fields = 1 .. Len(d.fields)
  BY <1>4, <1>6
<1>9. Len(l.fields) = Len(d.fields)
  BY <1>3, <1>8
<1>10. Total(l) = Total(d) /\ Hoisted(l) = Hoisted(d)
  BY <1>7, Zenon DEF Total, Hoisted
<1> QED BY <1>3, <1>5, <1>6, <1>7, <1>8, <1>9, <1>10

LEMMA SolvedField ==
    ASSUME NEW d, Declarable(d), NEW l, l = Solved(d), NEW i \in DOMAIN l.fields, NEW f, f = l.fields[i]
    PROVE  /\ i \in DOMAIN d.fields /\ i \in 1 .. Len(d.fields)
           /\ f.reading = d.fields[i].reading /\ f.bits = d.fields[i].bits /\ f.prim = d.fields[i].prim
           /\ f.len = d.fields[i].len /\ f.magic = d.fields[i].magic /\ f.over = d.fields[i].over
           /\ f.range = d.fields[i].range
           /\ f.at = Physical(d, f.bits, Packed(f), Declared(d, i))
           /\ Count(f) = Count(d.fields[i]) /\ Width(f) = Width(d.fields[i]) /\ Packed(f) = Packed(d.fields[i])
           /\ f.bits \in Nat \ {0} /\ f.prim \in Nat \ {0} /\ f.len \in Nat
           /\ Count(f) \in Nat \ {0} /\ Width(f) \in Nat \ {0} /\ Width(f) = f.bits * Count(f)
<1>1. i \in DOMAIN d.fields /\ i \in 1 .. Len(d.fields) /\ d.fields \in Seq(FieldDecl)
  BY SolvedIs, DeclaredTypes
<1>2. PICK at : at = Physical(d, d.fields[i].bits, Packed(d.fields[i]), Declared(d, i))
  OBVIOUS
<1>3. f = [d.fields[i] EXCEPT !.at = at]
  BY <1>1, <1>2, SolvedIs
<1>4. PICK g \in FieldDecl : g = d.fields[i]
  BY <1>1
<1>5. /\ f.reading = g.reading /\ f.bits = g.bits /\ f.prim = g.prim /\ f.len = g.len
      /\ f.magic = g.magic /\ f.over = g.over /\ f.range = g.range /\ f.at = at
  BY <1>3, <1>4 DEF FieldDecl
<1>6. Count(f) = Count(g) /\ Width(f) = Width(g) /\ Packed(f) = Packed(g)
  BY <1>5, Zenon DEF Count, Width, Packed
<1>7. /\ g.bits \in Nat \ {0} /\ g.prim \in Nat \ {0} /\ g.len \in Nat
      /\ Count(g) \in Nat \ {0} /\ Width(g) \in Nat \ {0}
  BY <1>1, <1>4, DeclaredTypes
<1>8. Width(f) = f.bits * Count(f)
  BY DEF Width
<1>9. f.at = Physical(d, f.bits, Packed(f), Declared(d, i))
  BY <1>2, <1>4, <1>5, <1>6, Zenon
<1> QED BY <1>1, <1>4, <1>5, <1>6, <1>7, <1>8, <1>9, Zenon

----------------------------------------------------------------------------
(* Where solve puts a field.                                               *)
LEMMA InRegion ==
    ASSUME NEW k \in Nat
    PROVE  /\ WordBits \in Nat /\ WordBits = Byte + Byte /\ WordBits > 0
           /\ \E w \in Nat : /\ k - (k % WordBits) = WordBits * w /\ k = WordBits * w + (k % WordBits)
                             /\ WordBits * w \in Nat
           /\ k % WordBits \in Nat /\ k % WordBits < WordBits
<1>1. WordBits \in Nat /\ WordBits = Byte + Byte /\ WordBits > 0
  BY ByteAssumption DEF WordBits
<1>2. PICK b \in Nat : b = WordBits /\ b > 0
  BY <1>1
<1>3. k \div b \in Nat /\ k % b \in 0 .. b - 1
  BY <1>2
<1>4. PICK w \in Nat : w = k \div b
  BY <1>3
<1>5. k - b * w = k % b
  BY <1>2, <1>4, SMTT(30)
<1>6. b * w \in Nat
  BY <1>4
<1>7. k = b * w + (k % b) /\ k - (k % b) = b * w
  BY <1>3, <1>5, <1>6
<1>8. /\ k = WordBits * w + (k % WordBits) /\ k - (k % WordBits) = WordBits * w /\ WordBits * w \in Nat
      /\ k % WordBits \in 0 .. WordBits - 1
  BY <1>2, <1>3, <1>6, <1>7, Zenon
<1>9. k % WordBits \in Nat /\ k % WordBits < WordBits
  BY <1>1, <1>8
<1> QED BY <1>1, <1>8, <1>9, Zenon

LEMMA InRegionUnique ==
    ASSUME NEW w \in Nat, NEW r \in Nat, r < WordBits
    PROVE  (WordBits * w + r) % WordBits = r /\ WordBits * w \in Nat
<1>1. PICK b \in Nat : b = WordBits /\ b > 0
  BY ByteAssumption DEF WordBits
<1>2. ASSUME NEW k \in Nat, k = b * w + r PROVE k % b = r
  BY <1>1, <1>2, SMTT(30)
<1>3. b * w \in Nat /\ b * w + r \in Nat
  BY <1>1
<1> QED BY <1>1, <1>2, <1>3

Placed(d, at, width, packed, p) ==
    /\ p \in Nat /\ p + width <= Total(d)
    /\ d.mode = "bytes" \/ ~packed => p = at
    /\ d.mode = "bits" /\ packed => p = IF d.order = "lsb" THEN at ELSE Total(d) - (at + width)
    /\ d.mode = "words" /\ packed =>
         /\ p - (p % WordBits) = at - (at % WordBits)
         /\ p % WordBits = IF d.order = "lsb" THEN at % WordBits ELSE WordBits - (at % WordBits) - width
         /\ (p % WordBits) + width <= WordBits

LEMMA PhysicalIs ==
    ASSUME NEW d, Declarable(d), NEW at \in Nat, NEW width \in Nat \ {0}, at + width <= Total(d),
           NEW packed \in BOOLEAN,
           d.mode = "words" /\ packed => (at % WordBits) + width <= WordBits,
           NEW p, p = Physical(d, width, packed, at)
    PROVE  Placed(d, at, width, packed, p)
<1> USE DEF Placed
<1>1. d.mode \in {"bits", "bytes", "words"} /\ d.order \in {"lsb", "msb"} /\ d.size \in Nat
  BY DeclaredTypes
<1>2. Total(d) \in Nat
  BY <1>1, ByteAssumption DEF Total
<1>3. CASE d.mode = "bytes" \/ d.order = "lsb" \/ ~packed
  <2>1. p = at
    BY <1>3 DEF Physical
  <2>2. d.mode = "words" /\ packed => (p % WordBits) + width <= WordBits
    BY <2>1
  <2>3. p \in Nat /\ p + width <= Total(d)
    BY <2>1
  <2>4. d.mode \in {"bits", "words"} /\ packed => d.order = "lsb"
    BY <1>3
  <2>5. /\ d.mode = "bits" /\ packed => p = IF d.order = "lsb" THEN at ELSE Total(d) - (at + width)
        /\ d.mode = "words" /\ packed =>
              p % WordBits = IF d.order = "lsb" THEN at % WordBits ELSE WordBits - (at % WordBits) - width
    BY <2>1, <2>4, Zenon
  <2>6. p - (p % WordBits) = at - (at % WordBits)
    BY <2>1
  <2> QED BY <2>1, <2>2, <2>3, <2>5, <2>6, Zenon
<1>4. CASE d.mode = "bits" /\ d.order = "msb" /\ packed
  <2>1. RegionBits(d) = Total(d)
    BY <1>4 DEF RegionBits
  <2>2. at % Total(d) = at
    <3>1. \A t \in Nat \ {0} : \A k \in 0 .. t - 1 : k % t = k
      OBVIOUS
    <3>2. Total(d) \in Nat \ {0} /\ at \in 0 .. Total(d) - 1
      BY <1>2
    <3> QED BY <3>1, <3>2, Zenon
  <2>3. p = at - at + Total(d) - (at - (at - at) + width)
    BY <1>4, <2>1, <2>2 DEF Physical
  <2>4. p = Total(d) - (at + width)
    BY <1>2, <2>3
  <2>5. p \in Nat /\ p + width <= Total(d)
    BY <1>2, <2>4
  <2> QED BY <1>4, <2>4, <2>5, Zenon
<1>5. CASE d.mode = "words" /\ d.order = "msb" /\ packed
  <2>1. RegionBits(d) = WordBits
    BY <1>5 DEF RegionBits
  <2>2. PICK w \in Nat, r \in Nat, b \in Nat, g \in Nat :
          /\ r = at % WordBits /\ r < WordBits /\ b = WordBits * w /\ g = WordBits /\ g > 0
          /\ at - r = b /\ at = b + r
    <3>1. PICK w \in Nat : /\ at - (at % WordBits) = WordBits * w /\ at = WordBits * w + (at % WordBits)
                           /\ WordBits * w \in Nat
      BY InRegion
    <3>2. at % WordBits \in Nat /\ at % WordBits < WordBits /\ WordBits \in Nat /\ WordBits > 0
      BY InRegion
    <3>3. PICK r \in Nat : r = at % WordBits
      BY <3>2
    <3>4. PICK b \in Nat : b = WordBits * w
      BY <3>1
    <3>5. PICK g \in Nat : g = WordBits
      BY <3>2
    <3>6. r < WordBits /\ g > 0 /\ at - r = b /\ at = b + r
      BY <3>1, <3>2, <3>3, <3>4, <3>5, Zenon
    <3> QED BY <3>3, <3>4, <3>5, <3>6, Zenon
  <2>3. r + width <= g
    BY <1>5, <2>2
  <2>4. p = b + g - (at - b + width)
    BY <1>5, <2>1, <2>2 DEF Physical
  <2>5. p = b + (g - r - width) /\ g - r - width \in Nat /\ g - r - width < g
    BY <2>2, <2>3, <2>4
  <2>6. p % WordBits = g - r - width
    <3>1. PICK k \in Nat : k = g - r - width
      BY <2>5
    <3>2. k < WordBits
      BY <2>2, <2>5, <3>1
    <3>3. (WordBits * w + k) % WordBits = k
      BY <3>2, InRegionUnique
    <3>4. p = WordBits * w + k
      BY <2>2, <2>5, <3>1
    <3> QED BY <3>1, <3>3, <3>4
  <2>7. b + g <= Total(d)
    <3>1. PICK h \in Nat : d.size = 2 * h
      <4>1. d.size % 2 = 0
        BY <1>5 DEF Declarable
      <4>2. d.size \div 2 \in Nat /\ d.size = 2 * (d.size \div 2)
        BY <1>1, <4>1
      <4> QED BY <4>2
    <3>2. Total(d) = g * h
      <4>1. \A x, y \in Nat : (2 * x) * y = (2 * y) * x
        BY SMTT(30)
      <4> QED BY <2>2, <3>1, <4>1, ByteAssumption DEF Total, WordBits
    <3>3. g * w < g * h
      <4>1. b < Total(d)
        BY <1>2, <2>2
      <4> QED BY <2>2, <3>2, <4>1
    <3>4. w + 1 <= h
      BY <2>2, <3>3, SMTT(30)
    <3>5. g * (w + 1) <= g * h
      BY <2>2, <3>4, SMTT(30)
    <3>6. g * (w + 1) = g * w + g
      BY SMTT(30)
    <3> QED BY <2>2, <3>2, <3>5, <3>6
  <2>8. p \in Nat /\ p + width <= Total(d)
    BY <1>2, <2>2, <2>3, <2>5, <2>7
  <2>9. p - (p % WordBits) = b
    <3>1. PICK q \in Nat : q = g - r - width
      BY <2>5
    <3>2. p - q = b
      BY <2>2, <2>5, <3>1
    <3>3. p % WordBits = q
      BY <2>6, <3>1, Zenon
    <3> QED BY <3>2, <3>3, Zenon
  <2>10. (p % WordBits) + width <= WordBits
    BY <2>2, <2>3, <2>6
  <2> QED BY <1>5, <2>2, <2>6, <2>8, <2>9, <2>10, Zenon
<1> QED BY <1>1, <1>3, <1>4, <1>5

----------------------------------------------------------------------------
(* The local word decode works in, and the windows of the view.            *)

LEMMA LocalSizeIs ==
    ASSUME NEW l, l.size \in Nat \ {0}, Hoisted(l)
    PROVE  LocalSize(l) \in Nat /\ l.size <= LocalSize(l)
<1>1. l.size \in 1 .. 16
  BY LayoutAssumption DEF Hoisted
<1> QED BY <1>1, NextPowerOfTwoIs DEF LocalSize

LEMMA LocalWordIs ==
    ASSUME NEW l, l.size \in Nat \ {0}, Hoisted(l), l.endian \in {"le", "be"},
           NEW buf \in Buffers(l.size)
    PROVE  /\ LocalWord(l, buf) \subseteq Nat
           /\ \A n \in Bits(Byte * l.size) : n \in LocalWord(l, buf) <=> WordBit(l, n)[2] \in buf[WordBit(l, n)[1]]
<1>1. PICK m \in Nat : m = l.size
  OBVIOUS
<1>2. PICK r \in Nat : r = LocalSize(l) /\ m <= r
  BY <1>1, LocalSizeIs
<1>3. PICK x : x = LoadBytes(l.endian, 0, m, r, buf)
  OBVIOUS
<1>4. LocalWord(l, buf) = x
  BY <1>1, <1>2, <1>3, Zenon DEF LocalWord
<1>5. 0 + m <= m /\ 0 \in Nat
  OBVIOUS
<1>6. buf \in Buffers(m)
  BY <1>1
<1>7. /\ x \subseteq Bits(Byte * m)
      /\ \A k \in Bits(Byte * m) :
            /\ k \div Byte \in 0 .. m - 1
            /\ k \in x <=> k % Byte \in buf[0 + Significance(l.endian, m, k \div Byte)]
  BY <1>1, <1>2, <1>3, <1>5, <1>6, LoadBytesIs, Zenon
<1>8. ASSUME NEW n \in Bits(Byte * m)
      PROVE  n \in x <=> WordBit(l, n)[2] \in buf[WordBit(l, n)[1]]
  <2>1. PICK q \in 0 .. m - 1 : q = n \div Byte
    BY <1>7
  <2>2. 0 + Significance(l.endian, m, q) = IF l.endian = "le" THEN q ELSE m - 1 - q
    BY <1>1, <2>1 DEF Significance
  <2>3. WordBit(l, n) = <<IF l.endian = "le" THEN q ELSE m - 1 - q, n % Byte>>
    BY <1>1, <2>1, Zenon DEF WordBit
  <2>4. WordBit(l, n)[1] = (IF l.endian = "le" THEN q ELSE m - 1 - q) /\ WordBit(l, n)[2] = n % Byte
    BY <2>3
  <2>5. n \in x <=> n % Byte \in buf[0 + Significance(l.endian, m, q)]
    BY <1>7, <2>1, Zenon
  <2> QED BY <2>2, <2>4, <2>5, Zenon
<1>9. Bits(Byte * m) \subseteq Nat
  BY ByteAssumption DEF Bits
<1> QED BY <1>1, <1>4, <1>7, <1>8, <1>9, Zenon

LEMMA WindowWithin ==
    ASSUME NEW l, l.size \in Nat, l.size <= Wide, l.endian \in {"le", "be"},
           NEW at \in Nat, NEW bits \in Nat \ {0}, NEW wide \in BOOLEAN, at + bits <= Byte * l.size
    PROVE  bits <= Byte * Wide /\ Within(Window(l, at, bits, wide), l.size)
<1>1. PICK m \in Nat : m = l.size
  OBVIOUS
<1>2. Byte * m \in Nat /\ Byte * Wide \in Nat
  BY ByteAssumption, LayoutAssumption
<1>3. bits <= Byte * Wide
  <2>1. \A b, y, z \in Nat : y <= z => b * y <= b * z
    BY SMTT(30)
  <2>2. Byte * m <= Byte * Wide
    BY <1>1, <2>1, ByteAssumption, LayoutAssumption
  <2> QED BY <1>1, <1>2, <2>2
<1>4. Within(Window(l, at, bits, wide), l.size)
  BY <1>3, WindowIs, Zenon
<1> QED BY <1>3, <1>4

(* A field has the same bits in the local word as in its own window.       *)
LEMMA WindowIsExtract ==
    ASSUME NEW l, l.size \in Nat, Hoisted(l), l.endian \in {"le", "be"},
           NEW buf \in Buffers(l.size),
           NEW at \in Nat, NEW bits \in Nat \ {0}, NEW wide \in BOOLEAN, at + bits <= Byte * l.size
    PROVE  Load(Window(l, at, bits, wide), buf) = Extract(LocalWord(l, buf), at, bits)
<1>1. PICK a : a = Window(l, at, bits, wide)
  OBVIOUS
<1>2. PICK x : x = LocalWord(l, buf)
  OBVIOUS
<1>3. PICK m \in Nat : m = l.size
  OBVIOUS
<1>4. Byte * m \in Nat /\ Byte * Wide \in Nat /\ m <= Wide
  BY <1>3, ByteAssumption, LayoutAssumption DEF Hoisted
<1>5. m # 0
  BY <1>3, ByteAssumption
<1>6. bits <= Byte * Wide
  BY <1>3, <1>4, WindowWithin
<1>7. Within(a, m) /\ a.bits = bits /\ \A k \in Bits(bits) : Spot(a, k) = WordBit(l, at + k)
  <2>1. /\ Within(Window(l, at, bits, wide), l.size) /\ Window(l, at, bits, wide).bits = bits
        /\ \A k \in Bits(bits) : Spot(Window(l, at, bits, wide), k) = WordBit(l, at + k)
    BY <1>6, WindowIs
  <2> QED BY <1>1, <1>3, <2>1, Zenon
<1>8. Load(a, buf) = {k \in Bits(bits) : Spot(a, k)[2] \in buf[Spot(a, k)[1]]}
  <2>1. buf \in Buffers(m)
    BY <1>3
  <2>2. Load(a, buf) = {k \in Bits(a.bits) : Spot(a, k)[2] \in buf[Spot(a, k)[1]]}
    BY <1>7, <2>1, LoadReads
  <2> QED BY <1>7, <2>2
<1>9. /\ x \subseteq Nat
      /\ \A n \in Bits(Byte * m) : n \in x <=> WordBit(l, n)[2] \in buf[WordBit(l, n)[1]]
  BY <1>2, <1>3, <1>5, LocalWordIs
<1>10. ASSUME NEW k \in Bits(bits) PROVE k \in Load(a, buf) <=> at + k \in x
  <2>1. at + k \in Bits(Byte * m)
    BY <1>3, <1>4 DEF Bits
  <2>2. Spot(a, k) = WordBit(l, at + k)
    BY <1>7
  <2> QED BY <1>8, <1>9, <2>1, <2>2, Zenon
<1>11. ASSUME NEW k PROVE k \in Extract(x, at, bits) <=> k \in Bits(bits) /\ at + k \in x
  <2>1. Bits(bits) \subseteq Nat
    BY DEF Bits
  <2>2. ASSUME NEW c \in x PROVE c \in Nat /\ (c - at = k <=> at + k = c /\ k \in Int)
    BY <1>9
  <2>3. k \in Shr(x, at) <=> k \in Int /\ at + k \in x /\ at + k >= at
    BY <1>9, <2>2 DEF Shr
  <2>4. k \in Bits(bits) => k \in Nat /\ at + k >= at
    BY <2>1
  <2> QED BY <2>3, <2>4 DEF Extract
<1>12. Load(a, buf) \subseteq Bits(bits)
  BY <1>8
<1>13. Load(a, buf) = Extract(x, at, bits)
  BY <1>10, <1>11, <1>12, Zenon
<1> QED BY <1>1, <1>2, <1>13

(* An accepted layout in bits mode: one element per field, in the record.  *)
LEMMA BitFields ==
    ASSUME NEW d, Declarable(d), Solves(d), d.mode = "bits", NEW l, l = Solved(d),
           NEW i \in DOMAIN l.fields, NEW f, f = l.fields[i]
    PROVE  /\ Count(f) = 1 /\ f.bits \in Nat \ {0} /\ f.magic = <<>> /\ f.over = <<>>
           /\ f.at \in Nat /\ f.at + f.bits <= Byte * l.size /\ ElementAt(f, 1) = f.at
           /\ InPlace(l, f, ElementAt(f, 1)) = Window(l, f.at, f.bits, IsWide(f))
<1>1. /\ i \in DOMAIN d.fields /\ i \in 1 .. Len(d.fields) /\ f.reading = d.fields[i].reading
      /\ f.bits = d.fields[i].bits /\ f.len = d.fields[i].len /\ f.magic = d.fields[i].magic
      /\ f.over = d.fields[i].over /\ f.at = Physical(d, f.bits, Packed(f), Declared(d, i))
      /\ Width(f) = Width(d.fields[i]) /\ f.bits \in Nat \ {0} /\ Width(f) = f.bits * Count(f)
  BY SolvedField
<1>2. d.fields[i].reading \in {"uint", "int"} /\ d.fields[i].len = 0
  BY <1>1 DEF Declarable, BitField
<1>3. d.fields[i].magic = <<>> /\ d.fields[i].over = <<>>
  <2>1. d.fields[i].magic # <<>> \/ d.fields[i].over # <<>> => d.mode = "bytes"
    BY <1>1 DEF Declarable
  <2> QED BY <2>1
<1>4. Count(f) = 1 /\ Packed(f)
  BY <1>1, <1>2 DEF Count, Packed
<1>5. Width(f) = f.bits
  BY <1>1, <1>4
<1>6. Declared(d, i) \in Nat /\ Declared(d, i) + f.bits <= Total(d)
  <2>1. Declared(d, i) \in Nat
    BY <1>1, DeclaredIs, DeclaredTypes
  <2>2. Declared(d, i) + Width(d.fields[i]) <= Total(d)
    BY <1>1, Zenon DEF Solves
  <2> QED BY <1>1, <1>5, <2>1, <2>2
<1>7. f.at \in Nat /\ f.at + f.bits <= Total(d)
  <2>1. Packed(f) \in BOOLEAN /\ (d.mode = "words" => FALSE)
    BY DEF Packed
  <2>2. PICK at \in Nat : at = Declared(d, i)
    BY <1>6
  <2>3. f.at = Physical(d, f.bits, Packed(f), at)
    BY <1>1, <2>2, Zenon
  <2>4. at + f.bits <= Total(d)
    BY <1>6, <2>2
  <2> QED BY <1>1, <2>1, <2>3, <2>4, PhysicalIs DEF Placed
<1>8. l.mode = "bits" /\ l.size = d.size /\ l.size \in Nat
  BY SolvedIs, DeclaredTypes
<1>9. Total(d) = Byte * l.size
  BY <1>8, Distributes DEF Total
<1>10. ElementAt(f, 1) = f.at
  <2>1. (1 - 1) * f.bits = 0
    BY <1>1
  <2> QED BY <1>7, <2>1 DEF ElementAt
<1>11. f.reading \in {"uint", "int"}
  BY <1>1, <1>2
<1>12. InPlace(l, f, f.at) = Window(l, f.at, f.bits, IsWide(f))
  BY <1>8, <1>11 DEF InPlace
<1>13. f.at + f.bits <= Byte * l.size
  BY <1>7, <1>9, Zenon
<1>14. InPlace(l, f, ElementAt(f, 1)) = Window(l, f.at, f.bits, IsWide(f))
  BY <1>10, <1>12, Zenon
<1>15. f.magic = <<>> /\ f.over = <<>>
  BY <1>1, <1>3, Zenon
<1> QED BY <1>1, <1>4, <1>7, <1>10, <1>13, <1>14, <1>15, Zenon

LEMMA PrefixFits ==
    ASSUME NEW d, Declarable(d), Solves(d), d.mode = "bits", NEW l, l = Solved(d), l.pinned # {}
    PROVE  /\ l.prefix \in Nat \ {0} /\ PrefixAt(l) \in Nat /\ PrefixAt(l) + l.prefix <= Byte * l.size
<1>1. /\ l.mode = d.mode /\ l.size = d.size /\ l.order = d.order
      /\ l.prefix = d.prefix /\ l.pinned = d.pinned /\ Total(l) = Total(d)
  BY SolvedIs
<1>2. d.prefix \in Nat \ {0} /\ d.size \in Nat
  <2>1. d.pinned # {} => d.prefix > 0
    BY DEF Declarable
  <2>2. d.prefix \in Nat /\ d.size \in Nat
    BY DeclaredTypes
  <2> QED BY <1>1, <2>1, <2>2
<1>3. 0 + d.prefix <= Total(d)
  <2>1. PICK n \in Nat : n = Len(d.fields)
    BY DeclaredTypes
  <2>2. Declared(d, n + 1) >= d.prefix
    BY <2>1, DeclaredIs
  <2>3. Declared(d, n + 1) = Total(d)
    BY <2>1, Zenon DEF Solves
  <2> QED BY <1>2, <2>2, <2>3
<1>4. PrefixAt(l) = Physical(d, d.prefix, TRUE, 0)
  BY <1>1, Zenon DEF PrefixAt, Physical, RegionBits
<1>5. PrefixAt(l) \in Nat /\ PrefixAt(l) + d.prefix <= Total(d)
  <2>1. d.mode = "words" /\ TRUE => FALSE
    OBVIOUS
  <2> QED BY <1>2, <1>3, <1>4, <2>1, PhysicalIs DEF Placed
<1>6. Total(d) = Byte * l.size
  BY <1>1, <1>2, Distributes DEF Total
<1> QED BY <1>1, <1>2, <1>5, <1>6

----------------------------------------------------------------------------
(* The view and decode agree about any bytes.                              *)

LEMMA ReadsAgree ==
    ASSUME NEW d, Declarable(d), Solves(d), NEW l, l = Solved(d), Hoisted(l),
           NEW buf \in Buffers(l.size), NEW i \in DOMAIN l.fields
    PROVE  Get(l, i, buf) = Read(l, i, buf)
<1>1. PICK f : f = l.fields[i]
  OBVIOUS
<1>2. d.mode = "bits" /\ l.endian \in {"le", "be"} /\ l.size \in Nat
  BY SolvedIs, DeclaredTypes DEF Hoisted
<1>3. /\ Count(f) = 1 /\ f.bits \in Nat \ {0}
      /\ f.at \in Nat /\ f.at + f.bits <= Byte * l.size
      /\ InPlace(l, f, ElementAt(f, 1)) = Window(l, f.at, f.bits, IsWide(f))
  BY <1>1, <1>2, BitFields
<1>4. Load(Window(l, f.at, f.bits, IsWide(f)), buf) = Extract(LocalWord(l, buf), f.at, f.bits)
  <2>1. IsWide(f) \in BOOLEAN
    BY DEF IsWide
  <2>2. PICK at \in Nat : at = f.at
    BY <1>3
  <2>3. PICK bits \in Nat \ {0} : bits = f.bits
    BY <1>3
  <2>4. at + bits <= Byte * l.size
    BY <1>3, <2>2, <2>3
  <2>5. Load(Window(l, at, bits, IsWide(f)), buf) = Extract(LocalWord(l, buf), at, bits)
    BY <1>2, <2>1, <2>4, WindowIsExtract
  <2> QED BY <2>2, <2>3, <2>5
<1> DEFINE E(j) == FromRaw(f, Load(InPlace(l, f, ElementAt(f, j)), buf))
           raw == Extract(LocalWord(l, buf), f.at, f.bits)
<1>5. Get(l, i, buf) = [j \in 1 .. Count(f) |-> E(j)]
  BY <1>1 DEF Get
<1>6. E(1) = FromRaw(f, raw)
  BY <1>3, <1>4
<1>7. Read(l, i, buf) = <<FromRaw(f, raw)>>
  BY <1>1 DEF Read
<1> HIDE DEF E, raw
<1>8. [j \in 1 .. 1 |-> E(j)] = <<E(1)>>
  OBVIOUS
<1>9. Get(l, i, buf) = <<E(1)>>
  BY <1>3, <1>5, <1>8
<1> QED BY <1>6, <1>7, <1>9

LEMMA PrefixesAgree ==
    ASSUME NEW d, Declarable(d), Solves(d), NEW l, l = Solved(d), Hoisted(l),
           NEW buf \in Buffers(l.size)
    PROVE  PrefixBad(l, buf, FALSE) <=> PrefixBad(l, buf, TRUE)
<1>1. CASE l.pinned = {}
  BY <1>1 DEF PrefixBad
<1>2. CASE l.pinned # {}
  <2>1. d.mode = "bits" /\ l.endian \in {"le", "be"} /\ l.size \in Nat
    BY SolvedIs, DeclaredTypes DEF Hoisted
  <2>2. PICK bits \in Nat \ {0} : bits = l.prefix
    BY <1>2, <2>1, PrefixFits
  <2>3. PICK at \in Nat : at = PrefixAt(l) /\ at + bits <= Byte * l.size
    BY <1>2, <2>1, <2>2, PrefixFits
  <2>4. Load(Window(l, at, bits, FALSE), buf) = Extract(LocalWord(l, buf), at, bits)
    BY <2>1, <2>3, WindowIsExtract
  <2>5. Load(PrefixWindow(l), buf) = Extract(LocalWord(l, buf), PrefixAt(l), l.prefix)
    BY <2>2, <2>3, <2>4 DEF PrefixWindow
  <2> QED BY <2>5 DEF PrefixBad
<1> QED BY <1>1, <1>2

LEMMA Agreement ==
    ASSUME NEW d, Declarable(d), Accepted(d), NEW l, l = Solved(d), l.view,
           NEW buf, Hoisted(l) => buf \in Buffers(l.size)
    PROVE  /\ \A i \in DOMAIN l.fields : Get(l, i, buf) = Read(l, i, buf)
           /\ Verify(l, buf) = DecodeError(l, buf)
<1>1. Solves(d) /\ Viewless(d)
  BY DEF Accepted
<1>2. ASSUME NEW i \in DOMAIN l.fields PROVE Get(l, i, buf) = Read(l, i, buf)
  <2>1. CASE Hoisted(l)
    BY <1>1, <2>1, ReadsAgree
  <2>2. CASE ~Hoisted(l)
    BY <2>2, Zenon DEF Read
  <2> QED BY <2>1, <2>2
<1>3. PrefixBad(l, buf, FALSE) <=> PrefixBad(l, buf, Hoisted(l))
  <2>1. CASE Hoisted(l)
    <3>1. PrefixBad(l, buf, FALSE) <=> PrefixBad(l, buf, TRUE)
      BY <1>1, <2>1, PrefixesAgree
    <3>2. PrefixBad(l, buf, TRUE) <=> PrefixBad(l, buf, Hoisted(l))
      BY <2>1, Zenon DEF PrefixBad
    <3> QED BY <3>1, <3>2, Zenon
  <2>2. CASE ~Hoisted(l)
    BY <2>2, Zenon DEF PrefixBad
  <2> QED BY <2>1, <2>2, Zenon
<1>4. ~RangeBad(l, buf)
  <2>1. ASSUME NEW i \in DOMAIN l.fields PROVE l.fields[i].range = {}
    <3>1. i \in DOMAIN d.fields /\ l.fields[i].range = d.fields[i].range
      BY SolvedField
    <3>2. d.view
      BY SolvedIs
    <3> QED BY <1>1, <3>1, <3>2, Zenon DEF Viewless
  <2> QED BY <2>1, Zenon DEF RangeBad
<1>5. Verify(l, buf) = DecodeError(l, buf)
  <2>1. CASE MagicBad(l, buf)
    BY <2>1 DEF Verify, DecodeError
  <2>2. CASE ~MagicBad(l, buf) /\ PrefixBad(l, buf, FALSE)
    <3>1. PrefixBad(l, buf, Hoisted(l))
      BY <1>3, <2>2, Zenon
    <3> QED BY <2>2, <3>1 DEF Verify, DecodeError
  <2>3. CASE ~MagicBad(l, buf) /\ ~PrefixBad(l, buf, FALSE)
    <3>1. ~PrefixBad(l, buf, Hoisted(l))
      BY <1>3, <2>3, Zenon
    <3>2. CASE ChecksumBad(l, buf)
      BY <1>4, <2>3, <3>1, <3>2 DEF Verify, DecodeError
    <3>3. CASE ~ChecksumBad(l, buf)
      BY <1>4, <2>3, <3>1, <3>3 DEF Verify, DecodeError
    <3> QED BY <3>2, <3>3
  <2> QED BY <2>1, <2>2, <2>3
<1> QED BY <1>2, <1>5

----------------------------------------------------------------------------
(* What the bytes of a layout in bits mode hold after each write.          *)

LEMMA SetKeepsBytes ==
    ASSUME NEW d, Declarable(d), Solves(d), NEW l, l = Solved(d), Hoisted(l),
           NEW buf \in Buffers(l.size), NEW i \in DOMAIN l.fields, NEW value
    PROVE  StoreField(l, l.fields[i], buf, value) \in Buffers(l.size)
<1>1. PICK f : f = l.fields[i]
  OBVIOUS
<1>2. d.mode = "bits" /\ l.endian \in {"le", "be"} /\ l.size \in Nat /\ l.size <= Wide
  BY SolvedIs, DeclaredTypes DEF Hoisted
<1>3. PICK a : a = InPlace(l, f, ElementAt(f, 1))
  OBVIOUS
<1>4. /\ Count(f) = 1 /\ f.bits \in Nat \ {0} /\ f.at \in Nat /\ f.at + f.bits <= Byte * l.size
      /\ a = Window(l, f.at, f.bits, IsWide(f))
  BY <1>1, <1>2, <1>3, BitFields
<1>5. Within(a, l.size)
  <2>1. PICK bits \in Nat \ {0} : bits = f.bits
    BY <1>4
  <2>2. PICK at \in Nat : at = f.at /\ at + bits <= Byte * l.size
    BY <1>4, <2>1
  <2>3. IsWide(f) \in BOOLEAN
    BY DEF IsWide
  <2>4. Within(Window(l, at, bits, IsWide(f)), l.size)
    BY <1>2, <2>2, <2>3, WindowWithin
  <2> QED BY <1>4, <2>1, <2>2, <2>4
<1>6. PICK raw : raw = ToRaw(f, value[1], a.reg * Byte)
  OBVIOUS
<1>7. raw \in SUBSET Nat
  <2>1. a.reg * Byte \in Nat
    BY <1>5, ByteAssumption DEF Within
  <2>2. Bits(a.reg * Byte) \subseteq Nat
    BY <2>1 DEF Bits
  <2>3. raw \subseteq Bits(a.reg * Byte)
    BY <1>6 DEF ToRaw, SignCast
  <2> QED BY <2>2, <2>3
<1>8. Store(a, buf, raw) \in Buffers(l.size)
  BY <1>2, <1>5, <1>7, StoreWrites
<1> DEFINE E(j, v) == LET b == InPlace(l, f, ElementAt(f, j))
                      IN  Store(b, v, ToRaw(f, value[j], b.reg * Byte))
           Rec(g) == [j \in 0 .. Count(f) |-> IF j = 0 THEN buf ELSE E(j, g[j - 1])]
           after == CHOOSE g : g = Rec(g)
<1>9. StoreField(l, f, buf, value) = after[Count(f)]
  BY DEF StoreField
<1>10. E(1, buf) = Store(a, buf, raw)
  BY <1>3, <1>6
<1> HIDE DEF E
<1>11. \E g : g = Rec(g)
  <2> DEFINE g == [j \in 0 .. 1 |-> IF j = 0 THEN buf ELSE E(1, buf)]
  <2>1. \A j \in 0 .. 1 : j # 0 => j = 1 /\ g[j - 1] = buf
    OBVIOUS
  <2>2. g = Rec(g)
    BY <1>4, <2>1
  <2> QED BY <2>2
<1>12. after = Rec(after)
  <2> HIDE DEF Rec
  <2> QED BY <1>11
<1> HIDE DEF after
<1>13. after[0] = buf /\ after[1] = E(1, after[0])
  BY <1>4, <1>12
<1> QED BY <1>1, <1>4, <1>8, <1>9, <1>10, <1>13

LEMMA NothingToStamp ==
    ASSUME NEW l, NEW m \in Nat, Len(l.fields) = m, Magics(l) = {}, Checks(l) = {},
           NEW n \in Nat, NEW buf \in Buffers(n)
    PROVE  MagicWrites(l, buf) = buf /\ ChecksumWrites(l, buf) = buf
<1>1. Cleared(l, buf) = buf
  BY DEF Cleared, Buffers
<1> DEFINE bytes(i) == [k \in 0 .. End(l, i) - First(l, i) - 1 |-> l.fields[i].magic[k + 1]]
           RecM(f) == [i \in 0 .. Len(l.fields) |->
                        IF i = 0 THEN buf
                        ELSE IF i \in Magics(l)
                        THEN Put(f[i - 1], First(l, i), End(l, i) - First(l, i), bytes(i))
                        ELSE f[i - 1]]
           RecC(f) == [i \in 0 .. Len(l.fields) |->
                        IF i = 0 THEN Cleared(l, buf)
                        ELSE IF i \in Checks(l)
                        THEN Store(InPlace(l, l.fields[i], l.fields[i].at), f[i - 1],
                                   Compute(f[i - 1], Covers(l, i)))
                        ELSE f[i - 1]]
           still == [i \in 0 .. m |-> buf]
<1>2. ASSUME NEW f, \A i \in 0 .. m : f[i] = IF i = 0 THEN buf ELSE f[i - 1]
      PROVE  f[m] = buf
  <2> DEFINE V == {buf}
  <2>1. f[0] \in V /\ \A k \in 1 .. m : f[k - 1] \in V => f[k] \in V
    BY <1>2
  <2> HIDE DEF V
  <2>2. \A k \in 0 .. m : f[k] \in V
    BY <2>1, FoldStays, Zenon
  <2>3. f[m] \in V
    BY <2>2
  <2> QED BY <2>3 DEF V
<1>3. MagicWrites(l, buf) = buf
  <2> DEFINE after == CHOOSE f : f = RecM(f)
  <2>1. MagicWrites(l, buf) = after[m]
    BY DEF MagicWrites
  <2>2. \A i \in 0 .. m : i # 0 => still[i - 1] = buf
    OBVIOUS
  <2>3. still = RecM(still)
    BY <2>2
  <2>4. after = RecM(after)
    <3> HIDE DEF RecM, still
    <3> QED BY <2>3
  <2> HIDE DEF after
  <2>5. \A i \in 0 .. m : after[i] = IF i = 0 THEN buf ELSE after[i - 1]
    BY <2>4
  <2> QED BY <1>2, <2>1, <2>5
<1>4. ChecksumWrites(l, buf) = buf
  <2> DEFINE after == CHOOSE f : f = RecC(f)
  <2>1. ChecksumWrites(l, buf) = after[m]
    BY DEF ChecksumWrites
  <2>2. \A i \in 0 .. m : i # 0 => still[i - 1] = buf
    OBVIOUS
  <2>3. still = RecC(still)
    BY <1>1, <2>2
  <2>4. after = RecC(after)
    <3> HIDE DEF RecC, still
    <3> QED BY <2>3
  <2> HIDE DEF after
  <2>5. \A i \in 0 .. m : after[i] = IF i = 0 THEN buf ELSE after[i - 1]
    BY <1>1, <2>4
  <2> QED BY <1>2, <2>1, <2>5
<1> QED BY <1>3, <1>4

LEMMA SealKeepsBytes ==
    ASSUME NEW d, Declarable(d), Solves(d), NEW l, l = Solved(d), Hoisted(l),
           NEW buf \in Buffers(l.size)
    PROVE  Sealed(l, buf) \in Buffers(l.size)
<1>1. d.mode = "bits" /\ l.endian \in {"le", "be"} /\ l.size \in Nat /\ l.size <= Wide
  BY SolvedIs, DeclaredTypes DEF Hoisted
<1>2. Magics(l) = {} /\ Checks(l) = {}
  BY <1>1, BitFields DEF Magics, Checks
<1>3. StorePrefix(l, buf) \in Buffers(l.size)
  <2>1. CASE l.pinned = {}
    BY <2>1 DEF StorePrefix
  <2>2. CASE l.pinned # {}
    <3>1. Within(PrefixWindow(l), l.size)
      <4>1. PICK bits \in Nat \ {0} : bits = l.prefix
        BY <1>1, <2>2, PrefixFits
      <4>2. PICK at \in Nat : at = PrefixAt(l) /\ at + bits <= Byte * l.size
        BY <1>1, <2>2, <4>1, PrefixFits
      <4>3. Within(Window(l, at, bits, FALSE), l.size)
        BY <1>1, <4>2, WindowWithin
      <4> QED BY <4>1, <4>2, <4>3 DEF PrefixWindow
    <3>2. (CHOOSE v \in l.pinned : TRUE) \in SUBSET Nat
      <4>1. l.pinned \in SUBSET SUBSET Nat
        BY SolvedIs, DeclaredTypes
      <4> QED BY <2>2, <4>1
    <3> QED BY <1>1, <2>2, <3>1, <3>2, StoreWrites DEF StorePrefix
  <2> QED BY <2>1, <2>2
<1>4. Len(l.fields) \in Nat
  BY SolvedIs, DeclaredTypes
<1>5. PICK out \in Buffers(l.size) : out = StorePrefix(l, buf)
  BY <1>3
<1>6. MagicWrites(l, out) = out /\ ChecksumWrites(l, out) = out
  BY <1>1, <1>2, <1>4, NothingToStamp
<1> QED BY <1>5, <1>6 DEF Sealed

----------------------------------------------------------------------------
(* A record's layout is an accepted declaration, solved; its bytes, where  *)
(* decode loads them whole, are as many as the layout says.                *)
LayoutInv ==
    /\ phase \in {"declared", "derived", "refused", "panicked", "wire"}
    /\ phase = "declared" => lay \in Declarations
    /\ phase \in {"derived", "wire"} => \E d \in Declarations : Accepted(d) /\ lay = Solved(d)
    /\ phase = "wire" /\ Hoisted(lay) => wire \in Buffers(lay.size)

LEMMA Holds == Spec => []LayoutInv
<1>1. Init => LayoutInv
  BY DEF Init, LayoutInv
<1>2. LayoutInv /\ [Next]_vars => LayoutInv'
  <2> SUFFICES ASSUME LayoutInv, [Next]_vars PROVE LayoutInv'
    OBVIOUS
  <2>1. CASE Derive
    <3>1. lay \in Declarations /\ phase' \in {"derived", "refused"}
      BY <2>1 DEF Derive, LayoutInv
    <3>2. phase' = "derived" => Accepted(lay) /\ lay' = Solved(lay)
      BY <2>1, Zenon DEF Derive
    <3> QED BY <3>1, <3>2 DEF LayoutInv
  <2>2. CASE EncodeValue
    <3>1. PICK value : IF EncodePanics(lay, value) THEN phase' = "panicked" /\ UNCHANGED wire
                       ELSE phase' = "wire" /\ wire' = Encode(lay, value)
      BY <2>2, Zenon DEF EncodeValue
    <3>2. phase = "derived" /\ lay' = lay
      BY <2>2 DEF EncodeValue
    <3>3. PICK d \in Declarations : Accepted(d) /\ lay = Solved(d)
      BY <3>2 DEF LayoutInv
    <3>4. phase' \in {"panicked", "wire"}
      BY <3>1
    <3>5. ASSUME phase' = "wire", Hoisted(lay) PROVE wire' \in Buffers(lay.size)
      <4>1. wire' = Encode(lay, value)
        BY <3>1, <3>5
      <4>2. wire' = Picked(lay.endian, lay.size, LocalSize(lay), EncodeBits(lay, value))
        BY <3>5, <4>1 DEF Encode
      <4>3. lay.size \in Nat
        BY <3>3, DeclarationAssumption, SolvedIs, DeclaredTypes
      <4>4. CASE lay.size = 0
        <5>1. wire' = [i \in 0 .. lay.size - 1 |-> wire'[i]] /\ 0 .. lay.size - 1 = {}
          BY <4>2, <4>4 DEF Picked
        <5> QED BY <5>1 DEF Buffers
      <4>5. CASE lay.size # 0
        BY <3>5, <4>2, <4>3, <4>5, LocalSizeIs, PickedIs
      <4> QED BY <4>4, <4>5
    <3> QED BY <3>2, <3>3, <3>4, <3>5 DEF LayoutInv
  <2>3. CASE Receive
    <3>1. phase = "derived" /\ phase' = "wire" /\ lay' = lay /\ wire' \in Wires(lay)
      BY <2>3 DEF Receive
    <3>2. wire' \in Buffers(lay.size)
      BY <3>1 DEF Wires, Buffers
    <3> QED BY <3>1, <3>2 DEF LayoutInv
  <2>4. CASE SetField
    <3>1. phase = "wire" /\ phase' = "wire" /\ lay' = lay
      BY <2>4 DEF SetField
    <3>2. PICK i \in DOMAIN lay.fields : \E value : wire' = StoreField(lay, lay.fields[i], wire, value)
      BY <2>4, Zenon DEF SetField
    <3>3. PICK d \in Declarations : Accepted(d) /\ lay = Solved(d)
      BY <3>1 DEF LayoutInv
    <3>4. Declarable(d) /\ Solves(d)
      BY <3>3, DeclarationAssumption DEF Accepted
    <3>5. Hoisted(lay) => wire' \in Buffers(lay.size)
      <4>1. PICK value : wire' = StoreField(lay, lay.fields[i], wire, value)
        BY <3>2
      <4> QED BY <3>1, <3>3, <3>4, <4>1, SetKeepsBytes DEF LayoutInv
    <3> QED BY <3>1, <3>3, <3>5 DEF LayoutInv
  <2>5. CASE SealView
    <3>1. phase = "wire" /\ phase' = "wire" /\ lay' = lay /\ wire' = Sealed(lay, wire)
      BY <2>5 DEF SealView
    <3>2. PICK d \in Declarations : Accepted(d) /\ lay = Solved(d)
      BY <3>1 DEF LayoutInv
    <3>3. Declarable(d) /\ Solves(d)
      BY <3>2, DeclarationAssumption DEF Accepted
    <3>4. Hoisted(lay) => wire' \in Buffers(lay.size)
      BY <3>1, <3>2, <3>3, SealKeepsBytes DEF LayoutInv
    <3> QED BY <3>1, <3>2, <3>4 DEF LayoutInv
  <2>6. CASE UNCHANGED vars
    BY <2>6 DEF vars, LayoutInv
  <2> QED BY <2>1, <2>2, <2>3, <2>4, <2>5, <2>6 DEF Next
<1> QED BY <1>1, <1>2, PTL DEF Spec

(* decode works in one register loaded from all the bytes of the record,   *)
(* a view in a window of its own for every field, with other offsets,      *)
(* shifts, masks and spills: of any bytes they read the same values, and   *)
(* verify finds the fault that decode finds first.                         *)
THEOREM ViewAndDecodeAgree == Spec => []ViewAgrees
<1>1. LayoutInv => ViewAgrees
  <2> SUFFICES ASSUME LayoutInv, phase = "wire", lay.view
               PROVE  /\ \A i \in DOMAIN lay.fields : Get(lay, i, wire) = Read(lay, i, wire)
                      /\ Verify(lay, wire) = DecodeError(lay, wire)
    BY DEF ViewAgrees
  <2>1. PICK d \in Declarations : Accepted(d) /\ lay = Solved(d)
    BY DEF LayoutInv
  <2>2. Declarable(d)
    BY DeclarationAssumption
  <2>3. Hoisted(lay) => wire \in Buffers(lay.size)
    BY DEF LayoutInv
  <2> QED BY <2>1, <2>2, <2>3, Agreement
<1> QED BY <1>1, Holds, PTL

----------------------------------------------------------------------------
(* The places of fields on the wire.                                       *)

LEMMA WrittenIs ==
    ASSUME NEW l, l.size \in Nat, NEW i, NEW f, f = l.fields[i], NEW j,
           NEW a, a = InPlace(l, f, ElementAt(f, j)), Within(a, l.size), NEW v \in SUBSET Nat
    PROVE  Written(l, i, j, v) = {Spot(a, x) : x \in Bits(a.bits) \cap v}
<1>1. PICK m \in Nat : m = l.size
  OBVIOUS
<1>2. PICK zero \in Buffers(m) : zero = Zeroed(l)
  BY <1>1 DEF Zeroed, Buffers
<1>3. \A k \in 0 .. m - 1 : zero[k] = {}
  BY <1>1, <1>2 DEF Zeroed
<1>4. PICK out : out = Store(a, zero, v)
  OBVIOUS
<1>5. Within(a, m)
  BY <1>1
<1>6. /\ out \in Buffers(m)
      /\ \A x \in Bits(a.bits) : Spot(a, x)[2] \in out[Spot(a, x)[1]] <=> x \in v
      /\ \A w \in 0 .. m - 1, b \in Bits(Byte) :
           (\A x \in Bits(a.bits) : Spot(a, x) # <<w, b>>) => (b \in out[w] <=> b \in zero[w])
  <2>1. Store(a, zero, v) \in Buffers(m)
    BY <1>5, StoreWrites
  <2>2. \A x \in Bits(a.bits) : Spot(a, x)[2] \in Store(a, zero, v)[Spot(a, x)[1]] <=> x \in v
    BY <1>5, StoreWrites
  <2>3. \A w \in 0 .. m - 1, b \in Bits(Byte) :
          (\A x \in Bits(a.bits) : Spot(a, x) # <<w, b>>)
            => (b \in Store(a, zero, v)[w] <=> b \in zero[w])
    BY <1>5, StoreWrites
  <2> QED BY <1>4, <2>1, <2>2, <2>3, Zenon
<1>7. Written(l, i, j, v) = UNION {{<<k, b>> : b \in out[k]} : k \in DOMAIN out}
  BY <1>2, <1>4 DEF Written
<1>8. DOMAIN out = 0 .. m - 1 /\ \A k \in 0 .. m - 1 : out[k] \subseteq Bits(Byte)
  BY <1>6 DEF Buffers
<1>9. ASSUME NEW e \in Written(l, i, j, v) PROVE \E x \in Bits(a.bits) \cap v : e = Spot(a, x)
  <2>1. PICK k \in 0 .. m - 1 : e \in {<<k, b>> : b \in out[k]}
    BY <1>7, <1>8, <1>9
  <2>2. PICK b \in out[k] : e = <<k, b>>
    BY <2>1
  <2>3. b \in Bits(Byte) /\ b \notin zero[k]
    BY <1>3, <1>8
  <2>4. PICK x \in Bits(a.bits) : Spot(a, x) = <<k, b>>
    BY <1>6, <2>2, <2>3, Zenon
  <2>5. Spot(a, x)[2] \in out[Spot(a, x)[1]]
    BY <2>4
  <2>6. x \in v
    BY <1>6, <2>5, Zenon
  <2> QED BY <2>2, <2>4, <2>6
<1>10. ASSUME NEW x \in Bits(a.bits) \cap v PROVE Spot(a, x) \in Written(l, i, j, v)
  <2>1. Spot(a, x) \in OnWire(m)
    BY <1>5, SpotIs
  <2>2. PICK w \in 0 .. m - 1 : \E b \in Bits(Byte) : Spot(a, x) = <<w, b>>
    BY <2>1 DEF OnWire
  <2>3. PICK b \in Bits(Byte) : Spot(a, x) = <<w, b>>
    BY <2>2
  <2>4. Spot(a, x)[2] \in out[Spot(a, x)[1]]
    BY <1>6, Zenon
  <2>5. b \in out[w]
    BY <2>3, <2>4
  <2>6. <<w, b>> \in {<<w, c>> : c \in out[w]} /\ w \in DOMAIN out
    BY <1>8, <2>5
  <2> QED BY <1>7, <2>3, <2>6
<1> QED BY <1>9, <1>10

(* Whole bytes: an access that takes its bytes whole is on each of them.   *)
Block(from, to) == (from .. to - 1) \X Bits(Byte)

CoversBlock(m, a, bits, q, e) ==
    /\ Within(a, m) /\ a.bits = bits /\ bits \in Nat
    /\ {Spot(a, x) : x \in Bits(bits)} = Block(q, q + e)

LEMMA WholeBytes ==
    ASSUME NEW m \in Nat, NEW endian, NEW q \in Nat, NEW e \in Nat \ {0}, q + e <= m,
           NEW bits, bits = Byte * e, NEW a, a = At(endian, q, e, e, 0, bits)
    PROVE  CoversBlock(m, a, bits, q, e)
<1>1. bits \in Nat
  BY ByteAssumption
<1>2. a = [endian |-> endian, offset |-> q, len |-> e, reg |-> e, shift |-> 0, bits |-> bits, tail |-> <<>>]
  BY DEF At
<1>3. /\ a.endian = endian /\ a.offset = q /\ a.len = e /\ a.reg = e /\ a.shift = 0 /\ a.bits = bits
      /\ a.tail = <<>>
  BY <1>2
<1>4. Within(a, m)
  BY <1>1, <1>2, <1>3 DEF Within
<1>5. ASSUME NEW x \in Bits(bits) PROVE Spot(a, x) \in Block(q, q + e)
  <2>1. x \in Nat /\ x < Byte * e /\ x + 0 = x
    BY <1>1 DEF Bits
  <2>2. x \div Byte \in Nat /\ x % Byte \in Bits(Byte) /\ x = Byte * (x \div Byte) + (x % Byte)
    BY <2>1, Coordinates
  <2>3. PICK s \in Nat, b \in Bits(Byte) : s = x \div Byte /\ b = x % Byte /\ x = Byte * s + b
    BY <2>2
  <2>4. s < e
    BY <2>1, <2>3, ByteOrder
  <2>5. s \in 0 .. e - 1
    BY <2>4
  <2>6. Significance(endian, e, s) \in 0 .. e - 1
    BY <2>5, SignificanceIs
  <2>7. Spot(a, x) = <<q + Significance(endian, e, s), b>>
    BY <1>3, <2>1, <2>3 DEF Spot
  <2> QED BY <2>6, <2>7 DEF Block
<1>6. ASSUME NEW w \in q .. q + e - 1, NEW b \in Bits(Byte)
      PROVE  \E x \in Bits(bits) : Spot(a, x) = <<w, b>>
  <2>1. PICK t \in 0 .. e - 1 : t = w - q /\ w = q + t
    OBVIOUS
  <2>2. PICK s \in 0 .. e - 1 : s = Significance(endian, e, t) /\ Significance(endian, e, s) = t
    BY SignificanceIs
  <2>3. PICK x \in Nat : x = Byte * s + b /\ x \div Byte = s /\ x % Byte = b
    BY Unique
  <2>4. Byte * s + b < Byte * e
    BY ByteOrder
  <2>5. x \in Bits(bits) /\ x + 0 = x /\ x < Byte * e
    BY <1>1, <2>3, <2>4 DEF Bits
  <2>6. Spot(a, x) = <<q + t, b>>
    BY <1>3, <2>2, <2>3, <2>5 DEF Spot
  <2> QED BY <2>1, <2>5, <2>6
<1>7. {Spot(a, x) : x \in Bits(bits)} = Block(q, q + e)
  <2>1. ASSUME NEW p \in Block(q, q + e) PROVE \E x \in Bits(bits) : p = Spot(a, x)
    <3>1. PICK w \in q .. q + e - 1 : \E b \in Bits(Byte) : p = <<w, b>>
      BY DEF Block
    <3>2. PICK b \in Bits(Byte) : p = <<w, b>>
      BY <3>1
    <3> QED BY <1>6, <3>2
  <2> QED BY <1>5, <2>1
<1> QED BY <1>1, <1>3, <1>4, <1>7 DEF CoversBlock

(* Numbers cut into pieces of one width.                                   *)
LEMMA Pieces ==
    ASSUME NEW b \in Nat \ {0}, NEW k \in Nat
    PROVE  \E q \in Nat, r \in 0 .. b - 1 : k = b * q + r /\ q = k \div b /\ r = k % b
<1>1. k \div b \in Nat /\ k % b \in 0 .. b - 1
  OBVIOUS
<1>2. PICK q \in Nat : q = k \div b
  BY <1>1
<1>3. PICK r \in 0 .. b - 1 : r = k % b
  BY <1>1
<1>4. k - b * q = r
  BY <1>2, <1>3, SMTT(30)
<1>5. k = b * q + r
  <2>1. b * q \in Nat
    BY <1>2
  <2> QED BY <1>4, <2>1
<1> QED BY <1>2, <1>3, <1>5

LEMMA PieceIs ==
    ASSUME NEW b \in Nat \ {0}, NEW q \in Nat, NEW r \in 0 .. b - 1
    PROVE  b * q + r \in Nat /\ (b * q + r) \div b = q /\ (b * q + r) % b = r
<1>1. b * q \in Nat
  OBVIOUS
<1>2. PICK k \in Nat : k = b * q + r
  BY <1>1
<1>3. k \div b = q /\ k % b = r
  <2>1. PICK p \in Nat, s \in 0 .. b - 1 : k = b * p + s /\ p = k \div b /\ s = k % b
    BY Pieces
  <2>2. b * p + s = b * q + r
    BY <1>2, <2>1
  <2>3. ~(p < q)
    <3>1. SUFFICES ASSUME p + 1 <= q PROVE FALSE
      BY <2>1
    <3>2. b * (p + 1) <= b * q
      BY <2>1, <3>1, SMTT(30)
    <3>3. b * (p + 1) = b * p + b
      BY <2>1, SMTT(30)
    <3>4. b * p \in Nat
      BY <2>1
    <3> QED BY <1>1, <2>1, <2>2, <3>2, <3>3, <3>4
  <2>4. ~(q < p)
    <3>1. SUFFICES ASSUME q + 1 <= p PROVE FALSE
      BY <2>1
    <3>2. b * (q + 1) <= b * p
      BY <2>1, <3>1, SMTT(30)
    <3>3. b * (q + 1) = b * q + b
      BY SMTT(30)
    <3>4. b * p \in Nat
      BY <2>1
    <3> QED BY <1>1, <2>1, <2>2, <3>2, <3>3, <3>4
  <2>5. p = q
    BY <2>1, <2>3, <2>4
  <2>6. s = r
    <3>1. b * q + s = b * q + r
      BY <2>2, <2>5, Zenon
    <3> QED BY <1>1, <2>1, <3>1
  <2> QED BY <2>1, <2>5, <2>6
<1> QED BY <1>2, <1>3

(* c pieces in a row.                                                      *)
LEMMA PiecesCover ==
    ASSUME NEW b \in Nat \ {0}, NEW c \in Nat, NEW at \in Nat, NEW n \in Int
    PROVE  /\ b * c \in Nat /\ (b * c) \div b = c
           /\ n \in at .. at + b * c - 1 <=> \E k \in 0 .. c - 1 : n \in at + k * b .. at + k * b + b - 1
<1>1. b * c \in Nat
  OBVIOUS
<1>2. (b * c) \div b = c
  <2>1. 0 \in 0 .. b - 1 /\ b * c + 0 = b * c
    BY <1>1
  <2>2. (b * c + 0) \div b = c
    BY <2>1, PieceIs
  <2> QED BY <2>1, <2>2
<1>3. ASSUME n \in at .. at + b * c - 1
      PROVE  \E k \in 0 .. c - 1 : n \in at + k * b .. at + k * b + b - 1
  <2>1. PICK m \in Nat : m = n - at /\ n = at + m /\ m < b * c
    BY <1>1, <1>3
  <2>2. PICK q \in Nat, r \in 0 .. b - 1 : m = b * q + r
    BY Pieces
  <2>3. b * q \in Nat /\ b * q = q * b
    BY <2>2, SMTT(30)
  <2>4. q < c
    <3>1. SUFFICES ASSUME c <= q PROVE FALSE
      BY <2>2
    <3>2. b * c <= b * q
      BY <2>2, <3>1, SMTT(30)
    <3> QED BY <1>1, <2>1, <2>2, <2>3, <3>2
  <2>5. q * b \in Nat /\ n \in at + q * b .. at + q * b + b - 1
    BY <2>1, <2>2, <2>3
  <2> QED BY <2>2, <2>4, <2>5
<1>4. ASSUME NEW k \in 0 .. c - 1, n \in at + k * b .. at + k * b + b - 1
      PROVE  n \in at .. at + b * c - 1
  <2>1. k * b \in Nat /\ k * b = b * k
    BY SMTT(30)
  <2>2. b * (k + 1) <= b * c
    BY SMTT(30)
  <2>3. b * (k + 1) = b * k + b
    BY SMTT(30)
  <2> QED BY <1>1, <1>4, <2>1, <2>2, <2>3
<1> QED BY <1>1, <1>2, <1>3, <1>4

(* The bytes of the wire that hold those of the container.                 *)
LEMMA WireBitIs ==
    ASSUME NEW l, NEW s \in Nat, NEW b \in Bits(Byte)
    PROVE  WireBit(l, Byte * s + b) = <<WireByte(l, s), b>>
<1>1. (Byte * s + b) \div Byte = s /\ (Byte * s + b) % Byte = b
  BY Unique
<1> QED BY <1>1 DEF WireBit

LEMMA WireByteIs ==
    ASSUME NEW l, l.mode \in {"bits", "bytes", "words"}, l.endian \in {"le", "be"}, l.size \in Nat,
           l.mode = "words" => l.size % 2 = 0, NEW s \in 0 .. l.size - 1
    PROVE  /\ WireByte(l, s) \in 0 .. l.size - 1 /\ WireByte(l, WireByte(l, s)) = s
           /\ l.endian = "le" \/ l.mode = "bytes" => WireByte(l, s) = s
           /\ l.endian = "be" /\ l.mode = "words" =>
                WireByte(l, s) = IF s % 2 = 0 THEN s + 1 ELSE s - 1
<1>1. CASE l.endian = "le" \/ l.mode = "bytes"
  BY <1>1 DEF WireByte
<1>2. CASE l.endian = "be" /\ l.mode = "bits"
  BY <1>2 DEF WireByte
<1>3. CASE l.endian = "be" /\ l.mode = "words"
  <2>1. \A k \in Nat : WireByte(l, k) = IF k % 2 = 0 THEN k + 1 ELSE k - 1
    BY <1>3 DEF WireByte
  <2>2. s % 2 = 0 => s + 1 <= l.size - 1 /\ (s + 1) % 2 # 0
    BY <1>3
  <2>3. s % 2 # 0 => s - 1 \in Nat /\ (s - 1) % 2 = 0
    OBVIOUS
  <2> QED BY <1>3, <2>1, <2>2, <2>3
<1> QED BY <1>1, <1>2, <1>3

(* Whole bytes of the container are whole bytes of the wire, where the     *)
(* byte order leaves bytes alone or swaps them within whole words.         *)
Unmoved(l, q, e) == {WireBit(l, n) : n \in Byte * q .. Byte * (q + e) - 1} = Block(q, q + e)

LEMMA WireBlock ==
    ASSUME NEW l, l.mode \in {"bits", "bytes", "words"}, l.endian \in {"le", "be"}, l.size \in Nat,
           l.mode = "words" => l.size % 2 = 0,
           NEW q \in Nat, NEW e \in Nat, q + e <= l.size,
           l.mode # "bits", l.mode = "words" /\ l.endian = "be" => q % 2 = 0 /\ e % 2 = 0
    PROVE  Unmoved(l, q, e)
<1>1. ASSUME NEW s \in q .. q + e - 1
      PROVE  WireByte(l, s) \in q .. q + e - 1 /\ WireByte(l, WireByte(l, s)) = s
  <2>1. s \in 0 .. l.size - 1
    OBVIOUS
  <2>2. WireByte(l, WireByte(l, s)) = s
    BY <2>1, WireByteIs
  <2>3. CASE l.endian = "le" \/ l.mode = "bytes"
    BY <2>1, <2>2, <2>3, WireByteIs
  <2>4. CASE l.endian = "be" /\ l.mode = "words"
    <3>1. WireByte(l, s) = IF s % 2 = 0 THEN s + 1 ELSE s - 1
      BY <2>1, <2>4, WireByteIs
    <3>2. q % 2 = 0 /\ e % 2 = 0
      BY <2>4
    <3>3. s % 2 = 0 => s + 1 <= q + e - 1
      BY <3>2
    <3>4. s % 2 # 0 => s - 1 >= q
      BY <3>2
    <3> QED BY <2>2, <3>1, <3>3, <3>4
  <2> QED BY <2>3, <2>4
<1>2. Byte * q \in Nat /\ Byte * (q + e) \in Nat /\ Byte \in Nat
  BY ByteAssumption
<1>3. ASSUME NEW n \in Byte * q .. Byte * (q + e) - 1 PROVE WireBit(l, n) \in Block(q, q + e)
  <2>1. n \in Nat
    BY <1>2
  <2>2. PICK s \in Nat, b \in Bits(Byte) : n = Byte * s + b
    BY <2>1, Coordinates
  <2>3. s < q + e
    <3>1. Byte * s + b < Byte * (q + e)
      BY <1>2, <2>2
    <3> QED BY <3>1, ByteOrder
  <2>4. ~(s < q)
    <3>1. ~(Byte * s + b < Byte * q)
      BY <1>2, <2>2
    <3> QED BY <3>1, ByteOrder
  <2>5. s \in q .. q + e - 1
    BY <2>3, <2>4
  <2>6. WireBit(l, n) = <<WireByte(l, s), b>>
    BY <2>2, WireBitIs
  <2> QED BY <1>1, <2>5, <2>6 DEF Block
<1>4. ASSUME NEW w \in q .. q + e - 1, NEW b \in Bits(Byte)
      PROVE  \E n \in Byte * q .. Byte * (q + e) - 1 : WireBit(l, n) = <<w, b>>
  <2>1. PICK s \in q .. q + e - 1 : s = WireByte(l, w) /\ WireByte(l, s) = w
    BY <1>1
  <2>2. PICK n \in Nat : n = Byte * s + b
    BY Unique
  <2>3. Byte * s + b < Byte * (q + e)
    BY ByteOrder
  <2>4. ~(Byte * s + b < Byte * q)
    BY ByteOrder
  <2>5. n \in Byte * q .. Byte * (q + e) - 1
    BY <1>2, <2>2, <2>3, <2>4
  <2>6. WireBit(l, n) = <<w, b>>
    BY <2>1, <2>2, WireBitIs
  <2> QED BY <2>5, <2>6
<1> QED
  <2>1. ASSUME NEW p \in Block(q, q + e)
        PROVE  \E n \in Byte * q .. Byte * (q + e) - 1 : p = WireBit(l, n)
    <3>1. PICK w \in q .. q + e - 1 : \E b \in Bits(Byte) : p = <<w, b>>
      BY DEF Block
    <3>2. PICK b \in Bits(Byte) : p = <<w, b>>
      BY <3>1
    <3> QED BY <1>4, <3>2
  <2> QED BY <1>3, <2>1 DEF Unmoved

(* In bytes mode a field is declared at a whole byte.                      *)
LEMMA DeclaredWhole ==
    ASSUME NEW l, Declarable(l), l.mode = "bytes", NEW i \in 1 .. Len(l.fields) + 1
    PROVE  \E q \in Nat : Declared(l, i) = Byte * q
<1> DEFINE V == {Byte * q : q \in Nat}
           f == [k \in 0 .. Len(l.fields) |-> Declared(l, k + 1)]
<1>1. Len(l.fields) \in Nat /\ DOMAIN l.fields = 1 .. Len(l.fields)
  BY DeclaredTypes
<1>2. Declared(l, 1) = 0
  <2>1. l.prefix = 0
    BY DEF Declarable
  <2> QED BY <2>1, DeclaredIs
<1>3. f[0] \in V
  <2>1. Byte * 0 = 0
    BY ByteAssumption
  <2>2. f[0] = 0
    BY <1>1, <1>2
  <2>3. 0 \in V
    BY <2>1
  <2> QED BY <2>2, <2>3
<1>4. ASSUME NEW k \in 1 .. Len(l.fields), f[k - 1] \in V PROVE f[k] \in V
  <2>1. PICK q \in Nat : f[k - 1] = Byte * q
    BY <1>4
  <2>2. f[k - 1] = Declared(l, k)
    BY <1>1
  <2>3. f[k] = Declared(l, k) + Width(l.fields[k])
    BY <1>1, DeclaredIs
  <2>4. PICK e \in Nat : Width(l.fields[k]) = Byte * e
    <3>1. PICK bits \in Nat : bits = l.fields[k].bits
      BY <1>1, DeclaredTypes
    <3>2. bits % Byte = 0
      BY <1>1, <3>1 DEF Declarable
    <3>3. PICK s \in Nat : bits = Byte * s
      <4>1. bits = Byte * (bits \div Byte) + 0 /\ bits \div Byte \in Nat
        BY <3>2, Coordinates
      <4>2. Byte * (bits \div Byte) \in Nat
        BY <4>1, ByteAssumption
      <4> QED BY <4>1, <4>2
    <3>4. PICK c \in Nat : c = Count(l.fields[k])
      BY <1>1, DeclaredTypes
    <3>5. (Byte * s) * c = Byte * (s * c) /\ s * c \in Nat
      BY ByteAssumption, SMTT(30)
    <3> QED BY <3>1, <3>3, <3>4, <3>5 DEF Width
  <2>5. f[k] = Byte * (q + e) /\ q + e \in Nat
    <3>1. f[k] = Byte * q + Byte * e
      BY <2>1, <2>2, <2>3, <2>4, Zenon
    <3>2. Byte * (q + e) = Byte * q + Byte * e
      BY Distributes
    <3> QED BY <3>1, <3>2
  <2> QED BY <2>5
<1>5. \A k \in 0 .. Len(l.fields) : f[k] \in V
  <2> HIDE DEF f, V
  <2> QED BY <1>1, <1>3, <1>4, FoldStays
<1>6. i - 1 \in 0 .. Len(l.fields) /\ (i - 1) + 1 = i
  BY <1>1
<1>7. f[i - 1] = Declared(l, i)
  BY <1>6
<1> QED BY <1>5, <1>6, <1>7

(* A big-endian word is two bytes the other way round.  An array of bytes  *)
(* is not written through the words it is in, so it has to fill them.      *)
FillsWords(l) ==
    l.mode = "words" /\ l.endian = "be" =>
        \A i \in DOMAIN l.fields :
            l.fields[i].len > 0 /\ l.fields[i].bits = Byte =>
                Declared(l, i) % WordBits = 0 /\ Width(l.fields[i]) % WordBits = 0

LEMMA WholeWord ==
    ASSUME NEW k \in Nat, k % WordBits = 0
    PROVE  \E w \in Nat : k = Byte * (2 * w)
<1>1. PICK w \in Nat : k = WordBits * w + (k % WordBits) /\ WordBits * w \in Nat
  BY InRegion
<1>2. k = WordBits * w
  BY <1>1
<1>3. WordBits * w = Byte * (2 * w)
  <2>1. \A b, x \in Nat : (2 * b) * x = b * (2 * x)
    BY SMTT(30)
  <2> QED BY <2>1, ByteAssumption DEF WordBits
<1> QED BY <1>2, <1>3

LEMMA WholeByte ==
    ASSUME NEW k \in Nat, k % Byte = 0
    PROVE  k \div Byte \in Nat /\ k = Byte * (k \div Byte)
<1>1. k \div Byte \in Nat /\ k = Byte * (k \div Byte) + (k % Byte)
  BY Coordinates
<1>2. Byte * (k \div Byte) \in Nat
  BY <1>1, ByteAssumption
<1> QED BY <1>1, <1>2

LEMMA Multiple ==
    ASSUME NEW q \in Nat
    PROVE  (Byte * q) \div Byte = q /\ (Byte * q) % Byte = 0 /\ Byte * q \in Nat
<1>1. 0 \in Bits(Byte) /\ Byte * q \in Nat
  BY ByteAssumption DEF Bits
<1>2. Byte * q + 0 = Byte * q
  BY <1>1
<1>3. (Byte * q + 0) \div Byte = q /\ (Byte * q + 0) % Byte = 0
  BY <1>1, Unique
<1> QED BY <1>1, <1>2, <1>3

(* Where an element that is not packed is declared in a word.              *)
LEMMA AlignedIs ==
    ASSUME NEW d, Declarable(d), Solves(d), d.mode = "words", NEW i \in DOMAIN d.fields,
           d.fields[i].reading \notin {"uint", "int"}, NEW bits, bits = d.fields[i].bits,
           NEW at \in Nat, at = Declared(d, i)
    PROVE  /\ ~Packed(d.fields[i])
           /\ \/ bits = Byte /\ at % Byte = 0 /\ d.fields[i].len > 0
              \/ bits = WordBits /\ at % WordBits = 0
              \/ bits % WordBits = 0 /\ at % WordBits = 0 /\ d.fields[i].len = 0
<1>1. WordsField(d.fields[i])
  BY DEF Declarable
<1>2. bits \in Nat \ {0} /\ d.fields[i].len \in Nat
  BY DeclaredTypes
<1>3. \/ d.fields[i].reading = "nested" /\ d.fields[i].len = 0 /\ bits % WordBits = 0
      \/ d.fields[i].reading = "native" /\ d.fields[i].len > 0 /\ bits \in {Byte, WordBits}
  BY <1>1 DEF WordsField
<1>4. ~Packed(d.fields[i])
  BY <1>2, <1>3 DEF Packed
<1>5. at % (IF bits < WordBits THEN bits ELSE WordBits) = 0
  BY <1>4 DEF Solves, InWord
<1>6. WordBits \in Nat /\ WordBits = Byte + Byte /\ WordBits > 0
  BY ByteAssumption DEF WordBits
<1>7. CASE bits = Byte /\ d.fields[i].len > 0
  <2>1. bits < WordBits
    BY <1>6, <1>7, ByteAssumption
  <2> QED BY <1>4, <1>5, <1>7, <2>1
<1>8. CASE bits = WordBits
  <2>1. ~(bits < WordBits)
    BY <1>6, <1>8
  <2> QED BY <1>4, <1>5, <1>8, <2>1
<1>9. CASE bits % WordBits = 0 /\ d.fields[i].len = 0
  <2>1. ~(bits < WordBits)
    <3>1. \A b, w \in Nat : 0 < b /\ b < w => b % w = b
      OBVIOUS
    <3> QED BY <1>2, <1>6, <1>9, <3>1
  <2> QED BY <1>4, <1>5, <1>9, <2>1
<1> QED BY <1>3, <1>7, <1>8, <1>9

(* Even lengths in bytes.                                                  *)
LEMMA EvenIs ==
    ASSUME NEW q \in Nat, (Byte * q) % WordBits = 0
    PROVE  q % 2 = 0
<1>1. Byte * q \in Nat
  BY Multiple
<1>2. PICK w \in Nat : Byte * q = Byte * (2 * w)
  BY <1>1, WholeWord
<1>3. q = 2 * w
  <2>1. 0 \in Bits(Byte) /\ Byte * q + 0 = Byte * (2 * w) + 0 /\ q \in Int /\ 2 * w \in Int
    BY <1>1, <1>2, ByteAssumption DEF Bits
  <2> QED BY <2>1, ByteOrder
<1> QED BY <1>3

(* A field of whole bytes: each element has its own, one after another.    *)
Elements(d, l, f, q, e) ==
    /\ f.at = Byte * q /\ f.bits = Byte * e /\ q + e * Count(f) <= l.size
    /\ d.mode = "words" /\ d.endian = "be" /\ FillsWords(d) => q % 2 = 0 /\ (e * Count(f)) % 2 = 0
    /\ \A j \in 1 .. Count(f) : \E endian :
         /\ (j - 1) * e \in Nat /\ q + (j - 1) * e + e <= l.size
         /\ InPlace(l, f, ElementAt(f, j)) = At(endian, q + (j - 1) * e, e, e, 0, Byte * e)

LEMMA WholeField ==
    ASSUME NEW d, Declarable(d), Solves(d), NEW l, l = Solved(d), NEW i \in DOMAIN l.fields,
           NEW f, f = l.fields[i],
           d.mode = "bytes" \/ (d.mode = "words" /\ f.reading \notin {"uint", "int"})
    PROVE  \E q \in Nat, e \in Nat \ {0} : Elements(d, l, f, q, e)
<1>1. /\ i \in DOMAIN d.fields /\ i \in 1 .. Len(d.fields) /\ f.reading = d.fields[i].reading
      /\ f.bits = d.fields[i].bits /\ f.len = d.fields[i].len
      /\ f.at = Physical(d, f.bits, Packed(f), Declared(d, i))
      /\ Width(f) = Width(d.fields[i]) /\ Packed(f) = Packed(d.fields[i])
  BY SolvedField
<1>2. PICK bits \in Nat \ {0} : bits = f.bits
  BY SolvedField
<1>3. PICK c \in Nat \ {0} : c = Count(f) /\ Width(f) = bits * c
  BY <1>2, SolvedField
<1>4. PICK at \in Nat : at = Declared(d, i)
  BY <1>1, DeclaredIs, DeclaredTypes
<1>5. l.mode = d.mode /\ l.size = d.size /\ l.endian = d.endian /\ l.size \in Nat
  BY SolvedIs, DeclaredTypes
<1>6. Total(d) = Byte * l.size /\ Total(d) \in Nat
  BY <1>5, Distributes, ByteAssumption DEF Total
<1>7. at + bits * c <= Total(d)
  <2>1. Declared(d, i) + Width(d.fields[i]) <= Total(d)
    BY <1>1 DEF Solves
  <2> QED BY <1>1, <1>3, <1>4, <2>1
<1>8. f.reading \in {"uint", "int", "native", "nested"}
  <2>1. d.fields[i] \in FieldDecl
    BY <1>1, DeclaredTypes
  <2> QED BY <1>1, <2>1 DEF FieldDecl
<1>9. at % Byte = 0 /\ bits % Byte = 0 /\ (d.mode = "words" => ~Packed(f))
  <2>1. CASE d.mode = "bytes"
    <3>1. PICK q \in Nat : at = Byte * q
      BY <1>1, <1>4, <2>1, DeclaredWhole, DeclaredTypes
    <3>2. at % Byte = 0
      BY <3>1, Multiple
    <3>3. bits % Byte = 0
      BY <1>1, <1>2, <2>1 DEF Declarable
    <3> QED BY <2>1, <3>2, <3>3
  <2>2. CASE d.mode = "words"
    <3>1. /\ ~Packed(d.fields[i])
          /\ \/ bits = Byte /\ at % Byte = 0
             \/ bits = WordBits /\ at % WordBits = 0
             \/ bits % WordBits = 0 /\ at % WordBits = 0
      BY <1>1, <1>2, <1>4, <2>2, AlignedIs
    <3>2. Byte % Byte = 0 /\ WordBits % WordBits = 0
      BY ByteAssumption DEF WordBits
    <3>3. \A k \in Nat : k % WordBits = 0 => k % Byte = 0
      <4>1. ASSUME NEW k \in Nat, k % WordBits = 0 PROVE k % Byte = 0
        <5>1. PICK w \in Nat : k = Byte * (2 * w)
          BY <4>1, WholeWord
        <5>2. 2 * w \in Nat
          BY <5>1
        <5> QED BY <5>1, <5>2, Multiple
      <4> QED BY <4>1
    <3>4. at % Byte = 0
      BY <3>1, <3>3
    <3>5. bits % Byte = 0
      BY <3>1, <3>2, <3>3
    <3> QED BY <1>1, <3>1, <3>4, <3>5
  <2> QED BY <2>1, <2>2
<1>10. f.at = at
  <2>1. at + bits <= Total(d)
    <3>1. bits <= bits * c /\ bits * c \in Nat
      BY SMTT(30)
    <3> QED BY <1>6, <1>7, <3>1
  <2>2. Packed(f) \in BOOLEAN
    BY DEF Packed
  <2>3. f.at = Physical(d, bits, Packed(f), at)
    BY <1>1, <1>2, <1>4, Zenon
  <2>4. d.mode = "bytes" \/ ~Packed(f)
    BY <1>9
  <2>5. d.mode = "words" /\ Packed(f) => FALSE
    BY <1>9
  <2> QED BY <2>1, <2>2, <2>3, <2>4, <2>5, PhysicalIs DEF Placed
<1>11. PICK q \in Nat : at = Byte * q
  BY <1>9, WholeByte
<1>12. PICK e \in Nat : bits = Byte * e
  BY <1>9, WholeByte
<1>13. e # 0
  BY <1>12, ByteAssumption
<1>14. bits * c = Byte * (e * c) /\ e * c \in Nat
  <2>1. \A b, x, y \in Nat : (b * x) * y = b * (x * y) /\ x * y \in Nat
    BY SMTT(30)
  <2> QED BY <1>12, <2>1, ByteAssumption
<1>15. q + e * c <= l.size
  <2>1. Byte * (q + e * c) = at + bits * c
    BY <1>11, <1>14, Distributes
  <2>2. ~(Byte * l.size < Byte * (q + e * c))
    <3>1. Byte * (q + e * c) \in Nat
      BY <1>14, ByteAssumption
    <3> QED BY <1>6, <1>7, <2>1, <3>1
  <2>3. 0 \in Bits(Byte) /\ l.size \in Int /\ q + e * c \in Int
    BY <1>5, <1>14, ByteAssumption DEF Bits
  <2>4. Byte * l.size + 0 < Byte * (q + e * c) <=> l.size < q + e * c
    BY <2>3, ByteOrder
  <2>5. Byte * l.size + 0 = Byte * l.size
    BY <1>6
  <2> QED BY <1>5, <1>14, <2>2, <2>4, <2>5
<1>16. ASSUME d.mode = "words", d.endian = "be", FillsWords(d)
       PROVE  q % 2 = 0 /\ (e * c) % 2 = 0
  <2>1. \/ bits = Byte /\ d.fields[i].len > 0
        \/ bits = WordBits /\ at % WordBits = 0
        \/ bits % WordBits = 0 /\ at % WordBits = 0 /\ d.fields[i].len = 0
    BY <1>1, <1>2, <1>4, <1>16, AlignedIs
  <2>2. CASE bits = Byte /\ d.fields[i].len > 0
    <3>1. at % WordBits = 0 /\ (bits * c) % WordBits = 0
      BY <1>1, <1>2, <1>3, <1>4, <1>16, <2>2, Zenon DEF FillsWords
    <3> QED BY <1>11, <1>14, <3>1, EvenIs
  <2>3. CASE bits = WordBits /\ at % WordBits = 0
    <3>1. e = 2
      <4>1. 0 \in Bits(Byte) /\ Byte * e + 0 = Byte * 2 + 0
        BY <1>12, <2>3, ByteAssumption DEF WordBits, Bits
      <4> QED BY <4>1, ByteOrder
    <3>2. (e * c) % 2 = 0
      BY <3>1
    <3> QED BY <1>11, <2>3, <3>2, EvenIs
  <2>4. CASE bits % WordBits = 0 /\ at % WordBits = 0 /\ d.fields[i].len = 0
    <3>1. c = 1
      BY <1>1, <1>3, <2>4 DEF Count
    <3>2. e * c = e
      BY <3>1
    <3> QED BY <1>11, <1>12, <2>4, <3>2, EvenIs
  <2> QED BY <2>1, <2>2, <2>3, <2>4
<1>17. ASSUME NEW j \in 1 .. c
       PROVE  \E endian :
                /\ (j - 1) * e \in Nat /\ q + (j - 1) * e + e <= l.size
                /\ InPlace(l, f, ElementAt(f, j)) = At(endian, q + (j - 1) * e, e, e, 0, Byte * e)
  <2>1. (j - 1) * e \in Nat /\ j - 1 \in Nat
    BY SMTT(30)
  <2>2. q + (j - 1) * e + e <= l.size
    <3>1. (j - 1) * e + e = j * e /\ j * e <= c * e /\ c * e = e * c /\ j * e \in Nat
      BY <1>13, SMTT(30)
    <3> QED BY <1>5, <1>14, <1>15, <2>1, <3>1
  <2>3. ElementAt(f, j) = Byte * (q + (j - 1) * e)
    <3>1. \A b, x, y \in Nat : x * (b * y) = b * (x * y)
      BY SMTT(30)
    <3>2. (j - 1) * (Byte * e) = Byte * ((j - 1) * e)
      BY <2>1, <3>1, ByteAssumption
    <3>3. Byte * (q + (j - 1) * e) = Byte * q + Byte * ((j - 1) * e)
      BY <2>1, Distributes
    <3>4. ElementAt(f, j) = Byte * q + (j - 1) * (Byte * e)
      BY <1>2, <1>10, <1>11, <1>12, Zenon DEF ElementAt
    <3> QED BY <3>2, <3>3, <3>4
  <2>4. ElementAt(f, j) \div Byte = q + (j - 1) * e /\ f.bits \div Byte = e
    <3>1. PICK t \in Nat : t = q + (j - 1) * e
      BY <2>1
    <3>2. (Byte * t) \div Byte = t /\ (Byte * e) \div Byte = e
      BY Multiple
    <3> QED BY <1>2, <1>12, <2>3, <3>1, <3>2, Zenon
  <2>5. f.reading = "nested" =>
          InPlace(l, f, ElementAt(f, j)) =
            At("le", ElementAt(f, j) \div Byte, f.bits \div Byte, f.bits \div Byte, 0, f.bits)
    BY DEF InPlace
  <2>6. f.reading # "nested" =>
          InPlace(l, f, ElementAt(f, j)) =
            At(l.endian, ElementAt(f, j) \div Byte, f.bits \div Byte, f.bits \div Byte, 0, f.bits)
    <3>1. f.reading # "nested" => f.reading = "native" \/ l.mode = "bytes"
      BY <1>5, <1>8
    <3> QED BY <3>1 DEF InPlace
  <2>7. f.bits = Byte * e
    BY <1>2, <1>12
  <2> HIDE DEF At
  <2>8. CASE f.reading = "nested"
    BY <2>1, <2>2, <2>4, <2>5, <2>7, <2>8
  <2>9. CASE f.reading # "nested"
    BY <2>1, <2>2, <2>4, <2>6, <2>7, <2>9
  <2> QED BY <2>8, <2>9
<1>18. f.at = Byte * q /\ f.bits = Byte * e
  BY <1>2, <1>10, <1>11, <1>12
<1>19. Elements(d, l, f, q, e)
  BY <1>3, <1>15, <1>16, <1>17, <1>18 DEF Elements
<1> QED BY <1>13, <1>19

(* A bit field of a word, which is loaded whole in its byte order.         *)
InBits(l, f, a) ==
    /\ Count(f) = 1 /\ Packed(f) /\ f.bits \in Nat \ {0} /\ f.at \in Nat
    /\ Within(a, l.size) /\ a.bits = f.bits
    /\ \A x \in Bits(f.bits) : Spot(a, x) = WireBit(l, f.at + x)

LEMMA WordField ==
    ASSUME NEW d, Declarable(d), Solves(d), d.mode = "words", NEW l, l = Solved(d),
           NEW i \in DOMAIN l.fields, NEW f, f = l.fields[i], f.reading \in {"uint", "int"},
           NEW a, a = InPlace(l, f, ElementAt(f, 1))
    PROVE  InBits(l, f, a)
<1>1. /\ i \in DOMAIN d.fields /\ i \in 1 .. Len(d.fields) /\ f.reading = d.fields[i].reading
      /\ f.bits = d.fields[i].bits /\ f.len = d.fields[i].len
      /\ f.at = Physical(d, f.bits, Packed(f), Declared(d, i))
      /\ Width(f) = Width(d.fields[i]) /\ Packed(f) = Packed(d.fields[i])
  BY SolvedField
<1>2. PICK bits \in Nat \ {0} : bits = f.bits
  BY SolvedField
<1>3. d.fields[i].len = 0
  BY <1>1 DEF Declarable, WordsField
<1>4. Count(f) = 1 /\ Packed(f)
  BY <1>1, <1>3 DEF Count, Packed
<1>5. Width(f) = bits
  BY <1>2, <1>4 DEF Width
<1>6. PICK p \in Nat : p = Declared(d, i)
  BY <1>1, DeclaredIs, DeclaredTypes
<1>7. /\ l.mode = "words" /\ l.size = d.size /\ l.endian = d.endian /\ l.size \in Nat
      /\ l.endian \in {"le", "be"} /\ l.size % 2 = 0
  <2>1. d.size % 2 = 0
    BY DEF Declarable
  <2> QED BY <2>1, SolvedIs, DeclaredTypes
<1>8. Total(d) = Byte * l.size /\ Total(d) \in Nat
  BY <1>7, Distributes, ByteAssumption DEF Total
<1>9. p + bits <= Total(d) /\ (p % WordBits) + bits <= WordBits
  <2>1. Declared(d, i) + Width(d.fields[i]) <= Total(d)
    BY <1>1 DEF Solves
  <2>2. (Declared(d, i) % WordBits) + d.fields[i].bits <= WordBits
    BY <1>1, <1>4 DEF Solves, InWord
  <2> QED BY <1>1, <1>2, <1>5, <1>6, <2>1, <2>2, Zenon
<1>10. PICK at \in Nat : at = f.at /\ at + bits <= Total(d) /\ (at % WordBits) + bits <= WordBits
  <2>1. f.at = Physical(d, bits, TRUE, p)
    BY <1>1, <1>2, <1>4, <1>6, Zenon
  <2>2. PICK q : q = Physical(d, bits, TRUE, p)
    OBVIOUS
  <2>3. TRUE \in BOOLEAN /\ (d.mode = "words" /\ TRUE => (p % WordBits) + bits <= WordBits)
    BY <1>9
  <2>4. p + bits <= Total(d)
    BY <1>9
  <2>5. q \in Nat /\ q + bits <= Total(d) /\ (d.mode = "words" /\ TRUE => (q % WordBits) + bits <= WordBits)
    BY <2>2, <2>3, <2>4, PhysicalIs DEF Placed
  <2>6. q = f.at
    BY <2>1, <2>2
  <2> QED BY <2>5, <2>6
<1>11. PICK w \in Nat : at - (at % WordBits) = WordBits * w /\ at = WordBits * w + (at % WordBits)
  BY InRegion
<1>12. PICK r \in Nat : r = at % WordBits /\ r + bits <= WordBits
  BY <1>10, InRegion
<1>13. WordBits * w = Byte * (2 * w) /\ WordBits = Byte * 2 /\ WordBits \in Nat
  <2>1. \A b, x \in Nat : (2 * b) * x = b * (2 * x) /\ 2 * b = b * 2
    BY SMTT(30)
  <2> QED BY <2>1, ByteAssumption DEF WordBits
<1>14. PICK t \in Nat : t = 2 * w
  OBVIOUS
<1>15. at - (at % WordBits) = Byte * t /\ at = Byte * t + r /\ Byte * t \in Nat
  BY <1>11, <1>12, <1>13, <1>14, ByteAssumption
<1>16. t + 2 <= l.size
  <2>1. Byte * t + 0 < Byte * l.size
    BY <1>8, <1>10, <1>15
  <2>2. t < l.size
    <3>1. 0 \in Bits(Byte) /\ t \in Int /\ l.size \in Int
      BY <1>7, ByteAssumption DEF Bits
    <3> QED BY <2>1, <3>1, ByteOrder
  <2> QED BY <1>7, <1>14, <2>2
<1>17. a = At(l.endian, t, 2, 2, r, bits)
  <2>1. ElementAt(f, 1) = at
    <3>1. (1 - 1) * f.bits = 0
      BY <1>2
    <3> QED BY <1>10, <3>1 DEF ElementAt
  <2>2. (at - (at % WordBits)) \div Byte = t
    BY <1>15, Multiple
  <2>3. InPlace(l, f, at) = At(l.endian, (at - (at % WordBits)) \div Byte, 2, 2, at % WordBits, f.bits)
    BY <1>7 DEF InPlace
  <2> QED BY <1>2, <1>12, <2>1, <2>2, <2>3, Zenon
<1>18. a = [endian |-> l.endian, offset |-> t, len |-> 2, reg |-> 2, shift |-> r, bits |-> bits, tail |-> <<>>]
  BY <1>17 DEF At
<1>19. /\ a.endian = l.endian /\ a.offset = t /\ a.len = 2 /\ a.reg = 2 /\ a.shift = r /\ a.bits = bits
       /\ a.tail = <<>>
  BY <1>18
<1>20. Within(a, l.size)
  <2>1. PICK m \in Nat : m = l.size
    BY <1>7
  <2>2. t + 2 <= m
    BY <1>16, <2>1
  <2>3. r + bits <= Byte * 2
    BY <1>12, <1>13
  <2>4. a = [endian |-> a.endian, offset |-> a.offset, len |-> a.len, reg |-> a.reg,
             shift |-> a.shift, bits |-> a.bits, tail |-> a.tail]
    BY <1>18, <1>19, Zenon
  <2>5. a.offset \in Nat /\ a.len \in Nat /\ a.reg \in Nat /\ a.shift \in Nat /\ a.bits \in Nat
    BY <1>19
  <2>6. a.len <= a.reg /\ a.offset + a.len <= m
    BY <1>19, <2>2
  <2>7. a.tail = <<>> /\ a.shift + a.bits <= Byte * a.len
    BY <1>19, <2>3
  <2>8. Within(a, m)
    BY <2>4, <2>5, <2>6, <2>7, Zenon DEF Within
  <2> QED BY <2>1, <2>8
<1>21. ASSUME NEW x \in Bits(bits) PROVE Spot(a, x) = WireBit(l, at + x)
  <2>1. x \in Nat /\ x < bits
    BY DEF Bits
  <2>2. x + r \in Nat /\ x + r < Byte * 2
    BY <1>12, <1>13, <2>1
  <2>3. PICK s \in Nat, b \in Bits(Byte) : s = (x + r) \div Byte /\ b = (x + r) % Byte /\ x + r = Byte * s + b
    BY <2>2, Coordinates
  <2>4. s \in {0, 1}
    <3>1. Byte * s + b < Byte * 2
      BY <2>2, <2>3
    <3>2. s < 2
      BY <3>1, ByteOrder
    <3> QED BY <3>2
  <2>5. Spot(a, x) = <<t + Significance(l.endian, 2, s), b>>
    BY <1>19, <2>2, <2>3 DEF Spot
  <2>6. at + x = Byte * (t + s) + b
    <3>1. Byte * (t + s) = Byte * t + Byte * s
      BY Distributes
    <3>2. Byte * s \in Nat /\ b \in Nat
      BY ByteAssumption DEF Bits
    <3> QED BY <1>15, <2>1, <2>3, <3>1, <3>2
  <2>7. WireBit(l, at + x) = <<WireByte(l, t + s), b>>
    BY <2>6, WireBitIs
  <2>8. WireByte(l, t + s) = t + Significance(l.endian, 2, s)
    <3>1. t + s \in 0 .. l.size - 1
      BY <1>7, <1>16, <2>4
    <3>2. CASE l.endian = "le"
      BY <1>7, <3>1, <3>2, WireByteIs DEF Significance
    <3>3. CASE l.endian = "be"
      <4>1. WireByte(l, t + s) = IF (t + s) % 2 = 0 THEN t + s + 1 ELSE t + s - 1
        BY <1>7, <3>1, <3>3, WireByteIs
      <4>2. (t + s) % 2 = s
        BY <1>14, <2>4
      <4>3. Significance(l.endian, 2, s) = 1 - s
        BY <2>4, <3>3 DEF Significance
      <4> QED BY <2>4, <4>1, <4>2, <4>3
    <3> QED BY <1>7, <3>2, <3>3
  <2> QED BY <2>5, <2>7, <2>8
<1>22. \A x \in Bits(f.bits) : Spot(a, x) = WireBit(l, f.at + x)
  BY <1>2, <1>10, <1>21, Zenon
<1> QED BY <1>2, <1>4, <1>10, <1>19, <1>20, <1>22 DEF InBits

(* The same, packed in the container of bits or in a word of it.           *)
LEMMA PackedField ==
    ASSUME NEW d, Declarable(d), Solves(d), NEW l, l = Solved(d), NEW i \in DOMAIN l.fields,
           NEW f, f = l.fields[i], d.mode = "bits" \/ (d.mode = "words" /\ f.reading \in {"uint", "int"}),
           NEW a, a = InPlace(l, f, ElementAt(f, 1))
    PROVE  InBits(l, f, a)
<1>1. CASE d.mode = "words"
  <2>1. f.reading \in {"uint", "int"}
    BY <1>1
  <2> QED BY <1>1, <2>1, WordField
<1>2. CASE d.mode = "bits"
  <2>1. /\ Count(f) = 1 /\ f.bits \in Nat \ {0} /\ f.at \in Nat /\ f.at + f.bits <= Byte * l.size
        /\ a = Window(l, f.at, f.bits, IsWide(f))
    BY <1>2, BitFields
  <2>2. /\ i \in DOMAIN d.fields /\ f.bits = d.fields[i].bits /\ f.reading = d.fields[i].reading
        /\ f.len = d.fields[i].len /\ f.prim = d.fields[i].prim
    BY SolvedField
  <2>3. BitField(d.fields[i])
    BY <1>2, <2>2 DEF Declarable
  <2>4. Packed(f)
    BY <2>2, <2>3 DEF BitField, Packed
  <2>5. PICK bits \in Nat \ {0} : bits = f.bits
    BY <2>1
  <2>6. PICK at \in Nat : at = f.at
    BY <2>1
  <2>7. bits <= Byte * Wide
    <3>1. Byte * Wide = Wide * Byte /\ Native * Byte \in Nat /\ Native * Byte <= Wide * Byte
      <4>1. \A b, y, z \in Nat : y <= z => y * b <= z * b /\ b * z = z * b /\ y * b \in Nat
        BY SMTT(30)
      <4> QED BY <4>1, ByteAssumption, LayoutAssumption
    <3>2. bits <= Wide * Byte \/ bits <= Native * Byte
      <4>1. bits <= IF d.fields[i].prim > U64 THEN Wide * Byte ELSE U64
        BY <2>2, <2>3, <2>5, Zenon DEF BitField
      <4> QED BY <4>1 DEF U64
    <3>3. Wide * Byte \in Nat
      BY ByteAssumption, LayoutAssumption
    <3> QED BY <3>1, <3>2, <3>3
  <2>8. IsWide(f) \in BOOLEAN
    BY DEF IsWide
  <2>9. l.mode = "bits" /\ l.size \in Nat /\ l.endian \in {"le", "be"}
    BY <1>2, SolvedIs, DeclaredTypes
  <2>10. at + bits <= Byte * l.size
    BY <2>1, <2>5, <2>6
  <2>11. /\ Within(Window(l, at, bits, IsWide(f)), l.size) /\ Window(l, at, bits, IsWide(f)).bits = bits
         /\ \A x \in Bits(bits) : Spot(Window(l, at, bits, IsWide(f)), x) = WordBit(l, at + x)
    BY <2>7, <2>8, <2>9, <2>10, WindowIs
  <2>12. a = Window(l, at, bits, IsWide(f))
    BY <2>1, <2>5, <2>6, Zenon
  <2>13. \A n : WordBit(l, n) = WireBit(l, n)
    BY <2>9 DEF WordBit, WireBit, WireByte
  <2>14. \A x \in Bits(bits) : Spot(a, x) = WireBit(l, at + x)
    BY <2>11, <2>12, <2>13, Zenon
  <2>15. Within(a, l.size) /\ a.bits = bits
    BY <2>11, <2>12
  <2> QED BY <2>1, <2>4, <2>5, <2>6, <2>14, <2>15, Zenon DEF InBits
<1> QED BY <1>1, <1>2

(* What a packed field writes is where its bits are.                       *)
TouchesBits(l, i, f) ==
    /\ Touched(l, i) = {WireBit(l, n) : n \in f.at .. f.at + Width(f) - 1}
    /\ \A x \in Bits(f.bits) : Written(l, i, 1, {x}) = {WireBit(l, f.at + x)}

LEMMA PackedWrites ==
    ASSUME NEW l, l.size \in Nat, NEW i, NEW f, f = l.fields[i], f.bits \in Nat \ {0}, f.at \in Nat,
           Count(f) = 1, NEW a, a = InPlace(l, f, ElementAt(f, 1)), Within(a, l.size), a.bits = f.bits,
           \A x \in Bits(f.bits) : Spot(a, x) = WireBit(l, f.at + x)
    PROVE  TouchesBits(l, i, f)
<1>1. PICK bits \in Nat \ {0} : bits = f.bits
  OBVIOUS
<1>2. PICK at \in Nat : at = f.at
  OBVIOUS
<1>3. Width(f) = bits
  BY <1>1 DEF Width
<1>4. Bits(bits) \subseteq Nat
  BY DEF Bits
<1>5. \A v \in SUBSET Nat : Written(l, i, 1, v) = {Spot(a, x) : x \in Bits(bits) \cap v}
  <2>1. ASSUME NEW v \in SUBSET Nat PROVE Written(l, i, 1, v) = {Spot(a, x) : x \in Bits(a.bits) \cap v}
    BY WrittenIs
  <2>2. a.bits = bits
    BY <1>1
  <2> QED BY <2>1, <2>2
<1>6. \A x \in Bits(bits) : Spot(a, x) = WireBit(l, at + x)
  BY <1>1, <1>2, Zenon
<1>7. Touched(l, i) = {WireBit(l, n) : n \in at .. at + bits - 1}
  <2>1. Touched(l, i) = Written(l, i, 1, Bits(bits))
    <3>1. 1 .. Count(f) = {1}
      OBVIOUS
    <3>2. Touched(l, i) = UNION {Written(l, i, j, Bits(bits)) : j \in {1}}
      BY <1>1, <3>1, Zenon DEF Touched
    <3> QED BY <3>2
  <2>2. Written(l, i, 1, Bits(bits)) = {Spot(a, x) : x \in Bits(bits)}
    BY <1>4, <1>5
  <2>3. \A x \in Bits(bits) : at + x \in at .. at + bits - 1
    BY DEF Bits
  <2>4. \A n \in at .. at + bits - 1 : n - at \in Bits(bits) /\ at + (n - at) = n
    BY DEF Bits
  <2>5. {Spot(a, x) : x \in Bits(bits)} = {WireBit(l, n) : n \in at .. at + bits - 1}
    BY <1>6, <2>3, <2>4
  <2> QED BY <2>1, <2>2, <2>5
<1>8. ASSUME NEW x \in Bits(bits) PROVE Written(l, i, 1, {x}) = {WireBit(l, at + x)}
  <2>1. {x} \in SUBSET Nat /\ Bits(bits) \cap {x} = {x}
    BY <1>4
  <2>2. Written(l, i, 1, {x}) = {Spot(a, y) : y \in {x}}
    BY <1>5, <2>1
  <2> QED BY <1>6, <2>2
<1> QED BY <1>1, <1>2, <1>3, <1>7, <1>8, Zenon DEF TouchesBits

LEMMA ElementWrites ==
    ASSUME NEW l, l.size \in Nat, NEW i, NEW f, f = l.fields[i], NEW j, NEW endian,
           NEW p \in Nat, NEW e \in Nat \ {0}, p + e <= l.size,
           InPlace(l, f, ElementAt(f, j)) = At(endian, p, e, e, 0, Byte * e)
    PROVE  Written(l, i, j, Bits(Byte * e)) = Block(p, p + e)
<1>1. PICK bits : bits = Byte * e
  OBVIOUS
<1>2. PICK a : a = At(endian, p, e, e, 0, bits)
  OBVIOUS
<1>3. PICK m \in Nat : m = l.size
  OBVIOUS
<1>4. p + e <= m
  BY <1>3
<1>5. CoversBlock(m, a, bits, p, e)
  BY <1>1, <1>2, <1>4, WholeBytes
<1>6. /\ Within(a, m) /\ a.bits = bits /\ bits \in Nat
      /\ {Spot(a, x) : x \in Bits(bits)} = Block(p, p + e)
  BY <1>5 DEF CoversBlock
<1>7. a = InPlace(l, f, ElementAt(f, j))
  BY <1>1, <1>2, Zenon
<1>8. Bits(bits) \in SUBSET Nat
  BY <1>6 DEF Bits
<1>9. Within(a, l.size)
  BY <1>3, <1>6, Zenon
<1>10. Written(l, i, j, Bits(bits)) = {Spot(a, x) : x \in Bits(a.bits) \cap Bits(bits)}
  BY <1>7, <1>8, <1>9, WrittenIs
<1>11. Bits(a.bits) \cap Bits(bits) = Bits(bits)
  BY <1>6
<1>12. Written(l, i, j, Bits(bits)) = Block(p, p + e)
  BY <1>6, <1>10, <1>11, Zenon
<1> QED BY <1>1, <1>12, Zenon

(* What a field of whole bytes writes are the bytes it is declared on.     *)
LEMMA WholeTouched ==
    ASSUME NEW d, Declarable(d), Solves(d), FillsWords(d), NEW l, l = Solved(d),
           NEW i \in DOMAIN l.fields, NEW f, f = l.fields[i],
           d.mode = "bytes" \/ (d.mode = "words" /\ f.reading \notin {"uint", "int"})
    PROVE  Touched(l, i) = {WireBit(l, n) : n \in f.at .. f.at + Width(f) - 1}
<1>0. PICK q \in Nat, e \in Nat \ {0} : Elements(d, l, f, q, e)
  BY WholeField
<1>1. /\ f.at = Byte * q /\ f.bits = Byte * e /\ q + e * Count(f) <= l.size
      /\ d.mode = "words" /\ d.endian = "be" /\ FillsWords(d) => q % 2 = 0 /\ (e * Count(f)) % 2 = 0
      /\ \A j \in 1 .. Count(f) : \E endian :
           /\ (j - 1) * e \in Nat /\ q + (j - 1) * e + e <= l.size
           /\ InPlace(l, f, ElementAt(f, j)) = At(endian, q + (j - 1) * e, e, e, 0, Byte * e)
  BY <1>0 DEF Elements
<1>2. /\ l.mode = d.mode /\ l.size = d.size /\ l.endian = d.endian /\ l.size \in Nat
      /\ l.mode \in {"bytes", "words"} /\ l.endian \in {"le", "be"}
      /\ (l.mode = "words" => l.size % 2 = 0)
  <2>1. d.mode = "words" => d.size % 2 = 0
    BY DEF Declarable
  <2> QED BY <2>1, SolvedIs, DeclaredTypes
<1>3. PICK c \in Nat \ {0} : c = Count(f) /\ Width(f) = f.bits * c
  BY SolvedField
<1>4. PICK t \in Nat : t = e * c
  BY <1>1, <1>3
<1>5. q + t <= l.size /\ (l.mode = "words" /\ l.endian = "be" => q % 2 = 0 /\ t % 2 = 0)
  BY <1>1, <1>2, <1>3, <1>4
<1>6. f.at = Byte * q /\ f.at + Width(f) = Byte * (q + t)
  <2>1. \A b, x, y \in Nat : (b * x) * y = b * (x * y)
    BY SMTT(30)
  <2>2. (Byte * e) * c = Byte * (e * c)
    BY <1>1, <1>3, <2>1, ByteAssumption
  <2>3. Width(f) = Byte * t
    BY <1>1, <1>3, <1>4, <2>2, Zenon
  <2>4. Byte * (q + t) = Byte * q + Byte * t
    BY Distributes
  <2> QED BY <1>1, <2>3, <2>4, Zenon
<1>7. Unmoved(l, q, t)
  <2>1. l.mode \in {"bits", "bytes", "words"} /\ l.mode # "bits"
    BY <1>2
  <2> QED BY <1>2, <1>5, <2>1, WireBlock
<1>8. ASSUME NEW j \in 1 .. c
      PROVE  /\ (j - 1) * e \in Nat
             /\ Written(l, i, j, Bits(f.bits)) = Block(q + (j - 1) * e, q + (j - 1) * e + e)
  <2>1. PICK endian :
          /\ (j - 1) * e \in Nat /\ q + (j - 1) * e + e <= l.size
          /\ InPlace(l, f, ElementAt(f, j)) = At(endian, q + (j - 1) * e, e, e, 0, Byte * e)
    BY <1>1, <1>3
  <2>2. PICK p \in Nat : p = q + (j - 1) * e
    BY <2>1
  <2>3. p + e <= l.size /\ InPlace(l, f, ElementAt(f, j)) = At(endian, p, e, e, 0, Byte * e)
    BY <2>1, <2>2
  <2>4. Written(l, i, j, Bits(Byte * e)) = Block(p, p + e)
    BY <1>2, <2>3, ElementWrites
  <2>5. f.bits = Byte * e
    BY <1>1
  <2> QED BY <2>1, <2>2, <2>4, <2>5, Zenon
<1>9. Touched(l, i) = UNION {Written(l, i, j, Bits(f.bits)) : j \in 1 .. c}
  BY <1>3, Zenon DEF Touched
<1>10. ASSUME NEW w \in Int
       PROVE  w \in q .. q + t - 1 <=>
                \E j \in 1 .. c : w \in q + (j - 1) * e .. q + (j - 1) * e + e - 1
  <2>1. w \in q .. q + e * c - 1 <=> \E k \in 0 .. c - 1 : w \in q + k * e .. q + k * e + e - 1
    BY PiecesCover
  <2>2. ASSUME NEW k \in 0 .. c - 1, w \in q + k * e .. q + k * e + e - 1
        PROVE  \E j \in 1 .. c : w \in q + (j - 1) * e .. q + (j - 1) * e + e - 1
    <3>1. k + 1 \in 1 .. c /\ (k + 1) - 1 = k
      OBVIOUS
    <3> QED BY <2>2, <3>1
  <2>3. \A j \in 1 .. c : j - 1 \in 0 .. c - 1
    OBVIOUS
  <2> QED BY <1>4, <2>1, <2>2, <2>3
<1>11. Touched(l, i) = Block(q, q + t)
  <2>1. ASSUME NEW p \in Touched(l, i) PROVE p \in Block(q, q + t)
    <3>1. PICK j \in 1 .. c : p \in Block(q + (j - 1) * e, q + (j - 1) * e + e)
      BY <1>8, <1>9, <2>1
    <3>2. (j - 1) * e \in Nat
      BY <1>8
    <3>3. PICK w \in q + (j - 1) * e .. q + (j - 1) * e + e - 1 : \E b \in Bits(Byte) : p = <<w, b>>
      BY <3>1 DEF Block
    <3>4. PICK b \in Bits(Byte) : p = <<w, b>>
      BY <3>3
    <3>5. w \in Int
      BY <3>2, <3>3
    <3>6. w \in q .. q + t - 1
      BY <1>10, <3>3, <3>5
    <3> QED BY <3>4, <3>6 DEF Block
  <2>2. ASSUME NEW p \in Block(q, q + t) PROVE p \in Touched(l, i)
    <3>1. PICK w \in q .. q + t - 1 : \E b \in Bits(Byte) : p = <<w, b>>
      BY DEF Block
    <3>2. PICK b \in Bits(Byte) : p = <<w, b>>
      BY <3>1
    <3>3. w \in Int
      BY <3>1
    <3>4. PICK j \in 1 .. c : w \in q + (j - 1) * e .. q + (j - 1) * e + e - 1
      BY <1>10, <3>1, <3>3
    <3>5. p \in Block(q + (j - 1) * e, q + (j - 1) * e + e)
      BY <3>2, <3>4 DEF Block
    <3>6. p \in Written(l, i, j, Bits(f.bits))
      BY <1>8, <3>5
    <3> QED BY <1>9, <3>6
  <2> QED BY <2>1, <2>2
<1>12. {WireBit(l, n) : n \in f.at .. f.at + Width(f) - 1}
         = {WireBit(l, n) : n \in Byte * q .. Byte * (q + t) - 1}
  <2>1. PICK from \in Nat : from = f.at /\ from = Byte * q
    BY <1>6, ByteAssumption
  <2>2. PICK to \in Nat : to = f.at + Width(f) /\ to = Byte * (q + t)
    BY <1>6, ByteAssumption
  <2>3. f.at .. f.at + Width(f) - 1 = from .. to - 1
    <3>1. PICK width \in Nat : width = Width(f)
      BY SolvedField
    <3>2. from + width = to
      BY <2>1, <2>2, <3>1, Zenon
    <3>3. from .. from + width - 1 = from .. to - 1
      BY <3>2
    <3> QED BY <2>1, <3>1, <3>3, Zenon
  <2>4. Byte * q .. Byte * (q + t) - 1 = from .. to - 1
    BY <2>1, <2>2
  <2> QED BY <2>3, <2>4
<1> QED BY <1>7, <1>11, <1>12, Zenon DEF Unmoved

(* The rows of a field cut its bits into pieces of one width.              *)
Cut(l, i, f, each, k) ==
    /\ Width(f) = each * k
    /\ RowsOf(l, i) = {[field |-> i, start |-> f.at + j * each, width |-> each] : j \in 0 .. k - 1}

LEMMA RowsSplit ==
    ASSUME NEW d, Declarable(d), Solves(d), NEW l, l = Solved(d), NEW i \in DOMAIN l.fields,
           NEW f, f = l.fields[i]
    PROVE  \E each \in Nat \ {0}, k \in Nat : Cut(l, i, f, each, k)
<1>1. /\ i \in DOMAIN d.fields /\ f.reading = d.fields[i].reading /\ f.bits = d.fields[i].bits
      /\ f.len = d.fields[i].len
  BY SolvedField
<1>2. PICK bits \in Nat \ {0} : bits = f.bits
  BY SolvedField
<1>3. PICK c \in Nat \ {0} : c = Count(f) /\ Width(f) = bits * c
  BY <1>2, SolvedField
<1>5. PICK each : each = IF f.reading = "nested" /\ l.mode = "words" THEN WordBits ELSE f.bits
  OBVIOUS
<1>6. PICK width \in Nat : width = Width(f)
  BY <1>3
<1>7. each \in Nat \ {0} /\ \E k \in Nat : width = each * k
  <2>1. CASE f.reading = "nested" /\ l.mode = "words"
    <3>1. each = WordBits /\ WordBits \in Nat \ {0}
      BY <1>5, <2>1, ByteAssumption DEF WordBits
    <3>2. d.mode = "words"
      BY <2>1, SolvedIs
    <3>3. f.len = 0 /\ bits % WordBits = 0
      BY <1>1, <1>2, <2>1, <3>2 DEF Declarable, WordsField
    <3>4. c = 1
      BY <1>3, <3>3 DEF Count
    <3>5. width = bits
      BY <1>3, <1>6, <3>4
    <3>6. PICK w \in Nat : bits = WordBits * w + (bits % WordBits) /\ WordBits * w \in Nat
      BY InRegion
    <3> QED BY <3>1, <3>3, <3>5, <3>6
  <2>2. CASE ~(f.reading = "nested" /\ l.mode = "words")
    <3>1. each = bits
      BY <1>2, <1>5, <2>2
    <3>2. width = each * c
      BY <1>3, <1>6, <3>1
    <3> QED BY <3>1, <3>2
  <2> QED BY <2>1, <2>2
<1>8. PICK k \in Nat : width = each * k
  BY <1>7
<1>9. width \div each = k
  <2>1. (each * k) \div each = k
    BY <1>7, PiecesCover
  <2> QED BY <1>8, <2>1
<1>10. RowsOf(l, i) = {[field |-> i, start |-> f.at + j * each, width |-> each] : j \in 0 .. k - 1}
  <2>1. RowsOf(l, i) = {[field |-> i, start |-> f.at + j * each, width |-> each] :
                           j \in 0 .. Width(f) \div each - 1}
    BY <1>5, Zenon DEF RowsOf
  <2>2. Width(f) \div each = k
    BY <1>6, <1>9, Zenon
  <2> QED BY <2>1, <2>2, Zenon
<1>11. Cut(l, i, f, each, k)
  BY <1>6, <1>8, <1>10, Zenon DEF Cut
<1> QED BY <1>7, <1>11

(* The rows of a field are its bits.                                       *)
LEMMA RowsCover ==
    ASSUME NEW d, Declarable(d), Solves(d), NEW l, l = Solved(d), NEW i \in DOMAIN l.fields,
           NEW f, f = l.fields[i], f.at \in Nat
    PROVE  UNION {{WireBit(l, n) : n \in r.start .. r.start + r.width - 1} : r \in RowsOf(l, i)}
             = {WireBit(l, n) : n \in f.at .. f.at + Width(f) - 1}
<1>1. PICK each \in Nat \ {0}, k \in Nat : Cut(l, i, f, each, k)
  BY RowsSplit
<1>4. PICK at \in Nat : at = f.at
  OBVIOUS
<1>7. each \in Nat \ {0}
  OBVIOUS
<1>6. PICK width \in Nat : width = Width(f)
  BY SolvedField
<1>8. width = each * k
  BY <1>1, <1>6 DEF Cut
<1> DEFINE Row(j) == [field |-> i, start |-> at + j * each, width |-> each]
<1>10. RowsOf(l, i) = {Row(j) : j \in 0 .. k - 1}
  BY <1>1, <1>4, Zenon DEF Cut
<1>11. \A j : Row(j).start = at + j * each /\ Row(j).width = each
  OBVIOUS
<1> DEFINE B(j) == at + j * each .. at + j * each + each - 1
<1>12. \A j : Row(j).start .. Row(j).start + Row(j).width - 1 = B(j)
  BY <1>11, Zenon
<1>13. ASSUME NEW n PROVE n \in at .. at + width - 1 <=> \E j \in 0 .. k - 1 : n \in B(j)
  <2>1. CASE n \in Int
    <3>1. n \in at .. at + each * k - 1 <=> \E j \in 0 .. k - 1 : n \in B(j)
      BY <1>7, <2>1, PiecesCover
    <3> QED BY <1>8, <3>1, Zenon
  <2>2. \A j \in 0 .. k - 1 : n \in B(j) => n \in Int
    OBVIOUS
  <2>3. n \in at .. at + width - 1 => n \in Int
    OBVIOUS
  <2> HIDE DEF B
  <2> QED BY <2>1, <2>2, <2>3
<1> HIDE DEF Row, B
<1>14. UNION {{WireBit(l, n) : n \in r.start .. r.start + r.width - 1} : r \in RowsOf(l, i)}
         = UNION {{WireBit(l, n) : n \in B(j)} : j \in 0 .. k - 1}
  <2>1. \A r \in RowsOf(l, i) : \E j \in 0 .. k - 1 :
          {WireBit(l, n) : n \in r.start .. r.start + r.width - 1} = {WireBit(l, n) : n \in B(j)}
    BY <1>10, <1>12, Zenon
  <2>2. \A j \in 0 .. k - 1 : \E r \in RowsOf(l, i) :
          {WireBit(l, n) : n \in r.start .. r.start + r.width - 1} = {WireBit(l, n) : n \in B(j)}
    BY <1>10, <1>12, Zenon
  <2> DEFINE Bit(r) == {WireBit(l, n) : n \in r.start .. r.start + r.width - 1}
             Piece(j) == {WireBit(l, n) : n \in B(j)}
  <2>3. /\ \A r \in RowsOf(l, i) : \E j \in 0 .. k - 1 : Bit(r) = Piece(j)
        /\ \A j \in 0 .. k - 1 : \E r \in RowsOf(l, i) : Bit(r) = Piece(j)
    BY <2>1, <2>2
  <2> HIDE DEF Bit, Piece
  <2>4. UNION {Bit(r) : r \in RowsOf(l, i)} = UNION {Piece(j) : j \in 0 .. k - 1}
    BY <2>3
  <2> QED BY <2>4 DEF Bit, Piece
<1>15. UNION {{WireBit(l, n) : n \in B(j)} : j \in 0 .. k - 1} = {WireBit(l, n) : n \in at .. at + width - 1}
  <2>1. ASSUME NEW p
        PROVE  p \in UNION {{WireBit(l, n) : n \in B(j)} : j \in 0 .. k - 1}
                 <=> \E j \in 0 .. k - 1 : \E n \in B(j) : p = WireBit(l, n)
    OBVIOUS
  <2>2. ASSUME NEW p
        PROVE  p \in {WireBit(l, n) : n \in at .. at + width - 1}
                 <=> \E n \in at .. at + width - 1 : p = WireBit(l, n)
    OBVIOUS
  <2>3. ASSUME NEW p
        PROVE  (\E j \in 0 .. k - 1 : \E n \in B(j) : p = WireBit(l, n))
                 <=> \E n \in at .. at + width - 1 : p = WireBit(l, n)
    BY <1>13, Zenon
  <2> QED BY <2>1, <2>2, <2>3, Zenon
<1> QED BY <1>4, <1>6, <1>14, <1>15, Zenon

(* Solving moves no declared position.                                     *)
LEMMA SolvedDeclared ==
    ASSUME NEW d, Declarable(d), NEW l, l = Solved(d), NEW i
    PROVE  Declared(l, i) = Declared(d, i)
<1> DEFINE R(m, f) == [k \in 0 .. Len(m.fields) |->
                         IF k = 0 THEN m.prefix ELSE f[k - 1] + Width(m.fields[k])]
<1>1. l.prefix = d.prefix /\ Len(l.fields) = Len(d.fields) /\ Len(d.fields) \in Nat
      /\ DOMAIN l.fields = 1 .. Len(d.fields)
  BY SolvedIs, DeclaredTypes
<1>2. \A k \in 1 .. Len(d.fields) : Width(l.fields[k]) = Width(d.fields[k])
  BY <1>1, SolvedField
<1>3. \A f : R(l, f) = R(d, f)
  <2>1. ASSUME NEW f, NEW k \in 0 .. Len(d.fields), k # 0
        PROVE  f[k - 1] + Width(l.fields[k]) = f[k - 1] + Width(d.fields[k])
    <3>1. k \in 1 .. Len(d.fields)
      BY <1>1, <2>1
    <3>2. Width(l.fields[k]) = Width(d.fields[k])
      BY <1>2, <3>1
    <3> QED BY <3>2, Zenon
  <2> QED BY <1>1, <2>1
<1>4. Declared(l, i) = (CHOOSE f : f = R(l, f))[i - 1]
  BY Zenon DEF Declared
<1>5. Declared(d, i) = (CHOOSE f : f = R(d, f))[i - 1]
  BY Zenon DEF Declared
<1> HIDE DEF R
<1>6. (CHOOSE f : f = R(l, f)) = (CHOOSE f : f = R(d, f))
  <2>1. \A f : f = R(l, f) <=> f = R(d, f)
    BY <1>3, Zenon
  <2> QED BY <2>1, Zenon
<1> QED BY <1>4, <1>5, <1>6, Zenon

(* order = msb over endian = be mirrors the container twice: the place of  *)
(* a bit is its declared place, counted from the most significant bit of   *)
(* the first byte.                                                         *)
LEMMA MirroredBits ==
    ASSUME NEW l, l.mode = "bits", l.endian = "be", NEW size \in Nat, size = l.size,
           NEW n \in Nat, n < Byte * size, NEW x \in Nat, x = Byte * size - 1 - n
    PROVE  WireBit(l, x) = <<n \div Byte, Byte - 1 - (n % Byte)>>
<1>1. PICK s \in Nat, b \in Bits(Byte) : s = n \div Byte /\ b = n % Byte /\ n = Byte * s + b
  BY Coordinates
<1>2. Byte \in Nat /\ b \in Nat /\ Byte - 1 - b \in Bits(Byte) /\ Byte * s \in Nat /\ Byte * size \in Nat
  BY ByteAssumption DEF Bits
<1>3. s < size
  <2>1. Byte * s + b < Byte * size
    BY <1>1
  <2> QED BY <2>1, ByteOrder
<1>4. PICK u \in Nat : u = size - 1 - s
  BY <1>3
<1>5. x = Byte * u + (Byte - 1 - b)
  <2>1. size = (u + s) + 1
    BY <1>4
  <2>2. Byte * ((u + s) + 1) = Byte * u + Byte * s + Byte
    <3>1. Byte * (u + s) = Byte * u + Byte * s
      BY Distributes
    <3>2. Byte * ((u + s) + 1) = Byte * (u + s) + Byte * 1
      BY Distributes
    <3>3. Byte * 1 = Byte
      BY <1>2
    <3> QED BY <3>1, <3>2, <3>3, Zenon
  <2>3. Byte * size = Byte * u + Byte * s + Byte
    BY <2>1, <2>2, Zenon
  <2>4. PICK v \in Nat : v = Byte * u
    BY <1>2
  <2>5. PICK g \in Nat : g = Byte * s
    BY <1>2
  <2>6. PICK m \in Nat : m = Byte * size
    BY <1>2
  <2>7. m = v + g + Byte /\ n = g + b /\ x = m - 1 - n
    BY <1>1, <2>3, <2>4, <2>5, <2>6, Zenon
  <2>8. x = v + (Byte - 1 - b)
    BY <1>2, <2>7
  <2> QED BY <2>4, <2>8, Zenon
<1>6. WireBit(l, Byte * u + (Byte - 1 - b)) = <<WireByte(l, u), Byte - 1 - b>>
  <2>1. PICK c \in Bits(Byte) : c = Byte - 1 - b
    BY <1>2
  <2>2. WireBit(l, Byte * u + c) = <<WireByte(l, u), c>>
    BY <2>1, WireBitIs, Zenon
  <2> QED BY <2>1, <2>2, Zenon
<1>7. WireByte(l, u) = s
  <2>1. WireByte(l, u) = size - 1 - u
    BY DEF WireByte
  <2> QED BY <1>4, <2>1
<1> QED BY <1>1, <1>5, <1>6, <1>7, Zenon

LEMMA MirroredWord ==
    ASSUME NEW l, l.mode = "words", l.endian = "be", NEW w \in Nat, NEW r \in Nat, r < WordBits,
           NEW n, n = WordBits * w + r, NEW x, x = WordBits * w + (WordBits - 1 - r)
    PROVE  WireBit(l, x) = <<n \div Byte, Byte - 1 - (n % Byte)>>
<1>1. PICK s \in Nat, b \in Bits(Byte) : r = Byte * s + b
  BY Coordinates
<1>2. Byte \in Nat /\ b \in Nat /\ Byte - 1 - b \in Bits(Byte) /\ Byte * s \in Nat /\ WordBits = Byte * 2
      /\ WordBits = Byte + Byte
  <2>1. \A b2 \in Nat : 2 * b2 = b2 * 2 /\ 2 * b2 = b2 + b2
    OBVIOUS
  <2> QED BY <2>1, ByteAssumption DEF Bits, WordBits
<1>3. s \in {0, 1}
  <2>1. Byte * s + b < Byte * 2
    BY <1>1, <1>2
  <2>2. s < 2
    BY <2>1, ByteOrder
  <2> QED BY <2>2
<1>4. PICK t \in Nat : t = 2 * w
  OBVIOUS
<1>5. WordBits * w = Byte * t /\ Byte * t \in Nat
  <2>1. \A b2, y \in Nat : (b2 * 2) * y = b2 * (2 * y) /\ b2 * (2 * y) \in Nat
    BY SMTT(30)
  <2> QED BY <1>2, <1>4, <2>1
<1>6. n = Byte * (t + s) + b
  <2>1. Byte * (t + s) = Byte * t + Byte * s
    BY Distributes
  <2> QED BY <1>1, <1>2, <1>5, <2>1
<1>7. PICK u \in {0, 1} : u = 1 - s
  BY <1>3
<1>8. x = Byte * (t + u) + (Byte - 1 - b)
  <2>1. Byte * (t + u) = Byte * t + Byte * u
    BY Distributes
  <2>2. Byte * s + Byte * u = Byte
    <3>1. CASE s = 0 /\ u = 1
      BY <1>2, <3>1
    <3>2. CASE s = 1 /\ u = 0
      BY <1>2, <3>2
    <3> QED BY <1>3, <1>7, <3>1, <3>2
  <2>3. Byte * u \in Nat
    BY <1>2
  <2> QED BY <1>1, <1>2, <1>5, <2>1, <2>2, <2>3
<1>9. n \div Byte = t + s /\ n % Byte = b
  <2>1. (Byte * (t + s) + b) \div Byte = t + s /\ (Byte * (t + s) + b) % Byte = b
    BY <1>3, Unique
  <2> QED BY <1>6, <2>1
<1>10. WireBit(l, Byte * (t + u) + (Byte - 1 - b)) = <<WireByte(l, t + u), Byte - 1 - b>>
  <2>1. t + u \in Nat
    BY <1>7
  <2> QED BY <1>2, <2>1, WireBitIs
<1>11. WireByte(l, t + u) = t + s
  <2>1. WireByte(l, t + u) = 2 * ((t + u) - ((t + u) % 2)) + 1 - (t + u)
    BY DEF WireByte
  <2>2. (t + u) % 2 = u
    BY <1>4
  <2> QED BY <1>7, <2>1, <2>2
<1> QED BY <1>8, <1>9, <1>10, <1>11, Zenon

LEMMA NetworkIs ==
    ASSUME NEW d, Declarable(d), Solves(d), d.endian = "be", d.order = "msb",
           NEW l, l = Solved(d), NEW i \in DOMAIN l.fields, NEW f, f = l.fields[i],
           d.mode = "bits" \/ (d.mode = "words" /\ f.reading \in {"uint", "int"}),
           NEW k \in Bits(f.bits), NEW n, n = Declared(d, i) + k
    PROVE  WireBit(l, f.at + (f.bits - 1 - k)) = <<n \div Byte, Byte - 1 - (n % Byte)>>
<1>1. /\ i \in DOMAIN d.fields /\ i \in 1 .. Len(d.fields)
      /\ f.at = Physical(d, f.bits, Packed(f), Declared(d, i)) /\ f.bits = d.fields[i].bits
      /\ Width(f) = Width(d.fields[i]) /\ Packed(f) = Packed(d.fields[i])
  BY SolvedField
<1>2. PICK bits \in Nat \ {0} : bits = f.bits
  BY SolvedField
<1>3. PICK p \in Nat : p = Declared(d, i)
  BY <1>1, DeclaredIs, DeclaredTypes
<1>4. Count(f) = 1 /\ Packed(f)
  <2>1. PICK a : a = InPlace(l, f, ElementAt(f, 1))
    OBVIOUS
  <2>2. InBits(l, f, a)
    BY <2>1, PackedField
  <2> QED BY <2>2 DEF InBits
<1>5. Width(f) = bits
  BY <1>2, <1>4 DEF Width
<1>6. PICK size \in Nat : size = l.size /\ size = d.size /\ l.mode = d.mode /\ l.endian = "be"
  BY SolvedIs, DeclaredTypes
<1>7. Total(d) = Byte * size /\ Byte * size \in Nat
  BY <1>6, Distributes, ByteAssumption DEF Total
<1>8. p + bits <= Total(d) /\ (d.mode = "words" => (p % WordBits) + bits <= WordBits)
  <2>1. Declared(d, i) + Width(d.fields[i]) <= Total(d)
    BY <1>1 DEF Solves
  <2>2. d.mode = "words" => (Declared(d, i) % WordBits) + d.fields[i].bits <= WordBits
    BY <1>1, <1>4 DEF Solves, InWord
  <2> QED BY <1>1, <1>2, <1>3, <1>5, <2>1, <2>2, Zenon
<1>9. PICK at : at = Physical(d, bits, TRUE, p)
  OBVIOUS
<1>10. at = f.at
  BY <1>1, <1>2, <1>3, <1>4, <1>9, Zenon
<1>11. /\ at \in Nat
       /\ d.mode = "bits" => at = Total(d) - (p + bits)
       /\ d.mode = "words" => /\ at - (at % WordBits) = p - (p % WordBits)
                              /\ at % WordBits = WordBits - (p % WordBits) - bits
  <2>1. TRUE \in BOOLEAN /\ (d.mode = "words" /\ TRUE => (p % WordBits) + bits <= WordBits)
    BY <1>8
  <2>2. p + bits <= Total(d)
    BY <1>8
  <2>3. Placed(d, p, bits, TRUE, at)
    BY <1>9, <2>1, <2>2, PhysicalIs
  <2>7. d.order # "lsb"
    OBVIOUS
  <2> QED BY <2>3, <2>7 DEF Placed
<1>12. k \in Nat /\ k < bits /\ n \in Nat /\ n = p + k
  BY <1>2, <1>3 DEF Bits
<1>13. PICK x \in Nat : x = at + (bits - 1 - k)
  BY <1>11, <1>12
<1>14. WireBit(l, x) = <<n \div Byte, Byte - 1 - (n % Byte)>>
  <2>1. CASE d.mode = "bits"
    <3>1. x = Byte * size - 1 - n /\ n < Byte * size
      BY <1>7, <1>8, <1>11, <1>12, <1>13, <2>1
    <3>2. l.mode = "bits" /\ l.endian = "be" /\ size = l.size
      BY <1>6, <2>1
    <3> QED BY <1>12, <3>1, <3>2, MirroredBits
  <2>2. CASE d.mode = "words"
    <3>1. PICK w \in Nat : /\ p - (p % WordBits) = WordBits * w /\ p = WordBits * w + (p % WordBits)
                           /\ WordBits * w \in Nat /\ WordBits \in Nat /\ p % WordBits \in Nat
      BY InRegion
    <3>2. at = WordBits * w + (at % WordBits) /\ at % WordBits \in Nat
      <4>1. at - (at % WordBits) = WordBits * w
        BY <1>11, <2>2, <3>1
      <4>2. at \in Nat /\ at % WordBits \in Nat
        BY <1>11, InRegion
      <4> QED BY <3>1, <4>1, <4>2
    <3>3. PICK s \in Nat : s = p % WordBits
      BY <3>1
    <3>4. PICK base \in Nat : base = WordBits * w
      BY <3>1
    <3>5. PICK wide \in Nat : wide = WordBits
      BY <3>1
    <3>6. at = base + (wide - s - bits) /\ s + bits <= wide /\ p = base + s
      BY <1>8, <1>11, <2>2, <3>1, <3>2, <3>3, <3>4, <3>5
    <3>7. PICK r \in Nat : r = s + k
      BY <1>12
    <3>8. r < wide /\ n = base + r /\ x = base + (wide - 1 - r)
      BY <1>12, <1>13, <3>6, <3>7
    <3>9. r < WordBits /\ n = WordBits * w + r /\ x = WordBits * w + (WordBits - 1 - r)
      BY <3>4, <3>5, <3>8
    <3>10. l.mode = "words" /\ l.endian = "be"
      BY <1>6, <2>2
    <3> QED BY <3>9, <3>10, MirroredWord
  <2> QED BY <2>1, <2>2
<1> QED BY <1>2, <1>10, <1>13, <1>14, Zenon

(* Every field of an accepted layout is where its rows say.                *)
Spans(l, i, f) ==
    f.at \in Nat /\ Touched(l, i) = {WireBit(l, n) : n \in f.at .. f.at + Width(f) - 1}

LEMMA TouchedIs ==
    ASSUME NEW d, Declarable(d), Solves(d), FillsWords(d), NEW l, l = Solved(d),
           NEW i \in DOMAIN l.fields, NEW f, f = l.fields[i]
    PROVE  Spans(l, i, f)
<1>1. d.mode \in {"bits", "bytes", "words"}
  BY DeclaredTypes
<1>2. CASE d.mode = "bits" \/ (d.mode = "words" /\ f.reading \in {"uint", "int"})
  <2>1. PICK a : a = InPlace(l, f, ElementAt(f, 1))
    OBVIOUS
  <2>2. InBits(l, f, a)
    BY <1>2, <2>1, PackedField
  <2>3. l.size \in Nat
    BY SolvedIs, DeclaredTypes
  <2>4. TouchesBits(l, i, f)
    BY <2>1, <2>2, <2>3, PackedWrites DEF InBits
  <2> QED BY <2>2, <2>4, Zenon DEF TouchesBits, InBits, Spans
<1>3. CASE d.mode = "bytes" \/ (d.mode = "words" /\ f.reading \notin {"uint", "int"})
  <2>1. Touched(l, i) = {WireBit(l, n) : n \in f.at .. f.at + Width(f) - 1}
    BY <1>3, WholeTouched
  <2>2. PICK q \in Nat, e \in Nat \ {0} : Elements(d, l, f, q, e)
    BY <1>3, WholeField
  <2>3. f.at \in Nat
    BY <2>2, Multiple DEF Elements
  <2> QED BY <2>1, <2>3 DEF Spans
<1> QED BY <1>1, <1>2, <1>3

RowsSay(l, i) ==
    Touched(l, i) =
      UNION {{WireBit(l, n) : n \in r.start .. r.start + r.width - 1} : r \in RowsOf(l, i)}

LEMMA TableIs ==
    ASSUME NEW d, Declarable(d), Solves(d), FillsWords(d), NEW l, l = Solved(d), NEW i \in DOMAIN l.fields
    PROVE  RowsSay(l, i)
<1>1. PICK f : f = l.fields[i]
  OBVIOUS
<1>2. Spans(l, i, f)
  BY <1>1, TouchedIs
<1>3. UNION {{WireBit(l, n) : n \in r.start .. r.start + r.width - 1} : r \in RowsOf(l, i)}
        = {WireBit(l, n) : n \in f.at .. f.at + Width(f) - 1}
  <2>1. f.at \in Nat
    BY <1>2 DEF Spans
  <2> QED BY <1>1, <2>1, RowsCover
<1> QED BY <1>2, <1>3, Zenon DEF RowsSay, Spans

LEMMA NetworkWrites ==
    ASSUME NEW d, Declarable(d), Solves(d), d.endian = "be", d.order = "msb",
           NEW l, l = Solved(d), NEW i \in DOMAIN l.fields, NEW f, f = l.fields[i],
           d.mode = "bits" \/ (d.mode = "words" /\ f.reading \in {"uint", "int"}),
           NEW k \in Bits(f.bits), NEW n, n = Declared(l, i) + k
    PROVE  Written(l, i, 1, {f.bits - 1 - k}) = {<<n \div Byte, Byte - 1 - (n % Byte)>>}
<1>1. PICK a : a = InPlace(l, f, ElementAt(f, 1))
  OBVIOUS
<1>2. InBits(l, f, a)
  BY <1>1, PackedField
<1>3. l.size \in Nat
  BY SolvedIs, DeclaredTypes
<1>4. TouchesBits(l, i, f)
  BY <1>1, <1>2, <1>3, PackedWrites DEF InBits
<1>5. f.bits - 1 - k \in Bits(f.bits)
  BY <1>2 DEF Bits, InBits
<1>6. n = Declared(d, i) + k
  BY SolvedDeclared
<1>7. WireBit(l, f.at + (f.bits - 1 - k)) = <<n \div Byte, Byte - 1 - (n % Byte)>>
  BY <1>6, NetworkIs
<1> QED BY <1>4, <1>5, <1>7, Zenon DEF TouchesBits

(* The FIELDS table of an accepted layout says where each of its fields is *)
(* on the wire, and with order = msb over endian = be a packed field is    *)
(* where a table of a standard has it.  The one exception, which a run     *)
(* exhibits, is an array of bytes that shares a big-endian word.           *)
THEOREM TheTableIsTheWire ==
    ASSUME \A d \in Declarations : Accepted(d) => FillsWords(d)
    PROVE  Spec => []TableIsWire
<1>1. LayoutInv => TableIsWire
  <2> SUFFICES ASSUME LayoutInv, phase = "derived", NEW i \in DOMAIN lay.fields
               PROVE  /\ Touched(lay, i) =
                           UNION {{WireBit(lay, n) : n \in r.start .. r.start + r.width - 1} :
                                    r \in RowsOf(lay, i)}
                      /\ lay.mode # "bytes" /\ lay.endian = "be" /\ lay.order = "msb"
                           /\ Packed(lay.fields[i]) => NetworkOrder(i)
    BY DEF TableIsWire
  <2>1. PICK d \in Declarations : Accepted(d) /\ lay = Solved(d)
    BY DEF LayoutInv
  <2>2. Declarable(d) /\ Solves(d) /\ FillsWords(d)
    BY <2>1, DeclarationAssumption DEF Accepted
  <2>4. PICK f : f = lay.fields[i]
    OBVIOUS
  <2>5. lay = Solved(d) /\ i \in DOMAIN lay.fields
    BY <2>1
  <2>6. RowsSay(lay, i)
    BY <2>2, <2>5, TableIs
  <2>8. ASSUME lay.mode # "bytes", lay.endian = "be", lay.order = "msb", Packed(f) PROVE NetworkOrder(i)
    <3>1. /\ d.mode = lay.mode /\ d.endian = "be" /\ d.order = "msb" /\ d.mode \in {"bits", "bytes", "words"}
          /\ i \in DOMAIN d.fields
      BY <2>2, <2>5, <2>8, SolvedIs, DeclaredTypes
    <3>2. d.mode = "bits" \/ (d.mode = "words" /\ f.reading \in {"uint", "int"})
      <4>1. f.reading = d.fields[i].reading /\ f.len = d.fields[i].len
        BY <2>2, <2>4, <2>5, SolvedField
      <4>2. d.mode = "words" => WordsField(d.fields[i])
        BY <2>2, <3>1 DEF Declarable
      <4>3. f.reading # "nested" /\ f.len = 0
        BY <2>8 DEF Packed
      <4> QED BY <2>8, <3>1, <4>1, <4>2, <4>3 DEF WordsField
    <3>3. ASSUME NEW k \in Bits(f.bits), NEW n, n = Declared(lay, i) + k
          PROVE  Written(lay, i, 1, {f.bits - 1 - k}) = {<<n \div Byte, Byte - 1 - (n % Byte)>>}
      BY <2>2, <2>4, <2>5, <3>1, <3>2, <3>3, NetworkWrites
    <3> QED BY <2>4, <3>3, Zenon DEF NetworkOrder
  <2> QED BY <2>4, <2>6, <2>8, Zenon DEF RowsSay
<1> QED BY <1>1, Holds, PTL

----------------------------------------------------------------------------
(* The fields of a layout apart.                                           *)

(* Solve leaves a field in the record.                                     *)
LEMMA InRecord ==
    ASSUME NEW d, Declarable(d), Solves(d), NEW l, l = Solved(d), NEW i \in DOMAIN l.fields,
           NEW f, f = l.fields[i]
    PROVE  f.at \in Nat /\ Width(f) \in Nat /\ f.at + Width(f) <= Total(l)
<1>1. /\ i \in DOMAIN d.fields /\ i \in 1 .. Len(d.fields) /\ f.bits = d.fields[i].bits
      /\ f.at = Physical(d, f.bits, Packed(f), Declared(d, i)) /\ f.len = d.fields[i].len
      /\ Width(f) = Width(d.fields[i]) /\ Packed(f) = Packed(d.fields[i])
  BY SolvedField
<1>2. PICK bits \in Nat \ {0} : bits = f.bits
  BY SolvedField
<1>3. PICK c \in Nat \ {0} : c = Count(f) /\ Width(f) = bits * c
  BY <1>2, SolvedField
<1>4. PICK width \in Nat : width = Width(f) /\ bits <= width
  <2>1. bits <= bits * c /\ bits * c \in Nat
    BY SMTT(30)
  <2> QED BY <1>3, <2>1
<1>5. PICK p \in Nat : p = Declared(d, i)
  BY <1>1, DeclaredIs, DeclaredTypes
<1>6. Total(d) = Total(l) /\ Total(d) \in Nat
  <2>1. d.size \in Nat /\ Total(d) = Total(l)
    BY SolvedIs, DeclaredTypes
  <2> QED BY <2>1, ByteAssumption DEF Total
<1>7. p + width <= Total(d)
  <2>1. Declared(d, i) + Width(d.fields[i]) <= Total(d)
    BY <1>1 DEF Solves
  <2> QED BY <1>1, <1>4, <1>5, <2>1
<1>8. PICK at : at = Physical(d, bits, Packed(f), p)
  OBVIOUS
<1>9. at = f.at
  BY <1>1, <1>2, <1>5, <1>8, Zenon
<1>10. Placed(d, p, bits, Packed(f), at)
  <2>1. Packed(f) \in BOOLEAN
    BY DEF Packed
  <2>2. p + bits <= Total(d)
    BY <1>4, <1>6, <1>7
  <2>3. d.mode = "words" /\ Packed(f) => (p % WordBits) + bits <= WordBits
    <3>1. d.mode = "words" /\ Packed(f) => (Declared(d, i) % WordBits) + d.fields[i].bits <= WordBits
      BY <1>1 DEF Solves, InWord
    <3> QED BY <1>1, <1>2, <1>5, <3>1, Zenon
  <2> QED BY <1>8, <2>1, <2>2, <2>3, PhysicalIs
<1>11. at \in Nat /\ at + bits <= Total(d) /\ (~Packed(f) => at = p)
  BY <1>10 DEF Placed
<1>12. at + width <= Total(d)
  <2>1. CASE Packed(f)
    <3>1. Count(f) = 1
      BY <2>1 DEF Packed, Count
    <3>2. width = bits
      BY <1>3, <1>4, <3>1
    <3> QED BY <1>11, <3>2
  <2>2. CASE ~Packed(f)
    BY <1>7, <1>11, <2>2
  <2> QED BY <2>1, <2>2
<1> QED BY <1>4, <1>6, <1>9, <1>11, <1>12

(* A row of a field holds each of its bits.                                *)
Holding(l, i, n) == {r \in RowsOf(l, i) : r.start <= n /\ n < r.start + r.width}

LEMMA RowHolds ==
    ASSUME NEW d, Declarable(d), Solves(d), NEW l, l = Solved(d), NEW i \in DOMAIN l.fields,
           NEW f, f = l.fields[i], NEW n \in f.at .. f.at + Width(f) - 1
    PROVE  \E r \in Holding(l, i, n) : r.field = i
<1>1. PICK each \in Nat \ {0}, k \in Nat : Cut(l, i, f, each, k)
  BY RowsSplit
<1>2. PICK at \in Nat : at = f.at
  BY InRecord
<1>3. PICK width \in Nat : width = Width(f) /\ width = each * k
  BY <1>1, InRecord DEF Cut
<1>4. n \in at .. at + width - 1
  BY <1>2, <1>3
<1>5. n \in Int /\ n \in at .. at + each * k - 1
  BY <1>3, <1>4
<1>6. PICK j \in 0 .. k - 1 : n \in at + j * each .. at + j * each + each - 1
  BY <1>5, PiecesCover
<1>7. PICK r : r = [field |-> i, start |-> at + j * each, width |-> each]
  OBVIOUS
<1>8. r \in RowsOf(l, i)
  BY <1>1, <1>2, <1>7, Zenon DEF Cut
<1>9. j * each \in Nat
  BY SMTT(30)
<1>10. r.field = i /\ r.start <= n /\ n < r.start + r.width
  BY <1>5, <1>6, <1>7, <1>9
<1> QED BY <1>8, <1>10 DEF Holding

(* The table is finite.                                                    *)
LEMMA ImageIsFinite ==
    ASSUME NEW S, IsFiniteSet(S), NEW g, DOMAIN g = S, NEW T, T = {g[x] : x \in S}
    PROVE  IsFiniteSet(T)
<1>1. [x \in S |-> g[x]] \in Surjection(S, T)
  BY DEF Surjection
<1> QED BY <1>1, FS_Surjection

LEMMA TableIsFinite ==
    ASSUME NEW d, Declarable(d), Solves(d), NEW l, l = Solved(d)
    PROVE  IsFiniteSet(FieldRows(l))
<1>1. DOMAIN l.fields = 1 .. Len(l.fields) /\ Len(l.fields) \in Nat
  BY SolvedIs, DeclaredTypes
<1>2. IsFiniteSet(DOMAIN l.fields)
  BY <1>1, FS_Interval
<1>3. ASSUME NEW i \in DOMAIN l.fields PROVE IsFiniteSet(RowsOf(l, i))
  <2>1. PICK f : f = l.fields[i]
    OBVIOUS
  <2>2. PICK each \in Nat \ {0}, k \in Nat : Cut(l, i, f, each, k)
    BY <2>1, RowsSplit
  <2> DEFINE S == 0 .. k - 1
             g == [j \in S |-> [field |-> i, start |-> f.at + j * each, width |-> each]]
  <2>3. IsFiniteSet(S)
    BY FS_Interval
  <2>4. DOMAIN g = S /\ RowsOf(l, i) = {g[j] : j \in S}
    BY <2>2 DEF Cut
  <2> HIDE DEF S, g
  <2> QED BY <2>3, <2>4, ImageIsFinite
<1> DEFINE h == [i \in DOMAIN l.fields |-> RowsOf(l, i)]
           R == {RowsOf(l, i) : i \in DOMAIN l.fields}
<1>4. DOMAIN h = DOMAIN l.fields /\ R = {h[i] : i \in DOMAIN l.fields}
  OBVIOUS
<1>5. \A T \in R : IsFiniteSet(T)
  BY <1>3
<1>6. PICK P : P = IF l.prefix = 0 THEN {} ELSE {[field |-> 0, start |-> PrefixAt(l), width |-> l.prefix]}
  OBVIOUS
<1>7. IsFiniteSet(P)
  <2>1. PICK row : row = [field |-> 0, start |-> PrefixAt(l), width |-> l.prefix]
    OBVIOUS
  <2>2. P = {} \/ P = {row}
    BY <1>6, <2>1, Zenon
  <2>3. IsFiniteSet({row})
    BY FS_Singleton, Zenon
  <2>4. IsFiniteSet({})
    BY FS_EmptySet, Zenon
  <2> QED BY <2>2, <2>3, <2>4, Zenon
<1>8. FieldRows(l) = (UNION R) \cup P
  BY <1>6, Zenon DEF FieldRows
<1> HIDE DEF h, R
<1>9. IsFiniteSet(R)
  BY <1>2, <1>4, ImageIsFinite
<1>10. IsFiniteSet(UNION R)
  BY <1>5, <1>9, FS_UNION
<1> QED BY <1>7, <1>8, <1>10, FS_Union

(* No two bits of the container are one bit of the wire.                   *)
LEMMA WireBitDiffers ==
    ASSUME NEW l, l.mode \in {"bits", "bytes", "words"}, l.endian \in {"le", "be"}, l.size \in Nat,
           NEW n \in Nat, NEW m \in Nat, WireBit(l, n) = WireBit(l, m)
    PROVE  n = m
<1>1. PICK s \in Nat, b \in Bits(Byte) : s = n \div Byte /\ b = n % Byte /\ n = Byte * s + b
  BY Coordinates
<1>2. PICK t \in Nat, c \in Bits(Byte) : t = m \div Byte /\ c = m % Byte /\ m = Byte * t + c
  BY Coordinates
<1>3. WireByte(l, s) = WireByte(l, t) /\ b = c
  BY <1>1, <1>2 DEF WireBit
<1>4. s = t
  <2>1. CASE l.endian = "le" \/ l.mode = "bytes"
    BY <1>3, <2>1 DEF WireByte
  <2>2. CASE l.endian = "be" /\ l.mode = "bits"
    BY <1>3, <2>2 DEF WireByte
  <2>3. CASE l.endian = "be" /\ l.mode = "words"
    <3>1. \A k \in Nat : WireByte(l, k) = IF k % 2 = 0 THEN k + 1 ELSE k - 1
      BY <2>3 DEF WireByte
    <3>2. (IF s % 2 = 0 THEN s + 1 ELSE s - 1) = (IF t % 2 = 0 THEN t + 1 ELSE t - 1)
      BY <1>3, <3>1
    <3> QED BY <3>2
  <2> QED BY <2>1, <2>2, <2>3
<1> QED BY <1>1, <1>2, <1>3, <1>4, Zenon

LEMMA Apart ==
    ASSUME NEW d, Declarable(d), Solves(d), FillsWords(d), NEW l, l = Solved(d), CheckLayout(l),
           NEW i \in DOMAIN l.fields, NEW k \in DOMAIN l.fields, i # k
    PROVE  Touched(l, i) \cap Touched(l, k) = {}
<1>1. SUFFICES ASSUME NEW e, e \in Touched(l, i), e \in Touched(l, k) PROVE FALSE
  OBVIOUS
<1>2. PICK f : f = l.fields[i]
  OBVIOUS
<1>3. PICK g : g = l.fields[k]
  OBVIOUS
<1>4. PICK n \in f.at .. f.at + Width(f) - 1 : e = WireBit(l, n)
  <2>1. Spans(l, i, f)
    BY <1>2, TouchedIs
  <2> QED BY <1>1, <2>1 DEF Spans
<1>5. PICK m \in g.at .. g.at + Width(g) - 1 : e = WireBit(l, m)
  <2>1. Spans(l, k, g)
    BY <1>3, TouchedIs
  <2> QED BY <1>1, <2>1 DEF Spans
<1>6. n \in Nat /\ n < Total(l) /\ Total(l) \in Nat
  <2>1. f.at \in Nat /\ Width(f) \in Nat /\ f.at + Width(f) <= Total(l)
    BY <1>2, InRecord
  <2>2. Total(l) \in Nat
    BY SolvedIs, DeclaredTypes, ByteAssumption DEF Total
  <2> QED BY <1>4, <2>1, <2>2
<1>7. m \in Nat
  <2>1. g.at \in Nat /\ Width(g) \in Nat
    BY <1>3, InRecord
  <2> QED BY <1>5, <2>1
<1>8. n = m
  <2>1. l.mode \in {"bits", "bytes", "words"} /\ l.endian \in {"le", "be"} /\ l.size \in Nat
    BY SolvedIs, DeclaredTypes
  <2>2. WireBit(l, n) = WireBit(l, m)
    BY <1>4, <1>5
  <2> QED BY <1>6, <1>7, <2>1, <2>2, WireBitDiffers
<1>9. PICK r \in Holding(l, i, n) : r.field = i
  BY <1>2, <1>4, RowHolds
<1>10. PICK s \in Holding(l, k, m) : s.field = k
  BY <1>3, <1>5, RowHolds
<1>11. PICK S : S = {q \in FieldRows(l) : q.start <= n /\ n < q.start + q.width}
  OBVIOUS
<1>12. r \in S /\ s \in S
  <2>1. s \in Holding(l, k, n)
    BY <1>8, <1>10
  <2>2. r \in RowsOf(l, i) /\ r.start <= n /\ n < r.start + r.width
    BY <1>9 DEF Holding
  <2>3. s \in RowsOf(l, k) /\ s.start <= n /\ n < s.start + s.width
    BY <2>1 DEF Holding
  <2>4. r \in FieldRows(l) /\ s \in FieldRows(l)
    BY <2>2, <2>3 DEF FieldRows
  <2> QED BY <1>11, <2>2, <2>3, <2>4, Zenon
<1>13. Cardinality(S) = 1
  <2>1. n \in 0 .. Total(l)
    BY <1>6
  <2>2. Cardinality({q \in FieldRows(l) : q.start <= n /\ n < q.start + q.width})
          = (IF n < Total(l) THEN 1 ELSE 0)
    BY <2>1, Zenon DEF CheckLayout
  <2> QED BY <1>6, <1>11, <2>2
<1>14. IsFiniteSet(S)
  <2>1. IsFiniteSet(FieldRows(l))
    BY TableIsFinite
  <2> QED BY <1>11, <2>1, FS_Subset
<1>15. PICK x : S = {x}
  BY <1>13, <1>14, FS_Singleton
<1> QED BY <1>9, <1>10, <1>12, <1>15

(* The fields of an accepted layout are apart on the wire, with the same   *)
(* exception: no write of one is a write of another.                       *)
THEOREM AcceptedFieldsAreApart ==
    ASSUME \A d \in Declarations : Accepted(d) => FillsWords(d)
    PROVE  Spec => []FieldsApart
<1>1. LayoutInv => FieldsApart
  <2> SUFFICES ASSUME LayoutInv, phase = "derived", NEW i \in DOMAIN lay.fields,
                      NEW k \in DOMAIN lay.fields, i # k
               PROVE  Touched(lay, i) \cap Touched(lay, k) = {}
    BY DEF FieldsApart
  <2>1. PICK d \in Declarations : Accepted(d) /\ lay = Solved(d)
    BY DEF LayoutInv
  <2>2. Declarable(d) /\ Solves(d) /\ FillsWords(d) /\ CheckLayout(lay)
    BY <2>1, DeclarationAssumption DEF Accepted
  <2> QED BY <2>1, <2>2, Apart
<1> QED BY <1>1, Holds, PTL
=============================================================================
