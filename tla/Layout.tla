------------------------------- MODULE Layout -------------------------------
(***************************************************************************)
(* #[derive(Layout)]: a fixed-size record.  Derive solves the position of  *)
(* every field or refuses the declaration; encode and decode go through    *)
(* accesses that depend on the container's size, mode, byte order and bit  *)
(* order; a view reads and writes one field in place over the wire.        *)
(*                                                                         *)
(* A field's value is the sequence of its elements (one, unless it is an   *)
(* array), each the word of its type.  A nested layout is the word of its  *)
(* own bytes: its decode cannot fail, as the derive asserts.  A            *)
(* FieldCodec value is its raw u64.                                        *)
(***************************************************************************)
EXTENDS Words, Sequences, FiniteSets

CONSTANTS
    Native,         \* bytes in a u64
    Wide,           \* bytes in a u128
    Declarations,   \* the layouts a run declares
    Patterns,       \* the words their elements take, cut to the type's width
    MaxSets         \* calls of a view's setters

ASSUME LayoutAssumption ==
    Native \in Nat \ {0} /\ Wide \in Native + 1 .. 16 /\ MaxSets \in Nat

VARIABLES lay, phase, wire, call, sets
vars == <<lay, phase, wire, call, sets>>

U64 == Native * Byte

----------------------------------------------------------------------------
(* Declarations.                                                           *)
Count(f) == IF f.len = 0 THEN 1 ELSE f.len
Width(f) == f.bits * Count(f)
Total(l) == l.size * Byte

(* The words-mode word is two bytes.                                       *)
WordBits == 2 * Byte
RegionBits(l) == IF l.mode = "words" THEN WordBits ELSE Total(l)

(* Scalars and codecs are packed; arrays and nested layouts are not.       *)
Packed(f) == f.reading # "nested" /\ f.len = 0

(* What the parser hands to the derive: in bits mode bit fields after a    *)
(* prefix (of a register at most; wider ones are not modelled); in words   *)
(* mode bit fields of a word, nested layouts of whole words and arrays of  *)
(* bytes or words; in bytes mode whole bytes.                              *)
FieldDecl ==
    [reading : {"uint", "int", "native", "nested"}, bits : Nat \ {0}, prim : Nat \ {0},
     len : Nat, at : Nat, magic : Seq(SUBSET Bits(Byte)),
     over : {<<>>} \cup (Nat \X {"here", "before", "after"} \X Nat), range : SUBSET SUBSET Nat]

LayoutDecl ==
    [mode : {"bits", "bytes", "words"}, size : Nat, endian : {"le", "be"}, order : {"lsb", "msb"},
     prefix : 0 .. U64, pinned : SUBSET SUBSET Nat, truncate : BOOLEAN, view : BOOLEAN,
     fields : Seq(FieldDecl)]

BitField(f) ==
    f.reading \in {"uint", "int"} /\ f.len = 0 /\ f.bits <= IF f.prim > U64 THEN Wide * Byte ELSE U64

WordsField(f) ==
    \/ f.reading \in {"uint", "int"} /\ f.len = 0 /\ f.bits <= WordBits
    \/ f.reading = "nested" /\ f.len = 0 /\ f.bits % WordBits = 0
    \/ f.reading = "native" /\ f.len > 0 /\ f.bits \in {Byte, WordBits}

Declarable(l) ==
    /\ l \in LayoutDecl
    /\ l.pinned # {} => l.prefix > 0
    /\ l.mode # "bits" => l.prefix = 0
    /\ l.mode = "words" => l.size % 2 = 0
    /\ \A i \in DOMAIN l.fields :
        LET f == l.fields[i]
        IN  /\ l.mode = "bits" => BitField(f)
            /\ l.mode = "words" => WordsField(f)
            /\ l.mode = "bytes" => f.bits % Byte = 0
            /\ (f.magic # <<>> \/ f.over # <<>>) => l.mode = "bytes"
            /\ f.magic # <<>> => Byte * Len(f.magic) = Width(f)
            /\ f.over # <<>> => f.len = 0

ASSUME DeclarationAssumption == \A l \in Declarations : Declarable(l)

Declared(l, i) ==
    LET end[k \in 0 .. Len(l.fields)] ==
            IF k = 0 THEN l.prefix ELSE end[k - 1] + Width(l.fields[k])
    IN  end[i - 1]

(* Container::physical: order = msb mirrors a packed field in its region.  *)
Physical(l, width, packed, at) ==
    LET base == at - (at % RegionBits(l))
    IN  IF l.mode = "bytes" \/ l.order = "lsb" \/ ~packed
        THEN at
        ELSE base + RegionBits(l) - (at - base + width)

(* Plan::solve.                                                            *)
InWord(l, i) ==
    LET f     == l.fields[i]
        at    == Declared(l, i)
        align == IF f.bits < WordBits THEN f.bits ELSE WordBits
    IN  l.mode = "words" =>
            IF Packed(f) THEN (at % WordBits) + f.bits <= WordBits ELSE at % align = 0

Solves(l) ==
    /\ \A i \in DOMAIN l.fields :
        /\ InWord(l, i)
        /\ Declared(l, i) + Width(l.fields[i]) <= Total(l)
    /\ Declared(l, Len(l.fields) + 1) = Total(l)

Solved(l) ==
    [l EXCEPT !.fields =
        [i \in DOMAIN l.fields |->
            LET f == l.fields[i]
            IN  [f EXCEPT !.at = Physical(l, f.bits, Packed(f), Declared(l, i))]]]

(* field_rows: the FIELDS table, <<start, width>> per row, with its field. *)
PrefixAt(l) == Physical(l, l.prefix, TRUE, 0)

(* Mutant: the table lists declared positions.                             *)
RowsDeclared(l, i) ==
    LET f    == l.fields[i]
        each == IF f.reading = "nested" /\ l.mode = "words" THEN WordBits ELSE f.bits
    IN  {[field |-> i, start |-> Declared(l, i) + k * each, width |-> each] :
            k \in 0 .. Width(f) \div each - 1}

RowsOf(l, i) ==
    LET f    == l.fields[i]
        each == IF f.reading = "nested" /\ l.mode = "words" THEN WordBits ELSE f.bits
    IN  {[field |-> i, start |-> f.at + k * each, width |-> each] : k \in 0 .. Width(f) \div each - 1}

FieldRows(l) ==
    (UNION {RowsOf(l, i) : i \in DOMAIN l.fields})
        \cup IF l.prefix = 0 THEN {}
             ELSE {[field |-> 0, start |-> PrefixAt(l), width |-> l.prefix]}

(* check_layout: the rows, by position, leave no gap and do not overlap.   *)
CheckLayout(l) ==
    \A b \in 0 .. Total(l) :
        Cardinality({r \in FieldRows(l) : r.start <= b /\ b < r.start + r.width})
            = (IF b < Total(l) THEN 1 ELSE 0)

----------------------------------------------------------------------------
(* #[magic] and #[checksum], in byte mode.                                 *)
Magics(l) == {i \in DOMAIN l.fields : l.fields[i].magic # <<>>}
Checks(l) == {i \in DOMAIN l.fields : l.fields[i].over # <<>>}

First(l, i) == l.fields[i].at \div Byte
End(l, i)   == First(l, i) + Width(l.fields[i]) \div Byte

(* Coverage::resolve and Covered::runs.  An over is <<from, how, to>>,     *)
(* from = 0 for the start of the record.                                   *)
CoverFrom(l, i) == LET o == l.fields[i].over IN IF o[1] = 0 THEN 0 ELSE First(l, o[1])
CoverTo(l, i) ==
    LET o == l.fields[i].over
    IN  CASE o[2] = "here"   -> First(l, i)
          [] o[2] = "before" -> First(l, o[3])
          [] o[2] = "after"  -> End(l, o[3])

Excises(l, i) == CoverFrom(l, i) <= First(l, i) /\ CoverTo(l, i) > First(l, i)

Covers(l, i) ==
    (CoverFrom(l, i) .. CoverTo(l, i) - 1)
        \ (IF Excises(l, i) THEN First(l, i) .. End(l, i) - 1 ELSE {})

(* Mutant: a checksum may cover one computed after it.                     *)
ResolvesAnyOrder(l) ==
    \A i \in Checks(l) :
        /\ LET o == l.fields[i].over IN o[1] # i /\ (o[2] = "here" \/ o[3] # i)
        /\ CoverFrom(l, i) <= CoverTo(l, i)
        /\ Covers(l, i) # {}

(* Plan::resolve_assertions.                                               *)
Resolves(l) ==
    \A i \in Checks(l) :
        /\ LET o == l.fields[i].over IN o[1] # i /\ (o[2] = "here" \/ o[3] # i)
        /\ CoverFrom(l, i) <= CoverTo(l, i)
        /\ Covers(l, i) # {}
        /\ \A c \in Checks(l) : First(l, c) .. End(l, c) - 1 \subseteq Covers(l, i) => c <= i

(* viewless: a view cannot check a #[range] or a strict bool.              *)
Viewless(l) == l.view => \A i \in DOMAIN l.fields : l.fields[i].range = {}

Accepted(l) == Viewless(l) /\ Solves(l) /\ Resolves(Solved(l)) /\ CheckLayout(Solved(l))

----------------------------------------------------------------------------
(* Accesses.  A layout that fits a u128 is loaded into a local word; every *)
(* other access goes to the bytes it touches.                              *)
Hoisted(l)  == l.mode = "bits" /\ l.size <= Wide
Register(l) == Hoisted(l) /\ l.size <= Native

(* The local word's size in bytes.                                         *)
LocalSize(l) == IF Register(l) THEN NextPowerOfTwo(l.size) ELSE l.size

IsWide(f) == f.prim > U64 \/ f.bits > U64

(* Mutant: a window counts from the first byte whatever the byte order.    *)
WireOffsetForward(l, c0, len) == c0

WireOffset(l, c0, len) == IF l.endian = "le" THEN c0 ELSE l.size - c0 - len

At(endian, offset, len, reg, shift, bits) ==
    [endian |-> endian, offset |-> offset, len |-> len, reg |-> reg,
     shift |-> shift, bits |-> bits, tail |-> <<>>]

Window(l, at, bits, wide) ==
    LET c0    == at \div Byte
        span  == (at + bits - 1) \div Byte - c0 + 1
        shift == at % Byte
        reg   == IF wide THEN Wide ELSE NextPowerOfTwo(span)
    IN  IF span <= Wide
        THEN At(l.endian, WireOffset(l, c0, span), span, reg, shift, bits)
        ELSE [At(l.endian, WireOffset(l, c0, Wide), Wide, Wide, shift, bits) EXCEPT
                !.tail = <<WireOffset(l, c0 + Wide, 1), bits - (Wide * Byte - shift)>>]

PrefixWindow(l) == Window(l, PrefixAt(l), l.prefix, FALSE)

(* The bytes an element at bit `at` is read from and written to.           *)
InPlace(l, f, at) ==
    CASE f.reading = "nested" -> At("le", at \div Byte, f.bits \div Byte, f.bits \div Byte, 0, f.bits)
      [] f.reading # "nested" /\ (f.reading = "native" \/ l.mode = "bytes") ->
            At(l.endian, at \div Byte, f.bits \div Byte, f.bits \div Byte, 0, f.bits)
      [] f.reading \notin {"nested", "native"} /\ l.mode = "words" ->
            At(l.endian, (at - (at % WordBits)) \div Byte, 2, 2, at % WordBits, f.bits)
      [] OTHER -> Window(l, at, f.bits, IsWide(f))

Load(a, buf) ==
    LET low  == Shr(LoadBytes(a.endian, a.offset, a.len, a.reg, buf), a.shift)
        high == IF a.tail = <<>> THEN {}
                ELSE Shl(buf[a.tail[1]], Wide * Byte - a.shift, Wide * Byte)
    IN  (low \cup high) \cap Bits(a.bits)

(* Mutant: the other bits of the window are written as zeros.              *)
StoreOver(a, buf, raw) ==
    LET n     == a.reg * Byte
        new   == Shl(raw \cap Bits(a.bits), a.shift, n)
        out   == Put(buf, a.offset, a.len, Picked(a.endian, a.len, a.reg, new))
        odd   == Bits(a.tail[2])
    IN  IF a.tail = <<>> THEN out
        ELSE [out EXCEPT ![a.tail[1]] =
                (@ \cap Not(odd, Byte)) \cup (Shr(raw, Wide * Byte - a.shift) \cap odd)]

Store(a, buf, raw) ==
    LET n     == a.reg * Byte
        mask  == Bits(a.bits)
        keep  == Not(Shl(mask, a.shift, n), n)
        new   == (LoadBytes(a.endian, a.offset, a.len, a.reg, buf) \cap keep)
                    \cup Shl(raw \cap mask, a.shift, n)
        out   == Put(buf, a.offset, a.len, Picked(a.endian, a.len, a.reg, new))
        odd   == Bits(a.tail[2])
    IN  IF a.tail = <<>> THEN out
        ELSE [out EXCEPT ![a.tail[1]] =
                (@ \cap Not(odd, Byte)) \cup (Shr(raw, Wide * Byte - a.shift) \cap odd)]

----------------------------------------------------------------------------
(* Values.  decode_value, encode_raw and fits_check.                       *)
FromRaw(f, raw) ==
    IF f.reading = "int"
    THEN SignCast(raw \cap Bits(f.bits), f.bits, f.prim)
    ELSE raw \cap Bits(f.prim)

ToRaw(f, v, n) == IF f.reading = "int" THEN SignCast(v, f.prim, n) ELSE v \cap Bits(n)

Fits(f, v) ==
    CASE f.reading = "int" ->
            f.bits < U64 =>
                Shr(SignCast(v, f.prim, U64), f.bits - 1) \in {{}, Bits(U64 - f.bits + 1)}
      [] f.reading = "uint" -> f.bits < f.prim => Shr(v, f.bits) = {}
      [] OTHER -> TRUE

ElementAt(f, j) == f.at + (j - 1) * f.bits

----------------------------------------------------------------------------
(* The prefix, magics and checksums: what encode and seal write that no    *)
(* field holds.                                                            *)
(* fold_over; exclusive or stands for the algorithm the field names.       *)
Compute(bytes, covered) ==
    {b \in Bits(Byte) : Cardinality({i \in covered : b \in bytes[i]}) % 2 = 1}

StorePrefix(l, buf) ==
    IF l.pinned = {} THEN buf
    ELSE Store(PrefixWindow(l), buf, CHOOSE v \in l.pinned : TRUE)

MagicWrites(l, buf) ==
    LET bytes(i) == [k \in 0 .. End(l, i) - First(l, i) - 1 |-> l.fields[i].magic[k + 1]]
        after[i \in 0 .. Len(l.fields)] ==
            IF i = 0 THEN buf
            ELSE IF i \in Magics(l) THEN Put(after[i - 1], First(l, i), End(l, i) - First(l, i), bytes(i))
            ELSE after[i - 1]
    IN  after[Len(l.fields)]

Cleared(l, buf) ==
    [k \in DOMAIN buf |-> IF \E i \in Checks(l) : k \in First(l, i) .. End(l, i) - 1 THEN {} ELSE buf[k]]

ChecksumWrites(l, buf) ==
    LET after[i \in 0 .. Len(l.fields)] ==
            IF i = 0 THEN Cleared(l, buf)
            ELSE IF i \in Checks(l)
            THEN Store(InPlace(l, l.fields[i], l.fields[i].at), after[i - 1],
                       Compute(after[i - 1], Covers(l, i)))
            ELSE after[i - 1]
    IN  after[Len(l.fields)]

Sealed(l, buf) == ChecksumWrites(l, MagicWrites(l, StorePrefix(l, buf)))

----------------------------------------------------------------------------
(* Encode and decode.                                                      *)
StoreField(l, f, buf, value) ==
    LET after[j \in 0 .. Count(f)] ==
            IF j = 0 THEN buf
            ELSE LET a == InPlace(l, f, ElementAt(f, j))
                 IN  Store(a, after[j - 1], ToRaw(f, value[j], a.reg * Byte))
    IN  after[Count(f)]

(* The local word: a register is or-ed into, a u128 has the field replaced.*)
StoreLocal(l, f, bits, value) ==
    LET raw == ToRaw(f, value[1], IF Register(l) THEN LocalSize(l) * Byte ELSE Wide * Byte)
    IN  IF Register(l)
        THEN bits \cup Shl(raw \cap Bits(f.bits), f.at, LocalSize(l) * Byte)
        ELSE Insert(bits, f.at, f.bits, raw)

EncodePanics(l, value) ==
    \E i \in DOMAIN l.fields : \E j \in 1 .. Count(l.fields[i]) :
        LET f == l.fields[i]
        IN  \/ f.range # {} /\ value[i][j] \notin f.range
            \/ ~l.truncate /\ ~Fits(f, value[i][j])

Zeroed(l) == [k \in 0 .. l.size - 1 |-> {}]

EncodeBits(l, value) ==
    LET after[i \in 0 .. Len(l.fields)] ==
            IF i = 0 THEN UNION {{b + PrefixAt(l) : b \in v} : v \in l.pinned}
            ELSE StoreLocal(l, l.fields[i], after[i - 1], value[i])
    IN  after[Len(l.fields)]

EncodeFields(l, value) ==
    LET after[i \in 0 .. Len(l.fields)] ==
            IF i = 0 THEN Zeroed(l) ELSE StoreField(l, l.fields[i], after[i - 1], value[i])
    IN  after[Len(l.fields)]

Encode(l, value) ==
    IF Hoisted(l)
    THEN Picked(l.endian, l.size, LocalSize(l), EncodeBits(l, value))
    ELSE Sealed(l, EncodeFields(l, value))

(* One field, as a view reads it, and as decode does.                      *)
Get(l, i, buf) ==
    LET f == l.fields[i]
    IN  [j \in 1 .. Count(f) |-> FromRaw(f, Load(InPlace(l, f, ElementAt(f, j)), buf))]

LocalWord(l, buf) == LoadBytes(l.endian, 0, l.size, LocalSize(l), buf)

Read(l, i, buf) ==
    LET f == l.fields[i]
    IN  IF Hoisted(l)
        THEN <<FromRaw(f, Extract(LocalWord(l, buf), f.at, f.bits))>>
        ELSE Get(l, i, buf)

Decoded(l, buf) == [i \in DOMAIN l.fields |-> Read(l, i, buf)]

(* The checks decode and verify run, in order; the first to fail.          *)
MagicBad(l, buf) ==
    \E i \in Magics(l) : \E k \in 0 .. End(l, i) - First(l, i) - 1 :
        buf[First(l, i) + k] # l.fields[i].magic[k + 1]

PrefixBad(l, buf, loaded) ==
    /\ l.pinned # {}
    /\ (IF loaded THEN Extract(LocalWord(l, buf), PrefixAt(l), l.prefix)
                  ELSE Load(PrefixWindow(l), buf)) \notin l.pinned

RangeBad(l, buf) ==
    \E i \in DOMAIN l.fields : l.fields[i].range # {} /\ Read(l, i, buf)[1] \notin l.fields[i].range

ChecksumBad(l, buf) == \E i \in Checks(l) : Get(l, i, buf)[1] # Compute(buf, Covers(l, i))

DecodeError(l, buf) ==
    IF MagicBad(l, buf) THEN "magic"
    ELSE IF PrefixBad(l, buf, Hoisted(l)) THEN "prefix"
    ELSE IF RangeBad(l, buf) THEN "range"
    ELSE IF ChecksumBad(l, buf) THEN "checksum"
    ELSE "none"

Verify(l, buf) ==
    IF MagicBad(l, buf) THEN "magic"
    ELSE IF PrefixBad(l, buf, FALSE) THEN "prefix"
    ELSE IF ChecksumBad(l, buf) THEN "checksum"
    ELSE "none"

----------------------------------------------------------------------------
(* A record's life: declared, derived or refused, then encoded or received *)
(* and edited in place through its view.                                   *)
Element(f, p, j) == IF j % 2 = 1 THEN p \cap Bits(f.prim) ELSE Bits(f.prim) \ p

Values(l) ==
    {[i \in DOMAIN l.fields |-> [j \in 1 .. Count(l.fields[i]) |-> Element(l.fields[i], seed[i], j)]] :
        seed \in [DOMAIN l.fields -> Patterns]}

Wires(l) == {[k \in 0 .. l.size - 1 |-> {b \in Bits(Byte) : Byte * k + b \in p}] : p \in Patterns}

NoCall == [op |-> "none", field |-> 0, value |-> <<>>]
Call(op, field, value) == [op |-> op, field |-> field, value |-> value]

Init ==
    /\ lay \in Declarations
    /\ phase = "declared"
    /\ wire = <<>>
    /\ call = NoCall
    /\ sets = 0

(* derive(Layout), with its const assertions.                              *)
Derive ==
    /\ phase = "declared"
    /\ IF Accepted(lay)
       THEN phase' = "derived" /\ lay' = Solved(lay)
       ELSE phase' = "refused" /\ UNCHANGED lay
    /\ UNCHANGED <<wire, call, sets>>

(* T::encode, and the view over its bytes.                                 *)
EncodeValue ==
    /\ phase = "derived"
    /\ \E value \in Values(lay) :
        /\ call' = Call("encode", 0, value)
        /\ IF EncodePanics(lay, value)
           THEN phase' = "panicked" /\ UNCHANGED wire
           ELSE phase' = "wire" /\ wire' = Encode(lay, value)
    /\ UNCHANGED <<lay, sets>>

(* Bytes from elsewhere, with or without a view over them.                 *)
Receive ==
    /\ phase = "derived"
    /\ wire' \in Wires(lay)
    /\ phase' = "wire"
    /\ call' = Call("receive", 0, <<>>)
    /\ UNCHANGED <<lay, sets>>

(* View::set_<field>, which checks no width.                               *)
SetField ==
    /\ phase = "wire" /\ lay.view /\ sets < MaxSets
    /\ \E i \in DOMAIN lay.fields : \E p \in Patterns :
        LET f     == lay.fields[i]
            value == [j \in 1 .. Count(f) |-> Element(f, p, j)]
        IN  /\ wire' = StoreField(lay, f, wire, value)
            /\ call' = Call("set", i, value)
    /\ sets' = sets + 1
    /\ UNCHANGED <<lay, phase>>

(* View::seal, where the layout has something to stamp.                    *)
Stamped(l) == l.pinned # {} \/ Magics(l) # {} \/ Checks(l) # {}

SealView ==
    /\ phase = "wire" /\ lay.view /\ Stamped(lay) /\ call.op # "seal"
    /\ wire' = Sealed(lay, wire)
    /\ call' = Call("seal", 0, <<>>)
    /\ UNCHANGED <<lay, phase, sets>>

Next == Derive \/ EncodeValue \/ Receive \/ SetField \/ SealView

Spec == Init /\ [][Next]_vars

----------------------------------------------------------------------------
Held == IF phase = "wire" THEN Decoded(lay, wire) ELSE <<>>

(* Whatever the container, its accessors keep the promise of a record of   *)
(* independent fields: encode then decode is the value, a setter changes   *)
(* its own field to the bits of its width and no other, and seal changes   *)
(* only the fields it stamps.                                              *)
Record == INSTANCE Record WITH record <- Held, live <- phase = "wire"
IsRecord == Record!Spec

(* decode works in one register and a view in a window per field, with     *)
(* other offsets, shifts and masks: they read the same values, and the     *)
(* view's verify finds the same first fault.                               *)
ViewAgrees ==
    phase = "wire" /\ lay.view =>
        /\ \A i \in DOMAIN lay.fields : Get(lay, i, wire) = Read(lay, i, wire)
        /\ Verify(lay, wire) = DecodeError(lay, wire)

(* What encode or seal has just written passes every check of the record:  *)
(* the prefix and each magic, and each checksum though it covers others.   *)
StampsPass ==
    phase = "wire" /\ call.op \in {"encode", "seal"} => DecodeError(lay, wire) = "none"

(* Where a bit of the container, as FIELDS numbers it, is on the wire.     *)
WireByte(l, byte) ==
    IF l.endian = "le" \/ l.mode = "bytes" THEN byte
    ELSE IF l.mode = "bits" THEN l.size - 1 - byte
    ELSE 2 * (byte - (byte % 2)) + 1 - byte

WireBit(l, n) == <<WireByte(l, n \div Byte), n % Byte>>

(* The wire bits that writing element j of a field sets.                   *)
Written(l, i, j, v) ==
    LET f   == l.fields[i]
        a   == InPlace(l, f, ElementAt(f, j))
        out == Store(a, Zeroed(l), v)
    IN  UNION {{<<k, b>> : b \in out[k]} : k \in DOMAIN out}

Touched(l, i) == UNION {Written(l, i, j, Bits(l.fields[i].bits)) : j \in 1 .. Count(l.fields[i])}

(* order = msb, endian = be is the numbering of a standard's table: bit d, *)
(* counted from the first field's most significant bit, is the d-th sent.  *)
NetworkOrder(i) ==
    \A k \in Bits(lay.fields[i].bits) :
        LET d == Declared(lay, i) + k
        IN  Written(lay, i, 1, {lay.fields[i].bits - 1 - k}) = {<<d \div Byte, Byte - 1 - (d % Byte)>>}

(* The FIELDS table of an accepted layout says where each field is on the  *)
(* wire, and in network order the declaration says where each bit is.      *)
TableIsWire ==
    phase = "derived" =>
        \A i \in DOMAIN lay.fields :
            /\ Touched(lay, i) =
                UNION {{WireBit(lay, n) : n \in r.start .. r.start + r.width - 1} : r \in RowsOf(lay, i)}
            /\ lay.mode # "bytes" /\ lay.endian = "be" /\ lay.order = "msb" /\ Packed(lay.fields[i])
                => NetworkOrder(i)

(* The fields of an accepted layout are apart on the wire.                 *)
FieldsApart ==
    phase = "derived" =>
        \A i, k \in DOMAIN lay.fields : i # k => Touched(lay, i) \cap Touched(lay, k) = {}
============================================================================
