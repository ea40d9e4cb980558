-------------------------------- MODULE Walk --------------------------------
(***************************************************************************)
(* The code layline-codegen generates for a byte-addressed message          *)
(* (walk/message): encode, which appends the segments in declaration order, *)
(* reserves the fields whose number is not known yet, fills them in later   *)
(* and stamps the checksums; and decode, which reads the segments back and  *)
(* follows the stated offsets, counts and lengths.  The generator's own     *)
(* decisions (which models it refuses, which checksums it stamps late) are  *)
(* the operators of the first half.                                         *)
(*                                                                         *)
(* A behaviour takes one message definition, one value and one buffer, and  *)
(* encodes, perhaps damages one byte, and decodes.  Every scalar, element,  *)
(* character, record, optional field and checksum is one byte, a            *)
(* variable-length number one or two; a switch's arm is as many as it       *)
(* declares.  A checksum is ideal: its byte carries the bytes it was        *)
(* computed over.                                                           *)
(***************************************************************************)
EXTENDS Integers, FiniteSets, SequencesExt, TLC

CONSTANTS
  Bodies,     \* the message definitions considered: sequences of segments
  Caps,       \* the sizes of the Buffer encode is given
  Before,     \* bytes the Buffer already holds when encode is called
  MaxNum,     \* the largest number a field holds
  MaxRun,     \* bound: elements of a collection
  Held,       \* the number a caller leaves in every plain field
  Fragile(_)  \* whether one written byte of a definition's message may change before decode

ASSUME WalkAssumption ==
  /\ Caps \subseteq Nat /\ Before \in Nat
  /\ MaxNum \in Nat /\ MaxRun \in Nat /\ Held \in 0 .. MaxNum
  /\ \A b \in Bodies : Fragile(b) \in BOOLEAN

----------------------------------------------------------------------------
(* The model: segments, references and the fields encode computes *)

\* A reference is <<field>>, <<nested layout, field>> or NoRef.
NoRef == <<>>

\* inner names the fields of a nested layout; <<>> for a scalar.
Field(name, inner) == [name |-> name, inner |-> inner]
Block(fields) == [kind |-> "block", fields |-> fields]
\* A parameter the holder states (MessageDef::needs), and a variable-length number.
Needs(name) == [kind |-> "needs", name |-> name]
Var(name) == [kind |-> "var", name |-> name]
\* count: "field" (Count::Field, and a text with Len::Field), "squared", "strided", "window"
\* (Count::Window(Len::Field)), "bytes" (Len::Bytes), "until" (Len::Until), "marked"
\* (Count::Terminated), "fill", "padded" (a text with Len::Bytes) or "nested" (a message that
\* is one run, whose count is the parameter this one states with #[with]).
\* key is the number of bytes, the terminator or the mask; most holds the cap, if any.
\* The number decode uses is scale times the stated one, plus offset.
\* nul: the characters are zero bytes.
Repeat(name, count, by, at) ==
  [kind |-> "repeat", name |-> name, count |-> count, by |-> by, at |-> at, stride |-> NoRef,
   key |-> 0, scale |-> 1, offset |-> 0, most |-> {}, align |-> 1, borrowed |-> FALSE, nul |-> FALSE]
\* absent: "never", "offset" (Absence::ZeroOffset) or "length" (Absence::ZeroLength).
Placed(name, at, absent, by) ==
  [kind |-> "placed", name |-> name, at |-> at, absent |-> absent, by |-> by, align |-> 1]
\* on: a field, or NoRef for the body's length.  window: "none", "bytes" (key of them) or
\* "field".  open: what the choice does with any other number: "closed", "fixed" or "rest".
Arm(number, width) == [number |-> number, width |-> width]
Switch(name, on, window, by, arms, open) ==
  [kind |-> "switch", name |-> name, on |-> on, window |-> window, by |-> by, arms |-> arms,
   open |-> open, key |-> 0, scale |-> 1, offset |-> 0, most |-> {}, align |-> 1]
\* Present when the masked bit equals set (Mask, MaskClear); flag is NoRef for Remaining.
Opt(name, flag, mask, set) == [kind |-> "opt", name |-> name, flag |-> flag, mask |-> mask, set |-> set]
\* from: a field or "start"; to: "here", "before" or "after" the field named by end.
Checksum(name, from, to, end) ==
  [kind |-> "checksum", name |-> name, from |-> from, to |-> to, end |-> end]

Names(fields) == [k \in 1 .. Len(fields) |-> fields[k].name]
Rows(b, kind) == SelectSeq(b, LAMBDA seg : seg.kind = kind)
Fields(b) == FlattenSeq([k \in 1 .. Len(Rows(b, "block")) |-> Rows(b, "block")[k].fields])
Checks(b) == Rows(b, "checksum")
Vars(b) == ToSet(Names(Rows(b, "var")))
IsParam(b, ref) == ref # NoRef /\ ref[1] \in ToSet(Names(Rows(b, "needs")))

\* Segment::places: the names always written, in wire order.
Places(seg) ==
  CASE seg.kind = "block" -> Names(seg.fields)
    [] seg.kind \in {"opt", "needs"} -> <<>>
    [] seg.kind = "placed" -> IF seg.absent = "never" THEN <<seg.name>> ELSE <<>>
    [] OTHER -> <<seg.name>>

\* Position of a name in wire order; 0 for one that has none.
Order(b, name) ==
  SelectInSeq(FlattenSeq([k \in 1 .. Len(b) |-> Places(b[k])]), LAMBDA p : p = name)
OrderOfRef(b, ref) == IF Len(ref) = 1 THEN Order(b, ref[1]) ELSE 0

Derived(field, what, of, mask) == [field |-> field, what |-> what, of |-> of, mask |-> mask]
DerivedBy(seg) ==
  SelectSeq(
    CASE seg.kind = "repeat" ->
           <<Derived(IF seg.count = "nested" THEN NoRef ELSE seg.by,
                     CASE seg.count = "window" -> "ByteLen"
                       [] seg.count = "squared" -> "Squared"
                       [] OTHER -> "Count",
                     seg.name, 0),
             Derived(seg.stride, "Stride", seg.name, 0),
             Derived(seg.at, "Offset", seg.name, 0)>>
      [] seg.kind = "switch" ->
           <<Derived(seg.on, "Discriminant", seg.name, 0), Derived(seg.by, "ArmLen", seg.name, 0)>>
      [] seg.kind = "placed" ->
           <<Derived(seg.at, "Offset", seg.name, 0), Derived(seg.by, "ByteLen", seg.name, 0)>>
      [] seg.kind = "opt" -> <<Derived(seg.flag, "Flags", seg.name, seg.mask)>>
      [] seg.kind = "checksum" -> <<Derived(<<seg.name>>, "Checksum", seg.name, 0)>>
      [] OTHER -> <<>>,
    LAMBDA d : d.field # NoRef)
Derivations(b) == FlattenSeq([k \in 1 .. Len(b) |-> DerivedBy(b[k])])
DerivationsOf(b, ref) == SelectSeq(Derivations(b), LAMBDA d : d.field = ref)

\* The derivations whose field encode reserves and fills in after the segment.
Reserves(d) == d.what \in {"Offset", "ByteLen"}
BackPatched(b) == SelectSeq(Derivations(b), Reserves)

----------------------------------------------------------------------------
(* Coverage: which places a checksum covers, and when it can be computed *)

EndOf(c) == IF c.to = "here" THEN c.name ELSE c.end
FirstPlace(b, c) == IF c.from = "start" THEN 1 ELSE Order(b, c.from)
LastPlace(b, c) == IF c.to = "after" THEN Order(b, c.end) ELSE Order(b, EndOf(c)) - 1
Excises(b, c) == Order(b, c.name) \in FirstPlace(b, c) .. LastPlace(b, c)
CoveredPlaces(b, c) == (FirstPlace(b, c) .. LastPlace(b, c)) \ {Order(b, c.name)}

\* validate/coverage.rs coverage.
CoverageOk(b, c) ==
  /\ c.from # c.name
  /\ c.to # "here" => c.end # c.name
  /\ c.from # "start" => Order(b, c.from) # 0
  /\ Order(b, EndOf(c)) # 0
  /\ LastPlace(b, c) >= 1
  /\ FirstPlace(b, c) <= LastPlace(b, c)

RunsPast(b, c) ==
  \/ c.to = "before" /\ Order(b, c.end) > Order(b, c.name)
  \/ c.to = "after" /\ Order(b, c.end) >= Order(b, c.name)

\* The range holds a reserved field whose segment comes after the checksum.
CoversLaterPatch(b, c) ==
  \E k \in 1 .. Len(BackPatched(b)) :
    LET d == BackPatched(b)[k]
        slot == OrderOfRef(b, d.field)
        filler == Order(b, d.of)
    IN  /\ slot # 0 /\ filler # 0
        /\ slot \in FirstPlace(b, c) .. LastPlace(b, c)
        /\ filler > Order(b, c.name)

\* Encode writes a placeholder and stamps the checksum after every segment.
Late(b, c) == RunsPast(b, c) \/ CoversLaterPatch(b, c)
LateChecks(b) == SelectSeq(Checks(b), LAMBDA c : Late(b, c))
LateVerified(b) == SelectSeq(Checks(b), LAMBDA c : RunsPast(b, c))

WaitsOn(b, k) ==
  {j \in 1 .. Len(Checks(b)) \ {k} : Order(b, Checks(b)[j].name) \in CoveredPlaces(b, Checks(b)[k])}

\* Mutant: a checksum may cover only those declared before it.
StampableInOrder(b) ==
  \A k \in 1 .. Len(Checks(b)) : WaitsOn(b, k) \subseteq 1 .. k - 1

\* stampable: take the first checksum that waits on none left, until all are taken.
Stampable(b) ==
  LET all == 1 .. Len(Checks(b))
      Take(taken, k) ==
        LET ready == {j \in all \ taken : WaitsOn(b, j) \subseteq taken}
        IN  IF ready = {} THEN taken ELSE taken \cup {CHOOSE j \in ready : \A m \in ready : j <= m}
  IN  FoldLeft(Take, {}, Checks(b)) = all

----------------------------------------------------------------------------
(* What the generator accepts *)

\* resolve: the reference names an integer declared before segment i.
Known(b, i, ref) ==
  LET before == SubSeq(b, 1, i - 1)
  IN  \/ \E f \in ToSet(Fields(before)) :
           /\ f.name = ref[1]
           /\ IF Len(ref) = 1 THEN f.inner = <<>> ELSE ref[2] \in ToSet(f.inner)
      \/ Len(ref) = 1 /\ (ref[1] \in Vars(before) \/ IsParam(before, ref))

\* The bytes of an open arm: as many as it declares, or here two of any number.
OpenWidth(seg) == IF seg.open = "rest" THEN 2 ELSE 1
ArmWidth(seg, k) == IF k = 0 THEN OpenWidth(seg) ELSE seg.arms[k].width
Numbered(seg) == {seg.arms[k].number : k \in 1 .. Len(seg.arms)}

\* A switch as validated, and as the assertions generated for it hold: nothing follows one
\* that may read to the end, and in a window of so many bytes every arm is that long.
SwitchOk(b, i, seg) ==
  /\ seg.on = NoRef => seg.window = "none"
  /\ seg.window = "none" /\ seg.open = "rest" => i = Len(b)
  /\ seg.window = "bytes" =>
       /\ \A k \in 1 .. Len(seg.arms) : seg.arms[k].width = seg.key
       /\ seg.open = "fixed" => OpenWidth(seg) = seg.key
  /\ Cardinality(Numbered(seg)) = Len(seg.arms)

\* read_only: encode never writes a parameter, so it states no position, length or presence.
ParamMay(seg, k) ==
  DerivedBy(seg)[k].what \notin {"Offset", "Flags"} /\ seg.kind # "placed"

\* validate_segments.
Validated(b) ==
  /\ \A i \in 1 .. Len(b) :
       LET seg == b[i]
       IN  /\ seg.kind # "checksum" => \A k \in 1 .. Len(DerivedBy(seg)) : Known(b, i, DerivedBy(seg)[k].field)
           /\ seg.kind = "placed" => seg.by # seg.at
           /\ seg.kind = "repeat" /\ seg.count = "fill" => i = Len(b)
           /\ seg.kind = "repeat" /\ seg.count = "strided" => seg.stride # seg.by
           /\ seg.kind = "repeat" /\ seg.count = "bytes" => seg.at = NoRef
           /\ seg.kind = "repeat" /\ seg.count = "nested" => Len(seg.by) = 1 /\ Known(b, i, seg.by)
           /\ seg.kind = "repeat" /\ seg.borrowed => seg.count \in {"field", "window", "bytes", "fill"}
           /\ \A k \in 1 .. Len(DerivedBy(seg)) : IsParam(b, DerivedBy(seg)[k].field) => ParamMay(seg, k)
           /\ seg.kind = "switch" => SwitchOk(b, i, seg)
           /\ seg.kind = "checksum" => CoverageOk(b, seg)
  /\ Stampable(b)

\* Mutant: a length in bytes and a count may be stated by one field.
ClashesApart(b) ==
  \E j, k \in 1 .. Len(Derivations(b)) :
    /\ Derivations(b)[j].field = Derivations(b)[k].field
    /\ ~IsParam(b, Derivations(b)[j].field)
    /\ Derivations(b)[j].what # Derivations(b)[k].what
    /\ {Derivations(b)[j].what, Derivations(b)[k].what} # {"ByteLen", "Count"}

\* clashes: one field, two different derivations; a parameter has none, for encode checks
\* each of its uses.  The strides here are all one byte and unscaled, so no two clash, and no
\* presence is a whole bool.
Clashes(b) ==
  \E j, k \in 1 .. Len(Derivations(b)) :
    /\ Derivations(b)[j].field = Derivations(b)[k].field
    /\ ~IsParam(b, Derivations(b)[j].field)
    /\ Derivations(b)[j].what # Derivations(b)[k].what

\* A block reserves a plain field for its first derivation only; stamp_slot refuses
\* a segment for which no slot was reserved.  One that a parameter sizes stamps nothing,
\* unless it is borrowed.
HasSlot(b, d) ==
  \/ Len(d.field) = 2
  \/ d.field[1] \in ToSet(Names(Fields(b))) /\ DerivationsOf(b, d.field)[1] = d
  \/ IsParam(b, d.field) /\ \A seg \in ToSet(Rows(b, "repeat")) : seg.name = d.of => ~seg.borrowed

Generated(b) ==
  Validated(b) /\ ~Clashes(b) /\ \A k \in 1 .. Len(BackPatched(b)) : HasSlot(b, BackPatched(b)[k])

----------------------------------------------------------------------------
(* Bytes and values *)

\* of is <<>>, or the bytes a checksum was computed over.
Number(n) == [n |-> n, of |-> <<>>]
CheckOver(bytes) == [n |-> MaxNum, of |-> <<bytes>>]

Overwrite(bytes, pos, new) ==
  [k \in 1 .. Len(bytes) |-> IF k - pos \in 1 .. Len(new) THEN new[k - pos] ELSE bytes[k]]

\* How many elements each segment that holds data may have; for a switch its arm, 0 for the
\* open one, and for a parameter its number.
Sizes(seg) ==
  CASE seg.kind = "repeat" -> 0 .. MaxRun
    [] seg.kind = "switch" -> (IF seg.open = "closed" THEN 1 ELSE 0) .. Len(seg.arms)
    [] seg.kind = "placed" /\ seg.absent = "never" -> {1}
    [] seg.kind = "needs" -> 0 .. MaxRun
    [] OTHER -> {0, 1}
DataSegments(b) == {i \in 1 .. Len(b) : b[i].kind \in {"repeat", "placed", "opt", "switch", "needs"}}
Values(b) ==
  {v \in [DataSegments(b) -> 0 .. MaxRun] : \A i \in DataSegments(b) : v[i] \in Sizes(b[i])}

Bit(n, mask) == (n \div mask) % 2
WithBit(n, mask, bit) == n + (bit - Bit(n, mask)) * mask

\* A number of a VarCodec: one byte below 2, else two; and what decode reads of two bytes.
VarBytes(n) == IF n < 2 THEN <<Number(n)>> ELSE <<Number(2 + (n % 2)), Number(n \div 2)>>
VarOf(low, high) == IF low < 2 THEN low ELSE low - 2 + 2 * high

\* The zeros after n bytes up to a multiple of align.
Padding(align, n) == (align - (n % align)) % align

\* What a computed number is when encode refuses to state it: no field holds it.
Unstatable == -1
\* affine_inverse: the number from which decode computes n again.
AffineInverse(seg, n) ==
  IF n < seg.offset \/ (n - seg.offset) % seg.scale # 0 \/ \E most \in seg.most : n > most
  THEN Unstatable ELSE (n - seg.offset) \div seg.scale
\* The side of a square of n elements; the cap is on the elements.
SideOf(seg, n) ==
  IF (\E k \in 0 .. n : k * k = n) /\ \A most \in seg.most : n <= most
  THEN AffineInverse([seg EXCEPT !.most = {}], CHOOSE k \in 0 .. n : k * k = n) ELSE Unstatable

----------------------------------------------------------------------------
VARIABLES
  body, value, cap,  \* the message definition, the value, the Buffer's size
  phase,
  i,                 \* the segment being written or read; past the last, the late checksums
  out,               \* the Buffer
  outEdge,           \* name -> <<first byte, past the last>>, in out
  child,             \* nested layout -> the fields encode wrote into it
  measured,          \* switch -> the bytes its arm took when it was measured
  damaged,           \* the byte of out that changed, 0 for none
  at, hi,            \* decode's cursor, and the furthest it has been
  inEdge,            \* as outEdge, for decode, counted from the message's first byte
  got                \* what decode has read

vars == <<body, value, cap, phase, i, out, outEdge, child, measured, damaged, at, hi, inEdge, got>>
encoder == <<out, outEdge, child, measured>>
decoder == <<at, hi, inEdge, got>>

Empty == [x \in {} |-> <<>>]

Init ==
  /\ body \in Bodies /\ value \in Values(body) /\ cap \in Caps
  /\ phase = "model" /\ i = 1
  /\ out = [k \in 1 .. Before |-> Number(MaxNum)]
  /\ outEdge = Empty /\ child = Empty /\ measured = Empty /\ damaged = 0
  /\ at = 0 /\ hi = 0 /\ inEdge = Empty /\ got = Empty

\* The switches whose length a field states; a parameter has no derivation.
Windowed(b) ==
  SelectSeq(b, LAMBDA seg : seg.kind = "switch" /\ seg.window = "field" /\ ~IsParam(b, seg.by))

\* The definition reaches the generator.
Generate ==
  /\ phase = "model"
  /\ phase' = CASE ~Generated(body) -> "refused"
                [] Generated(body) /\ Windowed(body) # <<>> -> "measure"
                [] OTHER -> "encode"
  /\ UNCHANGED <<body, value, cap, i, encoder, damaged, decoder>>

----------------------------------------------------------------------------
(* Encode *)

Seg == body[i]
Message == SubSeq(out, Before + 1, Len(out))
Here == Len(out) - Before

Source(name) == body[SelectInSeq(body, LAMBDA seg : seg.kind # "block" /\ seg.name = name)]
Present(name) == \E j \in DataSegments(body) : body[j].name = name /\ value[j] > 0
Length(name) == value[CHOOSE j \in DataSegments(body) : body[j].name = name]

\* derived_value: the number a segment's derivation gives its field; reserved ones hold 0.
DerivedNumber(d) ==
  CASE d.what = "Count" -> AffineInverse(Source(d.of), Length(d.of))
    [] d.what = "Squared" -> SideOf(Source(d.of), Length(d.of))
    [] d.what = "Stride" -> 1
    [] d.what = "ArmLen" -> AffineInverse(Source(d.of), measured[d.of])
    [] d.what = "Discriminant" ->
         IF Length(d.of) = 0 THEN Held ELSE Source(d.of).arms[Length(d.of)].number
    [] OTHER -> 0

\* The number a field holds when its block is written.
FieldNumber(ref) ==
  LET ds == DerivationsOf(body, ref)
      Clear(n, d) == WithBit(n, d.mask, 0)
      Mark(n, d) == IF Present(d.of) = Source(d.of).set THEN WithBit(n, d.mask, 1) ELSE n
      \* Each derivation of a nested field sets it; a plain field takes its first.
      d == IF Len(ref) = 2 THEN ds[Len(ds)] ELSE ds[1]
  IN  CASE ds = <<>> -> Held
        [] ds # <<>> /\ d.what = "Flags" -> FoldLeft(Mark, FoldLeft(Clear, Held, ds), ds)
        [] OTHER -> DerivedNumber(d)

\* The number a caller left in a field or passed as a parameter: Walk::held, param_number.
HeldNumber(ref) == IF IsParam(body, ref) THEN Length(ref[1]) ELSE Held
Passed(seg) == HeldNumber(seg.by) * seg.scale + seg.offset

InnerOf(outer) ==
  LET k == SelectInSeq(Names(Fields(body)), LAMBDA name : name = outer)
  IN  Fields(body)[k].inner
ChildBytes(outer, c) == [k \in 1 .. Len(InnerOf(outer)) |-> Number(c[InnerOf(outer)[k]])]
NewChild(outer) == [inner \in ToSet(InnerOf(outer)) |-> FieldNumber(<<outer, inner>>)]

FieldBytes(f) ==
  IF f.inner = <<>> THEN <<Number(FieldNumber(<<f.name>>))>> ELSE ChildBytes(f.name, NewChild(f.name))
FieldWidth(f) == IF f.inner = <<>> THEN 1 ELSE Len(f.inner)
WidthOf(fields) == FoldLeft(LAMBDA n, f : n + FieldWidth(f), 0, fields)

\* The edges of a block's fields, the block starting at byte start.
BlockEdges(fields, start) ==
  [name \in ToSet(Names(fields)) |->
     LET k == SelectInSeq(fields, LAMBDA f : f.name = name)
         first == start + WidthOf(SubSeq(fields, 1, k - 1))
     IN  <<first, first + FieldWidth(fields[k])>>]

\* Mutant: a nested layout is encoded afresh for each of its reserved fields.
StampFresh(s, what, n) ==
  LET ds == SelectSeq(Derivations(body), LAMBDA d : d.of = Seg.name /\ d.what = what)
      ref == ds[1].field
      pos == outEdge[ref[1]][1]
      fresh == [NewChild(ref[1]) EXCEPT ![ref[2]] = n]
  IN  CASE ds = <<>> -> s
        [] ds # <<>> /\ Len(ref) = 1 -> [s EXCEPT !.out = Overwrite(s.out, pos, <<Number(n)>>)]
        [] OTHER -> [s EXCEPT !.out = Overwrite(s.out, pos, ChildBytes(ref[1], fresh))]

\* Write number n into the slot reserved for this segment; s is [out, child].
Stamp(s, what, n) ==
  LET ds == SelectSeq(Derivations(body), LAMBDA d : d.of = Seg.name /\ d.what = what)
      ref == ds[1].field
      pos == outEdge[ref[1]][1]
      kept == [s.child EXCEPT ![ref[1]][ref[2]] = n]
  IN  CASE ds = <<>> -> s
        [] ds # <<>> /\ Len(ref) = 1 -> [s EXCEPT !.out = Overwrite(s.out, pos, <<Number(n)>>)]
        [] OTHER -> [out |-> Overwrite(s.out, pos, ChildBytes(ref[1], kept[ref[1]])), child |-> kept]

\* A segment's writes ended: a number its field cannot hold panics, a push that did
\* not fit returns Overflow, and otherwise the next segment's turn comes.
Wrote(numbers, wanted, s, edges) ==
  /\ IF ~(numbers \subseteq 0 .. MaxNum)
     THEN phase' = "panic" /\ UNCHANGED <<i, out, child, outEdge>>
     ELSE /\ out' = s.out /\ child' = s.child
          /\ outEdge' = outEdge @@ edges
          /\ IF Len(s.out) = wanted THEN i' = i + 1 /\ UNCHANGED phase
                                    ELSE phase' = "overflow" /\ UNCHANGED i
  /\ UNCHANGED <<body, value, cap, measured, damaged, decoder>>

\* Mutant: the last byte of the buffer is never used.
PushedShort(bytes, new) == IF Len(bytes) + Len(new) < cap THEN bytes \o new ELSE bytes

\* Buffer::push of a fixed buffer: all the bytes or none.
Pushed(bytes, new) == IF Len(bytes) + Len(new) <= cap THEN bytes \o new ELSE bytes

Writing(kind) == phase = "encode" /\ i <= Len(body) /\ Seg.kind = kind

Now == [out |-> out, child |-> child]
Zeros(n) == [k \in 1 .. n |-> Number(0)]

\* A switch whose length a field states is encoded once before anything else, measured
\* and rewound; one that does not fit is rewound as well, and Overflow returned.
MeasureArm ==
  /\ phase = "measure"
  /\ LET seg == Windowed(body)[i]
         arm == [k \in 1 .. ArmWidth(seg, Length(seg.name)) |-> Number(i)]
         wrote == Pushed(out, arm)
     IN  /\ out' = SubSeq(wrote, 1, Len(out))
         /\ measured' = measured @@ (seg.name :> Len(wrote) - Len(out))
         /\ CASE Len(wrote) < Len(out) + Len(arm) -> phase' = "overflow" /\ UNCHANGED i
              [] Len(wrote) = Len(out) + Len(arm) /\ i < Len(Windowed(body)) ->
                   i' = i + 1 /\ UNCHANGED phase
              [] OTHER -> phase' = "encode" /\ i' = 1
  /\ UNCHANGED <<body, value, cap, outEdge, child, damaged, decoder>>

\* A parameter is not on the wire.
EncodeNeeds == Writing("needs") /\ Wrote({}, Len(out), Now, Empty)

EncodeVar ==
  /\ Writing("var")
  /\ LET n == FieldNumber(<<Seg.name>>)
         new == VarBytes(n)
     IN  Wrote({n}, Len(out) + Len(new), [Now EXCEPT !.out = Pushed(out, new)],
               Seg.name :> <<Len(out), Len(out) + Len(new)>>)

EncodeBlock ==
  /\ Writing("block")
  /\ LET bytes == FlattenSeq([k \in 1 .. Len(Seg.fields) |-> FieldBytes(Seg.fields[k])])
         nested == {f.name : f \in {x \in ToSet(Seg.fields) : x.inner # <<>>}}
     IN  Wrote({bytes[k].n : k \in 1 .. Len(bytes)}, Len(out) + Len(bytes),
               [out |-> Pushed(out, bytes), child |-> child @@ [name \in nested |-> NewChild(name)]],
               BlockEdges(Seg.fields, Len(out)))

\* What ends a run: its terminator, or the padding of its text or after its length.
EndOfRun(seg, n) ==
  CASE seg.count = "until" -> <<Number(seg.key)>>
    [] seg.count = "padded" -> Zeros(IF n < seg.key THEN seg.key - n ELSE 0)
    [] OTHER -> Zeros(Padding(seg.align, n))

\* The elements of a run, the last of a marked one with its mask set.
Elements(seg, j, n) ==
  LET each == IF seg.nul THEN 0 ELSE j
  IN  [k \in 1 .. n |->
         Number(IF seg.count = "marked" /\ k = n THEN WithBit(each, seg.key, 1) ELSE each)]

\* The bytes of a run of n elements, its end included and padding after its length not.
RunBytes(seg, n) ==
  CASE seg.count = "until" -> n + 1
    [] seg.count = "padded" -> seg.key
    [] OTHER -> n

\* Encode checks a run against the number the holder writes; a borrowed one it does not check.
Asserted(seg) == seg.count = "nested" \/ (IsParam(body, seg.by) /\ ~seg.borrowed)
Agrees(seg, n) == n = IF seg.count = "squared" THEN Passed(seg) * Passed(seg) ELSE Passed(seg)

\* The numbers a run states, and Unstatable for an assertion that fails, among those encode
\* reaches when the first written of n elements fit.
RunStates(seg, j, n, written) ==
  (IF seg.at = NoRef THEN {} ELSE {Here})
    \cup (IF seg.count = "window" /\ ~Asserted(seg) /\ written = n THEN {AffineInverse(seg, n)} ELSE {})
    \cup (IF \/ Asserted(seg) /\ ~Agrees(seg, n) /\ (seg.count = "window" => written = n)
             \/ seg.count = "bytes" /\ written = n /\ n # seg.key
             \/ seg.count = "padded" /\ written = n /\ (n > seg.key \/ (seg.nul /\ n > 0))
             \/ seg.count = "until" /\ written > 0 /\ j = seg.key
             \/ seg.count = "marked" /\ (n = 0 \/ (written > 1 /\ Bit(j, seg.key) = 1))
             \/ seg.count = "fill" /\ \E most \in seg.most : n > most
           THEN {Unstatable} ELSE {})

\* The position is stamped, the elements are pushed one by one, borrowed ones at once, the
\* length is stamped, and the end is pushed.
EncodeRepeat ==
  /\ Writing("repeat")
  /\ LET n == value[i]
         room == IF Len(out) + n <= cap THEN n ELSE IF Seg.borrowed THEN 0 ELSE cap - Len(out)
         end == EndOfRun(Seg, n)
         placed == IF Seg.at = NoRef THEN Now ELSE Stamp(Now, "Offset", Here)
         written == [placed EXCEPT !.out = @ \o SubSeq(Elements(Seg, i, n), 1, room)]
         sized == IF Seg.count = "window" /\ ~Asserted(Seg)
                  THEN Stamp(written, "ByteLen", AffineInverse(Seg, n)) ELSE written
         done == IF room = n THEN [sized EXCEPT !.out = Pushed(@, end)] ELSE written
     IN  Wrote(RunStates(Seg, i, n, room), Len(out) + n + Len(end), done,
               Seg.name :> <<Len(out), Len(out) + RunBytes(Seg, n)>>)

\* A present record states its position and its length and is padded; an absent one states
\* zeros.
EncodePlaced ==
  /\ Writing("placed")
  /\ LET n == value[i]
         start == IF n = 1 THEN Here ELSE 0
         pad == Zeros(n * Padding(Seg.align, n))
         placed == Stamp(Now, "Offset", start)
         written == [placed EXCEPT !.out = Pushed(@, [k \in 1 .. n |-> Number(i)])]
         done == IF Len(written.out) = Len(out) + n
                 THEN [Stamp(written, "ByteLen", n) EXCEPT !.out = Pushed(@, pad)] ELSE written
     IN  Wrote({start, n}, Len(out) + n + Len(pad), done, Seg.name :> <<Len(out), Len(out) + n>>)

\* The arm is encoded again; then an arm that does not fill its window of so many bytes
\* panics, one that is not what a parameter says, and an open one whose number the choice
\* defines.
EncodeSwitch ==
  /\ Writing("switch")
  /\ LET n == ArmWidth(Seg, value[i])
         pad == Zeros(Padding(Seg.align, n))
         written == Pushed(out, [k \in 1 .. n |-> Number(i)])
         whole == Len(written) = Len(out) + n
         number == IF Seg.on = NoRef THEN n ELSE HeldNumber(Seg.on)
         panics == \/ Seg.window = "bytes" /\ n # Seg.key
                   \/ IsParam(body, Seg.on) /\ value[i] > 0 /\ Seg.arms[value[i]].number # number
                   \/ Seg.window = "field" /\ IsParam(body, Seg.by) /\ n # Passed(Seg)
                   \/ value[i] = 0 /\ number \in Numbered(Seg)
     IN  Wrote(IF whole /\ panics THEN {Unstatable} ELSE {}, Len(out) + n + Len(pad),
               [Now EXCEPT !.out = IF whole THEN Pushed(written, pad) ELSE written],
               Seg.name :> <<Len(out), Len(out) + n>>)

EncodeOpt ==
  /\ Writing("opt")
  /\ LET new == [k \in 1 .. value[i] |-> Number(i)]
     IN  Wrote({}, Len(out) + value[i], [Now EXCEPT !.out = Pushed(out, new)], Empty)

\* Mutant: a range ends at its hole.
CoveredToHole(bytes, c, edges, start, here) ==
  LET from == IF c.from = "start" THEN start ELSE edges[c.from][1]
      to == IF c.to = "here" THEN here ELSE edges[c.end][IF c.to = "before" THEN 1 ELSE 2]
  IN  SubSeq(bytes, from + 1, IF Excises(body, c) THEN here ELSE to)

\* The bytes checksum c covers: from its first edge to its last, less its own byte.
\* start is the message's first byte and here the checksum's.
CoveredFrom(c, edges, start) == IF c.from = "start" THEN start ELSE edges[c.from][1]
CoveredTo(c, edges, here) ==
  CASE c.to = "here" -> here
    [] c.to = "before" -> edges[c.end][1]
    [] c.to = "after" -> edges[c.end][2]
CoveredBytes(bytes, c, edges, start, here) ==
  LET from == CoveredFrom(c, edges, start)
      to == CoveredTo(c, edges, here)
  IN  IF Excises(body, c) THEN SubSeq(bytes, from + 1, here) \o SubSeq(bytes, here + 2, to)
                          ELSE SubSeq(bytes, from + 1, to)

\* A late checksum is a placeholder for now.
EncodeChecksum ==
  /\ Writing("checksum")
  /\ LET new == IF Late(body, Seg) THEN Number(0)
                ELSE CheckOver(CoveredBytes(out, Seg, outEdge, Before, Len(out)))
     IN  Wrote({}, Len(out) + 1, [Now EXCEPT !.out = Pushed(out, <<new>>)],
               Seg.name :> <<Len(out), Len(out) + 1>>)

\* late_stamps: after every segment, in declaration order.
StampLate ==
  LET late == LateChecks(body)
      c == late[i - Len(body)]
      here == outEdge[c.name][1]
  IN  /\ phase = "encode" /\ i - Len(body) \in 1 .. Len(late)
      /\ out' = Overwrite(out, here, <<CheckOver(CoveredBytes(out, c, outEdge, Before, here))>>)
      /\ i' = i + 1
      /\ UNCHANGED <<body, value, cap, phase, outEdge, child, measured, damaged, decoder>>

EncodeReturns ==
  /\ phase = "encode" /\ i = Len(body) + Len(LateChecks(body)) + 1
  /\ phase' = "written"
  /\ UNCHANGED <<body, value, cap, i, encoder, damaged, decoder>>

----------------------------------------------------------------------------
(* Between the two *)

Damage ==
  /\ phase = "written" /\ Fragile(body) /\ damaged = 0
  /\ \E k \in Before + 1 .. Len(out), n \in 0 .. MaxNum :
       /\ Number(n) # out[k]
       /\ out' = [out EXCEPT ![k] = Number(n)]
       /\ damaged' = k
  /\ UNCHANGED <<body, value, cap, phase, i, outEdge, child, measured, decoder>>

DecodeCalled ==
  /\ phase = "written"
  /\ phase' = "decode" /\ i' = 1
  /\ UNCHANGED <<body, value, cap, encoder, damaged, decoder>>

----------------------------------------------------------------------------
(* Decode *)

Reading(kind) == phase = "decode" /\ i <= Len(body) /\ Seg.kind = kind

Stated(ref) == got[ref][1].n

\* A segment was read up to byte end, unless it is not all there.
Read(ok, end, values, edges) ==
  /\ IF ok
     THEN /\ at' = end /\ hi' = (IF end > hi THEN end ELSE hi)
          /\ got' = got @@ values /\ inEdge' = inEdge @@ edges
          /\ i' = i + 1 /\ UNCHANGED phase
     ELSE phase' = "rejected" /\ UNCHANGED <<i, decoder>>
  /\ UNCHANGED <<body, value, cap, encoder, damaged>>

Bytes(from, n) == SubSeq(Message, from + 1, from + n)

\* The caller passes decode the parameters it passed encode.
DecodeNeeds == Reading("needs") /\ Read(TRUE, at, <<Seg.name>> :> <<Number(value[i])>>, Empty)

\* A low byte from 2 takes another; a byte of no code word, or a number past the type, is
\* refused.
DecodeVar ==
  /\ Reading("var")
  /\ LET low == IF at < Len(Message) THEN Message[at + 1].n ELSE MaxNum + 1
         end == at + (IF low < 2 THEN 1 ELSE 2)
         n == VarOf(low, IF end <= Len(Message) THEN Message[end].n ELSE 0)
     IN  Read(low < 4 /\ end <= Len(Message) /\ n <= MaxNum, end,
              <<Seg.name>> :> <<Number(n)>>, Seg.name :> <<at, end>>)

DecodeBlock ==
  /\ Reading("block")
  /\ LET edges == BlockEdges(Seg.fields, at)
         end == at + WidthOf(Seg.fields)
         plain == {<<f.name>> : f \in {x \in ToSet(Seg.fields) : x.inner = <<>>}}
         nested == UNION {{<<f.name, x>> : x \in ToSet(f.inner)} : f \in ToSet(Seg.fields)}
         ByteOf(ref) ==
           edges[ref[1]][1]
             + (IF Len(ref) = 1 THEN 0
                ELSE SelectInSeq(InnerOf(ref[1]), LAMBDA x : x = ref[2]) - 1)
     IN  Read(end <= Len(Message), end, [ref \in plain \cup nested |-> Bytes(ByteOf(ref), 1)], edges)

\* usize::try_from(field * scale + offset), negative where that fails or the cap is passed.
StatedN(seg) ==
  LET n == Stated(seg.by) * seg.scale + seg.offset
  IN  IF \E most \in seg.most : n > most THEN Unstatable ELSE n

\* The first of the elements from start that end a run, or one more than there are.
First(start, ends) ==
  IF ends = {} THEN Len(Message) - start + 1 ELSE CHOOSE n \in ends : \A m \in ends : n <= m

\* How many elements decode reads from start; negative where it refuses the number.
RunLength(seg, start) ==
  LET left == 1 .. Len(Message) - start IN
  CASE seg.count \in {"field", "strided", "window", "nested"} -> StatedN(seg)
    [] seg.count = "squared" ->
         LET side == StatedN([seg EXCEPT !.most = {}])
         IN  IF side < 0 \/ \E most \in seg.most : side * side > most THEN Unstatable ELSE side * side
    [] seg.count = "bytes" -> seg.key
    [] seg.count = "padded" ->
         SelectLastInSeq(Bytes(start, IF start + seg.key <= Len(Message) THEN seg.key ELSE 0),
                         LAMBDA x : x.n # 0)
    [] seg.count = "until" -> First(start, {n \in left : Message[start + n].n = seg.key}) - 1
    [] seg.count = "marked" -> First(start, {n \in left : Bit(Message[start + n].n, seg.key) = 1})
    [] seg.count = "fill" ->
         IF \E most \in seg.most : Len(Message) - start > most THEN Unstatable ELSE Len(Message) - start

\* How far decode moves for one element; a stride below its width is refused.
StrideOf(seg) == IF seg.count = "strided" THEN Stated(seg.stride) ELSE 1

\* seek_to, then the elements, what ends them, and the padding after a stated length.
DecodeRepeat ==
  /\ Reading("repeat")
  /\ LET start == IF Seg.at = NoRef THEN at ELSE Stated(Seg.at)
         n == RunLength(Seg, start)
         stride == StrideOf(Seg)
         past == start + RunBytes(Seg, n) + n * (stride - 1)
         end == past + Padding(Seg.align, n)
     IN  Read(start <= Len(Message) /\ n >= 0 /\ stride >= 1 /\ end <= Len(Message), end,
              <<Seg.name>> :> [k \in 1 .. n |-> Message[start + (k - 1) * stride + 1]],
              Seg.name :> <<start, past>>)

\* An optional record is absent when the field its presence is read from is zero.
\* One whose length is stated must fill its window exactly, or to within its padding.
DecodePlaced ==
  /\ Reading("placed")
  /\ LET start == Stated(Seg.at)
         there == CASE Seg.absent = "never" -> TRUE
                    [] Seg.absent = "offset" -> start # 0
                    [] Seg.absent = "length" -> Stated(Seg.by) # 0
         end == start + 1 + Padding(Seg.align, 1)
     IN  IF there
         THEN Read(end <= Len(Message) /\ (Seg.absent = "length" => Stated(Seg.by) = 1),
                   end, <<Seg.name>> :> Bytes(start, 1), Seg.name :> <<start, start + 1>>)
         ELSE Read(TRUE, at, <<Seg.name>> :> <<>>, Empty)

\* The arm the number selects reads its bytes, in its window if it has one, which it must
\* fill; a closed choice refuses any other number.
DecodeSwitch ==
  /\ Reading("switch")
  /\ LET number == IF Seg.on = NoRef THEN Len(Message) - at ELSE Stated(Seg.on)
         arm == SelectInSeq(Seg.arms, LAMBDA a : a.number = number)
         window == CASE Seg.window = "none" -> Len(Message) - at
                     [] Seg.window = "bytes" -> Seg.key
                     [] Seg.window = "field" -> StatedN(Seg)
         n == IF arm = 0 /\ Seg.open = "rest" THEN window ELSE ArmWidth(Seg, arm)
         end == at + n + Padding(Seg.align, n)
     IN  Read(/\ window >= 0 /\ at + window <= Len(Message)
              /\ arm # 0 \/ Seg.open # "closed"
              /\ n <= window /\ (Seg.window # "none" => n = window)
              /\ end <= Len(Message),
              end, <<Seg.name>> :> [arm |-> arm, bytes |-> Bytes(at, n)],
              Seg.name :> <<at, at + n>>)

\* Its bit says whether it is there, or that anything is left.
DecodeOpt ==
  /\ Reading("opt")
  /\ LET there == IF Seg.flag = NoRef THEN at < Len(Message)
                  ELSE Seg.set <=> Bit(Stated(Seg.flag), Seg.mask) = 1
         n == IF there THEN 1 ELSE 0
     IN  Read(at + n <= Len(Message), at + n, <<Seg.name>> :> Bytes(at, n), Empty)

\* The range lies in the message and its bytes give this check value.
Verifies(c, stored, edges, here) ==
  LET from == CoveredFrom(c, edges, 0)
      to == CoveredTo(c, edges, here)
  IN  /\ from <= to /\ to <= Len(Message)
      /\ Excises(body, c) => from <= here /\ here + 1 <= to
      /\ stored = CheckOver(CoveredBytes(Message, c, edges, 0, here))

\* A range that ends before the checksum is verified where it stands.
DecodeChecksum ==
  /\ Reading("checksum")
  /\ LET edges == inEdge @@ (Seg.name :> <<at, at + 1>>)
     IN  Read(/\ at + 1 <= Len(Message)
              /\ RunsPast(body, Seg) \/ Verifies(Seg, Message[at + 1], edges, at),
              at + 1, <<Seg.name>> :> Bytes(at, 1), Seg.name :> <<at, at + 1>>)

\* late_checks: after every segment, in declaration order.
VerifyLate ==
  LET late == LateVerified(body)
      c == late[i - Len(body)]
  IN  /\ phase = "decode" /\ i - Len(body) \in 1 .. Len(late)
      /\ Read(Verifies(c, got[<<c.name>>][1], inEdge, inEdge[c.name][1]), at, Empty, Empty)

DecodeReturns ==
  /\ phase = "decode" /\ i = Len(body) + Len(LateVerified(body)) + 1
  /\ phase' = "accepted"
  /\ UNCHANGED <<body, value, cap, i, encoder, damaged, decoder>>

----------------------------------------------------------------------------
Encode ==
  MeasureArm \/ EncodeNeeds \/ EncodeVar \/ EncodeBlock \/ EncodeRepeat \/ EncodePlaced \/ EncodeOpt \/ EncodeSwitch
  \/ EncodeChecksum \/ StampLate \/ EncodeReturns
Decode ==
  DecodeNeeds \/ DecodeVar \/ DecodeBlock \/ DecodeRepeat \/ DecodePlaced \/ DecodeOpt \/ DecodeSwitch
  \/ DecodeChecksum \/ VerifyLate \/ DecodeReturns

Next == Generate \/ Encode \/ Damage \/ DecodeCalled \/ Decode

Spec == Init /\ [][Next]_vars

----------------------------------------------------------------------------
(* What should hold *)

\* Encode never writes past the Buffer nor a number wider than its field; decode never
\* reads past the message, nor more elements of a run than the bytes it took.
InBounds ==
  /\ Before <= Len(out) /\ Len(out) <= cap
  /\ \A k \in 1 .. Len(out) : out[k].n \in 0 .. MaxNum
  /\ at <= hi /\ hi <= Len(Message)
  /\ \A j \in DataSegments(body) :
       body[j].kind = "repeat" /\ body[j].name \in DOMAIN inEdge =>
         Len(got[<<body[j].name>>]) <= inEdge[body[j].name][2] - inEdge[body[j].name][1]

\* When encode writes the bytes of segment j for the last time is its turn j, or, for
\* a late checksum, the turn of its stamp.
Turn(b, c) ==
  LET late == SelectInSeq(LateChecks(b), LAMBDA x : x = c)
  IN  IF late = 0 THEN SelectInSeq(b, LAMBDA x : x = c) ELSE Len(b) + late

\* Every checksum is computed after every byte it covers was written for the last time.
Final(b) ==
  \A c \in ToSet(Checks(b)) :
    /\ \A other \in ToSet(Checks(b)) \ {c} :
         Order(b, other.name) \in CoveredPlaces(b, c) => Turn(b, other) < Turn(b, c)
    /\ \A d \in ToSet(BackPatched(b)) :
         Order(b, d.field[1]) \in CoveredPlaces(b, c) =>
           SelectInSeq(b, LAMBDA x : x.kind # "block" /\ x.name = d.of) < Turn(b, c)

\* No field states the numbers of two segments, nor one bit two presences.
Unshared(b) ==
  \A j, k \in 1 .. Len(Derivations(b)) :
    LET d == Derivations(b)[j]
        e == Derivations(b)[k]
    IN  j # k /\ d.field = e.field /\ ~IsParam(b, d.field) => d.mask # e.mask

\* The number or presence a segment states, of this value; for the position of one that is
\* there its place among the segments, for no two begin alike.
States(d) ==
  CASE d.what = "Offset" ->
         IF Source(d.of).kind = "placed" /\ ~Present(d.of) THEN 0
         ELSE SelectInSeq(body, LAMBDA seg : seg = Source(d.of))
    [] d.what = "ByteLen" ->
         IF Source(d.of).kind = "placed" THEN Length(d.of)
         ELSE AffineInverse(Source(d.of), Length(d.of))
    [] d.what = "ArmLen" -> AffineInverse(Source(d.of), ArmWidth(Source(d.of), Length(d.of)))
    [] d.what = "Flags" -> Present(d.of) = Source(d.of).set
    [] OTHER -> DerivedNumber(d)

\* Segments that state one field in the same way, which clashes lets pass, give it the same
\* number, and those that test one bit the same presence.
SharedAgree(b) ==
  \A j, k \in 1 .. Len(Derivations(b)) :
    LET d == Derivations(b)[j]
        e == Derivations(b)[k]
    IN  j # k /\ d.field = e.field /\ d.mask = e.mask /\ d.what = e.what /\ ~IsParam(b, d.field) =>
          States(d) = States(e)

\* An arm chosen by the body's length is as long as its number says and ends the body, as
\* derive has it.
LengthSelects(b) ==
  \A k \in 1 .. Len(b) :
    b[k].kind = "switch" /\ b[k].on = NoRef =>
      k = Len(b) /\ \A a \in ToSet(b[k].arms) : a.number = a.width

\* An optional field that is there when bytes are left has none after it.
RemainingIsLast(b) == \A k \in 1 .. Len(b) : b[k].kind = "opt" /\ b[k].flag = NoRef => k = Len(b)

\* What a holder writes is what it passes: a parameter states no cap, no borrowed run and no
\* stride, and no field that another segment computes is passed as one.
HolderAgrees(b) ==
  \A k \in 1 .. Len(b) :
    /\ b[k].kind = "repeat" /\ IsParam(b, b[k].by) => b[k].most = {} /\ ~b[k].borrowed
    /\ b[k].kind = "repeat" => ~IsParam(b, b[k].stride)
    /\ b[k].kind = "switch" /\ IsParam(b, b[k].by) => b[k].most = {}
    /\ b[k].kind = "repeat" /\ b[k].count = "nested" => DerivationsOf(b, b[k].by) = <<>>

\* What decode should read of segment j.
Sent(j) ==
  CASE body[j].kind = "switch" ->
         [arm |-> value[j], bytes |-> [k \in 1 .. ArmWidth(body[j], value[j]) |-> Number(j)]]
    [] body[j].kind = "repeat" -> Elements(body[j], j, value[j])
    [] body[j].kind = "needs" -> <<Number(value[j])>>
    [] OTHER -> [k \in 1 .. value[j] |-> Number(j)]

\* decode read back the data and the plain fields, and used every byte.
SameMessage ==
  /\ hi = Len(Message)
  /\ \A j \in DataSegments(body) : got[<<body[j].name>>] = Sent(j)
  /\ \A ref \in DOMAIN got :
       /\ Len(ref) = 2 \/ ref[1] \in ToSet(Names(Fields(body))) \cup Vars(body)
       /\ DerivationsOf(body, ref) = <<>>
       => got[ref] = <<Number(Held)>>

\* Decode reads what encode wrote: it accepts every undamaged message and returns the
\* value encode was given.
RoundTripAlways ==
  damaged = 0 => phase # "rejected" /\ (phase = "accepted" => SameMessage)

\* The same, for the definitions whose checksums are computed over final bytes, whose arms
\* are as long as their numbers where the length selects them, whose last field alone takes
\* what remains, and that pass what they write, and for values whose segments agree on the
\* fields they share: the generator refuses every other sharing.
RoundTripSettled ==
  \/ RoundTripAlways \/ ~Final(body) \/ ~SharedAgree(body) \/ ~LengthSelects(body)
  \/ ~RemainingIsLast(body) \/ ~HolderAgrees(body)

\* The bytes of out some checksum vouches for, its own included.
Vouched ==
  UNION {CoveredFrom(c, outEdge, Before) + 1 .. CoveredTo(c, outEdge, outEdge[c.name][1])
           \cup {outEdge[c.name][1] + 1} : c \in ToSet(Checks(body))}

\* A change to one byte that a checksum covers never passes decode, not even when the
\* byte is a count, a length or an offset and decode then looks elsewhere for the range.
DamageIsCaught ==
  phase = "accepted" /\ damaged # 0 /\ Final(body) => damaged \notin Vouched

\* The bytes encode writes a second time: reserved fields and late checksums.
Reserved ==
  {outEdge[c.name][1] + 1 : c \in {x \in ToSet(LateChecks(body)) : x.name \in DOMAIN outEdge}}
    \cup {outEdge[d.field[1]][1]
            + (IF Len(d.field) = 1 THEN 1
               ELSE SelectInSeq(InnerOf(d.field[1]), LAMBDA x : x = d.field[2])) :
            d \in {x \in ToSet(BackPatched(body)) : x.field[1] \in DOMAIN outEdge}}

\* A byte encode has written stays, except that a reserved zero is filled in once.
\* What was in the Buffer before the call is never touched.
FilledOnce ==
  [][phase = "encode" /\ Unshared(body) =>
       /\ Len(out) <= Len(out')
       /\ \A k \in 1 .. Len(out) : out'[k] # out[k] => k \in Reserved /\ out[k] = Number(0)]_vars

Needed ==
  LET SizeOf(j) ==
        CASE body[j].kind = "block" -> WidthOf(body[j].fields)
          [] body[j].kind = "needs" -> 0
          [] body[j].kind = "var" -> Len(VarBytes(FieldNumber(<<body[j].name>>)))
          [] body[j].kind = "checksum" -> 1
          [] body[j].kind = "repeat" -> value[j] + Len(EndOfRun(body[j], value[j]))
          [] body[j].kind = "placed" -> value[j] * (1 + Padding(body[j].align, 1))
          [] body[j].kind = "switch" ->
               LET n == ArmWidth(body[j], value[j]) IN n + Padding(body[j].align, n)
          [] OTHER -> value[j]
  IN  Before + FoldLeft(LAMBDA n, j : n + SizeOf(j), 0, [j \in 1 .. Len(body) |-> j])

\* Encode reports Overflow exactly when the message does not fit, and at no moment has it
\* or decode been out of bounds.
OverflowIsExact ==
  /\ InBounds
  /\ phase = "overflow" => Needed > cap
  /\ phase = "written" => Len(out) = Needed

\* stampable refuses exactly the cycles: it accepts a definition when no set of
\* checksums has each waiting on another of the set.
StampableIsAcyclic ==
  phase \in {"encode", "refused"} /\ i = 1 =>
    (Stampable(body) <=>
       \A S \in SUBSET (1 .. Len(Checks(body))) \ {{}} : \E k \in S : WaitsOn(body, k) \cap S = {})
=============================================================================
