------------------------------- MODULE Tables -------------------------------
(***************************************************************************)
(* The segment table of a byte-addressed message.                          *)
(*                                                                         *)
(* walk_segments visits a body's segments in wire order.  For each one it  *)
(* emits the decoder's step and pushes the row that publishes where the    *)
(* segment starts, how wide it is and whether it can be absent.  A row     *)
(* says its start as a number of bits from the body's first bit while      *)
(* every width so far is known, and otherwise as a number of bits after    *)
(* the last row of unknown width, or as an offset read from a field.       *)
(* Three more computations depend on the same widths: the validator's      *)
(* cursor, against which an #[at] position is checked; fixed_bits, the     *)
(* table's fixed prefix; and arms_fit, which refuses a union arm.          *)
(*                                                                         *)
(* Here one segment is generated and at once decoded from a wire chosen    *)
(* freely, so that the rows can be compared with the cursor.  A row is     *)
(* named by its place in the table.                                        *)
(***************************************************************************)
EXTENDS Integers, Sequences, FiniteSets

CONSTANTS
    Sizes,          \* byte sizes a model states
    Widths,         \* byte widths a wire gives a segment whose size it sets
    Offsets,        \* byte offsets a wire gives
    Aligns,         \* the #[align(N)] of a length, besides none
    MaxSegments     \* segments in a body

ASSUME TablesAssumption ==
    /\ Sizes \subseteq Nat /\ Widths \subseteq Nat /\ Offsets \subseteq Nat
    /\ Aligns \subseteq Nat \ {0, 1}
    /\ MaxSegments \in Nat

VARIABLES
    segments,   \* segments walked
    table,      \* Rows: the rows pushed, and where the next one starts
    pos,        \* the validator's cursor, in bits, or Unknown
    ended,      \* whether a segment that reads to the end was walked
    cursor,     \* decode's __at
    hi,         \* decode's __hi, the furthest cursor
    wire        \* what decode met at each row

vars == <<segments, table, pos, ended, cursor, hi, wire>>

Unknown == -1
Bits == Nat \cup {Unknown}

----------------------------------------------------------------------------
(* Segments.  `size' is the byte size the model states, Unknown when the   *)
(* wire sets it; `at' whether the segment is at an offset read from a      *)
(* field; `when' what makes it present; `fill' whether it reads to the end *)
(* of the body.                                                            *)
Segment(form, size, at, when, align, fill) ==
    [form |-> form, size |-> size, at |-> at, when |-> when, align |-> align, fill |-> fill]

Fixed(form)             == {Segment(form, n, FALSE, "always", 0, FALSE) : n \in Sizes}
Sized(form, at, when)   == {Segment(form, n, at, when, 0, FALSE) : n \in Sizes \cup {Unknown}}
Padded(form, at, when)  == {Segment(form, Unknown, at, when, a, FALSE) : a \in Aligns \cup {0}}
Filling(form, at, when) == {Segment(form, Unknown, at, when, 0, TRUE)}

Blocks    == Fixed("block")
Checksums == Fixed("checksum")
Values    == Fixed("value") \cup Padded("value", FALSE, "always") \cup Filling("value", FALSE, "always")
Switches  == Fixed("switch") \cup Padded("switch", FALSE, "always")
Opts      == Sized("opt", FALSE, "flag") \cup Sized("opt", FALSE, "clear")
             \cup Sized("opt", FALSE, "remaining") \cup Filling("opt", FALSE, "flag")
Repeats   == Fixed("repeat") \cup Padded("repeat", FALSE, "always")
             \cup Sized("repeat", TRUE, "always") \cup Padded("repeat", TRUE, "always")
             \cup Filling("repeat", FALSE, "always") \cup Filling("repeat", TRUE, "always")
Measured(n) == {Segment("placed", n, TRUE, "length", a, FALSE) : a \in Aligns \cup {0}}
Placeds   == Sized("placed", TRUE, "always") \cup Sized("placed", TRUE, "offset")
             \cup UNION {Measured(n) : n \in Sizes \cup {Unknown}}

Segments == Blocks \cup Checksums \cup Values \cup Switches \cup Opts \cup Repeats \cup Placeds

(* Mutant: a window of fixed size is of fixed size at an offset too.       *)
SegmentBitsPlaced(s) ==
    IF s.form \in {"placed", "opt"} \/ s.size = Unknown THEN Unknown ELSE 8 * s.size

(* Segment::fixed_bits.                                                    *)
SegmentBits(s) ==
    IF s.form \in {"placed", "opt"} \/ s.at \/ s.size = Unknown THEN Unknown ELSE 8 * s.size

----------------------------------------------------------------------------
(* Rows.                                                                   *)
At(bits)        == [form |-> "at", row |-> 0, bits |-> bits]
After(row, bits) == [form |-> "after", row |-> row, bits |-> bits]
Seek            == [form |-> "seek", row |-> 0, bits |-> 0]

(* A row's span: its width in bits, or that it fills, pads or is read from *)
(* the wire in one of the other ways.                                      *)
Span(s) ==
    IF s.fill THEN [form |-> "fill", bits |-> Unknown]
    ELSE IF s.size # Unknown THEN [form |-> "fixed", bits |-> 8 * s.size]
    ELSE [form |-> "read", bits |-> Unknown]
PadSpan == [form |-> "pad", bits |-> Unknown]

EmptyTable == [rows |-> <<>>, at |-> 0, from |-> 0]

(* Rows::start: what the next row's start is unless it is sought.          *)
NextStart(t) == IF t.from = 0 THEN At(t.at) ELSE After(t.from, t.at)

(* Rows::push.                                                             *)
Pushed(t, start, span, when) ==
    [t EXCEPT !.rows = Append(@, [start |-> start, span |-> span, when |-> when])]

(* Mutant: the bits counted since the last row of unknown width are kept.  *)
AdvancedKeeping(t, bits) ==
    IF bits # Unknown THEN [t EXCEPT !.at = @ + bits] ELSE [t EXCEPT !.from = Len(t.rows)]

(* Rows::advance.  The row just pushed is the last one.                    *)
Advanced(t, bits) ==
    IF bits # Unknown THEN [t EXCEPT !.at = @ + bits]
    ELSE [t EXCEPT !.from = Len(t.rows), !.at = 0]

(* The row of the segment itself: placed.rs and repeat.rs seek.            *)
Own(t, s) == Pushed(t, IF s.at THEN Seek ELSE NextStart(t), Span(s), s.when)

(* What one turn of the walk_segments loop does to the table: a segment    *)
(* whose length is padded has a second row for the padding.                *)
Tabled(t, s) ==
    LET own    == Own(t, s)
        before == Advanced(own, Unknown)
    IN  Advanced(IF s.align = 0 THEN own ELSE Pushed(before, NextStart(before), PadSpan, s.when),
                 SegmentBits(s))

(* SegmentDef::extent, is_fixed.                                           *)
Extent(row)  == IF row.when # "always" THEN Unknown ELSE row.span.bits
IsFixed(row) == row.start.form = "at" /\ Extent(row) # Unknown

(* Mutant: an optional row's width is counted.                             *)
FixedBitsOptional(rows) ==
    LET known(i) == rows[i].start.form = "at" /\ rows[i].span.bits # Unknown
        prefix   == {i \in 1 .. Len(rows) : \A j \in 1 .. i : known(j)}
        last     == Cardinality(prefix)
    IN  IF last < Len(rows) /\ rows[last + 1].start.form = "at" THEN rows[last + 1].start.bits
        ELSE IF last = 0 THEN 0 ELSE rows[last].start.bits + rows[last].span.bits

(* table::fixed_bits: the loop stops at the first row that is not fixed,   *)
(* with its start when that is known.                                      *)
FixedBits(rows) ==
    LET prefix == {i \in 1 .. Len(rows) : \A j \in 1 .. i : IsFixed(rows[j])}
        last   == Cardinality(prefix)
    IN  IF last < Len(rows) /\ rows[last + 1].start.form = "at" THEN rows[last + 1].start.bits
        ELSE IF last = 0 THEN 0 ELSE rows[last].start.bits + rows[last].span.bits

(* Mutant: a row that fills must start where the union ends.               *)
ArmFitsFull(rows, bits) ==
    LET stops == {i \in 1 .. Len(rows) : ~IsFixed(rows[i])}
    IN  IF stops = {} THEN FixedBits(rows) = bits
        ELSE LET first == rows[CHOOSE i \in stops : \A j \in stops : i <= j]
             IN  \/ first.start.form # "at" \/ first.when # "always"
                 \/ first.span.form = "fill" => first.start.bits = bits

(* table::arm_fits: what the table can refuse of an arm of a union of this *)
(* many bits.                                                              *)
ArmFits(rows, bits) ==
    LET stops == {i \in 1 .. Len(rows) : ~IsFixed(rows[i])}
    IN  IF stops = {} THEN FixedBits(rows) = bits
        ELSE LET first == rows[CHOOSE i \in stops : \A j \in stops : i <= j]
             IN  \/ first.start.form # "at" \/ first.when # "always"
                 \/ first.span.form = "fill" => first.start.bits <= bits

----------------------------------------------------------------------------
(* Decode.  `off' is the offset field's value, `width' the bytes a present *)
(* segment takes, `here' whether it is present.                            *)
Meets(s, off, width, here) ==
    /\ s.size # Unknown => width = s.size
    /\ ~s.at => off = 0
    /\ s.when = "always" => here
    /\ s.when = "offset" => (here <=> off # 0)
    /\ s.when = "length" /\ here => width # 0

RoundedUp(n, align) == n + ((align - (n % align)) % align)

(* seeks(seg): an optional record is sought only when it is present.       *)
Begins(s, off, here) == IF s.at /\ here THEN off ELSE cursor
Ends(s, off, width, here) == Begins(s, off, here) + IF here THEN width ELSE 0

(* skip_padding, and windowed_padded for a record.                         *)
Bound(s, off, width, here) ==
    IF s.align # 0 /\ here THEN Begins(s, off, here) + RoundedUp(width, s.align)
    ELSE Ends(s, off, width, here)

Met(begin, end, off, here) == [begin |-> begin, end |-> end, off |-> off, here |-> here]

Init ==
    /\ segments = 0 /\ table = EmptyTable /\ pos = 0 /\ ended = FALSE
    /\ cursor = 0 /\ hi = 0 /\ wire = <<>>

(* One turn of the loop: the segment's rows, its decode, and the           *)
(* validator's turn for the same segment.                                  *)
Walk(s, off, width, here) ==
    LET begin == Begins(s, off, here)
        end   == Ends(s, off, width, here)
        bound == Bound(s, off, width, here)
    IN  /\ segments < MaxSegments
        /\ ~ended
        /\ Meets(s, off, width, here)
        /\ segments' = segments + 1
        /\ table' = Tabled(table, s)
        /\ pos' = IF pos = Unknown \/ SegmentBits(s) = Unknown THEN Unknown
                  ELSE pos + SegmentBits(s)
        /\ ended' = s.fill
        /\ cursor' = bound
        /\ hi' = IF bound > hi THEN bound ELSE hi
        /\ LET own == Append(wire, Met(begin, end, off, here))
           IN  wire' = IF s.align = 0 THEN own ELSE Append(own, Met(end, bound, off, here))

Next == \E s \in Segments, off \in Offsets \cup {0}, width \in Widths \cup Sizes, here \in BOOLEAN :
            Walk(s, off, width, here)

Spec == Init /\ [][Next]_vars

----------------------------------------------------------------------------
Row  == [start : [form : {"at", "after", "seek"}, row : Nat, bits : Nat],
         span : [form : {"fixed", "fill", "read", "pad"}, bits : Bits],
         when : {"always", "flag", "clear", "remaining", "offset", "length"}]
Meeting == [begin : Nat, end : Nat, off : Nat, here : BOOLEAN]

(* The rows and what decode met are records of the right shape, one for    *)
(* one.                                                                    *)
TypeOK ==
    /\ segments \in Nat
    /\ table \in [rows : Seq(Row), at : Nat, from : Nat]
    /\ pos \in Bits /\ ended \in BOOLEAN
    /\ cursor \in Nat /\ hi \in Nat
    /\ wire \in Seq(Meeting) /\ Len(wire) = Len(table.rows)

(* The bit a row's start stands for on this wire.                          *)
Resolved(rows, met, i) ==
    LET start == rows[i].start
    IN  CASE start.form = "at"    -> start.bits
          [] start.form = "after" -> 8 * met[start.row].end + start.bits
          [] start.form = "seek"  -> 8 * met[i].off

RowIsWire(rows, met, i) ==
    /\ rows[i].start.form = "after" => rows[i].start.row \in 1 .. i - 1
    /\ met[i].here => Resolved(rows, met, i) = 8 * met[i].begin
    /\ Extent(rows[i]) # Unknown =>
        met[i].here /\ 8 * (met[i].end - met[i].begin) = Extent(rows[i])

(* The published table is the wire: whatever the wire held, decode read    *)
(* every row it read at the position the table gives it, and a row whose   *)
(* width the table fixes was present and had that width (Rows::start,      *)
(* push and advance against the emitted cursor).                           *)
TableIsWire == \A i \in 1 .. Len(table.rows) : RowIsWire(table.rows, wire, i)

(* An #[at] position that the validator accepts is where decode's cursor   *)
(* stands, whatever the wire held before it (stated_here, advance).        *)
StatedIsWire == pos # Unknown => pos = 8 * cursor

(* fixed_bits is a promise about every wire: the rows the table puts       *)
(* before that bit were all there and ended by it, and a table without a   *)
(* wire-sized row is fixed to its end (table::fixed_bits).                 *)
PrefixIsExact ==
    LET rows == table.rows
        own  == {i \in 1 .. Len(rows) : rows[i].start.form = "at"}
    IN  /\ \A i \in own : 8 * wire[i].begin < FixedBits(rows) =>
                            wire[i].here /\ IsFixed(rows[i]) /\ 8 * wire[i].end <= FixedBits(rows)
        /\ (\A i \in 1 .. Len(rows) : IsFixed(rows[i])) => FixedBits(rows) = 8 * hi

(* A union arm is refused only if no wire of it has the union's size, and  *)
(* one that the table fixes is accepted for its own size alone (arms_fit,  *)
(* against the bytes decode consumes).                                     *)
ArmsFitIsExact ==
    LET rows  == table.rows
        fixed == \A i \in 1 .. Len(rows) : IsFixed(rows[i])
    IN  /\ ArmFits(rows, 8 * hi)
        /\ fixed => \A n \in 0 .. hi + 1 : ArmFits(rows, 8 * n) => n = hi
=============================================================================
