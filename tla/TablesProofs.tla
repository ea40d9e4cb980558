---------------------------- MODULE TablesProofs ----------------------------
(***************************************************************************)
(* The segment table is the wire, for every body, every wire and every     *)
(* number of segments.                                                     *)
(*                                                                         *)
(* TableIsWire speaks of the rows pushed so far and is not inductive: the  *)
(* next row's start is computed from Rows.at and Rows.from, which nothing  *)
(* in it mentions.  The strengthening says what those two stand for, that  *)
(* the next row's start is the cursor, and that the validator's cursor is  *)
(* known exactly while no row of unknown width has been pushed.            *)
(***************************************************************************)
EXTENDS Tables, FiniteSetTheorems, TLAPS

Whens == {"always", "flag", "clear", "remaining", "offset", "length"}

(* Where the next row starts is where the cursor is.                       *)
NextIsCursor ==
    /\ table.from \in 0 .. Len(table.rows)
    /\ 8 * cursor = (IF table.from = 0 THEN 0 ELSE 8 * wire[table.from].end) + table.at

(* The validator and the table lose their place at the same segment.       *)
PosIsAt == pos = IF table.from = 0 THEN table.at ELSE Unknown

IInv == TypeOK /\ NextIsCursor /\ PosIsAt /\ TableIsWire

----------------------------------------------------------------------------
(* What walking relies on about a segment: padded ones are sized by the    *)
(* wire or sought, and those of known bits are there, unsought.            *)
Shape(s) ==
    /\ s.size \in Bits
    /\ s.align \in Nat
    /\ s.at \in BOOLEAN /\ s.fill \in BOOLEAN
    /\ s.when \in Whens
    /\ s.align # 0 => s.size = Unknown \/ s.form = "placed"
    /\ s.fill => s.size = Unknown
    /\ s.form \notin {"placed", "opt"} => s.when = "always"

LEMMA Made ==
    ASSUME NEW form, NEW size \in Bits, NEW at \in BOOLEAN, NEW when \in Whens,
           NEW align \in Nat, NEW fill \in BOOLEAN,
           align # 0 => size = Unknown \/ form = "placed", fill => size = Unknown,
           form \in {"placed", "opt"} \/ when = "always"
    PROVE  Shape(Segment(form, size, at, when, align, fill))
BY DEF Shape, Segment

LEMMA SegmentShape == \A s \in Segments : Shape(s)
<1>1. /\ Sizes \subseteq Bits /\ Aligns \subseteq Nat /\ 0 \in Nat /\ Unknown \in Bits
      /\ {"always", "flag", "clear", "remaining", "offset", "length"} \subseteq Whens
      /\ TRUE \in BOOLEAN /\ FALSE \in BOOLEAN
  BY TablesAssumption DEF Bits, Whens
<1>2. ASSUME NEW form, NEW at \in BOOLEAN
      PROVE  /\ \A s \in Fixed(form) : Shape(s)
             /\ \A s \in Padded(form, at, "always") : Shape(s)
             /\ \A s \in Sized(form, at, "always") : Shape(s)
             /\ \A s \in Filling(form, at, "always") : Shape(s)
  <2>1. \A s \in Fixed(form) : Shape(s)
    BY <1>1, Made DEF Fixed
  <2>2. \A s \in Padded(form, at, "always") : Shape(s)
    BY <1>1, Made DEF Padded
  <2>3. \A s \in Sized(form, at, "always") : Shape(s)
    BY <1>1, Made DEF Sized
  <2>4. \A s \in Filling(form, at, "always") : Shape(s)
    BY <1>1, Made DEF Filling
  <2> QED BY <2>1, <2>2, <2>3, <2>4
<1>3. ASSUME NEW form \in {"placed", "opt"}, NEW at \in BOOLEAN, NEW when \in Whens
      PROVE  /\ \A s \in Sized(form, at, when) : Shape(s)
             /\ \A s \in Padded(form, at, when) : Shape(s)
             /\ \A s \in Filling(form, at, when) : Shape(s)
  <2>1. \A s \in Sized(form, at, when) : Shape(s)
    BY <1>1, Made DEF Sized
  <2>2. \A s \in Padded(form, at, when) : Shape(s)
    BY <1>1, Made DEF Padded
  <2>3. \A s \in Filling(form, at, when) : Shape(s)
    BY <1>1, Made DEF Filling
  <2> QED BY <2>1, <2>2, <2>3
<1>4. \A s \in Repeats : Shape(s)
  BY <1>1, <1>2 DEF Repeats
<1>5. \A s \in Opts : Shape(s)
  BY <1>1, <1>3 DEF Opts
<1>6. \A s \in Placeds : Shape(s)
  <2>1. ASSUME NEW n \in Sizes \cup {Unknown}, NEW s \in Measured(n) PROVE Shape(s)
    <3>1. PICK a \in Aligns \cup {0} : s = Segment("placed", n, TRUE, "length", a, FALSE)
      BY DEF Measured
    <3>2. n \in Bits /\ a \in Nat
      BY <1>1
    <3>3. Shape(Segment("placed", n, TRUE, "length", a, FALSE))
      BY <1>1, <3>2, Made
    <3> QED BY <3>1, <3>3
  <2>2. /\ \A s \in Sized("placed", TRUE, "always") : Shape(s)
        /\ \A s \in Sized("placed", TRUE, "offset") : Shape(s)
    BY <1>1, <1>3
  <2> QED BY <2>1, <2>2 DEF Placeds
<1> QED BY <1>2, <1>4, <1>5, <1>6
        DEF Segments, Blocks, Checksums, Values, Switches

LEMMA RoundedUpIsNat ==
    ASSUME NEW n \in Nat, NEW align \in Nat \ {0}
    PROVE  RoundedUp(n, align) \in Nat
BY SMT DEF RoundedUp

(* Pushing a row that is on the wire keeps a table that is on the wire:    *)
(* a start refers to earlier rows only.                                    *)
LEMMA PushKeeps ==
    ASSUME NEW rows \in Seq(Row), NEW met \in Seq(Meeting), Len(rows) = Len(met),
           NEW row \in Row, NEW m \in Meeting,
           \A i \in 1 .. Len(rows) : RowIsWire(rows, met, i),
           RowIsWire(Append(rows, row), Append(met, m), Len(rows) + 1)
    PROVE  \A i \in 1 .. Len(rows) + 1 : RowIsWire(Append(rows, row), Append(met, m), i)
<1> SUFFICES ASSUME NEW i \in 1 .. Len(rows) + 1
             PROVE  RowIsWire(Append(rows, row), Append(met, m), i)
  OBVIOUS
<1>1. CASE i = Len(rows) + 1
  BY <1>1
<1>2. CASE i \in 1 .. Len(rows)
  <2>1. RowIsWire(rows, met, i)
    BY <1>2
  <2>2. /\ Append(rows, row)[i] = rows[i]
        /\ \A j \in 1 .. i : Append(met, m)[j] = met[j]
    BY <1>2
  <2>3. i \in 1 .. i
    BY <1>2
  <2>4. rows[i].start.form = "after" => rows[i].start.row \in 1 .. i
    BY <2>1, <1>2 DEF RowIsWire
  <2>5. Resolved(Append(rows, row), Append(met, m), i) = Resolved(rows, met, i)
    BY <2>2, <2>3, <2>4 DEF Resolved
  <2>6. Append(met, m)[i] = met[i]
    BY <2>2, <2>3
  <2> QED BY <2>1, <2>2, <2>5, <2>6 DEF RowIsWire
<1> QED BY <1>1, <1>2

(* The segment's own row, and what decode met there.                       *)
OwnRow(s) ==
    [start |-> IF s.at THEN Seek ELSE NextStart(table), span |-> Span(s), when |-> s.when]
OwnMet(s, off, width, here) == Met(Begins(s, off, here), Ends(s, off, width, here), off, here)

(* The row of the padding, and what was met there.                         *)
PadRow(s) == [start |-> After(Len(table.rows) + 1, 0), span |-> PadSpan, when |-> s.when]
PadMet(s, off, width, here) ==
    Met(Ends(s, off, width, here), Bound(s, off, width, here), off, here)

LEMMA MetTypes ==
    ASSUME TypeOK, NEW s \in Segments, NEW off \in Offsets \cup {0},
           NEW width \in Widths \cup Sizes, NEW here \in BOOLEAN
    PROVE  /\ Begins(s, off, here) \in Nat
           /\ Ends(s, off, width, here) \in Nat
           /\ Bound(s, off, width, here) \in Nat
           /\ OwnMet(s, off, width, here) \in Meeting
           /\ PadMet(s, off, width, here) \in Meeting
<1>1. off \in Nat /\ width \in Nat /\ cursor \in Nat /\ s.align \in Nat
  BY TablesAssumption, SegmentShape DEF TypeOK, Shape
<1>2. Begins(s, off, here) \in Nat /\ Ends(s, off, width, here) \in Nat
  BY <1>1 DEF Begins, Ends
<1>3. s.align # 0 => RoundedUp(width, s.align) \in Nat
  BY <1>1, RoundedUpIsNat
<1>4. Bound(s, off, width, here) \in Nat
  BY <1>2, <1>3 DEF Bound
<1> QED BY <1>1, <1>2, <1>4 DEF OwnMet, PadMet, Met, Meeting

LEMMA RowTypes ==
    ASSUME TypeOK, NextIsCursor, NEW s \in Segments
    PROVE  OwnRow(s) \in Row /\ PadRow(s) \in Row
<1>1. NextStart(table) \in [form : {"at", "after", "seek"}, row : Nat, bits : Nat]
  BY DEF NextStart, At, After, TypeOK, NextIsCursor
<1>2. Seek \in [form : {"at", "after", "seek"}, row : Nat, bits : Nat]
  BY DEF Seek
<1>3. Span(s) \in [form : {"fixed", "fill", "read", "pad"}, bits : Bits]
  BY SegmentShape DEF Span, Shape, Bits, Unknown
<1>4. s.when \in {"always", "flag", "clear", "remaining", "offset", "length"} /\ s.at \in BOOLEAN
  BY SegmentShape DEF Shape, Whens
<1>5. OwnRow(s) \in Row
  BY <1>1, <1>2, <1>3, <1>4 DEF OwnRow, Row
<1>6. PadRow(s) \in Row
  BY <1>4 DEF PadRow, Row, After, PadSpan, Bits, TypeOK
<1> QED BY <1>5, <1>6

(* The segment's own row is on the wire: that is what Rows::start is for.  *)
LEMMA OwnRowIsWire ==
    ASSUME IInv, NEW s \in Segments, NEW off \in Offsets \cup {0},
           NEW width \in Widths \cup Sizes, NEW here \in BOOLEAN,
           Meets(s, off, width, here)
    PROVE  RowIsWire(Append(table.rows, OwnRow(s)), Append(wire, OwnMet(s, off, width, here)),
                     Len(table.rows) + 1)
<1> DEFINE n    == Len(table.rows)
           rows == Append(table.rows, OwnRow(s))
           met  == Append(wire, OwnMet(s, off, width, here))
<1>1. /\ rows[n + 1] = OwnRow(s)
      /\ met[n + 1] = OwnMet(s, off, width, here)
      /\ \A i \in 1 .. n : met[i] = wire[i]
  BY MetTypes, RowTypes DEF IInv, TypeOK
<1>2. /\ met[n + 1].begin = Begins(s, off, here)
      /\ met[n + 1].end = Ends(s, off, width, here)
      /\ met[n + 1].off = off /\ met[n + 1].here = here
  <2> HIDE DEF met, n
  <2> QED BY <1>1 DEF OwnMet, Met
<1>3. n \in Nat /\ table.at \in Nat /\ cursor \in Nat /\ off \in Nat /\ width \in Nat
  BY TablesAssumption DEF IInv, TypeOK
<1>a. /\ table.from \in 0 .. n
      /\ table.from = 0 => 8 * cursor = table.at
      /\ table.from # 0 => /\ table.from \in 1 .. n
                           /\ wire[table.from].end \in Nat
                           /\ 8 * cursor = 8 * wire[table.from].end + table.at
  <2>1. table.from \in 0 .. n
    BY DEF IInv, NextIsCursor
  <2>2. table.from = 0 => 8 * cursor = table.at
    BY <1>3 DEF IInv, NextIsCursor
  <2>3. table.from # 0 => 8 * cursor = 8 * wire[table.from].end + table.at
    BY DEF IInv, NextIsCursor
  <2>4. table.from # 0 => table.from \in 1 .. n
    BY <2>1, <1>3
  <2>5. \A i \in 1 .. n : wire[i] \in Meeting
    BY DEF IInv, TypeOK
  <2>6. table.from # 0 => wire[table.from].end \in Nat
    BY <2>4, <2>5 DEF Meeting
  <2> QED BY <2>1, <2>2, <2>3, <2>4, <2>6
<1>b. rows[n + 1].start = IF s.at THEN Seek ELSE NextStart(table)
  BY <1>1 DEF OwnRow
<1>4. rows[n + 1].start.form = "after" => rows[n + 1].start.row \in 1 .. (n + 1) - 1
  BY <1>b, <1>3, <1>a DEF NextStart, Seek, At, After
<1>5. here => Resolved(rows, met, n + 1) = 8 * met[n + 1].begin
  <2> SUFFICES ASSUME here PROVE Resolved(rows, met, n + 1) = 8 * met[n + 1].begin
    OBVIOUS
  <2>1. CASE s.at
    <3>1. rows[n + 1].start.form = "seek"
      BY <1>b, <2>1 DEF Seek
    <3>2. Resolved(rows, met, n + 1) = 8 * met[n + 1].off
      BY <3>1 DEF Resolved
    <3>3. met[n + 1].begin = off
      BY <1>2, <2>1 DEF Begins
    <3> QED BY <3>2, <3>3, <1>2
  <2>2. CASE ~s.at /\ table.from = 0
    <3>1. rows[n + 1].start.form = "at" /\ rows[n + 1].start.bits = table.at
      BY <1>b, <2>2 DEF NextStart, At
    <3>2. Resolved(rows, met, n + 1) = table.at
      BY <3>1 DEF Resolved
    <3>3. met[n + 1].begin = cursor
      BY <1>2, <2>2 DEF Begins
    <3> QED BY <3>2, <3>3, <1>a, <2>2
  <2>3. CASE ~s.at /\ table.from # 0
    <3>1. /\ rows[n + 1].start.form = "after"
          /\ rows[n + 1].start.row = table.from /\ rows[n + 1].start.bits = table.at
      BY <1>b, <2>3 DEF NextStart, After
    <3>2. met[table.from] = wire[table.from]
      <4> HIDE DEF met, n
      <4> QED BY <1>1, <1>a, <2>3
    <3>3. Resolved(rows, met, n + 1) = 8 * wire[table.from].end + table.at
      BY <3>1, <3>2 DEF Resolved
    <3>4. met[n + 1].begin = cursor
      BY <1>2, <2>3 DEF Begins
    <3> QED BY <3>3, <3>4, <1>a, <2>3
  <2> QED BY <2>1, <2>2, <2>3, SegmentShape DEF Shape
<1>6. Extent(rows[n + 1]) # Unknown =>
        met[n + 1].here /\ 8 * (met[n + 1].end - met[n + 1].begin) = Extent(rows[n + 1])
  <2> SUFFICES ASSUME Extent(rows[n + 1]) # Unknown
               PROVE  /\ met[n + 1].here
                      /\ 8 * (met[n + 1].end - met[n + 1].begin) = Extent(rows[n + 1])
    OBVIOUS
  <2>1. s.when = "always" /\ Extent(rows[n + 1]) = Span(s).bits
    BY <1>1 DEF Extent, OwnRow
  <2>2. s.size # Unknown /\ Span(s).bits = 8 * s.size
    BY <2>1, SegmentShape DEF Span, Shape
  <2>3. here /\ width = s.size
    BY <2>1, <2>2 DEF Meets
  <2>4. Ends(s, off, width, here) = Begins(s, off, here) + width
    BY <2>3 DEF Ends
  <2>5. Begins(s, off, here) \in Nat
    BY MetTypes DEF IInv
  <2> HIDE DEF met, rows, n
  <2>6. met[n + 1].end - met[n + 1].begin = width
    BY <1>2, <1>3, <2>4, <2>5
  <2> QED BY <1>2, <2>1, <2>2, <2>3, <2>6
<1> QED BY <1>4, <1>5, <1>6, <1>2 DEF RowIsWire
----------------------------------------------------------------------------
(* What a turn of the loop does to the rows, in terms of the rows it       *)
(* pushes: one, or two when the segment is padded.                         *)
LEMMA WalkPushes ==
    ASSUME IInv, NEW s \in Segments, NEW off \in Offsets \cup {0},
           NEW width \in Widths \cup Sizes, NEW here \in BOOLEAN,
           Walk(s, off, width, here)
    PROVE  LET rows == Append(table.rows, OwnRow(s))
               met  == Append(wire, OwnMet(s, off, width, here))
               bits == SegmentBits(s)
           IN  /\ s.align = 0 /\ bits # Unknown =>
                    /\ table' = [rows |-> rows, at |-> table.at + bits, from |-> table.from]
                    /\ wire' = met
               /\ s.align = 0 /\ bits = Unknown =>
                    /\ table' = [rows |-> rows, at |-> 0, from |-> Len(rows)]
                    /\ wire' = met
               /\ s.align # 0 =>
                    /\ bits = Unknown
                    /\ table' = [rows |-> Append(rows, PadRow(s)), at |-> 0,
                                 from |-> Len(Append(rows, PadRow(s)))]
                    /\ wire' = Append(met, PadMet(s, off, width, here))
<1> DEFINE rows == Append(table.rows, OwnRow(s))
           met  == Append(wire, OwnMet(s, off, width, here))
<1>1. table = [rows |-> table.rows, at |-> table.at, from |-> table.from]
  BY DEF IInv, TypeOK
<1>2. Own(table, s) = [rows |-> rows, at |-> table.at, from |-> table.from]
  BY <1>1 DEF Own, Pushed, OwnRow
<1>3. wire' = IF s.align = 0 THEN met ELSE Append(met, PadMet(s, off, width, here))
  BY DEF Walk, OwnMet, PadMet
<1>4. table' = Tabled(table, s)
  BY DEF Walk
<1>5. CASE s.align = 0
  <2> HIDE DEF rows, met
  <2>1. table' = Advanced([rows |-> rows, at |-> table.at, from |-> table.from], SegmentBits(s))
    BY <1>2, <1>4, <1>5 DEF Tabled
  <2> QED BY <1>3, <1>5, <2>1 DEF Advanced, rows, met
<1>6. CASE s.align # 0
  <2>1. SegmentBits(s) = Unknown
    BY <1>6, SegmentShape DEF SegmentBits, Shape
  <2>2. Advanced(Own(table, s), Unknown) = [rows |-> rows, at |-> 0, from |-> Len(rows)]
    <3> HIDE DEF rows
    <3>1. Advanced([rows |-> rows, at |-> table.at, from |-> table.from], Unknown)
            = [rows |-> rows, at |-> 0, from |-> Len(rows)]
      BY DEF Advanced
    <3> QED BY <1>2, <3>1
  <2>3. Len(rows) = Len(table.rows) + 1 /\ Len(rows) # 0
    BY RowTypes DEF IInv, TypeOK
  <2>4. NextStart([rows |-> rows, at |-> 0, from |-> Len(rows)]) = After(Len(table.rows) + 1, 0)
    BY <2>3 DEF NextStart
  <2>5. Pushed([rows |-> rows, at |-> 0, from |-> Len(rows)], After(Len(table.rows) + 1, 0),
               PadSpan, s.when)
          = [rows |-> Append(rows, PadRow(s)), at |-> 0, from |-> Len(rows)]
    <3> HIDE DEF rows
    <3> DEFINE t == [rows |-> rows, at |-> 0, from |-> Len(rows)]
    <3>1. t.rows = rows
      OBVIOUS
    <3>2. Pushed(t, After(Len(table.rows) + 1, 0), PadSpan, s.when)
            = [t EXCEPT !.rows = Append(t.rows, PadRow(s))]
      BY DEF Pushed, PadRow
    <3> QED BY <3>1, <3>2
  <2>6. table' = Advanced([rows |-> Append(rows, PadRow(s)), at |-> 0, from |-> Len(rows)],
                          Unknown)
    <3> HIDE DEF rows
    <3> QED BY <1>4, <1>6, <2>1, <2>2, <2>4, <2>5 DEF Tabled
  <2>7. table' = [rows |-> Append(rows, PadRow(s)), at |-> 0,
                  from |-> Len(Append(rows, PadRow(s)))]
    <3> HIDE DEF rows
    <3> QED BY <2>6 DEF Advanced
  <2> QED BY <1>3, <1>6, <2>1, <2>7
<1> QED BY <1>5, <1>6

(* A turn of the loop keeps the invariant.                                 *)
LEMMA WalkKeeps ==
    ASSUME IInv, NEW s \in Segments, NEW off \in Offsets \cup {0},
           NEW width \in Widths \cup Sizes, NEW here \in BOOLEAN,
           Walk(s, off, width, here)
    PROVE  IInv'
<1> DEFINE n    == Len(table.rows)
           rows == Append(table.rows, OwnRow(s))
           met  == Append(wire, OwnMet(s, off, width, here))
           pad  == PadMet(s, off, width, here)
           bits == SegmentBits(s)
<1>1. /\ n \in Nat /\ Len(wire) = n
      /\ table.rows \in Seq(Row) /\ wire \in Seq(Meeting)
      /\ table.at \in Nat /\ table.from \in 0 .. n /\ cursor \in Nat /\ hi \in Nat
      /\ segments \in Nat /\ width \in Nat /\ pos \in Bits
  BY TablesAssumption DEF IInv, TypeOK, NextIsCursor
<1>2. /\ OwnRow(s) \in Row /\ PadRow(s) \in Row
      /\ OwnMet(s, off, width, here) \in Meeting /\ pad \in Meeting
      /\ Bound(s, off, width, here) \in Nat
  BY RowTypes, MetTypes DEF IInv
<1>3. /\ rows \in Seq(Row) /\ Len(rows) = n + 1 /\ rows[n + 1] = OwnRow(s)
      /\ met \in Seq(Meeting) /\ Len(met) = n + 1
      /\ met[n + 1] = OwnMet(s, off, width, here)
      /\ \A i \in 1 .. n : met[i] = wire[i]
  BY <1>1, <1>2
<1>4. Meets(s, off, width, here) /\ cursor' = Bound(s, off, width, here)
  BY DEF Walk
<1>5. \A i \in 1 .. n + 1 : RowIsWire(rows, met, i)
  BY <1>1, <1>2, <1>4, OwnRowIsWire, PushKeeps DEF IInv, TableIsWire
<1>6. /\ segments' \in Nat /\ ended' \in BOOLEAN /\ cursor' \in Nat /\ hi' \in Nat
      /\ pos' = IF pos = Unknown \/ bits = Unknown THEN Unknown ELSE pos + bits
  BY <1>1, <1>2, SegmentShape DEF Walk, Shape
<1>7. CASE s.align = 0 /\ bits # Unknown
  <2>1. /\ table' = [rows |-> rows, at |-> table.at + bits, from |-> table.from]
        /\ wire' = met
    BY <1>7, WalkPushes
  <2>2. /\ ~s.at /\ s.when = "always" /\ s.size \in Nat /\ bits = 8 * s.size
    BY <1>7, SegmentShape DEF SegmentBits, Shape, Bits
  <2>3. here /\ width = s.size
    BY <1>4, <2>2 DEF Meets, Unknown
  <2>4. cursor' = cursor + s.size
    BY <1>4, <1>7, <2>2, <2>3 DEF Bound, Ends, Begins
  <2> HIDE DEF rows, met, n, bits
  <2>5. table' \in [rows : Seq(Row), at : Nat, from : Nat]
    BY <1>1, <1>3, <2>1, <2>2
  <2>6. pos' = IF table.from = 0 THEN table.at + bits ELSE Unknown
    BY <1>1, <1>6, <1>7, <2>2 DEF IInv, PosIsAt, Unknown
  <2>7. TypeOK'
    BY <1>1, <1>3, <1>6, <2>1, <2>2, <2>5, <2>6 DEF TypeOK, Bits
  <2>8. table.from # 0 => wire'[table.from] = wire[table.from]
    BY <1>1, <1>3, <2>1
  <2>9. NextIsCursor'
    <3>1. table'.from \in 0 .. Len(table'.rows)
      BY <1>1, <1>3, <2>1
    <3>2. CASE table.from = 0
      <4>1. 8 * cursor = table.at
        BY <1>1, <3>2 DEF IInv, NextIsCursor
      <4>2. 8 * cursor' = table.at + bits
        BY <1>1, <2>2, <2>4, <4>1
      <4> QED BY <1>1, <2>1, <2>2, <3>1, <3>2, <4>2 DEF NextIsCursor
    <3>3. CASE table.from # 0
      <4>1. wire[table.from].end \in Nat
        <5>1. table.from \in 1 .. Len(wire)
          BY <1>1, <3>3
        <5>2. wire[table.from] \in Meeting
          BY <1>1, <5>1
        <5> QED BY <5>2 DEF Meeting
      <4>2. 8 * cursor = 8 * wire[table.from].end + table.at
        BY <3>3 DEF IInv, NextIsCursor
      <4>3. 8 * cursor' = 8 * wire'[table.from].end + (table.at + bits)
        <5>1. wire'[table.from].end = wire[table.from].end
          BY <2>8, <3>3
        <5>2. 8 * (cursor + s.size) = 8 * cursor + 8 * s.size
          BY <1>1, <2>2
        <5>3. 8 * cursor' = (8 * wire[table.from].end + table.at) + bits
          BY <2>2, <2>4, <4>2, <5>2
        <5>4. bits \in Nat /\ 8 * wire[table.from].end \in Nat /\ table.at \in Nat
          <6>1. bits \in Nat
            BY <2>2
          <6>2. 8 * wire[table.from].end \in Nat
            BY <4>1
          <6> QED BY <1>1, <6>1, <6>2
        <5> DEFINE was == wire[table.from].end
                   is  == wire'[table.from].end
                   now == cursor'
        <5>5. is = was /\ 8 * now = (8 * was + table.at) + bits
          BY <5>1, <5>3
        <5> HIDE DEF was, is, now
        <5>6. 8 * now = 8 * is + (table.at + bits)
          BY <5>4, <5>5 DEF was
        <5> QED BY <5>6 DEF is, now
      <4> QED BY <2>1, <3>1, <3>3, <4>3 DEF NextIsCursor
    <3> QED BY <3>2, <3>3
  <2>10. PosIsAt' /\ TableIsWire'
    BY <1>3, <1>5, <2>1, <2>6 DEF PosIsAt, TableIsWire
  <2> QED BY <2>7, <2>9, <2>10 DEF IInv
<1>8. CASE s.align = 0 /\ bits = Unknown
  <2>1. table' = [rows |-> rows, at |-> 0, from |-> n + 1] /\ wire' = met
    BY <1>3, <1>8, WalkPushes
  <2>2. cursor' = met[n + 1].end
    BY <1>3, <1>4, <1>8 DEF Bound, OwnMet, Met
  <2> HIDE DEF rows, met, n, bits
  <2>3. TypeOK'
    BY <1>1, <1>3, <1>6, <1>8, <2>1 DEF TypeOK, Bits
  <2>4. NextIsCursor' /\ PosIsAt' /\ TableIsWire'
    BY <1>1, <1>3, <1>5, <1>6, <1>8, <2>1, <2>2 DEF NextIsCursor, PosIsAt, TableIsWire
  <2> QED BY <2>3, <2>4 DEF IInv
<1>9. CASE s.align # 0
  <2> DEFINE rows2 == Append(rows, PadRow(s))
             met2  == Append(met, pad)
  <2>1. /\ rows2 \in Seq(Row) /\ Len(rows2) = n + 2 /\ rows2[n + 2] = PadRow(s)
        /\ met2 \in Seq(Meeting) /\ Len(met2) = n + 2
        /\ met2[n + 2] = pad /\ met2[n + 1] = OwnMet(s, off, width, here)
    <3> HIDE DEF rows, met, n, pad
    <3> QED BY <1>1, <1>2, <1>3
  <2>2. /\ table' = [rows |-> rows2, at |-> 0, from |-> n + 2] /\ wire' = met2
        /\ bits = Unknown
    BY <1>9, <2>1, WalkPushes
  <2>3. /\ met2[n + 1].end = Ends(s, off, width, here)
        /\ met2[n + 2].begin = Ends(s, off, width, here)
        /\ met2[n + 2].end = cursor'
        /\ Ends(s, off, width, here) \in Nat
    <3> HIDE DEF met2, n
    <3> QED BY <1>4, <2>1, MetTypes DEF pad, PadMet, OwnMet, Met, IInv
  <2>4. /\ rows2[n + 2].start.form = "after" /\ rows2[n + 2].start.row = n + 1
        /\ rows2[n + 2].start.bits = 0 /\ Extent(rows2[n + 2]) = Unknown
    <3> HIDE DEF rows2, n
    <3> QED BY <2>1 DEF n, PadRow, After, PadSpan, Extent, Unknown
  <2> HIDE DEF rows2, met2, rows, met, n, bits, pad
  <2>5. RowIsWire(rows2, met2, n + 2)
    BY <1>1, <2>3, <2>4 DEF RowIsWire, Resolved
  <2>6. \A i \in 1 .. n + 2 : RowIsWire(rows2, met2, i)
    <3>1. (n + 1) + 1 = n + 2
      BY <1>1
    <3> QED BY <1>2, <1>3, <1>5, <2>5, <3>1, PushKeeps DEF rows2, met2
  <2>7. TypeOK'
    BY <1>1, <1>6, <2>1, <2>2 DEF TypeOK, Bits
  <2>8. NextIsCursor' /\ PosIsAt' /\ TableIsWire'
    BY <1>1, <1>6, <2>1, <2>2, <2>3, <2>6 DEF NextIsCursor, PosIsAt, TableIsWire
  <2> QED BY <2>7, <2>8 DEF IInv
<1> QED BY <1>7, <1>8, <1>9

LEMMA InitHolds == Init => IInv
<1> SUFFICES ASSUME Init PROVE IInv
  OBVIOUS
<1>1. TypeOK
  <2>1. table.rows = <<>> /\ table = [rows |-> <<>>, at |-> 0, from |-> 0] /\ wire = <<>>
    BY DEF Init, EmptyTable
  <2>2. <<>> \in Seq(Row) /\ <<>> \in Seq(Meeting)
    OBVIOUS
  <2>3. table \in [rows : Seq(Row), at : Nat, from : Nat]
    BY <2>1, <2>2
  <2> QED BY <2>1, <2>2, <2>3 DEF Init, TypeOK, Bits
<1>2. NextIsCursor /\ PosIsAt /\ TableIsWire
  BY DEF Init, EmptyTable, NextIsCursor, PosIsAt, TableIsWire
<1> QED BY <1>1, <1>2 DEF IInv

LEMMA NextHolds == IInv /\ [Next]_vars => IInv'
<1> SUFFICES ASSUME IInv, [Next]_vars PROVE IInv'
  OBVIOUS
<1>1. CASE Next
  BY <1>1, WalkKeeps DEF Next
<1>2. CASE UNCHANGED vars
  BY <1>2 DEF vars, IInv, TypeOK, NextIsCursor, PosIsAt, TableIsWire, RowIsWire, Resolved
<1> QED BY <1>1, <1>2

LEMMA Inductive == Spec => []IInv
BY InitHolds, NextHolds, PTL DEF Spec

(* Whatever the wire holds, decode reads every row where the published     *)
(* table puts it: the rows of walk_segments, for every body and wire.      *)
THEOREM TablesAreWire == Spec => []TableIsWire
<1>1. IInv => TableIsWire
  BY DEF IInv
<1> QED BY <1>1, Inductive, PTL

(* An #[at] position the validator accepts is decode's cursor.             *)
THEOREM StatedPositionsAreWire == Spec => []StatedIsWire
<1>1. IInv => StatedIsWire
  BY DEF IInv, StatedIsWire, PosIsAt, NextIsCursor, TypeOK
<1> QED BY <1>1, Inductive, PTL

(* The rows are well formed and one for one with what decode met.          *)
THEOREM TablesAreTyped == Spec => []TypeOK
<1>1. IInv => TypeOK
  BY DEF IInv
<1> QED BY <1>1, Inductive, PTL

----------------------------------------------------------------------------
(***************************************************************************)
(* What a table promises of its fixed part, for every body and wire:       *)
(* fixed_bits and arms_fit read it off the rows, and hold of the bytes     *)
(* decode consumed.                                                        *)
(*                                                                         *)
(* The theorems above say where a row is that decode met.  Here it also    *)
(* matters that the rows at constant bits follow one another without a     *)
(* gap, that each of them is before the first row that is not fixed or is  *)
(* that row, and that decode never went back over them.                    *)
(***************************************************************************)

(* The first k rows are fixed, and the next one is not.                    *)
Prefix(rows, k) ==
    /\ k \in 0 .. Len(rows)
    /\ \A j \in 1 .. k : IsFixed(rows[j])
    /\ k < Len(rows) => ~IsFixed(rows[k + 1])

(* A row at a constant bit begins where the rows before it end, and those  *)
(* are all fixed.                                                          *)
Follows(rows, met, row, m, top) ==
    row.start.form = "at" =>
        /\ row.start.bits = 8 * m.begin /\ m.begin <= top
        /\ \A j \in 1 .. Len(rows) : IsFixed(rows[j]) /\ met[j].end <= m.begin

InRow(rows, met, top) ==
    \A i \in 1 .. Len(rows) :
        rows[i].start.form = "at" =>
            /\ rows[i].start.bits = 8 * met[i].begin /\ met[i].begin <= top
            /\ \A j \in 1 .. i - 1 : IsFixed(rows[j]) /\ met[j].end <= met[i].begin

(* While rows are at constant bits, all of them are fixed and decode is    *)
(* where they end; afterwards one of them is not.                          *)
FixedSoFar ==
    IF table.from = 0
    THEN /\ hi = cursor
         /\ \A j \in 1 .. Len(table.rows) : IsFixed(table.rows[j]) /\ wire[j].end <= cursor
         /\ Len(table.rows) # 0 => wire[Len(wire)].end = cursor
         /\ Len(table.rows) = 0 => cursor = 0
    ELSE ~IsFixed(table.rows[table.from])

Ordered ==
    /\ InRow(table.rows, wire, hi)
    /\ \E k \in 0 .. Len(table.rows) : Prefix(table.rows, k)
    /\ FixedSoFar

PInv == IInv /\ Ordered

----------------------------------------------------------------------------
(* A table has a first row that is not fixed, or all are.                  *)
LEMMA PrefixGrows ==
    ASSUME NEW rows \in Seq(Row), NEW row \in Row,
           \E k \in 0 .. Len(rows) : Prefix(rows, k)
    PROVE  \E k \in 0 .. Len(Append(rows, row)) : Prefix(Append(rows, row), k)
<1> DEFINE n == Len(rows)
           more == Append(rows, row)
<1>1. n \in Nat /\ Len(more) = n + 1 /\ more[n + 1] = row /\ \A i \in 1 .. n : more[i] = rows[i]
  OBVIOUS
<1>2. PICK k \in 0 .. n : Prefix(rows, k)
  OBVIOUS
<1> HIDE DEF more, n
<1>3. CASE k < n
  <2>1. \A j \in 1 .. k : more[j] = rows[j]
    BY <1>1, <1>2
  <2>2. more[k + 1] = rows[k + 1]
    BY <1>1, <1>2, <1>3
  <2>3. Prefix(more, k)
    BY <1>1, <1>2, <1>3, <2>1, <2>2 DEF Prefix, n
  <2> QED BY <1>1, <2>3 DEF more, n
<1>4. CASE k = n /\ IsFixed(row)
  <2>1. \A j \in 1 .. n + 1 : IsFixed(more[j])
    BY <1>1, <1>2, <1>4 DEF Prefix, n
  <2>2. Prefix(more, n + 1)
    BY <1>1, <2>1 DEF Prefix
  <2> QED BY <1>1, <2>2 DEF more, n
<1>5. CASE k = n /\ ~IsFixed(row)
  <2>1. \A j \in 1 .. n : IsFixed(more[j])
    BY <1>1, <1>2, <1>5 DEF Prefix, n
  <2>2. Prefix(more, n)
    BY <1>1, <1>5, <2>1 DEF Prefix
  <2> QED BY <1>1, <2>2 DEF more, n
<1> QED BY <1>1, <1>2, <1>3, <1>4, <1>5

LEMMA RowGrows ==
    ASSUME NEW rows \in Seq(Row), NEW met \in Seq(Meeting), Len(rows) = Len(met),
           NEW row \in Row, NEW m \in Meeting, NEW top \in Nat, NEW most \in Nat, top <= most,
           InRow(rows, met, top), Follows(rows, met, row, m, most)
    PROVE  InRow(Append(rows, row), Append(met, m), most)
<1> DEFINE n == Len(rows)
           more == Append(rows, row)
           wires == Append(met, m)
<1>1. n \in Nat /\ Len(more) = n + 1 /\ more[n + 1] = row /\ \A i \in 1 .. n : more[i] = rows[i]
  OBVIOUS
<1>a. Len(met) = n /\ \A i \in 1 .. n : met[i] \in Meeting
  OBVIOUS
<1>b. wires[n + 1] = m /\ \A i \in 1 .. n : wires[i] = met[i]
  <2> HIDE DEF n
  <2> QED BY <1>a
<1>c. \A i \in 1 .. n : met[i].begin \in Nat
  BY <1>a DEF Meeting
<1> HIDE DEF more, wires, n
<1> SUFFICES ASSUME NEW i \in 1 .. n + 1, more[i].start.form = "at"
             PROVE  /\ more[i].start.bits = 8 * wires[i].begin /\ wires[i].begin <= most
                    /\ \A j \in 1 .. i - 1 : IsFixed(more[j]) /\ wires[j].end <= wires[i].begin
  BY <1>1 DEF InRow, more, wires, n
<1>2. CASE i = n + 1
  <2>1. \A j \in 1 .. i - 1 : j \in 1 .. n
    BY <1>1, <1>2
  <2> QED BY <1>1, <1>b, <1>2, <2>1 DEF Follows, n
<1>3. CASE i \in 1 .. n
  <2>1. \A j \in 1 .. i - 1 : j \in 1 .. n
    BY <1>1, <1>3
  <2>2. /\ rows[i].start.bits = 8 * met[i].begin /\ met[i].begin <= top
        /\ \A j \in 1 .. i - 1 : IsFixed(rows[j]) /\ met[j].end <= met[i].begin
    BY <1>1, <1>3 DEF InRow, n
  <2>3. met[i].begin <= most
    BY <1>c, <1>3, <2>2
  <2> QED BY <1>1, <1>b, <1>3, <2>1, <2>2, <2>3
<1> QED BY <1>1, <1>2, <1>3

----------------------------------------------------------------------------
(* The rows at offsets, and the optional ones, are not fixed.              *)
Loose(s) ==
    /\ s.form = "placed" => s.at
    /\ s.form = "opt" => s.when # "always"

LEMMA MadeLoose ==
    ASSUME NEW form, NEW size, NEW at, NEW when, NEW align, NEW fill,
           form = "placed" => at, form = "opt" => when # "always"
    PROVE  Loose(Segment(form, size, at, when, align, fill))
BY DEF Loose, Segment

LEMMA SegmentLoose == \A s \in Segments : Loose(s)
<1>1. ASSUME NEW form \in {"block", "checksum", "value", "switch", "repeat"}, NEW at \in BOOLEAN
      PROVE  /\ \A s \in Fixed(form) : Loose(s)
             /\ \A s \in Padded(form, at, "always") : Loose(s)
             /\ \A s \in Sized(form, at, "always") : Loose(s)
             /\ \A s \in Filling(form, at, "always") : Loose(s)
  <2>1. \A s \in Fixed(form) : Loose(s)
    BY MadeLoose DEF Fixed
  <2>2. \A s \in Padded(form, at, "always") : Loose(s)
    BY MadeLoose DEF Padded
  <2>3. \A s \in Sized(form, at, "always") : Loose(s)
    BY MadeLoose DEF Sized
  <2>4. \A s \in Filling(form, at, "always") : Loose(s)
    BY MadeLoose DEF Filling
  <2> QED BY <2>1, <2>2, <2>3, <2>4
<1>2. \A s \in Opts : Loose(s)
  BY MadeLoose DEF Opts, Sized, Filling
<1>3. \A s \in Placeds : Loose(s)
  <2>1. ASSUME NEW n \in Sizes \cup {Unknown}, NEW s \in Measured(n) PROVE Loose(s)
    <3>1. PICK a \in Aligns \cup {0} : s = Segment("placed", n, TRUE, "length", a, FALSE)
      BY DEF Measured
    <3>2. Loose(Segment("placed", n, TRUE, "length", a, FALSE))
      BY MadeLoose
    <3> QED BY <3>1, <3>2
  <2>2. /\ \A s \in Sized("placed", TRUE, "always") : Loose(s)
        /\ \A s \in Sized("placed", TRUE, "offset") : Loose(s)
    BY MadeLoose DEF Sized
  <2> QED BY <2>1, <2>2 DEF Placeds
<1>4. \A s \in Repeats : Loose(s)
  BY <1>1 DEF Repeats
<1> QED BY <1>1, <1>2, <1>3, <1>4 DEF Segments, Blocks, Checksums, Values, Switches

(* The segment's own row is fixed exactly while the table counts from the  *)
(* body's first bit and the segment's bits are known.                      *)
LEMMA OwnRowFixed ==
    ASSUME TypeOK, NEW s \in Segments
    PROVE  /\ SegmentBits(s) = Unknown => ~IsFixed(OwnRow(s))
           /\ table.from = 0 /\ SegmentBits(s) # Unknown => IsFixed(OwnRow(s))
<1>1. Shape(s) /\ Loose(s)
  BY SegmentShape, SegmentLoose
<1>2. ASSUME SegmentBits(s) = Unknown PROVE ~IsFixed(OwnRow(s))
  <2>1. CASE s.at
    BY <2>1 DEF OwnRow, IsFixed, Seek
  <2>2. CASE ~s.at /\ s.form \in {"placed", "opt"}
    <3>1. s.when # "always"
      BY <1>1, <2>2 DEF Loose
    <3> QED BY <3>1 DEF OwnRow, IsFixed, Extent
  <2>3. CASE ~s.at /\ s.form \notin {"placed", "opt"}
    <3>1. s.size = Unknown
      BY <1>1, <1>2, <2>3 DEF SegmentBits, Shape, Bits, Unknown
    <3>2. Span(s).bits = Unknown
      BY <3>1 DEF Span
    <3> QED BY <3>2 DEF OwnRow, IsFixed, Extent
  <2> QED BY <1>1, <2>1, <2>2, <2>3 DEF Shape
<1>3. ASSUME table.from = 0, SegmentBits(s) # Unknown PROVE IsFixed(OwnRow(s))
  <2>1. ~s.at /\ s.size # Unknown /\ s.form \notin {"placed", "opt"} /\ s.when = "always"
    BY <1>1, <1>3 DEF SegmentBits, Shape
  <2>2. s.size \in Nat /\ ~s.fill
    BY <1>1, <2>1 DEF Shape, Bits
  <2>3. Span(s).bits = 8 * s.size /\ 8 * s.size # Unknown
    BY <2>1, <2>2 DEF Span, Unknown
  <2>4. OwnRow(s).start.form = "at"
    BY <1>3, <2>1 DEF OwnRow, NextStart, At
  <2> QED BY <2>1, <2>3, <2>4 DEF OwnRow, IsFixed, Extent
<1> QED BY <1>2, <1>3

----------------------------------------------------------------------------
LEMMA OwnRowFollows ==
    ASSUME PInv, NEW s \in Segments, NEW off \in Offsets \cup {0},
           NEW width \in Widths \cup Sizes, NEW here \in BOOLEAN
    PROVE  Follows(table.rows, wire, OwnRow(s), OwnMet(s, off, width, here), hi)
<1> DEFINE m == OwnMet(s, off, width, here)
<1> SUFFICES ASSUME OwnRow(s).start.form = "at"
             PROVE  /\ OwnRow(s).start.bits = 8 * m.begin /\ m.begin <= hi
                    /\ \A j \in 1 .. Len(table.rows) :
                           IsFixed(table.rows[j]) /\ wire[j].end <= m.begin
  BY DEF Follows
<1>1. ~s.at
  BY DEF OwnRow, Seek
<1>2. table.from = 0 /\ OwnRow(s).start.bits = table.at
  BY <1>1 DEF OwnRow, NextStart, At, After
<1>3. m.begin = cursor
  BY <1>1 DEF OwnMet, Met, Begins
<1>4. 8 * cursor = table.at /\ cursor \in Nat /\ hi = cursor
  BY <1>2 DEF PInv, IInv, TypeOK, NextIsCursor, Ordered, FixedSoFar
<1>5. \A j \in 1 .. Len(table.rows) : IsFixed(table.rows[j]) /\ wire[j].end <= cursor
  BY <1>2 DEF PInv, Ordered, FixedSoFar
<1> QED BY <1>2, <1>3, <1>4, <1>5

(* A turn of the loop leaves the fixed rows behind decode's cursor.        *)
LEMMA WalkOrders ==
    ASSUME PInv, NEW s \in Segments, NEW off \in Offsets \cup {0},
           NEW width \in Widths \cup Sizes, NEW here \in BOOLEAN,
           Walk(s, off, width, here)
    PROVE  Ordered'
<1> DEFINE n    == Len(table.rows)
           own  == OwnMet(s, off, width, here)
           pad  == PadMet(s, off, width, here)
           rows == Append(table.rows, OwnRow(s))
           met  == Append(wire, own)
           bits == SegmentBits(s)
<1>0. IInv /\ TypeOK
  BY DEF PInv, IInv
<1>1. /\ n \in Nat /\ Len(wire) = n /\ table.rows \in Seq(Row) /\ wire \in Seq(Meeting)
      /\ table.from \in 0 .. n /\ cursor \in Nat /\ hi \in Nat /\ width \in Nat
  BY <1>0, TablesAssumption DEF IInv, TypeOK, NextIsCursor
<1>2. /\ OwnRow(s) \in Row /\ PadRow(s) \in Row /\ own \in Meeting /\ pad \in Meeting
      /\ Bound(s, off, width, here) \in Nat
  BY <1>0, RowTypes, MetTypes DEF IInv
<1>3. hi' \in Nat /\ hi <= hi' /\ cursor' = Bound(s, off, width, here)
  BY <1>1, <1>2 DEF Walk
<1>4. /\ rows \in Seq(Row) /\ Len(rows) = n + 1 /\ rows[n + 1] = OwnRow(s)
      /\ \A i \in 1 .. n : rows[i] = table.rows[i]
  BY <1>1, <1>2
<1>5. /\ met \in Seq(Meeting) /\ Len(met) = n + 1 /\ met[n + 1] = own
      /\ \A i \in 1 .. n : met[i] = wire[i]
  <2> HIDE DEF own, n
  <2> QED BY <1>1, <1>2
<1>6. InRow(rows, met, hi')
  <2>1. Follows(table.rows, wire, OwnRow(s), own, hi)
    BY OwnRowFollows
  <2>2. own.begin \in Nat
    BY <1>2 DEF Meeting
  <2>3. Follows(table.rows, wire, OwnRow(s), own, hi')
    <3> HIDE DEF own
    <3> QED BY <1>1, <1>3, <2>1, <2>2 DEF Follows
  <2>4. InRow(table.rows, wire, hi)
    BY DEF PInv, Ordered
  <2> HIDE DEF own
  <2> QED BY <1>1, <1>2, <1>3, <2>3, <2>4, RowGrows
<1>7. \E k \in 0 .. Len(rows) : Prefix(rows, k)
  BY <1>1, <1>2, PrefixGrows DEF PInv, Ordered
<1>8. CASE s.align = 0
  <2>1. table'.rows = rows /\ wire' = met
    <3> HIDE DEF rows, met
    <3>1. CASE bits = Unknown
      BY <1>0, <1>8, <3>1, WalkPushes DEF rows, met
    <3>2. CASE bits # Unknown
      BY <1>0, <1>8, <3>2, WalkPushes DEF rows, met
    <3> QED BY <3>1, <3>2
  <2>2. FixedSoFar'
    <3>1. CASE bits = Unknown
      <4>1. table' = [rows |-> rows, at |-> 0, from |-> n + 1]
        BY <1>0, <1>4, <1>8, <3>1, WalkPushes
      <4>2. ~IsFixed(rows[n + 1])
        BY <1>0, <1>4, <3>1, OwnRowFixed
      <4> HIDE DEF rows, met, n
      <4> QED BY <1>1, <4>1, <4>2 DEF FixedSoFar
    <3>2. CASE bits # Unknown
      <4>1. table'.from = table.from
        BY <1>0, <1>8, <3>2, WalkPushes
      <4>2. CASE table.from # 0
        <5>1. ~IsFixed(table.rows[table.from])
          BY <4>2 DEF PInv, Ordered, FixedSoFar
        <5>2. rows[table.from] = table.rows[table.from]
          <6> HIDE DEF rows, n
          <6> QED BY <1>1, <1>4, <4>2
        <5> HIDE DEF rows, met, n
        <5> QED BY <2>1, <4>1, <4>2, <5>1, <5>2 DEF FixedSoFar
      <4>3. CASE table.from = 0
        <5>1. IsFixed(OwnRow(s))
          BY <1>0, <3>2, <4>3, OwnRowFixed
        <5>2. /\ hi = cursor
              /\ \A j \in 1 .. n : IsFixed(table.rows[j]) /\ wire[j].end <= cursor
          BY <4>3 DEF PInv, Ordered, FixedSoFar
        <5>3. ~s.at /\ s.when = "always" /\ s.size \in Nat
          BY <3>2, SegmentShape DEF SegmentBits, Shape, Bits
        <5>4. here /\ width = s.size
          BY <5>3 DEF Walk, Meets, Unknown
        <5>5. cursor' = cursor + s.size /\ own.end = cursor'
          BY <1>3, <1>8, <5>3, <5>4 DEF Bound, Ends, Begins, OwnMet, Met
        <5>6. hi' = cursor' /\ cursor' \in Nat /\ cursor <= cursor'
          BY <1>1, <1>3, <5>2, <5>3, <5>5 DEF Walk
        <5>7. \A j \in 1 .. n : wire[j].end \in Nat
          <6>1. \A j \in 1 .. n : wire[j] \in Meeting
            BY <1>1
          <6> QED BY <6>1 DEF Meeting
        <5> HIDE DEF rows, met, n, own
        <5>8. \A j \in 1 .. n + 1 : IsFixed(rows[j]) /\ met[j].end <= cursor'
          BY <1>1, <1>4, <1>5, <5>1, <5>2, <5>5, <5>6, <5>7
        <5>9. met[Len(met)].end = cursor' /\ Len(rows) # 0
          BY <1>1, <1>4, <1>5, <5>5
        <5> QED BY <1>4, <2>1, <4>1, <4>3, <5>6, <5>8, <5>9 DEF FixedSoFar
      <4> QED BY <4>2, <4>3
    <3> QED BY <3>1, <3>2
  <2> HIDE DEF rows, met
  <2> QED BY <1>6, <1>7, <2>1, <2>2 DEF Ordered
<1>9. CASE s.align # 0
  <2> DEFINE rows2 == Append(rows, PadRow(s))
             met2  == Append(met, pad)
  <2>1. table' = [rows |-> rows2, at |-> 0, from |-> Len(rows2)] /\ wire' = met2
    BY <1>0, <1>9, WalkPushes
  <2>2. PadRow(s).start.form # "at" /\ ~IsFixed(PadRow(s))
    BY DEF PadRow, After, IsFixed
  <2> HIDE DEF rows, met, n, pad
  <2>3. Len(rows2) = n + 2 /\ rows2[n + 2] = PadRow(s)
    BY <1>1, <1>2, <1>4
  <2>4. Follows(rows, met, PadRow(s), pad, hi')
    BY <2>2 DEF Follows
  <2>5. InRow(rows2, met2, hi')
    BY <1>2, <1>3, <1>4, <1>5, <1>6, <2>4, RowGrows
  <2>6. \E k \in 0 .. Len(rows2) : Prefix(rows2, k)
    BY <1>2, <1>4, <1>7, PrefixGrows
  <2>7. FixedSoFar'
    <3> HIDE DEF rows2, met2
    <3> QED BY <1>1, <2>1, <2>2, <2>3 DEF FixedSoFar
  <2> HIDE DEF rows2, met2
  <2> QED BY <2>1, <2>5, <2>6, <2>7 DEF Ordered
<1> QED BY <1>8, <1>9

LEMMA PrefixInductive == Spec => []PInv
<1>1. Init => PInv
  <2> SUFFICES ASSUME Init PROVE PInv
    OBVIOUS
  <2>1. /\ table.rows = <<>> /\ table.from = 0 /\ wire = <<>> /\ cursor = 0 /\ hi = 0
        /\ Len(table.rows) = 0
    BY DEF Init, EmptyTable
  <2>2. InRow(table.rows, wire, hi)
    BY <2>1 DEF InRow
  <2>3. Prefix(table.rows, 0)
    BY <2>1 DEF Prefix
  <2>4. \E k \in 0 .. Len(table.rows) : Prefix(table.rows, k)
    BY <2>1, <2>3
  <2>5. FixedSoFar
    BY <2>1 DEF FixedSoFar
  <2> QED BY <2>2, <2>4, <2>5, InitHolds DEF PInv, Ordered
<1>2. PInv /\ [Next]_vars => PInv'
  <2> SUFFICES ASSUME PInv, [Next]_vars PROVE PInv'
    OBVIOUS
  <2>1. IInv'
    BY NextHolds DEF PInv
  <2>2. CASE Next
    BY <2>1, <2>2, WalkOrders DEF Next, PInv
  <2>3. CASE UNCHANGED vars
    BY <2>1, <2>3 DEF vars, PInv, Ordered, InRow, FixedSoFar
  <2> QED BY <2>2, <2>3
<1> QED BY <1>1, <1>2, PTL DEF Spec

----------------------------------------------------------------------------
(* fixed_bits stops at the first row that is not fixed.                    *)
LEMMA FixedBitsStops ==
    ASSUME NEW rows \in Seq(Row), NEW k \in 0 .. Len(rows), Prefix(rows, k)
    PROVE  FixedBits(rows) =
               IF k < Len(rows) /\ rows[k + 1].start.form = "at" THEN rows[k + 1].start.bits
               ELSE IF k = 0 THEN 0 ELSE rows[k].start.bits + rows[k].span.bits
<1> DEFINE prefix == {i \in 1 .. Len(rows) : \A j \in 1 .. i : IsFixed(rows[j])}
<1>1. Len(rows) \in Nat /\ k \in Nat
  OBVIOUS
<1>2. prefix = 1 .. k
  <2>1. \A i \in 1 .. k : i \in prefix
    BY <1>1 DEF Prefix
  <2>2. ASSUME NEW i \in prefix PROVE i \in 1 .. k
    <3>1. CASE i \in 1 .. k
      BY <3>1
    <3>2. CASE i > k
      <4>1. k + 1 \in 1 .. i /\ k < Len(rows)
        BY <1>1, <3>2
      <4> QED BY <4>1 DEF Prefix
    <3> QED BY <1>1, <3>1, <3>2
  <2> QED BY <2>1, <2>2
<1>3. Cardinality(prefix) = k
  <2>1. Cardinality(1 .. k) = IF 1 > k THEN 0 ELSE k - 1 + 1
    BY <1>1, FS_Interval
  <2> HIDE DEF prefix
  <2>2. Cardinality(1 .. k) = k
    BY <1>1, <2>1
  <2> QED BY <1>2, <2>2
<1> QED BY <1>3 DEF FixedBits

(* The byte at which the fixed prefix ends, on every wire: where the first *)
(* row begins that is not fixed, or else where the last fixed one ends.    *)
LEMMA FixedBitsMet ==
    ASSUME PInv, NEW k \in 0 .. Len(table.rows), Prefix(table.rows, k)
    PROVE  \/ /\ k < Len(table.rows) /\ table.rows[k + 1].start.form = "at"
              /\ FixedBits(table.rows) = 8 * wire[k + 1].begin
           \/ /\ ~(k < Len(table.rows) /\ table.rows[k + 1].start.form = "at")
              /\ k = 0 /\ FixedBits(table.rows) = 0
           \/ /\ ~(k < Len(table.rows) /\ table.rows[k + 1].start.form = "at")
              /\ k # 0 /\ FixedBits(table.rows) = 8 * wire[k].end
<1>1. /\ table.rows \in Seq(Row) /\ Len(table.rows) \in Nat /\ k \in Nat
      /\ \A i \in 1 .. Len(table.rows) : wire[i] \in Meeting /\ table.rows[i] \in Row
  BY DEF PInv, IInv, TypeOK
<1>2. InRow(table.rows, wire, hi)
  BY DEF PInv, Ordered
<1>3. CASE k < Len(table.rows) /\ table.rows[k + 1].start.form = "at"
  <2>1. k + 1 \in 1 .. Len(table.rows)
    BY <1>1, <1>3
  <2>2. table.rows[k + 1].start.bits = 8 * wire[k + 1].begin
    BY <1>2, <1>3, <2>1 DEF InRow
  <2> QED BY <1>1, <1>3, <2>2, FixedBitsStops
<1>4. CASE ~(k < Len(table.rows) /\ table.rows[k + 1].start.form = "at") /\ k = 0
  BY <1>1, <1>4, FixedBitsStops
<1>5. CASE ~(k < Len(table.rows) /\ table.rows[k + 1].start.form = "at") /\ k # 0
  <2>1. k \in 1 .. Len(table.rows) /\ k \in 1 .. k
    BY <1>1, <1>5
  <2>2. IsFixed(table.rows[k])
    BY <2>1 DEF Prefix
  <2>3. table.rows[k].start.bits = 8 * wire[k].begin
    BY <1>2, <2>1, <2>2 DEF InRow, IsFixed
  <2>4. table.rows[k].span.bits = 8 * (wire[k].end - wire[k].begin)
    <3>1. RowIsWire(table.rows, wire, k)
      BY <2>1 DEF PInv, IInv, TableIsWire
    <3>2. Extent(table.rows[k]) = table.rows[k].span.bits
      BY <2>2 DEF IsFixed, Extent
    <3> QED BY <2>2, <3>1, <3>2 DEF IsFixed, RowIsWire
  <2>5. wire[k].begin \in Nat /\ wire[k].end \in Nat
    BY <1>1, <2>1 DEF Meeting
  <2>6. FixedBits(table.rows) = table.rows[k].start.bits + table.rows[k].span.bits
    BY <1>1, <1>5, FixedBitsStops
  <2>7. FixedBits(table.rows) = 8 * wire[k].end
    BY <2>3, <2>4, <2>5, <2>6
  <2> QED BY <1>5, <2>7
<1> QED BY <1>3, <1>4, <1>5

(* A table of fixed rows alone ends where decode ended.                    *)
LEMMA AllFixed ==
    ASSUME PInv, \A i \in 1 .. Len(table.rows) : IsFixed(table.rows[i])
    PROVE  FixedBits(table.rows) = 8 * hi
<1>1. PICK k \in 0 .. Len(table.rows) : Prefix(table.rows, k)
  BY DEF PInv, Ordered
<1>2. Len(table.rows) \in Nat /\ Len(wire) = Len(table.rows) /\ table.from \in 0 .. Len(table.rows)
  BY DEF PInv, IInv, TypeOK, NextIsCursor
<1>3. k = Len(table.rows)
  <2>1. ~(k < Len(table.rows))
    <3> SUFFICES ASSUME k < Len(table.rows) PROVE FALSE
      OBVIOUS
    <3>1. k + 1 \in 1 .. Len(table.rows)
      BY <1>1, <1>2
    <3> QED BY <1>1, <3>1 DEF Prefix
  <2> QED BY <1>1, <1>2, <2>1
<1>4. table.from = 0
  <2> SUFFICES ASSUME table.from # 0 PROVE FALSE
    OBVIOUS
  <2>1. table.from \in 1 .. Len(table.rows)
    BY <1>2
  <2> QED BY <2>1 DEF PInv, Ordered, FixedSoFar
<1>5. /\ hi = cursor
      /\ Len(table.rows) # 0 => wire[Len(wire)].end = cursor
      /\ Len(table.rows) = 0 => cursor = 0
  BY <1>4 DEF PInv, Ordered, FixedSoFar
<1>6. CASE k = 0
  <2>1. Len(table.rows) = 0
    BY <1>3, <1>6
  <2>2. FixedBits(table.rows) = 0
    BY <1>1, <1>3, <1>6, FixedBitsMet
  <2> QED BY <1>5, <2>1, <2>2
<1>7. CASE k # 0
  <2>1. Len(table.rows) # 0
    BY <1>3, <1>7
  <2>2. FixedBits(table.rows) = 8 * wire[k].end
    BY <1>1, <1>3, <1>7, FixedBitsMet
  <2> QED BY <1>2, <1>3, <1>5, <2>1, <2>2
<1> QED BY <1>6, <1>7

(* What a table promises of its fixed part, the wire keeps: every row the  *)
(* table puts before that bit was there, was fixed, and ended by it        *)
(* (table::fixed_bits, for every body and wire).                           *)
THEOREM PrefixesAreExact == Spec => []PrefixIsExact
<1>1. PInv => PrefixIsExact
  <2> SUFFICES ASSUME PInv PROVE PrefixIsExact
    OBVIOUS
  <2> DEFINE rows == table.rows
             last == FixedBits(rows)
  <2>1. PICK k \in 0 .. Len(rows) : Prefix(rows, k)
    BY DEF PInv, Ordered
  <2>2. /\ Len(rows) \in Nat /\ k \in Nat
        /\ \A i \in 1 .. Len(rows) : wire[i] \in Meeting
    BY DEF PInv, IInv, TypeOK
  <2>3. InRow(rows, wire, hi)
    BY DEF PInv, Ordered
  <2>4. ASSUME NEW i \in 1 .. Len(rows), rows[i].start.form = "at", 8 * wire[i].begin < last
        PROVE  wire[i].here /\ IsFixed(rows[i]) /\ 8 * wire[i].end <= last
    <3> HIDE DEF last
    <3>1. wire[i].begin \in Nat /\ wire[i].end \in Nat
      BY <2>2 DEF Meeting
    <3>2. i <= k
      <4> SUFFICES ASSUME i > k PROVE FALSE
        BY <2>2
      <4>1. CASE i > k + 1
        <5>1. k + 1 \in 1 .. i - 1 /\ k < Len(rows)
          BY <2>2, <4>1
        <5>2. IsFixed(rows[k + 1])
          BY <2>3, <2>4, <5>1 DEF InRow
        <5> QED BY <2>1, <5>1, <5>2 DEF Prefix
      <4>2. CASE i = k + 1
        <5>1. k < Len(rows) /\ rows[k + 1].start.form = "at"
          BY <2>2, <2>4, <4>2
        <5>2. last = 8 * wire[k + 1].begin
          BY <2>1, <5>1, FixedBitsMet DEF last
        <5> QED BY <2>4, <3>1, <4>2, <5>2
      <4> QED BY <2>2, <4>1, <4>2
    <3>3. IsFixed(rows[i]) /\ wire[i].here /\ wire[i].begin <= wire[i].end
      <4>1. IsFixed(rows[i])
        BY <2>1, <2>2, <3>2 DEF Prefix
      <4>2. RowIsWire(rows, wire, i)
        BY DEF PInv, IInv, TableIsWire
      <4>3. /\ wire[i].here
            /\ 8 * (wire[i].end - wire[i].begin) = Extent(rows[i])
            /\ Extent(rows[i]) # Unknown
        BY <4>1, <4>2 DEF IsFixed, RowIsWire
      <4>4. Extent(rows[i]) \in Nat
        <5>1. rows[i] \in Row
          BY DEF PInv, IInv, TypeOK
        <5>2. Extent(rows[i]) \in Bits
          BY <5>1 DEF Extent, Row, Bits
        <5> QED BY <4>3, <5>2 DEF Bits
      <4> QED BY <3>1, <4>1, <4>3, <4>4
    <3>4. 8 * wire[i].end <= last
      <4>1. CASE k < Len(rows) /\ rows[k + 1].start.form = "at"
        <5>1. last = 8 * wire[k + 1].begin
          BY <2>1, <4>1, FixedBitsMet DEF last
        <5>2. k + 1 \in 1 .. Len(rows) /\ i \in 1 .. (k + 1) - 1
          BY <2>2, <3>2, <4>1
        <5>3. wire[i].end <= wire[k + 1].begin
          BY <2>3, <4>1, <5>2 DEF InRow
        <5>4. wire[k + 1].begin \in Nat
          BY <2>2, <5>2 DEF Meeting
        <5> QED BY <3>1, <5>1, <5>3, <5>4
      <4>2. CASE ~(k < Len(rows) /\ rows[k + 1].start.form = "at")
        <5>1. k # 0 /\ k \in 1 .. Len(rows)
          BY <2>1, <2>2, <3>2
        <5>2. last = 8 * wire[k].end
          BY <2>1, <4>2, <5>1, FixedBitsMet DEF last
        <5>3. CASE i = k
          BY <3>1, <5>2, <5>3
        <5>4. CASE i < k
          <6>1. i \in 1 .. k - 1 /\ k \in 1 .. k
            BY <2>2, <5>1, <5>4
          <6>2. IsFixed(rows[k])
            BY <2>1, <6>1 DEF Prefix
          <6>3. wire[i].end <= wire[k].begin
            BY <2>3, <5>1, <6>1, <6>2 DEF InRow, IsFixed
          <6>4. wire[k].begin <= wire[k].end
            <7>1. RowIsWire(rows, wire, k) /\ rows[k] \in Row /\ wire[k] \in Meeting
              BY <2>2, <5>1 DEF PInv, IInv, TableIsWire, TypeOK
            <7>2. Extent(rows[k]) # Unknown
              BY <6>2 DEF IsFixed
            <7>3. Extent(rows[k]) \in Nat
              BY <7>1, <7>2 DEF Extent, Row, Bits
            <7>4. 8 * (wire[k].end - wire[k].begin) = Extent(rows[k])
              BY <7>1, <7>2 DEF RowIsWire
            <7>5. wire[k].begin \in Nat /\ wire[k].end \in Nat
              BY <7>1 DEF Meeting
            <7> QED BY <7>3, <7>4, <7>5
          <6>5. wire[k].begin \in Nat /\ wire[k].end \in Nat
            BY <2>2, <5>1 DEF Meeting
          <6>6. wire[i].end \in Nat
            BY <2>2, <5>1, <6>1 DEF Meeting
          <6>7. 8 * wire[i].end <= 8 * wire[k].end
            BY <6>3, <6>4, <6>5, <6>6
          <6> QED BY <3>1, <5>2, <6>7
        <5> QED BY <2>2, <3>2, <5>3, <5>4
      <4> QED BY <4>1, <4>2
    <3> QED BY <3>3, <3>4
  <2>5. (\A i \in 1 .. Len(rows) : IsFixed(rows[i])) => last = 8 * hi
    BY AllFixed
  <2> QED BY <2>4, <2>5 DEF PrefixIsExact
<1> QED BY <1>1, PrefixInductive, PTL

(* arms_fit refuses no arm that some wire fills to the union's size, and   *)
(* accepts an arm of fixed size for that size alone, for every body and    *)
(* wire.                                                                   *)
THEOREM ArmsFitExactly == Spec => []ArmsFitIsExact
<1>1. PInv => ArmsFitIsExact
  <2> SUFFICES ASSUME PInv PROVE ArmsFitIsExact
    OBVIOUS
  <2> DEFINE rows  == table.rows
             stops == {i \in 1 .. Len(rows) : ~IsFixed(rows[i])}
             least == CHOOSE i \in stops : \A j \in stops : i <= j
  <2>1. PICK k \in 0 .. Len(rows) : Prefix(rows, k)
    BY DEF PInv, Ordered
  <2>2. Len(rows) \in Nat /\ k \in Nat /\ hi \in Nat
    BY DEF PInv, IInv, TypeOK
  <2>3. stops = {} => FixedBits(rows) = 8 * hi
    BY AllFixed
  <2>4. stops # {} => least \in stops
    <3> SUFFICES ASSUME stops # {} PROVE least \in stops
      OBVIOUS
    <3>1. k < Len(rows)
      BY <2>1, <2>2 DEF Prefix
    <3>2. k + 1 \in stops
      BY <2>1, <2>2, <3>1 DEF Prefix
    <3>3. \A j \in stops : k + 1 <= j
      BY <2>1, <2>2 DEF Prefix
    <3> QED BY <3>2, <3>3
  <2>5. ArmFits(rows, 8 * hi)
    <3>1. CASE stops = {}
      BY <2>3, <3>1 DEF ArmFits
    <3>2. CASE stops # {}
      <4>1. least \in 1 .. Len(rows)
        BY <2>4, <3>2
      <4>2. rows[least].start.form = "at" => rows[least].start.bits <= 8 * hi
        <5> SUFFICES ASSUME rows[least].start.form = "at"
                     PROVE  rows[least].start.bits <= 8 * hi
          OBVIOUS
        <5> HIDE DEF least
        <5>1. rows[least].start.bits = 8 * wire[least].begin /\ wire[least].begin <= hi
          BY <4>1 DEF PInv, Ordered, InRow
        <5>2. wire[least].begin \in Nat
          <6>1. wire \in Seq(Meeting) /\ Len(wire) = Len(rows)
            BY DEF PInv, IInv, TypeOK
          <6>2. wire[least] \in Meeting
            BY <4>1, <6>1
          <6> QED BY <6>2 DEF Meeting
        <5> QED BY <2>2, <5>1, <5>2
      <4> QED BY <3>2, <4>2 DEF ArmFits
    <3> QED BY <3>1, <3>2
  <2>6. ASSUME \A i \in 1 .. Len(rows) : IsFixed(rows[i]),
               NEW n \in 0 .. hi + 1, ArmFits(rows, 8 * n)
        PROVE  n = hi
    <3>1. stops = {}
      BY <2>6
    <3>2. FixedBits(rows) = 8 * n
      BY <2>6, <3>1 DEF ArmFits
    <3> QED BY <2>2, <2>3, <3>1, <3>2
  <2> QED BY <2>5, <2>6 DEF ArmsFitIsExact
<1> QED BY <1>1, PrefixInductive, PTL
=============================================================================
