-------------------------- MODULE BitMessageProofs --------------------------
(***************************************************************************)
(* The segment table of a bit-addressed message says where decode reads,   *)
(* and decode restores what encode wrote, for every message, every codec,  *)
(* every value and every wire.                                             *)
(*                                                                         *)
(* The generator counts the bits it knows from the last field whose width  *)
(* it does not; decode moves one cursor.  The table is finished before any *)
(* code runs, so the first invariant has two halves: each row was made of  *)
(* what the rows before it left of the count (Follow), and the cursor is   *)
(* where the count before its field says it is (CursorIsCount).            *)
(*                                                                         *)
(* The second invariant, WireInv, follows the value: onto the wire,         *)
(* through the patch of the flags, and back.                               *)
(***************************************************************************)
EXTENDS BitMessage, WellFoundedInduction, FiniteSetTheorems, TLAPS

Counts == [after : Nat, bits : Int]
Spans  == [begin : Int, end : Int]
Start  == [after |-> 0, bits |-> 0]

(* The count before a field, from the row that was made of it.             *)
Before(m, q, j) == [q[j] EXCEPT !.bits = @ - GateBits(m[j])]

(* The rows q of the first fields of m, and the count t they leave.        *)
Follow(m, q, t) ==
    /\ Len(q) <= Len(m)
    /\ Len(q) = 0 => t = Start
    /\ Len(q) # 0 =>
        /\ Before(m, q, 1) = Start
        /\ t = Counted(m[Len(q)], Len(q), Before(m, q, Len(q)))
    /\ \A j \in 1 .. Len(q) - 1 : Before(m, q, j + 1) = Counted(m[j], j, Before(m, q, j))
    /\ \A j \in 1 .. Len(q) : q[j].after < j

Typed ==
    /\ msg \in Messages /\ i \in Nat \ {0}
    /\ tally \in Counts /\ rows \in Seq(Counts)
    /\ at \in Int /\ met \in Seq(Spans)

(* The table is made once, of a message that was accepted.                 *)
Finished ==
    /\ phase \in {"validate", "table", "refused"} => met = <<>> /\ at = 0
    /\ phase \in {"validate", "refused"} => rows = <<>>
    /\ phase = "validate" => i = 1
    /\ phase = "table" => Len(rows) = i - 1
    /\ phase \notin {"validate", "refused"} => Validated(msg)
    /\ phase \notin {"validate", "table", "refused"} => Len(rows) = Len(msg)

(* The bit a count stands for, once the field it counts from was read.     *)
BitOf(ends, count) == (IF count.after = 0 THEN 0 ELSE ends[count.after].end) + count.bits

CursorIsCount ==
    /\ Len(met) <= Len(rows)
    /\ phase = "decode" =>
        /\ Len(met) = i - 1
        /\ i <= Len(msg) => at = BitOf(met, Before(msg, rows, i))

IInv == Typed /\ Follow(msg, rows, tally) /\ Finished /\ CursorIsCount /\ TableIsRead

----------------------------------------------------------------------------
LEMMA MessageTypes ==
    ASSUME msg \in Messages
    PROVE  /\ msg \in Seq(Fields) /\ Len(msg) \in Nat /\ DOMAIN msg = 1 .. Len(msg)
           /\ \A j \in 1 .. Len(msg) : msg[j] \in Fields
BY BitMessageAssumption

LEMMA Moved ==
    ASSUME NEW count \in Counts, NEW g \in {0, 1}
    PROVE  /\ [count EXCEPT !.bits = @ - g] \in Counts
           /\ [count EXCEPT !.bits = @ - g].after = count.after
           /\ count.bits = [count EXCEPT !.bits = @ - g].bits + g
<1>1. PICK a \in Nat, b \in Int : count = [after |-> a, bits |-> b]
  BY DEF Counts
<1>2. [count EXCEPT !.bits = @ - g] = [after |-> a, bits |-> b - g]
  BY <1>1
<1> QED BY <1>1, <1>2 DEF Counts

LEMMA CountTypes ==
    ASSUME NEW f \in Fields, NEW j \in Nat, NEW count \in Counts
    PROVE  /\ GateBits(f) \in {0, 1}
           /\ RowStart(f, count) \in Counts /\ Counted(f, j, count) \in Counts
           /\ RowStart(f, count).after = count.after
           /\ RowStart(f, count).bits = count.bits + GateBits(f)
           /\ [RowStart(f, count) EXCEPT !.bits = @ - GateBits(f)] = count
           /\ Counted(f, j, count).after \in {j, count.after}
<1>1. f.bits \in Nat /\ GateBits(f) \in {0, 1}
  BY DEF Fields, GateBits
<1>2. count.after \in Nat /\ count.bits \in Int
  BY DEF Counts
<1>3. /\ RowStart(f, count) \in Counts /\ RowStart(f, count).after = count.after
      /\ RowStart(f, count).bits = count.bits + GateBits(f)
  BY <1>1, <1>2 DEF RowStart, Counts
<1>4. [RowStart(f, count) EXCEPT !.bits = @ - GateBits(f)] = count
  <2> DEFINE row  == RowStart(f, count)
             back == [row EXCEPT !.bits = @ - GateBits(f)]
  <2>1. /\ back \in Counts /\ back.after = row.after /\ row.bits = back.bits + GateBits(f)
    BY <1>1, <1>3, Moved
  <2>2. back.after = count.after /\ back.bits = count.bits
    <3>1. back.bits \in Int
      BY <2>1 DEF Counts
    <3> HIDE DEF back
    <3> QED BY <1>1, <1>2, <1>3, <2>1, <3>1
  <2> HIDE DEF back
  <2>3. back = count
    BY <2>1, <2>2 DEF Counts
  <2> QED BY <2>3 DEF back
<1>5. Counted(f, j, count) \in Counts /\ Counted(f, j, count).after \in {j, count.after}
  BY <1>1, <1>2 DEF Counted, Counts
<1> QED BY <1>1, <1>3, <1>4, <1>5

(* One more row is made of the count, and leaves it for the next.          *)
LEMMA RowsGrow ==
    ASSUME NEW m \in Seq(Fields), NEW q \in Seq(Counts), NEW t \in Counts,
           Follow(m, q, t), Len(q) < Len(m)
    PROVE  LET n == Len(q) + 1
           IN  Follow(m, Append(q, RowStart(m[n], t)), Counted(m[n], n, t))
<1> DEFINE n    == Len(q) + 1
           row  == RowStart(m[n], t)
           more == Append(q, row)
           left == Counted(m[n], n, t)
<1>1. n \in Nat \ {0} /\ Len(q) \in Nat /\ n \in 1 .. Len(m) /\ m[n] \in Fields
  OBVIOUS
<1>2. row \in Counts /\ row.after = t.after /\ [row EXCEPT !.bits = @ - GateBits(m[n])] = t
  BY <1>1, CountTypes
<1>3. /\ more \in Seq(Counts) /\ Len(more) = n /\ more[n] = row
      /\ \A j \in 1 .. Len(q) : more[j] = q[j]
  BY <1>1, <1>2
<1> HIDE DEF row, more, left
<1>4. Before(m, more, n) = t
  BY <1>2, <1>3 DEF Before
<1>5. \A j \in 1 .. Len(q) : Before(m, more, j) = Before(m, q, j)
  BY <1>3 DEF Before
<1>6. Before(m, more, 1) = Start
  <2>1. CASE Len(q) = 0
    BY <1>4, <2>1 DEF Follow
  <2>2. CASE Len(q) # 0
    BY <1>1, <1>5, <2>2 DEF Follow
  <2> QED BY <2>1, <2>2
<1>7. left = Counted(m[n], n, Before(m, more, n))
  BY <1>4 DEF left
<1>8. ASSUME NEW j \in 1 .. n - 1
      PROVE  Before(m, more, j + 1) = Counted(m[j], j, Before(m, more, j))
  <2>1. CASE j = Len(q)
    <3>1. t = Counted(m[j], j, Before(m, q, j))
      BY <1>1, <2>1 DEF Follow
    <3> QED BY <1>1, <1>4, <1>5, <2>1, <3>1
  <2>2. CASE j \in 1 .. Len(q) - 1
    <3>1. Before(m, q, j + 1) = Counted(m[j], j, Before(m, q, j))
      BY <2>2 DEF Follow
    <3>2. j \in 1 .. Len(q) /\ j + 1 \in 1 .. Len(q)
      BY <1>1, <2>2
    <3> QED BY <1>5, <3>1, <3>2
  <2> QED BY <1>1, <2>1, <2>2
<1>9. ASSUME NEW j \in 1 .. n PROVE more[j].after < j
  <2>1. CASE j \in 1 .. Len(q)
    BY <1>3, <2>1 DEF Follow
  <2>2. CASE j = n /\ Len(q) = 0
    BY <1>1, <1>2, <1>3, <2>2 DEF Follow, Start
  <2>3. CASE j = n /\ Len(q) # 0
    <3> DEFINE k     == Len(q)
               count == Before(m, q, k)
    <3>1. k \in 1 .. Len(q) /\ k \in Nat /\ m[k] \in Fields /\ q[k] \in Counts
      BY <1>1, <2>3
    <3>2. count \in Counts /\ count.after = q[k].after
      <4>1. GateBits(m[k]) \in {0, 1}
        BY DEF GateBits
      <4> QED BY <3>1, <4>1 DEF Before, Counts
    <3>3. t = Counted(m[k], k, count) /\ q[k].after < k
      BY <2>3, <3>1 DEF Follow
    <3> HIDE DEF count
    <3>4. t.after \in {k, count.after}
      BY <3>1, <3>2, <3>3, CountTypes
    <3>5. q[k].after \in Nat
      BY <3>1 DEF Counts
    <3> QED BY <1>1, <1>2, <1>3, <2>3, <3>2, <3>3, <3>4, <3>5
  <2> QED BY <1>1, <2>1, <2>2, <2>3
<1>10. Len(more) <= Len(m)
  BY <1>1, <1>3
<1> QED BY <1>1, <1>3, <1>6, <1>7, <1>8, <1>9, <1>10 DEF Follow, more, left, row

LEMMA PushRowKeeps == ASSUME IInv, PushRow PROVE IInv'
<1>1. /\ phase = "table" /\ i <= Len(msg) /\ phase' = phase /\ msg' = msg /\ at' = at /\ met' = met
      /\ i' = i + 1 /\ rows' = Append(rows, RowStart(msg[i], tally))
      /\ tally' = Counted(msg[i], i, tally)
  BY DEF PushRow, field
<1>2. /\ i \in Nat \ {0} /\ rows \in Seq(Counts) /\ tally \in Counts /\ Len(rows) = i - 1
      /\ Validated(msg) /\ met = <<>> /\ at = 0 /\ Len(met) = 0
  BY <1>1 DEF IInv, Typed, Finished
<1>3. msg \in Seq(Fields) /\ Len(msg) \in Nat /\ msg[i] \in Fields
  BY <1>1, <1>2, MessageTypes DEF IInv, Typed
<1>4. RowStart(msg[i], tally) \in Counts /\ tally' \in Counts
  BY <1>1, <1>2, <1>3, CountTypes
<1>5. rows' \in Seq(Counts) /\ Len(rows') = i
  BY <1>1, <1>2, <1>4
<1>6. Typed'
  BY <1>1, <1>2, <1>4, <1>5 DEF IInv, Typed
<1>7. Follow(msg, rows, tally)'
  <2>1. Len(rows) < Len(msg) /\ Len(rows) + 1 = i
    BY <1>1, <1>2, <1>3
  <2>2. Follow(msg, Append(rows, RowStart(msg[i], tally)), Counted(msg[i], i, tally))
    BY <1>2, <1>3, <2>1, RowsGrow DEF IInv
  <2> QED BY <1>1, <2>2
<1>8. Finished' /\ CursorIsCount'
  BY <1>1, <1>2, <1>5 DEF Finished, CursorIsCount
<1>9. TableIsRead'
  BY <1>1, <1>2 DEF TableIsRead
<1> QED BY <1>6, <1>7, <1>8, <1>9 DEF IInv

----------------------------------------------------------------------------
(* Decode begins at the first field, with nothing read.                    *)
LEMMA BeginKeeps ==
    ASSUME IInv, \/ Called
                 \/ Arrives
    PROVE  IInv'
<1>1. /\ msg' = msg /\ rows' = rows /\ tally' = tally /\ i' = 1 /\ phase' \in {"encode", "decode"}
      /\ phase \notin {"validate", "refused"} /\ Len(rows) = Len(msg)
      /\ met' = <<>> /\ at' = 0
  <2>1. CASE Called
    BY <2>1, MessageTypes DEF Called, table, IInv, Finished, Typed
  <2>2. CASE Arrives
    BY <2>2 DEF Arrives, table, IInv, Finished
  <2> QED BY <2>1, <2>2
<1>2. Len(msg) \in Nat
  BY MessageTypes DEF IInv, Typed
<1>3. Typed' /\ Finished' /\ TableIsRead'
  BY <1>1 DEF IInv, Typed, Finished, TableIsRead
<1>4. Follow(msg, rows, tally)'
  BY <1>1 DEF IInv
<1>5. 1 <= Len(msg) => BitOf(<<>>, Before(msg, rows, 1)) = 0
  <2> SUFFICES ASSUME 1 <= Len(msg) PROVE BitOf(<<>>, Before(msg, rows, 1)) = 0
    OBVIOUS
  <2>1. Before(msg, rows, 1) = Start
    BY <1>1, <1>2 DEF IInv, Follow
  <2> QED BY <2>1 DEF BitOf, Start
<1>6. CursorIsCount'
  BY <1>1, <1>2, <1>5 DEF CursorIsCount
<1> QED BY <1>3, <1>4, <1>6 DEF IInv

(* Where a field ends is a number of bits, and what the count says of the  *)
(* next one when its width is fixed.                                       *)
LEMMA FieldEnds ==
    ASSUME IInv, DecodeField
    PROVE  /\ at' \in Int
           /\ ~Optional(field) /\ field.kind # "var" => at' = at + field.bits
<1>1. i \in 1 .. Len(msg) /\ field \in Fields /\ at \in Int /\ Readable(field)
  <2>1. Len(msg) \in Nat /\ DOMAIN msg = 1 .. Len(msg) /\ \A j \in 1 .. Len(msg) : msg[j] \in Fields
    BY MessageTypes DEF IInv, Typed
  <2>2. i \in 1 .. Len(msg)
    BY <2>1 DEF DecodeField, Decoding, IInv, Typed
  <2>3. Validated(msg)
    BY DEF IInv, Finished, DecodeField, Decoding
  <2> QED BY <2>1, <2>2, <2>3 DEF field, IInv, Typed, Validated
<1>2. GateBits(field) \in {0, 1} /\ field.bits \in Nat /\ Own \in Int
  BY <1>1 DEF GateBits, Fields, Own
<1> DEFINE raw  == {k \in 0 .. field.bits - 1 : body[Own + k + 1]}
           here == IF field.kind = "var" THEN Standing ELSE Decoded(field, raw)
<1>3. at' = Own + IF Gated THEN Len(Coded(field, here)) ELSE 0
  BY DEF DecodeField
<1>4. field.kind # "var" => Len(Coded(field, here)) = field.bits
  BY <1>2 DEF Coded
<1>5. Gated => Len(Coded(field, here)) \in Nat
  <2>1. CASE field.kind # "var"
    BY <1>2, <1>4, <2>1
  <2>2. CASE field.kind = "var" /\ Gated
    <3>1. Standing # {} /\ Standing \subseteq DOMAIN Codes
      BY <2>2 DEF DecodeField, Reads, Standing
    <3>2. PICK k \in DOMAIN Codes : Coded(field, here) = Codes[k]
      BY <2>2, <3>1 DEF Coded
    <3>3. Codes[k] \in Seq(BOOLEAN)
      BY BitMessageAssumption
    <3> QED BY <3>2, <3>3
  <2> QED BY <2>1, <2>2
<1>6. ~Optional(field) => Gated /\ Own = at
  <2> SUFFICES ASSUME field.when.gate = "always" PROVE Gated /\ Own = at
    BY DEF Optional
  <2>1. Gated
    BY Zenon DEF Gated
  <2>2. Own = at
    BY <1>1 DEF Own, GateBits
  <2> QED BY <2>1, <2>2
<1> HIDE DEF here
<1> QED BY <1>1, <1>2, <1>3, <1>4, <1>5, <1>6

(* The row of the field just read, and the count of the one after it.      *)
LEMMA DecodeFieldKeeps == ASSUME IInv, DecodeField PROVE IInv'
<1> DEFINE new  == [begin |-> Own, end |-> at']
           more == Append(met, new)
           count == Before(msg, rows, i)
<1>1. /\ phase = "decode" /\ i <= Len(msg) /\ phase' = phase /\ msg' = msg /\ i' = i + 1
      /\ rows' = rows /\ tally' = tally /\ met' = more
  BY DEF DecodeField, Decoding, table
<1>2. /\ i \in 1 .. Len(msg) /\ Len(msg) \in Nat /\ at \in Int /\ field \in Fields
      /\ rows \in Seq(Counts) /\ Len(rows) = Len(msg) /\ met \in Seq(Spans) /\ Len(met) = i - 1
      /\ at = BitOf(met, count) /\ rows[i] \in Counts /\ rows[i].after < i
  <2>1. Len(msg) \in Nat /\ \A j \in 1 .. Len(msg) : msg[j] \in Fields
    BY MessageTypes DEF IInv, Typed
  <2>2. i \in 1 .. Len(msg) /\ rows \in Seq(Counts) /\ Len(rows) = Len(msg)
    BY <1>1, <2>1 DEF IInv, Typed, Finished
  <2> QED BY <1>1, <2>1, <2>2 DEF IInv, Typed, CursorIsCount, Follow, field
<1>3. GateBits(field) \in {0, 1} /\ Own = at + GateBits(field) /\ at' \in Int
  BY <1>2, FieldEnds DEF GateBits, Own
<1>4. new \in Spans
  BY <1>2, <1>3 DEF Spans
<1>5. /\ more \in Seq(Spans) /\ Len(more) = i /\ more[i] = new
      /\ \A j \in 1 .. i - 1 : more[j] = met[j]
  BY <1>2, <1>4
<1>6. new.begin = Own /\ new.end = at'
  OBVIOUS
<1>7. count \in Counts /\ count.after = rows[i].after /\ rows[i].bits = count.bits + GateBits(field)
  BY <1>2, <1>3, Moved DEF Before, field
<1> HIDE DEF new, more, count
<1>8. Typed' /\ Finished'
  BY <1>1, <1>2, <1>3, <1>5 DEF IInv, Typed, Finished
<1>9. Follow(msg, rows, tally)'
  BY <1>1 DEF IInv
<1>10. BitOf(more, count) = at /\ BitOf(more, rows[i]) = Own
  <2>1. count.after \in Nat /\ count.after < i /\ count.bits \in Int
    BY <1>2, <1>7 DEF Counts
  <2>2. count.after # 0 => more[count.after] = met[count.after]
    BY <1>2, <1>5, <2>1
  <2>3. BitOf(more, count) = at
    BY <1>2, <2>2 DEF BitOf
  <2>4. count.after # 0 => more[count.after].end \in Int
    <3> SUFFICES ASSUME count.after # 0 PROVE more[count.after].end \in Int
      OBVIOUS
    <3>1. more[count.after] \in Spans
      BY <1>2, <1>5, <2>1
    <3> QED BY <3>1 DEF Spans
  <2>5. BitOf(more, rows[i]) = BitOf(more, count) + GateBits(field)
    BY <1>3, <1>7, <2>1, <2>4 DEF BitOf
  <2> QED BY <1>3, <2>3, <2>5
<1>11. TableIsRead'
  <2> SUFFICES ASSUME NEW j \in 1 .. i PROVE more[j].begin = BitOf(more, rows[j])
    BY <1>1, <1>5 DEF TableIsRead, BitOf
  <2>1. CASE j = i
    BY <1>5, <1>6, <1>10, <2>1
  <2>2. CASE j \in 1 .. i - 1
    <3>1. met[j].begin = BitOf(met, rows[j]) /\ more[j] = met[j]
      BY <1>2, <1>5, <2>2 DEF IInv, TableIsRead, BitOf
    <3>2. rows[j] \in Counts /\ rows[j].after < j
      BY <1>2, <2>2 DEF IInv, Follow
    <3>3. rows[j].after # 0 => more[rows[j].after] = met[rows[j].after]
      <4> DEFINE k == rows[j].after
      <4>1. k \in Nat /\ k < j
        BY <3>2 DEF Counts
      <4> HIDE DEF k
      <4>2. k # 0 => k \in 1 .. i - 1
        BY <1>2, <2>2, <4>1
      <4> QED BY <1>5, <4>2 DEF k
    <3> QED BY <3>1, <3>3 DEF BitOf
  <2> QED BY <1>2, <2>1, <2>2
<1>12. CursorIsCount'
  <2> SUFFICES ASSUME i + 1 <= Len(msg) PROVE at' = BitOf(more, Before(msg, rows, i + 1))
    BY <1>1, <1>2, <1>5 DEF CursorIsCount
  <2>1. Before(msg, rows, i + 1) = Counted(field, i, count)
    BY <1>2 DEF IInv, Follow, field, count
  <2>2. CASE Optional(field) \/ field.kind = "var"
    <3>1. Counted(field, i, count) = [after |-> i, bits |-> 0]
      BY <2>2 DEF Counted
    <3> QED BY <1>2, <1>3, <1>5, <1>6, <2>1, <3>1 DEF BitOf
  <2>3. CASE ~(Optional(field) \/ field.kind = "var")
    <3>1. /\ Counted(field, i, count).after = count.after
          /\ Counted(field, i, count).bits = count.bits + field.bits
      BY <1>7, <2>3 DEF Counted, Counts
    <3>2. at' = at + field.bits
      BY <2>3, FieldEnds
    <3>3. count.bits \in Int /\ field.bits \in Int
      BY <1>2, <1>7 DEF Counts, Fields
    <3>4. BitOf(more, Counted(field, i, count)) = BitOf(more, count) + field.bits
      <4>1. count.after \in Nat /\ count.after < i
        BY <1>2, <1>7 DEF Counts
      <4>2. count.after # 0 => more[count.after].end \in Int
        <5> SUFFICES ASSUME count.after # 0 PROVE more[count.after].end \in Int
          OBVIOUS
        <5>1. more[count.after] \in Spans
          BY <1>2, <1>5, <4>1
        <5> QED BY <5>1 DEF Spans
      <4> QED BY <3>1, <3>3, <4>2 DEF BitOf
    <3> QED BY <1>10, <2>1, <3>2, <3>4
  <2> QED BY <2>2, <2>3
<1> QED BY <1>8, <1>9, <1>11, <1>12 DEF IInv

----------------------------------------------------------------------------
(* The rest leave the table and what was read alone.                       *)
LEMMA OthersKeep ==
    ASSUME IInv, \/ Validate \/ EncodeField \/ EncodeOverflows \/ EncodePanics \/ PatchFlags
                 \/ DecodeShort \/ Decodes \/ UNCHANGED vars
    PROVE  IInv'
<1>1. /\ msg' = msg /\ rows' = rows /\ tally' = tally /\ met' = met /\ at' = at
      /\ i' = i \/ i' = i + 1 \/ i' = 1
  BY DEF Validate, EncodeField, EncodeOverflows, EncodePanics, PatchFlags, DecodeShort, Decodes,
         Written, vars, table
<1>2. /\ phase' = "decode" => phase = "decode" /\ i' = i
      /\ phase' = "table" => /\ (phase = "validate" /\ Validated(msg)) \/ phase = "table"
                             /\ i' = i
      /\ phase' = "validate" => phase = "validate" /\ i' = i
      /\ phase' = "refused" => phase \in {"validate", "refused"}
      /\ phase' \notin {"validate", "table", "refused"} =>
            phase \notin {"validate", "table", "refused"}
  BY DEF Validate, EncodeField, EncodeOverflows, EncodePanics, PatchFlags, DecodeShort, Decodes,
         Written, vars, table, Encoding, Decoding
<1>3. Typed' /\ TableIsRead' /\ Follow(msg, rows, tally)'
  BY <1>1 DEF IInv, Typed, TableIsRead
<1>4. Finished'
  <2>1. phase = "validate" => Len(rows) = i - 1
    BY DEF IInv, Finished
  <2>2. phase' \in {"validate", "table", "refused"} => phase \in {"validate", "table", "refused"}
    BY <1>2
  <2>3. phase \in {"validate", "table", "refused"} => met' = <<>> /\ at' = 0
    BY <1>1 DEF IInv, Finished
  <2>4. phase' \in {"validate", "refused"} => rows' = <<>>
    BY <1>1, <1>2 DEF IInv, Finished
  <2>5. phase' = "validate" => i' = 1
    BY <1>1, <1>2 DEF IInv, Finished
  <2>6. phase' = "table" => Len(rows') = i' - 1
    BY <1>1, <1>2, <2>1 DEF IInv, Finished
  <2>7. phase' \notin {"validate", "refused"} => Validated(msg')
    BY <1>1, <1>2 DEF IInv, Finished
  <2>8. phase' \notin {"validate", "table", "refused"} => Len(rows') = Len(msg')
    BY <1>1, <1>2 DEF IInv, Finished
  <2> QED BY <2>2, <2>3, <2>4, <2>5, <2>6, <2>7, <2>8 DEF Finished
<1>5. CursorIsCount'
  BY <1>1, <1>2 DEF IInv, CursorIsCount
<1> QED BY <1>3, <1>4, <1>5 DEF IInv

LEMMA InitHolds == Init => IInv
<1> SUFFICES ASSUME Init PROVE IInv
  OBVIOUS
<1>1. /\ msg \in Messages /\ phase = "validate" /\ i = 1 /\ tally = Start /\ rows = <<>>
      /\ at = 0 /\ met = <<>> /\ Len(rows) = 0 /\ Len(met) = 0
  BY DEF Init, Start
<1>2. Len(msg) \in Nat
  BY <1>1, MessageTypes
<1>3. Typed
  BY <1>1 DEF Typed, Counts, Start
<1>4. Follow(msg, rows, tally)
  BY <1>1, <1>2 DEF Follow
<1>5. Finished /\ CursorIsCount /\ TableIsRead
  BY <1>1 DEF Finished, CursorIsCount, TableIsRead
<1> QED BY <1>3, <1>4, <1>5 DEF IInv

LEMMA NextHolds == IInv /\ [Next]_vars => IInv'
BY PushRowKeeps, BeginKeeps, DecodeFieldKeeps, OthersKeep DEF Next

(* SEGMENTS: for every message and every wire, the bit each row's start    *)
(* stands for is the bit at which decode read the field (bit_start, and    *)
(* the counting around it).                                                *)
THEOREM TableOfBitsIsRead == Spec => []TableIsRead
<1>1. IInv => TableIsRead
  BY DEF IInv
<1> QED BY <1>1, InitHolds, NextHolds, PTL DEF Spec

----------------------------------------------------------------------------
(* What a value leaves on the wire, and what decode makes of it.           *)
(*                                                                         *)
(* Everything is told by where the fields end (Ends), which the values     *)
(* decide alone.  Encode has laid the fields before i (Encoded); the patch *)
(* turns the flags into what they carry (Carried) and moves nothing        *)
(* (Laid); decode finds the values back, a flag as Back of it, as far as   *)
(* its body goes (Restored).  A value that came from a wire lies on that   *)
(* wire as encode will lay it (FromWire), because decode traced it         *)
(* (Traced).                                                               *)
Low(f, v) == v \cap 0 .. f.bits - 1

(* A value that has bits, and one that a field holds or decode made.       *)
Wireable(f, v) ==
    /\ v \in SUBSET Int
    /\ f.when.gate = "always" => v # Absent
    /\ v # Absent => IF f.kind = "var" THEN \E k \in DOMAIN Codes : v = {k} ELSE v \subseteq Nat

Sound(f, v) ==
    /\ Wireable(f, v)
    /\ v # Absent /\ f.kind # "var" /\ Fits(f, v) => v = Decoded(f, Low(f, v))

(* The bits of the field after position a of s are those of v.             *)
Lies(f, v, s, a) ==
    /\ a + Size(f, v) <= Len(s)
    /\ f.when.gate = "present" => s[a + 1] = (v # Absent)
    /\ v # Absent => \A k \in 1 .. Len(Coded(f, v)) : s[a + GateBits(f) + k] = Coded(f, v)[k]

CanLie(f, v) == v # Absent => Fits(f, v)

(* A field under a mask is there when the flag says so.                    *)
Agrees(m, v, j) ==
    LET when == m[j].when
    IN  when.gate = "mask" =>
            (v[j] # Absent <=> ((v[when.flag] \cap when.mask # {}) <=> when.set))

(* What PatchFlags makes of a flag, and what decode makes of that.         *)
Carried(m, v, j) ==
    IF j \in Flags(m)
    THEN (v[j] \ Governed(m, j)) \cup
            UNION {m[k].when.mask : k \in {n \in Governs(m, j) : m[n].when.set <=> v[n] # Absent}}
    ELSE v[j]

Back(m, v, j) ==
    IF j \in Flags(m) THEN Decoded(m[j], Low(m[j], Carried(m, v, j))) ELSE v[j]

OneBitGates == \A j \in DOMAIN msg : Cardinality(msg[j].when.mask) <= 1

Begins(spans, j) == IF j = 1 THEN 0 ELSE spans[j - 1].end

Traced(m, v, s, spans, j) ==
    /\ Lies(m[j], v[j], s, Begins(spans, j))
    /\ spans[j].end = Begins(spans, j) + Size(m[j], v[j])
    /\ Sound(m[j], v[j]) /\ CanLie(m[j], v[j]) /\ Agrees(m, v, j)

Untouched ==
    phase \in {"validate", "table", "refused"} =>
        value = None /\ origin = None /\ out = <<>> /\ marks = <<>> /\ read = <<>>

First ==
    phase = "decode" /\ value = None =>
        /\ body = origin /\ body \in Seq(BOOLEAN) /\ out = <<>> /\ marks = <<>>
        /\ read \in Seq(SUBSET Int) /\ Len(read) = i - 1
        /\ at = Begins(met, i) /\ at \in Nat /\ cap \in Nat
        /\ \A j \in 1 .. i - 1 : Traced(msg, read, origin, met, j)

Valued ==
    /\ phase \in {"encode", "overflow", "panicked", "sent", "done"} => value # None
    /\ value # None =>
        /\ value \in Seq(SUBSET Int) /\ Len(value) = Len(msg)
        /\ \A j \in 1 .. Len(msg) : Sound(msg[j], value[j])
        /\ cap \in Nat

FromWire ==
    value # None /\ origin # None =>
        /\ phase # "panicked" /\ origin \in Seq(BOOLEAN)
        /\ \A j \in 1 .. Len(msg) :
            /\ Lies(msg[j], value[j], origin, Ends(msg, value)[j - 1])
            /\ CanLie(msg[j], value[j]) /\ Agrees(msg, value, j)

Encoded ==
    phase = "encode" =>
        /\ i <= Len(msg) + 1
        /\ out \in Seq(BOOLEAN) /\ Len(out) = Ends(msg, value)[i - 1] /\ Len(out) <= W * cap
        /\ marks \in Seq(Nat) /\ Len(marks) = i - 1
        /\ \A j \in 1 .. i - 1 :
            /\ marks[j] = Ends(msg, value)[j - 1]
            /\ Lies(msg[j], value[j], out, Ends(msg, value)[j - 1])
            /\ CanLie(msg[j], value[j])
        /\ origin # None => \A n \in 1 .. Len(out) : out[n] = origin[n]

Laid ==
    phase \in {"sent", "decode", "short", "done"} /\ value # None =>
        /\ out \in Seq(BOOLEAN) /\ Len(out) = Ends(msg, value)[Len(msg)] /\ Len(out) <= W * cap
        /\ \A j \in 1 .. Len(msg) :
            /\ Lies(msg[j], Carried(msg, value, j), out, Ends(msg, value)[j - 1])
            /\ CanLie(msg[j], value[j])
        /\ origin # None /\ OneBitGates => out = SubSeq(origin, 1, Len(out))

Restored ==
    value # None =>
        /\ phase \in {"decode", "done"} =>
            /\ body \in Seq(BOOLEAN)
            /\ \A n \in 1 .. Len(body) : n <= Len(out) => body[n] = out[n]
            /\ i <= Len(msg) + 1
            /\ read \in Seq(SUBSET Int) /\ Len(read) = i - 1
            /\ at = Ends(msg, value)[i - 1]
            /\ \A j \in 1 .. i - 1 : read[j] = Back(msg, value, j)
        /\ phase = "done" => i = Len(msg) + 1
        /\ phase = "short" => Len(body) < Len(Sent)

Overflowed == phase = "overflow" => Ends(msg, value)[Len(msg)] > W * cap

WireInv ==
    /\ Untouched /\ First /\ Valued /\ FromWire
    /\ Encoded /\ Laid /\ Restored /\ Overflowed

----------------------------------------------------------------------------
(* The naturals are well ordered.                                          *)
LEMMA NatLeast ==
    ASSUME NEW T \in SUBSET Nat, T # {}
    PROVE  \E x \in T : \A y \in T : x <= y
<1> DEFINE R == OpToRel(<, Nat)
<1>1. IsWellFoundedOn(R, Nat)
  BY NatLessThanWellFounded
<1>2. PICK x \in T : \A y \in T : <<y, x>> \notin R
  <2> HIDE DEF R
  <2> QED BY <1>1, WFMin
<1>3. \A y \in T : ~(y < x)
  BY <1>2 DEF OpToRel
<1>4. \A y \in T : x <= y
  <2> HIDE DEF R
  <2> QED BY <1>3
<1> QED BY <1>4

(* The ends of the first n fields.                                         *)
EndsUpTo(m, v, f, n) ==
    f = [k \in 0 .. n |-> IF k = 0 THEN 0 ELSE f[k - 1] + Size(m[k], v[k])]

LEMMA EndsExist ==
    ASSUME NEW m, NEW v, NEW n \in Nat
    PROVE  \E f : EndsUpTo(m, v, f, n)
<1> DEFINE T == {k \in Nat : ~\E f : EndsUpTo(m, v, f, k)}
<1> SUFFICES ASSUME T # {} PROVE FALSE
  OBVIOUS
<1>1. PICK k \in T : \A y \in T : k <= y
  <2> HIDE DEF T
  <2>1. T \in SUBSET Nat
    BY DEF T
  <2> QED BY <2>1, NatLeast
<1>2. k \in Nat /\ ~\E f : EndsUpTo(m, v, f, k)
  OBVIOUS
<1>3. k # 0
  <2>1. EndsUpTo(m, v, [j \in 0 .. 0 |-> 0], 0)
    BY DEF EndsUpTo
  <2> QED BY <1>2, <2>1
<1>4. k - 1 \in Nat /\ k - 1 \notin T
  <2>1. k - 1 \in Nat /\ ~(k <= k - 1)
    BY <1>2, <1>3
  <2> HIDE DEF T
  <2> QED BY <1>1, <2>1
<1>5. PICK f : EndsUpTo(m, v, f, k - 1)
  BY <1>4
<1> DEFINE g == [j \in 0 .. k |-> IF j < k THEN f[j] ELSE f[k - 1] + Size(m[k], v[k])]
<1>6. ASSUME NEW j \in 0 .. k
      PROVE  g[j] = IF j = 0 THEN 0 ELSE g[j - 1] + Size(m[j], v[j])
  <2>1. \A x \in 0 .. k - 1 : f[x] = IF x = 0 THEN 0 ELSE f[x - 1] + Size(m[x], v[x])
    BY <1>5 DEF EndsUpTo
  <2>2. CASE j = k
    <3>1. g[k - 1] = f[k - 1] /\ g[j] = f[k - 1] + Size(m[k], v[k])
      BY <1>2, <1>3, <2>2
    <3> QED BY <1>3, <2>2, <3>1
  <2>3. CASE j # k
    <3>1. j \in 0 .. k - 1 /\ g[j] = f[j]
      BY <1>2, <2>3
    <3>2. j # 0 => g[j - 1] = f[j - 1]
      BY <1>2, <2>3
    <3> QED BY <2>1, <3>1, <3>2
  <2> QED BY <2>2, <2>3
<1>7. EndsUpTo(m, v, g, k)
  <2>1. g = [j \in 0 .. k |-> g[j]]
    OBVIOUS
  <2> HIDE DEF g
  <2> QED BY <1>6, <2>1 DEF EndsUpTo
<1> QED BY <1>2, <1>7

(* Where the fields end: one after another.                                *)
LEMMA EndsInOrder ==
    ASSUME NEW m, Len(m) \in Nat, NEW v,
           \A j \in 1 .. Len(m) : Size(m[j], v[j]) \in Nat
    PROVE  /\ Ends(m, v)[0] = 0
           /\ \A n \in 1 .. Len(m) : Ends(m, v)[n] = Ends(m, v)[n - 1] + Size(m[n], v[n])
           /\ \A n \in 0 .. Len(m) : Ends(m, v)[n] \in Nat
           /\ \A n \in 0 .. Len(m) : \A k \in 0 .. n : Ends(m, v)[k] <= Ends(m, v)[n]
<1> DEFINE e == Ends(m, v)
<1>1. EndsUpTo(m, v, e, Len(m))
  <2>1. e = CHOOSE f : EndsUpTo(m, v, f, Len(m))
    BY DEF Ends, EndsUpTo
  <2> QED BY <2>1, EndsExist
<1> HIDE DEF e
<1>2. \A n \in 0 .. Len(m) : e[n] = IF n = 0 THEN 0 ELSE e[n - 1] + Size(m[n], v[n])
  BY <1>1 DEF EndsUpTo
<1>3. e[0] = 0 /\ \A n \in 1 .. Len(m) : e[n] = e[n - 1] + Size(m[n], v[n])
  BY <1>2
<1>4. \A n \in 0 .. Len(m) : e[n] \in Nat /\ \A k \in 0 .. n : e[k] <= e[n]
  <2> DEFINE T == {n \in Nat : n <= Len(m) /\ ~(e[n] \in Nat /\ \A k \in 0 .. n : e[k] <= e[n])}
  <2> SUFFICES ASSUME T # {} PROVE FALSE
    OBVIOUS
  <2>1. PICK n \in T : \A y \in T : n <= y
    <3> HIDE DEF T
    <3>1. T \in SUBSET Nat
      BY DEF T
    <3> QED BY <3>1, NatLeast
  <2>2. n \in Nat /\ n <= Len(m) /\ ~(e[n] \in Nat /\ \A k \in 0 .. n : e[k] <= e[n])
    OBVIOUS
  <2>3. n # 0
    BY <1>3, <2>2
  <2>4. n - 1 \in Nat /\ n - 1 \notin T
    <3>1. n - 1 \in Nat /\ ~(n <= n - 1)
      BY <2>2, <2>3
    <3> HIDE DEF T
    <3> QED BY <2>1, <3>1
  <2>5. e[n - 1] \in Nat /\ \A k \in 0 .. n - 1 : e[k] <= e[n - 1]
    BY <2>2, <2>4
  <2>6. n \in 1 .. Len(m) /\ e[n] = e[n - 1] + Size(m[n], v[n]) /\ Size(m[n], v[n]) \in Nat
    BY <1>3, <2>2, <2>3
  <2>7. \A k \in 0 .. n : k = n \/ k \in 0 .. n - 1
    BY <2>2
  <2>8. \A k \in 0 .. n - 1 : k \in 0 .. Len(m) /\ e[k] <= e[n - 1]
    BY <2>2, <2>5
  <2>9. ASSUME NEW k \in 0 .. n PROVE e[k] <= e[n]
    <3>1. CASE k = n
      BY <2>5, <2>6, <3>1
    <3>2. CASE k \in 0 .. n - 1
      <4>1. k \in Nat /\ k < n /\ k \notin T
        <5>1. k \in Nat /\ k < n /\ ~(n <= k)
          BY <2>2, <3>2
        <5> HIDE DEF T
        <5> QED BY <2>1, <5>1
      <4>2. e[k] \in Nat
        BY <2>2, <4>1
      <4> QED BY <2>5, <2>6, <3>2, <4>2
    <3> QED BY <2>7, <3>1, <3>2
  <2> QED BY <2>2, <2>5, <2>6, <2>9
<1> QED BY <1>3, <1>4 DEF e

----------------------------------------------------------------------------
(* Sign extension adds only bits above the field.                          *)
LEMMA ExtendedBits ==
    ASSUME NEW n \in Nat \ {0}, NEW s \in SUBSET (0 .. n - 1)
    PROVE  Extended(s, n) \subseteq Nat /\ Extended(s, n) \cap 0 .. n - 1 = s
<1>1. MaxBits \in Nat
  BY BitMessageAssumption
<1>2. \A x \in Extended(s, n) : x \in s \/ x \in n .. MaxBits - 1
  BY DEF Extended
<1>3. \A x \in s : x \in Extended(s, n) /\ x \in Nat
  BY DEF Extended
<1>4. \A x \in n .. MaxBits - 1 : x \in Nat /\ x \notin 0 .. n - 1
  BY <1>1
<1>5. Extended(s, n) \subseteq Nat
  BY <1>2, <1>3, <1>4
<1>6. \A x : x \in Extended(s, n) \cap 0 .. n - 1 <=> x \in s
  BY <1>2, <1>3, <1>4
<1> QED BY <1>5, <1>6

LEMMA FieldBits ==
    ASSUME NEW f \in Fields, Readable(f), NEW v, Wireable(f, v)
    PROVE  /\ GateBits(f) \in {0, 1}
           /\ Size(f, v) \in Nat
           /\ v = Absent => Size(f, v) = GateBits(f)
           /\ v # Absent => /\ Coded(f, v) \in Seq(BOOLEAN) /\ Len(Coded(f, v)) \in Nat
                            /\ Size(f, v) = GateBits(f) + Len(Coded(f, v))
           /\ f.kind # "var" => /\ f.bits \in Nat \ {0} /\ f.bits <= MaxBits
                                /\ Coded(f, v) = [k \in 1 .. f.bits |-> k - 1 \in v]
                                /\ Len(Coded(f, v)) = f.bits
<1>1. GateBits(f) \in {0, 1} /\ f.bits \in Nat /\ MaxBits \in Nat
  BY BitMessageAssumption DEF Fields, GateBits
<1>2. ASSUME f.kind # "var"
      PROVE  /\ f.bits \in Nat \ {0} /\ f.bits <= MaxBits
             /\ Coded(f, v) = [k \in 1 .. f.bits |-> k - 1 \in v]
             /\ Coded(f, v) \in Seq(BOOLEAN) /\ Len(Coded(f, v)) = f.bits
  <2>1. f.bits \in Nat \ {0} /\ f.bits <= MaxBits
    BY <1>1, <1>2 DEF Readable
  <2>2. Coded(f, v) = [k \in 1 .. f.bits |-> k - 1 \in v]
    BY <1>2 DEF Coded
  <2>3. Coded(f, v) \in [1 .. f.bits -> BOOLEAN]
    <3>1. ASSUME NEW k \in 1 .. f.bits PROVE (k - 1 \in v) \in BOOLEAN
      <4>1. CASE k - 1 \in v
        BY <4>1, Zenon
      <4>2. CASE k - 1 \notin v
        <5>1. (k - 1 \in v) = FALSE
          BY <4>2
        <5> QED BY <5>1
      <4> QED BY <4>1, <4>2
    <3> QED BY <2>2, <3>1, Zenon
  <2>4. Coded(f, v) \in Seq(BOOLEAN) /\ Len(Coded(f, v)) = f.bits
    <3> DEFINE c == Coded(f, v)
    <3> HIDE DEF c
    <3>1. c \in [1 .. f.bits -> BOOLEAN]
      BY <2>3 DEF c
    <3>2. c \in Seq(BOOLEAN) /\ Len(c) = f.bits
      BY <2>1, <3>1
    <3> QED BY <3>2 DEF c
  <2> QED BY <2>1, <2>2, <2>4
<1>3. ASSUME f.kind = "var", v # Absent
      PROVE  Coded(f, v) \in Seq(BOOLEAN) /\ Len(Coded(f, v)) \in Nat
  <2>1. PICK k \in DOMAIN Codes : v = {k}
    BY <1>3 DEF Wireable
  <2>2. Coded(f, v) = Codes[k]
    BY <1>3, <2>1 DEF Coded
  <2> QED BY <2>1, <2>2, BitMessageAssumption
<1>4. v # Absent => Coded(f, v) \in Seq(BOOLEAN) /\ Len(Coded(f, v)) \in Nat
  BY <1>1, <1>2, <1>3
<1>5. v = Absent => Size(f, v) = GateBits(f)
  BY <1>1 DEF Size
<1>6. v # Absent => Size(f, v) = GateBits(f) + Len(Coded(f, v))
  BY DEF Size
<1> QED BY <1>1, <1>2, <1>4, <1>5, <1>6

(* What decode makes of the bits of a field fits it and has those bits.    *)
LEMMA DecodedIsSound ==
    ASSUME NEW f \in Fields, Readable(f), f.kind # "var", NEW raw \in SUBSET (0 .. f.bits - 1)
    PROVE  /\ Sound(f, Decoded(f, raw)) /\ Fits(f, Decoded(f, raw)) /\ Decoded(f, raw) # Absent
           /\ Low(f, Decoded(f, raw)) = raw
<1> DEFINE v == Decoded(f, raw)
<1>1. f.bits \in Nat \ {0} /\ f.bits <= MaxBits
  BY DEF Readable, Fields
<1>2. Low(f, v) = raw /\ v \subseteq Nat
  BY <1>1, ExtendedBits DEF Low, Decoded
<1>3. v # Absent /\ v \in SUBSET Int
  <2>1. -1 \notin Nat
    OBVIOUS
  <2> HIDE DEF v
  <2> QED BY <1>2, <2>1 DEF Absent
<1>4. Fits(f, v)
  <2>1. CASE f.bits >= MaxBits
    BY <2>1 DEF Fits
  <2>2. CASE ~(f.bits >= MaxBits) /\ f.kind = "i"
    BY <2>2 DEF Fits, Decoded
  <2>3. CASE ~(f.bits >= MaxBits) /\ f.kind # "i"
    BY <2>3 DEF Fits, Decoded
  <2> QED BY <2>1, <2>2, <2>3
<1>5. v = Decoded(f, Low(f, v))
  BY <1>2
<1> HIDE DEF v
<1>6. Sound(f, v)
  BY <1>2, <1>3, <1>5 DEF Sound, Wireable
<1> QED BY <1>2, <1>3, <1>4, <1>6 DEF v

(* A value that a caller may hold, once it passes the assertion, is the    *)
(* one decode makes of its low bits.                                       *)
LEMMA HeldIsSound ==
    ASSUME NEW f \in Fields, Readable(f), NEW v \in Holds(f)
    PROVE  Sound(f, v) /\ v # Absent
<1>1. f.bits \in Nat /\ MaxBits \in Nat \ {0}
  BY BitMessageAssumption DEF Fields
<1>2. CASE f.kind = "var"
  <2>1. PICK k \in DOMAIN Codes : v = {k}
    BY <1>2 DEF Holds
  <2>2. k \in Nat /\ k # -1
    BY <2>1, BitMessageAssumption
  <2> QED BY <1>2, <2>1, <2>2 DEF Sound, Wireable, Absent
<1>3. ASSUME f.kind # "var", v \subseteq Nat, Fits(f, v) => v = Decoded(f, Low(f, v))
      PROVE  Sound(f, v) /\ v # Absent
  <2>1. -1 \notin Nat
    OBVIOUS
  <2> QED BY <1>3, <2>1 DEF Sound, Wireable, Absent
<1>4. ASSUME NEW s \in SUBSET (0 .. f.bits - 1), f.kind # "var", v = Decoded(f, s)
      PROVE  Sound(f, v) /\ v # Absent
  BY <1>4, DecodedIsSound
<1>5. CASE f.kind \notin {"var", "i"}
  <2>1. f.bits \in Nat \ {0} /\ f.bits <= MaxBits
    BY <1>5 DEF Readable, Fields
  <2>2. v \subseteq Nat
    BY <1>5, <2>1 DEF Holds
  <2>3. Fits(f, v) => v \subseteq 0 .. f.bits - 1
    <3>1. CASE f.bits >= MaxBits
      BY <1>1, <1>5, <2>1, <3>1 DEF Holds
    <3>2. CASE ~(f.bits >= MaxBits)
      BY <1>5, <3>2 DEF Fits
    <3> QED BY <3>1, <3>2
  <2>4. Fits(f, v) => v = Decoded(f, Low(f, v))
    BY <1>5, <2>3 DEF Decoded, Low
  <2> QED BY <1>3, <1>5, <2>2, <2>4
<1>6. CASE f.kind = "i"
  <2>1. f.bits \in Nat \ {0} /\ f.bits <= MaxBits
    BY <1>6 DEF Readable, Fields
  <2>2. CASE \E s \in SUBSET (0 .. f.bits - 1) : v = Extended(s, f.bits)
    BY <1>4, <1>6, <2>2 DEF Decoded
  <2>3. CASE v = {f.bits - 1}
    <3>1. v \subseteq Nat
      BY <2>1, <2>3
    <3>2. ASSUME Fits(f, v) PROVE v = Decoded(f, Low(f, v))
      <4>1. CASE f.bits >= MaxBits
        <5>1. Low(f, v) = v
          BY <2>1, <2>3 DEF Low
        <5>2. f.bits .. MaxBits - 1 = {}
          BY <1>1, <2>1, <4>1
        <5>3. Extended(v, f.bits) = v
          BY <2>3, <5>2 DEF Extended
        <5> QED BY <1>6, <5>1, <5>3 DEF Decoded
      <4>2. CASE ~(f.bits >= MaxBits)
        <5>1. PICK s \in SUBSET (0 .. f.bits - 1) : v = Extended(s, f.bits)
          BY <1>6, <3>2, <4>2 DEF Fits
        <5>2. Low(f, v) = s
          BY <2>1, <5>1, ExtendedBits DEF Low
        <5> QED BY <1>6, <5>1, <5>2 DEF Decoded
      <4> QED BY <4>1, <4>2
    <3> QED BY <1>3, <1>6, <3>1, <3>2
  <2>4. v \in {Extended(s, f.bits) : s \in SUBSET (0 .. f.bits - 1)} \cup {{f.bits - 1}}
    BY <1>6 DEF Holds
  <2> QED BY <2>2, <2>3, <2>4
<1> QED BY <1>2, <1>5, <1>6

----------------------------------------------------------------------------
(* A field lies wherever its bits stand.                                   *)
LEMMA LiesSame ==
    ASSUME NEW f \in Fields, Readable(f), NEW v, Wireable(f, v), NEW s, NEW t, NEW a \in Nat,
           Len(t) \in Nat, Lies(f, v, s, a), a + Size(f, v) <= Len(t),
           \A n \in a + 1 .. a + Size(f, v) : t[n] = s[n]
    PROVE  Lies(f, v, t, a)
<1>1. /\ GateBits(f) \in {0, 1} /\ Size(f, v) \in Nat
      /\ v = Absent => Size(f, v) = GateBits(f)
      /\ v # Absent => Len(Coded(f, v)) \in Nat /\ Size(f, v) = GateBits(f) + Len(Coded(f, v))
  BY FieldBits
<1>2. f.when.gate = "present" => t[a + 1] = (v # Absent)
  <2> SUFFICES ASSUME f.when.gate = "present" PROVE t[a + 1] = (v # Absent)
    OBVIOUS
  <2>1. GateBits(f) = 1
    BY DEF GateBits
  <2>2. a + 1 \in a + 1 .. a + Size(f, v)
    BY <1>1, <2>1
  <2>3. s[a + 1] = (v # Absent)
    BY DEF Lies
  <2> QED BY <2>2, <2>3
<1>3. ASSUME v # Absent, NEW k \in 1 .. Len(Coded(f, v))
      PROVE  t[a + GateBits(f) + k] = Coded(f, v)[k]
  <2>1. a + GateBits(f) + k \in a + 1 .. a + Size(f, v)
    BY <1>1, <1>3
  <2>2. s[a + GateBits(f) + k] = Coded(f, v)[k]
    BY <1>3 DEF Lies
  <2> QED BY <2>1, <2>2
<1> QED BY <1>2, <1>3 DEF Lies

(* Two strings on which a value lies at one place agree there.             *)
LEMMA LiesAgree ==
    ASSUME NEW f \in Fields, Readable(f), NEW v, Wireable(f, v), NEW s, NEW t, NEW a \in Nat,
           Lies(f, v, s, a), Lies(f, v, t, a), NEW n \in a + 1 .. a + Size(f, v)
    PROVE  s[n] = t[n]
<1>1. /\ GateBits(f) \in {0, 1} /\ Size(f, v) \in Nat
      /\ v = Absent => Size(f, v) = GateBits(f)
      /\ v # Absent => Len(Coded(f, v)) \in Nat /\ Size(f, v) = GateBits(f) + Len(Coded(f, v))
  BY FieldBits
<1>2. CASE n = a + 1 /\ GateBits(f) = 1
  BY <1>2 DEF Lies, GateBits
<1>3. CASE ~(n = a + 1 /\ GateBits(f) = 1)
  <2>1. v # Absent
    BY <1>1, <1>3
  <2> DEFINE k == n - a - GateBits(f)
  <2>2. k \in 1 .. Len(Coded(f, v)) /\ n = a + GateBits(f) + k
    BY <1>1, <1>3, <2>1
  <2> HIDE DEF k
  <2> QED BY <2>1, <2>2 DEF Lies
<1> QED BY <1>2, <1>3

LEMMA Joined ==
    ASSUME NEW s \in Seq(BOOLEAN), NEW x \in Seq(BOOLEAN), NEW y \in Seq(BOOLEAN),
           NEW t, t = s \o (x \o y)
    PROVE  /\ t \in Seq(BOOLEAN) /\ Len(t) = Len(s) + (Len(x) + Len(y))
           /\ \A n \in 1 .. Len(s) : t[n] = s[n]
           /\ \A n \in 1 .. Len(x) : t[Len(s) + n] = x[n]
           /\ \A n \in 1 .. Len(y) : t[Len(s) + Len(x) + n] = y[n]
<1>1. ASSUME NEW a \in Seq(BOOLEAN), NEW b \in Seq(BOOLEAN)
      PROVE  /\ a \o b \in Seq(BOOLEAN) /\ Len(a \o b) = Len(a) + Len(b)
             /\ \A n \in 1 .. Len(a) : (a \o b)[n] = a[n]
             /\ \A n \in 1 .. Len(b) : (a \o b)[Len(a) + n] = b[n]
  OBVIOUS
<1> DEFINE u == x \o y
<1>2. /\ u \in Seq(BOOLEAN) /\ Len(u) = Len(x) + Len(y)
      /\ \A n \in 1 .. Len(x) : u[n] = x[n]
      /\ \A n \in 1 .. Len(y) : u[Len(x) + n] = y[n]
  BY <1>1
<1> HIDE DEF u
<1>3. /\ t \in Seq(BOOLEAN) /\ Len(t) = Len(s) + Len(u)
      /\ \A n \in 1 .. Len(s) : t[n] = s[n]
      /\ \A n \in 1 .. Len(u) : t[Len(s) + n] = u[n]
  BY <1>1, <1>2 DEF u
<1>4. Len(x) \in Nat /\ Len(y) \in Nat /\ Len(s) \in Nat
  OBVIOUS
<1>5. ASSUME NEW n \in 1 .. Len(x) PROVE t[Len(s) + n] = x[n]
  <2>1. n \in 1 .. Len(u)
    BY <1>2, <1>4
  <2> QED BY <1>2, <1>3, <2>1
<1>6. ASSUME NEW n \in 1 .. Len(y) PROVE t[Len(s) + Len(x) + n] = y[n]
  <2>1. Len(x) + n \in 1 .. Len(u) /\ Len(s) + (Len(x) + n) = Len(s) + Len(x) + n
    BY <1>2, <1>4
  <2>2. t[Len(s) + (Len(x) + n)] = u[Len(x) + n]
    BY <1>3, <2>1
  <2> QED BY <1>2, <2>1, <2>2
<1> QED BY <1>2, <1>3, <1>5, <1>6

LEMMA Single == \A x \in BOOLEAN : <<x>> \in Seq(BOOLEAN) /\ Len(<<x>>) = 1
OBVIOUS

(* What encode appends for a field: the presence bit, then the code.       *)
LEMMA GateIs ==
    /\ Gate \in Seq(BOOLEAN) /\ Len(Gate) = GateBits(field)
    /\ field.when.gate = "present" => Gate[1] = (value[i] # Absent)
<1> DEFINE v == value[i]
<1>1. (v # Absent) \in BOOLEAN
  <2>1. CASE v # Absent
    BY <2>1, Zenon
  <2>2. CASE v = Absent
    <3>1. (v # Absent) = FALSE
      BY <2>2
    <3> QED BY <3>1
  <2> QED BY <2>1, <2>2
<1>2. Gate \in Seq(BOOLEAN) /\ Len(Gate) = GateBits(field)
  <2>1. CASE field.when.gate # "present"
    BY <2>1 DEF GateBits, Gate
  <2>2. CASE field.when.gate = "present"
    <3>1. \E x \in BOOLEAN : Gate = <<x>>
      BY <1>1, <2>2, Zenon DEF Gate
    <3>2. Gate \in Seq(BOOLEAN) /\ Len(Gate) = 1
      BY <3>1, Single, Zenon
    <3> QED BY <2>2, <3>2 DEF GateBits
  <2> QED BY <2>1, <2>2
<1>3. ASSUME field.when.gate = "present" PROVE Gate[1] = (v # Absent)
  BY <1>3 DEF Gate
<1> QED BY <1>2, <1>3

LEMMA AppendedLies ==
    ASSUME NEW f \in Fields, Readable(f), NEW v, Wireable(f, v), NEW s \in Seq(BOOLEAN),
           NEW gate \in Seq(BOOLEAN), Len(gate) = GateBits(f),
           f.when.gate = "present" => gate[1] = (v # Absent),
           NEW code \in Seq(BOOLEAN), v = Absent => code = <<>>, v # Absent => code = Coded(f, v),
           NEW t \in Seq(BOOLEAN), Len(t) = Len(s) + (Len(gate) + Len(code)),
           \A n \in 1 .. Len(gate) : t[Len(s) + n] = gate[n],
           \A n \in 1 .. Len(code) : t[Len(s) + Len(gate) + n] = code[n]
    PROVE  /\ Len(gate) + Len(code) = Size(f, v)
           /\ Lies(f, v, t, Len(s))
<1>1. /\ GateBits(f) \in {0, 1} /\ Size(f, v) \in Nat
      /\ v = Absent => Size(f, v) = GateBits(f)
      /\ v # Absent => Len(Coded(f, v)) \in Nat /\ Size(f, v) = GateBits(f) + Len(Coded(f, v))
  BY FieldBits
<1>2. Len(gate) + Len(code) = Size(f, v)
  <2>1. CASE v = Absent
    BY <1>1, <2>1
  <2>2. CASE v # Absent
    BY <1>1, <2>2
  <2> QED BY <2>1, <2>2
<1>3. f.when.gate = "present" => t[Len(s) + 1] = (v # Absent)
  <2> SUFFICES ASSUME f.when.gate = "present" PROVE t[Len(s) + 1] = (v # Absent)
    OBVIOUS
  <2>1. 1 \in 1 .. Len(gate)
    BY DEF GateBits
  <2>2. t[Len(s) + 1] = gate[1]
    BY <2>1
  <2> QED BY <2>2
<1>4. v # Absent =>
        \A k \in 1 .. Len(Coded(f, v)) : t[Len(s) + GateBits(f) + k] = Coded(f, v)[k]
  OBVIOUS
<1>5. Len(s) + Size(f, v) <= Len(t) /\ Len(t) = Len(s) + Size(f, v)
  BY <1>1, <1>2
<1>6. Lies(f, v, t, Len(s))
  BY <1>3, <1>4, <1>5 DEF Lies
<1> QED BY <1>2, <1>6

LEMMA CodeIs ==
    ASSUME NEW f \in Fields, Readable(f), NEW v, Wireable(f, v),
           NEW code, code = (IF v = Absent THEN <<>> ELSE Coded(f, v))
    PROVE  code \in Seq(BOOLEAN) /\ (v = Absent => code = <<>>) /\ (v # Absent => code = Coded(f, v))
<1>1. CASE v = Absent
  BY <1>1
<1>2. CASE v # Absent
  BY <1>2, FieldBits
<1> QED BY <1>1, <1>2

(* As many whole bytes as the bits need.                                   *)
LEMMA WholeBytes ==
    ASSUME NEW n \in Nat
    PROVE  /\ W \in Nat \ {0} /\ Bytes(n) \in Int /\ W * Bytes(n) \in Int
           /\ n <= W * Bytes(n) /\ W * Bytes(n) <= n + W - 1
<1>1. W \in Nat \ {0} /\ n + W - 1 \in Nat /\ Bytes(n) \in Int
  BY BitMessageAssumption DEF Bytes
<1>2. ASSUME NEW a \in Nat, NEW p \in Int, p = a \div W PROVE W * p <= a /\ a < W * p + W
  <2>1. a - W * p = a % W
    BY <1>1, <1>2, SMTT(30)
  <2>2. a % W \in 0 .. W - 1
    BY <1>1
  <2>3. W * p \in Int
    BY <1>1
  <2> DEFINE b == W * p
  <2> HIDE DEF b
  <2>4. b <= a /\ a < b + W
    BY <1>1, <2>1, <2>2, <2>3 DEF b
  <2> QED BY <2>4 DEF b
<1>3. W * Bytes(n) <= n + W - 1 /\ n + W - 1 < W * Bytes(n) + W
  BY <1>1, <1>2 DEF Bytes
<1> DEFINE b == W * Bytes(n)
<1>4. b \in Int /\ b <= n + W - 1 /\ n + W - 1 < b + W
  BY <1>1, <1>3
<1> HIDE DEF b
<1>5. n <= b
  BY <1>1, <1>4
<1> QED BY <1>1, <1>4, <1>5 DEF b

(* The Buffer has room for so many bits.                                   *)
LEMMA RoomIsBits ==
    ASSUME NEW n \in Nat, cap \in Nat
    PROVE  Room(n) <=> n <= W * cap
<1> DEFINE q == Bytes(n)
<1>1. /\ W \in Nat \ {0} /\ q \in Int /\ W * q \in Int /\ W * cap \in Int
      /\ n <= W * q /\ W * q <= n + W - 1
  BY WholeBytes
<1> HIDE DEF q
<1> DEFINE x == W * q
           y == W * cap
<1>2. CASE q <= cap
  <2>1. x <= y
    BY <1>1, <1>2
  <2>2. x \in Int /\ y \in Int /\ n <= x
    BY <1>1
  <2> HIDE DEF x, y
  <2>3. n <= y
    BY <2>1, <2>2
  <2> QED BY <1>2, <2>3 DEF Room, q, y
<1>3. CASE ~(q <= cap)
  <2>1. W * (cap + 1) <= W * q /\ W * (cap + 1) = W * cap + W
    BY <1>1, <1>3
  <2>2. x \in Int /\ y \in Int /\ y + W <= x /\ x <= n + W - 1
    BY <1>1, <2>1
  <2> HIDE DEF x, y
  <2>3. ~(n <= y)
    BY <1>1, <2>2
  <2> QED BY <1>3, <2>3 DEF Room, q, y
<1> QED BY <1>2, <1>3

(* What is sent is whole bytes, and holds all that was written.            *)
LEMMA SentHoldsOut ==
    ASSUME out \in Seq(BOOLEAN)
    PROVE  /\ Sent \in Seq(BOOLEAN) /\ Len(Sent) \in Nat /\ Len(out) <= Len(Sent)
           /\ Len(Sent) > 0 => W <= Len(Sent)
           /\ \A n \in 1 .. Len(out) : Sent[n] = out[n]
<1> DEFINE n   == Len(out)
           more == W * Bytes(n) - n
           pad == [k \in 1 .. more |-> FALSE]
<1>1. n \in Nat /\ more \in Nat
  <2>1. n \in Nat
    OBVIOUS
  <2> DEFINE b == W * Bytes(n)
  <2>2. b \in Int /\ n <= b
    BY <2>1, WholeBytes
  <2> HIDE DEF b
  <2>3. b - n \in Nat
    BY <2>1, <2>2
  <2> QED BY <2>1, <2>3 DEF b
<1>2. n + more > 0 => W <= n + more
  <2> DEFINE q == Bytes(n)
  <2>1. q \in Int /\ W \in Nat \ {0} /\ W * q \in Int
    BY <1>1, WholeBytes
  <2>2. n + more = W * q
    <3> DEFINE b == W * q
    <3>1. b \in Int /\ n + (b - n) = b
      BY <1>1, <2>1
    <3> QED BY <3>1
  <2> HIDE DEF q, more
  <2>3. W * q > 0 => W <= W * q
    <3>1. q <= 0 => W * q <= 0
      BY <2>1
    <3>2. q >= 1 => W <= W * q
      BY <2>1
    <3> QED BY <2>1, <3>1, <3>2
  <2> QED BY <2>2, <2>3
<1>3. Sent = out \o pad
  BY DEF Sent
<1> HIDE DEF more
<1>4. pad \in Seq(BOOLEAN) /\ Len(pad) = more
  BY <1>1
<1> HIDE DEF pad
<1>5. /\ Sent \in Seq(BOOLEAN) /\ Len(Sent) = n + more
      /\ \A k \in 1 .. n : Sent[k] = out[k]
  <2>1. ASSUME NEW a \in Seq(BOOLEAN), NEW b \in Seq(BOOLEAN)
        PROVE  /\ a \o b \in Seq(BOOLEAN) /\ Len(a \o b) = Len(a) + Len(b)
               /\ \A k \in 1 .. Len(a) : (a \o b)[k] = a[k]
    OBVIOUS
  <2> QED BY <1>3, <1>4, <2>1
<1> HIDE DEF n
<1>6. Len(Sent) \in Nat /\ n <= Len(Sent) /\ (Len(Sent) > 0 => W <= Len(Sent))
  BY <1>1, <1>2, <1>5
<1> QED BY <1>5, <1>6 DEF n

----------------------------------------------------------------------------
(* A flag is a field of fixed width that is always there, and the masks    *)
(* that lie in it are apart.                                               *)
LEMMA FlagIs ==
    ASSUME NEW m \in Seq(Fields), Validated(m), NEW j \in Flags(m)
    PROVE  /\ j \in 1 .. Len(m) /\ m[j] \in Fields /\ Readable(m[j])
           /\ m[j].when.gate = "always" /\ m[j].kind # "var"
           /\ \A k \in Governs(m, j) :
                /\ k \in 1 .. Len(m) /\ m[k].when.gate = "mask" /\ m[k].when.flag = j /\ j < k
                /\ m[k].when.mask # {} /\ m[k].when.mask \subseteq 0 .. m[j].bits - 1
                /\ m[k].when.mask \subseteq Nat
           /\ \A k, n \in Governs(m, j) : k # n => m[k].when.mask \cap m[n].when.mask = {}
<1>1. Len(m) \in Nat /\ DOMAIN m = 1 .. Len(m) /\ \A k \in 1 .. Len(m) : m[k] \in Fields
  OBVIOUS
<1>2. ASSUME NEW k \in Governs(m, j)
      PROVE  /\ k \in 1 .. Len(m) /\ m[k].when.gate = "mask" /\ m[k].when.flag = j
             /\ j \in 1 .. k - 1 /\ ~Optional(m[j]) /\ m[j].kind # "var"
             /\ m[k].when.mask # {} /\ m[k].when.mask \subseteq 0 .. m[j].bits - 1
  <2>1. k \in 1 .. Len(m) /\ m[k].when.gate = "mask" /\ m[k].when.flag = j
    BY <1>1 DEF Governs
  <2>2. FlagOk(m, k)
    BY <1>1, <2>1 DEF Validated
  <2> QED BY <2>1, <2>2 DEF FlagOk
<1>3. ASSUME NEW k \in Governs(m, j)
      PROVE  m[k].when.mask \subseteq Nat /\ j < k
  <2>1. k \in 1 .. Len(m) /\ m[k] \in Fields /\ j \in 1 .. k - 1
    BY <1>1, <1>2
  <2>2. m[k].when \in Whens
    BY <2>1 DEF Fields
  <2>3. m[k].when.mask \subseteq Nat
    BY <2>2 DEF Whens
  <2> QED BY <2>1, <2>3
<1>4. ASSUME NEW k \in Governs(m, j), NEW n \in Governs(m, j), k # n
      PROVE  m[k].when.mask \cap m[n].when.mask = {}
  <2>1. k \in 1 .. Len(m) /\ n \in 1 .. Len(m)
    BY <1>2
  <2>2. ASSUME NEW x \in Governs(m, j), NEW y \in Governs(m, j), x < y
        PROVE  m[x].when.mask \cap m[y].when.mask = {}
    <3>1. y \in 1 .. Len(m) /\ m[y].when.gate = "mask" /\ m[y].when.flag = j
      BY <1>2
    <3>2. Alone(m, y)
      BY <1>1, <3>1 DEF Validated
    <3> QED BY <2>2, <3>1, <3>2 DEF Alone
  <2>3. k < n \/ n < k
    BY <1>4, <2>1
  <2> QED BY <2>2, <2>3
<1>5. PICK k : k \in Governs(m, j)
  BY DEF Flags
<1>6. j \in 1 .. Len(m) /\ m[j].when.gate = "always" /\ m[j].kind # "var"
  <2>1. j \in 1 .. k - 1 /\ k \in 1 .. Len(m) /\ ~Optional(m[j]) /\ m[j].kind # "var"
    BY <1>2, <1>5
  <2> QED BY <1>1, <2>1 DEF Optional
<1>7. Readable(m[j]) /\ m[j] \in Fields
  BY <1>1, <1>6 DEF Validated
<1> QED BY <1>2, <1>3, <1>4, <1>6, <1>7

(* What a flag carries: its own bits, and for each mask whether the field  *)
(* under it is there.                                                      *)
LEMMA CarriedIs ==
    ASSUME NEW m \in Seq(Fields), Validated(m), NEW j \in Flags(m), NEW v, v[j] \subseteq Nat
    PROVE  /\ Carried(m, v, j) \subseteq Nat
           /\ \A b : b \notin Governed(m, j) => (b \in Carried(m, v, j) <=> b \in v[j])
           /\ \A k \in Governs(m, j) : \A b \in m[k].when.mask :
                b \in Carried(m, v, j) <=> (m[k].when.set <=> v[k] # Absent)
<1> DEFINE S  == {n \in Governs(m, j) : m[n].when.set <=> v[n] # Absent}
           M  == UNION {m[k].when.mask : k \in S}
           C  == (v[j] \ Governed(m, j)) \cup M
<1>1. Carried(m, v, j) = C
  BY DEF Carried
<1>2. \A b : b \in Governed(m, j) <=> \E k \in Governs(m, j) : b \in m[k].when.mask
  BY DEF Governed
<1>3. \A k \in Governs(m, j) : k \in S <=> (m[k].when.set <=> v[k] # Absent)
  OBVIOUS
<1>4. S \subseteq Governs(m, j)
  OBVIOUS
<1> HIDE DEF S
<1>5. \A b : b \in M <=> \E k \in S : b \in m[k].when.mask
  OBVIOUS
<1> HIDE DEF M
<1>6. \A b : b \in C <=> ((b \in v[j] /\ b \notin Governed(m, j)) \/ b \in M)
  OBVIOUS
<1> HIDE DEF C
<1>7. C \subseteq Nat
  BY <1>4, <1>5, <1>6, FlagIs
<1>8. \A b : b \notin Governed(m, j) => (b \in C <=> b \in v[j])
  BY <1>2, <1>4, <1>5, <1>6
<1>9. ASSUME NEW k \in Governs(m, j), NEW b \in m[k].when.mask
      PROVE  b \in C <=> k \in S
  <2>1. b \in C <=> \E n \in S : b \in m[n].when.mask
    BY <1>2, <1>5, <1>6
  <2>2. \A n \in S : b \in m[n].when.mask => n = k
    BY <1>4, FlagIs
  <2> QED BY <2>1, <2>2
<1> QED BY <1>1, <1>3, <1>7, <1>8, <1>9

(* A flag is patched within its bits.                                      *)
LEMMA CarriedFits ==
    ASSUME NEW m \in Seq(Fields), Validated(m), NEW j \in 1 .. Len(m), NEW v, Wireable(m[j], v[j])
    PROVE  /\ Wireable(m[j], Carried(m, v, j)) /\ Size(m[j], Carried(m, v, j)) = Size(m[j], v[j])
           /\ j \in Flags(m) => v[j] # Absent /\ v[j] \subseteq Nat /\ Carried(m, v, j) # Absent
<1>1. CASE j \notin Flags(m)
  BY <1>1 DEF Carried
<1>2. CASE j \in Flags(m)
  <2> DEFINE c == Carried(m, v, j)
             f == m[j]
  <2>1. f \in Fields /\ Readable(f) /\ f.when.gate = "always" /\ f.kind # "var"
    BY <1>2, FlagIs
  <2>2. v[j] # Absent /\ v[j] \subseteq Nat
    BY <2>1 DEF Wireable
  <2>3. c \subseteq Nat
    BY <1>2, <2>2, CarriedIs
  <2> HIDE DEF c, f
  <2>4. c # Absent
    <3>1. -1 \notin Nat
      OBVIOUS
    <3> QED BY <2>3, <3>1 DEF Absent
  <2>5. Wireable(f, c)
    BY <2>1, <2>3, <2>4 DEF Wireable
  <2>6. Wireable(f, v[j])
    BY DEF f
  <2>7. /\ Size(f, c) = GateBits(f) + Len(Coded(f, c)) /\ Len(Coded(f, c)) = f.bits
        /\ Size(f, v[j]) = GateBits(f) + Len(Coded(f, v[j])) /\ Len(Coded(f, v[j])) = f.bits
    BY <2>1, <2>2, <2>4, <2>5, <2>6, FieldBits
  <2> QED BY <2>2, <2>4, <2>5, <2>7 DEF c, f
<1> QED BY <1>1, <1>2

(* When every gate is one bit, a flag that agrees with its fields is       *)
(* patched to what it was.                                                 *)
LEMMA CarriedIsKept ==
    ASSUME NEW m \in Seq(Fields), Validated(m), NEW j \in Flags(m), NEW v, v[j] \subseteq Nat,
           \A k \in Governs(m, j) : Cardinality(m[k].when.mask) <= 1 /\ Agrees(m, v, k)
    PROVE  \A b : b \in Carried(m, v, j) <=> b \in v[j]
<1> SUFFICES ASSUME NEW b PROVE b \in Carried(m, v, j) <=> b \in v[j]
  OBVIOUS
<1>1. CASE b \notin Governed(m, j)
  BY <1>1, CarriedIs
<1>2. CASE b \in Governed(m, j)
  <2>1. PICK k \in Governs(m, j) : b \in m[k].when.mask
    BY <1>2 DEF Governed
  <2> DEFINE mask == m[k].when.mask
  <2>2. /\ k \in 1 .. Len(m) /\ m[k].when.gate = "mask" /\ m[k].when.flag = j
        /\ mask \subseteq 0 .. m[j].bits - 1 /\ m[j] \in Fields
    BY <2>1, FlagIs
  <2>3. mask = {b}
    <3>1. IsFiniteSet(mask)
      <4>1. m[j].bits - 1 \in Int /\ 0 \in Int
        BY <2>2 DEF Fields
      <4>2. IsFiniteSet(0 .. m[j].bits - 1)
        BY <4>1, FS_Interval
      <4> QED BY <2>2, <4>2, FS_Subset
    <3>2. Cardinality({b}) = 1 /\ IsFiniteSet({b})
      BY FS_Singleton
    <3>3. Cardinality(mask) \in Nat /\ Cardinality(mask) <= 1
      BY <2>1, <3>1, FS_CardinalityType
    <3>4. {b} \subseteq mask
      BY <2>1
    <3> QED BY <3>1, <3>2, <3>3, <3>4, FS_Subset
  <2>4. v[k] # Absent <=> ((v[j] \cap mask # {}) <=> m[k].when.set)
    BY <2>1, <2>2 DEF Agrees
  <2>5. (v[j] \cap mask # {}) <=> b \in v[j]
    BY <2>3
  <2>6. b \in Carried(m, v, j) <=> (m[k].when.set <=> v[k] # Absent)
    BY <2>1, CarriedIs
  <2>7. m[k].when.set \in BOOLEAN
    <3>1. m[k] \in Fields
      BY <2>2
    <3>2. m[k].when \in Whens
      BY <3>1 DEF Fields
    <3> QED BY <3>2 DEF Whens
  <2> HIDE DEF mask
  <2> QED BY <2>4, <2>5, <2>6, <2>7
<1> QED BY <1>1, <1>2

(* A flag that was decoded says which of its fields there are, and has the *)
(* bits of the value that no field is gated by.                            *)
LEMMA BackIs ==
    ASSUME NEW m \in Seq(Fields), Validated(m), NEW j \in Flags(m), NEW v, v[j] \subseteq Nat
    PROVE  /\ Low(m[j], Back(m, v, j)) = Low(m[j], Carried(m, v, j))
           /\ \A k \in Governs(m, j) :
                v[k] # Absent <=> ((Back(m, v, j) \cap m[k].when.mask # {}) <=> m[k].when.set)
           /\ \A b \in (0 .. m[j].bits - 1) \ Governed(m, j) : b \in Back(m, v, j) <=> b \in v[j]
<1> DEFINE c == Carried(m, v, j)
           r == Back(m, v, j)
           f == m[j]
<1>1. f \in Fields /\ Readable(f) /\ f.kind # "var" /\ r = Decoded(f, Low(f, c))
  BY FlagIs DEF Back
<1>2. /\ \A b : b \notin Governed(m, j) => (b \in c <=> b \in v[j])
      /\ \A k \in Governs(m, j) : \A b \in m[k].when.mask :
            b \in c <=> (m[k].when.set <=> v[k] # Absent)
  BY CarriedIs
<1> HIDE DEF c, r
<1>3. Low(f, r) = Low(f, c)
  <2>1. Low(f, c) \in SUBSET (0 .. f.bits - 1)
    BY DEF Low
  <2> QED BY <1>1, <2>1, DecodedIsSound
<1>4. \A b \in 0 .. f.bits - 1 : b \in r <=> b \in c
  BY <1>3 DEF Low
<1>5. ASSUME NEW k \in Governs(m, j)
      PROVE  v[k] # Absent <=> ((r \cap m[k].when.mask # {}) <=> m[k].when.set)
  <2>1. m[k].when.mask # {} /\ m[k].when.mask \subseteq 0 .. f.bits - 1 /\ k \in 1 .. Len(m)
    BY FlagIs
  <2>2. m[k].when.set \in BOOLEAN
    <3>1. m[k] \in Fields
      BY <2>1
    <3>2. m[k].when \in Whens
      BY <3>1 DEF Fields
    <3> QED BY <3>2 DEF Whens
  <2>3. (r \cap m[k].when.mask # {}) <=> (m[k].when.set <=> v[k] # Absent)
    BY <1>2, <1>4, <2>1
  <2> QED BY <2>2, <2>3
<1>6. \A b \in (0 .. f.bits - 1) \ Governed(m, j) : b \in r <=> b \in v[j]
  BY <1>2, <1>4
<1> QED BY <1>3, <1>5, <1>6 DEF c, r

----------------------------------------------------------------------------
(* The fields of an accepted message, and where they end with a value.     *)
LEMMA Accepted ==
    ASSUME Typed, Finished, phase \notin {"validate", "refused"}
    PROVE  /\ Validated(msg) /\ msg \in Seq(Fields) /\ Len(msg) \in Nat \ {0}
           /\ DOMAIN msg = 1 .. Len(msg)
           /\ \A j \in 1 .. Len(msg) : msg[j] \in Fields /\ Readable(msg[j])
<1>1. Validated(msg) /\ msg \in Seq(Fields) /\ Len(msg) \in Nat /\ DOMAIN msg = 1 .. Len(msg)
  BY MessageTypes DEF Typed, Finished
<1>2. \A j \in 1 .. Len(msg) : msg[j] \in Fields /\ Readable(msg[j])
  BY <1>1, MessageTypes DEF Typed, Validated
<1>3. Len(msg) # 0
  BY <1>1 DEF Validated
<1> QED BY <1>1, <1>2, <1>3

LEMMA ValueEnds ==
    ASSUME Typed, Finished, Untouched, Valued, value # None
    PROVE  LET e == Ends(msg, value)
           IN  /\ phase \notin {"validate", "table", "refused"}
               /\ \A j \in 1 .. Len(msg) :
                    Sound(msg[j], value[j]) /\ Wireable(msg[j], value[j]) /\ Size(msg[j], value[j]) \in Nat
               /\ e[0] = 0
               /\ \A n \in 1 .. Len(msg) : e[n] = e[n - 1] + Size(msg[n], value[n])
               /\ \A n \in 0 .. Len(msg) : e[n] \in Nat
               /\ \A n \in 0 .. Len(msg) : \A k \in 0 .. n : e[k] <= e[n]
<1>1. phase \notin {"validate", "table", "refused"}
  BY DEF Untouched
<1>2. \A j \in 1 .. Len(msg) : Sound(msg[j], value[j]) /\ Wireable(msg[j], value[j])
  BY DEF Valued, Sound
<1>3. \A j \in 1 .. Len(msg) : Size(msg[j], value[j]) \in Nat
  BY <1>1, <1>2, Accepted, FieldBits
<1>4. Len(msg) \in Nat
  BY <1>1, Accepted
<1> QED BY <1>1, <1>2, <1>3, <1>4, EndsInOrder

----------------------------------------------------------------------------
(* Nothing is encoded or decoded before the table is made.                 *)
LEMMA InitWire == Init => WireInv
BY DEF Init, WireInv, Untouched, First, Valued, FromWire, Encoded, Laid, Restored, Overflowed

LEMMA TableKeepsWire == ASSUME WireInv, Validate \/ PushRow PROVE WireInv'
<1>1. /\ phase \in {"validate", "table"} /\ phase' \in {"table", "refused"}
      /\ value' = value /\ origin' = origin /\ out' = out /\ marks' = marks /\ read' = read
  BY DEF Validate, PushRow
<1>2. value = None /\ Untouched'
  BY <1>1 DEF WireInv, Untouched
<1>3. First' /\ Valued' /\ FromWire' /\ Encoded' /\ Laid' /\ Restored' /\ Overflowed'
  BY <1>1, <1>2 DEF First, Valued, FromWire, Encoded, Laid, Restored, Overflowed
<1> QED BY <1>2, <1>3 DEF WireInv

(* The caller's value: one for each field, that it may hold.               *)
LEMMA ValuesAreSound ==
    ASSUME NEW m \in Seq(Fields), Validated(m), NEW v \in Values(m)
    PROVE  /\ v \in Seq(SUBSET Int) /\ Len(v) = Len(m) /\ v # None
           /\ \A j \in 1 .. Len(m) : Sound(m[j], v[j])
<1> DEFINE held(j) == Holds(m[j]) \cup IF Optional(m[j]) THEN {Absent} ELSE {}
<1>1. /\ Len(m) \in Nat \ {0} /\ DOMAIN m = 1 .. Len(m)
      /\ \A j \in 1 .. Len(m) : m[j] \in Fields /\ Readable(m[j])
  <2>1. Len(m) \in Nat /\ DOMAIN m = 1 .. Len(m) /\ \A j \in 1 .. Len(m) : m[j] \in Fields
    OBVIOUS
  <2> QED BY <2>1 DEF Validated
<1>2. v \in [1 .. Len(m) -> UNION {held(j) : j \in DOMAIN m}] /\ \A j \in 1 .. Len(m) : v[j] \in held(j)
  BY <1>1 DEF Values
<1>3. ASSUME NEW j \in 1 .. Len(m) PROVE Sound(m[j], v[j]) /\ v[j] \in SUBSET Int
  <2>1. v[j] \in Holds(m[j]) \/ (Optional(m[j]) /\ v[j] = Absent)
    BY <1>2
  <2>2. CASE v[j] \in Holds(m[j])
    BY <1>1, <2>2, HeldIsSound DEF Sound, Wireable
  <2>3. CASE Optional(m[j]) /\ v[j] = Absent
    <3>1. m[j].when.gate # "always" /\ Absent \in SUBSET Int
      BY <2>3 DEF Optional, Absent
    <3> QED BY <2>3, <3>1 DEF Sound, Wireable
  <2> QED BY <2>1, <2>2, <2>3
<1> HIDE DEF held
<1>4. v \in [1 .. Len(m) -> SUBSET Int]
  BY <1>2, <1>3
<1>5. v \in Seq(SUBSET Int) /\ Len(v) = Len(m)
  BY <1>1, <1>4
<1>6. v # None
  BY <1>1, <1>5 DEF None
<1> QED BY <1>3, <1>5, <1>6

LEMMA CalledKeepsWire == ASSUME IInv, WireInv, Called PROVE WireInv'
<1>1. /\ phase = "table" /\ i' = 1 /\ cap' \in Caps /\ msg' = msg
      /\ out' = out /\ marks' = marks /\ read' = read /\ at' = at /\ met' = met
  BY DEF Called, table
<1>2. /\ value = None /\ origin = None /\ out = <<>> /\ marks = <<>> /\ read = <<>>
      /\ met = <<>> /\ at = 0
  BY <1>1 DEF WireInv, Untouched, IInv, Finished
<1>3. Validated(msg) /\ msg \in Seq(Fields) /\ Len(msg) \in Nat \ {0}
  BY <1>1, Accepted DEF IInv
<1>4. W \in Nat /\ cap' \in Nat
  BY <1>1, BitMessageAssumption
<1>5. CASE value' \in Values(msg) /\ phase' = "encode" /\ origin' = origin
  <2>1. /\ value' \in Seq(SUBSET Int) /\ Len(value') = Len(msg) /\ value' # None
        /\ \A j \in 1 .. Len(msg) : Sound(msg[j], value'[j])
    BY <1>3, <1>5, ValuesAreSound
  <2>2. Valued'
    BY <1>1, <1>4, <2>1 DEF Valued
  <2>3. Ends(msg, value')[0] = 0
    <3>1. \A j \in 1 .. Len(msg) : Size(msg[j], value'[j]) \in Nat
      BY <1>1, <2>1, FieldBits, Accepted DEF Sound, IInv
    <3> QED BY <1>3, <3>1, EndsInOrder
  <2>4. Encoded'
    <3>1. 0 <= W * cap'
      <4>1. ASSUME NEW a \in Nat, NEW b \in Nat PROVE 0 <= a * b
        OBVIOUS
      <4> QED BY <1>4, <4>1
    <3>2. Len(<<>>) = 0 /\ <<>> \in Seq(BOOLEAN) /\ <<>> \in Seq(Nat)
      OBVIOUS
    <3> QED BY <1>1, <1>2, <1>3, <1>5, <2>3, <3>1, <3>2 DEF Encoded
  <2>5. Untouched' /\ First' /\ FromWire' /\ Laid' /\ Restored' /\ Overflowed'
    BY <1>2, <1>5 DEF Untouched, First, FromWire, Laid, Restored, Overflowed
  <2> QED BY <2>2, <2>4, <2>5 DEF WireInv
<1>6. CASE origin' \in Bodies /\ body' = origin' /\ phase' = "decode" /\ value' = value
  <2>1. First'
    <3>1. body' \in Seq(BOOLEAN)
      BY <1>6, BitMessageAssumption
    <3>2. Len(<<>>) = 0 /\ <<>> \in Seq(SUBSET Int)
      OBVIOUS
    <3> QED BY <1>1, <1>2, <1>4, <1>6, <3>1, <3>2 DEF First, Begins
  <2>2. /\ Untouched' /\ Valued' /\ FromWire' /\ Encoded' /\ Laid' /\ Restored' /\ Overflowed'
    BY <1>2, <1>6 DEF Untouched, Valued, FromWire, Encoded, Laid, Restored, Overflowed
  <2> QED BY <2>1, <2>2 DEF WireInv
<1> QED BY <1>5, <1>6 DEF Called

----------------------------------------------------------------------------
(* What encode is about to write for a field lies after what it wrote.     *)
Code == IF value[i] = Absent THEN <<>> ELSE Coded(field, value[i])

LEMMA FieldWrites ==
    ASSUME IInv, WireInv, Encoding
    PROVE  LET e == Ends(msg, value)
               t == out \o (Gate \o Code)
           IN  /\ i \in 1 .. Len(msg) /\ field = msg[i] /\ Len(out) = e[i - 1]
               /\ Gate \in Seq(BOOLEAN) /\ Code \in Seq(BOOLEAN)
               /\ Len(Gate) + Len(Code) = Size(msg[i], value[i])
               /\ t \in Seq(BOOLEAN) /\ Len(t) = e[i]
               /\ \A n \in 1 .. Len(out) : t[n] = out[n]
               /\ Lies(msg[i], value[i], t, e[i - 1])
<1> DEFINE e == Ends(msg, value)
           t == out \o (Gate \o Code)
           v == value[i]
<1>1. phase = "encode" /\ i \in Nat \ {0} /\ i <= Len(msg) /\ field = msg[i] /\ value # None
  BY DEF Encoding, IInv, Typed, WireInv, Valued, field
<1>2. i \in 1 .. Len(msg) /\ Len(msg) \in Nat /\ field \in Fields /\ Readable(field)
  BY <1>1, Accepted DEF IInv
<1>3. out \in Seq(BOOLEAN) /\ Len(out) = e[i - 1]
  BY <1>1 DEF WireInv, Encoded
<1>4. Wireable(field, v) /\ e[i] = e[i - 1] + Size(field, v)
  BY <1>1, <1>2, ValueEnds DEF IInv, WireInv
<1>5. /\ Gate \in Seq(BOOLEAN) /\ Len(Gate) = GateBits(field)
      /\ field.when.gate = "present" => Gate[1] = (v # Absent)
  BY GateIs
<1>6. Code \in Seq(BOOLEAN) /\ (v = Absent => Code = <<>>) /\ (v # Absent => Code = Coded(field, v))
  BY <1>2, <1>4, CodeIs, Zenon DEF Code
<1>7. t = out \o (Gate \o Code)
  OBVIOUS
<1> HIDE DEF t, v, e
<1>8. /\ t \in Seq(BOOLEAN) /\ Len(t) = Len(out) + (Len(Gate) + Len(Code))
      /\ \A n \in 1 .. Len(out) : t[n] = out[n]
      /\ \A n \in 1 .. Len(Gate) : t[Len(out) + n] = Gate[n]
      /\ \A n \in 1 .. Len(Code) : t[Len(out) + Len(Gate) + n] = Code[n]
  <2> DEFINE g == Gate
             c == Code
  <2>1. g \in Seq(BOOLEAN) /\ c \in Seq(BOOLEAN) /\ out \in Seq(BOOLEAN) /\ t = out \o (g \o c)
    BY <1>3, <1>5, <1>6, <1>7
  <2> HIDE DEF g, c
  <2>2. /\ t \in Seq(BOOLEAN) /\ Len(t) = Len(out) + (Len(g) + Len(c))
        /\ \A n \in 1 .. Len(out) : t[n] = out[n]
        /\ \A n \in 1 .. Len(g) : t[Len(out) + n] = g[n]
        /\ \A n \in 1 .. Len(c) : t[Len(out) + Len(g) + n] = c[n]
    BY <2>1, Joined
  <2> QED BY <2>2 DEF g, c
<1>9. Len(Gate) + Len(Code) = Size(field, v) /\ Lies(field, v, t, Len(out))
  BY <1>2, <1>3, <1>4, <1>5, <1>6, <1>8, AppendedLies
<1>10. Len(t) = e[i]
  BY <1>3, <1>4, <1>8, <1>9
<1> QED BY <1>1, <1>2, <1>3, <1>5, <1>6, <1>8, <1>9, <1>10 DEF t, v, e

LEMMA EncodeFieldKeepsWire == ASSUME IInv, WireInv, EncodeField PROVE WireInv'
<1> DEFINE e == Ends(msg, value)
           t == out \o (Gate \o Code)
<1>1. /\ Encoding /\ phase = "encode" /\ i <= Len(msg) /\ phase' = phase /\ i' = i + 1
      /\ out' = t /\ marks' = Append(marks, Len(out))
      /\ msg' = msg /\ value' = value /\ cap' = cap /\ body' = body /\ origin' = origin
      /\ at' = at /\ read' = read /\ met' = met
      /\ value[i] # Absent => Fits(field, value[i])
      /\ Room(Len(out) + Len(Gate \o Code))
  BY DEF EncodeField, Written, Encoding, Code
<1>2. /\ i \in 1 .. Len(msg) /\ field = msg[i] /\ Len(out) = e[i - 1]
      /\ Gate \in Seq(BOOLEAN) /\ Code \in Seq(BOOLEAN)
      /\ Len(Gate) + Len(Code) = Size(msg[i], value[i])
      /\ t \in Seq(BOOLEAN) /\ Len(t) = e[i]
      /\ \A n \in 1 .. Len(out) : t[n] = out[n]
      /\ Lies(msg[i], value[i], t, e[i - 1])
  BY <1>1, FieldWrites
<1>3. /\ value # None /\ out \in Seq(BOOLEAN) /\ marks \in Seq(Nat) /\ Len(marks) = i - 1 /\ cap \in Nat
      /\ \A j \in 1 .. i - 1 : /\ marks[j] = e[j - 1] /\ CanLie(msg[j], value[j])
                               /\ Lies(msg[j], value[j], out, e[j - 1])
      /\ origin # None => \A n \in 1 .. Len(out) : out[n] = origin[n]
  BY <1>1 DEF WireInv, Encoded, Valued
<1>4. /\ Len(msg) \in Nat /\ \A j \in 1 .. Len(msg) : msg[j] \in Fields /\ Readable(msg[j])
  BY <1>1, Accepted DEF IInv
<1>5. /\ \A j \in 1 .. Len(msg) : Wireable(msg[j], value[j]) /\ Size(msg[j], value[j]) \in Nat
      /\ \A n \in 1 .. Len(msg) : e[n] = e[n - 1] + Size(msg[n], value[n])
      /\ \A n \in 0 .. Len(msg) : e[n] \in Nat
      /\ \A n \in 0 .. Len(msg) : \A k \in 0 .. n : e[k] <= e[n]
  BY <1>3, ValueEnds DEF IInv, WireInv
<1>6. Len(t) <= W * cap
  <2>1. Len(Gate \o Code) = Size(msg[i], value[i])
    <3>1. ASSUME NEW x \in Seq(BOOLEAN), NEW y \in Seq(BOOLEAN) PROVE Len(x \o y) = Len(x) + Len(y)
      OBVIOUS
    <3> QED BY <1>2, <3>1
  <2>2. Len(out) + Len(Gate \o Code) = e[i] /\ e[i] \in Nat
    BY <1>2, <1>4, <1>5, <2>1
  <2>3. e[i] <= W * cap
    BY <1>1, <1>3, <2>2, RoomIsBits
  <2> QED BY <1>2, <2>3
<1> HIDE DEF t, e
<1>7. ASSUME NEW j \in 1 .. i
      PROVE  marks'[j] = e[j - 1] /\ Lies(msg[j], value[j], t, e[j - 1]) /\ CanLie(msg[j], value[j])
  <2>1. CASE j = i
    <3>1. marks'[i] = Len(out)
      BY <1>1, <1>2, <1>3, <1>4
    <3> QED BY <1>1, <1>2, <2>1, <3>1 DEF CanLie
  <2>2. CASE j # i
    <3>1. /\ j \in 1 .. i - 1 /\ j \in 1 .. Len(msg) /\ j - 1 \in 0 .. Len(msg)
          /\ j \in 0 .. i - 1 /\ i - 1 \in 0 .. Len(msg)
      BY <1>2, <1>4, <2>2
    <3>2. marks'[j] = marks[j]
      BY <1>1, <1>2, <1>3, <3>1
    <3>3. /\ e[j - 1] \in Nat /\ e[j] = e[j - 1] + Size(msg[j], value[j]) /\ e[j] <= e[i - 1]
          /\ e[i - 1] \in Nat /\ e[i] \in Nat /\ e[i - 1] <= e[i] /\ e[j] \in Nat
      <4>1. i - 1 \in 0 .. i /\ i \in 0 .. Len(msg) /\ j \in 0 .. Len(msg)
        BY <1>2, <1>4, <3>1
      <4> QED BY <1>5, <3>1, <4>1
    <3>4. e[j - 1] + Size(msg[j], value[j]) <= Len(t) /\ Len(t) \in Nat
      BY <1>2, <1>5, <3>1, <3>3
    <3>5. \A n \in e[j - 1] + 1 .. e[j - 1] + Size(msg[j], value[j]) : t[n] = out[n]
      <4>1. \A n \in e[j - 1] + 1 .. e[j] : n \in 1 .. Len(out)
        BY <1>2, <3>3
      <4> QED BY <1>2, <3>3, <4>1
    <3>6. /\ msg[j] \in Fields /\ Readable(msg[j]) /\ Wireable(msg[j], value[j])
          /\ Lies(msg[j], value[j], out, e[j - 1])
      BY <1>3, <1>4, <1>5, <3>1
    <3>7. Lies(msg[j], value[j], t, e[j - 1])
      BY <3>3, <3>4, <3>5, <3>6, LiesSame
    <3> QED BY <1>3, <3>1, <3>2, <3>7
  <2> QED BY <2>1, <2>2
<1>8. ASSUME origin # None, NEW n \in 1 .. Len(t) PROVE t[n] = origin[n]
  <2>1. CASE n <= Len(out)
    BY <1>2, <1>3, <1>8, <2>1
  <2>2. CASE ~(n <= Len(out))
    <3>1. e[i - 1] \in Nat /\ e[i] = e[i - 1] + Size(msg[i], value[i])
      BY <1>2, <1>4, <1>5
    <3>2. n \in e[i - 1] + 1 .. e[i - 1] + Size(msg[i], value[i])
      BY <1>2, <2>2, <3>1
    <3>3. Lies(msg[i], value[i], origin, e[i - 1])
      BY <1>2, <1>3, <1>8 DEF WireInv, FromWire, e
    <3>4. msg[i] \in Fields /\ Readable(msg[i]) /\ Wireable(msg[i], value[i])
      BY <1>2, <1>4, <1>5
    <3> QED BY <1>2, <3>1, <3>2, <3>3, <3>4, LiesAgree
  <2> QED BY <2>1, <2>2
<1>9. Encoded'
  <2>1. marks' \in Seq(Nat) /\ Len(marks') = i
    <3>1. Len(out) \in Nat
      BY <1>3
    <3> QED BY <1>1, <1>2, <1>3, <3>1
  <2>2. i' - 1 = i /\ i' <= Len(msg) + 1
    BY <1>1, <1>2, <1>4
  <2>3. \A j \in 1 .. i' - 1 : /\ marks'[j] = Ends(msg', value')[j - 1]
                              /\ Lies(msg'[j], value'[j], out', Ends(msg', value')[j - 1])
                              /\ CanLie(msg'[j], value'[j])
    BY <1>1, <1>7, <2>2 DEF e
  <2>4. out' \in Seq(BOOLEAN) /\ Len(out') = Ends(msg', value')[i' - 1] /\ Len(out') <= W * cap'
    BY <1>1, <1>2, <1>6, <2>2 DEF e
  <2>5. origin' # None => \A n \in 1 .. Len(out') : out'[n] = origin'[n]
    BY <1>1, <1>8
  <2> QED BY <1>1, <2>1, <2>2, <2>3, <2>4, <2>5 DEF Encoded
<1>10. Valued' /\ FromWire'
  BY <1>1 DEF WireInv, Valued, FromWire
<1>11. Untouched' /\ First' /\ Laid' /\ Restored' /\ Overflowed'
  BY <1>1 DEF Untouched, First, Laid, Restored, Overflowed
<1> QED BY <1>9, <1>10, <1>11 DEF WireInv

(* Encode leaves early for want of room, or for a value that does not fit. *)
LEMMA EncodeLeaves ==
    ASSUME IInv, WireInv, EncodeOverflows \/ EncodePanics
    PROVE  WireInv'
<1> DEFINE e == Ends(msg, value)
<1>1. /\ Encoding /\ phase = "encode" /\ value # None
      /\ msg' = msg /\ value' = value /\ cap' = cap /\ body' = body /\ origin' = origin
      /\ phase' \in {"overflow", "panicked"}
  BY DEF EncodeOverflows, EncodePanics, Written, Encoding, WireInv, Valued
<1>2. /\ i \in 1 .. Len(msg) /\ field = msg[i] /\ Len(out) = e[i - 1]
      /\ Gate \in Seq(BOOLEAN) /\ Code \in Seq(BOOLEAN)
      /\ Len(Gate) + Len(Code) = Size(msg[i], value[i])
  BY <1>1, FieldWrites
<1>3. CASE EncodeOverflows
  <2>1. ~Room(Len(out) + Len(Gate) + Len(Code)) /\ phase' = "overflow"
    BY <1>3 DEF EncodeOverflows, Code
  <2>2. Len(msg) \in Nat
    BY <1>1, Accepted DEF IInv
  <2>3. /\ e[i] = e[i - 1] + Size(msg[i], value[i]) /\ e[i] \in Nat /\ e[Len(msg)] \in Nat
        /\ e[i] <= e[Len(msg)] /\ e[i - 1] \in Nat
    <3>1. i \in 0 .. Len(msg) /\ i - 1 \in 0 .. Len(msg) /\ Len(msg) \in 0 .. Len(msg)
      BY <1>2, <2>2
    <3> QED BY <1>1, <1>2, <3>1, ValueEnds DEF IInv, WireInv
  <2> HIDE DEF e
  <2>4. Len(out) + Len(Gate) + Len(Code) = e[i]
    BY <1>2, <2>3
  <2>5. cap \in Nat /\ W \in Nat
    BY <1>1, BitMessageAssumption DEF WireInv, Valued
  <2>6. ~(e[i] <= W * cap)
    BY <2>1, <2>3, <2>4, <2>5, RoomIsBits
  <2>7. e[Len(msg)] > W * cap
    <3>1. W * cap \in Int
      BY <2>5
    <3> DEFINE x == W * cap
    <3>2. x \in Int /\ ~(e[i] <= x)
      BY <2>6, <3>1
    <3> HIDE DEF x
    <3>3. e[Len(msg)] > x
      BY <2>3, <3>2
    <3> QED BY <3>3 DEF x
  <2>8. Overflowed'
    BY <1>1, <2>7 DEF Overflowed, e
  <2>9. Valued' /\ FromWire'
    BY <1>1, <2>1 DEF WireInv, Valued, FromWire
  <2>10. Untouched' /\ First' /\ Encoded' /\ Laid' /\ Restored'
    BY <2>1 DEF Untouched, First, Encoded, Laid, Restored
  <2> QED BY <2>8, <2>9, <2>10 DEF WireInv
<1>4. CASE EncodePanics
  <2>1. phase' = "panicked" /\ value[i] # Absent /\ ~Fits(msg[i], value[i])
    BY <1>2, <1>4 DEF EncodePanics
  <2>2. origin = None
    BY <1>1, <1>2, <2>1 DEF WireInv, FromWire, CanLie
  <2>3. Valued' /\ FromWire'
    BY <1>1, <2>1, <2>2 DEF WireInv, Valued, FromWire
  <2>4. Untouched' /\ First' /\ Encoded' /\ Laid' /\ Restored' /\ Overflowed'
    BY <2>1 DEF Untouched, First, Encoded, Laid, Restored, Overflowed
  <2> QED BY <2>3, <2>4 DEF WireInv
<1> QED BY <1>3, <1>4

----------------------------------------------------------------------------
(* The flags are patched where they were written, and nothing else is.     *)
FlagsAt(n) == {flag \in Flags(msg) : n - marks[flag] \in 1 .. msg[flag].bits}

LEMMA PatchedIs == ASSUME NEW j \in Flags(msg) PROVE Patched(j) = Carried(msg, value, j)
BY DEF Patched, Marked, Carried

LEMMA PatchWrites ==
    ASSUME IInv, WireInv, PatchFlags
    PROVE  LET e == Ends(msg, value)
           IN  /\ phase = "encode" /\ i = Len(msg) + 1 /\ value # None
               /\ out' \in Seq(BOOLEAN) /\ Len(out') = Len(out) /\ Len(out) = e[Len(msg)]
               /\ \A j \in Flags(msg) : \A k \in 1 .. msg[j].bits :
                    /\ e[j - 1] + k \in 1 .. Len(out)
                    /\ out'[e[j - 1] + k] = (k - 1 \in Carried(msg, value, j))
               /\ \A n \in 1 .. Len(out) :
                    \/ out'[n] = out[n]
                    \/ \E j \in Flags(msg) : \E k \in 1 .. msg[j].bits : n = e[j - 1] + k
               /\ \A j \in (1 .. Len(msg)) \ Flags(msg) : \A n \in e[j - 1] + 1 .. e[j] : out'[n] = out[n]
<1> DEFINE e == Ends(msg, value)
           pick(n) == CHOOSE flag \in FlagsAt(n) : TRUE
<1>1. /\ phase = "encode" /\ i = Len(msg) + 1 /\ value # None /\ out \in Seq(BOOLEAN)
      /\ Len(out) = e[i - 1] /\ \A j \in 1 .. i - 1 : marks[j] = e[j - 1]
  BY DEF PatchFlags, WireInv, Valued, Encoded
<1>2. /\ Validated(msg) /\ msg \in Seq(Fields) /\ Len(msg) \in Nat
  BY <1>1, Accepted DEF IInv
<1>3. /\ \A j \in 1 .. Len(msg) : Wireable(msg[j], value[j])
      /\ \A n \in 1 .. Len(msg) : e[n] = e[n - 1] + Size(msg[n], value[n])
      /\ \A n \in 0 .. Len(msg) : e[n] \in Nat
      /\ \A n \in 0 .. Len(msg) : \A k \in 0 .. n : e[k] <= e[n]
  BY <1>1, ValueEnds DEF IInv, WireInv
<1>4. /\ DOMAIN out' = 1 .. Len(out)
      /\ \A n \in 1 .. Len(out) : FlagsAt(n) = {} => out'[n] = out[n]
      /\ \A n \in 1 .. Len(out) :
            FlagsAt(n) # {} => out'[n] = (n - marks[pick(n)] - 1 \in Patched(pick(n)))
  <2>1. out' = [n \in DOMAIN out |-> IF FlagsAt(n) = {} THEN out[n]
                                     ELSE n - marks[pick(n)] - 1 \in Patched(pick(n))]
    BY DEF PatchFlags, FlagsAt
  <2>2. DOMAIN out = 1 .. Len(out)
    BY <1>1
  <2> HIDE DEF pick
  <2> QED BY <2>1, <2>2, Zenon
<1>5. \A n : FlagsAt(n) # {} => pick(n) \in FlagsAt(n)
  OBVIOUS
<1> HIDE DEF pick, e
<1>6. ASSUME NEW j \in Flags(msg)
      PROVE  /\ j \in 1 .. Len(msg) /\ marks[j] = e[j - 1] /\ e[j] = e[j - 1] + msg[j].bits
             /\ msg[j].bits \in Nat \ {0}
             /\ j - 1 \in 0 .. Len(msg) /\ j \in 0 .. Len(msg) /\ e[j - 1] \in Nat /\ e[j] \in Nat
  <2>1. /\ j \in 1 .. Len(msg) /\ msg[j] \in Fields /\ Readable(msg[j])
        /\ msg[j].when.gate = "always" /\ msg[j].kind # "var"
    BY <1>2, FlagIs
  <2>2. Wireable(msg[j], value[j]) /\ value[j] # Absent
    BY <1>3, <2>1 DEF Wireable
  <2>3. Size(msg[j], value[j]) = GateBits(msg[j]) + msg[j].bits /\ msg[j].bits \in Nat \ {0}
    BY <2>1, <2>2, FieldBits
  <2>4. GateBits(msg[j]) = 0
    BY <2>1 DEF GateBits
  <2>5. j \in 1 .. i - 1 /\ j - 1 \in 0 .. Len(msg) /\ j \in 0 .. Len(msg)
    BY <1>1, <1>2, <2>1
  <2>6. e[j - 1] \in Nat /\ e[j] \in Nat /\ marks[j] = e[j - 1]
    BY <1>1, <1>3, <2>5
  <2>7. e[j] = e[j - 1] + msg[j].bits
    BY <1>3, <2>1, <2>3, <2>4
  <2> QED BY <2>1, <2>3, <2>5, <2>6, <2>7
<1>7. ASSUME NEW n \in Nat, NEW j \in Flags(msg)
      PROVE  j \in FlagsAt(n) <=> n \in e[j - 1] + 1 .. e[j]
  BY <1>6 DEF FlagsAt
<1>8. \A n : FlagsAt(n) \subseteq Flags(msg)
  BY DEF FlagsAt
<1>9. ASSUME NEW n \in Nat, NEW j \in 1 .. Len(msg), n \in e[j - 1] + 1 .. e[j],
             NEW g \in FlagsAt(n)
      PROVE  g = j
  <2>1. g \in Flags(msg) /\ g \in 1 .. Len(msg) /\ n \in e[g - 1] + 1 .. e[g]
    BY <1>6, <1>7, <1>8, <1>9
  <2>2. /\ e[j - 1] \in Nat /\ e[j] \in Nat /\ e[g - 1] \in Nat /\ e[g] \in Nat
        /\ g < j => e[g] <= e[j - 1]
        /\ j < g => e[j] <= e[g - 1]
    <3>1. /\ j \in 0 .. Len(msg) /\ j - 1 \in 0 .. Len(msg) /\ g \in 0 .. Len(msg) /\ g - 1 \in 0 .. Len(msg)
          /\ g < j => g \in 0 .. j - 1
          /\ j < g => j \in 0 .. g - 1
      BY <1>2, <2>1
    <3> QED BY <1>3, <3>1
  <2> QED BY <1>9, <2>1, <2>2
<1>10. ASSUME NEW j \in Flags(msg), NEW k \in 1 .. msg[j].bits
       PROVE  e[j - 1] + k \in 1 .. Len(out) /\ out'[e[j - 1] + k] = (k - 1 \in Carried(msg, value, j))
  <2> DEFINE n == e[j - 1] + k
  <2>1. n \in Nat /\ n \in e[j - 1] + 1 .. e[j] /\ j \in 1 .. Len(msg)
    BY <1>6
  <2>2. n \in 1 .. Len(out)
    <3>1. Len(out) = e[Len(msg)] /\ e[j] <= e[Len(msg)] /\ e[Len(msg)] \in Nat
      BY <1>1, <1>2, <1>3, <1>6
    <3> QED BY <1>6, <2>1, <3>1
  <2>3. pick(n) = j /\ FlagsAt(n) # {}
    BY <1>5, <1>7, <1>9, <2>1
  <2>4. n - marks[j] - 1 = k - 1
    BY <1>6
  <2> HIDE DEF n
  <2>5. out'[n] = (n - marks[pick(n)] - 1 \in Patched(pick(n)))
    BY <1>4, <2>2, <2>3, Zenon
  <2>6. out'[n] = (k - 1 \in Carried(msg, value, j))
    BY <2>3, <2>4, <2>5, PatchedIs, Zenon
  <2> QED BY <2>2, <2>6 DEF n
<1>11. ASSUME NEW n \in 1 .. Len(out), out'[n] # out[n]
       PROVE  \E j \in Flags(msg) : \E k \in 1 .. msg[j].bits : n = e[j - 1] + k
  <2>1. FlagsAt(n) # {}
    BY <1>4, <1>11
  <2>2. PICK j \in Flags(msg) : n \in e[j - 1] + 1 .. e[j]
    BY <1>7, <1>8, <2>1
  <2> DEFINE from == e[j - 1]
  <2>3. n - from \in 1 .. msg[j].bits /\ n = from + (n - from)
    <3>1. from \in Nat /\ e[j] = from + msg[j].bits /\ msg[j].bits \in Nat
      BY <1>6
    <3>2. n \in from + 1 .. e[j]
      BY <2>2
    <3> HIDE DEF from
    <3> QED BY <3>1, <3>2
  <2> QED BY <2>3
<1>12. out' \in Seq(BOOLEAN) /\ Len(out') = Len(out)
  <2>1. ASSUME NEW n \in 1 .. Len(out) PROVE out'[n] \in BOOLEAN
    <3>1. CASE out'[n] = out[n]
      BY <1>1, <3>1
    <3>2. CASE out'[n] # out[n]
      <4>1. PICK j \in Flags(msg) : \E k \in 1 .. msg[j].bits : n = e[j - 1] + k
        BY <1>11, <3>2
      <4>2. PICK k \in 1 .. msg[j].bits : n = e[j - 1] + k
        BY <4>1
      <4>3. out'[n] = (k - 1 \in Carried(msg, value, j))
        BY <1>10, <4>2
      <4>4. CASE k - 1 \in Carried(msg, value, j)
        BY <4>3, <4>4, Zenon
      <4>5. CASE k - 1 \notin Carried(msg, value, j)
        <5>1. (k - 1 \in Carried(msg, value, j)) = FALSE
          BY <4>5
        <5> QED BY <4>3, <5>1
      <4> QED BY <4>4, <4>5
    <3> QED BY <3>1, <3>2
  <2>2. out' = [n \in DOMAIN out' |-> out'[n]]
    BY DEF PatchFlags
  <2>3. out' \in [1 .. Len(out) -> BOOLEAN]
    BY <1>4, <2>1, <2>2
  <2>4. Len(out) \in Nat
    BY <1>1
  <2> QED BY <2>3, <2>4
<1>13. ASSUME NEW j \in (1 .. Len(msg)) \ Flags(msg), NEW n \in e[j - 1] + 1 .. e[j]
       PROVE  out'[n] = out[n]
  <2>1. n \in Nat /\ n \in 1 .. Len(out)
    <3>1. j \in 0 .. Len(msg) /\ j - 1 \in 0 .. Len(msg) /\ Len(msg) \in 0 .. Len(msg)
      BY <1>2
    <3>2. /\ e[j - 1] \in Nat /\ e[j] \in Nat /\ e[j] <= e[Len(msg)] /\ e[Len(msg)] \in Nat
          /\ Len(out) = e[Len(msg)]
      BY <1>1, <1>2, <1>3, <3>1
    <3> QED BY <3>2
  <2>2. FlagsAt(n) = {}
    BY <1>8, <1>9, <2>1
  <2> QED BY <1>4, <2>1, <2>2
<1>14. Len(out) = e[Len(msg)]
  BY <1>1, <1>2
<1> QED BY <1>1, <1>10, <1>11, <1>12, <1>13, <1>14 DEF e

LEMMA PatchKeepsWire == ASSUME IInv, WireInv, PatchFlags PROVE WireInv'
<1> DEFINE e == Ends(msg, value)
           c(j) == Carried(msg, value, j)
<1>1. /\ phase = "encode" /\ phase' = "sent" /\ i = Len(msg) + 1 /\ value # None
      /\ msg' = msg /\ value' = value /\ cap' = cap /\ origin' = origin
  BY DEF PatchFlags, WireInv, Valued
<1>2. /\ Validated(msg) /\ msg \in Seq(Fields) /\ Len(msg) \in Nat \ {0} /\ DOMAIN msg = 1 .. Len(msg)
      /\ \A j \in 1 .. Len(msg) : msg[j] \in Fields /\ Readable(msg[j])
  BY <1>1, Accepted DEF IInv
<1>3. /\ \A j \in 1 .. Len(msg) : Wireable(msg[j], value[j]) /\ Size(msg[j], value[j]) \in Nat
      /\ \A n \in 1 .. Len(msg) : e[n] = e[n - 1] + Size(msg[n], value[n])
      /\ \A n \in 0 .. Len(msg) : e[n] \in Nat
      /\ \A n \in 0 .. Len(msg) : \A k \in 0 .. n : e[k] <= e[n]
  BY <1>1, ValueEnds DEF IInv, WireInv
<1>4. /\ out' \in Seq(BOOLEAN) /\ Len(out') = Len(out) /\ Len(out) = e[Len(msg)]
      /\ \A j \in Flags(msg) : \A k \in 1 .. msg[j].bits :
            e[j - 1] + k \in 1 .. Len(out) /\ out'[e[j - 1] + k] = (k - 1 \in c(j))
      /\ \A n \in 1 .. Len(out) :
            \/ out'[n] = out[n]
            \/ \E j \in Flags(msg) : \E k \in 1 .. msg[j].bits : n = e[j - 1] + k
      /\ \A j \in (1 .. Len(msg)) \ Flags(msg) : \A n \in e[j - 1] + 1 .. e[j] : out'[n] = out[n]
  BY PatchWrites
<1>5. /\ out \in Seq(BOOLEAN) /\ Len(out) <= W * cap
      /\ \A j \in 1 .. Len(msg) : Lies(msg[j], value[j], out, e[j - 1]) /\ CanLie(msg[j], value[j])
      /\ origin # None => \A n \in 1 .. Len(out) : out[n] = origin[n]
  <2>1. i - 1 = Len(msg)
    BY <1>1, <1>2
  <2> QED BY <1>1, <2>1 DEF WireInv, Encoded
<1>6. ASSUME NEW j \in 1 .. Len(msg)
      PROVE  /\ j - 1 \in 0 .. Len(msg) /\ e[j - 1] \in Nat /\ e[j] \in Nat /\ e[j] <= Len(out) /\ Len(out) \in Nat
             /\ e[j] = e[j - 1] + Size(msg[j], value[j]) /\ Size(msg[j], value[j]) \in Nat
  <2>1. j - 1 \in 0 .. Len(msg) /\ j \in 0 .. Len(msg) /\ Len(msg) \in 0 .. Len(msg)
    BY <1>2
  <2> QED BY <1>3, <1>4, <2>1
<1>7. ASSUME NEW j \in Flags(msg)
      PROVE  /\ j \in 1 .. Len(msg) /\ msg[j].when.gate = "always" /\ msg[j].kind # "var"
             /\ GateBits(msg[j]) = 0 /\ value[j] # Absent /\ value[j] \subseteq Nat /\ c(j) # Absent
             /\ Wireable(msg[j], c(j)) /\ Size(msg[j], c(j)) = msg[j].bits
             /\ Coded(msg[j], c(j)) = [k \in 1 .. msg[j].bits |-> k - 1 \in c(j)]
             /\ Len(Coded(msg[j], c(j))) = msg[j].bits /\ msg[j].bits \in Nat \ {0}
             /\ Coded(msg[j], value[j]) = [k \in 1 .. msg[j].bits |-> k - 1 \in value[j]]
             /\ Len(Coded(msg[j], value[j])) = msg[j].bits
  <2>1. j \in 1 .. Len(msg) /\ msg[j].when.gate = "always" /\ msg[j].kind # "var" /\ GateBits(msg[j]) = 0
    BY <1>2, FlagIs DEF GateBits
  <2>2. /\ Wireable(msg[j], c(j)) /\ value[j] # Absent /\ value[j] \subseteq Nat /\ c(j) # Absent
        /\ Wireable(msg[j], value[j]) /\ msg[j] \in Fields /\ Readable(msg[j])
    BY <1>2, <1>3, <2>1, CarriedFits
  <2> HIDE DEF c
  <2>3. /\ Size(msg[j], c(j)) = GateBits(msg[j]) + Len(Coded(msg[j], c(j)))
        /\ Coded(msg[j], c(j)) = [k \in 1 .. msg[j].bits |-> k - 1 \in c(j)]
        /\ Len(Coded(msg[j], c(j))) = msg[j].bits /\ msg[j].bits \in Nat \ {0}
    BY <2>1, <2>2, FieldBits
  <2>4. /\ Coded(msg[j], value[j]) = [k \in 1 .. msg[j].bits |-> k - 1 \in value[j]]
        /\ Len(Coded(msg[j], value[j])) = msg[j].bits
    BY <2>1, <2>2, FieldBits
  <2>5. Size(msg[j], c(j)) = msg[j].bits
    BY <2>1, <2>3
  <2> QED BY <2>1, <2>2, <2>3, <2>4, <2>5
<1> HIDE DEF e, c
<1>8. ASSUME NEW j \in 1 .. Len(msg) PROVE Lies(msg[j], c(j), out', e[j - 1])
  <2>1. CASE j \notin Flags(msg)
    <3>1. c(j) = value[j]
      BY <2>1 DEF c, Carried
    <3>2. \A n \in e[j - 1] + 1 .. e[j - 1] + Size(msg[j], value[j]) : out'[n] = out[n]
      BY <1>4, <1>6, <2>1
    <3>3. e[j - 1] + Size(msg[j], value[j]) <= Len(out') /\ Len(out') \in Nat /\ e[j - 1] \in Nat
      BY <1>4, <1>6
    <3>4. /\ msg[j] \in Fields /\ Readable(msg[j]) /\ Wireable(msg[j], value[j])
          /\ Lies(msg[j], value[j], out, e[j - 1])
      BY <1>2, <1>3, <1>5
    <3>5. Lies(msg[j], value[j], out', e[j - 1])
      BY <3>2, <3>3, <3>4, LiesSame
    <3> QED BY <3>1, <3>5
  <2>2. CASE j \in Flags(msg)
    <3>1. /\ Size(msg[j], c(j)) = msg[j].bits /\ GateBits(msg[j]) = 0 /\ msg[j].when.gate # "present"
          /\ Len(Coded(msg[j], c(j))) = msg[j].bits /\ msg[j].bits \in Nat \ {0}
          /\ Coded(msg[j], c(j)) = [k \in 1 .. msg[j].bits |-> k - 1 \in c(j)]
      BY <1>7, <2>2
    <3>2. e[j - 1] + Size(msg[j], c(j)) <= Len(out')
      <4>1. msg[j].bits \in 1 .. msg[j].bits
        BY <3>1
      <4>2. e[j - 1] + msg[j].bits \in 1 .. Len(out)
        BY <1>4, <2>2, <4>1
      <4>3. Len(out) \in Nat /\ e[j - 1] \in Nat
        BY <1>6
      <4> QED BY <1>4, <3>1, <4>2, <4>3
    <3>3. ASSUME NEW k \in 1 .. Len(Coded(msg[j], c(j)))
          PROVE  out'[e[j - 1] + GateBits(msg[j]) + k] = Coded(msg[j], c(j))[k]
      <4>1. k \in 1 .. msg[j].bits /\ e[j - 1] + GateBits(msg[j]) + k = e[j - 1] + k
        BY <1>6, <3>1
      <4>2. out'[e[j - 1] + k] = (k - 1 \in c(j))
        BY <1>4, <2>2, <4>1
      <4>3. Coded(msg[j], c(j))[k] = (k - 1 \in c(j))
        BY <3>1, <4>1, Zenon
      <4> QED BY <4>1, <4>2, <4>3, Zenon
    <3> QED BY <3>1, <3>2, <3>3 DEF Lies
  <2> QED BY <2>1, <2>2
<1>9. ASSUME origin # None, OneBitGates PROVE out' = SubSeq(origin, 1, Len(out'))
  <2>1. /\ origin \in Seq(BOOLEAN)
        /\ \A j \in 1 .. Len(msg) : Lies(msg[j], value[j], origin, e[j - 1]) /\ Agrees(msg, value, j)
    BY <1>1, <1>9 DEF WireInv, FromWire, e
  <2>2. Len(out) <= Len(origin) /\ Len(origin) \in Nat
    <3>1. Len(msg) \in 1 .. Len(msg)
      BY <1>2
    <3>2. e[Len(msg) - 1] + Size(msg[Len(msg)], value[Len(msg)]) <= Len(origin)
      BY <2>1, <3>1 DEF Lies
    <3> QED BY <1>4, <1>6, <2>1, <3>1, <3>2
  <2>3. ASSUME NEW n \in 1 .. Len(out), out'[n] # out[n] PROVE FALSE
    <3>1. PICK j \in Flags(msg) : \E k \in 1 .. msg[j].bits : n = e[j - 1] + k
      BY <1>4, <2>3
    <3>2. PICK k \in 1 .. msg[j].bits : n = e[j - 1] + k
      BY <3>1
    <3>3. out'[n] = (k - 1 \in c(j))
      BY <1>4, <3>2
    <3>4. out[n] = (k - 1 \in value[j])
      <4>1. Lies(msg[j], value[j], out, e[j - 1]) /\ value[j] # Absent /\ GateBits(msg[j]) = 0
        BY <1>5, <1>7
      <4>2. k \in 1 .. Len(Coded(msg[j], value[j])) /\ e[j - 1] + GateBits(msg[j]) + k = n
        <5>1. /\ Len(Coded(msg[j], value[j])) = msg[j].bits /\ msg[j].bits \in Nat
              /\ GateBits(msg[j]) = 0 /\ e[j - 1] \in Nat
          BY <1>6, <1>7
        <5> QED BY <3>2, <5>1
      <4>3. out[n] = Coded(msg[j], value[j])[k]
        BY <4>1, <4>2 DEF Lies
      <4>4. Coded(msg[j], value[j])[k] = (k - 1 \in value[j])
        BY <1>7, Zenon
      <4> QED BY <4>3, <4>4, Zenon
    <3>5. \A b : b \in c(j) <=> b \in value[j]
      <4>1. ASSUME NEW g \in Governs(msg, j)
            PROVE  Cardinality(msg[g].when.mask) <= 1 /\ Agrees(msg, value, g)
        <5>1. g \in 1 .. Len(msg)
          BY <1>2, FlagIs
        <5> QED BY <1>2, <1>9, <2>1, <5>1 DEF OneBitGates
      <4> QED BY <1>2, <1>7, <4>1, CarriedIsKept DEF c
    <3>6. (k - 1 \in c(j)) <=> (k - 1 \in value[j])
      BY <3>5
    <3>7. CASE k - 1 \in c(j)
      BY <2>3, <3>3, <3>4, <3>6, <3>7, Zenon
    <3>8. CASE k - 1 \notin c(j)
      <4>1. (k - 1 \in c(j)) = FALSE /\ (k - 1 \in value[j]) = FALSE
        BY <3>6, <3>8
      <4> QED BY <2>3, <3>3, <3>4, <4>1
    <3> QED BY <3>7, <3>8
  <2>4. \A n \in 1 .. Len(out) : out'[n] = origin[n]
    BY <1>5, <1>9, <2>3
  <2> DEFINE s == SubSeq(origin, 1, Len(out'))
  <2>5. s \in Seq(BOOLEAN) /\ Len(s) = Len(out') /\ \A n \in 1 .. Len(out') : s[n] = origin[n]
    <3>1. Len(out') \in Nat /\ Len(out') <= Len(origin)
      BY <1>4, <2>2
    <3> QED BY <2>1, <2>2, <3>1
  <2> HIDE DEF s
  <2>6. out' = s
    BY <1>4, <2>4, <2>5
  <2> QED BY <2>6 DEF s
<1>10. Laid'
  <2>1. out' \in Seq(BOOLEAN) /\ Len(out') = Ends(msg', value')[Len(msg')] /\ Len(out') <= W * cap'
    BY <1>1, <1>4, <1>5 DEF e
  <2>2. \A j \in 1 .. Len(msg') :
            /\ Lies(msg'[j], Carried(msg', value', j), out', Ends(msg', value')[j - 1])
            /\ CanLie(msg'[j], value'[j])
    BY <1>1, <1>5, <1>8 DEF e, c
  <2>3. OneBitGates' => OneBitGates
    BY <1>1 DEF OneBitGates
  <2> QED BY <1>1, <1>9, <2>1, <2>2, <2>3 DEF Laid
<1>11. Valued' /\ FromWire'
  BY <1>1 DEF WireInv, Valued, FromWire
<1>12. Untouched' /\ First' /\ Encoded' /\ Restored' /\ Overflowed'
  BY <1>1 DEF Untouched, First, Encoded, Restored, Overflowed
<1> QED BY <1>10, <1>11, <1>12 DEF WireInv

----------------------------------------------------------------------------
(* A code stands where its bits are, and one at most stands at a place.    *)
LEMMA StandsIs ==
    ASSUME NEW code \in Seq(BOOLEAN), NEW s \in Seq(BOOLEAN), NEW p \in Nat
    PROVE  Stands(code, s, p) <=> /\ p + Len(code) <= Len(s)
                                  /\ \A n \in 1 .. Len(code) : s[p + n] = code[n]
<1> DEFINE sub == SubSeq(s, p + 1, p + Len(code))
<1> SUFFICES ASSUME p + Len(code) <= Len(s)
             PROVE  sub = code <=> \A n \in 1 .. Len(code) : s[p + n] = code[n]
  BY DEF Stands
<1>1. /\ sub \in Seq(BOOLEAN) /\ Len(sub) = Len(code)
      /\ \A n \in 1 .. Len(code) : sub[n] = s[p + n]
  <2>1. Len(code) \in Nat /\ Len(s) \in Nat
    OBVIOUS
  <2>2. sub = [n \in 1 .. Len(code) |-> s[p + n]]
    <3>1. sub = [n \in 1 .. (p + Len(code)) - (p + 1) + 1 |-> s[p + 1 + n - 1]]
      BY <2>1
    <3>2. (p + Len(code)) - (p + 1) + 1 = Len(code)
      BY <2>1
    <3>3. \A n \in 1 .. Len(code) : p + 1 + n - 1 = p + n
      BY <2>1
    <3> QED BY <3>1, <3>2, <3>3
  <2>3. \A n \in 1 .. Len(code) : s[p + n] \in BOOLEAN
    BY <2>1
  <2> HIDE DEF sub
  <2>4. sub \in [1 .. Len(code) -> BOOLEAN]
    BY <2>2, <2>3
  <2> QED BY <2>1, <2>2, <2>4
<1> HIDE DEF sub
<1>2. ASSUME \A n \in 1 .. Len(code) : sub[n] = code[n] PROVE sub = code
  BY <1>1, <1>2
<1> QED BY <1>1, <1>2

(* The k-th code is the bits after p, as far as the g-th is long.          *)
Matches(k, g, s, p) == \A n \in 1 .. Len(Codes[k]) : n <= Len(Codes[g]) => s[p + n] = Codes[k][n]

LEMMA StandsOnce ==
    ASSUME NEW k \in DOMAIN Codes, NEW g \in DOMAIN Codes, NEW s, NEW p \in Nat,
           Matches(k, g, s, p), Matches(g, k, s, p)
    PROVE  k = g
<1>1. Codes[k] \in Seq(BOOLEAN) /\ Codes[g] \in Seq(BOOLEAN)
  BY BitMessageAssumption
<1>2. Len(Codes[k]) \in Nat /\ Len(Codes[g]) \in Nat
  BY <1>1
<1>3. CASE Len(Codes[k]) <= Len(Codes[g])
  <2>1. \A n \in 1 .. Len(Codes[k]) : Codes[g][0 + n] = Codes[k][n]
    BY <1>2, <1>3 DEF Matches
  <2>2. 0 \in Nat /\ 0 + Len(Codes[k]) <= Len(Codes[g])
    BY <1>2, <1>3
  <2>3. Stands(Codes[k], Codes[g], 0)
    BY <1>1, <2>1, <2>2, StandsIs, Zenon
  <2> QED BY <2>3, BitMessageAssumption
<1>4. CASE Len(Codes[g]) <= Len(Codes[k])
  <2>1. \A n \in 1 .. Len(Codes[g]) : Codes[k][0 + n] = Codes[g][n]
    BY <1>2, <1>4 DEF Matches
  <2>2. 0 \in Nat /\ 0 + Len(Codes[g]) <= Len(Codes[k])
    BY <1>2, <1>4
  <2>3. Stands(Codes[g], Codes[k], 0)
    BY <1>1, <2>1, <2>2, StandsIs, Zenon
  <2> QED BY <2>3, BitMessageAssumption
<1> QED BY <1>2, <1>3, <1>4

----------------------------------------------------------------------------
(* The message arrives as it was sent, longer, or cut.                     *)
LEMMA ArrivesKeepsWire == ASSUME IInv, WireInv, Arrives PROVE WireInv'
<1>1. /\ phase = "sent" /\ phase' = "decode" /\ i' = 1 /\ at' = 0 /\ read' = <<>> /\ value # None
      /\ msg' = msg /\ value' = value /\ cap' = cap /\ out' = out /\ marks' = marks /\ origin' = origin
  BY DEF Arrives, table, WireInv, Valued
<1>2. /\ Laid' /\ out \in Seq(BOOLEAN)
  <2>1. OneBitGates' => OneBitGates
    BY <1>1 DEF OneBitGates
  <2> QED BY <1>1, <2>1 DEF WireInv, Laid
<1>3. /\ Sent \in Seq(BOOLEAN) /\ Len(Sent) \in Nat /\ Len(out) <= Len(Sent)
      /\ Len(Sent) > 0 => W <= Len(Sent)
      /\ \A n \in 1 .. Len(out) : Sent[n] = out[n]
  BY <1>2, SentHoldsOut
<1>4. W \in Nat
  BY BitMessageAssumption
<1>5. body' \in Seq(BOOLEAN) /\ \A n \in 1 .. Len(body') : n <= Len(out) => body'[n] = out[n]
  <2>1. CASE body' = Sent
    BY <1>2, <1>3, <2>1
  <2>2. CASE body' = Sent \o [k \in 1 .. W |-> TRUE]
    <3> DEFINE more == [k \in 1 .. W |-> TRUE]
    <3>1. more \in Seq(BOOLEAN)
      BY <1>4
    <3> HIDE DEF more
    <3>2. Sent \o more \in Seq(BOOLEAN) /\ \A n \in 1 .. Len(Sent) : (Sent \o more)[n] = Sent[n]
      BY <1>3, <3>1
    <3>3. body' = Sent \o more
      BY <2>2 DEF more
    <3> QED BY <1>2, <1>3, <3>2, <3>3
  <2>3. CASE Len(Sent) > 0 /\ body' = SubSeq(Sent, 1, Len(Sent) - W)
    <3> DEFINE s == Sent
               k == Len(s) - W
    <3>1. s \in Seq(BOOLEAN) /\ k \in Nat /\ k <= Len(s) /\ Len(s) \in Nat
      BY <1>3, <1>4, <2>3
    <3> HIDE DEF s, k
    <3>2. /\ SubSeq(s, 1, k) \in Seq(BOOLEAN) /\ Len(SubSeq(s, 1, k)) = k
          /\ \A n \in 1 .. k : SubSeq(s, 1, k)[n] = s[n]
      BY <3>1
    <3>3. body' = SubSeq(s, 1, k)
      BY <2>3 DEF s, k
    <3>4. \A n \in 1 .. k : n <= Len(out) => s[n] = out[n]
      BY <1>2, <1>3 DEF s
    <3> QED BY <3>2, <3>3, <3>4
  <2> QED BY <2>1, <2>2, <2>3 DEF Arrives
<1>6. Ends(msg, value)[0] = 0 /\ Len(msg) \in Nat
  BY <1>1, ValueEnds, Accepted DEF IInv, WireInv
<1>7. Restored'
  <2>1. <<>> \in Seq(SUBSET Int) /\ Len(<<>>) = 0
    OBVIOUS
  <2> QED BY <1>1, <1>5, <1>6, <2>1 DEF Restored
<1>8. Valued' /\ FromWire'
  BY <1>1 DEF WireInv, Valued, FromWire
<1>9. Untouched' /\ First' /\ Encoded' /\ Overflowed'
  BY <1>1 DEF Untouched, First, Encoded, Overflowed
<1> QED BY <1>2, <1>7, <1>8, <1>9 DEF WireInv

----------------------------------------------------------------------------
(* Decoding again: what the flags and the presence bits say is there, and  *)
(* what each field's bits are.                                             *)
LEMMA AgainAt ==
    ASSUME IInv, WireInv, Decoding, value # None
    PROVE  LET e == Ends(msg, value)
           IN  /\ i \in 1 .. Len(msg) /\ field = msg[i] /\ field \in Fields /\ Readable(field)
               /\ Validated(msg) /\ msg \in Seq(Fields) /\ Len(msg) \in Nat /\ Len(read) = i - 1
               /\ read \in Seq(SUBSET Int) /\ \A j \in 1 .. i - 1 : read[j] = Back(msg, value, j)
               /\ \A j \in 1 .. Len(msg) : Wireable(msg[j], value[j])
               /\ Sound(field, value[i]) /\ CanLie(field, value[i])
               /\ at = e[i - 1] /\ at \in Nat /\ e[i] \in Nat /\ e[i] = at + Size(field, value[i])
               /\ e[i] <= Len(out) /\ Len(out) \in Nat
               /\ out \in Seq(BOOLEAN) /\ body \in Seq(BOOLEAN)
               /\ \A n \in 1 .. Len(body) : n <= Len(out) => body[n] = out[n]
               /\ Wireable(field, Carried(msg, value, i))
               /\ Size(field, Carried(msg, value, i)) = Size(field, value[i])
               /\ Lies(field, Carried(msg, value, i), out, at)
<1> DEFINE e == Ends(msg, value)
<1>1. /\ phase = "decode" /\ i \in Nat \ {0} /\ i <= Len(msg) /\ field = msg[i]
  BY DEF Decoding, IInv, Typed, field
<1>2. /\ i \in 1 .. Len(msg) /\ Len(msg) \in Nat /\ field \in Fields /\ Readable(field)
      /\ Validated(msg) /\ msg \in Seq(Fields)
  BY <1>1, Accepted DEF IInv
<1>3. /\ \A j \in 1 .. Len(msg) : Sound(msg[j], value[j]) /\ Wireable(msg[j], value[j])
      /\ \A n \in 1 .. Len(msg) : e[n] = e[n - 1] + Size(msg[n], value[n])
      /\ \A n \in 0 .. Len(msg) : e[n] \in Nat
      /\ \A n \in 0 .. Len(msg) : \A k \in 0 .. n : e[k] <= e[n]
  BY ValueEnds DEF IInv, WireInv
<1>4. /\ out \in Seq(BOOLEAN) /\ Len(out) = e[Len(msg)] /\ CanLie(field, value[i])
      /\ Lies(field, Carried(msg, value, i), out, e[i - 1])
  BY <1>1, <1>2 DEF WireInv, Laid
<1>5. /\ body \in Seq(BOOLEAN) /\ Len(read) = i - 1 /\ at = e[i - 1]
      /\ \A n \in 1 .. Len(body) : n <= Len(out) => body[n] = out[n]
      /\ read \in Seq(SUBSET Int) /\ \A j \in 1 .. i - 1 : read[j] = Back(msg, value, j)
  BY <1>1 DEF WireInv, Restored
<1>6. /\ e[i - 1] \in Nat /\ e[i] \in Nat /\ e[i] <= e[Len(msg)] /\ e[Len(msg)] \in Nat
      /\ e[i] = e[i - 1] + Size(field, value[i])
  <2>1. i - 1 \in 0 .. Len(msg) /\ i \in 0 .. Len(msg) /\ Len(msg) \in 0 .. Len(msg)
    BY <1>2
  <2> QED BY <1>1, <1>2, <1>3, <2>1
<1>7. /\ Wireable(field, Carried(msg, value, i))
      /\ Size(field, Carried(msg, value, i)) = Size(field, value[i])
  BY <1>1, <1>2, <1>3, CarriedFits
<1> HIDE DEF e
<1>8. Sound(field, value[i]) /\ \A j \in 1 .. Len(msg) : Wireable(msg[j], value[j])
  BY <1>1, <1>2, <1>3
<1> QED BY <1>1, <1>2, <1>4, <1>5, <1>6, <1>7, <1>8 DEF e

LEMMA GatedIs ==
    ASSUME IInv, WireInv, Decoding, value # None, Own <= Len(body)
    PROVE  Gated <=> value[i] # Absent
<1>1. /\ i \in 1 .. Len(msg) /\ field = msg[i] /\ field \in Fields /\ Readable(field)
      /\ Validated(msg) /\ msg \in Seq(Fields) /\ Len(msg) \in Nat /\ Len(read) = i - 1
      /\ \A j \in 1 .. i - 1 : read[j] = Back(msg, value, j)
      /\ \A j \in 1 .. Len(msg) : Wireable(msg[j], value[j])
      /\ at \in Nat /\ Len(out) \in Nat /\ body \in Seq(BOOLEAN)
      /\ \A n \in 1 .. Len(body) : n <= Len(out) => body[n] = out[n]
      /\ Wireable(field, Carried(msg, value, i))
      /\ Lies(field, Carried(msg, value, i), out, at)
  BY AgainAt
<1>2. CASE field.when.gate = "always"
  <2>1. Gated
    BY <1>2, Zenon DEF Gated
  <2>2. value[i] # Absent
    BY <1>1, <1>2 DEF Wireable
  <2> QED BY <2>1, <2>2
<1>3. ASSUME field.when.gate # "always" PROVE Carried(msg, value, i) = value[i]
  <2>1. i \notin Flags(msg)
    BY <1>1, <1>3, FlagIs
  <2> QED BY <2>1 DEF Carried
<1>4. CASE field.when.gate = "present"
  <2>1. Carried(msg, value, i) = value[i]
    BY <1>3, <1>4
  <2>2. GateBits(field) = 1 /\ at + 1 <= Len(body)
    BY <1>4 DEF GateBits, Own
  <2>3. Gated <=> body[at + 1]
    <3>1. Gated <=> Bit(at + 1)
      BY <1>4, Zenon DEF Gated
    <3> QED BY <2>2, <3>1 DEF Bit
  <2>4. at + 1 <= Len(out)
    <3>1. Size(field, value[i]) \in Nat /\ Size(field, value[i]) >= 1
      BY <1>1, <2>1, <2>2, FieldBits
    <3>2. at + Size(field, value[i]) <= Len(out)
      BY <1>1, <2>1 DEF Lies
    <3> QED BY <1>1, <3>1, <3>2
  <2>5. body[at + 1] = out[at + 1]
    <3>1. at + 1 \in 1 .. Len(body)
      BY <1>1, <2>2
    <3> QED BY <1>1, <2>4, <3>1
  <2>6. out[at + 1] = (value[i] # Absent)
    BY <1>1, <1>4, <2>1 DEF Lies
  <2>7. body[at + 1] = (value[i] # Absent)
    BY <2>5, <2>6, Zenon
  <2> QED BY <2>3, <2>7, Zenon
<1>5. CASE field.when.gate = "mask"
  <2> DEFINE j == field.when.flag
  <2>1. j \in 1 .. i - 1 /\ j \in 1 .. Len(msg) /\ i \in Governs(msg, j) /\ j \in Flags(msg)
    <3>1. FlagOk(msg, i)
      BY <1>1 DEF Validated
    <3>2. j \in 1 .. i - 1
      BY <1>1, <1>5, <3>1 DEF FlagOk
    <3>3. i \in Governs(msg, j)
      BY <1>1, <1>5 DEF Governs
    <3>4. j \in 1 .. Len(msg)
      BY <1>1, <3>2
    <3> QED BY <1>1, <3>2, <3>3, <3>4 DEF Flags
  <2>2. Gated <=> Flagged
    BY <1>5, Zenon DEF Gated
  <2>3. value[j] \subseteq Nat
    <3>1. Wireable(msg[j], value[j])
      BY <1>1, <2>1
    <3> QED BY <1>1, <2>1, <3>1, CarriedFits
  <2>4. value[i] # Absent <=> ((Back(msg, value, j) \cap field.when.mask # {}) <=> field.when.set)
    BY <1>1, <2>1, <2>3, BackIs
  <2>5. read[j] = Back(msg, value, j)
    BY <1>1, <2>1
  <2> QED BY <2>2, <2>4, <2>5 DEF Flagged
<1>6. field.when.gate \in {"always", "present", "mask"}
  <2>1. field.when \in Whens
    BY <1>1 DEF Fields
  <2> QED BY <2>1 DEF Whens
<1> QED BY <1>2, <1>4, <1>5, <1>6

(* The code of a variable field is found, once its bits are all there, and *)
(* no other is.                                                            *)
LEMMA StandingIs ==
    ASSUME IInv, WireInv, Decoding, value # None, field.kind = "var", value[i] # Absent
    PROVE  /\ Ends(msg, value)[i] <= Len(body) => Standing # {}
           /\ Standing # {} => Standing = value[i]
<1> DEFINE len(k) == Len(Codes[k])
<1>1. /\ i \in 1 .. Len(msg) /\ field = msg[i] /\ field \in Fields /\ Readable(field)
      /\ Validated(msg) /\ msg \in Seq(Fields) /\ Len(msg) \in Nat
      /\ Wireable(field, value[i])
      /\ at \in Nat /\ Len(out) \in Nat /\ body \in Seq(BOOLEAN)
      /\ Ends(msg, value)[i] = at + Size(field, value[i])
      /\ \A n \in 1 .. Len(body) : n <= Len(out) => body[n] = out[n]
      /\ Lies(field, Carried(msg, value, i), out, at)
  BY AgainAt DEF Sound
<1>2. PICK k \in DOMAIN Codes : value[i] = {k}
  BY <1>1 DEF Wireable
<1>3. Coded(field, value[i]) = Codes[k]
  BY <1>2 DEF Coded
<1>4. Carried(msg, value, i) = value[i]
  <2>1. i \notin Flags(msg)
    BY <1>1, FlagIs
  <2> QED BY <2>1 DEF Carried
<1>5. \A g \in DOMAIN Codes : Codes[g] \in Seq(BOOLEAN) /\ len(g) \in Nat
  BY BitMessageAssumption
<1>6. /\ GateBits(field) \in {0, 1} /\ Own \in Nat /\ Own = at + GateBits(field)
      /\ Size(field, value[i]) = GateBits(field) + len(k)
  BY <1>1, <1>3, FieldBits DEF Own
<1>7. /\ Own + len(k) <= Len(out) /\ Own + len(k) = Ends(msg, value)[i]
      /\ \A n \in 1 .. len(k) : out[Own + n] = Codes[k][n]
  <2>1. at + Size(field, value[i]) <= Len(out)
    BY <1>1, <1>4 DEF Lies
  <2>2. \A n \in 1 .. len(k) : out[at + GateBits(field) + n] = Codes[k][n]
    BY <1>1, <1>3, <1>4 DEF Lies
  <2>3. Own + len(k) = at + Size(field, value[i])
    BY <1>1, <1>2, <1>5, <1>6
  <2> QED BY <1>1, <1>6, <2>1, <2>2, <2>3
<1>8. ASSUME NEW n \in 1 .. len(k), Own + n <= Len(body) PROVE body[Own + n] = Codes[k][n]
  <2>1. Own + n \in 1 .. Len(body) /\ Own + n <= Len(out)
    BY <1>1, <1>2, <1>5, <1>6, <1>7, <1>8
  <2> QED BY <1>1, <1>7, <2>1
<1>9. ASSUME Ends(msg, value)[i] <= Len(body) PROVE k \in Standing
  <2>1. \A n \in 1 .. len(k) : Own + n <= Len(body)
    BY <1>1, <1>2, <1>5, <1>6, <1>7, <1>9
  <2>2. Stands(Codes[k], body, Own)
    BY <1>1, <1>2, <1>5, <1>6, <1>7, <1>8, <1>9, <2>1, StandsIs
  <2> QED BY <1>2, <2>2 DEF Standing
<1>10. ASSUME NEW g \in Standing PROVE g = k
  <2>1. g \in DOMAIN Codes /\ Stands(Codes[g], body, Own)
    BY DEF Standing
  <2>2. Own + len(g) <= Len(body) /\ \A n \in 1 .. len(g) : body[Own + n] = Codes[g][n]
    BY <1>1, <1>5, <1>6, <2>1, StandsIs
  <2>3. ASSUME NEW n \in 1 .. len(k), n <= len(g) PROVE body[Own + n] = Codes[k][n]
    <3>1. Own + n <= Len(body)
      BY <1>1, <1>2, <1>5, <1>6, <2>1, <2>2, <2>3
    <3> QED BY <1>8, <3>1
  <2>4. Matches(k, g, body, Own) /\ Matches(g, k, body, Own)
    BY <2>2, <2>3 DEF Matches
  <2> QED BY <1>2, <1>6, <2>1, <2>4, StandsOnce
<1>11. Standing # {} => Standing = {k}
  BY <1>10
<1> QED BY <1>2, <1>9, <1>11

LEMMA AgainReads ==
    ASSUME IInv, WireInv, Decoding, value # None, Ends(msg, value)[i] <= Len(body)
    PROVE  Reads
<1> DEFINE v == value[i]
<1>1. /\ i \in 1 .. Len(msg) /\ field \in Fields /\ Readable(field) /\ Wireable(field, v)
      /\ at \in Nat /\ body \in Seq(BOOLEAN)
      /\ Ends(msg, value)[i] = at + Size(field, v) /\ Ends(msg, value)[i] \in Nat
  BY AgainAt DEF Sound
<1> HIDE DEF v
<1>2. /\ GateBits(field) \in {0, 1} /\ Size(field, v) \in Nat
      /\ v = Absent => Size(field, v) = GateBits(field)
      /\ v # Absent => Len(Coded(field, v)) \in Nat /\ Size(field, v) = GateBits(field) + Len(Coded(field, v))
      /\ field.kind # "var" => Len(Coded(field, v)) = field.bits /\ field.bits \in Nat
  BY <1>1, FieldBits
<1>3. Own = at + GateBits(field)
  BY DEF Own
<1>4. Own <= Len(body)
  <2>1. Len(body) \in Nat /\ at + Size(field, v) <= Len(body)
    BY <1>1
  <2>2. Size(field, v) >= GateBits(field)
    BY <1>2
  <2> QED BY <1>1, <1>2, <1>3, <2>1, <2>2
<1>5. Gated <=> v # Absent
  BY <1>4, GatedIs DEF v
<1>6. CASE ~Gated
  BY <1>4, <1>6 DEF Reads
<1>7. CASE Gated /\ field.kind = "var"
  <2>1. Standing # {}
    BY <1>5, <1>7, StandingIs DEF v
  <2> QED BY <1>4, <1>7, <2>1 DEF Reads
<1>8. CASE Gated /\ field.kind # "var"
  <2>1. Own + field.bits = Ends(msg, value)[i]
    BY <1>1, <1>2, <1>3, <1>5, <1>8
  <2> QED BY <1>4, <1>8, <2>1 DEF Reads
<1> QED BY <1>6, <1>7, <1>8

LEMMA DecodeShortKeepsWire == ASSUME IInv, WireInv, DecodeShort PROVE WireInv'
<1>1. /\ Decoding /\ ~Reads /\ phase = "decode" /\ phase' = "short"
      /\ msg' = msg /\ value' = value /\ cap' = cap /\ out' = out /\ body' = body /\ origin' = origin
      /\ at' = at /\ read' = read /\ met' = met
  BY DEF DecodeShort, Decoding
<1>2. ASSUME value # None PROVE Len(body) < Len(Sent)
  <2>1. /\ Len(out) \in Nat /\ out \in Seq(BOOLEAN) /\ body \in Seq(BOOLEAN)
        /\ Ends(msg, value)[i] \in Nat /\ Ends(msg, value)[i] <= Len(out)
    BY <1>1, <1>2, AgainAt
  <2>2. Len(Sent) \in Nat /\ Len(out) <= Len(Sent)
    BY <2>1, SentHoldsOut
  <2>3. ~(Ends(msg, value)[i] <= Len(body))
    BY <1>1, <1>2, AgainReads
  <2>4. Len(body) \in Nat
    BY <2>1
  <2> DEFINE n == Len(Sent)
             k == Ends(msg, value)[i]
  <2>5. n \in Nat /\ k \in Nat /\ k <= Len(out) /\ Len(out) <= n /\ ~(k <= Len(body))
    BY <2>1, <2>2, <2>3
  <2> HIDE DEF n, k
  <2>6. Len(body) < n
    BY <2>1, <2>4, <2>5
  <2> QED BY <2>6 DEF n
<1>3. Sent' = Sent
  BY <1>1 DEF Sent, Bytes
<1>4. Restored'
  BY <1>1, <1>2, <1>3 DEF Restored
<1>5. Valued' /\ FromWire'
  BY <1>1 DEF WireInv, Valued, FromWire
<1>6. Laid'
  <2>1. OneBitGates' => OneBitGates
    BY <1>1 DEF OneBitGates
  <2> QED BY <1>1, <2>1 DEF WireInv, Laid
<1>7. Untouched' /\ First' /\ Encoded' /\ Overflowed'
  BY <1>1 DEF Untouched, First, Encoded, Overflowed
<1> QED BY <1>4, <1>5, <1>6, <1>7 DEF WireInv

----------------------------------------------------------------------------
(* What a step of decode makes of the bits it is at.                       *)
Raw  == {k \in 0 .. field.bits - 1 : body[Own + k + 1]}
Here == IF field.kind = "var" THEN Standing ELSE Decoded(field, Raw)
Made == IF Gated THEN Here ELSE Absent
Past == Own + IF Gated THEN Len(Coded(field, Here)) ELSE 0

LEMMA DecodeFieldIs ==
    ASSUME DecodeField
    PROVE  /\ Decoding /\ Reads /\ phase = "decode" /\ i <= Len(msg) /\ phase' = phase
           /\ read' = Append(read, Made) /\ met' = Append(met, [begin |-> Own, end |-> Past])
           /\ at' = Past /\ i' = i + 1
           /\ msg' = msg /\ value' = value /\ cap' = cap /\ out' = out /\ marks' = marks
           /\ body' = body /\ origin' = origin
BY DEF DecodeField, Decoding, Raw, Here, Made, Past

(* The bits of a field of fixed width, there on two strings.               *)
LEMMA RawIs ==
    ASSUME NEW f \in Fields, Readable(f), f.kind # "var", NEW c, c # Absent, Wireable(f, c),
           NEW s, NEW a \in Nat, Lies(f, c, s, a)
    PROVE  \A k \in 0 .. f.bits - 1 : s[a + GateBits(f) + k + 1] <=> k \in Low(f, c)
<1> SUFFICES ASSUME NEW k \in 0 .. f.bits - 1 PROVE s[a + GateBits(f) + k + 1] <=> k \in Low(f, c)
  OBVIOUS
<1>1. /\ GateBits(f) \in {0, 1} /\ f.bits \in Nat /\ Len(Coded(f, c)) = f.bits
      /\ Coded(f, c) = [n \in 1 .. f.bits |-> n - 1 \in c]
  BY FieldBits
<1>2. k + 1 \in 1 .. f.bits /\ k + 1 - 1 = k /\ a + GateBits(f) + (k + 1) = a + GateBits(f) + k + 1
  BY <1>1
<1>3. s[a + GateBits(f) + (k + 1)] = Coded(f, c)[k + 1]
  BY <1>1, <1>2 DEF Lies
<1>4. Coded(f, c)[k + 1] = (k + 1 - 1 \in c)
  BY <1>1, <1>2
<1>5. s[a + GateBits(f) + k + 1] = (k \in c)
  BY <1>2, <1>3, <1>4, Zenon
<1>6. k \in Low(f, c) <=> k \in c
  BY DEF Low
<1> QED BY <1>5, <1>6, Zenon

LEMMA AgainMakes ==
    ASSUME IInv, WireInv, DecodeField, value # None
    PROVE  Made = Back(msg, value, i) /\ Past = Ends(msg, value)[i]
<1> DEFINE v == value[i]
           c == Carried(msg, value, i)
<1>1. /\ i \in 1 .. Len(msg) /\ field = msg[i] /\ field \in Fields /\ Readable(field)
      /\ Validated(msg) /\ msg \in Seq(Fields) /\ Len(msg) \in Nat
      /\ \A j \in 1 .. Len(msg) : Wireable(msg[j], value[j])
      /\ Sound(field, v) /\ CanLie(field, v)
      /\ at \in Nat /\ Len(out) \in Nat /\ body \in Seq(BOOLEAN)
      /\ Ends(msg, value)[i] = at + Size(field, v) /\ Ends(msg, value)[i] <= Len(out)
      /\ \A n \in 1 .. Len(body) : n <= Len(out) => body[n] = out[n]
      /\ Wireable(field, c) /\ Size(field, c) = Size(field, v)
      /\ Lies(field, c, out, at)
  BY DecodeFieldIs, AgainAt
<1>2. Wireable(field, v) /\ (i \in Flags(msg) => v # Absent /\ c # Absent) /\ (i \notin Flags(msg) => c = v)
  <2>1. i \in Flags(msg) => v # Absent /\ c # Absent
    BY <1>1, CarriedFits
  <2> QED BY <1>1, <2>1 DEF Carried
<1>3. Reads /\ Own <= Len(body) /\ Own = at + GateBits(field)
  BY DecodeFieldIs DEF Reads, Own
<1>4. Gated <=> v # Absent
  BY <1>3, DecodeFieldIs, GatedIs
<1> HIDE DEF v, c
<1>5. /\ GateBits(field) \in {0, 1}
      /\ v = Absent => Size(field, v) = GateBits(field)
      /\ v # Absent => Size(field, v) = GateBits(field) + Len(Coded(field, v)) /\ Len(Coded(field, v)) \in Nat
      /\ field.kind # "var" => Len(Coded(field, v)) = field.bits /\ field.bits \in Nat
  BY <1>1, <1>2, FieldBits
<1>6. i \notin Flags(msg) => Back(msg, value, i) = v
  BY DEF Back, v
<1>7. CASE v = Absent
  <2>1. ~Gated /\ Made = Absent /\ Past = Own
    <3>1. ~Gated
      BY <1>4, <1>7
    <3>2. Own \in Nat
      BY <1>1, <1>3, <1>5
    <3> QED BY <3>1, <3>2 DEF Made, Past
  <2> QED BY <1>1, <1>2, <1>3, <1>5, <1>6, <1>7, <2>1
<1>8. CASE v # Absent /\ field.kind = "var"
  <2>1. Gated /\ Standing # {}
    BY <1>3, <1>4, <1>8 DEF Reads
  <2>2. Standing = v
    BY <1>8, <2>1, DecodeFieldIs, StandingIs DEF v
  <2>3. i \notin Flags(msg)
    BY <1>1, <1>8, FlagIs
  <2>4. Made = v /\ Past = Own + Len(Coded(field, v))
    BY <1>8, <2>1, <2>2 DEF Made, Here, Past
  <2> QED BY <1>1, <1>3, <1>5, <1>6, <1>8, <2>3, <2>4
<1>9. CASE v # Absent /\ field.kind # "var"
  <2>1. Gated /\ Own + field.bits <= Len(body)
    BY <1>3, <1>4, <1>9 DEF Reads
  <2>2. c # Absent
    BY <1>2, <1>9
  <2>3. Own + field.bits <= Len(out) /\ Ends(msg, value)[i] = Own + field.bits
    BY <1>1, <1>3, <1>5, <1>9
  <2>4. \A k \in 0 .. field.bits - 1 : out[at + GateBits(field) + k + 1] <=> k \in Low(field, c)
    BY <1>1, <1>9, <2>2, RawIs
  <2>5. \A k \in 0 .. field.bits - 1 : body[Own + k + 1] = out[at + GateBits(field) + k + 1]
    <3>1. \A k \in 0 .. field.bits - 1 : /\ Own + k + 1 \in 1 .. Len(body) /\ Own + k + 1 <= Len(out)
                                         /\ Own + k + 1 = at + GateBits(field) + k + 1
      <4>1. field.bits \in Nat /\ Own \in Nat /\ Len(body) \in Nat /\ Own = at + GateBits(field)
        BY <1>1, <1>3, <1>5, <1>9
      <4>2. Len(out) \in Nat /\ Own + field.bits <= Len(body) /\ Own + field.bits <= Len(out)
        BY <1>1, <2>1, <2>3
      <4> QED BY <4>1, <4>2
    <3> QED BY <1>1, <3>1
  <2>6. Raw = Low(field, c)
    <3>1. \A k \in 0 .. field.bits - 1 : body[Own + k + 1] <=> k \in Low(field, c)
      BY <2>4, <2>5, Zenon
    <3>2. \A k \in Low(field, c) : k \in 0 .. field.bits - 1
      BY DEF Low
    <3> QED BY <3>1, <3>2 DEF Raw
  <2>7. Here = Decoded(field, Low(field, c)) /\ Made = Here
    BY <1>9, <2>1, <2>6 DEF Here, Made
  <2>8. Made = Back(msg, value, i)
    <3>1. CASE i \in Flags(msg)
      BY <1>1, <2>7, <3>1 DEF Back, c
    <3>2. CASE i \notin Flags(msg)
      <4>1. c = v /\ Fits(field, v)
        BY <1>1, <1>2, <1>9, <3>2 DEF CanLie
      <4>2. v = Decoded(field, Low(field, v))
        BY <1>1, <1>9, <4>1 DEF Sound
      <4> QED BY <1>6, <2>7, <3>2, <4>1, <4>2
    <3> QED BY <3>1, <3>2
  <2>9. Len(Coded(field, Here)) = field.bits
    BY <1>5, <1>9 DEF Coded
  <2>10. Past = Own + field.bits
    BY <2>1, <2>9 DEF Past
  <2> QED BY <2>3, <2>8, <2>10
<1> QED BY <1>7, <1>8, <1>9

LEMMA DecodeAgainKeepsWire ==
    ASSUME IInv, WireInv, DecodeField, value # None
    PROVE  WireInv'
<1> DEFINE made == Made
           e == Ends(msg, value)
<1>1. /\ phase = "decode" /\ phase' = phase /\ read' = Append(read, made)
      /\ at' = Past /\ i' = i + 1 /\ Decoding
      /\ msg' = msg /\ value' = value /\ cap' = cap /\ out' = out /\ marks' = marks
      /\ body' = body /\ origin' = origin
  BY DecodeFieldIs
<1>2. /\ i \in 1 .. Len(msg) /\ field = msg[i] /\ field \in Fields /\ Readable(field)
      /\ Validated(msg) /\ msg \in Seq(Fields) /\ Len(msg) \in Nat /\ Len(read) = i - 1
      /\ read \in Seq(SUBSET Int) /\ \A j \in 1 .. i - 1 : read[j] = Back(msg, value, j)
      /\ Wireable(field, value[i])
      /\ \A j \in 1 .. Len(msg) : Wireable(msg[j], value[j])
      /\ Wireable(field, Carried(msg, value, i))
  BY <1>1, AgainAt DEF Sound
<1>3. made = Back(msg, value, i) /\ Past = e[i]
  BY AgainMakes
<1>4. made \in SUBSET Int
  <2>1. CASE i \in Flags(msg)
    <3>1. field.kind # "var" /\ Low(field, Carried(msg, value, i)) \in SUBSET (0 .. field.bits - 1)
      BY <1>2, <2>1, FlagIs DEF Low
    <3>2. Sound(field, Decoded(field, Low(field, Carried(msg, value, i))))
      BY <1>2, <3>1, DecodedIsSound
    <3>3. made = Decoded(field, Low(field, Carried(msg, value, i)))
      BY <1>2, <1>3, <2>1 DEF Back
    <3> QED BY <3>2, <3>3 DEF Sound, Wireable
  <2>2. CASE i \notin Flags(msg)
    <3>1. made = value[i]
      BY <1>3, <2>2 DEF Back
    <3> QED BY <1>2, <3>1 DEF Wireable
  <2> QED BY <2>1, <2>2
<1> HIDE DEF made, e
<1>5. read' \in Seq(SUBSET Int) /\ Len(read') = i /\ \A j \in 1 .. i : read'[j] = Back(msg, value, j)
  <2>1. /\ read' \in Seq(SUBSET Int) /\ Len(read') = i /\ read'[i] = made
        /\ \A j \in 1 .. i - 1 : read'[j] = read[j]
    BY <1>1, <1>2, <1>4
  <2>2. \A j \in 1 .. i : j = i \/ j \in 1 .. i - 1
    BY <1>2
  <2> QED BY <1>2, <1>3, <2>1, <2>2
<1>6. Restored'
  <2>1. /\ body \in Seq(BOOLEAN) /\ \A n \in 1 .. Len(body) : n <= Len(out) => body[n] = out[n]
    BY <1>1 DEF WireInv, Restored
  <2>2. i' <= Len(msg) + 1 /\ i' - 1 = i
    BY <1>1, <1>2
  <2>3. /\ at' = Ends(msg', value')[i' - 1] /\ Len(read') = i' - 1 /\ read' \in Seq(SUBSET Int)
        /\ \A j \in 1 .. i' - 1 : read'[j] = Back(msg', value', j)
    BY <1>1, <1>3, <1>5, <2>2 DEF e
  <2> QED BY <1>1, <2>1, <2>2, <2>3 DEF Restored
<1>7. Valued' /\ FromWire'
  BY <1>1 DEF WireInv, Valued, FromWire
<1>8. Laid'
  <2>1. OneBitGates' => OneBitGates
    BY <1>1 DEF OneBitGates
  <2> QED BY <1>1, <2>1 DEF WireInv, Laid
<1>9. Untouched' /\ First' /\ Encoded' /\ Overflowed'
  BY <1>1 DEF Untouched, First, Encoded, Overflowed, WireInv, Valued
<1> QED BY <1>6, <1>7, <1>8, <1>9 DEF WireInv

----------------------------------------------------------------------------
(* Decoding a wire of somebody else's: what it makes lies there.           *)
LEMMA FirstAt ==
    ASSUME IInv, WireInv, Decoding, value = None
    PROVE  /\ i \in 1 .. Len(msg) /\ field = msg[i] /\ field \in Fields /\ Readable(field)
           /\ Validated(msg) /\ msg \in Seq(Fields) /\ Len(msg) \in Nat
           /\ \A j \in 1 .. Len(msg) : msg[j] \in Fields /\ FlagOk(msg, j)
           /\ body = origin /\ body \in Seq(BOOLEAN) /\ out = <<>> /\ marks = <<>>
           /\ read \in Seq(SUBSET Int) /\ Len(read) = i - 1 /\ at \in Nat /\ cap \in Nat
           /\ met \in Seq(Spans) /\ Len(met) = i - 1 /\ at = Begins(met, i)
           /\ \A j \in 1 .. i - 1 : Traced(msg, read, origin, met, j)
<1>1. /\ phase = "decode" /\ i \in Nat \ {0} /\ i <= Len(msg) /\ field = msg[i]
  BY DEF Decoding, IInv, Typed, field
<1>2. /\ i \in 1 .. Len(msg) /\ Len(msg) \in Nat /\ field \in Fields /\ Readable(field)
      /\ Validated(msg) /\ msg \in Seq(Fields) /\ \A j \in 1 .. Len(msg) : msg[j] \in Fields
      /\ DOMAIN msg = 1 .. Len(msg)
  BY <1>1, Accepted DEF IInv
<1>3. \A j \in 1 .. Len(msg) : FlagOk(msg, j)
  BY <1>2 DEF Validated
<1>4. met \in Seq(Spans) /\ Len(met) = i - 1
  BY <1>1 DEF IInv, Typed, CursorIsCount
<1>5. /\ body = origin /\ body \in Seq(BOOLEAN) /\ out = <<>> /\ marks = <<>>
      /\ read \in Seq(SUBSET Int) /\ Len(read) = i - 1 /\ at \in Nat /\ cap \in Nat /\ at = Begins(met, i)
      /\ \A j \in 1 .. i - 1 : Traced(msg, read, origin, met, j)
  BY <1>1 DEF WireInv, First
<1> QED BY <1>1, <1>2, <1>3, <1>4, <1>5

(* What the field's own bits are made into, when it is there.              *)
LEMMA HereLies ==
    ASSUME IInv, WireInv, Decoding, value = None, Reads, Gated
    PROVE  /\ Here \in SUBSET Int /\ Here # Absent /\ Sound(field, Here) /\ Fits(field, Here)
           /\ Len(Coded(field, Here)) \in Nat /\ Own + Len(Coded(field, Here)) <= Len(body)
           /\ \A k \in 1 .. Len(Coded(field, Here)) : body[Own + k] = Coded(field, Here)[k]
<1>1. /\ field \in Fields /\ Readable(field) /\ body \in Seq(BOOLEAN) /\ at \in Nat
  BY FirstAt
<1>2. Own \in Nat /\ Own = at + GateBits(field)
  BY <1>1 DEF Own, GateBits
<1>3. CASE field.kind = "var"
  <2>1. PICK k \in Standing : TRUE
    BY <1>3 DEF Reads
  <2>2. \A g \in DOMAIN Codes : Codes[g] \in Seq(BOOLEAN) /\ Len(Codes[g]) \in Nat /\ g \in Nat
    BY BitMessageAssumption
  <2>3. \A g \in Standing :
            /\ g \in DOMAIN Codes /\ Own + Len(Codes[g]) <= Len(body)
            /\ \A n \in 1 .. Len(Codes[g]) : body[Own + n] = Codes[g][n]
    <3> SUFFICES ASSUME NEW g \in Standing
                 PROVE  /\ g \in DOMAIN Codes /\ Own + Len(Codes[g]) <= Len(body)
                        /\ \A n \in 1 .. Len(Codes[g]) : body[Own + n] = Codes[g][n]
      OBVIOUS
    <3>1. g \in DOMAIN Codes /\ Stands(Codes[g], body, Own)
      BY DEF Standing
    <3> QED BY <1>1, <1>2, <2>2, <3>1, StandsIs
  <2>4. ASSUME NEW g \in Standing PROVE g = k
    <3>1. g \in DOMAIN Codes /\ k \in DOMAIN Codes
      BY <2>1, <2>3
    <3>2. Matches(k, g, body, Own) /\ Matches(g, k, body, Own)
      BY <2>1, <2>3 DEF Matches
    <3> QED BY <1>2, <3>1, <3>2, StandsOnce
  <2>5. Here = {k}
    BY <1>3, <2>1, <2>4 DEF Here
  <2>6. Coded(field, Here) = Codes[k]
    BY <1>3, <2>5 DEF Coded
  <2>7. k \in DOMAIN Codes /\ k \in Nat
    BY <2>1, <2>2, <2>3
  <2>8. Here \in SUBSET Int /\ Here # Absent
    BY <2>5, <2>7 DEF Absent
  <2>9. Sound(field, Here) /\ Fits(field, Here)
    BY <1>3, <2>5, <2>7, <2>8 DEF Sound, Wireable, Fits
  <2> QED BY <2>1, <2>2, <2>3, <2>6, <2>7, <2>8, <2>9
<1>4. CASE field.kind # "var"
  <2>1. Here = Decoded(field, Raw) /\ Raw \in SUBSET (0 .. field.bits - 1)
    BY <1>4 DEF Here, Raw
  <2>2. Sound(field, Here) /\ Fits(field, Here) /\ Here # Absent /\ Low(field, Here) = Raw
    BY <1>1, <1>4, <2>1, DecodedIsSound
  <2>3. Wireable(field, Here) /\ Here \in SUBSET Int
    BY <2>2 DEF Sound, Wireable
  <2>4. /\ field.bits \in Nat /\ Len(Coded(field, Here)) = field.bits
        /\ Coded(field, Here) = [k \in 1 .. field.bits |-> k - 1 \in Here]
    BY <1>1, <1>4, <2>3, FieldBits
  <2>5. Own + field.bits <= Len(body)
    BY <1>4 DEF Reads
  <2>6. ASSUME NEW k \in 1 .. field.bits PROVE body[Own + k] = Coded(field, Here)[k]
    <3>1. /\ k - 1 \in 0 .. field.bits - 1 /\ Own + (k - 1) + 1 = Own + k
          /\ Own + k \in 1 .. Len(body)
      BY <1>1, <1>2, <2>4, <2>5
    <3>2. k - 1 \in Here <=> k - 1 \in Raw
      BY <2>2, <3>1 DEF Low
    <3>3. k - 1 \in Raw <=> body[Own + (k - 1) + 1]
      BY <3>1 DEF Raw
    <3>4. body[Own + k] \in BOOLEAN
      BY <1>1, <3>1
    <3>5. body[Own + k] <=> k - 1 \in Here
      BY <3>1, <3>2, <3>3
    <3>6. Coded(field, Here)[k] = (k - 1 \in Here)
      BY <2>4
    <3>7. body[Own + k] = (k - 1 \in Here)
      <4>1. CASE k - 1 \in Here
        BY <3>4, <3>5, <4>1, Zenon
      <4>2. CASE k - 1 \notin Here
        <5>1. body[Own + k] = FALSE /\ (k - 1 \in Here) = FALSE
          BY <3>4, <3>5, <4>2
        <5> QED BY <5>1
      <4> QED BY <4>1, <4>2
    <3> QED BY <3>6, <3>7, Zenon
  <2> QED BY <2>2, <2>3, <2>4, <2>5, <2>6
<1> QED BY <1>3, <1>4

LEMMA FirstMakes ==
    ASSUME IInv, WireInv, DecodeField, value = None
    PROVE  /\ Made \in SUBSET Int /\ Sound(field, Made) /\ CanLie(field, Made)
           /\ Lies(field, Made, body, at)
           /\ Past = at + Size(field, Made) /\ Past \in Nat
           /\ field.when.gate = "mask" => (Made # Absent <=> Flagged)
<1>1. /\ field \in Fields /\ Readable(field) /\ body \in Seq(BOOLEAN) /\ at \in Nat
  BY DecodeFieldIs, FirstAt
<1>2. /\ GateBits(field) \in {0, 1} /\ Own \in Nat /\ Own = at + GateBits(field)
      /\ Own <= Len(body) /\ Len(body) \in Nat
  BY <1>1, DecodeFieldIs DEF Own, GateBits, Reads
<1>3. Gated => /\ Here \in SUBSET Int /\ Here # Absent /\ Sound(field, Here) /\ Fits(field, Here)
               /\ Len(Coded(field, Here)) \in Nat /\ Own + Len(Coded(field, Here)) <= Len(body)
               /\ \A k \in 1 .. Len(Coded(field, Here)) : body[Own + k] = Coded(field, Here)[k]
  BY DecodeFieldIs, HereLies
<1>4. Made # Absent <=> Gated
  BY <1>3 DEF Made
<1>5. field.when.gate = "mask" => (Made # Absent <=> Flagged)
  <2> SUFFICES ASSUME field.when.gate = "mask" PROVE Made # Absent <=> Flagged
    OBVIOUS
  <2>1. Gated <=> Flagged
    BY Zenon DEF Gated
  <2> QED BY <1>4, <2>1
<1>6. field.when.gate = "present" => body[at + 1] = (Made # Absent)
  <2> SUFFICES ASSUME field.when.gate = "present" PROVE body[at + 1] = (Made # Absent)
    OBVIOUS
  <2>1. Gated <=> Bit(at + 1)
    BY Zenon DEF Gated
  <2>2. at + 1 \in 1 .. Len(body)
    BY <1>1, <1>2 DEF GateBits
  <2>3. body[at + 1] \in BOOLEAN /\ (Gated <=> body[at + 1])
    BY <1>1, <2>1, <2>2 DEF Bit
  <2>4. CASE Gated
    BY <1>4, <2>3, <2>4, Zenon
  <2>5. CASE ~Gated
    <3>1. body[at + 1] = FALSE /\ (Made # Absent) = FALSE
      BY <1>4, <2>3, <2>5
    <3> QED BY <3>1
  <2> QED BY <2>4, <2>5
<1>7. CASE Gated
  <2>1. Made = Here /\ Past = Own + Len(Coded(field, Here))
    BY <1>7 DEF Made, Past
  <2>2. Size(field, Made) = GateBits(field) + Len(Coded(field, Made))
    BY <1>4, <1>7 DEF Size
  <2>3. at + Size(field, Made) <= Len(body) /\ Past = at + Size(field, Made) /\ Past \in Nat
    BY <1>1, <1>2, <1>3, <1>7, <2>1, <2>2
  <2>4. \A k \in 1 .. Len(Coded(field, Made)) : body[at + GateBits(field) + k] = Coded(field, Made)[k]
    BY <1>2, <1>3, <1>7, <2>1
  <2>5. Lies(field, Made, body, at)
    BY <1>6, <2>3, <2>4, Zenon DEF Lies
  <2> QED BY <1>3, <1>5, <1>7, <2>1, <2>3, <2>5 DEF CanLie
<1>8. CASE ~Gated
  <2>1. Made = Absent /\ Past = Own /\ Size(field, Made) = GateBits(field)
    BY <1>2, <1>8 DEF Made, Past, Size
  <2>2. at + Size(field, Made) <= Len(body)
    BY <1>2, <2>1
  <2>3. Lies(field, Made, body, at)
    BY <1>6, <2>1, <2>2, Zenon DEF Lies
  <2>4. field.when.gate # "always"
    <3>1. field.when.gate = "always" => Gated
      BY Zenon DEF Gated
    <3> QED BY <1>8, <3>1
  <2>5. Made \in SUBSET Int
    BY <2>1 DEF Absent
  <2>6. Sound(field, Made) /\ CanLie(field, Made)
    BY <2>1, <2>4, <2>5 DEF Sound, Wireable, CanLie
  <2> QED BY <1>2, <1>5, <2>1, <2>3, <2>5, <2>6
<1> QED BY <1>7, <1>8

(* What was traced of a field depends on the fields up to it.              *)
LEMMA TracedSame ==
    ASSUME NEW m, NEW j \in Nat \ {0}, FlagOk(m, j), NEW s,
           NEW v, NEW w, \A k \in 1 .. j : w[k] = v[k],
           NEW spans, NEW more, \A k \in 1 .. j : more[k] = spans[k],
           Traced(m, v, s, spans, j)
    PROVE  Traced(m, w, s, more, j)
<1>1. w[j] = v[j] /\ more[j] = spans[j]
  OBVIOUS
<1>2. Begins(more, j) = Begins(spans, j)
  <2>1. j # 1 => j - 1 \in 1 .. j
    OBVIOUS
  <2> QED BY <2>1 DEF Begins
<1>3. Agrees(m, w, j)
  <2> SUFFICES ASSUME m[j].when.gate = "mask"
               PROVE  w[j] # Absent <=> ((w[m[j].when.flag] \cap m[j].when.mask # {}) <=> m[j].when.set)
    BY DEF Agrees
  <2>1. m[j].when.flag \in 1 .. j - 1
    BY DEF FlagOk
  <2>2. m[j].when.flag \in 1 .. j
    BY <2>1
  <2>3. w[m[j].when.flag] = v[m[j].when.flag]
    BY <2>2
  <2>4. v[j] # Absent <=> ((v[m[j].when.flag] \cap m[j].when.mask # {}) <=> m[j].when.set)
    BY DEF Traced, Agrees
  <2> QED BY <1>1, <2>3, <2>4
<1> QED BY <1>1, <1>2, <1>3 DEF Traced

LEMMA DecodeFirstKeepsWire ==
    ASSUME IInv, WireInv, DecodeField, value = None
    PROVE  WireInv'
<1> DEFINE made == Made
           span == [begin |-> Own, end |-> Past]
<1>1. /\ phase = "decode" /\ phase' = phase /\ read' = Append(read, made)
      /\ at' = Past /\ i' = i + 1 /\ Decoding /\ met' = Append(met, span)
      /\ msg' = msg /\ value' = value /\ cap' = cap /\ out' = out /\ marks' = marks
      /\ body' = body /\ origin' = origin
  BY DecodeFieldIs
<1>2. /\ i \in 1 .. Len(msg) /\ field = msg[i] /\ field \in Fields /\ Readable(field)
      /\ msg \in Seq(Fields) /\ Len(msg) \in Nat
      /\ \A j \in 1 .. Len(msg) : msg[j] \in Fields /\ FlagOk(msg, j)
      /\ body = origin /\ body \in Seq(BOOLEAN) /\ out = <<>> /\ marks = <<>>
      /\ read \in Seq(SUBSET Int) /\ Len(read) = i - 1 /\ at \in Nat /\ cap \in Nat
      /\ met \in Seq(Spans) /\ Len(met) = i - 1 /\ at = Begins(met, i)
      /\ \A j \in 1 .. i - 1 : Traced(msg, read, origin, met, j)
  BY <1>1, FirstAt
<1>3. /\ made \in SUBSET Int /\ Sound(field, made) /\ CanLie(field, made)
      /\ Lies(field, made, body, at)
      /\ Past = at + Size(field, made) /\ Past \in Nat
      /\ field.when.gate = "mask" => (made # Absent <=> Flagged)
  BY FirstMakes
<1>4. span \in Spans /\ span.end = Past
  BY <1>2, <1>3 DEF Spans, Own, GateBits
<1> HIDE DEF made, span
<1>5. /\ read' \in Seq(SUBSET Int) /\ Len(read') = i /\ read'[i] = made
      /\ \A j \in 1 .. i - 1 : read'[j] = read[j]
  BY <1>1, <1>2, <1>3
<1>6. /\ met'[i] = span /\ \A j \in 1 .. i - 1 : met'[j] = met[j]
  BY <1>1, <1>2, <1>4
<1>7. ASSUME NEW j \in 1 .. i - 1 PROVE Traced(msg, read', origin, met', j)
  <2>1. \A k \in 1 .. j : k \in 1 .. i - 1
    BY <1>2
  <2>2. j \in Nat \ {0} /\ j \in 1 .. Len(msg)
    BY <1>2
  <2> DEFINE w == read'
             more == met'
  <2>3. (\A k \in 1 .. j : w[k] = read[k]) /\ (\A k \in 1 .. j : more[k] = met[k])
    BY <1>5, <1>6, <2>1
  <2> HIDE DEF w, more
  <2>4. Traced(msg, w, origin, more, j)
    BY <1>2, <2>2, <2>3, TracedSame
  <2> QED BY <2>4 DEF w, more
<1>8. Traced(msg, read', origin, met', i)
  <2>1. Begins(met', i) = at
    <3>1. i # 1 => i - 1 \in 1 .. i - 1
      BY <1>2
    <3> QED BY <1>2, <1>6, <3>1 DEF Begins
  <2>2. Lies(msg[i], read'[i], origin, at) /\ met'[i].end = at + Size(msg[i], read'[i])
    BY <1>2, <1>3, <1>4, <1>5, <1>6
  <2>3. Sound(msg[i], read'[i]) /\ CanLie(msg[i], read'[i])
    BY <1>2, <1>3, <1>5
  <2>4. Agrees(msg, read', i)
    <3> SUFFICES ASSUME field.when.gate = "mask"
                 PROVE  made # Absent <=>
                            ((read'[field.when.flag] \cap field.when.mask # {}) <=> field.when.set)
      BY <1>2, <1>5 DEF Agrees
    <3>1. field.when.flag \in 1 .. i - 1
      BY <1>2 DEF FlagOk
    <3>2. read'[field.when.flag] = read[field.when.flag]
      BY <1>5, <3>1
    <3> QED BY <1>3, <3>2 DEF Flagged
  <2> QED BY <2>1, <2>2, <2>3, <2>4 DEF Traced
<1>9. Begins(met', i') = Past
  BY <1>1, <1>2, <1>4, <1>6 DEF Begins
<1>10. First'
  <2>1. \A j \in 1 .. i' - 1 : j = i \/ j \in 1 .. i - 1
    BY <1>1, <1>2
  <2>2. \A j \in 1 .. i' - 1 : Traced(msg', read', origin', met', j)
    BY <1>1, <1>7, <1>8, <2>1
  <2>3. Len(read') = i' - 1
    BY <1>1, <1>2, <1>5
  <2> QED BY <1>1, <1>2, <1>3, <1>5, <1>9, <2>2, <2>3 DEF First
<1>11. Untouched' /\ Valued' /\ FromWire' /\ Encoded' /\ Laid' /\ Restored' /\ Overflowed'
  BY <1>1 DEF Untouched, Valued, FromWire, Encoded, Laid, Restored, Overflowed
<1> QED BY <1>10, <1>11 DEF WireInv

(* Where decode found the fields is where the values it made end.          *)
LEMMA TracedEnds ==
    ASSUME NEW m, Len(m) \in Nat, NEW v, NEW s, NEW spans,
           \A j \in 1 .. Len(m) : Traced(m, v, s, spans, j) /\ Size(m[j], v[j]) \in Nat
    PROVE  \A j \in 1 .. Len(m) : Begins(spans, j) = Ends(m, v)[j - 1]
<1> DEFINE e == Ends(m, v)
           T == {j \in Nat : j \in 1 .. Len(m) /\ Begins(spans, j) # e[j - 1]}
<1> SUFFICES ASSUME T # {} PROVE FALSE
  <2>1. \A j \in 1 .. Len(m) : j \in Nat
    OBVIOUS
  <2> QED BY <2>1
<1>1. /\ e[0] = 0 /\ \A n \in 1 .. Len(m) : e[n] = e[n - 1] + Size(m[n], v[n])
  BY EndsInOrder
<1>2. PICK j \in T : \A y \in T : j <= y
  <2> HIDE DEF T
  <2>1. T \in SUBSET Nat
    BY DEF T
  <2> QED BY <2>1, NatLeast
<1>3. j \in Nat /\ j \in 1 .. Len(m) /\ Begins(spans, j) # e[j - 1]
  BY <1>2
<1> HIDE DEF T, e
<1>4. j # 1
  BY <1>1, <1>3 DEF Begins
<1>5. j - 1 \in Nat /\ j - 1 \in 1 .. Len(m) /\ j - 1 \notin T
  <2>1. j - 1 \in Nat /\ j - 1 \in 1 .. Len(m) /\ ~(j <= j - 1)
    BY <1>3, <1>4
  <2> QED BY <1>2, <2>1
<1>6. Begins(spans, j - 1) = e[j - 1 - 1]
  BY <1>5 DEF T
<1>7. spans[j - 1].end = Begins(spans, j - 1) + Size(m[j - 1], v[j - 1])
  BY <1>5 DEF Traced
<1>8. e[j - 1] = e[j - 1 - 1] + Size(m[j - 1], v[j - 1])
  BY <1>1, <1>5
<1>9. Begins(spans, j) = spans[j - 1].end
  BY <1>4 DEF Begins
<1> QED BY <1>3, <1>6, <1>7, <1>8, <1>9

(* Decode is through: what it made is encoded again, or is compared.       *)
LEMMA DecodesKeepsWire == ASSUME IInv, WireInv, Decodes PROVE WireInv'
<1>1. /\ phase = "decode" /\ i = Len(msg) + 1
      /\ msg' = msg /\ cap' = cap /\ out' = out /\ marks' = marks
      /\ body' = body /\ origin' = origin /\ at' = at /\ read' = read /\ met' = met
  BY DEF Decodes, table
<1>2. /\ Len(msg) \in Nat \ {0} /\ DOMAIN msg = 1 .. Len(msg)
      /\ \A j \in 1 .. Len(msg) : msg[j] \in Fields /\ Readable(msg[j])
  BY <1>1, Accepted DEF IInv
<1>3. CASE value = None
  <2>1. phase' = "encode" /\ i' = 1 /\ value' = read
    BY <1>3 DEF Decodes
  <2>2. /\ body = origin /\ body \in Seq(BOOLEAN) /\ out = <<>> /\ marks = <<>>
        /\ read \in Seq(SUBSET Int) /\ Len(read) = Len(msg) /\ cap \in Nat
        /\ \A j \in 1 .. Len(msg) : Traced(msg, read, origin, met, j)
    BY <1>1, <1>2, <1>3 DEF WireInv, First
  <2>3. read # None
    BY <1>2, <2>2 DEF None
  <2>4. \A j \in 1 .. Len(msg) : Sound(msg[j], read[j]) /\ CanLie(msg[j], read[j]) /\ Agrees(msg, read, j)
    BY <2>2 DEF Traced
  <2>5. \A j \in 1 .. Len(msg) : Size(msg[j], read[j]) \in Nat
    BY <1>2, <2>4, FieldBits DEF Sound
  <2>6. Ends(msg, read)[0] = 0
    BY <1>2, <2>5, EndsInOrder
  <2>7. \A j \in 1 .. Len(msg) : Lies(msg[j], read[j], origin, Ends(msg, read)[j - 1])
    <3>1. \A j \in 1 .. Len(msg) : Begins(met, j) = Ends(msg, read)[j - 1]
      BY <1>2, <2>2, <2>5, TracedEnds
    <3>2. \A j \in 1 .. Len(msg) : Lies(msg[j], read[j], origin, Begins(met, j))
      BY <2>2 DEF Traced
    <3> QED BY <3>1, <3>2
  <2>8. Valued'
    BY <1>1, <2>1, <2>2, <2>3, <2>4 DEF Valued
  <2>9. FromWire'
    BY <1>1, <2>1, <2>2, <2>4, <2>7 DEF FromWire
  <2>10. Encoded'
    <3>1. Len(out) = 0 /\ <<>> \in Seq(BOOLEAN) /\ <<>> \in Seq(Nat) /\ Len(marks) = 0
      BY <2>2
    <3>2. W * cap \in Nat /\ 0 <= W * cap
      BY <2>2, BitMessageAssumption
    <3> QED BY <1>1, <1>2, <2>1, <2>2, <2>6, <3>1, <3>2 DEF Encoded
  <2>11. Untouched' /\ First' /\ Laid' /\ Restored' /\ Overflowed'
    BY <2>1 DEF Untouched, First, Laid, Restored, Overflowed
  <2> QED BY <2>8, <2>9, <2>10, <2>11 DEF WireInv
<1>4. CASE value # None
  <2>1. phase' = "done" /\ i' = i /\ value' = value
    BY <1>4 DEF Decodes
  <2>2. Restored'
    BY <1>1, <2>1 DEF WireInv, Restored
  <2>3. Valued' /\ FromWire'
    BY <1>1, <1>4, <2>1 DEF WireInv, Valued, FromWire
  <2>4. Laid'
    <3>1. OneBitGates' => OneBitGates
      BY <1>1 DEF OneBitGates
    <3> QED BY <1>1, <2>1, <3>1 DEF WireInv, Laid
  <2>5. Untouched' /\ First' /\ Encoded' /\ Overflowed'
    BY <2>1 DEF Untouched, First, Encoded, Overflowed
  <2> QED BY <2>2, <2>3, <2>4, <2>5 DEF WireInv
<1> QED BY <1>3, <1>4

LEMMA StutterKeepsWire == ASSUME WireInv, UNCHANGED vars PROVE WireInv'
<1>1. /\ phase' = phase /\ i' = i /\ msg' = msg /\ value' = value /\ cap' = cap /\ out' = out
      /\ marks' = marks /\ body' = body /\ origin' = origin /\ at' = at /\ read' = read /\ met' = met
  BY DEF vars
<1>2. OneBitGates' => OneBitGates
  BY <1>1 DEF OneBitGates
<1>3. Untouched' /\ First' /\ Valued' /\ FromWire'
  BY <1>1 DEF WireInv, Untouched, First, Valued, FromWire
<1>4. Encoded' /\ Overflowed'
  BY <1>1 DEF WireInv, Encoded, Overflowed
<1>5. Laid'
  BY <1>1, <1>2 DEF WireInv, Laid
<1>6. Restored'
  <2>1. Sent' = Sent
    BY <1>1 DEF Sent, Bytes
  <2> QED BY <1>1, <2>1 DEF WireInv, Restored
<1> QED BY <1>3, <1>4, <1>5, <1>6 DEF WireInv

LEMMA NextKeepsWire == IInv /\ WireInv /\ [Next]_vars => (IInv /\ WireInv)'
<1> SUFFICES ASSUME IInv, WireInv, [Next]_vars PROVE IInv' /\ WireInv'
  OBVIOUS
<1>1. IInv'
  BY NextHolds
<1>2. CASE Validate \/ PushRow \/ Called
  BY <1>1, <1>2, TableKeepsWire, CalledKeepsWire
<1>3. CASE EncodeField \/ EncodeOverflows \/ EncodePanics \/ PatchFlags
  BY <1>1, <1>3, EncodeFieldKeepsWire, EncodeLeaves, PatchKeepsWire
<1>4. CASE Arrives \/ DecodeShort \/ Decodes
  BY <1>1, <1>4, ArrivesKeepsWire, DecodeShortKeepsWire, DecodesKeepsWire
<1>5. CASE DecodeField
  <2>1. CASE value = None
    BY <1>1, <1>5, <2>1, DecodeFirstKeepsWire
  <2>2. CASE value # None
    BY <1>1, <1>5, <2>2, DecodeAgainKeepsWire
  <2> QED BY <2>1, <2>2
<1>6. CASE UNCHANGED vars
  BY <1>1, <1>6, StutterKeepsWire
<1> QED BY <1>1, <1>2, <1>3, <1>4, <1>5, <1>6 DEF Next

LEMMA WireHolds == Spec => [](IInv /\ WireInv)
<1>1. Init => IInv /\ WireInv
  BY InitHolds, InitWire
<1> QED BY <1>1, NextKeepsWire, PTL DEF Spec

LEMMA RoundTripFollows == IInv /\ WireInv => RoundTrip
<1> SUFFICES ASSUME IInv, WireInv PROVE RoundTrip
  OBVIOUS
<1> DEFINE e == Ends(msg, value)
<1>1. OverflowIsExact
  <2>1. phase = "overflow" => e[Len(msg)] > W * cap
    BY DEF WireInv, Overflowed
  <2>2. phase = "sent" => value # None /\ Len(out) = e[Len(msg)] /\ Len(out) <= W * cap
    BY DEF WireInv, Laid, Valued
  <2> QED BY <2>1, <2>2 DEF OverflowIsExact
<1>2. phase = "short" /\ value # None => Len(body) < Len(Sent)
  BY DEF WireInv, Restored
<1>3. ASSUME phase = "done"
      PROVE  /\ \A j \in DOMAIN msg \ Flags(msg) : read[j] = value[j]
             /\ \A j \in Flags(msg) : \A bit \in (0 .. msg[j].bits - 1) \ Governed(msg, j) :
                    bit \in read[j] <=> bit \in value[j]
             /\ at = Len(out)
  <2>1. /\ Validated(msg) /\ msg \in Seq(Fields) /\ Len(msg) \in Nat /\ DOMAIN msg = 1 .. Len(msg)
    BY <1>3, Accepted DEF IInv
  <2>2. /\ value # None /\ i = Len(msg) + 1 /\ at = e[i - 1]
        /\ \A j \in 1 .. i - 1 : read[j] = Back(msg, value, j)
    BY <1>3 DEF WireInv, Restored, Valued
  <2>3. i - 1 = Len(msg)
    BY <2>1, <2>2
  <2>4. at = Len(out)
    BY <1>3, <2>2, <2>3 DEF WireInv, Laid
  <2>5. \A j \in DOMAIN msg \ Flags(msg) : read[j] = value[j]
    BY <2>1, <2>2, <2>3 DEF Back
  <2>6. ASSUME NEW j \in Flags(msg)
        PROVE  \A bit \in (0 .. msg[j].bits - 1) \ Governed(msg, j) : bit \in read[j] <=> bit \in value[j]
    <3>1. j \in 1 .. Len(msg)
      BY <2>1, FlagIs
    <3>2. Wireable(msg[j], value[j])
      BY <2>2, <3>1, ValueEnds DEF IInv, WireInv
    <3>3. value[j] \subseteq Nat
      BY <2>1, <3>1, <3>2, CarriedFits
    <3>4. read[j] = Back(msg, value, j)
      BY <2>2, <2>3, <3>1
    <3> QED BY <2>1, <3>3, <3>4, BackIs
  <2> QED BY <2>4, <2>5, <2>6
<1> QED BY <1>1, <1>2, <1>3 DEF RoundTrip

(* Decode of all that encode wrote restores every field, a flag up to the  *)
(* bits that gate others, and those say which fields there are; decode of  *)
(* less is Short, and encode overflows exactly when the value does not fit *)
(* the Buffer: for every message that validate_bits accepts, codec, value, *)
(* wire and room (bit_write, the patch of the flags, bit_decode).          *)
THEOREM RoundTripHolds == Spec => []RoundTrip
BY WireHolds, RoundTripFollows, PTL

(* A wire that decodes is written back bit for bit when every gate is one  *)
(* bit, and encode panics on none: for every message, codec and wire.      *)
THEOREM WireIsKeptHolds == Spec => []WireIsKept
<1>1. IInv /\ WireInv => WireIsKept
  <2> SUFFICES ASSUME IInv, WireInv, origin # None PROVE
                    /\ phase # "panicked"
                    /\ phase \in {"sent", "done"} /\ OneBitGates => out = SubSeq(origin, 1, Len(out))
    BY DEF WireIsKept, OneBitGates
  <2>1. phase \in {"panicked", "sent", "done"} => value # None
    BY DEF WireInv, Valued
  <2>2. phase # "panicked"
    BY <2>1 DEF WireInv, FromWire
  <2>3. phase \in {"sent", "done"} /\ OneBitGates => out = SubSeq(origin, 1, Len(out))
    BY <2>1 DEF WireInv, Laid
  <2> QED BY <2>2, <2>3
<1> QED BY <1>1, WireHolds, PTL
=============================================================================
