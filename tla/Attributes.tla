----------------------------- MODULE Attributes -----------------------------
(***************************************************************************)
(* #[derive(Message)]: from the attributes of a struct's fields to the     *)
(* segments of a message.                                                  *)
(*                                                                         *)
(* A field's attributes are read one at a time into slots; its type and    *)
(* slots make a body, or are refused; the bodies are lowered to segments,  *)
(* fixed fields gathered in blocks; and the message is checked, by the     *)
(* derive and by the model's own validation, whose complaint the derive    *)
(* points at a field where it can.  What the generator refuses afterwards  *)
(* (Walk's Clashes) is an error at the struct, and left out.               *)
(***************************************************************************)
EXTENDS Integers, Sequences, FiniteSets

CONSTANTS
    Messages,       \* the structs a run declares, sequences of fields
    Params          \* names of parameters: a struct declares those it names

(* An attribute: its word, the fields or the parameter it names, fields    *)
(* counted from 1, and its number, in bytes for "at".  "square" is         *)
(* #[count(n * n)], "mask" #[until(mask = M)], "rest" #[switch(..)] and    *)
(* "positive" #[when(n > 0)]; "foreign" is any word of                     *)
(* MESSAGE_ATTRS that no byte-addressed field takes.  The n of "when" is 1 *)
(* for a mask and 0 for a flag, that of "fill" 1 for a cap, and that of    *)
(* "checksum" 1 for a range that runs through `to'.                        *)
SlotOf == [count |-> "count", square |-> "count", len |-> "count", fill |-> "count",
           stride |-> "stride", at |-> "at", seek |-> "seek", codec |-> "codec",
           bytes |-> "bytes", until |-> "until", mask |-> "until", text |-> "kind",
           var |-> "kind", message |-> "kind", switch |-> "kind", rest |-> "kind",
           checksum |-> "kind", when |-> "when", positive |-> "when", with |-> "with",
           range |-> "range", magic |-> "magic", align |-> "align", foreign |-> "foreign"]
Words     == DOMAIN SlotOf
Slots     == {SlotOf[w] : w \in Words}
Attribute == [word : Words \cup {"none"}, by : Nat, to : Nat, n : Nat]
Absent    == [word |-> "none", by |-> 0, to |-> 0, n |-> 0]
Implied(n) == [Absent EXCEPT !.word = "bytes", !.n = n]

(* A type: an Option or not of a run of elements, or of one.  Borrowed     *)
(* bytes are &[u8] and &[u8; 2]; an "array" is one of two bytes, "matrix"  *)
(* one of two u16, "paths" one of two paths.                               *)
Runs  == {"one", "vec", "boxed", "borrowed", "borrowed array"}
Elems == {"u8", "u16", "f32", "bool", "path", "string", "array", "matrix", "paths"}
Type  == [option : BOOLEAN, run : Runs, elem : Elems]

(* What is written has a word, and #[bytes(N)] its number alone.           *)
Written == {a \in Attribute : a.word # "none" /\ (a.word = "bytes" => a = Implied(a.n))}

AttributesAssumption ==
    /\ \A m \in Messages : m \in Seq([type : Type, attrs : Seq(Written)]) /\ m # <<>>
    /\ Params \subseteq Nat \ {0}
    /\ \A m \in Messages : Params \cap (1 .. Len(m)) = {}
ASSUME AttributesAssumption

VARIABLES
    message,
    phase,
    field,      \* the field that is parsed or lowered
    slots,      \* its attributes read so far
    read,       \* how many those are
    bodies,     \* the fields parsed
    block,      \* fixed fields not yet in a block
    segments,
    blame       \* the field an error points at, or 0: the struct

vars == <<message, phase, field, slots, read, bodies, block, segments, blame>>

NoSlots == [s \in Slots |-> Absent]

Init ==
    /\ message \in Messages /\ phase = "fields" /\ field = 1
    /\ slots = NoSlots /\ read = 0 /\ bodies = <<>>
    /\ block = <<>> /\ segments = <<>> /\ blame = 0

Fail(at) == phase' = "refused" /\ blame' = at

----------------------------------------------------------------------------
(* parse_attrs.                                                            *)
Reading == phase = "fields" /\ read < Len(message[field].attrs)

ReadAttribute ==
    LET a == message[field].attrs[read + 1]
        s == SlotOf[a.word]
    IN  /\ Reading /\ s # "foreign" /\ slots[s] = Absent
        /\ slots' = [slots EXCEPT ![s] = a] /\ read' = read + 1
        /\ UNCHANGED <<message, phase, field, bodies, block, segments, blame>>

(* Its slot is taken, it belongs elsewhere, or a position is given twice.  *)
RefuseAttribute ==
    /\ \/ Reading /\ LET s == SlotOf[message[field].attrs[read + 1].word]
                     IN  s = "foreign" \/ slots[s] # Absent
       \/ phase = "fields" /\ ~Reading /\ slots["at"] # Absent /\ slots["seek"] # Absent
    /\ Fail(field)
    /\ UNCHANGED <<message, field, slots, read, bodies, block, segments>>

----------------------------------------------------------------------------
(* The bodies.  A kind keeps the attribute that sizes it.                  *)
Kind(is, sized) == [is |-> is, sized |-> sized]
NoKind == Kind("none", Absent)

NoBody == [form |-> "refused", kind |-> NoKind, count |-> Absent, stride |-> Absent,
           seek |-> Absent, when |-> Absent, on |-> Absent, over |-> Absent,
           range |-> Absent, magic |-> Absent, with |-> Absent, collection |-> "one"]

Has(s, these) == \E t \in these : s[t] # Absent

Scalars   == {"u8", "u16", "f32"}
Integral  == {"u8", "u16"}
PlainPath == Scalars \cup {"bool", "path", "string"}

Repeat(kind, count, stride, seek, with, collection) ==
    [NoBody EXCEPT !.form = "repeat", !.kind = kind, !.count = count, !.stride = stride,
                   !.seek = seek, !.with = with, !.collection = collection]

(* Borrowed bytes.                                                         *)
BorrowedCount(t, s) ==
    IF t.run = "borrowed array" THEN Implied(2)
    ELSE IF s["count"] # Absent THEN s["count"] ELSE s["bytes"]

BorrowedOk(t, s) ==
    /\ ~Has(s, {"kind", "codec", "until", "stride", "range", "magic"})
    /\ IF t.run = "borrowed array"
       THEN s["count"] = Absent /\ (s["bytes"] # Absent => s["bytes"].n = 2)
       ELSE /\ (s["count"] = Absent) # (s["bytes"] = Absent)
            /\ s["count"].word # "square"

Borrowed(t, s) ==
    IF BorrowedOk(t, s)
    THEN Repeat(Kind("scalar", Absent), BorrowedCount(t, s), Absent, s["seek"], Absent, t.run)
    ELSE NoBody

Checksum(t, s) ==
    IF ~Has(s, {"count", "seek", "codec", "bytes", "until", "stride"})
       /\ t.run = "one" /\ t.elem \in Integral
    THEN [NoBody EXCEPT !.form = "checksum", !.over = s["kind"]]
    ELSE NoBody

(* A union: its window is open, #[bytes(N)] or #[len(g)].                  *)
Switch(t, s) ==
    LET fixed == s["bytes"] # Absent
        given == s["count"] # Absent
    IN  IF /\ given => s["count"].word = "len"
           /\ ~Has(s, {"seek", "codec", "until", "stride"})
           /\ t.run = "one" /\ t.elem \in PlainPath
           /\ fixed => s["bytes"].n # 0 /\ ~given
           /\ s["kind"].word = "rest" => ~fixed /\ ~given
        THEN [NoBody EXCEPT !.form = "switch", !.on = s["kind"],
                            !.count = IF given THEN s["count"] ELSE s["bytes"]]
        ELSE NoBody

IsRun(t) == t.run \in {"vec", "boxed"}

(* text_field: of a string, or of each string of a run.                    *)
Text(t, s) ==
    LET sizes == {s[x] : x \in {"until", "bytes"}} \ {Absent}
        one   == sizes \cup ({s["count"]} \ {Absent})
        size  == CHOOSE a \in one : TRUE
    IN  IF s["until"].word = "mask" \/ t.elem # "string" THEN NoBody
        ELSE IF IsRun(t)
        THEN IF s["count"] # Absent /\ Cardinality(sizes) = 1 /\ Implied(0) \notin sizes
             THEN Repeat(Kind("text", CHOOSE a \in sizes : TRUE), s["count"], Absent, Absent,
                         Absent, "vec")
             ELSE NoBody
        ELSE IF /\ t.run = "one" /\ Cardinality(one) = 1
                /\ size.word \in {"len", "until", "bytes", "fill"}
                /\ size.word = "fill" => size.n = 0
             THEN [NoBody EXCEPT !.form = "value", !.kind = Kind("text", size)]
             ELSE NoBody

(* var_field and message_field: one value, or a run of them.               *)
SelfSized(t, s) ==
    LET var  == s["kind"].word = "var"
        kind == Kind(s["kind"].word, Absent)
    IN  IF \/ Has(s, {"bytes", "codec"}) \/ t.elem \notin {"path", "bool"}
           \/ IsRun(t) # (s["count"] # Absent)
        THEN NoBody
        ELSE IF IsRun(t)
        THEN Repeat(kind, s["count"], Absent, s["seek"], s["with"], "vec")
        ELSE IF s["seek"] = Absent
        THEN [NoBody EXCEPT !.form = "value", !.kind = kind, !.with = s["with"]]
        ELSE IF var THEN NoBody
        ELSE [NoBody EXCEPT !.form = "placed", !.kind = kind, !.seek = s["seek"],
                            !.with = s["with"]]

(* element_kind.                                                           *)
ElementKind(t, s) ==
    CASE s["codec"] # Absent                                              -> NoKind
      [] s["codec"] = Absent /\ t.elem \in Scalars /\ s["bytes"] = Absent -> Kind("scalar", Absent)
      [] /\ s["codec"] = Absent /\ t.elem \in {"path", "bool"}
         /\ s["bytes"] # Absent /\ s["bytes"].n # 0                       -> Kind("nested", s["bytes"])
      [] OTHER                                                            -> NoKind

OneByte(t, kind) == IF kind.is = "scalar" THEN t.elem = "u8" ELSE kind.sized.n = 1

(* The last match, of a run, with with_stride.                             *)
Run(t, s) ==
    LET kind == ElementKind(t, s)
    IN  IF /\ s["count"] # Absent /\ kind # NoKind
           /\ s["count"].word = "until" => OneByte(t, kind)
           /\ s["stride"] # Absent =>
                s["count"].word = "count" /\ s["count"].by # s["stride"].by
        THEN Repeat(kind, s["count"], s["stride"], s["seek"], Absent, t.run)
        ELSE NoBody

(* fixed_carrier.                                                          *)
FixedCarrier(t, s) ==
    LET bytes == s["bytes"]
        codec == s["codec"]
    IN  CASE bytes # Absent /\ (codec # Absent \/ bytes.n = 0) -> NoKind
          [] bytes # Absent /\ codec = Absent /\ bytes.n # 0   ->
                Kind(IF t.elem \in {"array", "matrix", "paths"} THEN "nested array" ELSE "nested", bytes)
          [] bytes = Absent /\ codec # Absent                  ->
                IF codec.n = 8 /\ t.elem \notin Scalars \cup {"bool"} THEN Kind("codec", codec) ELSE NoKind
          [] OTHER -> IF t.elem \in Scalars \cup {"bool"} THEN Kind("scalar", Absent)
                      ELSE IF t.elem \in {"array", "matrix"} THEN Kind("array", Absent) ELSE NoKind

(* The last match, of one value, with fixed_kind: a record at an offset,   *)
(* or a field of a block.                                                  *)
Fixed(t, s) ==
    LET kind == FixedCarrier(t, s)
        int  == kind.is = "scalar" /\ t.elem \in Integral
    IN  IF \/ kind = NoKind \/ Has(s, {"count", "stride"})
           \/ s["range"] # Absent /\ ~int
           \/ s["magic"] # Absent /\ ~int /\ ~(kind.is = "array" /\ t.elem = "array")
           \/ s["seek"] # Absent /\ kind.is # "nested"
        THEN NoBody
        ELSE IF s["seek"] # Absent
        THEN [NoBody EXCEPT !.form = "placed", !.kind = kind, !.seek = s["seek"]]
        ELSE [NoBody EXCEPT !.form = "fixed", !.kind = kind, !.range = s["range"],
                            !.magic = s["magic"]]

(* #[until] of a run is its count.                                         *)
Counted(s) == [s EXCEPT !["count"] = s["until"], !["until"] = Absent]

Plain(t, s) == IF IsRun(t) THEN Run(t, s) ELSE Fixed(t, s)

(* Mutant: a stride is not looked for where the kind sizes the element.    *)
SizedStrideless(t, s) ==
    LET kind  == s["kind"].word
        ended == IsRun(t) /\ kind # "text" /\ s["until"] # Absent
        u     == IF ended THEN Counted(s) ELSE s
    IN  CASE \/ kind \in {"text", "var"} /\ s["codec"] # Absent
             \/ kind = "text" /\ s["seek"] # Absent
             \/ ended /\ s["count"] # Absent
             \/ u["until"] # Absent /\ kind # "text"
             \/ ended /\ kind # "none" -> NoBody
          [] OTHER -> CASE kind = "text"               -> Text(t, u)
                        [] kind \in {"var", "message"} -> SelfSized(t, u)
                        [] kind = "none"               -> Plain(t, u)

(* The rest of field_body.                                                 *)
Sized(t, s) ==
    LET kind  == s["kind"].word
        ended == IsRun(t) /\ kind # "text" /\ s["until"] # Absent
        u     == IF ended THEN Counted(s) ELSE s
    IN  CASE \/ kind \in {"text", "var"} /\ s["codec"] # Absent
             \/ kind = "text" /\ s["seek"] # Absent
             \/ ended /\ s["count"] # Absent
             \/ u["until"] # Absent /\ kind # "text"
             \/ s["stride"] # Absent /\ kind # "none"
             \/ ended /\ kind # "none" -> NoBody
          [] OTHER -> CASE kind = "text"               -> Text(t, u)
                        [] kind \in {"var", "message"} -> SelfSized(t, u)
                        [] kind = "none"               -> Plain(t, u)

(* field_body.                                                             *)
FieldBody(t, s) ==
    LET kind    == s["kind"].word
        claimed == Has(s, {"range", "magic"})
    IN  CASE s["with"] # Absent /\ kind # "message" -> NoBody
          [] (s["with"] = Absent \/ kind = "message") /\ t.run \in {"borrowed", "borrowed array"}
                -> Borrowed(t, s)
          [] OTHER ->
                IF claimed /\ Has(s, {"kind", "count"}) THEN NoBody
                ELSE IF kind = "checksum" THEN Checksum(t, s)
                ELSE IF kind \in {"switch", "rest"} THEN Switch(t, s)
                ELSE Sized(t, s)

(* optional: #[when] of an Option.                                         *)
Optional(when, b) ==
    CASE \/ b.form = "fixed" /\ when.word = "when"
         \/ b.form = "value" /\ when.word = "when" /\ b.kind.sized.word # "len"
                -> [b EXCEPT !.form = "opt", !.when = when]
      [] b.form = "placed" /\ when.word = "positive" /\ when.by # b.seek.by
                -> [b EXCEPT !.when = when, !.collection = "option"]
      [] OTHER -> NoBody

(* msg_field.                                                              *)
MsgField(t, s) ==
    LET bare == [s EXCEPT !["when"] = Absent]
        b    == FieldBody(t, bare)
    IN  CASE s["when"] # Absent -> IF t.option THEN Optional(s["when"], b) ELSE NoBody
          [] s["when"] = Absent /\ ~t.option -> b
          [] s["when"] = Absent /\ t.option /\ s["seek"] # Absent ->
                IF b.form = "placed" THEN [b EXCEPT !.collection = "option"] ELSE NoBody
          [] s["when"] = Absent /\ t.option /\ s["seek"] = Absent ->
                LET c == FieldBody(t, [bare EXCEPT !["count"] = Absent])
                IN  IF s["count"].word = "fill" /\ s["count"].n = 0 /\ c.form = "fixed"
                    THEN [c EXCEPT !.form = "opt", !.count = s["count"]] ELSE NoBody

ParseField ==
    LET b == MsgField(message[field].type, slots)
    IN  /\ phase = "fields" /\ ~Reading /\ (slots["at"] = Absent \/ slots["seek"] = Absent)
        /\ IF b.form = "refused"
           THEN Fail(field) /\ UNCHANGED <<field, slots, read, bodies>>
           ELSE /\ bodies' = Append(bodies, [body |-> b, stated |-> slots["at"],
                                             align |-> slots["align"]])
                /\ slots' = NoSlots /\ read' = 0 /\ UNCHANGED blame
                /\ IF field < Len(message) THEN field' = field + 1 /\ UNCHANGED phase
                   ELSE field' = 1 /\ phase' = "lower"
        /\ UNCHANGED <<message, block, segments>>

----------------------------------------------------------------------------
(* lower.  A segment holds the fields of a block, or one, with the body    *)
(* and the alignment of its length.                                        *)
Segment(fields, align) == [fields |-> fields, align |-> align]

Body(f) == bodies[f].body

Flushed == IF block = <<>> THEN segments ELSE Append(segments, Segment(block, Absent))

(* A length that a field states.                                           *)
Paddable(b) ==
    \/ b.form \in {"repeat", "switch"} /\ b.count.word = "len"
    \/ b.form = "value" /\ b.kind.sized.word = "len"
    \/ b.form = "placed" /\ b.when.word = "positive"

RestInside == \E f \in 1 .. Len(bodies) - 1 : Body(f).on.word = "rest"

LowerFixed ==
    /\ phase = "lower" /\ field <= Len(bodies) /\ ~RestInside
    /\ Body(field).form = "fixed" /\ bodies[field].align = Absent
    /\ block' = Append(block, field) /\ field' = field + 1
    /\ UNCHANGED <<message, phase, slots, read, bodies, segments, blame>>

LowerSegment ==
    LET b == Body(field)
    IN  /\ phase = "lower" /\ field <= Len(bodies) /\ ~RestInside
        /\ b.form # "fixed"
        /\ bodies[field].align # Absent => Paddable(b)
        /\ segments' = Append(Flushed, Segment(<<field>>, bodies[field].align))
        /\ block' = <<>> /\ field' = field + 1
        /\ UNCHANGED <<message, phase, slots, read, bodies, blame>>

(* A #[switch(..)] before the end, or padding after no stated length.      *)
RefuseLowering ==
    /\ phase = "lower" /\ field <= Len(bodies)
    /\ \/ RestInside
       \/ bodies[field].align # Absent /\ (Body(field).form = "fixed" \/ ~Paddable(Body(field)))
    /\ Fail(IF RestInside THEN CHOOSE f \in 1 .. Len(bodies) - 1 : Body(f).on.word = "rest"
            ELSE field)
    /\ UNCHANGED <<message, field, slots, read, bodies, block, segments>>

FlushLast ==
    /\ phase = "lower" /\ field > Len(bodies)
    /\ segments' = Flushed /\ block' = <<>> /\ phase' = "ranges"
    /\ UNCHANGED <<message, field, slots, read, bodies, blame>>

----------------------------------------------------------------------------
(* check_coverage, over the fields.                                        *)
SometimesAbsent(b) == b.form = "opt" \/ (b.form = "placed" /\ b.collection = "option")

Checksums == {f \in 1 .. Len(bodies) : Body(f).form = "checksum"}

(* Mutant: only the start of a range is looked up.                         *)
RangeOkUnended(f) ==
    LET over == Body(f).over
        last == IF over.to = 0 THEN f - 1 ELSE IF over.n = 1 THEN over.to ELSE over.to - 1
    IN  /\ over.by # 0 => over.by <= Len(bodies) /\ ~SometimesAbsent(Body(over.by))
        /\ over.by # f /\ over.to # f
        /\ last >= 1 /\ over.by <= last

RangeOk(f) ==
    LET over == Body(f).over
        last == IF over.to = 0 THEN f - 1 ELSE IF over.n = 1 THEN over.to ELSE over.to - 1
    IN  /\ \A r \in {over.by, over.to} \ {0} : r <= Len(bodies) /\ ~SometimesAbsent(Body(r))
        /\ over.by # f /\ over.to # f
        /\ last >= 1 /\ over.by <= last

CheckCoverage ==
    /\ phase = "ranges"
    /\ IF \A f \in Checksums : RangeOk(f) THEN phase' = "model" /\ UNCHANGED blame
       ELSE Fail(CHOOSE f \in Checksums : ~RangeOk(f))
    /\ UNCHANGED <<message, field, slots, read, bodies, block, segments>>

----------------------------------------------------------------------------
(* The model's validation: what the segments refer to, where they stand,   *)
(* what follows an open end, and coverage, over the places in wire order.  *)
Only(k)     == segments[k].fields[1]
FieldsOf(k) == {segments[k].fields[i] : i \in DOMAIN segments[k].fields}

(* needs: the parameters of the struct, which a message that borrows its   *)
(* input may not have.                                                     *)
Needs ==
    {p \in Params : \E f \in 1 .. Len(message) :
        \E i \in DOMAIN message[f].attrs : message[f].attrs[i].by = p}

Borrows == \E f \in 1 .. Len(message) : message[f].type.run \in {"borrowed", "borrowed array"}

(* What a segment refers to, in the order in which it is resolved.         *)
References(b) == <<b.on, b.kind.sized, b.count, b.stride, b.seek, b.with, b.when>>

(* reference_site: the fields a field names.                               *)
Sites(b) == {References(b)[i].by : i \in DOMAIN References(b)} \ {0}

(* Seen: the fields of earlier blocks and values, after the parameters.    *)
SeenBy(k) ==
    {f \in UNION {FieldsOf(j) : j \in 1 .. k - 1} : Body(f).form \in {"fixed", "value"}}

IsNumber(f) ==
    \/ Body(f).kind.is \in {"codec", "var"}
    \/ Body(f).kind.is = "scalar" /\ message[f].type.elem \in Integral
IsFlag(f)   == Body(f).kind.is = "scalar" /\ message[f].type.elem = "bool"

(* resolve: a number, or for a flag's test a bool.                         *)
Resolved(k, a) ==
    LET flag == a.word = "when" /\ a.n = 0
    IN  \/ a.by = 0
        \/ a.by \in Params /\ ~flag
        \/ a.by \in SeenBy(k) /\ IF flag THEN IsFlag(a.by) ELSE IsNumber(a.by)

(* read_only: a parameter, where encode would write the value back.        *)
WrittenBack(a) == a.word \in {"seek", "when", "positive"} /\ a.by \in Params

BadReferences(k) ==
    {i \in DOMAIN References(Body(Only(k))) :
        LET a == References(Body(Only(k)))[i] IN ~Resolved(k, a) \/ WrittenBack(a)}

(* Fixed bytes at an offset: a run without a number of elements.           *)
BytesAtOffset(f) ==
    Body(f).form = "repeat" /\ Body(f).count.word = "bytes" /\ Body(f).seek # Absent

(* fixed_bits, in bytes, and the cursor: where the field after f stands.   *)
Unknown == -1

CarrierBytes(kind, elem) ==
    CASE kind.is = "scalar"       -> [u8 |-> 1, u16 |-> 2, f32 |-> 4, bool |-> 1][elem]
      [] kind.is = "array"        -> IF elem = "array" THEN 2 ELSE 4
      [] kind.is = "codec"        -> 1
      [] kind.is = "nested"       -> kind.sized.n
      [] kind.is = "nested array" -> 2 * kind.sized.n

FixedBytes(b, elem) ==
    CASE b.form = "checksum"                             -> CarrierBytes(Kind("scalar", Absent), elem)
      [] b.form = "fixed"                                -> CarrierBytes(b.kind, elem)
      [] b.form = "value" /\ b.kind.sized.word = "bytes" -> b.kind.sized.n
      [] /\ b.form \in {"repeat", "switch"}
         /\ b.count.word = "bytes" /\ b.seek = Absent    -> b.count.n
      [] OTHER                                           -> Unknown

Widths == [f \in 1 .. Len(bodies) |-> FixedBytes(Body(f), message[f].type.elem)]

Cursor(widths) ==
    LET at[f \in 0 .. Len(widths)] ==
            IF f = 0 THEN 0
            ELSE IF Unknown \in {at[f - 1], widths[f]} THEN Unknown ELSE at[f - 1] + widths[f]
    IN  at

(* stated_here: after a length only the wire knows, or elsewhere.          *)
Unplaced(f)  == bodies[f].stated # Absent /\ Cursor(Widths)[f - 1] = Unknown
Misplaced(f) ==
    bodies[f].stated # Absent /\ Cursor(Widths)[f - 1] \notin {Unknown, bodies[f].stated.n}

BadPositions(k) == {f \in FieldsOf(k) : Unplaced(f) \/ Misplaced(f)}

OpenEnded(b) ==
    \/ b.form = "repeat" /\ b.count.word = "fill"
    \/ b.form \in {"value", "opt"} /\ b.kind.is = "text" /\ b.kind.sized.word = "fill"

Places ==
    LET at(f) == Cardinality({g \in 1 .. f : ~SometimesAbsent(Body(g))})
    IN  [f \in {g \in 1 .. Len(bodies) : ~SometimesAbsent(Body(g))} |-> at(f)]

(* coverage: the complaint is about the checksum, or names no field.       *)
PlaceMissing(f) ==
    \E r \in {Body(f).over.by, Body(f).over.to} \ {0} : r \notin DOMAIN Places

FirstCovered(f) == IF Body(f).over.by = 0 THEN 1 ELSE Places[Body(f).over.by]
LastCovered(f)  ==
    LET over == Body(f).over
    IN  IF over.to = 0 THEN Places[f] - 1
        ELSE IF over.n = 1 THEN Places[over.to] ELSE Places[over.to] - 1

CoverageOk(f) ==
    Body(f).over.by # f /\ Body(f).over.to # f /\ FirstCovered(f) <= LastCovered(f)

(* stampable: the loop that stamps a checksum which waits for none stops   *)
(* short when those left all wait for each other (as in Walk).             *)
Covers(f, g) ==
    f # g /\ ~PlaceMissing(f) /\ Places[g] \in FirstCovered(f) .. LastCovered(f)
Stampable ==
    \A S \in SUBSET Checksums : S # {} => \E f \in S : \A g \in S : ~Covers(f, g)

FollowsOpenEnd(k) == k > 1 /\ OpenEnded(Body(Only(k - 1)))
BadRange(k) ==
    Body(Only(k)).form = "checksum" /\ (PlaceMissing(Only(k)) \/ ~CoverageOk(Only(k)))

Bad ==
    {k \in DOMAIN segments :
        \/ FollowsOpenEnd(k) \/ BadPositions(k) # {} \/ BytesAtOffset(Only(k))
        \/ BadReferences(k) # {} \/ BadRange(k)}

(* invalid: reference_site finds the first field that names the target,    *)
(* after_open_end the field after an open one; the rest of what does not   *)
(* come with a field is an error at the struct.                            *)
NamedBy(r) == {f \in 1 .. Len(bodies) : r \in Sites(Body(f))}
Lowest(S)  == IF S = {} THEN 0 ELSE CHOOSE f \in S : \A g \in S : f <= g

OpenBody(b) ==
    \/ b.form = "repeat" /\ b.count.word \notin {"count", "square", "len", "mask", "until", "bytes"}
    \/ b.form \in {"value", "opt"} /\ b.kind.is = "text" /\ b.kind.sized.word = "fill"

Blamed(k) ==
    LET f == Lowest(BadPositions(k))
        a == References(Body(Only(k)))[Lowest(BadReferences(k))]
    IN  IF FollowsOpenEnd(k)
        THEN Lowest({g \in 2 .. Len(bodies) : \E h \in 1 .. g - 1 : OpenBody(Body(h))})
        ELSE IF BadPositions(k) # {} THEN IF Unplaced(f) THEN f ELSE 0
        ELSE IF BytesAtOffset(Only(k)) THEN 0
        ELSE IF BadReferences(k) # {} THEN IF ~Resolved(k, a) THEN Lowest(NamedBy(a.by)) ELSE 0
        ELSE IF PlaceMissing(Only(k)) THEN 0 ELSE Only(k)

Validate ==
    /\ phase = "model"
    /\ IF Borrows /\ Needs # {} THEN Fail(0)
       ELSE IF Bad # {} THEN Fail(Blamed(Lowest(Bad)))
       ELSE IF ~Stampable THEN Fail(0)
       ELSE phase' = "predicates" /\ UNCHANGED blame
    /\ UNCHANGED <<message, field, slots, read, bodies, block, segments>>

(* check_predicates: a flags word states nothing else, a flag tests one    *)
(* field, and a mask fits its word: here a mask's n is the byte it tests.  *)
Claims(b) ==
    {a.by : a \in {IF b.count.word = "square" THEN Absent ELSE b.count, b.stride, b.seek, b.on,
                   IF b.form = "value" THEN b.kind.sized ELSE Absent,
                   IF b.form = "placed" THEN b.when ELSE Absent}} \ {0}

PredicateOk(f) ==
    LET b == Body(f)
    IN  b.form = "opt" /\ b.when # Absent =>
            /\ \A g \in 1 .. Len(bodies) : b.when.by \notin Claims(Body(g))
            /\ IF b.when.n = 0
               THEN \A g \in (1 .. Len(bodies)) \ {f} :
                        Body(g).form = "opt" => Body(g).when.by # b.when.by
               ELSE (\/ Body(b.when.by).kind.is = "codec"
                     \/ message[b.when.by].type.elem = "u8") => b.when.n = 1

CheckPredicates ==
    LET bad == {f \in 1 .. Len(bodies) : ~PredicateOk(f)}
    IN  /\ phase = "predicates"
        /\ IF bad = {} THEN phase' = "accepted" /\ UNCHANGED blame ELSE Fail(Lowest(bad))
        /\ UNCHANGED <<message, field, slots, read, bodies, block, segments>>

Next ==
    \/ ReadAttribute \/ RefuseAttribute \/ ParseField
    \/ LowerFixed \/ LowerSegment \/ RefuseLowering \/ FlushLast
    \/ CheckCoverage \/ Validate \/ CheckPredicates

Spec == Init /\ [][Next]_vars

----------------------------------------------------------------------------
(* The attributes a field's segment still shows.                           *)
Shown(k, f) ==
    LET b == Body(f)
    IN  {b.kind.sized, b.count, b.stride, b.seek, b.when, b.on, b.over, b.range, b.magic, b.with,
         bodies[f].stated, segments[k].align} \ {Absent}

ShownKind(f) == IF Body(f).kind.is \in {"text", "var", "message"} THEN {Body(f).kind.is} ELSE {}

(* A claim on the elements of a run that #[until] ends is lost: whether a  *)
(* claim stands beside a count is asked before #[until] is made the count. *)
LosesClaim(f) == Body(f).form = "repeat" /\ Body(f).count.word \in {"until", "mask"}

SegmentOf(f) == CHOOSE k \in DOMAIN segments : f \in FieldsOf(k)

Flattened[k \in 0 .. Len(segments)] == IF k = 0 THEN <<>> ELSE Flattened[k - 1] \o segments[k].fields

(* What is written on a field of an accepted struct is in its segment, and *)
(* nothing else is; and the segments hold the fields in the order of the   *)
(* struct (field_body, optional, lower).                                   *)
NothingIgnored ==
    phase = "accepted" =>
        /\ Flattened[Len(segments)] = [f \in 1 .. Len(message) |-> f]
        /\ \A f \in 1 .. Len(message) :
            LET written == {message[f].attrs[i] : i \in DOMAIN message[f].attrs}
                shown   == Shown(SegmentOf(f), f)
                kind    == {a \in written : a.word \in ShownKind(f)}
            IN  /\ \A a \in written \ (shown \cup kind) : LosesClaim(f) /\ a.word \in {"range", "magic"}
                /\ shown \subseteq written \cup {Implied(2)}
                /\ Cardinality(kind) = Cardinality(ShownKind(f))

(* An error points at a field unless what is wrong is of the struct as a   *)
(* whole, or is one of three things the model's validation says of a field *)
(* and the derive does not point there: a field that stands elsewhere than *)
(* its #[at], fixed bytes at an offset, and a parameter that encode would  *)
(* have to write.  For the rest, check_coverage leaves the validation no   *)
(* range to complain about whose field it cannot name, and the derive's    *)
(* own account of references and open ends agrees with the model's         *)
(* (invalid, reference_site, after_open_end).                              *)
RefusedInPlace ==
    phase = "refused" /\ blame = 0 =>
        \/ Borrows /\ Needs # {}
        \/ ~Stampable
        \/ \E f \in 1 .. Len(bodies) : Misplaced(f) \/ BytesAtOffset(f)
        \/ \E f \in 1 .. Len(message) :
              \E i \in DOMAIN message[f].attrs : WrittenBack(message[f].attrs[i])
=============================================================================
