-------------------------- MODULE AttributesProofs --------------------------
(***************************************************************************)
(* Proofs about the attributes of derive(Message).                         *)
(*                                                                         *)
(* Every body that is not refused shows exactly the slots it was made of:  *)
(* one lemma per function of field_body, put together in MsgFieldFaithful. *)
(* The inductive invariant says that the slots hold the attributes read so *)
(* far, that each body comes of its field's, and that the segments and the *)
(* block hold the fields so far in order.  NothingIgnored follows from it; *)
(* RefusedInPlace follows with what check_coverage has established, its    *)
(* exceptions being said of the struct and its bodies alone.               *)
(***************************************************************************)
EXTENDS Attributes, SequenceTheorems, FiniteSetTheorems, WellFoundedInduction, TLAPS

(* A nonempty set of naturals has a least element: induction over data.    *)
LEMMA NatLeast ==
    ASSUME NEW T \in SUBSET Nat, T # {}
    PROVE  \E x \in T : \A y \in T : x <= y
<1> DEFINE R == OpToRel(<, Nat)
<1>1. IsWellFoundedOn(R, Nat)
  BY NatLessThanWellFounded
<1>2. PICK x \in T : \A y \in T : <<y, x>> \notin R
  <2> HIDE DEF R
  <2> QED BY <1>1, WFMin
<1>3. \A y \in T : ~(y < x)
  BY <1>2 DEF OpToRel
<1>4. \A y \in T : x <= y
  <2> HIDE DEF R
  <2> QED BY <1>3
<1> QED BY <1>4

(***************************************************************************)
(* Words and slots.                                                        *)
(***************************************************************************)
LEMMA SlotsListed ==
    /\ Slots = {"count", "stride", "at", "seek", "codec", "bytes", "until", "kind", "when",
                "with", "range", "magic", "align", "foreign"}
    /\ \A w \in Words : SlotOf[w] \in Slots
<1>1. Words = {"count", "square", "len", "fill", "stride", "at", "seek", "codec", "bytes",
               "until", "mask", "text", "var", "message", "switch", "rest", "checksum", "when",
               "positive", "with", "range", "magic", "align", "foreign"}
  BY DEF Words, SlotOf
<1>2. \A w \in Words : SlotOf[w] \in Slots
  BY DEF Slots
<1>3. Slots \subseteq {"count", "stride", "at", "seek", "codec", "bytes", "until", "kind", "when",
                "with", "range", "magic", "align", "foreign"}
  BY <1>1 DEF Slots, SlotOf
<1>4. \A w \in {"count", "stride", "at", "seek", "codec", "bytes", "until", "when", "with", "range",
               "magic", "align", "foreign"} : SlotOf[w] = w
  BY DEF SlotOf
<1>5. SlotOf["text"] = "kind"
  BY DEF SlotOf
<1>6. \A w \in {"count", "stride", "at", "seek", "codec", "bytes", "until", "when", "with", "range",
               "magic", "align", "foreign"} : w \in Slots
  BY <1>1, <1>2, <1>4
<1>7. "kind" \in Slots
  BY <1>1, <1>2, <1>5
<1> QED BY <1>2, <1>3, <1>6, <1>7

(* The words of the kind slot, and the slots of the words that matter.     *)
LEMMA WordSlots ==
    /\ "none" \notin Words
    /\ \A w \in Words : SlotOf[w] = "kind" =>
          w \in {"text", "var", "message", "switch", "rest", "checksum"}
    /\ \A w \in {"text", "var", "message"} : w \in Words /\ SlotOf[w] = "kind"
    /\ \A w \in Words : SlotOf[w] = "bytes" => w = "bytes"
    /\ \A w \in Words : SlotOf[w] = "until" => w \in {"until", "mask"}
    /\ \A w \in Words : SlotOf[w] \in {"range", "magic"} => w \in {"range", "magic"}
    /\ \A w \in Words : SlotOf[w] = "count" => w \in {"count", "square", "len", "fill"}
BY DEF Words, SlotOf

----------------------------------------------------------------------------
(***************************************************************************)
(* From slots to a body.                                                   *)
(***************************************************************************)
Attrs(b) == {b.kind.sized, b.count, b.stride, b.seek, b.when, b.on, b.over, b.range, b.magic, b.with}

Loses(b) == b.form = "repeat" /\ b.count.word \in {"until", "mask"}

(* A body shows the attributes of its slots and no others: all but the     *)
(* word of its kind, and a claim on the elements of a run that is ended.   *)
Drawn(b, s) == \A a \in Attrs(b) : a \in {Absent, Implied(2)} \/ \E x \in Slots : a = s[x]

Shows(b, s) ==
    /\ \A x \in {"count", "stride", "seek", "codec", "bytes", "until", "with"} :
          s[x] # Absent => s[x] \in Attrs(b)
    /\ \A x \in {"range", "magic"} : s[x] # Absent => s[x] \in Attrs(b) \/ Loses(b)

ShowsKind(b, s) ==
    /\ s["kind"] # Absent =>
          s["kind"] \in Attrs(b) \/ (s["kind"].word = b.kind.is /\ b.kind.is \in {"text", "var", "message"})
    /\ b.kind.is \in {"text", "var", "message"} => b.kind.is = s["kind"].word

Plainly(b) == b.when = Absent /\ (b.form = "fixed" => b.count = Absent)

Faithful(b, s) == Drawn(b, s) /\ Shows(b, s) /\ ShowsKind(b, s) /\ Plainly(b)

(* The slots a field's attributes are read into.                           *)
Slotted(s) ==
    /\ s \in [Slots -> Attribute]
    /\ \A x \in Slots : s[x] = Absent \/ (s[x].word \in Words /\ SlotOf[s[x].word] = x)
    /\ s["bytes"] # Absent => s["bytes"] = Implied(s["bytes"].n)

LEMMA RepeatParts ==
    ASSUME NEW kind, NEW count, NEW stride, NEW seek, NEW with, NEW collection, NEW b,
           b = Repeat(kind, count, stride, seek, with, collection)
    PROVE  /\ b.form = "repeat" /\ b.kind = kind /\ b.count = count /\ b.stride = stride
           /\ b.seek = seek /\ b.with = with /\ b.when = Absent
           /\ Attrs(b) = {Absent, kind.sized, count, stride, seek, with}
<1>1. /\ b.form = "repeat" /\ b.kind = kind /\ b.count = count /\ b.stride = stride
      /\ b.seek = seek /\ b.with = with /\ b.when = Absent
      /\ b.on = Absent /\ b.over = Absent /\ b.range = Absent /\ b.magic = Absent
  BY DEF Repeat, NoBody
<1> QED BY <1>1 DEF Attrs

LEMMA AbsentParts ==
    /\ Absent \in Attribute /\ Absent.word = "none" /\ Absent.by = 0
    /\ Implied(2) \in Attribute /\ Implied(2).word = "bytes" /\ Implied(2).by = 0
    /\ NoBody.form = "refused"
    /\ NoKind.is = "none" /\ NoKind.sized = Absent
    /\ \A is, sized : Kind(is, sized).is = is /\ Kind(is, sized).sized = sized
<1>1. /\ Absent \in Attribute /\ Absent.word = "none" /\ Absent.by = 0
      /\ Implied(2) \in Attribute /\ Implied(2).word = "bytes" /\ Implied(2).by = 0
  <2>1. "bytes" \in Words
    BY DEF Words, SlotOf
  <2> QED BY <2>1 DEF Absent, Attribute, Implied
<1>2. \A is, sized : Kind(is, sized).is = is /\ Kind(is, sized).sized = sized
  BY DEF Kind
<1>3. NoKind.is = "none" /\ NoKind.sized = Absent
  BY <1>2 DEF NoKind
<1>4. NoBody.form = "refused"
  BY DEF NoBody
<1> QED BY <1>1, <1>2, <1>3, <1>4

LEMMA KindWord ==
    ASSUME NEW s, Slotted(s)
    PROVE  /\ s["kind"].word \in {"none", "text", "var", "message", "switch", "rest", "checksum"}
           /\ (s["kind"].word = "none") = (s["kind"] = Absent)
           /\ s["kind"] \in Attribute
<1>1. s["kind"] \in Attribute
  BY SlotsListed DEF Slotted
<1>2. s["kind"] = Absent \/ (s["kind"].word \in Words /\ SlotOf[s["kind"].word] = "kind")
  BY SlotsListed DEF Slotted
<1> QED BY <1>1, <1>2, WordSlots, AbsentParts

LEMMA BorrowedFaithful ==
    ASSUME NEW t, NEW s, Slotted(s), s["with"] = Absent, Borrowed(t, s).form # "refused"
    PROVE  Faithful(Borrowed(t, s), s)
<1> DEFINE b == Borrowed(t, s)
<1>1. BorrowedOk(t, s)
  BY AbsentParts DEF Borrowed
<1>2. b = Repeat(Kind("scalar", Absent), BorrowedCount(t, s), Absent, s["seek"], Absent, t.run)
  BY <1>1 DEF Borrowed
<1> HIDE DEF b
<1>3. /\ b.form = "repeat" /\ b.kind.is = "scalar" /\ b.when = Absent
      /\ Attrs(b) = {Absent, BorrowedCount(t, s), s["seek"]}
  BY <1>2, RepeatParts, AbsentParts
<1>4. \A x \in {"kind", "codec", "until", "stride", "range", "magic"} : s[x] = Absent
  BY <1>1 DEF BorrowedOk, Has
<1>5. /\ BorrowedCount(t, s) \in {s["count"], s["bytes"], Implied(2)}
      /\ s["count"] # Absent => BorrowedCount(t, s) = s["count"]
      /\ s["bytes"] # Absent => BorrowedCount(t, s) = s["bytes"]
  <2>1. CASE t.run = "borrowed array"
    <3>1. BorrowedCount(t, s) = Implied(2) /\ s["count"] = Absent
      BY <2>1, <1>1 DEF BorrowedCount, BorrowedOk
    <3>2. ASSUME s["bytes"] # Absent PROVE s["bytes"] = Implied(2)
      <4>1. s["bytes"] = Implied(s["bytes"].n)
        BY <3>2 DEF Slotted
      <4>2. s["bytes"].n = 2
        BY <3>2, <2>1, <1>1 DEF BorrowedOk
      <4> QED BY <4>1, <4>2
    <3> QED BY <3>1, <3>2
  <2>2. CASE t.run # "borrowed array"
    BY <2>2, <1>1 DEF BorrowedCount, BorrowedOk
  <2> QED BY <2>1, <2>2
<1>6. Drawn(b, s)
  BY <1>3, <1>5, SlotsListed DEF Drawn
<1>7. Shows(b, s)
  BY <1>3, <1>4, <1>5 DEF Shows
<1>8. ShowsKind(b, s) /\ Plainly(b)
  BY <1>3, <1>4 DEF ShowsKind, Plainly
<1> QED BY <1>6, <1>7, <1>8 DEF Faithful, b

LEMMA ChecksumFaithful ==
    ASSUME NEW t, NEW s, Slotted(s), Checksum(t, s).form # "refused",
           \A x \in {"with", "range", "magic"} : s[x] = Absent
    PROVE  Faithful(Checksum(t, s), s)
<1> DEFINE b == Checksum(t, s)
<1>1. ~Has(s, {"count", "seek", "codec", "bytes", "until", "stride"})
      /\ b = [NoBody EXCEPT !.form = "checksum", !.over = s["kind"]]
  BY AbsentParts DEF Checksum
<1> HIDE DEF b
<1>2. /\ b.form = "checksum" /\ b.kind = NoKind /\ b.when = Absent
      /\ Attrs(b) = {Absent, s["kind"]}
  BY <1>1, AbsentParts DEF NoBody, Attrs
<1>3. \A x \in {"count", "seek", "codec", "bytes", "until", "stride"} : s[x] = Absent
  BY <1>1 DEF Has
<1>4. Drawn(b, s) /\ Shows(b, s)
  BY <1>2, <1>3, SlotsListed DEF Drawn, Shows
<1>5. ShowsKind(b, s) /\ Plainly(b)
  BY <1>2, AbsentParts DEF ShowsKind, Plainly
<1> QED BY <1>4, <1>5 DEF Faithful, b

LEMMA SwitchFaithful ==
    ASSUME NEW t, NEW s, Slotted(s), Switch(t, s).form # "refused",
           \A x \in {"with", "range", "magic"} : s[x] = Absent
    PROVE  Faithful(Switch(t, s), s)
<1> DEFINE b == Switch(t, s)
           count == IF s["count"] # Absent THEN s["count"] ELSE s["bytes"]
<1>1. /\ ~Has(s, {"seek", "codec", "until", "stride"})
      /\ s["bytes"] # Absent => s["count"] = Absent
      /\ b = [NoBody EXCEPT !.form = "switch", !.on = s["kind"], !.count = count]
  BY AbsentParts DEF Switch
<1>2. /\ count \in {s["count"], s["bytes"]}
      /\ s["count"] # Absent => count = s["count"]
      /\ s["bytes"] # Absent => count = s["bytes"]
  BY <1>1
<1> HIDE DEF b, count
<1>3. /\ b.form = "switch" /\ b.kind = NoKind /\ b.when = Absent
      /\ Attrs(b) = {Absent, s["kind"], count}
  BY <1>1, AbsentParts DEF NoBody, Attrs
<1>4. \A x \in {"seek", "codec", "until", "stride"} : s[x] = Absent
  BY <1>1 DEF Has
<1>5. Drawn(b, s)
  BY <1>2, <1>3, SlotsListed DEF Drawn
<1>6. Shows(b, s)
  BY <1>2, <1>3, <1>4 DEF Shows
<1>7. ShowsKind(b, s) /\ Plainly(b)
  BY <1>3, AbsentParts DEF ShowsKind, Plainly
<1> QED BY <1>5, <1>6, <1>7 DEF Faithful, b
LEMMA FewFinite ==
    ASSUME NEW a, NEW b, NEW c
    PROVE  IsFiniteSet({a, b}) /\ IsFiniteSet({a, b, c})
<1>1. IsFiniteSet({a})
  BY FS_Singleton
<1>2. IsFiniteSet({a} \cup {b})
  BY <1>1, FS_AddElement
<1>3. IsFiniteSet(({a} \cup {b}) \cup {c})
  BY <1>2, FS_AddElement
<1>4. {a} \cup {b} = {a, b} /\ ({a} \cup {b}) \cup {c} = {a, b, c}
  OBVIOUS
<1> QED BY <1>2, <1>3, <1>4

LEMMA Singled ==
    ASSUME NEW S, IsFiniteSet(S), Cardinality(S) = 1
    PROVE  (CHOOSE a \in S : TRUE) \in S /\ \A a \in S : a = CHOOSE c \in S : TRUE
<1>1. PICK e : S = {e}
  BY FS_Singleton
<1> QED BY <1>1

(* A text, or a run of them, keeps the one attribute that sizes it.        *)
LEMMA TextFaithful ==
    ASSUME NEW t, NEW s, Slotted(s), Text(t, s).form # "refused", s["kind"].word = "text",
           \A x \in {"codec", "seek", "stride", "with", "range", "magic"} : s[x] = Absent
    PROVE  Faithful(Text(t, s), s)
<1> DEFINE b     == Text(t, s)
           sizes == {s[x] : x \in {"until", "bytes"}} \ {Absent}
           one   == sizes \cup ({s["count"]} \ {Absent})
           size  == CHOOSE a \in one : TRUE
           run   == CHOOSE a \in sizes : TRUE
<1>1. sizes \subseteq {s["until"], s["bytes"]} /\ one \subseteq {s["until"], s["bytes"], s["count"]}
  OBVIOUS
<1>2. IsFiniteSet(sizes) /\ IsFiniteSet(one)
  <2>1. /\ IsFiniteSet({s["until"], s["bytes"]})
        /\ IsFiniteSet({s["until"], s["bytes"], s["count"]})
    BY FewFinite
  <2> QED BY <1>1, <2>1, FS_Subset
<1>3. \A x \in {"until", "bytes"} : s[x] # Absent => s[x] \in sizes
  OBVIOUS
<1>4. \A x \in {"until", "bytes", "count"} : s[x] # Absent => s[x] \in one
  OBVIOUS
<1>5. \/ /\ s["count"] # Absent /\ Cardinality(sizes) = 1
         /\ b = Repeat(Kind("text", run), s["count"], Absent, Absent, Absent, "vec")
      \/ /\ Cardinality(one) = 1
         /\ b = [NoBody EXCEPT !.form = "value", !.kind = Kind("text", size)]
  BY AbsentParts DEF Text
<1>6. CASE /\ s["count"] # Absent /\ Cardinality(sizes) = 1
           /\ b = Repeat(Kind("text", run), s["count"], Absent, Absent, Absent, "vec")
  <2>1. run \in sizes /\ \A a \in sizes : a = run
    BY <1>2, <1>6, Singled
  <2> HIDE DEF b, run, sizes
  <2>2. /\ b.form = "repeat" /\ b.kind.is = "text" /\ b.when = Absent
        /\ Attrs(b) = {Absent, run, s["count"]}
    BY <1>6, RepeatParts, AbsentParts
  <2>3. run \in {s["until"], s["bytes"]}
    BY <2>1, <1>1
  <2>4. Drawn(b, s)
    BY <2>2, <2>3, SlotsListed DEF Drawn
  <2>5. Shows(b, s)
    BY <1>3, <2>1, <2>2 DEF Shows
  <2>6. ShowsKind(b, s) /\ Plainly(b)
    BY <2>2 DEF ShowsKind, Plainly
  <2> QED BY <2>4, <2>5, <2>6 DEF Faithful, b
<1>7. CASE /\ Cardinality(one) = 1
           /\ b = [NoBody EXCEPT !.form = "value", !.kind = Kind("text", size)]
  <2>1. size \in one /\ \A a \in one : a = size
    BY <1>2, <1>7, Singled
  <2> HIDE DEF b, size, one
  <2>2. b.form = "value" /\ b.kind = Kind("text", size) /\ b.when = Absent
    BY <1>7 DEF NoBody
  <2>3. Attrs(b) = {Absent, size} /\ b.kind.is = "text"
    <3>1. /\ b.count = Absent /\ b.stride = Absent /\ b.seek = Absent /\ b.on = Absent
          /\ b.over = Absent /\ b.range = Absent /\ b.magic = Absent /\ b.with = Absent
      BY <1>7 DEF NoBody
    <3>2. b.kind.sized = size /\ b.kind.is = "text"
      BY <2>2, AbsentParts
    <3> QED BY <2>2, <3>1, <3>2 DEF Attrs
  <2>4. size \in {s["until"], s["bytes"], s["count"]}
    BY <2>1, <1>1
  <2>5. Drawn(b, s)
    BY <2>3, <2>4, SlotsListed DEF Drawn
  <2>6. Shows(b, s)
    BY <1>4, <2>1, <2>3 DEF Shows
  <2>7. ShowsKind(b, s) /\ Plainly(b)
    BY <2>2, <2>3 DEF ShowsKind, Plainly
  <2> QED BY <2>5, <2>6, <2>7 DEF Faithful, b
<1> QED BY <1>5, <1>6, <1>7

LEMMA SelfSizedFaithful ==
    ASSUME NEW t, NEW s, Slotted(s), SelfSized(t, s).form # "refused",
           s["kind"].word \in {"var", "message"},
           \A x \in {"stride", "until", "range", "magic"} : s[x] = Absent
    PROVE  Faithful(SelfSized(t, s), s)
<1> DEFINE b    == SelfSized(t, s)
           kind == Kind(s["kind"].word, Absent)
<1>1. /\ ~Has(s, {"bytes", "codec"}) /\ IsRun(t) = (s["count"] # Absent)
      /\ \/ /\ IsRun(t) /\ b = Repeat(kind, s["count"], Absent, s["seek"], s["with"], "vec")
         \/ /\ ~IsRun(t) /\ s["seek"] = Absent
            /\ b = [NoBody EXCEPT !.form = "value", !.kind = kind, !.with = s["with"]]
         \/ /\ ~IsRun(t)
            /\ b = [NoBody EXCEPT !.form = "placed", !.kind = kind, !.seek = s["seek"],
                                  !.with = s["with"]]
  BY AbsentParts DEF SelfSized, IsRun
<1>2. s["bytes"] = Absent /\ s["codec"] = Absent
  BY <1>1 DEF Has
<1>3. kind.is = s["kind"].word /\ kind.sized = Absent
  BY AbsentParts
<1> HIDE DEF b, kind
<1>4. /\ b.kind = kind /\ b.when = Absent /\ b.form # "fixed"
      /\ Attrs(b) \subseteq {Absent, s["count"], s["seek"], s["with"]}
      /\ \A x \in {"count", "seek", "with"} : s[x] # Absent => s[x] \in Attrs(b)
  <2>1. CASE IsRun(t) /\ b = Repeat(kind, s["count"], Absent, s["seek"], s["with"], "vec")
    BY <1>3, <2>1, RepeatParts
  <2>2. CASE /\ ~IsRun(t) /\ s["seek"] = Absent
             /\ b = [NoBody EXCEPT !.form = "value", !.kind = kind, !.with = s["with"]]
    <3>1. b.kind = kind /\ b.when = Absent /\ b.form = "value"
      BY <2>2 DEF NoBody
    <3>2. Attrs(b) = {Absent, s["with"]}
      BY <1>3, <2>2 DEF NoBody, Attrs
    <3> QED BY <1>1, <2>2, <3>1, <3>2
  <2>3. CASE /\ ~IsRun(t)
             /\ b = [NoBody EXCEPT !.form = "placed", !.kind = kind, !.seek = s["seek"],
                                   !.with = s["with"]]
    <3>1. b.kind = kind /\ b.when = Absent /\ b.form = "placed"
      BY <2>3 DEF NoBody
    <3>2. Attrs(b) = {Absent, s["seek"], s["with"]}
      BY <1>3, <2>3 DEF NoBody, Attrs
    <3> QED BY <1>1, <2>3, <3>1, <3>2
  <2> QED BY <1>1, <2>1, <2>2, <2>3
<1>5. Drawn(b, s)
  BY <1>4, SlotsListed DEF Drawn
<1>6. Shows(b, s)
  BY <1>2, <1>4 DEF Shows
<1>7. ShowsKind(b, s) /\ Plainly(b)
  BY <1>3, <1>4 DEF ShowsKind, Plainly
<1> QED BY <1>5, <1>6, <1>7 DEF Faithful, b

LEMMA RunFaithful ==
    ASSUME NEW t, NEW s, Run(t, s).form # "refused",
           \A x \in {"kind", "until", "with"} : s[x] = Absent,
           s["count"].word \in {"until", "mask"} \/ \A x \in {"range", "magic"} : s[x] = Absent
    PROVE  Faithful(Run(t, s), s)
<1> DEFINE b    == Run(t, s)
           kind == ElementKind(t, s)
<1>1. /\ kind # NoKind
      /\ b = Repeat(kind, s["count"], s["stride"], s["seek"], Absent, t.run)
  BY AbsentParts DEF Run
<1>2. /\ s["codec"] = Absent /\ kind.is \in {"scalar", "nested"}
      /\ kind.sized \in {Absent, s["bytes"]}
      /\ s["bytes"] # Absent => kind.sized = s["bytes"]
  <2>1. \/ s["codec"] = Absent /\ s["bytes"] = Absent /\ kind = Kind("scalar", Absent)
        \/ s["codec"] = Absent /\ kind = Kind("nested", s["bytes"])
    BY <1>1 DEF ElementKind
  <2> QED BY <2>1, AbsentParts
<1> HIDE DEF b, kind
<1>3. /\ b.form = "repeat" /\ b.kind = kind /\ b.count = s["count"] /\ b.when = Absent
      /\ Attrs(b) = {Absent, kind.sized, s["count"], s["stride"], s["seek"]}
  BY <1>1, RepeatParts
<1>4. Drawn(b, s)
  BY <1>2, <1>3, SlotsListed DEF Drawn
<1>5. Shows(b, s)
  BY <1>2, <1>3 DEF Shows, Loses
<1>6. ShowsKind(b, s) /\ Plainly(b)
  BY <1>2, <1>3 DEF ShowsKind, Plainly
<1> QED BY <1>4, <1>5, <1>6 DEF Faithful, b

LEMMA CarrierShows ==
    ASSUME NEW t, NEW s, FixedCarrier(t, s) # NoKind
    PROVE  /\ FixedCarrier(t, s).is \in {"nested", "nested array", "codec", "scalar", "array"}
           /\ FixedCarrier(t, s).sized \in {Absent, s["bytes"], s["codec"]}
           /\ s["bytes"] # Absent => FixedCarrier(t, s).sized = s["bytes"]
           /\ s["codec"] # Absent => FixedCarrier(t, s).sized = s["codec"]
<1> DEFINE kind == FixedCarrier(t, s)
<1>1. CASE s["bytes"] # Absent
  <2>1. s["codec"] = Absent
    BY <1>1 DEF FixedCarrier
  <2>2. kind = Kind("nested", s["bytes"]) \/ kind = Kind("nested array", s["bytes"])
    BY <1>1 DEF FixedCarrier
  <2> HIDE DEF kind
  <2>3. kind.is \in {"nested", "nested array"} /\ kind.sized = s["bytes"]
    <3>1. ASSUME kind = Kind("nested", s["bytes"])
          PROVE  kind.is = "nested" /\ kind.sized = s["bytes"]
      BY <3>1 DEF Kind
    <3>2. ASSUME kind = Kind("nested array", s["bytes"])
          PROVE  kind.is = "nested array" /\ kind.sized = s["bytes"]
      BY <3>2 DEF Kind
    <3> QED BY <2>2, <3>1, <3>2
  <2> QED BY <2>1, <2>3 DEF kind
<1>2. CASE s["bytes"] = Absent /\ s["codec"] # Absent
  <2>1. kind = Kind("codec", s["codec"])
    BY <1>2 DEF FixedCarrier
  <2> HIDE DEF kind
  <2>2. kind.is = "codec" /\ kind.sized = s["codec"]
    BY <2>1 DEF Kind
  <2> QED BY <1>2, <2>2 DEF kind
<1>3. CASE s["bytes"] = Absent /\ s["codec"] = Absent
  <2>1. kind = Kind("scalar", Absent) \/ kind = Kind("array", Absent)
    BY <1>3 DEF FixedCarrier
  <2> HIDE DEF kind
  <2>2. kind.is \in {"scalar", "array"} /\ kind.sized = Absent
    BY <2>1 DEF Kind
  <2> QED BY <1>3, <2>2 DEF kind
<1> QED BY <1>1, <1>2, <1>3

LEMMA FixedFaithful ==
    ASSUME NEW t, NEW s, Fixed(t, s).form # "refused",
           \A x \in {"kind", "until", "with"} : s[x] = Absent
    PROVE  Faithful(Fixed(t, s), s)
<1> DEFINE b    == Fixed(t, s)
           kind == FixedCarrier(t, s)
           int  == kind.is = "scalar" /\ t.elem \in Integral
<1>1. /\ kind # NoKind /\ ~Has(s, {"count", "stride"})
      /\ s["range"] # Absent => int
      /\ s["magic"] # Absent => int \/ kind.is = "array"
      /\ s["seek"] # Absent => kind.is = "nested"
  BY AbsentParts DEF Fixed
<1>2. IF s["seek"] # Absent
      THEN b = [NoBody EXCEPT !.form = "placed", !.kind = kind, !.seek = s["seek"]]
      ELSE b = [NoBody EXCEPT !.form = "fixed", !.kind = kind, !.range = s["range"],
                              !.magic = s["magic"]]
  BY AbsentParts DEF Fixed
<1>3. s["count"] = Absent /\ s["stride"] = Absent
  BY <1>1 DEF Has
<1>4. /\ kind.is \in {"nested", "nested array", "codec", "scalar", "array"}
      /\ kind.sized \in {Absent, s["bytes"], s["codec"]}
      /\ s["bytes"] # Absent => kind.sized = s["bytes"]
      /\ s["codec"] # Absent => kind.sized = s["codec"]
  BY <1>1, CarrierShows
<1>5. s["seek"] # Absent => s["range"] = Absent /\ s["magic"] = Absent
  BY <1>1
<1> HIDE DEF b, kind
<1>6. /\ b.kind = kind /\ b.when = Absent /\ b.count = Absent
      /\ Attrs(b) \subseteq {Absent, kind.sized, s["seek"], s["range"], s["magic"]}
      /\ kind.sized \in Attrs(b)
      /\ \A x \in {"seek", "range", "magic"} : s[x] # Absent => s[x] \in Attrs(b)
  <2>1. CASE s["seek"] # Absent
    <3> HIDE DEF Absent, NoKind
    <3>1. /\ b.kind = kind /\ b.when = Absent /\ b.count = Absent /\ b.seek = s["seek"]
          /\ b.stride = Absent /\ b.on = Absent /\ b.over = Absent
          /\ b.range = Absent /\ b.magic = Absent /\ b.with = Absent
      BY <1>2, <2>1 DEF NoBody
    <3>2. Attrs(b) = {Absent, kind.sized, s["seek"]}
      BY <3>1 DEF Attrs
    <3> QED BY <1>5, <2>1, <3>1, <3>2
  <2>2. CASE s["seek"] = Absent
    <3> HIDE DEF Absent, NoKind
    <3>1. /\ b.kind = kind /\ b.when = Absent /\ b.count = Absent
          /\ b.range = s["range"] /\ b.magic = s["magic"]
          /\ b.stride = Absent /\ b.on = Absent /\ b.over = Absent
          /\ b.seek = Absent /\ b.with = Absent
      BY <1>2, <2>2 DEF NoBody
    <3>2. Attrs(b) = {Absent, kind.sized, s["range"], s["magic"]}
      BY <3>1 DEF Attrs
    <3> QED BY <2>2, <3>1, <3>2
  <2> QED BY <2>1, <2>2
<1>7. Drawn(b, s)
  BY <1>4, <1>6, SlotsListed DEF Drawn
<1>8. Shows(b, s)
  BY <1>3, <1>4, <1>6 DEF Shows
<1>9. ShowsKind(b, s) /\ Plainly(b)
  BY <1>4, <1>6 DEF ShowsKind, Plainly
<1> QED BY <1>7, <1>8, <1>9 DEF Faithful, b
(* What the slots of an ended run show, they show with #[until] as a count.*)
LEMMA CountedFaithful ==
    ASSUME NEW s, Slotted(s), s["count"] = Absent, NEW b, Faithful(b, Counted(s))
    PROVE  Faithful(b, s)
<1> DEFINE u == Counted(s)
<1>1. /\ u["count"] = s["until"] /\ u["until"] = Absent
      /\ \A x \in Slots \ {"count", "until"} : u[x] = s[x]
  BY SlotsListed DEF Slotted, Counted
<1> HIDE DEF u
<1>2. Drawn(b, u) /\ Shows(b, u) /\ ShowsKind(b, u) /\ Plainly(b)
  BY DEF Faithful, u
<1>3. Drawn(b, s)
  <2>1. \A x \in Slots : u[x] = Absent \/ \E y \in Slots : u[x] = s[y]
    BY <1>1, SlotsListed
  <2> QED BY <1>2, <2>1 DEF Drawn
<1>4. Shows(b, s)
  BY <1>1, <1>2, SlotsListed DEF Shows
<1>5. ShowsKind(b, s)
  BY <1>1, <1>2, SlotsListed DEF ShowsKind
<1> QED BY <1>2, <1>3, <1>4, <1>5 DEF Faithful

LEMMA PlainFaithful ==
    ASSUME NEW t, NEW s, Plain(t, s).form # "refused",
           \A x \in {"kind", "until", "with"} : s[x] = Absent,
           \/ s["count"] = Absent \/ s["count"].word \in {"until", "mask"}
           \/ \A x \in {"range", "magic"} : s[x] = Absent
    PROVE  Faithful(Plain(t, s), s)
<1>1. CASE IsRun(t)
  <2>1. Plain(t, s) = Run(t, s)
    BY <1>1 DEF Plain
  <2>2. s["count"] # Absent
    BY <2>1, AbsentParts DEF Run
  <2> QED BY <2>1, <2>2, RunFaithful
<1>2. CASE ~IsRun(t)
  <2>1. Plain(t, s) = Fixed(t, s)
    BY <1>2 DEF Plain
  <2> QED BY <2>1, FixedFaithful
<1> QED BY <1>1, <1>2

LEMMA SizedFaithful ==
    ASSUME NEW t, NEW s, Slotted(s), Sized(t, s).form # "refused",
           s["kind"].word \in {"none", "text", "var", "message"},
           s["with"] = Absent \/ s["kind"].word = "message",
           s["kind"] = Absent \/ \A x \in {"range", "magic"} : s[x] = Absent,
           s["count"] = Absent \/ \A x \in {"range", "magic"} : s[x] = Absent
    PROVE  Faithful(Sized(t, s), s)
<1> DEFINE kind  == s["kind"].word
           ended == IsRun(t) /\ kind # "text" /\ s["until"] # Absent
           u     == IF ended THEN Counted(s) ELSE s
<1>1. /\ ~(kind \in {"text", "var"} /\ s["codec"] # Absent)
      /\ ~(kind = "text" /\ s["seek"] # Absent)
      /\ ~(ended /\ s["count"] # Absent)
      /\ ~(u["until"] # Absent /\ kind # "text")
      /\ ~(s["stride"] # Absent /\ kind # "none")
      /\ ~(ended /\ kind # "none")
  BY AbsentParts DEF Sized
<1>2. /\ kind = "text" => Sized(t, s) = Text(t, u)
      /\ kind \in {"var", "message"} => Sized(t, s) = SelfSized(t, u)
      /\ kind = "none" => Sized(t, s) = Plain(t, u)
  BY <1>1 DEF Sized
<1>3. CASE kind = "text"
  <2>1. u = s
    BY <1>3
  <2>2. \A x \in {"codec", "seek", "stride", "with", "range", "magic"} : s[x] = Absent
    BY <1>1, <1>3, AbsentParts
  <2> QED BY <1>2, <1>3, <2>1, <2>2, TextFaithful
<1>4. CASE kind \in {"var", "message"}
  <2>1. u = s
    BY <1>1, <1>4
  <2>2. \A x \in {"stride", "until", "range", "magic"} : s[x] = Absent
    BY <1>1, <1>4, <2>1, AbsentParts
  <2> QED BY <1>2, <1>4, <2>1, <2>2, SelfSizedFaithful
<1>5. CASE kind = "none"
  <2>1. s["kind"] = Absent /\ s["with"] = Absent
    BY <1>5, KindWord
  <2>2. CASE ended
    <3>1. s["count"] = Absent /\ u = Counted(s)
      BY <1>1, <2>2
    <3>2. s["until"].word \in {"until", "mask"}
      BY <2>2, SlotsListed, WordSlots DEF Slotted
    <3>3. /\ u["count"] = s["until"] /\ u["until"] = Absent
          /\ u["kind"] = Absent /\ u["with"] = Absent
      BY <2>1, <3>1, SlotsListed DEF Slotted, Counted
    <3>4. Sized(t, s) = Plain(t, u)
      BY <1>2, <1>5
    <3> HIDE DEF u, ended, kind
    <3>5. Faithful(Plain(t, u), u)
      BY <3>2, <3>3, <3>4, PlainFaithful
    <3> QED BY <3>1, <3>4, <3>5, CountedFaithful
  <2>3. CASE ~ended
    <3>1. u = s
      BY <2>3
    <3>2. s["until"] = Absent /\ Sized(t, s) = Plain(t, s)
      BY <1>1, <1>2, <1>5, <3>1
    <3> QED BY <2>1, <3>2, PlainFaithful
  <2> QED BY <2>2, <2>3
<1> QED BY <1>3, <1>4, <1>5

LEMMA FieldBodyFaithful ==
    ASSUME NEW t, NEW s, Slotted(s), FieldBody(t, s).form # "refused"
    PROVE  Faithful(FieldBody(t, s), s)
<1> DEFINE kind == s["kind"].word
<1>1. s["with"] = Absent \/ kind = "message"
  BY AbsentParts DEF FieldBody
<1>2. CASE t.run \in {"borrowed", "borrowed array"}
  <2>1. FieldBody(t, s) = Borrowed(t, s)
    BY <1>1, <1>2 DEF FieldBody
  <2>2. s["kind"] = Absent
    BY <2>1, AbsentParts DEF Borrowed, BorrowedOk, Has
  <2>3. s["with"] = Absent
    BY <1>1, <2>2, AbsentParts
  <2> QED BY <2>1, <2>3, BorrowedFaithful
<1>3. CASE t.run \notin {"borrowed", "borrowed array"}
  <2>1. /\ s["kind"] = Absent \/ \A x \in {"range", "magic"} : s[x] = Absent
        /\ s["count"] = Absent \/ \A x \in {"range", "magic"} : s[x] = Absent
    BY <1>1, <1>3, AbsentParts DEF FieldBody, Has
  <2>2. /\ kind = "checksum" => FieldBody(t, s) = Checksum(t, s)
        /\ kind \in {"switch", "rest"} => FieldBody(t, s) = Switch(t, s)
        /\ kind \in {"none", "text", "var", "message"} => FieldBody(t, s) = Sized(t, s)
    BY <1>1, <1>3, AbsentParts DEF FieldBody
  <2>3. CASE kind \in {"checksum", "switch", "rest"}
    <3>1. \A x \in {"with", "range", "magic"} : s[x] = Absent
      BY <1>1, <2>1, <2>3, AbsentParts
    <3> QED BY <2>2, <2>3, <3>1, ChecksumFaithful, SwitchFaithful
  <2>4. CASE kind \in {"none", "text", "var", "message"}
    BY <1>1, <2>1, <2>2, <2>4, SizedFaithful
  <2> QED BY <2>3, <2>4, KindWord
<1> QED BY <1>2, <1>3
(* Every body has the fields of one.                                       *)
Shape(b) == DOMAIN b = DOMAIN NoBody

LEMMA RunsShape ==
    ASSUME NEW t, NEW s
    PROVE  Shape(Borrowed(t, s)) /\ Shape(Run(t, s)) /\ Shape(Text(t, s)) /\ Shape(SelfSized(t, s))
<1>1. \A kind, count, stride, seek, with, collection :
          Shape(Repeat(kind, count, stride, seek, with, collection))
  BY DEF Shape, Repeat
<1>2. Shape(NoBody)
  BY DEF Shape
<1>3. Shape(Borrowed(t, s)) /\ Shape(Run(t, s))
  BY <1>1, <1>2 DEF Borrowed, Run
<1>4. \A kind : Shape([NoBody EXCEPT !.form = "value", !.kind = kind])
  BY DEF Shape
<1>5. Shape(Text(t, s))
  BY <1>1, <1>2, <1>4 DEF Text
<1>6. \A kind, seek, with :
          /\ Shape([NoBody EXCEPT !.form = "value", !.kind = kind, !.with = with])
          /\ Shape([NoBody EXCEPT !.form = "placed", !.kind = kind, !.seek = seek, !.with = with])
  BY DEF Shape
<1>7. Shape(SelfSized(t, s))
  BY <1>1, <1>2, <1>6 DEF SelfSized
<1> QED BY <1>3, <1>5, <1>7

LEMMA OnesShape ==
    ASSUME NEW t, NEW s
    PROVE  Shape(Checksum(t, s)) /\ Shape(Switch(t, s)) /\ Shape(Fixed(t, s))
<1>1. Shape(NoBody)
  BY DEF Shape
<1>2. \A over : Shape([NoBody EXCEPT !.form = "checksum", !.over = over])
  BY DEF Shape
<1>3. Shape(Checksum(t, s))
  BY <1>1, <1>2 DEF Checksum
<1>4. \A on, count : Shape([NoBody EXCEPT !.form = "switch", !.on = on, !.count = count])
  BY DEF Shape
<1>5. Shape(Switch(t, s))
  BY <1>1, <1>4 DEF Switch
<1>6. \A kind, seek, range, magic :
          /\ Shape([NoBody EXCEPT !.form = "placed", !.kind = kind, !.seek = seek])
          /\ Shape([NoBody EXCEPT !.form = "fixed", !.kind = kind, !.range = range, !.magic = magic])
  BY DEF Shape
<1>7. Shape(Fixed(t, s))
  BY <1>1, <1>6 DEF Fixed
<1> QED BY <1>3, <1>5, <1>7

LEMMA FieldBodyShape ==
    ASSUME NEW t, NEW s, Slotted(s), FieldBody(t, s).form # "refused"
    PROVE  Shape(FieldBody(t, s))
<1>1. Shape(NoBody)
  BY DEF Shape
<1>2. \A u : Shape(Plain(t, u))
  BY RunsShape, OnesShape DEF Plain
<1>3. Sized(t, s).form # "refused" /\ s["kind"].word \in {"text", "var", "message", "none"}
        => Shape(Sized(t, s))
  <2>1. SUFFICES ASSUME Sized(t, s).form # "refused",
                        s["kind"].word \in {"text", "var", "message", "none"}
                 PROVE  Shape(Sized(t, s))
    OBVIOUS
  <2>2. \E u : Sized(t, s) \in {NoBody, Text(t, u), SelfSized(t, u), Plain(t, u)}
    BY <2>1 DEF Sized
  <2> QED BY <1>1, <1>2, <2>2, RunsShape
<1> DEFINE b == FieldBody(t, s)
<1>4. \/ b = Borrowed(t, s) \/ b = Checksum(t, s) \/ b = Switch(t, s)
      \/ b = Sized(t, s) /\ s["kind"].word \in {"text", "var", "message", "none"}
  BY AbsentParts, KindWord DEF FieldBody
<1> QED BY <1>3, <1>4, RunsShape, OnesShape

(* What an Option shows, and a field that is none.                         *)
LEMMA AddedWhen ==
    ASSUME NEW b, NEW r, b.when = Absent, r.kind = b.kind, r.count = b.count,
           r.stride = b.stride, r.seek = b.seek, r.on = b.on, r.over = b.over,
           r.range = b.range, r.magic = b.magic, r.with = b.with
    PROVE  /\ Attrs(b) \cup {r.when} \subseteq Attrs(r) \cup {Absent}
           /\ Attrs(r) \subseteq Attrs(b) \cup {r.when}
BY DEF Attrs

LEMMA AddedCount ==
    ASSUME NEW b, NEW r, b.count = Absent, r.kind = b.kind, r.when = b.when,
           r.stride = b.stride, r.seek = b.seek, r.on = b.on, r.over = b.over,
           r.range = b.range, r.magic = b.magic, r.with = b.with
    PROVE  /\ Attrs(b) \cup {r.count} \subseteq Attrs(r) \cup {Absent}
           /\ Attrs(r) \subseteq Attrs(b) \cup {r.count}
BY DEF Attrs

LEMMA Optioned ==
    ASSUME NEW b, Shape(b), NEW r, r = [b EXCEPT !.collection = "option"]
    PROVE  r.form = b.form /\ r.kind = b.kind /\ Attrs(r) = Attrs(b)
<1>1. /\ r.form = b.form /\ r.count = b.count /\ r.kind = b.kind
      /\ r.when = b.when /\ r.stride = b.stride /\ r.seek = b.seek
      /\ r.on = b.on /\ r.over = b.over /\ r.range = b.range /\ r.magic = b.magic /\ r.with = b.with
  BY DEF Shape, NoBody
<1> QED BY <1>1 DEF Attrs

LEMMA WithoutSlot ==
    ASSUME NEW s, Slotted(s), NEW x \in {"when", "count"}, NEW u, u = [s EXCEPT ![x] = Absent]
    PROVE  /\ Slotted(u) /\ u[x] = Absent /\ \A y \in Slots \ {x} : u[y] = s[y]
           /\ s[x] = Absent => u = s
<1>1. u[x] = Absent /\ \A y \in Slots \ {x} : u[y] = s[y]
  BY SlotsListed DEF Slotted
<1>2. u \in [Slots -> Attribute]
  BY AbsentParts DEF Slotted
<1>3. s[x] = Absent => u = s
  BY DEF Slotted
<1>4. Slotted(u)
  BY <1>1, <1>2, SlotsListed DEF Slotted
<1> QED BY <1>1, <1>3, <1>4

(* Nothing that is read into the slots of a field is missing from its      *)
(* body, and nothing is there that was not (msg_field).                    *)
MsgFaithful(b, s) ==
    /\ Drawn(b, s) /\ Shows(b, s) /\ ShowsKind(b, s)
    /\ s["when"] # Absent => s["when"] \in Attrs(b)

LEMMA MsgFieldFaithful ==
    ASSUME NEW t, NEW s, Slotted(s), MsgField(t, s).form # "refused"
    PROVE  MsgFaithful(MsgField(t, s), s)
<1> DEFINE bare == [s EXCEPT !["when"] = Absent]
           b    == FieldBody(t, bare)
           r    == MsgField(t, s)
<1>1. /\ Slotted(bare) /\ bare["when"] = Absent /\ \A y \in Slots \ {"when"} : bare[y] = s[y]
      /\ s["when"] = Absent => bare = s
  BY WithoutSlot
<1>2. ASSUME b.form # "refused"
      PROVE  /\ Shape(b) /\ b.when = Absent
             /\ Drawn(b, bare) /\ Shows(b, bare) /\ ShowsKind(b, bare)
  BY <1>1, <1>2, FieldBodyFaithful, FieldBodyShape DEF Faithful, Plainly
<1>3. CASE s["when"] # Absent
  <2>1. r = Optional(s["when"], b)
    BY <1>3, AbsentParts DEF MsgField
  <2>2. /\ b.form \in {"fixed", "value", "placed"}
        /\ \/ r = [b EXCEPT !.form = "opt", !.when = s["when"]]
           \/ r = [b EXCEPT !.when = s["when"], !.collection = "option"]
    BY <2>1, AbsentParts DEF Optional
  <2>3. b.form # "refused" /\ ~Loses(b)
    BY <2>2 DEF Loses
  <2> DEFINE w == s["when"]
  <2> HIDE DEF b, bare, w
  <2>4. /\ Attrs(b) \cup {w} \subseteq Attrs(r) \cup {Absent}
        /\ Attrs(r) \subseteq Attrs(b) \cup {w} /\ r.kind = b.kind
    <3> HIDE DEF r
    <3>1. Shape(b) /\ b.when = Absent
      BY <1>2, <2>3
    <3>2. \/ r = [b EXCEPT !.form = "opt", !.when = w]
          \/ r = [b EXCEPT !.when = w, !.collection = "option"]
      BY <2>2 DEF w
    <3>3. /\ r.when = w /\ r.kind = b.kind /\ r.count = b.count
          /\ r.stride = b.stride /\ r.seek = b.seek /\ r.on = b.on /\ r.over = b.over
          /\ r.range = b.range /\ r.magic = b.magic /\ r.with = b.with
      <4>1. CASE r = [b EXCEPT !.form = "opt", !.when = w]
        BY <3>1, <4>1 DEF Shape, NoBody
      <4>2. CASE r = [b EXCEPT !.when = w, !.collection = "option"]
        BY <3>1, <4>2 DEF Shape, NoBody
      <4> QED BY <3>2, <4>1, <4>2
    <3> QED BY <3>1, <3>3, AddedWhen
  <2> HIDE DEF r
  <2>5. \A a : a # Absent /\ a \in Attrs(b) => a \in Attrs(r)
    BY <2>4
  <2>6. w \in Attrs(r)
    BY <1>3, <2>4 DEF w
  <2>7. Drawn(r, s)
    <3>1. \A a \in Attrs(b) : a \in {Absent, Implied(2)} \/ \E x \in Slots : a = s[x]
      BY <1>1, <1>2, <2>3 DEF Drawn
    <3> QED BY <2>4, <3>1, SlotsListed DEF Drawn, w
  <2>8. Shows(r, s)
    BY <1>1, <1>2, <2>3, <2>5, SlotsListed DEF Shows
  <2>9. ShowsKind(r, s)
    BY <1>1, <1>2, <2>3, <2>4, <2>5, SlotsListed DEF ShowsKind
  <2> QED BY <2>6, <2>7, <2>8, <2>9 DEF MsgFaithful, r, w
<1>4. CASE s["when"] = Absent /\ ~t.option
  <2>1. r = b /\ bare = s
    BY <1>1, <1>4 DEF MsgField
  <2> QED BY <1>2, <1>4, <2>1 DEF MsgFaithful
<1>5. CASE s["when"] = Absent /\ t.option /\ s["seek"] # Absent
  <2>1. b.form = "placed" /\ r = [b EXCEPT !.collection = "option"] /\ bare = s
    BY <1>1, <1>5, AbsentParts DEF MsgField
  <2> HIDE DEF b, r, bare
  <2>2. r.form = b.form /\ Attrs(r) = Attrs(b) /\ r.kind = b.kind
    BY <1>2, <2>1, Optioned
  <2>3. ~Loses(b)
    BY <2>1 DEF Loses
  <2>4. Drawn(r, s) /\ Shows(r, s) /\ ShowsKind(r, s)
    BY <1>2, <2>1, <2>2, <2>3 DEF Drawn, Shows, ShowsKind
  <2> QED BY <1>5, <2>4 DEF MsgFaithful, r
<1>6. CASE s["when"] = Absent /\ t.option /\ s["seek"] = Absent
  <2> DEFINE u == [bare EXCEPT !["count"] = Absent]
             c == FieldBody(t, u)
  <2>1. c.form = "fixed" /\ r = [c EXCEPT !.form = "opt", !.count = s["count"]] /\ bare = s
    BY <1>1, <1>6, AbsentParts DEF MsgField
  <2>2. Slotted(u) /\ u["count"] = Absent /\ \A y \in Slots \ {"count"} : u[y] = s[y]
    <3>1. u = [s EXCEPT !["count"] = Absent]
      BY <2>1
    <3> QED BY <3>1, WithoutSlot
  <2>3. /\ Shape(c) /\ c.count = Absent
        /\ Drawn(c, u) /\ Shows(c, u) /\ ShowsKind(c, u)
    BY <2>1, <2>2, FieldBodyFaithful, FieldBodyShape DEF Faithful, Plainly
  <2> DEFINE n == s["count"]
  <2> HIDE DEF c, u, bare, n, r
  <2>4. /\ Attrs(c) \cup {n} \subseteq Attrs(r) \cup {Absent}
        /\ Attrs(r) \subseteq Attrs(c) \cup {n} /\ r.kind = c.kind
    <3>1. r = [c EXCEPT !.form = "opt", !.count = n]
      BY <2>1 DEF n
    <3>2. /\ r.count = n /\ r.kind = c.kind /\ r.when = c.when
          /\ r.stride = c.stride /\ r.seek = c.seek /\ r.on = c.on /\ r.over = c.over
          /\ r.range = c.range /\ r.magic = c.magic /\ r.with = c.with
      BY <2>3, <3>1 DEF Shape, NoBody
    <3> QED BY <2>3, <3>2, AddedCount
  <2>5. \A a : a # Absent /\ a \in Attrs(c) => a \in Attrs(r)
    BY <2>4
  <2>6. s["count"] # Absent => s["count"] \in Attrs(r)
    BY <2>4 DEF n
  <2>7. Drawn(r, s)
    <3>1. \A a \in Attrs(c) : a \in {Absent, Implied(2)} \/ \E x \in Slots : a = s[x]
      BY <2>2, <2>3 DEF Drawn
    <3> QED BY <2>4, <3>1, SlotsListed DEF Drawn, n
  <2>8. ~Loses(c)
    BY <2>1 DEF Loses
  <2>9. Shows(r, s)
    BY <2>2, <2>3, <2>5, <2>6, <2>8, SlotsListed DEF Shows
  <2>10. ShowsKind(r, s)
    BY <2>2, <2>3, <2>4, <2>5, SlotsListed DEF ShowsKind
  <2> QED BY <1>6, <2>7, <2>9, <2>10 DEF MsgFaithful, r
<1> QED BY <1>3, <1>4, <1>5, <1>6

LEMMA DrawnTypes ==
    ASSUME NEW b, NEW s, Slotted(s), Drawn(b, s)
    PROVE  \A a \in Attrs(b) : a \in Attribute
BY AbsentParts DEF Drawn, Slotted

----------------------------------------------------------------------------
(***************************************************************************)
(* The inductive invariant.                                                *)
(***************************************************************************)
Entries ==
    {[body |-> MsgField(t, s), stated |-> s["at"], align |-> s["align"]] :
        t \in Type, s \in [Slots -> Attribute]}

(* The first n attributes are in the slots, and nothing else is.           *)
ReadInto(s, attrs, n) ==
    /\ Slotted(s) /\ s["foreign"] = Absent
    /\ \A i \in 1 .. n : s[SlotOf[attrs[i].word]] = attrs[i]
    /\ \A x \in Slots : s[x] = Absent \/ \E i \in 1 .. n : s[x] = attrs[i]

(* What a field's body keeps of its attributes.                            *)
Parsed(m, e) ==
    \E s : /\ ReadInto(s, m.attrs, Len(m.attrs))
           /\ e.stated = s["at"] /\ e.align = s["align"]
           /\ MsgFaithful(e.body, s)

(* Segments that hold the fields before n in order, each aligned as its    *)
(* fields are.                                                             *)
Laid(segs, es, n) ==
    /\ segs \in Seq([fields : Seq(Nat), align : Attribute])
    /\ segs = <<>> => n = 1
    /\ \A k \in DOMAIN segs :
        LET fs == segs[k].fields
        IN  /\ fs # <<>> /\ fs[1] >= 1 /\ fs[1] + Len(fs) <= n
            /\ \A i \in DOMAIN fs : fs[i] = fs[1] + (i - 1) /\ segs[k].align = es[fs[i]].align
            /\ k = 1 => fs[1] = 1
            /\ k > 1 => fs[1] = segs[k - 1].fields[1] + Len(segs[k - 1].fields)
            /\ k = Len(segs) => fs[1] + Len(fs) = n

Gathered(fs, es, n) == \A i \in DOMAIN fs : fs[i] = n + (i - 1) /\ es[fs[i]].align = Absent

Lowered == {"lower", "ranges", "model", "predicates", "accepted"}

FieldsInv ==
    phase = "fields" =>
        /\ field <= Len(message) /\ Len(bodies) = field - 1
        /\ read <= Len(message[field].attrs)
        /\ ReadInto(slots, message[field].attrs, read)
        /\ segments = <<>> /\ block = <<>>

BodiesInv ==
    /\ bodies \in Seq(Entries) /\ Len(bodies) <= Len(message)
    /\ \A f \in DOMAIN bodies : Parsed(message[f], bodies[f])

LoweredInv ==
    phase \in Lowered =>
        /\ Len(bodies) = Len(message)
        /\ block \in Seq(Nat) /\ field - Len(block) \in Nat \ {0}
        /\ Laid(segments, bodies, field - Len(block))
        /\ Gathered(block, bodies, field - Len(block))
        /\ field <= Len(message) + 1
        /\ phase # "lower" => block = <<>> /\ field = Len(message) + 1

RangesInv == phase = "model" => \A f \in Checksums : RangeOk(f)

DeriveInv ==
    /\ message \in Messages /\ field \in Nat \ {0} /\ read \in Nat
    /\ FieldsInv /\ BodiesInv /\ LoweredInv /\ RangesInv

LEMMA MessageTypes ==
    ASSUME NEW m \in Messages
    PROVE  /\ Len(m) \in Nat \ {0}
           /\ \A f \in 1 .. Len(m) :
                /\ m[f].type \in Type /\ Len(m[f].attrs) \in Nat
                /\ \A i \in 1 .. Len(m[f].attrs) :
                     LET a == m[f].attrs[i]
                     IN  /\ a \in Attribute /\ a.word \in Words /\ a # Absent
                         /\ SlotOf[a.word] = "bytes" => a = Implied(a.n)
<1>1. m \in Seq([type : Type, attrs : Seq(Written)]) /\ m # <<>>
  BY AttributesAssumption DEF AttributesAssumption
<1>2. Len(m) \in Nat \ {0}
  BY <1>1
<1>3. ASSUME NEW f \in 1 .. Len(m)
      PROVE  m[f].type \in Type /\ m[f].attrs \in Seq(Written)
  <2> DEFINE S == [type : Type, attrs : Seq(Written)]
  <2>1. m[f] \in S
    <3>1. m \in Seq(S)
      BY <1>1
    <3> HIDE DEF S
    <3> QED BY <1>3, <3>1
  <2> QED BY <2>1
<1>4. ASSUME NEW f \in 1 .. Len(m), NEW i \in 1 .. Len(m[f].attrs)
      PROVE  m[f].attrs[i] \in Written
  BY <1>3, <1>4
<1>5. ASSUME NEW a \in Written
      PROVE  /\ a \in Attribute /\ a.word \in Words /\ a # Absent
             /\ SlotOf[a.word] = "bytes" => a = Implied(a.n)
  <2>1. a.word \in Words \cup {"none"} /\ a.word # "none"
    BY <1>5 DEF Written, Attribute
  <2>2. a # Absent
    BY <2>1, AbsentParts
  <2> QED BY <2>1, <2>2, WordSlots DEF Written
<1> QED BY <1>2, <1>3, <1>4, <1>5

LEMMA EmptySlots ==
    ASSUME NEW attrs
    PROVE  ReadInto(NoSlots, attrs, 0)
<1>1. NoSlots \in [Slots -> Attribute] /\ \A x \in Slots : NoSlots[x] = Absent
  BY AbsentParts DEF NoSlots
<1>2. Slotted(NoSlots) /\ NoSlots["foreign"] = Absent
  BY <1>1, SlotsListed DEF Slotted
<1>3. \A i \in 1 .. 0 : FALSE
  OBVIOUS
<1> QED BY <1>1, <1>2, <1>3 DEF ReadInto

LEMMA DeriveInit == Init => DeriveInv
<1> SUFFICES ASSUME Init PROVE DeriveInv
  OBVIOUS
<1> USE DEF Init
<1>1. Len(message) \in Nat \ {0} /\ Len(message[1].attrs) \in Nat
  BY MessageTypes
<1>2. FieldsInv
  BY <1>1, EmptySlots DEF FieldsInv
<1>3. BodiesInv
  BY <1>1 DEF BodiesInv
<1>4. LoweredInv /\ RangesInv
  BY DEF LoweredInv, RangesInv, Lowered
<1> QED BY <1>2, <1>3, <1>4 DEF DeriveInv

(* A step that leaves message and bodies alone.                            *)
LEMMA BodiesKept ==
    ASSUME BodiesInv, UNCHANGED <<message, bodies>>
    PROVE  BodiesInv'
BY DEF BodiesInv

(* Refused: nothing is asked of the rest any more.                         *)
LEMMA DeriveFail ==
    ASSUME DeriveInv, phase' = "refused", UNCHANGED <<message, field, read, bodies>>
    PROVE  DeriveInv'
<1>1. BodiesInv'
  BY BodiesKept DEF DeriveInv
<1> QED BY <1>1 DEF DeriveInv, FieldsInv, LoweredInv, RangesInv, Lowered

LEMMA DeriveReads ==
    ASSUME DeriveInv, ReadAttribute
    PROVE  DeriveInv'
<1> DEFINE attrs == message[field].attrs
           a     == attrs[read + 1]
           x     == SlotOf[a.word]
<1>1. /\ phase = "fields" /\ read < Len(attrs) /\ x # "foreign" /\ slots[x] = Absent
      /\ slots' = [slots EXCEPT ![x] = a] /\ read' = read + 1
      /\ UNCHANGED <<message, phase, field, bodies, block, segments, blame>>
  BY DEF ReadAttribute, Reading
<1>2. /\ message \in Messages /\ field \in 1 .. Len(message) /\ read \in Nat
      /\ Len(attrs) \in Nat /\ ReadInto(slots, attrs, read)
  BY <1>1, MessageTypes DEF DeriveInv, FieldsInv
<1>3. \A i \in 1 .. Len(attrs) :
          /\ attrs[i] \in Attribute /\ attrs[i].word \in Words /\ attrs[i] # Absent
          /\ SlotOf[attrs[i].word] = "bytes" => attrs[i] = Implied(attrs[i].n)
  BY <1>2, MessageTypes
<1>4. read + 1 \in 1 .. Len(attrs)
  BY <1>1, <1>2
<1>5. /\ a \in Attribute /\ a.word \in Words /\ a # Absent /\ x \in Slots
      /\ x = "bytes" => a = Implied(a.n)
  BY <1>3, <1>4, SlotsListed
<1> HIDE DEF a, x, attrs
<1>6. slots'[x] = a /\ \A y \in Slots \ {x} : slots'[y] = slots[y]
  BY <1>1, <1>2, <1>5 DEF ReadInto, Slotted
<1>7. Slotted(slots') /\ slots'["foreign"] = Absent
  <2>1. slots' \in [Slots -> Attribute]
    BY <1>1, <1>2, <1>5 DEF ReadInto, Slotted
  <2>2. \A y \in Slots : slots'[y] = Absent \/ (slots'[y].word \in Words /\ SlotOf[slots'[y].word] = y)
    BY <1>2, <1>5, <1>6 DEF ReadInto, Slotted, x
  <2>3. slots'["foreign"] = Absent
    BY <1>1, <1>2, <1>6, SlotsListed DEF ReadInto
  <2>4. slots'["bytes"] # Absent => slots'["bytes"] = Implied(slots'["bytes"].n)
    <3>1. CASE x = "bytes"
      BY <1>5, <1>6, <3>1
    <3>2. CASE x # "bytes"
      BY <1>2, <1>6, <3>2, SlotsListed DEF ReadInto, Slotted
    <3> QED BY <3>1, <3>2
  <2> QED BY <2>1, <2>2, <2>3, <2>4 DEF Slotted
<1>8. \A i \in 1 .. read + 1 : slots'[SlotOf[attrs[i].word]] = attrs[i]
  <2> SUFFICES ASSUME NEW i \in 1 .. read + 1
               PROVE  slots'[SlotOf[attrs[i].word]] = attrs[i]
    OBVIOUS
  <2>1. CASE i = read + 1
    BY <1>6, <2>1 DEF a, x
  <2>2. CASE i # read + 1
    <3>1. i \in 1 .. read /\ i \in 1 .. Len(attrs)
      BY <1>2, <1>4, <2>2
    <3>2. slots[SlotOf[attrs[i].word]] = attrs[i] /\ attrs[i] # Absent /\ SlotOf[attrs[i].word] \in Slots
      BY <1>2, <1>3, <3>1, SlotsListed DEF ReadInto
    <3> QED BY <1>1, <1>6, <3>2
  <2> QED BY <2>1, <2>2
<1>9. \A y \in Slots : slots'[y] = Absent \/ \E i \in 1 .. read + 1 : slots'[y] = attrs[i]
  <2>1. \A i \in 1 .. read : i \in 1 .. read + 1
    BY <1>2
  <2>2. read + 1 \in 1 .. read + 1
    BY <1>2
  <2> QED BY <1>2, <1>6, <2>1, <2>2 DEF ReadInto, a
<1>10. FieldsInv'
  <2>1. ReadInto(slots', attrs, read + 1)
    BY <1>7, <1>8, <1>9 DEF ReadInto
  <2>2. ReadInto(slots, attrs, read)' /\ read' <= Len(attrs)'
    BY <1>1, <1>2, <2>1 DEF attrs
  <2> QED BY <1>1, <1>2, <2>2 DEF DeriveInv, FieldsInv, attrs
<1>11. BodiesInv'
  BY <1>1, BodiesKept DEF DeriveInv
<1>12. LoweredInv' /\ RangesInv'
  BY <1>1 DEF LoweredInv, RangesInv, Lowered
<1> QED BY <1>1, <1>2, <1>10, <1>11, <1>12 DEF DeriveInv

LEMMA DeriveParses ==
    ASSUME DeriveInv, ParseField
    PROVE  DeriveInv'
<1> DEFINE b == MsgField(message[field].type, slots)
           e == [body |-> b, stated |-> slots["at"], align |-> slots["align"]]
           m == message[field]
<1>1. /\ phase = "fields" /\ ~Reading
      /\ UNCHANGED <<message, block, segments>>
  BY DEF ParseField
<1>2. /\ message \in Messages /\ field \in 1 .. Len(message) /\ read \in Nat
      /\ Len(m.attrs) \in Nat /\ ReadInto(slots, m.attrs, read) /\ m.type \in Type
      /\ Len(bodies) = field - 1 /\ segments = <<>> /\ block = <<>> /\ Len(message) \in Nat
  BY <1>1, MessageTypes DEF DeriveInv, FieldsInv
<1>3. read = Len(m.attrs)
  BY <1>1, <1>2 DEF DeriveInv, FieldsInv, Reading
<1>4. CASE b.form = "refused"
  <2>1. phase' = "refused" /\ UNCHANGED <<message, field, read, bodies>>
    BY <1>4 DEF ParseField, Fail
  <2> QED BY <2>1, DeriveFail
<1>5. CASE b.form # "refused"
  <2>1. /\ bodies' = Append(bodies, e) /\ slots' = NoSlots /\ read' = 0
        /\ IF field < Len(message) THEN field' = field + 1 /\ phase' = phase
           ELSE field' = 1 /\ phase' = "lower"
    BY <1>5 DEF ParseField
  <2>2. e \in Entries /\ Parsed(m, e)
    <3>1. slots \in [Slots -> Attribute] /\ Slotted(slots)
      BY <1>2 DEF ReadInto, Slotted
    <3>2. e \in Entries
      BY <1>2, <3>1 DEF Entries
    <3>3. MsgFaithful(b, slots)
      BY <1>5, <3>1, MsgFieldFaithful
    <3>4. e.body = b /\ e.stated = slots["at"] /\ e.align = slots["align"]
      OBVIOUS
    <3> HIDE DEF e, b
    <3> QED BY <1>2, <1>3, <3>2, <3>3, <3>4 DEF Parsed
  <2> HIDE DEF e, b
  <2>3. bodies \in Seq(Entries) /\ \A f \in DOMAIN bodies : Parsed(message[f], bodies[f])
    BY DEF DeriveInv, BodiesInv
  <2>4. /\ bodies' \in Seq(Entries) /\ Len(bodies') = field /\ bodies'[field] = e
        /\ \A f \in 1 .. field - 1 : bodies'[f] = bodies[f]
    BY <1>2, <2>1, <2>2, <2>3
  <2>5. BodiesInv'
    <3>1. \A f \in 1 .. field : Parsed(message[f], bodies'[f])
      <4> SUFFICES ASSUME NEW f \in 1 .. field PROVE Parsed(message[f], bodies'[f])
        OBVIOUS
      <4>1. CASE f = field
        BY <2>2, <2>4, <4>1
      <4>2. CASE f # field
        <5>1. f \in 1 .. field - 1 /\ f \in DOMAIN bodies
          BY <1>2, <2>3, <4>2
        <5> QED BY <2>3, <2>4, <5>1
      <4> QED BY <4>1, <4>2
    <3>2. DOMAIN bodies' = 1 .. field /\ message' = message
      BY <1>1, <2>4
    <3> QED BY <1>2, <2>4, <3>1, <3>2 DEF BodiesInv
  <2>6. CASE field < Len(message)
    <3>1. field' = field + 1 /\ phase' = "fields" /\ field + 1 \in 1 .. Len(message)
      BY <1>1, <1>2, <2>1, <2>6
    <3>2. ReadInto(slots', message[field + 1].attrs, 0)
      BY <2>1, EmptySlots
    <3>3. Len(message[field + 1].attrs) \in Nat
      BY <1>2, <3>1, MessageTypes
    <3>4. FieldsInv'
      BY <1>1, <1>2, <2>1, <2>4, <3>1, <3>2, <3>3 DEF FieldsInv
    <3>5. LoweredInv' /\ RangesInv'
      BY <3>1 DEF LoweredInv, RangesInv, Lowered
    <3> QED BY <1>1, <1>2, <2>1, <2>5, <3>1, <3>4, <3>5 DEF DeriveInv
  <2>7. CASE ~(field < Len(message))
    <3>1. field' = 1 /\ phase' = "lower" /\ field = Len(message)
      BY <1>2, <2>1, <2>7
    <3>2. block' = <<>> /\ segments' = <<>> /\ Len(block') = 0 /\ field' - Len(block') = 1
      BY <1>1, <1>2, <3>1
    <3>3. Laid(segments', bodies', 1) /\ Gathered(block', bodies', 1)
      <4>1. DOMAIN segments' = {} /\ DOMAIN block' = {}
        BY <3>2
      <4>2. segments' \in Seq([fields : Seq(Nat), align : Attribute])
        BY <3>2
      <4> QED BY <3>2, <4>1, <4>2 DEF Laid, Gathered
    <3>4. LoweredInv'
      BY <1>1, <1>2, <2>4, <3>1, <3>2, <3>3 DEF LoweredInv
    <3>5. FieldsInv' /\ RangesInv'
      BY <3>1 DEF FieldsInv, RangesInv
    <3> QED BY <1>1, <1>2, <2>1, <2>5, <3>1, <3>4, <3>5 DEF DeriveInv
  <2> QED BY <2>6, <2>7
<1> QED BY <1>4, <1>5

LEMMA LaidAppend ==
    ASSUME NEW segs, NEW es, NEW n \in Nat \ {0}, Laid(segs, es, n),
           NEW fs \in Seq(Nat), fs # <<>>, NEW align \in Attribute,
           \A i \in DOMAIN fs : fs[i] = n + (i - 1) /\ es[fs[i]].align = align
    PROVE  Laid(Append(segs, Segment(fs, align)), es, n + Len(fs))
<1> DEFINE seg == Segment(fs, align)
           new == Append(segs, seg)
           L   == Len(segs)
           Segs == [fields : Seq(Nat), align : Attribute]
<1>1. seg \in Segs /\ seg.fields = fs /\ seg.align = align
  BY DEF Segment
<1>2. segs \in Seq(Segs) /\ L \in Nat
  BY DEF Laid
<1>3. Len(fs) \in Nat /\ Len(fs) >= 1 /\ 1 \in DOMAIN fs /\ fs[1] = n
  BY DEF Laid
<1> HIDE DEF seg, Segs
<1>4. /\ new \in Seq(Segs) /\ Len(new) = L + 1 /\ new[L + 1] = seg
      /\ \A k \in 1 .. L : new[k] = segs[k]
      /\ DOMAIN new = 1 .. L + 1 /\ DOMAIN segs = 1 .. L /\ new # <<>>
  <2>1. new \in Seq(Segs) /\ Len(new) = L + 1 /\ new[L + 1] = seg
    BY <1>1, <1>2
  <2>2. \A k \in 1 .. L : new[k] = segs[k]
    BY <1>1, <1>2
  <2> HIDE DEF new
  <2>3. DOMAIN new = 1 .. L + 1 /\ new # <<>>
    BY <1>2, <2>1
  <2> QED BY <1>2, <2>1, <2>2, <2>3
<1> HIDE DEF new, L
<1>5. ASSUME NEW k \in 1 .. L
      PROVE  LET gs == new[k].fields
             IN  /\ gs # <<>> /\ gs[1] >= 1 /\ gs[1] + Len(gs) <= n + Len(fs)
                 /\ \A i \in DOMAIN gs : gs[i] = gs[1] + (i - 1) /\ new[k].align = es[gs[i]].align
                 /\ k = 1 => gs[1] = 1
                 /\ k > 1 => gs[1] = new[k - 1].fields[1] + Len(new[k - 1].fields)
                 /\ k # L + 1
  <2> DEFINE gs == segs[k].fields
  <2>1. new[k] = segs[k] /\ (k > 1 => new[k - 1] = segs[k - 1])
    BY <1>2, <1>4, <1>5
  <2>2. gs \in Seq(Nat)
    <3>1. segs[k] \in Segs
      BY <1>2, <1>4, <1>5
    <3> QED BY <3>1 DEF Segs
  <2>3. /\ gs # <<>> /\ gs[1] >= 1 /\ gs[1] + Len(gs) <= n
        /\ \A i \in DOMAIN gs : gs[i] = gs[1] + (i - 1) /\ segs[k].align = es[gs[i]].align
        /\ k = 1 => gs[1] = 1
        /\ k > 1 => gs[1] = segs[k - 1].fields[1] + Len(segs[k - 1].fields)
    <3>1. k \in DOMAIN segs
      BY <1>4, <1>5
    <3> QED BY <3>1 DEF Laid
  <2> HIDE DEF gs
  <2>4. gs[1] \in Nat /\ Len(gs) \in Nat
    <3>1. Len(gs) \in Nat /\ Len(gs) # 0
      BY <2>2, <2>3
    <3> QED BY <2>2, <3>1
  <2>5. gs[1] + Len(gs) <= n + Len(fs)
    <3> DEFINE first == gs[1]
               long  == Len(gs)
               more  == Len(fs)
    <3>1. first + long <= n /\ first \in Nat /\ long \in Nat /\ more \in Nat /\ n \in Nat
      BY <1>3, <2>3, <2>4
    <3> HIDE DEF first, long, more
    <3>2. first + long <= n + more
      BY <3>1
    <3> QED BY <3>2 DEF first, long, more
  <2>6. k # L + 1
    BY <1>2, <1>5
  <2> QED BY <2>1, <2>3, <2>5, <2>6 DEF gs
<1>6. L >= 1 => new[L].fields[1] + Len(new[L].fields) = n
  <2>1. L >= 1 => L \in 1 .. L
    BY <1>2
  <2> QED BY <1>4, <2>1 DEF Laid, L
<1>7. L = 0 => n = 1
  BY <1>2 DEF Laid, L
<1>8. /\ new[L + 1].fields = fs /\ new[L + 1].align = align
      /\ L + 1 = 1 => fs[1] = 1
      /\ L + 1 > 1 => fs[1] = new[(L + 1) - 1].fields[1] + Len(new[(L + 1) - 1].fields)
  BY <1>1, <1>2, <1>3, <1>4, <1>6, <1>7
<1>9. \A k \in 1 .. L + 1 : k \in 1 .. L \/ k = L + 1
  BY <1>2
<1>10. \A k \in 1 .. L + 1 :
        LET gs == new[k].fields
        IN  /\ gs # <<>> /\ gs[1] >= 1 /\ gs[1] + Len(gs) <= n + Len(fs)
            /\ \A i \in DOMAIN gs : gs[i] = gs[1] + (i - 1) /\ new[k].align = es[gs[i]].align
            /\ k = 1 => gs[1] = 1
            /\ k > 1 => gs[1] = new[k - 1].fields[1] + Len(new[k - 1].fields)
            /\ k = L + 1 => gs[1] + Len(gs) = n + Len(fs)
  <2> SUFFICES ASSUME NEW k \in 1 .. L + 1
      PROVE LET gs == new[k].fields
            IN  /\ gs # <<>> /\ gs[1] >= 1 /\ gs[1] + Len(gs) <= n + Len(fs)
                /\ \A i \in DOMAIN gs : gs[i] = gs[1] + (i - 1) /\ new[k].align = es[gs[i]].align
                /\ k = 1 => gs[1] = 1
                /\ k > 1 => gs[1] = new[k - 1].fields[1] + Len(new[k - 1].fields)
                /\ k = L + 1 => gs[1] + Len(gs) = n + Len(fs)
    OBVIOUS
  <2>1. CASE k \in 1 .. L
    BY <1>5, <2>1
  <2>2. CASE k = L + 1
    <3>1. fs[1] >= 1 /\ fs[1] + Len(fs) = n + Len(fs)
      BY <1>3
    <3>2. fs[1] + Len(fs) <= n + Len(fs)
      BY <1>3
    <3>3. \A i \in DOMAIN fs : fs[i] = fs[1] + (i - 1) /\ align = es[fs[i]].align
      BY <1>3
    <3> QED BY <1>8, <2>2, <3>1, <3>2, <3>3
  <2> QED BY <1>9, <2>1, <2>2
<1> QED BY <1>4, <1>10 DEF Laid, new, seg, Segs

(* The block that is gathered makes a segment of its own.                  *)
LEMMA FlushedLaid ==
    ASSUME DeriveInv, phase = "lower"
    PROVE  Laid(Flushed, bodies, field) /\ field \in Nat \ {0}
<1> DEFINE n == field - Len(block)
<1>1. /\ n \in Nat \ {0} /\ block \in Seq(Nat) /\ Len(block) \in Nat /\ field \in Nat \ {0}
      /\ Laid(segments, bodies, n) /\ Gathered(block, bodies, n) /\ n + Len(block) = field
  BY DEF DeriveInv, LoweredInv, Lowered
<1> HIDE DEF n
<1>2. CASE block = <<>>
  <2>1. n = field /\ Flushed = segments
    BY <1>1, <1>2 DEF Flushed
  <2> QED BY <1>1, <2>1
<1>3. CASE block # <<>>
  <2>1. Flushed = Append(segments, Segment(block, Absent))
    BY <1>3 DEF Flushed
  <2>2. Laid(Append(segments, Segment(block, Absent)), bodies, n + Len(block))
    BY <1>1, <1>3, AbsentParts, LaidAppend DEF Gathered
  <2> QED BY <1>1, <2>1, <2>2
<1> QED BY <1>2, <1>3

LEMMA EntryTypes ==
    ASSUME BodiesInv, NEW f \in 1 .. Len(bodies)
    PROVE  bodies[f].align \in Attribute /\ bodies[f].stated \in Attribute
<1>1. Parsed(message[f], bodies[f])
  BY DEF BodiesInv
<1>2. PICK s : Slotted(s) /\ bodies[f].align = s["align"] /\ bodies[f].stated = s["at"]
  BY <1>1 DEF Parsed, ReadInto
<1>3. s["align"] \in Attribute /\ s["at"] \in Attribute
  BY <1>2, SlotsListed DEF Slotted
<1> QED BY <1>2, <1>3

LEMMA DeriveLowers ==
    ASSUME DeriveInv, LowerFixed \/ LowerSegment \/ FlushLast
    PROVE  DeriveInv'
<1>1. /\ phase = "lower" /\ UNCHANGED <<message, read, bodies>>
      /\ message \in Messages /\ field \in Nat \ {0} /\ read \in Nat
      /\ Len(bodies) = Len(message) /\ Len(message) \in Nat \ {0}
      /\ block \in Seq(Nat) /\ field <= Len(message) + 1
      /\ field - Len(block) \in Nat \ {0}
      /\ Laid(segments, bodies, field - Len(block)) /\ Gathered(block, bodies, field - Len(block))
  BY MessageTypes DEF DeriveInv, LoweredInv, Lowered, LowerFixed, LowerSegment, FlushLast
<1>2. BodiesInv'
  BY <1>1, BodiesKept DEF DeriveInv
<1>3. CASE LowerFixed
  <2>1. /\ block' = Append(block, field) /\ field' = field + 1 /\ field <= Len(bodies)
        /\ bodies[field].align = Absent /\ UNCHANGED <<segments, phase>>
    BY <1>3 DEF LowerFixed
  <2> DEFINE n == field - Len(block)
  <2>2. /\ block' \in Seq(Nat) /\ Len(block') = Len(block) + 1 /\ Len(block) \in Nat
        /\ DOMAIN block' = 1 .. Len(block) + 1 /\ DOMAIN block = 1 .. Len(block)
        /\ block'[Len(block) + 1] = field /\ \A i \in 1 .. Len(block) : block'[i] = block[i]
    BY <1>1, <2>1
  <2>3. field' - Len(block') = n /\ n \in Nat \ {0} /\ field = n + ((Len(block) + 1) - 1)
    <3> DEFINE c == Len(block)
    <3>1. field \in Nat /\ c \in Nat /\ field' = field + 1 /\ Len(block') = c + 1
          /\ field - c \in Nat \ {0}
      BY <1>1, <2>1, <2>2
    <3> HIDE DEF c
    <3>2. (field + 1) - (c + 1) = field - c /\ field = (field - c) + ((c + 1) - 1)
      BY <3>1
    <3> QED BY <3>1, <3>2 DEF c
  <2>4. Gathered(block, bodies, n)
    BY <1>1
  <2> HIDE DEF n
  <2>5. Gathered(block', bodies, n)
    <3> SUFFICES ASSUME NEW i \in 1 .. Len(block) + 1
                 PROVE  block'[i] = n + (i - 1) /\ bodies[block'[i]].align = Absent
      BY <2>2 DEF Gathered
    <3>1. CASE i = Len(block) + 1
      BY <2>1, <2>2, <2>3, <3>1
    <3>2. CASE i # Len(block) + 1
      <4>1. i \in 1 .. Len(block)
        BY <2>2, <3>2
      <4> QED BY <2>2, <2>4, <4>1 DEF Gathered
    <3> QED BY <3>1, <3>2
  <2>6. LoweredInv'
    <3>1. Laid(segments', bodies', field' - Len(block'))
      BY <1>1, <2>1, <2>3 DEF n
    <3>2. Gathered(block', bodies', field' - Len(block'))
      BY <1>1, <2>3, <2>5
    <3>3. phase' = "lower" /\ field' <= Len(message)' + 1 /\ Len(bodies') = Len(message')
      BY <1>1, <2>1
    <3> QED BY <2>2, <2>3, <3>1, <3>2, <3>3 DEF LoweredInv
  <2>7. FieldsInv' /\ RangesInv' /\ field' \in Nat \ {0}
    BY <1>1, <2>1 DEF FieldsInv, RangesInv
  <2> QED BY <1>1, <1>2, <2>6, <2>7 DEF DeriveInv
<1>4. CASE LowerSegment
  <2>1. /\ segments' = Append(Flushed, Segment(<<field>>, bodies[field].align))
        /\ block' = <<>> /\ field' = field + 1 /\ field <= Len(bodies) /\ phase' = "lower"
    BY <1>1, <1>4 DEF LowerSegment
  <2>2. bodies[field].align \in Attribute
    BY <1>1, <2>1, EntryTypes DEF DeriveInv
  <2>3. Laid(Append(Flushed, Segment(<<field>>, bodies[field].align)), bodies, field + Len(<<field>>))
    <3>1. Laid(Flushed, bodies, field)
      BY <1>1, FlushedLaid
    <3> DEFINE fs == <<field>>
    <3>2. /\ fs \in Seq(Nat) /\ fs # <<>>
          /\ \A i \in DOMAIN fs : fs[i] = field + (i - 1) /\ bodies[fs[i]].align = bodies[field].align
      BY <1>1
    <3> HIDE DEF fs
    <3>3. Laid(Append(Flushed, Segment(fs, bodies[field].align)), bodies, field + Len(fs))
      BY <1>1, <2>2, <3>1, <3>2, LaidAppend
    <3> QED BY <3>3 DEF fs
  <2>4. /\ block' \in Seq(Nat) /\ Len(block') = 0 /\ DOMAIN block' = {}
        /\ field' - Len(block') = field + 1 /\ field + Len(<<field>>) = field + 1
        /\ field + 1 \in Nat \ {0} /\ field + 1 <= Len(message) + 1
    BY <1>1, <2>1
  <2>5. LoweredInv'
    <3>1. Laid(segments', bodies', field' - Len(block'))
      BY <1>1, <2>1, <2>3, <2>4
    <3>2. Gathered(block', bodies', field' - Len(block'))
      BY <2>4 DEF Gathered
    <3>3. phase' = "lower" /\ field' <= Len(message)' + 1 /\ Len(bodies') = Len(message')
      BY <1>1, <2>1, <2>4
    <3> QED BY <2>4, <3>1, <3>2, <3>3 DEF LoweredInv
  <2>6. FieldsInv' /\ RangesInv' /\ field' \in Nat \ {0}
    BY <2>1, <2>4 DEF FieldsInv, RangesInv
  <2> QED BY <1>1, <1>2, <2>5, <2>6 DEF DeriveInv
<1>5. CASE FlushLast
  <2>1. /\ segments' = Flushed /\ block' = <<>> /\ phase' = "ranges" /\ field' = field
        /\ field > Len(bodies)
    BY <1>5 DEF FlushLast
  <2>2. Laid(Flushed, bodies, field)
    BY <1>1, FlushedLaid
  <2>3. /\ block' \in Seq(Nat) /\ Len(block') = 0 /\ DOMAIN block' = {}
        /\ field' - Len(block') = field /\ field = Len(message) + 1
    BY <1>1, <2>1
  <2>4. LoweredInv'
    <3>1. Laid(segments', bodies', field' - Len(block'))
      BY <1>1, <2>1, <2>2, <2>3
    <3>2. Gathered(block', bodies', field' - Len(block'))
      BY <2>3 DEF Gathered
    <3>3. field' = Len(message)' + 1 /\ Len(bodies') = Len(message') /\ field' \in Nat \ {0}
      BY <1>1, <2>1, <2>3
    <3> QED BY <1>1, <2>1, <2>3, <3>1, <3>2, <3>3 DEF LoweredInv
  <2>5. FieldsInv' /\ RangesInv'
    BY <2>1 DEF FieldsInv, RangesInv
  <2> QED BY <1>1, <1>2, <2>1, <2>4, <2>5 DEF DeriveInv
<1> QED BY <1>3, <1>4, <1>5

(* The checks over the message move on, or fail.                           *)
LEMMA DeriveChecks ==
    ASSUME DeriveInv, CheckCoverage \/ Validate \/ CheckPredicates
    PROVE  DeriveInv'
<1>1. /\ UNCHANGED <<message, field, slots, read, bodies, block, segments>>
      /\ phase \in {"ranges", "model", "predicates"}
      /\ \/ phase' = "refused"
         \/ phase' \in {"predicates", "accepted"}
         \/ phase' = "model" /\ \A f \in Checksums : RangeOk(f)
  BY DEF CheckCoverage, Validate, CheckPredicates, Fail
<1>2. CASE phase' = "refused"
  BY <1>1, <1>2, DeriveFail
<1>3. CASE phase' \in {"model", "predicates", "accepted"}
  <2>1. BodiesInv'
    BY <1>1, BodiesKept DEF DeriveInv
  <2>2. FieldsInv'
    BY <1>3 DEF FieldsInv
  <2>3. LoweredInv'
    BY <1>1, <1>3 DEF DeriveInv, LoweredInv, Lowered
  <2>4. RangesInv'
    <3>1. phase' = "model" => \A f \in Checksums : RangeOk(f)
      BY <1>1
    <3>2. bodies' = bodies
      BY <1>1
    <3> QED BY <3>1, <3>2 DEF RangesInv, Checksums, RangeOk, Body, SometimesAbsent
  <2> QED BY <1>1, <2>1, <2>2, <2>3, <2>4 DEF DeriveInv
<1> QED BY <1>1, <1>2, <1>3

LEMMA DeriveNext ==
    ASSUME DeriveInv, [Next]_vars
    PROVE  DeriveInv'
<1>1. CASE ReadAttribute
  BY <1>1, DeriveReads
<1>2. CASE RefuseAttribute \/ RefuseLowering
  <2>1. phase' = "refused" /\ UNCHANGED <<message, field, read, bodies>>
    BY <1>2 DEF RefuseAttribute, RefuseLowering, Fail
  <2> QED BY <2>1, DeriveFail
<1>3. CASE ParseField
  BY <1>3, DeriveParses
<1>4. CASE LowerFixed \/ LowerSegment \/ FlushLast
  BY <1>4, DeriveLowers
<1>5. CASE CheckCoverage \/ Validate \/ CheckPredicates
  BY <1>5, DeriveChecks
<1>6. CASE UNCHANGED vars
  <2>1. UNCHANGED <<message, phase, field, slots, read, bodies, block, segments>>
    BY <1>6 DEF vars
  <2> QED BY <2>1 DEF DeriveInv, FieldsInv, BodiesInv, LoweredInv, RangesInv, Checksums,
                      RangeOk, Body, SometimesAbsent
<1> QED BY <1>1, <1>2, <1>3, <1>4, <1>5, <1>6 DEF Next

(* What every reachable state of the derive is: the slots hold what has    *)
(* been read, each body what its field's attributes say, and the segments  *)
(* and the block the fields so far, in order.                              *)
THEOREM DeriveInvHolds == Spec => []DeriveInv
<1>1. Init => DeriveInv
  BY DeriveInit
<1>2. DeriveInv /\ [Next]_vars => DeriveInv'
  BY DeriveNext
<1> QED BY <1>1, <1>2, PTL DEF Spec

----------------------------------------------------------------------------
(***************************************************************************)
(* Every refusal points at a field.                                        *)
(***************************************************************************)
LEMMA LowestIn ==
    ASSUME NEW S \in SUBSET Nat, S # {}
    PROVE  Lowest(S) \in S
BY NatLeast DEF Lowest

LEMMA BodyTypes ==
    ASSUME BodiesInv, NEW f \in 1 .. Len(bodies), NEW a \in Attrs(Body(f))
    PROVE  a.by \in Nat /\ a.to \in Nat
<1>1. PICK s : Slotted(s) /\ Drawn(Body(f), s)
  BY DEF BodiesInv, Parsed, ReadInto, MsgFaithful, Body
<1>2. a \in Attribute
  BY <1>1, DrawnTypes
<1> QED BY <1>2 DEF Attribute

(* The first fields of the segments ascend.                                *)
LEMMA OnlyAscends ==
    ASSUME DeriveInv, phase \in {"model", "predicates", "accepted"}, NEW k \in DOMAIN segments
    PROVE  /\ Only(k) \in 1 .. Len(bodies)
           /\ k > 1 => k - 1 \in DOMAIN segments /\ Only(k - 1) < Only(k)
<1> DEFINE fs(j) == segments[j].fields
<1>1. /\ Laid(segments, bodies, field - Len(block)) /\ field - Len(block) = Len(bodies) + 1
      /\ Len(bodies) \in Nat
  <2>1. /\ Laid(segments, bodies, field - Len(block)) /\ block = <<>> /\ field = Len(bodies) + 1
        /\ Len(bodies) = Len(message) /\ message \in Messages
    BY DEF DeriveInv, LoweredInv, Lowered
  <2>2. Len(bodies) \in Nat /\ Len(block) = 0
    BY <2>1, MessageTypes
  <2> QED BY <2>1, <2>2
<1>2. segments \in Seq([fields : Seq(Nat), align : Attribute])
  BY <1>1 DEF Laid
<1>3. \A j \in DOMAIN segments :
        /\ fs(j) \in Seq(Nat) /\ fs(j) # <<>> /\ fs(j)[1] >= 1 /\ fs(j)[1] + Len(fs(j)) <= Len(bodies) + 1
        /\ j > 1 => fs(j)[1] = fs(j - 1)[1] + Len(fs(j - 1))
  <2>1. ASSUME NEW j \in DOMAIN segments
        PROVE  fs(j) \in Seq(Nat)
    <3> DEFINE Segs == [fields : Seq(Nat), align : Attribute]
    <3>1. segments[j] \in Segs
      <4>1. segments \in Seq(Segs)
        BY <1>2
      <4> HIDE DEF Segs
      <4> QED BY <2>1, <4>1
    <3> QED BY <3>1
  <2> QED BY <1>1, <2>1 DEF Laid
<1>4. k > 1 => k - 1 \in DOMAIN segments
  BY <1>2
<1> HIDE DEF fs
<1>5. \A j \in DOMAIN segments : fs(j)[1] \in Nat /\ Len(fs(j)) \in Nat \ {0}
  BY <1>3
<1>6. fs(k)[1] \in 1 .. Len(bodies)
  BY <1>1, <1>3, <1>5
<1>7. k > 1 => fs(k - 1)[1] < fs(k)[1]
  BY <1>3, <1>4, <1>5
<1> QED BY <1>4, <1>6, <1>7 DEF Only, fs

(* The fields of a segment are fields of the struct.                       *)
LEMMA FieldsInStruct ==
    ASSUME DeriveInv, phase = "model", NEW k \in DOMAIN segments
    PROVE  FieldsOf(k) \subseteq 1 .. Len(bodies)
<1> DEFINE fs == segments[k].fields
<1>1. /\ Laid(segments, bodies, field - Len(block)) /\ field - Len(block) = Len(bodies) + 1
      /\ Len(bodies) \in Nat
  <2>1. /\ Laid(segments, bodies, field - Len(block)) /\ block = <<>> /\ field = Len(bodies) + 1
        /\ Len(bodies) = Len(message) /\ message \in Messages
    BY DEF DeriveInv, LoweredInv, Lowered
  <2>2. Len(bodies) \in Nat /\ Len(block) = 0
    BY <2>1, MessageTypes
  <2> QED BY <2>1, <2>2
<1>2. fs \in Seq(Nat)
  <2> DEFINE Segs == [fields : Seq(Nat), align : Attribute]
  <2>1. segments[k] \in Segs
    <3>1. segments \in Seq(Segs)
      BY <1>1 DEF Laid
    <3> HIDE DEF Segs
    <3> QED BY <3>1
  <2> QED BY <2>1
<1>3. /\ fs[1] >= 1 /\ fs[1] + Len(fs) <= Len(bodies) + 1 /\ fs # <<>>
      /\ \A i \in DOMAIN fs : fs[i] = fs[1] + (i - 1)
  BY <1>1 DEF Laid
<1>4. FieldsOf(k) = {fs[i] : i \in DOMAIN fs}
  BY DEF FieldsOf
<1> HIDE DEF fs
<1>5. fs[1] \in Nat /\ Len(fs) \in Nat /\ DOMAIN fs = 1 .. Len(fs)
  BY <1>2, <1>3
<1>6. \A i \in DOMAIN fs : fs[i] \in 1 .. Len(bodies)
  BY <1>1, <1>3, <1>5
<1> QED BY <1>4, <1>6

(* What a field refers to is among the attributes of its body, and names   *)
(* one of its sites.                                                       *)
LEMMA ReferencesSited ==
    ASSUME BodiesInv, NEW f \in 1 .. Len(bodies)
    PROVE  /\ DOMAIN References(Body(f)) = 1 .. 7
           /\ Sites(Body(f)) \in SUBSET Nat
           /\ \A i \in 1 .. 7 : /\ References(Body(f))[i] \in Attrs(Body(f))
                                /\ References(Body(f))[i].by # 0 =>
                                     References(Body(f))[i].by \in Sites(Body(f))
<1> DEFINE b == Body(f)
           r == References(b)
<1>1. r = <<b.on, b.kind.sized, b.count, b.stride, b.seek, b.with, b.when>>
  BY DEF References
<1>2. DOMAIN r = 1 .. 7
  BY <1>1
<1>3. \A i \in 1 .. 7 : r[i] \in Attrs(b)
  <2>1. \A i \in 1 .. 7 : i \in {1, 2, 3, 4, 5, 6, 7}
    OBVIOUS
  <2>2. /\ r[1] = b.on /\ r[2] = b.kind.sized /\ r[3] = b.count /\ r[4] = b.stride
        /\ r[5] = b.seek /\ r[6] = b.with /\ r[7] = b.when
    BY <1>1
  <2> HIDE DEF b, r
  <2> QED BY <2>1, <2>2 DEF Attrs
<1>4. \A a \in Attrs(b) : a.by \in Nat
  BY BodyTypes
<1>5. Sites(b) = {r[i].by : i \in DOMAIN r} \ {0}
  BY DEF Sites
<1> HIDE DEF b, r
<1>6. Sites(b) \in SUBSET Nat
  BY <1>2, <1>3, <1>4, <1>5
<1>7. \A i \in 1 .. 7 : r[i].by # 0 => r[i].by \in Sites(b)
  BY <1>2, <1>5
<1> QED BY <1>2, <1>3, <1>6, <1>7 DEF b, r

(* An attribute of a body that no borrowed array implies is written on its *)
(* field.                                                                  *)
LEMMA AttrsWritten ==
    ASSUME BodiesInv, NEW f \in 1 .. Len(bodies), NEW a \in Attrs(Body(f)),
           a.word \notin {"none", "bytes"}
    PROVE  \E i \in 1 .. Len(message[f].attrs) : message[f].attrs[i] = a
<1>1. PICK s : ReadInto(s, message[f].attrs, Len(message[f].attrs)) /\ Drawn(Body(f), s)
  BY DEF BodiesInv, Parsed, MsgFaithful, Body
<1>2. a \notin {Absent, Implied(2)}
  BY AbsentParts
<1>3. PICK x \in Slots : a = s[x]
  BY <1>1, <1>2 DEF Drawn
<1> QED BY <1>1, <1>2, <1>3 DEF ReadInto

(* check_coverage has looked every end of a range up.                      *)
LEMMA PlacesFound ==
    ASSUME DeriveInv, phase = "model", NEW f \in Checksums
    PROVE  ~PlaceMissing(f)
<1>1. f \in 1 .. Len(bodies) /\ RangeOk(f) /\ BodiesInv
  BY DEF DeriveInv, RangesInv, Checksums
<1>2. Body(f).over.by \in Nat /\ Body(f).over.to \in Nat
  BY <1>1, BodyTypes DEF Attrs
<1>3. \A r \in {Body(f).over.by, Body(f).over.to} \ {0} :
          r \in Nat \ {0} /\ r <= Len(bodies) /\ ~SometimesAbsent(Body(r))
  BY <1>1, <1>2 DEF RangeOk
<1>4. Len(bodies) \in Nat
  BY <1>1 DEF BodiesInv
<1>5. DOMAIN Places = {g \in 1 .. Len(bodies) : ~SometimesAbsent(Body(g))}
  BY DEF Places
<1> QED BY <1>3, <1>4, <1>5 DEF PlaceMissing

(* What the model's validation says of a field without pointing there.     *)
AtStruct ==
    \/ \E f \in 1 .. Len(bodies) : Misplaced(f) \/ BytesAtOffset(f)
    \/ \E f \in 1 .. Len(message) :
          \E i \in DOMAIN message[f].attrs : WrittenBack(message[f].attrs[i])

LEMMA LowestBad ==
    ASSUME DeriveInv, phase = "model", Bad # {}
    PROVE  Lowest(Bad) \in Bad
<1>1. DOMAIN segments \in SUBSET Nat
  <2>1. segments \in Seq([fields : Seq(Nat), align : Attribute])
    BY DEF DeriveInv, LoweredInv, Lowered, Laid
  <2> QED BY <2>1
<1>2. Bad \in SUBSET Nat
  BY <1>1 DEF Bad
<1> QED BY <1>2, LowestIn

(* A segment that refers to what it may not: the error points at a field   *)
(* that names the target, unless encode would write into a parameter.      *)
FirstBad(k) == References(Body(Only(k)))[Lowest(BadReferences(k))]

LEMMA BlamedReference ==
    ASSUME DeriveInv, phase = "model", NEW k \in DOMAIN segments, BadReferences(k) # {}
    PROVE  /\ ~Resolved(k, FirstBad(k)) => Lowest(NamedBy(FirstBad(k).by)) # 0
           /\ Resolved(k, FirstBad(k)) => AtStruct
<1> DEFINE o == Only(k)
           i == Lowest(BadReferences(k))
           a == FirstBad(k)
<1>1. o \in 1 .. Len(bodies) /\ BodiesInv /\ Len(bodies) = Len(message)
  BY OnlyAscends DEF DeriveInv, LoweredInv, Lowered
<1>2. /\ DOMAIN References(Body(o)) = 1 .. 7 /\ Sites(Body(o)) \in SUBSET Nat
      /\ \A j \in 1 .. 7 : /\ References(Body(o))[j] \in Attrs(Body(o))
                           /\ References(Body(o))[j].by # 0 => References(Body(o))[j].by \in Sites(Body(o))
  BY <1>1, ReferencesSited
<1>3. BadReferences(k) \subseteq 1 .. 7
  BY <1>2 DEF BadReferences
<1>4. i \in BadReferences(k)
  <2>1. BadReferences(k) \in SUBSET Nat
    BY <1>3
  <2> QED BY <2>1, LowestIn
<1>5. i \in 1 .. 7 /\ (~Resolved(k, a) \/ WrittenBack(a))
  BY <1>3, <1>4 DEF BadReferences, FirstBad
<1>6. a = References(Body(o))[i]
  BY DEF FirstBad
<1> HIDE DEF i, o, a
<1>7. a \in Attrs(Body(o)) /\ (a.by # 0 => a.by \in Sites(Body(o)))
  <2>1. PICK j \in 1 .. 7 : j = i
    BY <1>5
  <2>2. a = References(Body(o))[j]
    BY <1>6, <2>1
  <2> QED BY <1>2, <2>2
<1>8. ASSUME ~Resolved(k, a)
      PROVE  Lowest(NamedBy(a.by)) # 0
  <2>1. a.by # 0
    BY <1>8 DEF Resolved
  <2> DEFINE S == NamedBy(a.by)
  <2>2. o \in S /\ S \in SUBSET Nat /\ 0 \notin S
    BY <1>1, <1>7, <2>1 DEF NamedBy
  <2> HIDE DEF S
  <2>3. Lowest(S) # 0
    BY <2>2, LowestIn
  <2> QED BY <2>3 DEF S
<1>9. ASSUME Resolved(k, a)
      PROVE  AtStruct
  <2>1. WrittenBack(a)
    BY <1>5, <1>9
  <2>2. a.word \notin {"none", "bytes"}
    BY <2>1 DEF WrittenBack
  <2>3. PICK j \in 1 .. Len(message[o].attrs) : message[o].attrs[j] = a
    BY <1>1, <1>7, <2>2, AttrsWritten
  <2>4. o \in 1 .. Len(message) /\ j \in DOMAIN message[o].attrs /\ WrittenBack(message[o].attrs[j])
    <3>1. o \in 1 .. Len(message)
      BY <1>1
    <3>2. message[o].attrs \in Seq(Written)
      <4>1. message \in Seq([type : Type, attrs : Seq(Written)])
        BY AttributesAssumption DEF AttributesAssumption, DeriveInv
      <4> DEFINE F == [type : Type, attrs : Seq(Written)]
      <4>2. message[o] \in F
        <5>1. message \in Seq(F)
          BY <4>1
        <5> HIDE DEF F
        <5> QED BY <3>1, <5>1
      <4> QED BY <4>2
    <3> QED BY <2>1, <2>3, <3>1, <3>2
  <2> QED BY <2>4 DEF AtStruct
<1> QED BY <1>8, <1>9 DEF a

LEMMA BlamedField ==
    ASSUME DeriveInv, phase = "model", NEW k \in Bad, Blamed(k) = 0
    PROVE  AtStruct
<1>1. /\ k \in DOMAIN segments /\ Only(k) \in 1 .. Len(bodies) /\ BodiesInv /\ Len(bodies) \in Nat
      /\ k > 1 => k - 1 \in DOMAIN segments /\ Only(k - 1) < Only(k)
      /\ \/ FollowsOpenEnd(k) \/ BadPositions(k) # {} \/ BytesAtOffset(Only(k))
         \/ BadReferences(k) # {} \/ BadRange(k)
  BY OnlyAscends DEF Bad, DeriveInv, BodiesInv
<1>2. CASE FollowsOpenEnd(k)
  <2> DEFINE S == {f \in 2 .. Len(bodies) : \E g \in 1 .. f - 1 : OpenBody(Body(g))}
  <2>1. k > 1 /\ OpenBody(Body(Only(k - 1)))
    BY <1>2 DEF FollowsOpenEnd, OpenEnded, OpenBody
  <2>2. Only(k - 1) \in 1 .. Len(bodies) /\ Only(k - 1) < Only(k)
    BY <1>1, <2>1, OnlyAscends
  <2>3. Only(k) \in 2 .. Len(bodies) /\ Only(k - 1) \in 1 .. Only(k) - 1
    BY <1>1, <2>2
  <2>4. Only(k) \in S
    BY <2>1, <2>3
  <2>5. S \in SUBSET Nat /\ 0 \notin S
    BY <1>1
  <2>6. Blamed(k) = Lowest(S)
    BY <1>2 DEF Blamed
  <2> HIDE DEF S
  <2> QED BY <2>4, <2>5, <2>6, LowestIn
<1>3. CASE ~FollowsOpenEnd(k) /\ BadPositions(k) # {}
  <2> DEFINE f == Lowest(BadPositions(k))
  <2>1. BadPositions(k) \subseteq 1 .. Len(bodies)
    BY <1>1, FieldsInStruct DEF BadPositions
  <2>2. f \in BadPositions(k) /\ f \in 1 .. Len(bodies)
    <3>1. BadPositions(k) \in SUBSET Nat
      BY <1>1, <2>1
    <3>2. f \in BadPositions(k)
      BY <1>3, <3>1, LowestIn
    <3> QED BY <2>1, <3>2
  <2>3. Blamed(k) = IF Unplaced(f) THEN f ELSE 0
    BY <1>3 DEF Blamed
  <2>4. Unplaced(f) \/ Misplaced(f)
    BY <2>2 DEF BadPositions
  <2> HIDE DEF f
  <2>5. Misplaced(f)
    BY <1>1, <2>2, <2>3, <2>4
  <2> QED BY <2>2, <2>5 DEF AtStruct
<1>4. CASE BytesAtOffset(Only(k))
  BY <1>1, <1>4 DEF AtStruct
<1>5. CASE /\ ~FollowsOpenEnd(k) /\ BadPositions(k) = {} /\ ~BytesAtOffset(Only(k))
           /\ BadReferences(k) # {}
  <2> DEFINE a == FirstBad(k)
  <2>1. Blamed(k) = IF ~Resolved(k, a) THEN Lowest(NamedBy(a.by)) ELSE 0
    BY <1>5 DEF Blamed, FirstBad
  <2>2. /\ ~Resolved(k, a) => Lowest(NamedBy(a.by)) # 0
        /\ Resolved(k, a) => AtStruct
    BY <1>1, <1>5, BlamedReference
  <2> HIDE DEF a
  <2> QED BY <2>1, <2>2
<1>6. CASE /\ ~FollowsOpenEnd(k) /\ BadPositions(k) = {} /\ ~BytesAtOffset(Only(k))
           /\ BadReferences(k) = {}
  <2>1. Only(k) \in Checksums
    BY <1>1, <1>6 DEF BadRange, Checksums
  <2>2. Blamed(k) = Only(k)
    BY <1>6, <2>1, PlacesFound DEF Blamed
  <2> QED BY <1>1, <2>2
<1> QED BY <1>1, <1>2, <1>3, <1>4, <1>5, <1>6

(* The exceptions are said of the struct and its bodies, which no step     *)
(* that refuses changes.                                                   *)
Excepted == (Borrows /\ Needs # {}) \/ ~Stampable \/ AtStruct

LEMMA StampableKept ==
    ASSUME UNCHANGED <<message, bodies>>
    PROVE  Stampable' = Stampable
<1>1. Checksums' = Checksums
  BY DEF Checksums, Body
<1>2. Places' = Places
  <2> DEFINE D == {g \in 1 .. Len(bodies) : ~SometimesAbsent(Body(g))}
             at(f) == Cardinality({g \in 1 .. f : ~SometimesAbsent(Body(g))})
  <2>1. D' = D
    BY DEF Body
  <2>2. \A f : at(f)' = at(f)
    BY DEF Body
  <2>3. Places = [f \in D |-> at(f)] /\ Places' = [f \in D' |-> at(f)']
    BY DEF Places
  <2> HIDE DEF D, at
  <2> QED BY <2>1, <2>2, <2>3
<1>3. ASSUME NEW f, NEW g
      PROVE  Covers(f, g)' = Covers(f, g)
  BY <1>2 DEF Covers, PlaceMissing, FirstCovered, LastCovered, Body
<1> QED BY <1>1, <1>3 DEF Stampable

LEMMA ExceptionsKept ==
    ASSUME UNCHANGED <<message, bodies>>, Excepted
    PROVE  Excepted'
<1>1. Borrows' = Borrows /\ Needs' = Needs
  BY DEF Borrows, Needs
<1>2. Widths' = Widths
  BY DEF Widths, Body
<1>3. \A f : (Misplaced(f) \/ BytesAtOffset(f))' = (Misplaced(f) \/ BytesAtOffset(f))
  BY <1>2 DEF Misplaced, BytesAtOffset, Body
<1>4. AtStruct' = AtStruct
  BY <1>3 DEF AtStruct
<1> QED BY <1>1, <1>4, StampableKept DEF Excepted

LEMMA RefusedNext ==
    ASSUME DeriveInv, RefusedInPlace, [Next]_vars
    PROVE  RefusedInPlace'
<1>1. field # 0
  BY DEF DeriveInv
<1>2. RefusedInPlace = (phase = "refused" /\ blame = 0 => Excepted)
  BY DEF RefusedInPlace, Excepted, AtStruct
<1>3. RefusedInPlace' = (phase' = "refused" /\ blame' = 0 => Excepted')
  BY DEF RefusedInPlace, Excepted, AtStruct
<1>4. CASE ReadAttribute \/ LowerFixed \/ LowerSegment \/ FlushLast
  <2>1. phase' # "refused"
    BY <1>4 DEF ReadAttribute, Reading, LowerFixed, LowerSegment, FlushLast
  <2> QED BY <1>3, <2>1
<1>5. CASE RefuseAttribute
  BY <1>1, <1>3, <1>5 DEF RefuseAttribute, Fail
<1>6. CASE ParseField
  <2>1. phase' # "refused" \/ blame' = field
    BY <1>6 DEF ParseField, Fail
  <2> QED BY <1>1, <1>3, <2>1
<1>7. CASE RefuseLowering
  <2>1. blame' = IF RestInside THEN CHOOSE f \in 1 .. Len(bodies) - 1 : Body(f).on.word = "rest"
                 ELSE field
    BY <1>7 DEF RefuseLowering, Fail
  <2>2. RestInside => blame' \in 1 .. Len(bodies) - 1
    BY <2>1 DEF RestInside
  <2>3. 0 \notin 1 .. Len(bodies) - 1
    OBVIOUS
  <2> QED BY <1>1, <1>3, <2>1, <2>2, <2>3
<1>8. CASE CheckCoverage
  <2>1. phase' # "refused" \/ blame' \in Checksums
    BY <1>8 DEF CheckCoverage, Fail
  <2>2. 0 \notin Checksums
    BY DEF Checksums
  <2> QED BY <1>3, <2>1, <2>2
<1>9. CASE Validate
  <2>1. /\ phase = "model" /\ UNCHANGED <<message, bodies>>
        /\ \/ phase' # "refused"
           \/ Borrows /\ Needs # {}
           \/ Bad # {} /\ blame' = Blamed(Lowest(Bad))
           \/ ~Stampable
    BY <1>9 DEF Validate, Fail
  <2>2. CASE Bad # {} /\ blame' = Blamed(Lowest(Bad))
    <3>1. Lowest(Bad) \in Bad
      BY <2>1, <2>2, LowestBad
    <3>2. blame' = 0 => AtStruct
      BY <2>1, <2>2, <3>1, BlamedField
    <3> QED BY <1>3, <2>1, <3>2, ExceptionsKept DEF Excepted
  <2>3. CASE (Borrows /\ Needs # {}) \/ ~Stampable
    BY <1>3, <2>1, <2>3, ExceptionsKept DEF Excepted
  <2> QED BY <1>3, <2>1, <2>2, <2>3
<1>10. CASE CheckPredicates
  <2> DEFINE S == {f \in 1 .. Len(bodies) : ~PredicateOk(f)}
  <2>1. phase' # "refused" \/ (S # {} /\ blame' = Lowest(S))
    BY <1>10 DEF CheckPredicates, Fail
  <2>2. S \in SUBSET Nat /\ 0 \notin S
    <3>1. Len(bodies) \in Nat
      BY DEF DeriveInv, BodiesInv
    <3> QED BY <3>1
  <2> HIDE DEF S
  <2> QED BY <1>3, <2>1, <2>2, LowestIn
<1>11. CASE UNCHANGED vars
  <2>1. UNCHANGED <<message, bodies, phase, blame>>
    BY <1>11 DEF vars
  <2> QED BY <1>2, <1>3, <2>1, ExceptionsKept
<1> QED BY <1>4, <1>5, <1>6, <1>7, <1>8, <1>9, <1>10, <1>11 DEF Next

(* Of any struct: an error points at a field, unless the struct borrows    *)
(* and takes parameters, or its checksums cover each other, or a field is  *)
(* misplaced, takes fixed bytes at an offset, or has encode write into a   *)
(* parameter (invalid, reference_site, after_open_end, check_coverage).    *)
THEOREM RefusedInPlaceHolds == Spec => []RefusedInPlace
<1>1. Init => RefusedInPlace
  BY DEF Init, RefusedInPlace
<1>2. DeriveInv /\ RefusedInPlace /\ [Next]_vars => RefusedInPlace'
  BY RefusedNext
<1> QED BY <1>1, <1>2, DeriveInvHolds, PTL DEF Spec

----------------------------------------------------------------------------
(***************************************************************************)
(* Nothing is ignored.                                                     *)
(***************************************************************************)
Numbered(n) == [j \in 1 .. n |-> j]

LEMMA NumberedTypes ==
    ASSUME NEW n \in Nat
    PROVE  Numbered(n) \in Seq(Nat) /\ Len(Numbered(n)) = n /\ \A j \in 1 .. n : Numbered(n)[j] = j
<1>1. Numbered(n) \in [1 .. n -> Nat]
  BY DEF Numbered
<1> QED BY <1>1, SeqDef DEF Numbered

LEMMA NumberedOn ==
    ASSUME NEW n \in Nat, NEW fs \in Seq(Nat), \A i \in DOMAIN fs : fs[i] = n + i
    PROVE  Numbered(n) \o fs = Numbered(n + Len(fs))
<1> DEFINE s == Numbered(n) \o fs
           t == Numbered(n + Len(fs))
<1>1. Len(fs) \in Nat /\ DOMAIN fs = 1 .. Len(fs)
  OBVIOUS
<1>2. /\ Numbered(n) \in Seq(Nat) /\ Len(Numbered(n)) = n
      /\ \A j \in 1 .. n : Numbered(n)[j] = j
      /\ t \in Seq(Nat) /\ Len(t) = n + Len(fs) /\ \A j \in 1 .. n + Len(fs) : t[j] = j
  <2>1. n + Len(fs) \in Nat
    BY <1>1
  <2> QED BY <2>1, NumberedTypes
<1>3. /\ s \in Seq(Nat) /\ Len(s) = n + Len(fs)
      /\ \A i \in 1 .. n + Len(fs) : s[i] = IF i <= n THEN Numbered(n)[i] ELSE fs[i - n]
  <2> DEFINE r == Numbered(n)
  <2>1. /\ r \o fs \in Seq(Nat) /\ Len(r \o fs) = Len(r) + Len(fs)
        /\ \A i \in 1 .. Len(r) + Len(fs) :
              (r \o fs)[i] = IF i <= Len(r) THEN r[i] ELSE fs[i - Len(r)]
    <3> HIDE DEF r
    <3> QED BY <1>2, ConcatProperties DEF r
  <2> QED BY <1>2, <2>1
<1> HIDE DEF s, t
<1>4. \A i \in 1 .. n + Len(fs) : s[i] = t[i]
  <2> SUFFICES ASSUME NEW i \in 1 .. n + Len(fs) PROVE s[i] = i
    BY <1>2
  <2>1. CASE i <= n
    <3>1. i \in 1 .. n
      BY <2>1
    <3> QED BY <1>2, <1>3, <2>1, <3>1
  <2>2. CASE ~(i <= n)
    <3>1. i - n \in DOMAIN fs /\ n + (i - n) = i
      BY <1>1, <2>2
    <3> QED BY <1>3, <2>2, <3>1
  <2> QED BY <2>1, <2>2
<1>5. s = t
  BY <1>2, <1>3, <1>4, SeqEqual
<1> QED BY <1>5 DEF s, t

(* What the segments of an accepted struct are.                            *)
LEMMA AcceptedLaid ==
    ASSUME DeriveInv, phase = "accepted"
    PROVE  /\ Len(bodies) = Len(message) /\ Len(message) \in Nat \ {0} /\ BodiesInv
           /\ message \in Messages
           /\ Laid(segments, bodies, Len(message) + 1)
           /\ Len(segments) \in Nat \ {0} /\ DOMAIN segments = 1 .. Len(segments)
           /\ \A k \in DOMAIN segments :
                /\ segments[k].fields \in Seq(Nat) /\ segments[k].fields[1] \in Nat \ {0}
                /\ Len(segments[k].fields) \in Nat \ {0}
<1>1. /\ Laid(segments, bodies, field - Len(block)) /\ block = <<>> /\ field = Len(message) + 1
      /\ Len(bodies) = Len(message) /\ message \in Messages /\ BodiesInv
  BY DEF DeriveInv, LoweredInv, Lowered
<1>2. Len(message) \in Nat \ {0}
  BY <1>1, MessageTypes
<1>3. field - Len(block) = Len(message) + 1
  BY <1>1, <1>2
<1>4. Laid(segments, bodies, Len(message) + 1)
  BY <1>1, <1>3
<1> DEFINE Segs == [fields : Seq(Nat), align : Attribute]
<1>5. segments \in Seq(Segs) /\ segments # <<>>
  BY <1>2, <1>4 DEF Laid
<1>6. \A k \in DOMAIN segments : segments[k] \in Segs
  <2> HIDE DEF Segs
  <2> QED BY <1>5
<1>7. ASSUME NEW k \in DOMAIN segments
      PROVE  /\ segments[k].fields \in Seq(Nat) /\ segments[k].fields[1] \in Nat \ {0}
             /\ Len(segments[k].fields) \in Nat \ {0}
  <2> DEFINE fs == segments[k].fields
  <2>1. fs \in Seq(Nat) /\ fs # <<>> /\ fs[1] >= 1
    BY <1>4, <1>6 DEF Laid
  <2> HIDE DEF fs
  <2>2. Len(fs) \in Nat \ {0} /\ fs[1] \in Nat \ {0}
    BY <2>1
  <2> QED BY <2>1, <2>2 DEF fs
<1> HIDE DEF Segs
<1>8. Len(segments) \in Nat \ {0} /\ DOMAIN segments = 1 .. Len(segments)
  BY <1>5
<1> QED BY <1>1, <1>2, <1>4, <1>7, <1>8

(* Flattened is the recursive function its definition says: the numbers up *)
(* to the end of each segment.                                             *)
LEMMA FlattenedInOrder ==
    ASSUME DeriveInv, phase = "accepted"
    PROVE  Flattened[Len(segments)] = Numbered(Len(message))
<1> DEFINE L     == Len(segments)
           fs(k) == segments[k].fields
           End(k) == IF k = 0 THEN 0 ELSE fs(k)[1] + Len(fs(k)) - 1
           g     == [k \in 0 .. L |-> Numbered(End(k))]
<1>1. /\ L \in Nat \ {0} /\ DOMAIN segments = 1 .. L /\ Len(message) \in Nat \ {0}
      /\ Laid(segments, bodies, Len(message) + 1)
      /\ \A k \in 1 .. L :
            fs(k) \in Seq(Nat) /\ fs(k)[1] \in Nat \ {0} /\ Len(fs(k)) \in Nat \ {0}
  BY AcceptedLaid
<1>2. \A k \in 1 .. L :
          /\ \A i \in DOMAIN fs(k) : fs(k)[i] = fs(k)[1] + (i - 1)
          /\ k = 1 => fs(k)[1] = 1
          /\ k > 1 => fs(k)[1] = fs(k - 1)[1] + Len(fs(k - 1))
          /\ k = L => fs(k)[1] + Len(fs(k)) = Len(message) + 1
  BY <1>1 DEF Laid
<1> HIDE DEF L, fs
<1>3. \A k \in 0 .. L : End(k) \in Nat
  <2> SUFFICES ASSUME NEW k \in 0 .. L PROVE End(k) \in Nat
    OBVIOUS
  <2>1. CASE k # 0
    <3>1. fs(k)[1] \in Nat \ {0} /\ Len(fs(k)) \in Nat
      BY <1>1, <2>1
    <3> QED BY <2>1, <3>1
  <2> QED BY <2>1
<1>4. End(L) = Len(message) /\ End(0) = 0
  <2>1. L \in 1 .. L /\ L # 0
    BY <1>1
  <2>2. fs(L)[1] + Len(fs(L)) = Len(message) + 1 /\ fs(L)[1] \in Nat /\ Len(fs(L)) \in Nat
    BY <1>1, <1>2, <2>1
  <2> QED BY <1>1, <2>1, <2>2
<1>5. ASSUME NEW k \in 1 .. L
      PROVE  /\ k - 1 \in 0 .. L /\ End(k) = End(k - 1) + Len(fs(k))
             /\ \A i \in DOMAIN fs(k) : fs(k)[i] = End(k - 1) + i
  <2>1. k \in Nat /\ k # 0 /\ k - 1 \in 0 .. L /\ (k # 1 => k > 1 /\ k - 1 # 0 /\ k - 1 \in 1 .. L)
    BY <1>1
  <2>2. fs(k)[1] = End(k - 1) + 1
    <3>1. CASE k = 1
      <4>1. fs(k)[1] = 1 /\ k - 1 = 0
        BY <1>2, <3>1
      <4> QED BY <4>1
    <3>2. CASE k # 1
      <4>1. fs(k)[1] = fs(k - 1)[1] + Len(fs(k - 1)) /\ k - 1 # 0 /\ k - 1 \in 1 .. L
        BY <1>2, <2>1, <3>2
      <4>2. fs(k - 1)[1] \in Nat /\ Len(fs(k - 1)) \in Nat
        BY <1>1, <4>1
      <4>3. End(k - 1) = fs(k - 1)[1] + Len(fs(k - 1)) - 1
        BY <4>1
      <4> HIDE DEF End
      <4> QED BY <4>1, <4>2, <4>3
    <3> QED BY <3>1, <3>2
  <2>3. End(k) = fs(k)[1] + Len(fs(k)) - 1 /\ End(k - 1) \in Nat
    BY <1>3, <2>1
  <2>4. \A i \in DOMAIN fs(k) : i \in Nat
    BY <1>1
  <2>5. \A i \in DOMAIN fs(k) : fs(k)[i] = fs(k)[1] + (i - 1)
    BY <1>2
  <2> HIDE DEF End
  <2>6. End(k) = End(k - 1) + Len(fs(k))
    BY <1>1, <2>2, <2>3
  <2>7. \A i \in DOMAIN fs(k) : fs(k)[i] = End(k - 1) + i
    BY <2>2, <2>3, <2>4, <2>5
  <2> QED BY <2>1, <2>6, <2>7
<1> HIDE DEF End
<1>6. ASSUME NEW k \in 1 .. L
      PROVE  Numbered(End(k)) = Numbered(End(k - 1)) \o fs(k)
  <2>1. End(k - 1) \in Nat /\ fs(k) \in Seq(Nat)
    BY <1>1, <1>3, <1>5
  <2> QED BY <1>5, <2>1, NumberedOn
<1>7. Numbered(0) = <<>>
  BY DEF Numbered
<1> DEFINE Rec(f) == [k \in 0 .. L |-> IF k = 0 THEN <<>> ELSE f[k - 1] \o fs(k)]
<1>8. g = Rec(g)
  <2>1. ASSUME NEW k \in 0 .. L
        PROVE  g[k] = IF k = 0 THEN <<>> ELSE g[k - 1] \o fs(k)
    <3>1. CASE k = 0
      BY <1>4, <1>7, <3>1
    <3>2. CASE k # 0
      <4>1. k \in 1 .. L /\ k - 1 \in 0 .. L
        BY <1>1, <1>5, <3>2
      <4>2. g[k] = Numbered(End(k)) /\ g[k - 1] = Numbered(End(k - 1))
        BY <4>1
      <4> HIDE DEF g
      <4> QED BY <1>6, <3>2, <4>1, <4>2
    <3> QED BY <3>1, <3>2
  <2> QED BY <2>1
<1>9. Flattened = CHOOSE f : f = Rec(f)
  BY DEF Flattened, L, fs
<1> HIDE DEF g
<1>10. Flattened = Rec(Flattened)
  <2> HIDE DEF Rec
  <2> QED BY <1>8, <1>9
<1>11. \A k \in 0 .. L : Flattened[k] = g[k]
  <2> DEFINE F == Flattened
  <2>1. \A k \in 0 .. L : F[k] = IF k = 0 THEN <<>> ELSE F[k - 1] \o fs(k)
    BY <1>10
  <2>2. \A k \in 0 .. L : g[k] = IF k = 0 THEN <<>> ELSE g[k - 1] \o fs(k)
    BY <1>8
  <2> DEFINE T == {k \in 0 .. L : F[k] # g[k]}
  <2> HIDE DEF F
  <2>3. SUFFICES ASSUME T # {} PROVE FALSE
    BY DEF F
  <2>4. PICK k \in T : \A j \in T : k <= j
    <3>1. T \in SUBSET Nat
      OBVIOUS
    <3> HIDE DEF T
    <3> QED BY <2>3, <3>1, NatLeast
  <2>5. k \in 0 .. L /\ k # 0 /\ F[k] # g[k]
    BY <2>1, <2>2, <2>4
  <2>6. k - 1 \in 0 .. L /\ ~(k <= k - 1)
    BY <1>1, <2>5
  <2>7. F[k - 1] = g[k - 1]
    BY <2>4, <2>6
  <2> QED BY <2>1, <2>2, <2>5, <2>7
<1>12. L \in 0 .. L /\ g[L] = Numbered(Len(message))
  <2>1. L \in 0 .. L
    BY <1>1
  <2> QED BY <1>4, <2>1 DEF g
<1> QED BY <1>11, <1>12 DEF L

LEMMA SegmentFound ==
    ASSUME DeriveInv, phase = "accepted", NEW f \in 1 .. Len(message)
    PROVE  segments[SegmentOf(f)].align = bodies[f].align
<1> DEFINE L     == Len(segments)
           fs(k) == segments[k].fields
           T     == {k \in 1 .. L : f < fs(k)[1] + Len(fs(k))}
<1>1. /\ L \in Nat \ {0} /\ DOMAIN segments = 1 .. L /\ Len(message) \in Nat \ {0}
      /\ Laid(segments, bodies, Len(message) + 1)
      /\ \A k \in 1 .. L :
            fs(k) \in Seq(Nat) /\ fs(k)[1] \in Nat \ {0} /\ Len(fs(k)) \in Nat \ {0}
  BY AcceptedLaid
<1>2. \A k \in 1 .. L :
          /\ \A i \in DOMAIN fs(k) : /\ fs(k)[i] = fs(k)[1] + (i - 1)
                                     /\ segments[k].align = bodies[fs(k)[i]].align
          /\ k = 1 => fs(k)[1] = 1
          /\ k > 1 => fs(k)[1] = fs(k - 1)[1] + Len(fs(k - 1))
          /\ k = L => fs(k)[1] + Len(fs(k)) = Len(message) + 1
  BY <1>1 DEF Laid
<1> HIDE DEF L, fs
<1>3. L \in T
  <2>1. L \in 1 .. L
    BY <1>1
  <2>2. fs(L)[1] + Len(fs(L)) = Len(message) + 1
    BY <1>2, <2>1
  <2>3. f < Len(message) + 1
    BY <1>1
  <2> QED BY <2>1, <2>2, <2>3
<1>4. PICK k \in T : \A j \in T : k <= j
  <2>1. T \in SUBSET Nat
    OBVIOUS
  <2> HIDE DEF T
  <2> QED BY <1>3, <2>1, NatLeast
<1>5. k \in 1 .. L /\ f < fs(k)[1] + Len(fs(k))
  BY <1>4
<1>6. fs(k)[1] <= f
  <2>1. CASE k = 1
    BY <1>2, <1>5, <2>1
  <2>2. CASE k # 1
    <3>1. k > 1 /\ k - 1 \in 1 .. L /\ ~(k <= k - 1)
      BY <1>1, <1>5, <2>2
    <3>2. ~(f < fs(k - 1)[1] + Len(fs(k - 1)))
      BY <1>4, <3>1
    <3>3. fs(k)[1] = fs(k - 1)[1] + Len(fs(k - 1))
      BY <1>2, <1>5, <3>1
    <3>4. fs(k)[1] \in Nat /\ ~(f < fs(k)[1])
      BY <1>1, <1>5, <3>2, <3>3
    <3> QED BY <3>4
  <2> QED BY <2>1, <2>2
<1> DEFINE Held(j) == {fs(j)[i] : i \in DOMAIN fs(j)}
<1>7. f \in Held(k)
  <2> DEFINE i == f - fs(k)[1] + 1
  <2>1. fs(k) \in Seq(Nat) /\ fs(k)[1] \in Nat /\ Len(fs(k)) \in Nat
    BY <1>1, <1>5
  <2>2. i \in 1 .. Len(fs(k)) /\ f = fs(k)[1] + (i - 1)
    BY <1>5, <1>6, <2>1
  <2> HIDE DEF i
  <2>3. i \in DOMAIN fs(k)
    BY <2>1, <2>2
  <2>4. fs(k)[i] = f
    BY <1>2, <1>5, <2>2, <2>3
  <2> QED BY <2>3, <2>4
<1> DEFINE s == SegmentOf(f)
<1>8. s \in 1 .. L /\ f \in Held(s)
  <2>1. s = CHOOSE j \in 1 .. L : f \in Held(j)
    BY <1>1 DEF SegmentOf, FieldsOf, fs
  <2> HIDE DEF s, Held
  <2> QED BY <1>5, <1>7, <2>1
<1> HIDE DEF s
<1>9. PICK i \in DOMAIN fs(s) : f = fs(s)[i]
  BY <1>8
<1> QED BY <1>2, <1>8, <1>9 DEF s

LEMMA NothingIgnoredHere ==
    ASSUME DeriveInv
    PROVE  NothingIgnored
<1> SUFFICES ASSUME phase = "accepted"
             PROVE  NothingIgnored
  BY DEF NothingIgnored
<1>1. /\ message \in Messages /\ BodiesInv /\ Len(bodies) = Len(message) /\ Len(message) \in Nat
  BY AcceptedLaid
<1>2. Flattened[Len(segments)] = [f \in 1 .. Len(message) |-> f]
  BY FlattenedInOrder DEF Numbered
<1>3. ASSUME NEW f \in 1 .. Len(message)
      PROVE  LET written == {message[f].attrs[i] : i \in DOMAIN message[f].attrs}
                 shown   == Shown(SegmentOf(f), f)
                 kind    == {a \in written : a.word \in ShownKind(f)}
             IN  /\ \A a \in written \ (shown \cup kind) : LosesClaim(f) /\ a.word \in {"range", "magic"}
                 /\ shown \subseteq written \cup {Implied(2)}
                 /\ Cardinality(kind) = Cardinality(ShownKind(f))
  <2> DEFINE attrs   == message[f].attrs
             written == {attrs[i] : i \in DOMAIN attrs}
             shown   == Shown(SegmentOf(f), f)
             kind    == {a \in written : a.word \in ShownKind(f)}
             b       == Body(f)
  <2>1. PICK s : /\ ReadInto(s, attrs, Len(attrs)) /\ bodies[f].stated = s["at"]
                 /\ bodies[f].align = s["align"] /\ MsgFaithful(b, s)
    BY <1>1, <1>3 DEF BodiesInv, Parsed, Body
  <2>2. shown = (Attrs(b) \cup {s["at"], s["align"]}) \ {Absent}
    <3>1. segments[SegmentOf(f)].align = s["align"]
      BY <1>3, <2>1, SegmentFound
    <3> QED BY <2>1, <3>1 DEF Shown, Attrs, Body
  <2>3. /\ Len(attrs) \in Nat /\ DOMAIN attrs = 1 .. Len(attrs)
        /\ \A i \in 1 .. Len(attrs) : attrs[i].word \in Words /\ attrs[i] # Absent
    <3>1. attrs \in Seq(Written)
      <4> DEFINE S == [type : Type, attrs : Seq(Written)]
      <4>1. message[f] \in S
        <5>1. message \in Seq(S)
          BY <1>1, AttributesAssumption DEF AttributesAssumption
        <5> HIDE DEF S
        <5> QED BY <1>3, <5>1
      <4> QED BY <4>1
    <3> QED BY <1>1, <1>3, <3>1, MessageTypes
  <2>4. /\ \A a \in written : /\ a.word \in Words /\ a # Absent
                              /\ SlotOf[a.word] \in Slots /\ s[SlotOf[a.word]] = a
        /\ \A x \in Slots : s[x] = Absent \/ s[x] \in written
    <3>1. /\ \A a \in written : \E i \in 1 .. Len(attrs) : a = attrs[i]
          /\ \A i \in 1 .. Len(attrs) : attrs[i] \in written
      BY <2>3
    <3> HIDE DEF written, attrs
    <3>2. \A i \in 1 .. Len(attrs) : s[SlotOf[attrs[i].word]] = attrs[i]
      BY <2>1 DEF ReadInto
    <3>3. \A x \in Slots : s[x] = Absent \/ \E i \in 1 .. Len(attrs) : s[x] = attrs[i]
      BY <2>1 DEF ReadInto
    <3>4. \A i \in 1 .. Len(attrs) : SlotOf[attrs[i].word] \in Slots
      BY <2>3, SlotsListed
    <3> QED BY <2>3, <3>1, <3>2, <3>3, <3>4
  <2>5. Slotted(s) /\ s["foreign"] = Absent
    BY <2>1 DEF ReadInto
  <2>6. Drawn(b, s) /\ Shows(b, s) /\ ShowsKind(b, s) /\ (s["when"] # Absent => s["when"] \in Attrs(b))
    BY <2>1 DEF MsgFaithful
  <2>7. /\ LosesClaim(f) = Loses(b)
        /\ ShownKind(f) = IF b.kind.is \in {"text", "var", "message"} THEN {b.kind.is} ELSE {}
    BY DEF LosesClaim, Loses, ShownKind
  <2> HIDE DEF attrs, written, b, shown
  <2>8. \A a \in written \ (shown \cup kind) : LosesClaim(f) /\ a.word \in {"range", "magic"}
    <3> SUFFICES ASSUME NEW a \in written, a \notin shown, a \notin kind
                 PROVE  LosesClaim(f) /\ a.word \in {"range", "magic"}
      OBVIOUS
    <3> DEFINE x == SlotOf[a.word]
    <3>1. a.word \in Words /\ a # Absent /\ x \in Slots /\ s[x] = a
      BY <2>4
    <3>2. a \notin Attrs(b) /\ x # "at" /\ x # "align"
      BY <2>2, <3>1
    <3> HIDE DEF x
    <3>3. x \notin {"count", "stride", "seek", "codec", "bytes", "until", "with", "when", "foreign"}
      BY <2>5, <2>6, <3>1, <3>2 DEF Shows
    <3>4. x # "kind"
      <4> SUFFICES ASSUME x = "kind" PROVE FALSE
        OBVIOUS
      <4>1. b.kind.is = a.word /\ b.kind.is \in {"text", "var", "message"}
        BY <2>6, <3>1, <3>2 DEF ShowsKind
      <4>2. a.word \in ShownKind(f)
        BY <2>7, <4>1
      <4> QED BY <4>2
    <3>5. x \in {"range", "magic"}
      BY <3>1, <3>2, <3>3, <3>4, SlotsListed
    <3>6. Loses(b)
      BY <2>6, <3>1, <3>2, <3>5 DEF Shows
    <3>7. a.word \in {"range", "magic"}
      BY <3>1, <3>5, WordSlots DEF x
    <3> QED BY <2>7, <3>6, <3>7
  <2>9. shown \subseteq written \cup {Implied(2)}
    <3>1. \A a \in Attrs(b) : a = Absent \/ a = Implied(2) \/ a \in written
      BY <2>4, <2>6 DEF Drawn
    <3>2. \A a \in {s["at"], s["align"]} : a = Absent \/ a \in written
      BY <2>4, SlotsListed
    <3> QED BY <2>2, <3>1, <3>2
  <2>10. Cardinality(kind) = Cardinality(ShownKind(f))
    <3>1. CASE b.kind.is \notin {"text", "var", "message"}
      <4>1. ShownKind(f) = {} /\ kind = {}
        BY <2>7, <3>1
      <4> QED BY <4>1
    <3>2. CASE b.kind.is \in {"text", "var", "message"}
      <4>1. ShownKind(f) = {b.kind.is}
        BY <2>7, <3>2
      <4>2. s["kind"].word = b.kind.is /\ s["kind"] # Absent
        BY <2>6, <3>2, AbsentParts DEF ShowsKind
      <4>3. s["kind"] \in written
        BY <2>4, <4>2, SlotsListed
      <4>4. \A a \in written : a.word = b.kind.is => a = s["kind"]
        BY <2>4, <3>2, WordSlots
      <4>5. kind = {s["kind"]}
        BY <4>1, <4>2, <4>3, <4>4
      <4> HIDE DEF kind
      <4> QED BY <4>1, <4>5, FS_Singleton
    <3> QED BY <3>1, <3>2
  <2> QED BY <2>8, <2>9, <2>10 DEF attrs, written, shown
<1> QED BY <1>2, <1>3 DEF NothingIgnored

(* Every attribute that is written on a field of an accepted struct is in  *)
(* its segment, but for a claim on the elements of a run that #[until]     *)
(* ends, and nothing else is; and the segments hold the fields in the      *)
(* order of the struct (field_body, optional, lower).                      *)
THEOREM NothingIsIgnored == Spec => []NothingIgnored
<1>1. DeriveInv => NothingIgnored
  BY NothingIgnoredHere
<1> QED BY <1>1, DeriveInvHolds, PTL
=============================================================================
