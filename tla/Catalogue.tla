----------------------------- MODULE Catalogue ------------------------------
(***************************************************************************)
(* Types that stand for the bits of a field or the id of a record.         *)
(*                                                                         *)
(* #[derive(FieldCodec)] makes a codec of a newtype or an enum, the model  *)
(* makes one of an EnumDef, and #[derive(Dispatch)] makes a catalogue of   *)
(* payloads keyed by id.  The derives walk the variants once and refuse    *)
(* what they cannot give a value; what is left is decoded by a match whose *)
(* last arm takes the rest, and encoded by the same list backwards.        *)
(*                                                                         *)
(* A width is the number of values it holds, so that #[bits(3)] is 8.      *)
(***************************************************************************)
EXTENDS Integers, Sequences, FiniteSets

CONSTANTS
    Word,       \* values of a u64
    Items       \* the items a run declares

(* An item: its kind, the size of its field, the size of the integer type  *)
(* a newtype or an EnumDef is made of and whether that is signed, whether  *)
(* a #[repr(uN)] numbers the variants, and the variants.  A variant: its   *)
(* discriminant, its attribute with the value, and its shape: "unit",      *)
(* "carries" a number of so many values, "payload", or "record".           *)
Kinds    == {"newtype", "enum", "catalogue", "dispatch"}
Nothing  == -1
Discs    == Nat \cup {Nothing, -2}
Literal  == -2
Variants == [disc : Discs, attr : {"none", "value", "other", "both"}, value : Int,
             shape : {"unit", "carries", "payload", "record"}, carried : Nat]
Item     == [kind : Kinds, size : Nat \ {0, 1}, inner : Nat \ {0, 1}, signed : BOOLEAN,
             repr : BOOLEAN, variants : Seq(Variants)]

ASSUME CatalogueAssumption ==
    /\ Word \in Nat \ {0, 1} /\ Word % 2 = 0
    /\ \A it \in Items : it \in Item /\ it.size <= Word /\ it.inner <= Word
    /\ \A it \in Items : it.kind = "catalogue" =>
            /\ it.size <= it.inner
            /\ \A i \in DOMAIN it.variants : it.variants[i].attr = "other" => i = Len(it.variants)
    /\ \A it \in Items : \A i \in DOMAIN it.variants : it.variants[i].carried <= Word

VARIABLES
    item,       \* what is declared
    phase,
    next,       \* the variant the loop is at
    listed,     \* the variants with a value, in order
    open,       \* the #[other] variant, or 0
    implicit,   \* what Rust numbers the next variant, or Nothing
    origin,     \* the raw bits decoded, or Nothing
    fits,       \* whether the listed payload accepts the record's body
    stamped,    \* the number encode was to write
    value,      \* the value held
    sent,       \* the bits written for it
    back        \* what those bits decode to

loop   == <<next, listed, open, implicit>>
travel == <<origin, fits, stamped, value, sent, back>>
vars   == <<item, phase, loop, travel>>

size     == item.size
variants == item.variants

Valued(arm, n) == [arm |-> arm, n |-> n]
Blank == Valued(0, 0)

Init ==
    /\ item \in Items /\ phase = "variants"
    /\ next = 1 /\ listed = <<>> /\ open = 0 /\ implicit = Nothing
    /\ origin = Nothing /\ fits = TRUE /\ stamped = [some |-> FALSE, n |-> 0]
    /\ value = Blank /\ sent = 0 /\ back = Blank

----------------------------------------------------------------------------
(* The key of a variant: its value, or that it takes the others.           *)
Value(n) == [form |-> "value", n |-> n]
Other    == [form |-> "other", n |-> 0]
NoKey    == [form |-> "refused", n |-> 0]

(* variant_key.                                                            *)
VariantKey(v) ==
    CASE v.attr = "value" -> Value(v.value)
      [] v.attr = "other" -> Other
      [] OTHER            -> NoKey

(* Mutant: a variant without a value is one past the last value listed.    *)
CodecKeyByValue(v) ==
    IF v.attr # "none" THEN VariantKey(v)
    ELSE IF v.disc >= 0 THEN Value(v.disc)
    ELSE IF ~item.repr THEN NoKey
    ELSE IF listed = <<>> THEN Value(0)
    ELSE Value(listed[Len(listed)].value + 1)

(* codec_key.                                                              *)
CodecKey(v) ==
    IF v.disc # Nothing THEN IF v.attr = "none" /\ v.disc # Literal THEN Value(v.disc) ELSE NoKey
    ELSE IF v.attr # "none" \/ ~item.repr THEN VariantKey(v)
    ELSE IF next = 1 THEN Value(0)
    ELSE IF implicit = Nothing THEN NoKey ELSE Value(implicit)

Variant == variants[next]
Key     == IF item.kind = "dispatch" THEN VariantKey(Variant) ELSE CodecKey(Variant)

(* Whether the variant is one that its key can have: a value without data, *)
(* the rest with an integer that holds every bit, a payload, a record.     *)
Shaped ==
    IF item.kind = "dispatch"
    THEN Variant.shape = IF Key.form = "value" THEN "payload" ELSE "record"
    ELSE IF Key.form = "value" THEN Variant.shape = "unit"
    ELSE Variant.shape = "carries" /\ Variant.carried >= size

Looping == phase = "variants" /\ item.kind \in {"enum", "dispatch"} /\ next <= Len(variants)

Unlisted(n) == \A l \in 1 .. Len(listed) : listed[l].value # n

(* Mutant: a value may be listed twice.                                    *)
ListableTwice == Key.n \in 0 .. size - 1 /\ Shaped

(* The value fits the width or the prefix, and no other variant has it.    *)
Listable == Key.n \in 0 .. size - 1 /\ Unlisted(Key.n) /\ Shaped

(* What Rust numbers the next variant, while the values are Rust's.        *)
Numbered ==
    IF Key.form = "value" /\ Variant.attr # "value" /\ Key.n + 1 < Word THEN Key.n + 1 ELSE Nothing

(* The loop over the variants.                                             *)
ListVariant ==
    /\ Looping /\ Key.form = "value" /\ Listable
    /\ listed' = Append(listed, [arm |-> next, value |-> Key.n])
    /\ implicit' = Numbered /\ next' = next + 1
    /\ UNCHANGED <<item, phase, open, travel>>

OpenVariant ==
    /\ Looping /\ Key.form = "other" /\ open = 0 /\ Shaped
    /\ open' = next /\ implicit' = Numbered /\ next' = next + 1
    /\ UNCHANGED <<item, phase, listed, travel>>

RefuseVariant ==
    /\ Looping
    /\ CASE Key.form = "value" -> ~Listable
         [] Key.form = "other" -> open # 0 \/ ~Shaped
         [] OTHER              -> TRUE
    /\ phase' = "refused"
    /\ UNCHANGED <<item, loop, travel>>

(* Without #[other], every value of the width has a variant; a dispatch    *)
(* always has one.                                                         *)
Total == open # 0 \/ (item.kind = "enum" /\ Len(listed) = size)

EndVariants ==
    /\ phase = "variants" /\ item.kind \in {"enum", "dispatch"} /\ next > Len(variants)
    /\ phase' = IF Total THEN "ready" ELSE "refused"
    /\ UNCHANGED <<item, loop, travel>>

(* newtype: the width is at most the integer's.                            *)
CheckNewtype ==
    /\ phase = "variants" /\ item.kind = "newtype"
    /\ phase' = IF size <= item.inner THEN "ready" ELSE "refused"
    /\ UNCHANGED <<item, loop, travel>>

(* validate_enum, with bounds and distinct.  The fallback is declared      *)
(* apart from the variants: here it is the last one.                       *)
Lowest  == IF item.signed THEN -(size \div 2) ELSE 0
Bounded(n) == n \in Lowest .. Lowest + size - 1

ValidateEnum ==
    LET others == {i \in DOMAIN variants : variants[i].attr = "other"}
        values == IF others = {} THEN variants ELSE SubSeq(variants, 1, Len(variants) - 1)
    IN  /\ phase = "variants" /\ item.kind = "catalogue"
        /\ IF /\ \A i \in DOMAIN values : Bounded(values[i].value)
              /\ \A i, j \in DOMAIN values : values[i].value = values[j].value => i = j
              /\ others # {} \/ Len(values) = size
           THEN /\ phase' = "ready"
                /\ listed' = [i \in DOMAIN values |-> [arm |-> i, value |-> values[i].value]]
                /\ open' = IF others = {} THEN 0 ELSE Len(variants)
           ELSE phase' = "refused" /\ UNCHANGED <<listed, open>>
        /\ UNCHANGED <<item, next, implicit, travel>>

----------------------------------------------------------------------------
(* The generated code.                                                     *)

(* A cast to a signed integer of so many values.                           *)
AsSigned(n, of) == IF 2 * (n % of) >= of THEN (n % of) - of ELSE n % of

(* enum_parts: raw as repr, which is the primitive the width fits in.      *)
AsRepr(raw) == IF item.signed THEN AsSigned(raw, item.inner) ELSE raw % item.inner

Hits(n, upto) == {l \in 1 .. upto : listed[l].value = n}
ArmOf(hits)   == listed[CHOOSE l \in hits : TRUE].arm

(* The last arm of the derived match: the #[other] variant, or in a total  *)
(* enum the variant listed last.                                           *)
Rest(n) == IF open # 0 THEN Valued(open, n) ELSE Valued(listed[Len(listed)].arm, 0)

Matched(n) ==
    LET hits == Hits(n, IF open # 0 THEN Len(listed) ELSE Len(listed) - 1)
    IN  IF hits # {} THEN Valued(ArmOf(hits), 0) ELSE Rest(n)

(* enum_parts matches every value and falls back to the first variant.     *)
Looked(n) ==
    LET hits == Hits(n, Len(listed))
    IN  IF hits # {} THEN Valued(ArmOf(hits), 0)
        ELSE IF open # 0 THEN Valued(open, n) ELSE Valued(listed[1].arm, 0)

(* Dispatch::decode: a body the arm's layout rejects is kept with its id.  *)
Dispatched(id, fit) ==
    LET hits == Hits(id, Len(listed))
    IN  IF hits # {} /\ fit THEN Valued(ArmOf(hits), 0) ELSE Valued(open, id)

FromRaw(raw, fit) ==
    CASE item.kind = "newtype"   -> Valued(0, IF item.signed THEN AsSigned(raw, size) ELSE raw % size)
      [] item.kind = "enum"      -> Matched(raw % size)
      [] item.kind = "catalogue" -> Looked(AsRepr(raw))
      [] item.kind = "dispatch"  -> Dispatched(raw, fit)

ValueOf(arm) == listed[CHOOSE l \in 1 .. Len(listed) : listed[l].arm = arm].value

(* Mutant: a signed newtype is written as it is held.                      *)
ToRawSigned(v) ==
    IF item.kind = "newtype" \/ v.arm = open THEN v.n % Word ELSE ValueOf(v.arm) % Word

(* to_raw, and Dispatch::id.                                               *)
ToRaw(v) ==
    CASE item.kind = "newtype" /\ item.signed    -> v.n % size
      [] item.kind = "newtype" /\ ~item.signed   -> v.n
      [] item.kind # "newtype" /\ v.arm = open   -> v.n % Word
      [] item.kind # "newtype" /\ v.arm # open   -> ValueOf(v.arm) % Word

(* wire_int_impl.                                                          *)
ToI64(v)   == AsSigned(ToRaw(v), Word)
FromI64(n) == FromRaw(n % Word, TRUE)

(* fits_in_field.                                                          *)
FitsInField(n) ==
    LET signed == ToI64(FromI64(-1)) < 0
        stored == IF signed THEN AsSigned(n, size) ELSE n % size
    IN  ToI64(FromI64(n)) = n /\ (size = Word \/ stored = n)

(* The values a program can hold.                                          *)
Integer(n, signed) == IF signed THEN -(n \div 2) .. n \div 2 - 1 ELSE 0 .. n - 1

Holdable ==
    IF item.kind = "newtype" THEN {Valued(0, n) : n \in Integer(item.inner, item.signed)}
    ELSE LET carried == IF item.kind = "enum" THEN Integer(variants[open].carried, FALSE)
                        ELSE IF item.kind = "catalogue" THEN Integer(item.inner, item.signed)
                        ELSE 0 .. size - 1
         IN  {Valued(listed[l].arm, 0) : l \in 1 .. Len(listed)}
             \cup IF open = 0 THEN {} ELSE {Valued(open, n) : n \in carried}

Decode ==
    /\ phase = "ready"
    /\ \E raw \in 0 .. size - 1, fit \in BOOLEAN :
        /\ item.kind = "dispatch" \/ fit
        /\ origin' = raw /\ fits' = fit /\ value' = FromRaw(raw, fit)
    /\ phase' = "held"
    /\ UNCHANGED <<item, loop, stamped, sent, back>>

Hold ==
    /\ phase = "ready"
    /\ value' \in Holdable
    /\ phase' = "held"
    /\ UNCHANGED <<item, loop, origin, fits, stamped, sent, back>>

(* Encode derives the field: a number that does not survive is refused.    *)
Stamp ==
    /\ phase = "ready" /\ item.kind \in {"newtype", "enum"}
    /\ \E n \in Integer(Word, TRUE) :
        /\ FitsInField(n)
        /\ stamped' = [some |-> TRUE, n |-> n] /\ value' = FromI64(n)
    /\ phase' = "held"
    /\ UNCHANGED <<item, loop, origin, fits, sent, back>>

(* The field's write asserts that no bit is lost; an id is not a field.    *)
Encode ==
    /\ phase = "held"
    /\ IF item.kind = "dispatch" \/ ToRaw(value) < size
       THEN phase' = "sent" /\ sent' = ToRaw(value)
       ELSE phase' = "panicked" /\ UNCHANGED sent
    /\ UNCHANGED <<item, loop, origin, fits, stamped, value, back>>

DecodeSent ==
    /\ phase = "sent"
    /\ back' = FromRaw(sent, fits) /\ phase' = "back"
    /\ UNCHANGED <<item, loop, origin, fits, stamped, value, sent>>

Next ==
    \/ ListVariant \/ OpenVariant \/ RefuseVariant \/ EndVariants
    \/ CheckNewtype \/ ValidateEnum
    \/ Decode \/ Hold \/ Stamp \/ Encode \/ DecodeSent

Spec == Init /\ [][Next]_vars

----------------------------------------------------------------------------
(* What a program must know of two kinds of type: an EnumDef of a signed   *)
(* type extends the sign of a value past its field, and a signed newtype   *)
(* is cut to its field.                                                    *)
SignLeaves(raw) == item.kind = "catalogue" /\ item.signed /\ 2 * raw >= size
CutsSign        == item.kind = "newtype" /\ item.signed

(* Every bit pattern of a field is some value, and that value is written   *)
(* as the same bits; a record is kept under its id.  The match has no arm  *)
(* for what is left over, so that is only so because the loop listed every *)
(* value once (enum_codec, FieldCodec::from_raw, Dispatch::decode).        *)
EveryRawReturns ==
    origin # Nothing /\ ~SignLeaves(origin) =>
        /\ phase # "panicked"
        /\ phase \in {"sent", "back"} => sent = origin

(* What is written is read back as a value of the same bits, which is the  *)
(* same value unless the rest variant held a listed number; a value that   *)
(* is refused has no bits to read back from; and a number that encode      *)
(* derives is read back as that number (FieldCodec::to_raw, fits_in_field).*)
HeldOrRefused ==
    /\ phase = "back" /\ ~CutsSign /\ (item.kind = "catalogue" => ~item.signed) =>
        /\ ToRaw(back) = ToRaw(value)
        /\ back # value => value.arm = open /\ ~Unlisted(value.n)
    /\ phase = "panicked" =>
        /\ ~stamped.some
        /\ \A raw \in 0 .. size - 1 : SignLeaves(raw) \/ FromRaw(raw, fits) # value
    /\ phase = "back" /\ stamped.some => ToI64(back) = stamped.n

(* What Rust numbers a variant: its discriminant, or one past the variant  *)
(* before.                                                                 *)
Numbering[i \in 1 .. Len(variants)] ==
    IF variants[i].disc >= 0 THEN variants[i].disc ELSE IF i = 1 THEN 0 ELSE Numbering[i - 1] + 1

(* A variant with no #[value] stands for the number Rust gives it, so      *)
(* `as' and the wire agree, whatever #[value]s stand between (codec_key).  *)
DiscriminantIsWire ==
    phase # "refused" /\ item.kind = "enum" =>
        \A l \in 1 .. Len(listed) :
            variants[listed[l].arm].attr = "none" => listed[l].value = Numbering[listed[l].arm]
=============================================================================
