-------------------------- MODULE CatalogueProofs ---------------------------
(***************************************************************************)
(* Every bit pattern of a field returns as itself, for every field width,  *)
(* every integer type and every list of variants.                          *)
(*                                                                         *)
(* The match that is generated takes what is left over in its last arm,    *)
(* whatever that is.  What makes it right is what the loop over the        *)
(* variants has established by then: every value is listed once, under its *)
(* own variant, inside the range of the field; and where no variant takes  *)
(* the others, as many are listed as there are, so that none is missing.   *)
(*                                                                         *)
(* A variant without a number of its own counts on from the one before, as *)
(* Rust's own numbers do, and never from a #[value].                       *)
(***************************************************************************)
EXTENDS Catalogue, FiniteSetTheorems, WellFoundedInduction, TLAPS

Listing == [arm : Nat \ {0}, value : Int]

(* The values of the field: those of an EnumDef may be signed.             *)
Low   == IF item.kind = "catalogue" THEN Lowest ELSE 0
Field == Low .. Low + size - 1

Typed ==
    /\ item \in Items
    /\ next \in Nat \ {0} /\ open \in Nat
    /\ listed \in Seq(Listing)

OnceEach ==
    /\ \A l \in 1 .. Len(listed) : listed[l].value \in Field /\ listed[l].arm # open
    /\ \A l, m \in 1 .. Len(listed) : listed[l].value = listed[m].value => l = m
    /\ \A l, m \in 1 .. Len(listed) : listed[l].arm = listed[m].arm => l = m

(* The loop has not come back to a variant.                                *)
Forward ==
    phase = "variants" =>
        /\ open < next
        /\ \A l \in 1 .. Len(listed) : listed[l].arm < next

Whole ==
    phase \notin {"variants", "refused"} /\ item.kind # "newtype" =>
        open # 0 \/ (item.kind # "dispatch" /\ Len(listed) = size)

(* What was decoded is held, and what is sent was made of it.              *)
Kept ==
    /\ phase \in {"variants", "ready", "refused"} => origin = Nothing
    /\ origin # Nothing =>
        /\ phase \in {"held", "sent", "back", "panicked"}
        /\ origin \in 0 .. size - 1
        /\ value = FromRaw(origin, fits)
        /\ phase \in {"sent", "back"} => sent = ToRaw(value)
        /\ phase = "panicked" => item.kind # "dispatch" /\ ~(ToRaw(value) < size)

IInv == Typed /\ OnceEach /\ Forward /\ Whole /\ Kept

----------------------------------------------------------------------------
LEMMA Remainders ==
    ASSUME NEW m \in Nat \ {0}, NEW n \in 0 .. m - 1
    PROVE  n % m = n /\ (n - m) % m = n
<1>1. n % m = n
  BY SMT
<1>2. (n - m) % m = n
  BY SMT
<1> QED BY <1>1, <1>2

LEMMA ItemTypes ==
    ASSUME item \in Items
    PROVE  /\ size \in Nat \ {0, 1} /\ item.inner \in Nat \ {0, 1} /\ Word \in Nat \ {0, 1}
           /\ size <= Word /\ item.signed \in BOOLEAN /\ item.kind \in Kinds
           /\ variants \in Seq(Variants)
           /\ item.kind = "catalogue" =>
                /\ size <= item.inner
                /\ \A i \in DOMAIN variants : variants[i].attr = "other" => i = Len(variants)
BY CatalogueAssumption DEF Item, size, variants

(* As many different values as the field has leave none out.               *)
LEMMA NoneIsMissing ==
    ASSUME Typed, OnceEach, Len(listed) = size, NEW n \in Field
    PROVE  \E l \in 1 .. Len(listed) : listed[l].value = n
<1> DEFINE f == [l \in 1 .. size |-> listed[l].value]
<1>1. size \in Nat \ {0, 1} /\ Low \in Int
  <2>1. size \in Nat \ {0, 1}
    BY ItemTypes DEF Typed
  <2>2. Lowest \in Int
    BY <2>1 DEF Lowest
  <2> QED BY <2>1, <2>2 DEF Low
<1>2. f \in [1 .. size -> Field]
  BY DEF OnceEach
<1>3. \A l, m \in 1 .. size : f[l] = f[m] => l = m
  BY DEF OnceEach
<1>4. f \in Injection(1 .. size, Field)
  BY <1>2, <1>3 DEF Injection, IsInjective
<1>5. IsFiniteSet(Field) /\ Cardinality(Field) = size
  <2>1. Low + size - 1 \in Int
    BY <1>1
  <2>2. /\ IsFiniteSet(Field)
        /\ Cardinality(Field) = IF Low > Low + size - 1 THEN 0 ELSE (Low + size - 1) - Low + 1
    BY <1>1, <2>1, FS_Interval DEF Field
  <2> QED BY <1>1, <2>2
<1>6. Cardinality(1 .. size) = size
  <2>1. Cardinality(1 .. size) = IF 1 > size THEN 0 ELSE size - 1 + 1
    BY <1>1, FS_Interval
  <2> QED BY <1>1, <2>1
<1>7. f \in Surjection(1 .. size, Field)
  BY <1>4, <1>5, <1>6, FS_Injection
<1>8. \E l \in 1 .. size : f[l] = n
  BY <1>7 DEF Surjection
<1> QED BY <1>8

(* A listed variant is written as the value it is listed under.            *)
LEMMA ArmIsWritten ==
    ASSUME Typed, OnceEach, item.kind # "newtype", NEW l \in 1 .. Len(listed),
           listed[l].value \in 0 .. size - 1
    PROVE  ToRaw(Valued(listed[l].arm, 0)) = listed[l].value
<1>1. listed[l].arm # open
  BY DEF OnceEach
<1>2. ValueOf(listed[l].arm) = listed[l].value
  <2>1. \A m \in 1 .. Len(listed) : listed[m].arm = listed[l].arm => m = l
    BY DEF OnceEach
  <2>2. (CHOOSE m \in 1 .. Len(listed) : listed[m].arm = listed[l].arm) = l
    BY <2>1
  <2> QED BY <2>2 DEF ValueOf
<1>3. listed[l].value % Word = listed[l].value
  <2>1. size \in Nat \ {0, 1} /\ Word \in Nat \ {0, 1} /\ size <= Word
    BY ItemTypes DEF Typed
  <2>2. listed[l].value \in 0 .. Word - 1
    BY <2>1
  <2> QED BY <2>1, <2>2, Remainders
<1> QED BY <1>1, <1>2, <1>3 DEF ToRaw, Valued

(* The variant that takes the others is written as the number it carries.  *)
LEMMA OpenIsWritten ==
    ASSUME Typed, item.kind # "newtype", NEW n \in 0 .. size - 1
    PROVE  ToRaw(Valued(open, n)) = n
<1>1. n % Word = n
  BY ItemTypes, Remainders DEF Typed
<1> QED BY <1>1 DEF ToRaw, Valued

LEMMA HitIsWritten ==
    ASSUME Typed, OnceEach, item.kind # "newtype", NEW n \in 0 .. size - 1,
           NEW upto \in 0 .. Len(listed), Hits(n, upto) # {}
    PROVE  ToRaw(Valued(ArmOf(Hits(n, upto)), 0)) = n
<1> DEFINE l == CHOOSE l \in Hits(n, upto) : TRUE
<1>1. l \in Hits(n, upto)
  OBVIOUS
<1>2. l \in 1 .. upto /\ listed[l].value = n
  BY <1>1 DEF Hits
<1>3. l \in 1 .. Len(listed)
  BY <1>2 DEF Typed
<1>4. ArmOf(Hits(n, upto)) = listed[l].arm
  BY DEF ArmOf
<1> HIDE DEF l
<1> QED BY <1>2, <1>3, <1>4, ArmIsWritten

(* Every bit pattern is decoded to a value that is written as the pattern. *)
LEMMA RawReturns ==
    ASSUME Typed, OnceEach, Whole, phase \notin {"variants", "refused"},
           NEW raw \in 0 .. size - 1, NEW fit, ~SignLeaves(raw)
    PROVE  ToRaw(FromRaw(raw, fit)) = raw
<1>1. /\ size \in Nat \ {0, 1} /\ item.inner \in Nat \ {0, 1} /\ Word \in Nat \ {0, 1}
      /\ size <= Word /\ item.signed \in BOOLEAN /\ item.kind \in Kinds
  BY ItemTypes DEF Typed
<1>2. raw % size = raw /\ (raw - size) % size = raw
  BY <1>1, Remainders
<1>3. Len(listed) \in Nat
  BY DEF Typed
<1>4. CASE item.kind = "newtype"
  <2>1. FromRaw(raw, fit) = Valued(0, IF item.signed THEN AsSigned(raw, size) ELSE raw % size)
    BY <1>4 DEF FromRaw
  <2>2. CASE item.signed
    <3>1. AsSigned(raw, size) = raw \/ AsSigned(raw, size) = raw - size
      BY <1>2 DEF AsSigned
    <3>2. AsSigned(raw, size) % size = raw
      BY <1>2, <3>1
    <3> QED BY <1>4, <2>1, <2>2, <3>2 DEF ToRaw, Valued
  <2>3. CASE ~item.signed
    BY <1>2, <1>4, <2>1, <2>3 DEF ToRaw, Valued
  <2> QED BY <1>1, <2>2, <2>3
<1>5. CASE item.kind = "enum"
  <2> DEFINE upto == IF open # 0 THEN Len(listed) ELSE Len(listed) - 1
             hits == Hits(raw, upto)
  <2>0. open # 0 \/ Len(listed) = size
    BY <1>5 DEF Whole
  <2>1. FromRaw(raw, fit) = IF hits # {} THEN Valued(ArmOf(hits), 0) ELSE Rest(raw)
    BY <1>2, <1>5 DEF FromRaw, Matched
  <2>2. upto \in 0 .. Len(listed)
    BY <1>1, <1>3, <2>0
  <2>3. CASE hits # {}
    BY <1>5, <2>1, <2>2, <2>3, HitIsWritten
  <2>4. CASE hits = {} /\ open # 0
    <3>1. FromRaw(raw, fit) = Valued(open, raw)
      BY <2>1, <2>4 DEF Rest
    <3> QED BY <1>5, <3>1, OpenIsWritten
  <2>5. CASE hits = {} /\ open = 0
    <3>1. FromRaw(raw, fit) = Valued(listed[Len(listed)].arm, 0)
      BY <2>1, <2>5 DEF Rest
    <3>2. raw \in Field
      BY <1>1, <1>5 DEF Field, Low
    <3>3. PICK l \in 1 .. Len(listed) : listed[l].value = raw
      BY <2>0, <2>5, <3>2, NoneIsMissing
    <3>4. l = Len(listed)
      <4>1. l \notin 1 .. Len(listed) - 1
        BY <2>5, <3>3 DEF Hits
      <4> QED BY <1>3, <4>1
    <3>5. Len(listed) \in 1 .. Len(listed) /\ listed[Len(listed)].value = raw
      BY <3>3, <3>4
    <3> QED BY <1>5, <3>1, <3>5, ArmIsWritten
  <2> QED BY <2>3, <2>4, <2>5
<1>6. CASE item.kind = "catalogue"
  <2> DEFINE hits == Hits(raw, Len(listed))
  <2>1. raw % item.inner = raw
    <3>1. size <= item.inner
      BY <1>6, ItemTypes DEF Typed
    <3>2. raw \in 0 .. item.inner - 1
      BY <1>1, <3>1
    <3> QED BY <1>1, <3>2, Remainders
  <2>2. AsRepr(raw) = raw /\ raw \in Field
    <3>1. CASE item.signed
      <4>1. 2 * raw < size
        BY <1>1, <1>6, <3>1 DEF SignLeaves
      <4>2. size <= item.inner
        BY <1>6, ItemTypes DEF Typed
      <4>3. AsRepr(raw) = raw
        BY <1>1, <2>1, <3>1, <4>1, <4>2 DEF AsRepr, AsSigned
      <4>4. Low = -(size \div 2)
        BY <1>6, <3>1 DEF Low, Lowest
      <4>5. size \div 2 \in Nat /\ 2 * (size \div 2) <= size
        BY <1>1
      <4>6. raw <= -(size \div 2) + size - 1
        BY <1>1, <4>1, <4>5
      <4> QED BY <1>1, <4>3, <4>4, <4>5, <4>6 DEF Field
    <3>2. CASE ~item.signed
      BY <1>1, <1>6, <2>1, <3>2 DEF AsRepr, Field, Low, Lowest
    <3> QED BY <1>1, <3>1, <3>2
  <2>3. FromRaw(raw, fit) = IF hits # {} THEN Valued(ArmOf(hits), 0)
                            ELSE IF open # 0 THEN Valued(open, raw) ELSE Valued(listed[1].arm, 0)
    BY <1>6, <2>2 DEF FromRaw, Looked
  <2>4. CASE hits # {}
    BY <1>3, <1>6, <2>3, <2>4, HitIsWritten
  <2>5. CASE hits = {}
    <3>1. open # 0
      <4> SUFFICES ASSUME open = 0 PROVE FALSE
        OBVIOUS
      <4>1. Len(listed) = size
        BY <1>6 DEF Whole
      <4>2. \E l \in 1 .. Len(listed) : listed[l].value = raw
        BY <2>2, <4>1, NoneIsMissing
      <4> QED BY <2>5, <4>2 DEF Hits
    <3> QED BY <1>6, <2>3, <2>5, <3>1, OpenIsWritten
  <2> QED BY <2>4, <2>5
<1>7. CASE item.kind = "dispatch"
  <2> DEFINE hits == Hits(raw, Len(listed))
  <2>1. FromRaw(raw, fit) = IF hits # {} /\ fit THEN Valued(ArmOf(hits), 0) ELSE Valued(open, raw)
    BY <1>7 DEF FromRaw, Dispatched
  <2>2. CASE hits # {} /\ fit
    BY <1>3, <1>7, <2>1, <2>2, HitIsWritten
  <2>3. CASE ~(hits # {} /\ fit)
    BY <1>7, <2>1, <2>3, OpenIsWritten
  <2> QED BY <2>2, <2>3
<1> QED BY <1>1, <1>4, <1>5, <1>6, <1>7 DEF Kinds

----------------------------------------------------------------------------
(* The key a variant is listed under is a number of the field.             *)
LEMMA ListVariantKeeps == ASSUME IInv, ListVariant PROVE IInv'
<1> DEFINE n    == Len(listed)
           new  == [arm |-> next, value |-> Key.n]
           more == Append(listed, new)
<1>1. /\ Looping /\ Listable /\ listed' = more /\ next' = next + 1
      /\ item' = item /\ phase' = phase /\ open' = open /\ origin' = origin
  BY DEF ListVariant, travel
<1>2. /\ Key.n \in 0 .. size - 1 /\ \A l \in 1 .. n : listed[l].value # Key.n
      /\ phase = "variants" /\ item.kind \in {"enum", "dispatch"}
  BY <1>1 DEF Listable, Unlisted, Looping
<1>3. size \in Nat \ {0, 1} /\ Low = 0 /\ Key.n \in Field
  <2>1. size \in Nat \ {0, 1}
    BY ItemTypes DEF IInv, Typed
  <2>2. Low = 0
    BY <1>2 DEF Low
  <2> QED BY <1>2, <2>1, <2>2 DEF Field
<1>4. n \in Nat /\ next \in Nat \ {0} /\ listed \in Seq(Listing)
  BY DEF IInv, Typed
<1>5. new \in Listing
  BY <1>2, <1>3, <1>4 DEF Listing
<1>6. /\ more \in Seq(Listing) /\ Len(more) = n + 1 /\ more[n + 1] = new
      /\ \A l \in 1 .. n : more[l] = listed[l]
  BY <1>4, <1>5
<1>7. new.arm = next /\ new.value = Key.n
  OBVIOUS
<1>8. /\ open < next /\ \A l \in 1 .. n : listed[l].arm < next /\ listed[l].arm \in Nat
      /\ open \in Nat
  <2>1. \A l \in 1 .. n : listed[l] \in Listing
    BY <1>4
  <2> QED BY <1>2, <2>1 DEF IInv, Typed, Forward, Listing
<1> HIDE DEF new, more, n
<1>9. Typed'
  BY <1>1, <1>4, <1>6 DEF IInv, Typed
<1>10. Field' = Field
  BY <1>1 DEF Field, Low, Lowest, size
<1>11. OnceEach'
  <2>1. \A l \in 1 .. n + 1 : more[l].value \in Field /\ more[l].arm # open
    <3> SUFFICES ASSUME NEW l \in 1 .. n + 1
                 PROVE  more[l].value \in Field /\ more[l].arm # open
      OBVIOUS
    <3>1. CASE l = n + 1
      BY <1>3, <1>4, <1>6, <1>7, <1>8, <3>1
    <3>2. CASE l \in 1 .. n
      BY <1>6, <3>2 DEF IInv, OnceEach, n
    <3> QED BY <1>4, <3>1, <3>2 DEF n
  <2>2. ASSUME NEW l \in 1 .. n + 1, NEW m \in 1 .. n + 1
        PROVE  /\ more[l].value = more[m].value => l = m
               /\ more[l].arm = more[m].arm => l = m
    <3>1. CASE l \in 1 .. n /\ m \in 1 .. n
      BY <1>6, <3>1 DEF IInv, OnceEach, n
    <3>2. CASE l = n + 1 /\ m \in 1 .. n
      BY <1>2, <1>4, <1>6, <1>7, <1>8, <3>2
    <3>3. CASE l \in 1 .. n /\ m = n + 1
      BY <1>2, <1>4, <1>6, <1>7, <1>8, <3>3
    <3> QED BY <1>4, <3>1, <3>2, <3>3 DEF n
  <2> QED BY <1>1, <1>6, <1>10, <2>1, <2>2 DEF OnceEach
<1>12. Forward'
  <2>1. \A l \in 1 .. n + 1 : more[l].arm < next + 1
    <3> SUFFICES ASSUME NEW l \in 1 .. n + 1 PROVE more[l].arm < next + 1
      OBVIOUS
    <3>1. CASE l = n + 1
      BY <1>4, <1>6, <1>7, <3>1
    <3>2. CASE l \in 1 .. n
      BY <1>4, <1>6, <1>8, <3>2
    <3> QED BY <1>4, <3>1, <3>2 DEF n
  <2> QED BY <1>1, <1>4, <1>6, <1>8, <2>1 DEF Forward
<1>13. Whole' /\ Kept'
  BY <1>1, <1>2 DEF IInv, Whole, Kept
<1> QED BY <1>9, <1>11, <1>12, <1>13 DEF IInv

LEMMA OpenVariantKeeps == ASSUME IInv, OpenVariant PROVE IInv'
<1>1. /\ Looping /\ open' = next /\ next' = next + 1 /\ listed' = listed
      /\ item' = item /\ phase' = phase /\ origin' = origin
  BY DEF OpenVariant, travel
<1>2. phase = "variants" /\ next \in Nat \ {0} /\ listed \in Seq(Listing)
  BY <1>1 DEF Looping, IInv, Typed
<1>3. \A l \in 1 .. Len(listed) : listed[l].arm < next /\ listed[l].arm \in Nat
  <2>1. \A l \in 1 .. Len(listed) : listed[l] \in Listing
    BY <1>2
  <2> QED BY <1>2, <2>1 DEF IInv, Forward, Listing
<1>4. Typed'
  BY <1>1, <1>2 DEF IInv, Typed
<1>5. OnceEach'
  <2>1. Field' = Field
    BY <1>1 DEF Field, Low, Lowest, size
  <2>2. \A l \in 1 .. Len(listed) : listed[l].arm # next
    BY <1>2, <1>3
  <2> QED BY <1>1, <2>1, <2>2 DEF IInv, OnceEach
<1>6. Forward'
  BY <1>1, <1>2, <1>3 DEF Forward
<1>7. Whole' /\ Kept'
  BY <1>1, <1>2 DEF IInv, Whole, Kept
<1> QED BY <1>4, <1>5, <1>6, <1>7 DEF IInv

(* The checks that accept or refuse the whole item.                        *)
LEMMA ChecksKeep ==
    ASSUME IInv, RefuseVariant \/ EndVariants \/ CheckNewtype
    PROVE  IInv'
<1>1. /\ phase = "variants" /\ phase' \in {"ready", "refused"}
      /\ UNCHANGED <<item, loop, travel>>
      /\ phase' = "ready" => item.kind = "newtype" \/ Total
  BY DEF RefuseVariant, EndVariants, CheckNewtype, Looping
<1>2. /\ item' = item /\ next' = next /\ listed' = listed /\ open' = open /\ origin' = origin
      /\ Field' = Field /\ size' = size
  BY <1>1 DEF loop, travel, Field, Low, Lowest, size
<1>3. Typed' /\ OnceEach' /\ Forward'
  BY <1>1, <1>2 DEF IInv, Typed, OnceEach, Forward
<1>4. Whole'
  BY <1>1, <1>2 DEF Total, Whole
<1>5. Kept'
  BY <1>1, <1>2 DEF IInv, Kept
<1> QED BY <1>3, <1>4, <1>5 DEF IInv

LEMMA ValidateEnumKeeps == ASSUME IInv, ValidateEnum PROVE IInv'
<1> DEFINE others == {i \in DOMAIN variants : variants[i].attr = "other"}
           values == IF others = {} THEN variants ELSE SubSeq(variants, 1, Len(variants) - 1)
           sound  == /\ \A i \in DOMAIN values : Bounded(values[i].value)
                     /\ \A i, j \in DOMAIN values : values[i].value = values[j].value => i = j
                     /\ others # {} \/ Len(values) = size
           list   == [i \in DOMAIN values |-> [arm |-> i, value |-> values[i].value]]
<1>1. /\ phase = "variants" /\ item.kind = "catalogue"
      /\ item' = item /\ next' = next /\ origin' = origin
      /\ sound => phase' = "ready" /\ listed' = list
                  /\ open' = IF others = {} THEN 0 ELSE Len(variants)
      /\ ~sound => phase' = "refused" /\ listed' = listed /\ open' = open
  BY DEF ValidateEnum, travel
<1>2. Field' = Field /\ size' = size
  BY <1>1 DEF Field, Low, Lowest, size
<1>3. CASE ~sound
  <2> HIDE DEF sound, list, others
  <2>1. Typed' /\ OnceEach' /\ Forward' /\ Whole' /\ Kept'
    BY <1>1, <1>2, <1>3 DEF IInv, Typed, OnceEach, Forward, Whole, Kept
  <2> QED BY <2>1 DEF IInv
<1>4. CASE sound
  <2>1. variants \in Seq(Variants) /\ Len(variants) \in Nat /\ DOMAIN variants = 1 .. Len(variants)
    BY ItemTypes DEF IInv, Typed
  <2>2. /\ values \in Seq(Variants) /\ Len(values) \in Nat /\ DOMAIN values = 1 .. Len(values)
        /\ others # {} => Len(values) < Len(variants)
    <3>1. CASE others = {}
      BY <2>1, <3>1
    <3>2. CASE others # {}
      <4>1. Len(variants) - 1 \in Nat
        BY <2>1, <3>2
      <4>2. /\ SubSeq(variants, 1, Len(variants) - 1) \in Seq(Variants)
            /\ Len(SubSeq(variants, 1, Len(variants) - 1)) = Len(variants) - 1
        BY <2>1, <4>1
      <4> HIDE DEF others
      <4> QED BY <2>1, <3>2, <4>1, <4>2
    <3> QED BY <3>1, <3>2
  <2> HIDE DEF values, others
  <2>3. \A i \in 1 .. Len(values) : values[i].value \in Int
    <3>1. \A i \in 1 .. Len(values) : values[i] \in Variants
      BY <2>2
    <3> QED BY <3>1 DEF Variants
  <2>4. /\ list \in Seq(Listing) /\ Len(list) = Len(values)
        /\ \A i \in 1 .. Len(values) : list[i].arm = i /\ list[i].value = values[i].value
    <3>1. \A i \in 1 .. Len(values) : [arm |-> i, value |-> values[i].value] \in Listing
      BY <2>2, <2>3 DEF Listing
    <3>2. list \in [1 .. Len(values) -> Listing]
      BY <2>2, <3>1
    <3> QED BY <2>2, <3>2
  <2>5. Typed'
    <3>1. listed' = list /\ open' \in Nat /\ item' = item /\ next' = next
      BY <1>1, <1>4, <2>1
    <3>2. list \in Seq(Listing)
      BY <2>4
    <3> HIDE DEF list, sound
    <3> QED BY <3>1, <3>2 DEF IInv, Typed
  <2>6. OnceEach'
    <3>1. \A i \in 1 .. Len(values) : values[i].value \in Field
      BY <1>1, <1>4, <2>2 DEF Bounded, Field, Low
    <3>2. \A i \in 1 .. Len(values) : i # open'
      BY <1>1, <1>4, <2>1, <2>2
    <3>3. \A i, j \in 1 .. Len(values) : values[i].value = values[j].value => i = j
      BY <1>4, <2>2
    <3>4. listed' = list
      BY <1>1, <1>4
    <3> HIDE DEF list
    <3> QED BY <1>2, <2>2, <2>4, <3>1, <3>2, <3>3, <3>4 DEF OnceEach
  <2>7. Forward' /\ Kept'
    BY <1>1, <1>4 DEF IInv, Forward, Kept
  <2>8. Whole'
    <3>1. others # {} => Len(variants) # 0
      BY <2>2
    <3>2. listed' = list /\ Len(list) = Len(values)
      BY <1>1, <1>4, <2>4
    <3> HIDE DEF list
    <3> QED BY <1>1, <1>2, <1>4, <3>1, <3>2 DEF Whole
  <2> QED BY <2>5, <2>6, <2>7, <2>8 DEF IInv
<1> QED BY <1>3, <1>4

----------------------------------------------------------------------------
LEMMA InitHolds == Init => IInv
<1> SUFFICES ASSUME Init PROVE IInv
  OBVIOUS
<1>1. /\ item \in Items /\ phase = "variants" /\ next = 1 /\ open = 0 /\ origin = Nothing
      /\ listed = <<>> /\ Len(listed) = 0
  BY DEF Init
<1>2. Typed
  BY <1>1 DEF Typed
<1>3. OnceEach /\ Forward /\ Whole /\ Kept
  BY <1>1 DEF OnceEach, Forward, Whole, Kept
<1> QED BY <1>2, <1>3 DEF IInv

(* What a call reads of the item, and the list, does not change.           *)
LEMMA CallsKeepTheList ==
    ASSUME IInv, UNCHANGED <<item, loop>>, phase # "variants", phase # "refused",
           phase' \notin {"variants", "refused"}
    PROVE  Typed' /\ OnceEach' /\ Forward' /\ Whole'
<1>1. /\ item' = item /\ next' = next /\ listed' = listed /\ open' = open
      /\ Field' = Field /\ size' = size
  BY DEF loop, Field, Low, Lowest, size
<1> QED BY <1>1 DEF IInv, Typed, OnceEach, Forward, Whole

LEMMA CallsKeep ==
    ASSUME IInv, Decode \/ Hold \/ Stamp \/ Encode \/ DecodeSent
    PROVE  IInv'
<1>1. CASE Decode
  <2>1. /\ phase = "ready" /\ phase' = "held" /\ UNCHANGED <<item, loop>>
        /\ origin' \in 0 .. size - 1 /\ value' = FromRaw(origin', fits')
    BY <1>1 DEF Decode
  <2>2. size' = size /\ FromRaw(origin, fits)' = FromRaw(origin', fits')
    BY <2>1 DEF loop, size, variants, FromRaw, Matched, Looked, Dispatched, Hits, ArmOf, Rest,
                AsSigned, AsRepr, Valued
  <2>3. Kept'
    BY <2>1, <2>2 DEF Kept
  <2> QED BY <2>1, <2>3, CallsKeepTheList DEF IInv
<1>2. CASE Hold \/ Stamp
  <2>1. /\ phase = "ready" /\ phase' = "held" /\ UNCHANGED <<item, loop>> /\ origin' = origin
    BY <1>2 DEF Hold, Stamp
  <2>2. Kept'
    BY <2>1 DEF IInv, Kept
  <2> QED BY <2>1, <2>2, CallsKeepTheList DEF IInv
<1>3. CASE Encode \/ DecodeSent
  <2>1. /\ UNCHANGED <<item, loop>> /\ origin' = origin /\ fits' = fits /\ value' = value
        /\ \/ /\ phase = "held" /\ phase' = "sent" /\ sent' = ToRaw(value)
           \/ /\ phase = "held" /\ phase' = "panicked"
              /\ item.kind # "dispatch" /\ ~(ToRaw(value) < size)
           \/ /\ phase = "sent" /\ phase' = "back" /\ sent' = sent
    BY <1>3 DEF Encode, DecodeSent
  <2>2. item' = item /\ listed' = listed /\ open' = open
    BY <2>1 DEF loop
  <2>3. size' = size /\ ToRaw(value)' = ToRaw(value) /\ FromRaw(origin, fits)' = FromRaw(origin, fits)
    BY <2>1, <2>2 DEF size, variants, ToRaw, ValueOf, FromRaw, Matched, Looked, Dispatched, Hits,
                ArmOf, Rest, AsSigned, AsRepr, Valued
  <2>4. Kept'
    BY <2>1, <2>2, <2>3 DEF IInv, Kept
  <2> QED BY <2>1, <2>4, CallsKeepTheList DEF IInv
<1> QED BY <1>1, <1>2, <1>3

LEMMA NextHolds == IInv /\ [Next]_vars => IInv'
<1> SUFFICES ASSUME IInv, [Next]_vars PROVE IInv'
  OBVIOUS
<1>1. CASE Next
  BY <1>1, ListVariantKeeps, OpenVariantKeeps, ChecksKeep, ValidateEnumKeeps, CallsKeep DEF Next
<1>2. CASE UNCHANGED vars
  <2>1. /\ item' = item /\ phase' = phase /\ next' = next /\ listed' = listed /\ open' = open
        /\ origin' = origin /\ fits' = fits /\ value' = value /\ sent' = sent
    BY <1>2 DEF vars, loop, travel
  <2>2. Field' = Field /\ size' = size
    BY <2>1 DEF Field, Low, Lowest, size
  <2>3. ToRaw(value)' = ToRaw(value) /\ FromRaw(origin, fits)' = FromRaw(origin, fits)
    BY <2>1 DEF size, variants, ToRaw, ValueOf, FromRaw, Matched, Looked, Dispatched, Hits,
                ArmOf, Rest, AsSigned, AsRepr, Valued
  <2>4. Typed' /\ OnceEach' /\ Forward' /\ Whole'
    BY <2>1, <2>2 DEF IInv, Typed, OnceEach, Forward, Whole
  <2>5. Kept'
    BY <2>1, <2>2, <2>3 DEF IInv, Kept
  <2> QED BY <2>4, <2>5 DEF IInv
<1> QED BY <1>1, <1>2

LEMMA Inductive == Spec => []IInv
BY InitHolds, NextHolds, PTL DEF Spec

(* Every bit pattern of a field is some value that is written as the same  *)
(* bits, and a record is kept under its id: enum_codec, FieldCodec and     *)
(* Dispatch, for every width and every list of variants.                   *)
THEOREM RawsReturn == Spec => []EveryRawReturns
<1>1. IInv => EveryRawReturns
  <2> SUFFICES ASSUME IInv, origin # Nothing, ~SignLeaves(origin)
               PROVE  phase # "panicked" /\ (phase \in {"sent", "back"} => sent = origin)
    BY DEF EveryRawReturns
  <2>1. /\ phase \in {"held", "sent", "back", "panicked"} /\ origin \in 0 .. size - 1
        /\ value = FromRaw(origin, fits)
        /\ phase \in {"sent", "back"} => sent = ToRaw(value)
        /\ phase = "panicked" => ~(ToRaw(value) < size)
    BY DEF IInv, Kept
  <2>2. ToRaw(value) = origin
    BY <2>1, RawReturns DEF IInv
  <2>3. size \in Nat /\ origin < size
    BY <2>1, ItemTypes DEF IInv, Typed
  <2> QED BY <2>1, <2>2, <2>3
<1> QED BY <1>1, Inductive, PTL

----------------------------------------------------------------------------
(* What a program holds: the number of a newtype, a listed variant, or the *)
(* one that takes the others with a number.  A dispatch holds a listed     *)
(* payload only when that accepted the body.                               *)
Top == IF item.kind = "dispatch" THEN size ELSE Word

Unsigned == item.kind = "catalogue" => ~item.signed

HeldAs(v, fit) ==
    \/ /\ item.kind = "newtype"
       /\ \E n \in Int : v = Valued(0, n) /\ (~item.signed => n \in 0 .. Word - 1)
    \/ /\ item.kind # "newtype"
       /\ \E l \in 1 .. Len(listed) : v = Valued(listed[l].arm, 0)
       /\ item.kind = "dispatch" => fit
    \/ /\ item.kind # "newtype" /\ open # 0
       /\ \E n \in Int : v = Valued(open, n) /\ (Unsigned => n \in 0 .. Top - 1)

Travels ==
    /\ open <= Len(variants)
    /\ phase \in {"variants", "ready", "refused"} => fits /\ ~stamped.some
    /\ phase \notin {"variants", "ready", "refused"} => HeldAs(value, fits)
    /\ phase \in {"sent", "back"} =>
        sent = ToRaw(value) /\ (item.kind = "dispatch" \/ ToRaw(value) < size)
    /\ phase = "back" => back = FromRaw(sent, fits)
    /\ phase = "panicked" => item.kind # "dispatch" /\ ~(ToRaw(value) < size)
    /\ stamped.some =>
        /\ item.kind \in {"newtype", "enum"}
        /\ ToRaw(value) \in 0 .. size - 1 /\ ToI64(value) = stamped.n

HInv == IInv /\ Travels

LEMMA SizeTypes ==
    ASSUME Typed
    PROVE  /\ size \in Nat \ {0, 1} /\ item.inner \in Nat \ {0, 1} /\ Word \in Nat \ {0, 1}
           /\ size <= Word /\ item.inner <= Word /\ item.signed \in BOOLEAN /\ item.kind \in Kinds
           /\ Len(listed) \in Nat /\ open \in Nat
BY ItemTypes, CatalogueAssumption DEF Typed

LEMMA Residues ==
    ASSUME NEW m \in Nat \ {0}, NEW n \in Int
    PROVE  n % m \in 0 .. m - 1
BY SMT

(* A value decoded is one a program can hold.                              *)
LEMMA DecodedIsHeld ==
    ASSUME Typed, Whole, phase \notin {"variants", "refused"}, NEW fit,
           NEW raw \in 0 .. Top - 1
    PROVE  HeldAs(FromRaw(raw, fit), fit)
<1>1. /\ size \in Nat \ {0, 1} /\ item.inner \in Nat \ {0, 1} /\ Word \in Nat \ {0, 1}
      /\ size <= Word /\ item.inner <= Word /\ item.signed \in BOOLEAN /\ item.kind \in Kinds
      /\ Len(listed) \in Nat /\ open \in Nat
  BY SizeTypes
<1>2. raw \in Int /\ raw % size \in 0 .. size - 1 /\ raw % item.inner \in 0 .. item.inner - 1
  <2>1. raw \in Int
    BY <1>1 DEF Top
  <2> QED BY <1>1, <2>1, Residues
<1>3. ASSUME NEW n, NEW upto \in 0 .. Len(listed), Hits(n, upto) # {}
      PROVE  \E l \in 1 .. Len(listed) : Valued(ArmOf(Hits(n, upto)), 0) = Valued(listed[l].arm, 0)
  <2> DEFINE l == CHOOSE l \in Hits(n, upto) : TRUE
  <2>1. l \in Hits(n, upto)
    BY <1>3
  <2>2. l \in 1 .. Len(listed)
    BY <1>1, <2>1 DEF Hits
  <2>3. ArmOf(Hits(n, upto)) = listed[l].arm
    BY DEF ArmOf
  <2> HIDE DEF l
  <2> QED BY <2>2, <2>3
<1>4. CASE item.kind = "newtype"
  <2>1. AsSigned(raw, size) \in Int
    BY <1>1, <1>2 DEF AsSigned
  <2>2. raw % size \in 0 .. Word - 1 /\ raw % size \in Int
    BY <1>1, <1>2
  <2> QED BY <1>1, <1>4, <2>1, <2>2 DEF HeldAs, FromRaw
<1>5. CASE item.kind = "enum"
  <2> DEFINE upto == IF open # 0 THEN Len(listed) ELSE Len(listed) - 1
             n    == raw % size
  <2>1. FromRaw(raw, fit) = IF Hits(n, upto) # {} THEN Valued(ArmOf(Hits(n, upto)), 0) ELSE Rest(n)
    BY <1>5 DEF FromRaw, Matched
  <2>2. open = 0 => Len(listed) = size
    BY <1>5 DEF Whole
  <2>3. upto \in 0 .. Len(listed)
    BY <1>1, <2>2
  <2>4. CASE Hits(n, upto) # {}
    BY <1>3, <1>5, <2>1, <2>3, <2>4 DEF HeldAs
  <2>5. CASE Hits(n, upto) = {} /\ open # 0
    <3>1. FromRaw(raw, fit) = Valued(open, n)
      BY <2>1, <2>5 DEF Rest
    <3>2. n \in Int /\ n \in 0 .. Top - 1
      BY <1>1, <1>2, <1>5 DEF Top
    <3> HIDE DEF n
    <3> QED BY <1>5, <2>5, <3>1, <3>2 DEF HeldAs
  <2>6. CASE Hits(n, upto) = {} /\ open = 0
    <3>1. FromRaw(raw, fit) = Valued(listed[Len(listed)].arm, 0)
      BY <2>1, <2>6 DEF Rest
    <3>2. Len(listed) \in 1 .. Len(listed)
      BY <1>1, <2>2, <2>6
    <3> QED BY <1>5, <3>1, <3>2 DEF HeldAs
  <2> QED BY <2>4, <2>5, <2>6
<1>6. CASE item.kind = "catalogue"
  <2> DEFINE n == AsRepr(raw)
  <2>1. FromRaw(raw, fit) = IF Hits(n, Len(listed)) # {} THEN Valued(ArmOf(Hits(n, Len(listed))), 0)
                            ELSE IF open # 0 THEN Valued(open, n) ELSE Valued(listed[1].arm, 0)
    BY <1>6 DEF FromRaw, Looked
  <2>2. CASE Hits(n, Len(listed)) # {}
    BY <1>1, <1>3, <1>6, <2>1, <2>2 DEF HeldAs
  <2>3. CASE Hits(n, Len(listed)) = {} /\ open # 0
    <3>1. n \in Int
      BY <1>1, <1>2 DEF AsRepr, AsSigned
    <3>2. Unsigned => n \in 0 .. Top - 1
      BY <1>1, <1>2, <1>6 DEF AsRepr, Unsigned, Top
    <3> HIDE DEF n
    <3> QED BY <1>6, <2>1, <2>3, <3>1, <3>2 DEF HeldAs
  <2>4. CASE Hits(n, Len(listed)) = {} /\ open = 0
    <3>1. 1 \in 1 .. Len(listed)
      BY <1>1, <1>6, <2>4 DEF Whole
    <3> HIDE DEF n
    <3> QED BY <1>6, <2>1, <2>4, <3>1 DEF HeldAs
  <2> QED BY <2>2, <2>3, <2>4
<1>7. CASE item.kind = "dispatch"
  <2>1. FromRaw(raw, fit) = IF Hits(raw, Len(listed)) # {} /\ fit
                            THEN Valued(ArmOf(Hits(raw, Len(listed))), 0) ELSE Valued(open, raw)
    BY <1>7 DEF FromRaw, Dispatched
  <2>2. open # 0
    BY <1>7 DEF Whole
  <2>3. CASE Hits(raw, Len(listed)) # {} /\ fit
    BY <1>1, <1>3, <1>7, <2>1, <2>3 DEF HeldAs
  <2>4. CASE ~(Hits(raw, Len(listed)) # {} /\ fit)
    BY <1>2, <1>7, <2>1, <2>2, <2>4 DEF HeldAs
  <2> QED BY <2>3, <2>4
<1> QED BY <1>1, <1>4, <1>5, <1>6, <1>7 DEF Kinds

(* Every value a program can write down is one it can hold.                *)
LEMMA HoldableIsHeld ==
    ASSUME Typed, open <= Len(variants), NEW v \in Holdable
    PROVE  HeldAs(v, TRUE)
<1>1. /\ size \in Nat \ {0, 1} /\ item.inner \in Nat \ {0, 1} /\ Word \in Nat \ {0, 1}
      /\ size <= Word /\ item.inner <= Word /\ item.signed \in BOOLEAN /\ item.kind \in Kinds
      /\ Len(listed) \in Nat /\ open \in Nat
  BY SizeTypes
<1>2. ASSUME NEW n, NEW signed \in BOOLEAN, n \in Integer(item.inner, signed)
      PROVE  n \in Int /\ (~signed => n \in 0 .. Word - 1)
  BY <1>1, <1>2 DEF Integer
<1>3. CASE item.kind = "newtype"
  <2>1. PICK n \in Integer(item.inner, item.signed) : v = Valued(0, n)
    BY <1>3 DEF Holdable
  <2> QED BY <1>1, <1>2, <1>3, <2>1 DEF HeldAs
<1>4. CASE item.kind # "newtype"
  <2> DEFINE carried == IF item.kind = "enum" THEN Integer(variants[open].carried, FALSE)
                        ELSE IF item.kind = "catalogue" THEN Integer(item.inner, item.signed)
                        ELSE 0 .. size - 1
  <2>1. \/ \E l \in 1 .. Len(listed) : v = Valued(listed[l].arm, 0)
        \/ open # 0 /\ \E n \in carried : v = Valued(open, n)
    BY <1>4 DEF Holdable
  <2>2. CASE \E l \in 1 .. Len(listed) : v = Valued(listed[l].arm, 0)
    BY <1>4, <2>2 DEF HeldAs
  <2>3. CASE open # 0 /\ \E n \in carried : v = Valued(open, n)
    <3>1. PICK n \in carried : v = Valued(open, n)
      BY <2>3
    <3>2. n \in Int /\ (Unsigned => n \in 0 .. Top - 1)
      <4>1. CASE item.kind = "enum"
        <5>1. variants[open].carried \in Nat /\ variants[open].carried <= Word
          <6>1. open \in DOMAIN variants /\ variants[open] \in Variants
            <7>1. variants \in Seq(Variants)
              BY ItemTypes DEF Typed
            <7> QED BY <1>1, <2>3, <7>1
          <6>2. variants[open].carried <= Word
            BY <6>1, CatalogueAssumption DEF Typed, variants
          <6> QED BY <6>1, <6>2 DEF Variants
        <5> QED BY <1>1, <3>1, <4>1, <5>1 DEF Integer, Top
      <4>2. CASE item.kind = "catalogue"
        BY <1>1, <1>2, <3>1, <4>2 DEF Unsigned, Top
      <4>3. CASE item.kind = "dispatch"
        BY <1>1, <3>1, <4>3 DEF Top
      <4> QED BY <1>1, <1>4, <4>1, <4>2, <4>3 DEF Kinds
    <3> HIDE DEF carried
    <3> QED BY <1>4, <2>3, <3>1, <3>2 DEF HeldAs
  <2> QED BY <2>1, <2>2, <2>3
<1> QED BY <1>3, <1>4

(* What is sent is a bit pattern of the field.                             *)
LEMMA SentIsRaw ==
    ASSUME Typed, OnceEach, Unsigned, NEW fit, NEW v, HeldAs(v, fit),
           item.kind = "dispatch" \/ ToRaw(v) < size
    PROVE  ToRaw(v) \in 0 .. size - 1
<1>1. /\ size \in Nat \ {0, 1} /\ Word \in Nat \ {0, 1} /\ size <= Word
      /\ item.signed \in BOOLEAN /\ item.kind \in Kinds
  BY SizeTypes
<1>2. CASE item.kind = "newtype"
  <2>1. PICK n \in Int : v = Valued(0, n) /\ (~item.signed => n \in 0 .. Word - 1)
    BY <1>2 DEF HeldAs
  <2>2. ToRaw(v) = IF item.signed THEN n % size ELSE n
    BY <1>1, <1>2, <2>1 DEF ToRaw, Valued
  <2>3. n % size \in 0 .. size - 1
    BY <1>1, Residues
  <2> QED BY <1>1, <1>2, <2>1, <2>2, <2>3
<1>3. CASE item.kind # "newtype" /\ \E l \in 1 .. Len(listed) : v = Valued(listed[l].arm, 0)
  <2>1. PICK l \in 1 .. Len(listed) : v = Valued(listed[l].arm, 0)
    BY <1>3
  <2>2. listed[l].value \in 0 .. size - 1
    <3>1. Low = 0
      BY <1>1 DEF Low, Lowest, Unsigned
    <3> QED BY <1>1, <3>1 DEF OnceEach, Field
  <2> QED BY <1>3, <2>1, <2>2, ArmIsWritten
<1>4. CASE /\ item.kind # "newtype" /\ open # 0
           /\ \E n \in Int : v = Valued(open, n) /\ (Unsigned => n \in 0 .. Top - 1)
  <2>1. PICK n \in 0 .. Top - 1 : v = Valued(open, n)
    BY <1>4
  <2>2. n \in 0 .. Word - 1
    BY <1>1, <2>1 DEF Top
  <2>3. ToRaw(v) = n
    BY <1>1, <1>4, <2>1, <2>2, Remainders DEF ToRaw, Valued
  <2> QED BY <1>1, <1>4, <2>1, <2>2, <2>3 DEF Top
<1> QED BY <1>2, <1>3, <1>4 DEF HeldAs

(* A number is listed once, so that its hit is its variant.                *)
LEMMA TheHit ==
    ASSUME Typed, OnceEach, NEW upto \in 0 .. Len(listed), NEW l \in 1 .. upto
    PROVE  /\ Hits(listed[l].value, upto) # {}
           /\ ArmOf(Hits(listed[l].value, upto)) = listed[l].arm
<1>1. Len(listed) \in Nat /\ upto \in Nat
  BY DEF Typed
<1>2. \A m \in 1 .. upto : m \in 1 .. Len(listed)
  BY <1>1
<1>3. Hits(listed[l].value, upto) = {l}
  BY <1>2 DEF Hits, OnceEach
<1>4. (CHOOSE m \in {l} : TRUE) = l
  OBVIOUS
<1> QED BY <1>3, <1>4 DEF ArmOf

(* What is sent is read back as the value that was held, but for a listed  *)
(* number that the variant for the others carried.                         *)
LEMMA SentReturns ==
    ASSUME Typed, OnceEach, Whole, phase \notin {"variants", "refused"},
           ~CutsSign, Unsigned, NEW fit, NEW v, HeldAs(v, fit),
           item.kind = "dispatch" \/ ToRaw(v) < size
    PROVE  FromRaw(ToRaw(v), fit) = v \/ (v.arm = open /\ ~Unlisted(v.n))
<1> DEFINE raw  == ToRaw(v)
           upto == IF item.kind # "enum" \/ open # 0 THEN Len(listed) ELSE Len(listed) - 1
<1>1. /\ size \in Nat \ {0, 1} /\ item.inner \in Nat \ {0, 1} /\ Word \in Nat \ {0, 1}
      /\ size <= Word /\ item.signed \in BOOLEAN /\ item.kind \in Kinds
      /\ Len(listed) \in Nat /\ open \in Nat
  BY SizeTypes
<1>2. raw \in 0 .. size - 1 /\ raw % size = raw
  <2>1. raw \in 0 .. size - 1
    BY SentIsRaw
  <2> HIDE DEF raw
  <2> QED BY <1>1, <2>1, Remainders
<1>3. upto \in 0 .. Len(listed) /\ (open = 0 => Len(listed) # 0 \/ item.kind = "newtype")
  <2>1. open = 0 => Len(listed) # 0 \/ item.kind = "newtype"
    BY <1>1 DEF Whole
  <2>2. CASE item.kind # "enum" \/ open # 0
    BY <1>1, <2>1, <2>2
  <2>3. CASE item.kind = "enum" /\ open = 0
    BY <1>1, <2>1, <2>3
  <2> QED BY <2>1, <2>2, <2>3
<1>4. item.kind = "catalogue" => AsRepr(raw) = raw
  <2> SUFFICES ASSUME item.kind = "catalogue" PROVE AsRepr(raw) = raw
    OBVIOUS
  <2>1. size <= item.inner
    BY ItemTypes DEF Typed
  <2>2. raw \in 0 .. item.inner - 1
    <3> HIDE DEF raw
    <3> QED BY <1>1, <1>2, <2>1
  <2> HIDE DEF raw
  <2>3. raw % item.inner = raw
    BY <1>1, <2>2, Remainders
  <2> QED BY <2>3 DEF AsRepr, Unsigned
<1>5. item.kind # "newtype" =>
        FromRaw(raw, fit) = IF Hits(raw, upto) # {} /\ (item.kind = "dispatch" => fit)
                            THEN Valued(ArmOf(Hits(raw, upto)), 0)
                            ELSE IF open # 0 THEN Valued(open, raw)
                            ELSE Valued(listed[IF item.kind = "enum" THEN Len(listed) ELSE 1].arm, 0)
  <2> HIDE DEF raw
  <2>1. CASE item.kind = "enum"
    BY <1>2, <2>1 DEF FromRaw, Matched, Rest
  <2>2. CASE item.kind = "catalogue"
    BY <1>4, <2>2 DEF FromRaw, Looked
  <2>3. CASE item.kind = "dispatch"
    <3>1. open # 0
      BY <2>3 DEF Whole
    <3> QED BY <2>3, <3>1 DEF FromRaw, Dispatched
  <2> QED BY <1>1, <2>1, <2>2, <2>3 DEF Kinds
<1>6. CASE item.kind = "newtype"
  <2>1. ~item.signed
    BY <1>6 DEF CutsSign
  <2>2. PICK n \in Int : v = Valued(0, n)
    BY <1>6 DEF HeldAs
  <2>3. raw = n
    BY <1>6, <2>1, <2>2 DEF ToRaw, Valued
  <2> HIDE DEF raw
  <2>4. FromRaw(raw, fit) = Valued(0, raw)
    BY <1>2, <1>6, <2>1 DEF FromRaw
  <2> QED BY <2>2, <2>3, <2>4 DEF raw
<1>7. CASE /\ item.kind # "newtype"
           /\ item.kind = "dispatch" => fit
           /\ \E l \in 1 .. Len(listed) : v = Valued(listed[l].arm, 0)
  <2>1. PICK l \in 1 .. Len(listed) : v = Valued(listed[l].arm, 0)
    BY <1>7
  <2>2. raw = listed[l].value
    <3>1. listed[l].value \in 0 .. size - 1
      <4>1. Low = 0
        BY <1>1 DEF Low, Lowest, Unsigned
      <4> QED BY <1>1, <4>1 DEF OnceEach, Field
    <3> QED BY <1>7, <2>1, <3>1, ArmIsWritten
  <2> HIDE DEF raw
  <2>3. CASE l \in 1 .. upto
    <3>1. Hits(raw, upto) # {} /\ ArmOf(Hits(raw, upto)) = listed[l].arm
      BY <1>3, <2>2, <2>3, TheHit
    <3>2. FromRaw(raw, fit) = v
      BY <1>5, <1>7, <2>1, <3>1
    <3> QED BY <3>2 DEF raw
  <2>4. CASE l \notin 1 .. upto
    <3>1. item.kind = "enum" /\ open = 0 /\ l = Len(listed)
      BY <1>1, <2>4
    <3>2. Hits(raw, upto) = {}
      <4>1. \A m \in 1 .. upto : m \in 1 .. Len(listed) /\ m # l
        BY <1>1, <3>1
      <4> QED BY <2>2, <4>1 DEF Hits, OnceEach
    <3>3. FromRaw(raw, fit) = v
      BY <1>5, <2>1, <3>1, <3>2
    <3> QED BY <3>3 DEF raw
  <2> QED BY <2>3, <2>4
<1>8. CASE /\ item.kind # "newtype" /\ open # 0
           /\ \E n \in Int : v = Valued(open, n) /\ (Unsigned => n \in 0 .. Top - 1)
  <2>1. PICK n \in 0 .. Top - 1 : v = Valued(open, n)
    BY <1>8
  <2>2. v.arm = open /\ v.n = n
    BY <2>1 DEF Valued
  <2>3. n \in 0 .. Word - 1
    BY <1>1, <2>1 DEF Top
  <2>4. raw = n
    BY <1>1, <1>8, <2>2, <2>3, Remainders DEF ToRaw
  <2> HIDE DEF raw
  <2>5. CASE ~Unlisted(n)
    BY <2>2, <2>5
  <2>6. CASE Unlisted(n)
    <3>1. Hits(raw, upto) = {}
      <4>1. \A m \in 1 .. upto : m \in 1 .. Len(listed)
        BY <1>1, <1>3
      <4> QED BY <2>4, <2>6, <4>1 DEF Hits, Unlisted
    <3>2. FromRaw(raw, fit) = v
      BY <1>5, <1>8, <2>1, <2>4, <3>1
    <3> QED BY <3>2 DEF raw
  <2> QED BY <2>5, <2>6
<1> QED BY <1>6, <1>7, <1>8 DEF HeldAs

(* A number that encode derives fits the field it is stamped into.         *)
LEMMA StampedFits ==
    ASSUME Typed, OnceEach, Whole, phase \notin {"variants", "refused"},
           item.kind \in {"newtype", "enum"}, NEW raw \in 0 .. Word - 1
    PROVE  ToRaw(FromRaw(raw, TRUE)) \in 0 .. size - 1
<1>1. size \in Nat \ {0, 1} /\ Word \in Nat \ {0, 1} /\ size <= Word /\ item.signed \in BOOLEAN
  BY SizeTypes
<1>2. raw \in Int /\ raw % size \in 0 .. size - 1
  <2>1. raw \in Int
    BY <1>1
  <2> QED BY <1>1, <2>1, Residues
<1>3. CASE item.kind = "newtype"
  <2>1. CASE item.signed
    <3>1. AsSigned(raw, size) \in Int
      BY <1>1, <1>2 DEF AsSigned
    <3>2. ToRaw(FromRaw(raw, TRUE)) = AsSigned(raw, size) % size
      BY <1>3, <2>1 DEF FromRaw, ToRaw, Valued
    <3> QED BY <1>1, <3>1, <3>2, Residues
  <2>2. CASE ~item.signed
    <3>1. ToRaw(FromRaw(raw, TRUE)) = raw % size
      BY <1>3, <2>2 DEF FromRaw, ToRaw, Valued
    <3> QED BY <1>2, <3>1
  <2> QED BY <1>1, <2>1, <2>2
<1>4. CASE item.kind = "enum"
  <2>1. (raw % size) % size = raw % size
    BY <1>1, <1>2, Remainders
  <2>2. FromRaw(raw, TRUE) = FromRaw(raw % size, TRUE)
    BY <1>4, <2>1 DEF FromRaw
  <2>3. ~SignLeaves(raw % size)
    BY <1>4 DEF SignLeaves
  <2>4. ToRaw(FromRaw(raw % size, TRUE)) = raw % size
    BY <1>2, <2>3, RawReturns
  <2> QED BY <1>2, <2>2, <2>4
<1> QED BY <1>3, <1>4

----------------------------------------------------------------------------
(* The declaration settles before there is a value.                        *)
LEMMA LoopsTravel ==
    ASSUME HInv, \/ ListVariant \/ OpenVariant \/ RefuseVariant \/ EndVariants
                 \/ CheckNewtype \/ ValidateEnum
    PROVE  Travels'
<1>1. /\ phase = "variants" /\ phase' \in {"variants", "ready", "refused"}
      /\ item' = item /\ fits' = fits /\ stamped' = stamped
  BY DEF ListVariant, OpenVariant, RefuseVariant, EndVariants, CheckNewtype, ValidateEnum,
         Looping, travel
<1>2. fits' /\ ~stamped'.some
  BY <1>1 DEF HInv, Travels
<1>3. open' <= Len(variants)'
  <2>1. variants' = variants /\ Len(variants) \in Nat /\ open <= Len(variants)
    BY <1>1, ItemTypes DEF variants, HInv, IInv, Typed, Travels
  <2>2. CASE OpenVariant
    BY <2>1, <2>2 DEF OpenVariant, Looping
  <2>3. CASE ListVariant \/ RefuseVariant \/ EndVariants \/ CheckNewtype
    BY <2>1, <2>3 DEF ListVariant, RefuseVariant, EndVariants, CheckNewtype, loop
  <2>4. CASE ValidateEnum
    <3>1. open' \in {open, 0, Len(variants)}
      BY <2>4 DEF ValidateEnum
    <3> QED BY <2>1, <3>1
  <2> QED BY <2>2, <2>3, <2>4
<1> QED BY <1>1, <1>2, <1>3 DEF Travels

(* What depends on the declaration and the value alone.                    *)
LEMMA ValueStays ==
    ASSUME UNCHANGED <<item, listed, open, value, fits>>
    PROVE  /\ size' = size /\ variants' = variants
           /\ ToRaw(value)' = ToRaw(value) /\ ToI64(value)' = ToI64(value)
           /\ HeldAs(value, fits) => HeldAs(value, fits)'
<1>1. size' = size /\ variants' = variants /\ Top' = Top /\ Unsigned' = Unsigned
  BY DEF size, variants, Top, Unsigned
<1>2. ToRaw(value)' = ToRaw(value)
  BY <1>1 DEF ToRaw, ValueOf
<1>3. ToI64(value)' = ToI64(value)
  BY <1>2 DEF ToI64, AsSigned
<1>4. HeldAs(value, fits) => HeldAs(value, fits)'
  BY <1>1 DEF HeldAs, Valued
<1> QED BY <1>1, <1>2, <1>3, <1>4

LEMMA HoldsTravel ==
    ASSUME HInv, Decode \/ Hold \/ Stamp
    PROVE  Travels'
<1>1. /\ phase = "ready" /\ phase' = "held" /\ item' = item /\ listed' = listed /\ open' = open
      /\ Typed /\ OnceEach /\ Whole /\ open <= Len(variants) /\ fits = TRUE /\ ~stamped.some
  BY DEF Decode, Hold, Stamp, loop, HInv, IInv, Travels
<1>2. /\ size \in Nat \ {0, 1} /\ Word \in Nat \ {0, 1} /\ size <= Word
      /\ size' = size /\ variants' = variants /\ Top' = Top /\ Unsigned' = Unsigned
  BY <1>1, SizeTypes DEF size, variants, Top, Unsigned
<1>3. ASSUME HeldAs(value', fits') PROVE HeldAs(value, fits)'
  BY <1>1, <1>2, <1>3 DEF HeldAs, Valued
<1>4. CASE Decode
  <2>1. /\ stamped' = stamped
        /\ \E raw \in 0 .. size - 1 : value' = FromRaw(raw, fits')
    BY <1>4 DEF Decode
  <2>2. PICK raw \in 0 .. size - 1 : value' = FromRaw(raw, fits')
    BY <2>1
  <2>3. raw \in 0 .. Top - 1
    BY <1>2 DEF Top
  <2>4. HeldAs(FromRaw(raw, fits'), fits')
    BY <1>1, <2>3, DecodedIsHeld
  <2>5. HeldAs(value', fits')
    BY <2>2, <2>4
  <2> QED BY <1>1, <1>2, <1>3, <2>1, <2>5 DEF Travels
<1>5. CASE Hold
  <2>1. stamped' = stamped /\ fits' = TRUE /\ value' \in Holdable
    BY <1>1, <1>5 DEF Hold
  <2>2. HeldAs(value', fits')
    BY <1>1, <2>1, HoldableIsHeld
  <2> QED BY <1>1, <1>2, <1>3, <2>1, <2>2 DEF Travels
<1>6. CASE Stamp
  <2>1. PICK n \in Integer(Word, TRUE) :
            FitsInField(n) /\ stamped' = [some |-> TRUE, n |-> n] /\ value' = FromI64(n)
    BY <1>6 DEF Stamp
  <2>2. n \in Int /\ fits' = TRUE /\ item.kind \in {"newtype", "enum"}
    BY <1>1, <1>2, <1>6, <2>1 DEF Stamp, Integer
  <2> DEFINE raw == n % Word
  <2>3. raw \in 0 .. Word - 1 /\ value' = FromRaw(raw, TRUE)
    BY <1>2, <2>1, <2>2, Residues DEF FromI64
  <2> HIDE DEF raw
  <2>4. HeldAs(value', fits')
    <3>1. raw \in 0 .. Top - 1
      BY <2>2, <2>3 DEF Top
    <3>2. HeldAs(FromRaw(raw, TRUE), TRUE)
      BY <1>1, <3>1, DecodedIsHeld
    <3> QED BY <2>2, <2>3, <3>2
  <2>5. ToRaw(value') \in 0 .. size - 1
    <3>1. ToRaw(FromRaw(raw, TRUE)) \in 0 .. size - 1
      BY <1>1, <2>2, <2>3, StampedFits
    <3> QED BY <2>3, <3>1
  <2>6. ToI64(value') = n
    BY <2>1 DEF FitsInField
  <2>7. ToRaw(value)' = ToRaw(value') /\ ToI64(value)' = ToI64(value')
    <3>1. ToRaw(value)' = ToRaw(value')
      BY <1>1, <1>2 DEF ToRaw, ValueOf
    <3> QED BY <3>1 DEF ToI64, AsSigned
  <2>8. stamped'.n = n /\ item'.kind \in {"newtype", "enum"}
    BY <1>1, <2>1, <2>2
  <2> QED BY <1>1, <1>2, <1>3, <2>4, <2>5, <2>6, <2>7, <2>8 DEF Travels
<1> QED BY <1>4, <1>5, <1>6

LEMMA SendsTravel ==
    ASSUME HInv, Encode \/ DecodeSent
    PROVE  Travels'
<1>1. /\ item' = item /\ listed' = listed /\ open' = open /\ fits' = fits /\ value' = value
      /\ stamped' = stamped /\ Travels
      /\ \/ /\ phase = "held" /\ phase' = "sent" /\ sent' = ToRaw(value)
            /\ item.kind = "dispatch" \/ ToRaw(value) < size
         \/ /\ phase = "held" /\ phase' = "panicked"
            /\ item.kind # "dispatch" /\ ~(ToRaw(value) < size)
         \/ /\ phase = "sent" /\ phase' = "back" /\ sent' = sent
            /\ back' = FromRaw(sent, fits)
  BY DEF Encode, DecodeSent, loop, HInv
<1>2. /\ size' = size /\ variants' = variants
      /\ ToRaw(value)' = ToRaw(value) /\ ToI64(value)' = ToI64(value)
      /\ HeldAs(value, fits) => HeldAs(value, fits)'
  BY <1>1, ValueStays
<1>3. phase' = "back" => back' = FromRaw(sent, fits)'
  BY <1>1, <1>2 DEF FromRaw, Matched, Looked, Dispatched, Hits, ArmOf, Rest, AsSigned, AsRepr, Valued
<1> QED BY <1>1, <1>2, <1>3 DEF Travels

LEMMA TravelsHold == Spec => []HInv
<1>1. Init => HInv
  <2> SUFFICES ASSUME Init PROVE Travels
    BY InitHolds DEF HInv
  <2>1. Len(variants) \in Nat
    BY ItemTypes DEF Init
  <2> QED BY <2>1 DEF Init, Travels
<1>2. HInv /\ [Next]_vars => HInv'
  <2> SUFFICES ASSUME HInv, [Next]_vars PROVE Travels'
    BY NextHolds DEF HInv
  <2>1. CASE Next
    BY <2>1, LoopsTravel, HoldsTravel, SendsTravel DEF Next
  <2>2. CASE UNCHANGED vars
    <3>1. /\ item' = item /\ phase' = phase /\ listed' = listed /\ open' = open /\ fits' = fits
          /\ stamped' = stamped /\ value' = value /\ sent' = sent /\ back' = back /\ Travels
      BY <2>2 DEF vars, loop, travel, HInv
    <3>2. /\ size' = size /\ variants' = variants
          /\ ToRaw(value)' = ToRaw(value) /\ ToI64(value)' = ToI64(value)
          /\ HeldAs(value, fits) => HeldAs(value, fits)'
      BY <3>1, ValueStays
    <3>3. FromRaw(sent, fits)' = FromRaw(sent, fits)
      BY <3>1, <3>2 DEF FromRaw, Matched, Looked, Dispatched, Hits, ArmOf, Rest, AsSigned, AsRepr,
                        Valued
    <3> QED BY <3>1, <3>2, <3>3 DEF Travels
  <2> QED BY <2>1, <2>2
<1> QED BY <1>1, <1>2, PTL DEF Spec

(* What is written is read back as a value of the same bits, and as the    *)
(* same value unless the rest variant held a listed number; a refused      *)
(* value has no bits; a derived number survives: to_raw and fits_in_field. *)
THEOREM HeldReturns == Spec => []HeldOrRefused
<1>1. HInv => HeldOrRefused
  <2> SUFFICES ASSUME HInv PROVE HeldOrRefused
    OBVIOUS
  <2>1. Typed /\ OnceEach /\ Whole /\ Travels /\ size \in Nat
    BY SizeTypes DEF HInv, IInv
  <2>2. ASSUME phase = "back", ~CutsSign, Unsigned
        PROVE  /\ ToRaw(back) = ToRaw(value)
               /\ back # value => value.arm = open /\ ~Unlisted(value.n)
    <3>1. /\ HeldAs(value, fits)
          /\ item.kind = "dispatch" \/ ToRaw(value) < size
          /\ back = FromRaw(ToRaw(value), fits)
      BY <2>1, <2>2 DEF Travels
    <3>2. ToRaw(value) \in 0 .. size - 1
      BY <2>1, <2>2, <3>1, SentIsRaw
    <3>3. ~SignLeaves(ToRaw(value))
      BY <2>2 DEF SignLeaves, Unsigned
    <3>4. ToRaw(back) = ToRaw(value)
      BY <2>1, <2>2, <3>1, <3>2, <3>3, RawReturns
    <3>5. back = value \/ (value.arm = open /\ ~Unlisted(value.n))
      BY <2>1, <2>2, <3>1, SentReturns
    <3> QED BY <3>4, <3>5
  <2>3. ASSUME phase = "panicked"
        PROVE  /\ ~stamped.some
               /\ \A raw \in 0 .. size - 1 : SignLeaves(raw) \/ FromRaw(raw, fits) # value
    <3>1. ~(ToRaw(value) < size)
      BY <2>1, <2>3 DEF Travels
    <3>2. stamped.some => ToRaw(value) \in 0 .. size - 1
      BY <2>1 DEF Travels
    <3>3. \A raw \in 0 .. size - 1 : ~SignLeaves(raw) => ToRaw(FromRaw(raw, fits)) = raw
      BY <2>1, <2>3, RawReturns
    <3> QED BY <2>1, <3>1, <3>2, <3>3
  <2>4. ASSUME phase = "back", stamped.some PROVE ToI64(back) = stamped.n
    <3>1. /\ item.kind \in {"newtype", "enum"} /\ back = FromRaw(ToRaw(value), fits)
          /\ ToRaw(value) \in 0 .. size - 1 /\ ToI64(value) = stamped.n
      BY <2>1, <2>4 DEF Travels
    <3>2. ~SignLeaves(ToRaw(value))
      BY <3>1 DEF SignLeaves
    <3>3. ToRaw(back) = ToRaw(value)
      BY <2>1, <2>4, <3>1, <3>2, RawReturns
    <3> QED BY <3>1, <3>3 DEF ToI64
  <2> QED BY <2>2, <2>3, <2>4 DEF HeldOrRefused, Unsigned
<1> QED BY <1>1, TravelsHold, PTL

----------------------------------------------------------------------------
(* The naturals are well ordered.                                          *)
LEMMA NatLeast ==
    ASSUME NEW T \in SUBSET Nat, T # {}
    PROVE  \E x \in T : \A y \in T : x <= y
<1> DEFINE R == OpToRel(<, Nat)
<1>1. IsWellFoundedOn(R, Nat)
  BY NatLessThanWellFounded
<1>2. PICK x \in T : \A y \in T : <<y, x>> \notin R
  <2> HIDE DEF R
  <2> QED BY <1>1, WFMin
<1>3. \A y \in T : ~(y < x)
  BY <1>2 DEF OpToRel
<1>4. \A y \in T : x <= y
  <2> HIDE DEF R
  <2> QED BY <1>3
<1> QED BY <1>4

(* Rust's numbers of the first variants.                                   *)
NumberingUpTo(vs, f, n) ==
    f = [i \in 1 .. n |->
            IF vs[i].disc >= 0 THEN vs[i].disc ELSE IF i = 1 THEN 0 ELSE f[i - 1] + 1]

LEMMA NumberingExists ==
    ASSUME NEW vs, NEW n \in Nat
    PROVE  \E f : NumberingUpTo(vs, f, n)
<1> DEFINE T == {k \in Nat : ~\E f : NumberingUpTo(vs, f, k)}
<1> SUFFICES ASSUME T # {} PROVE FALSE
  OBVIOUS
<1>1. PICK k \in T : \A y \in T : k <= y
  <2> HIDE DEF T
  <2>1. T \in SUBSET Nat
    BY DEF T
  <2> QED BY <2>1, NatLeast
<1>2. k \in Nat /\ ~\E f : NumberingUpTo(vs, f, k)
  OBVIOUS
<1>3. k # 0
  <2>1. NumberingUpTo(vs, [i \in 1 .. 0 |-> 0], 0)
    BY DEF NumberingUpTo
  <2> QED BY <1>2, <2>1
<1>4. k - 1 \in Nat /\ k - 1 \notin T
  <2>1. k - 1 \in Nat /\ ~(k <= k - 1)
    BY <1>2, <1>3
  <2> HIDE DEF T
  <2> QED BY <1>1, <2>1
<1>5. PICK f : NumberingUpTo(vs, f, k - 1)
  BY <1>4
<1> DEFINE last == IF vs[k].disc >= 0 THEN vs[k].disc ELSE IF k = 1 THEN 0 ELSE f[k - 1] + 1
           g == [i \in 1 .. k |-> IF i < k THEN f[i] ELSE last]
<1>6. ASSUME NEW i \in 1 .. k
      PROVE  g[i] = IF vs[i].disc >= 0 THEN vs[i].disc ELSE IF i = 1 THEN 0 ELSE g[i - 1] + 1
  <2>1. \A x \in 1 .. k - 1 :
            f[x] = IF vs[x].disc >= 0 THEN vs[x].disc ELSE IF x = 1 THEN 0 ELSE f[x - 1] + 1
    BY <1>5 DEF NumberingUpTo
  <2>2. i # 1 => i - 1 \in 1 .. k /\ i - 1 < k /\ g[i - 1] = f[i - 1]
    BY <1>2
  <2>3. CASE i = k
    <3>1. g[i] = last
      BY <1>2, <2>3
    <3> QED BY <2>2, <2>3, <3>1
  <2>4. CASE i # k
    <3>1. i \in 1 .. k - 1 /\ g[i] = f[i]
      BY <1>2, <2>4
    <3> HIDE DEF g
    <3> QED BY <2>1, <2>2, <3>1
  <2> QED BY <2>3, <2>4
<1>7. NumberingUpTo(vs, g, k)
  <2>1. g = [i \in 1 .. k |-> g[i]]
    OBVIOUS
  <2> HIDE DEF g
  <2> QED BY <1>6, <2>1 DEF NumberingUpTo
<1> QED BY <1>2, <1>7

LEMMA NumberingIs ==
    ASSUME item \in Items, NEW i \in 1 .. Len(variants)
    PROVE  Numbering[i] = IF variants[i].disc >= 0 THEN variants[i].disc
                          ELSE IF i = 1 THEN 0 ELSE Numbering[i - 1] + 1
<1> DEFINE f  == Numbering
           vs == variants
<1>1. Len(vs) \in Nat
  BY ItemTypes
<1>2. NumberingUpTo(vs, f, Len(vs))
  <2>1. f = CHOOSE g : NumberingUpTo(vs, g, Len(vs))
    BY DEF Numbering, NumberingUpTo
  <2> QED BY <1>1, <2>1, NumberingExists
<1> HIDE DEF f, vs
<1>3. i \in 1 .. Len(vs)
  BY DEF vs
<1>4. f[i] = IF vs[i].disc >= 0 THEN vs[i].disc ELSE IF i = 1 THEN 0 ELSE f[i - 1] + 1
  BY <1>2, <1>3 DEF NumberingUpTo
<1> QED BY <1>4 DEF f, vs

(* The number counted on to the next variant is Rust's.                    *)
CountsOn ==
    phase = "variants" /\ item.kind = "enum" /\ implicit # Nothing =>
        next # 1 /\ implicit = Numbering[next - 1] + 1

(* A variant with no #[value] is listed under the number Rust gives it.    *)
LEMMA KeyIsNumbering ==
    ASSUME IInv, CountsOn, Looping, item.kind = "enum", Key.form = "value", Variant.attr # "value"
    PROVE  Key.n = Numbering[next]
<1> DEFINE v == Variant
<1>1. /\ phase = "variants" /\ next \in 1 .. Len(variants) /\ v = variants[next] /\ v \in Variants
  <2>1. variants \in Seq(Variants) /\ next \in Nat \ {0}
    BY ItemTypes DEF IInv, Typed
  <2> QED BY <2>1 DEF Looping, Variant
<1>2. v.disc \in Discs /\ v.attr \in {"none", "value", "other", "both"}
  BY <1>1 DEF Variants
<1>3. Key = CodecKey(v)
  BY DEF Key
<1>4. Numbering[next] = IF v.disc >= 0 THEN v.disc ELSE IF next = 1 THEN 0 ELSE Numbering[next - 1] + 1
  BY <1>1, NumberingIs DEF IInv, Typed
<1> HIDE DEF v
<1>5. v.attr # "value" => VariantKey(v).form # "value"
  BY DEF VariantKey, Other, NoKey
<1>6. v.attr = "none" /\ (v.disc = Nothing => item.repr)
  <2>1. v.disc # Nothing => v.attr = "none"
    BY <1>3 DEF CodecKey, NoKey
  <2>2. v.disc = Nothing => v.attr = "none" /\ item.repr
    BY <1>3, <1>5 DEF CodecKey, v
  <2> QED BY <2>1, <2>2
<1>7. CASE v.disc # Nothing
  <2>1. v.disc # Literal /\ Key = Value(v.disc)
    BY <1>3, <1>6, <1>7 DEF CodecKey, NoKey
  <2>2. v.disc >= 0
    BY <1>2, <1>7, <2>1 DEF Discs, Nothing, Literal
  <2> QED BY <1>4, <2>1, <2>2 DEF Value
<1>8. CASE v.disc = Nothing
  <2>1. Key = IF next = 1 THEN Value(0) ELSE IF implicit = Nothing THEN NoKey ELSE Value(implicit)
    BY <1>3, <1>6, <1>8 DEF CodecKey
  <2>2. ~(v.disc >= 0)
    BY <1>8 DEF Nothing
  <2>3. CASE next = 1
    BY <1>4, <2>1, <2>2, <2>3 DEF Value
  <2>4. CASE next # 1
    <3>1. implicit # Nothing /\ Key.n = implicit
      BY <2>1, <2>4 DEF Value, NoKey
    <3>2. implicit = Numbering[next - 1] + 1
      BY <1>1, <3>1 DEF CountsOn
    <3> QED BY <1>4, <2>2, <2>4, <3>1, <3>2
  <2> QED BY <2>3, <2>4
<1> QED BY <1>7, <1>8

LEMMA CountingKeeps ==
    ASSUME IInv, DiscriminantIsWire, CountsOn, [Next]_vars
    PROVE  DiscriminantIsWire' /\ CountsOn'
<1>1. ASSUME UNCHANGED item PROVE Numbering' = Numbering /\ variants' = variants
  BY <1>1 DEF Numbering, variants
<1>2. CASE ListVariant
  <2> DEFINE n    == Len(listed)
             new  == [arm |-> next, value |-> Key.n]
             more == Append(listed, new)
  <2>1. /\ Looping /\ Key.form = "value" /\ listed' = more /\ next' = next + 1
        /\ item' = item /\ phase' = phase /\ implicit' = Numbered /\ phase = "variants"
    BY <1>2 DEF ListVariant, Looping
  <2>2. next \in Nat \ {0} /\ listed \in Seq(Listing) /\ n \in Nat
    BY DEF IInv, Typed
  <2>3. /\ Len(more) = n + 1 /\ more[n + 1] = new /\ \A l \in 1 .. n : more[l] = listed[l]
    BY <2>2
  <2>4. new.arm = next /\ new.value = Key.n
    OBVIOUS
  <2> HIDE DEF new, more, n
  <2>5. Numbering' = Numbering /\ variants' = variants
    BY <1>1, <2>1
  <2>6. DiscriminantIsWire'
    <3> SUFFICES ASSUME item.kind = "enum", NEW l \in 1 .. n + 1, variants[more[l].arm].attr = "none"
                 PROVE  more[l].value = Numbering[more[l].arm]
      BY <2>1, <2>3, <2>5 DEF DiscriminantIsWire
    <3>1. CASE l = n + 1
      <4>1. more[l].arm = next /\ more[l].value = Key.n /\ Variant.attr = "none"
        BY <2>3, <2>4, <3>1 DEF Variant
      <4> QED BY <2>1, <4>1, KeyIsNumbering
    <3>2. CASE l \in 1 .. n
      BY <2>1, <2>3, <3>2 DEF DiscriminantIsWire, n
    <3> QED BY <2>2, <3>1, <3>2
  <2>7. CASE item.kind # "enum"
    BY <2>1, <2>6, <2>7 DEF CountsOn
  <2>8. CASE Numbered = Nothing
    BY <2>1, <2>6, <2>8 DEF CountsOn
  <2>9. CASE item.kind = "enum" /\ Numbered # Nothing
    <3>1. Numbered = Key.n + 1 /\ Variant.attr # "value"
      BY <2>9 DEF Numbered
    <3>2. Key.n = Numbering[next]
      BY <2>1, <2>9, <3>1, KeyIsNumbering
    <3>3. next' # 1 /\ next' - 1 = next
      <4>1. next' = next + 1
        BY <2>1, Zenon
      <4> QED BY <2>2, <4>1
    <3>4. implicit' = Numbering[next] + 1
      BY <2>1, <3>1, <3>2
    <3> DEFINE was == Numbering
               will == Numbering'
               from == next' - 1
               to   == implicit'
    <3>5. to = will[from] + 1
      <4>1. will = was /\ from = next /\ to = was[next] + 1
        BY <2>5, <3>3, <3>4, Zenon
      <4> HIDE DEF was, will, from, to
      <4> QED BY <4>1
    <3>6. implicit' = Numbering'[next' - 1] + 1
      BY <3>5, Zenon
    <3> QED BY <2>6, <3>3, <3>6 DEF CountsOn
  <2> QED BY <2>7, <2>8, <2>9
<1>3. CASE OpenVariant
  <2>1. /\ Key.form = "other" /\ implicit' = Numbered /\ listed' = listed /\ item' = item /\ phase' = phase
    BY <1>3 DEF OpenVariant
  <2>2. Numbered = Nothing
    BY <2>1 DEF Numbered
  <2> QED BY <1>1, <2>1, <2>2 DEF DiscriminantIsWire, CountsOn
<1>4. CASE ValidateEnum
  <2>1. item.kind = "catalogue" /\ item' = item
    BY <1>4 DEF ValidateEnum
  <2> QED BY <2>1 DEF DiscriminantIsWire, CountsOn
<1>5. CASE \/ RefuseVariant \/ EndVariants \/ CheckNewtype
           \/ Decode \/ Hold \/ Stamp \/ Encode \/ DecodeSent \/ UNCHANGED vars
  <2>1. /\ item' = item /\ next' = next /\ listed' = listed /\ implicit' = implicit
        /\ phase' = "variants" => phase = "variants"
        /\ phase = "refused" => phase' = "refused"
    BY <1>5 DEF RefuseVariant, EndVariants, CheckNewtype, Decode, Hold, Stamp, Encode, DecodeSent,
                vars, loop, Looping
  <2> QED BY <1>1, <2>1 DEF DiscriminantIsWire, CountsOn
<1> QED BY <1>2, <1>3, <1>4, <1>5 DEF Next

(* A variant with no #[value] stands for the number Rust gives it, for     *)
(* every list of variants: codec_key counts on from the variant before     *)
(* only while that one had its number from Rust.                           *)
THEOREM DiscriminantsAreWire == Spec => []DiscriminantIsWire
<1>1. Init => DiscriminantIsWire /\ CountsOn
  BY DEF Init, DiscriminantIsWire, CountsOn
<1>2. IInv /\ DiscriminantIsWire /\ CountsOn /\ [Next]_vars => (DiscriminantIsWire /\ CountsOn)'
  BY CountingKeeps
<1> QED BY <1>1, <1>2, InitHolds, NextHolds, PTL DEF Spec
=============================================================================
