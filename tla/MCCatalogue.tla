---------------------------- MODULE MCCatalogue -----------------------------
(***************************************************************************)
(* Catalogue with a u64 of 16 values: fields of 2, 4 and 16 values in      *)
(* integers of 4 and 16, every enum of up to four variants (a field of two *)
(* or four values can be listed whole), and EnumDefs and dispatches.       *)
(***************************************************************************)
EXTENDS Catalogue

V(disc, attr, n, shape, carried) ==
    [disc |-> disc, attr |-> attr, value |-> n, shape |-> shape, carried |-> carried]

It(kind, width, inner, signed, repr, list) ==
    [kind |-> kind, size |-> width, inner |-> inner, signed |-> signed, repr |-> repr,
     variants |-> list]

UpTo(set, n) == UNION {[1 .. k -> set] : k \in 0 .. n}

Units == {V(Nothing, "none", 0, "unit", 0), V(3, "none", 0, "unit", 0),
          V(1, "none", 0, "unit", 0), V(Nothing, "value", 2, "unit", 0),
          V(Nothing, "value", 0, "unit", 0)}
Rare  == {V(Literal, "none", 0, "unit", 0), V(2, "value", 1, "unit", 0),
          V(Nothing, "both", 1, "unit", 0), V(Nothing, "value", 1, "carries", 4),
          V(Nothing, "other", 0, "unit", 0)}
Rests == {V(Nothing, "other", 0, "carries", 4), V(Nothing, "other", 0, "carries", 16)}

Newtypes == {It("newtype", s, c, signed, FALSE, <<>>) :
                s \in {2, 4, 16}, c \in {4, 16}, signed \in BOOLEAN}

Enums == {It("enum", s, Word, FALSE, repr, list) : s \in {2, 4}, repr \in BOOLEAN,
            list \in UpTo(Units \cup Rests, 4) \cup UpTo(Units \cup Rare \cup Rests, 2)}

Listings(low) == UpTo({V(Nothing, "value", n, "unit", 0) : n \in low .. low + 4}, 2)
                 \cup {[i \in 1 .. 4 |-> V(Nothing, "value", low + ((i + by) % 4), "unit", 0)] :
                            by \in 0 .. 3}

Catalogues == {It("catalogue", 4, c, signed, FALSE, list \o rest) :
                c \in {4, 16}, signed \in BOOLEAN, list \in Listings(-2) \cup Listings(0),
                rest \in {<<>>} \cup {<<r>> : r \in Rests}}

Arms == {V(Nothing, "value", 0, "payload", 0), V(Nothing, "value", 2, "payload", 0),
         V(Nothing, "value", 5, "payload", 0), V(Nothing, "value", -1, "payload", 0),
         V(Nothing, "other", 0, "record", 0), V(Nothing, "other", 0, "payload", 0)}

Dispatches == {It("dispatch", 4, Word, FALSE, FALSE, list) : list \in UpTo(Arms, 3)}

MCItems == Newtypes \cup Enums \cup Catalogues \cup Dispatches
=============================================================================
