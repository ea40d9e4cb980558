---------------------------- MODULE MCAttributes ----------------------------
(***************************************************************************)
(* Attributes with two families of structs: one field of any type after    *)
(* two numbers and a flag, with any two attributes, or with those of a     *)
(* well-formed field and any one or two more; and a number followed by     *)
(* three well-formed fields, one of them perhaps a checksum of any range.  *)
(***************************************************************************)
EXTENDS Attributes

A(word)          == [Absent EXCEPT !.word = word]
By(word, f)      == [Absent EXCEPT !.word = word, !.by = f]
Num(word, n)     == [Absent EXCEPT !.word = word, !.n = n]
When(f, n)       == [Absent EXCEPT !.word = "when", !.by = f, !.n = n]
Over(from, to, n) == [Absent EXCEPT !.word = "checksum", !.by = from, !.to = to, !.n = n]

T(option, run, elem) == [option |-> option, run |-> run, elem |-> elem]
F(type, attrs)       == [type |-> type, attrs |-> attrs]
One(elem)  == T(FALSE, "one", elem)
Many(elem) == T(FALSE, "vec", elem)
Some(elem) == T(TRUE, "one", elem)

AllTypes ==
    {T(o, "one", e) : o \in BOOLEAN, e \in Elems}
    \cup {T(o, "vec", e) : o \in BOOLEAN, e \in {"u8", "u16", "path", "string"}}
    \cup {T(FALSE, "boxed", e) : e \in {"u8", "path", "string"}}
    \cup {T(o, r, "u8") : o \in BOOLEAN, r \in {"borrowed", "borrowed array"}}

AllAttrs ==
    <<A("fill"), A("until"), A("mask"), Num("at", 5), A("text"), A("var"), A("message"), A("rest"),
      A("range"), A("magic"), A("align"), A("foreign"), By("count", 1), By("square", 1),
      By("len", 1), By("switch", 1), By("positive", 1), By("with", 1), By("stride", 1),
      By("stride", 2), By("seek", 2), By("positive", 2), Num("fill", 1), Num("codec", 8),
      Num("codec", 12), Num("bytes", 0), Num("bytes", 1), Num("bytes", 2), When(1, 1),
      When(3, 0), Over(1, 0, 0), By("count", 9), By("with", 9), By("seek", 9),
      By("positive", 9), When(9, 1)>>

UpToTwo ==
    {<<>>} \cup {<<AllAttrs[i]>> : i \in DOMAIN AllAttrs}
    \cup {<<AllAttrs[p[1]], AllAttrs[p[2]]>> :
            p \in {q \in (DOMAIN AllAttrs) \X (DOMAIN AllAttrs) : q[1] <= q[2]}}

(* Well-formed fields that take three attributes or more.                  *)
Rich ==
    {F(Many("u16"), <<By("count", 1), By("stride", 2)>>),
     F(Many("path"), <<By("count", 1), Num("bytes", 2)>>),
     F(Many("path"), <<By("len", 1), A("message")>>),
     F(Many("string"), <<A("text"), By("count", 1), A("until")>>),
     F(One("string"), <<A("text"), By("len", 1)>>),
     F(Some("string"), <<A("text"), A("until")>>),
     F(Some("path"), <<Num("bytes", 2), By("seek", 2)>>),
     F(Some("path"), <<A("message"), By("positive", 1)>>),
     F(One("path"), <<By("switch", 1), By("len", 1)>>),
     F(Many("u8"), <<A("until"), By("seek", 2)>>)}

Fields ==
    {F(One("u8"), <<>>), F(One("bool"), <<>>), F(One("path"), <<A("var")>>),
     F(Many("u8"), <<By("count", 1)>>), F(Many("u8"), <<A("fill")>>),
     F(One("string"), <<A("text"), By("len", 1), A("align")>>),
     F(Many("u8"), <<By("square", 2)>>), F(One("string"), <<A("text"), A("fill")>>),
     F(Some("u8"), <<When(1, 1)>>), F(Some("u8"), <<When(2, 2)>>), F(Some("u8"), <<When(2, 0)>>),
     F(Some("u16"), <<A("fill")>>), F(Some("string"), <<A("text"), A("fill"), When(1, 1)>>),
     F(Some("path"), <<Num("bytes", 2), By("seek", 1)>>),
     F(One("path"), <<By("switch", 1)>>), F(One("path"), <<A("rest")>>),
     F(One("u8"), <<Num("at", 3)>>), F(One("path"), <<A("message"), By("with", 2)>>)}

Sums == {F(One("u16"), <<Over(from, to, n)>>) : from, to \in 0 .. 4, n \in {0, 1}}
        \cup {F(One("u16"), <<Over(5, 0, 0)>>)}

Number == {F(One("u16"), <<>>)}
Flag   == {F(One("bool"), <<>>)}

(* Products, which TLC enumerates without sorting them.                    *)
AnyField == Number \X Number \X Flag \X [type : AllTypes, attrs : UpToTwo]
MoreOf   == Number \X Number \X Flag \X {F(f.type, f.attrs \o more) : f \in Rich, more \in UpToTwo}

Mixed ==
    (Number \X Fields \X Fields \X Fields)
    \cup (Number \X Sums \X Fields \X Fields)
    \cup (Number \X Fields \X Fields \X Sums)
    \cup (Fields \X Sums \X Fields)
    \cup (Sums \X Fields)
    \cup (Number \X Sums \X Sums)

MCMessages == AnyField \cup MoreOf \cup Mixed
MCParams   == {9}
=============================================================================
