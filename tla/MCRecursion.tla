---------------------------- MODULE MCRecursion ----------------------------
(***************************************************************************)
(* Recursion on families of small modules: three messages in a ring of any *)
(* shape, or messages and choices that refer to each other.  Item 0 is a   *)
(* bounded type of another module and item -1 an open-ended one.           *)
(***************************************************************************)
EXTENDS Recursion

Seg(kind, to, boxed, how) == [kind |-> kind, to |-> to, boxed |-> boxed, how |-> how]

Block       == Seg("block", 0, FALSE, "plain")
Fill        == Seg("fill", 0, FALSE, "plain")
Value(j)    == Seg("value", j, TRUE, "plain")
Held(j)     == Seg("value", j, FALSE, "plain")
Opt(j)      == Seg("opt", j, TRUE, "set")
Inlined(j)  == Seg("opt", j, FALSE, "set")
Else(j)     == Seg("opt", j, TRUE, "clear")
Run(j)      == Seg("repeat", j, TRUE, "counted")
Sizes(j)    == Seg("repeat", j, TRUE, "sized")
Ended(j)    == Seg("repeat", j, TRUE, "ended")
Placed(j)   == Seg("placed", j, TRUE, "plain")
Pointed(j)  == Seg("placed", j, TRUE, "offset")
Switch(j)   == Seg("switch", j, FALSE, "plain")
Window(j)   == Seg("switch", j, FALSE, "window")

Message(body)       == [choice |-> FALSE, bodies |-> <<body>>, other |-> "none"]
Choice(arms, other) == [choice |-> TRUE, bodies |-> arms, other |-> other]

(* Bodies that refer to one of the messages J, or to none.                 *)
Alone(J) ==
    {<<Block>>, <<Fill>>}
        \cup UNION {{<<Value(j)>>, <<Held(j)>>, <<Opt(j)>>, <<Inlined(j)>>, <<Sizes(j)>>} : j \in J}

Elsewhere == {<<Opt(0)>>, <<Opt(-1)>>, <<Value(-1), Block>>}

Pairs == {<<Value(1), Value(2)>>, <<Run(2), Opt(1)>>, <<Inlined(3), Run(1)>>, <<Opt(2), Block>>}

(* Three messages.                                                         *)
Rings ==
    {<<Message(a), Message(b), Message(c)>> :
        a \in Alone({2, 3}) \cup Pairs,
        b \in Alone({1, 3}) \cup Elsewhere,
        c \in Alone({1, 2}) \cup {<<Else(1), Block>>, <<Opt(-1)>>}}

(* A message and two choices.                                              *)
Arms == {<<Block>>, <<Fill>>, <<Value(1)>>, <<Held(1)>>, <<Opt(1)>>, <<Switch(2)>>, <<Switch(3)>>}

ArmLists ==
    {<< >>} \cup {<<a>> : a \in Arms}
        \cup {<<a, b>> : a \in {<<Block>>, <<Fill>>, <<Value(1)>>},
                        b \in {<<Switch(2)>>, <<Switch(3)>>, <<Value(1)>>, <<Opt(1)>>, <<Opt(0)>>}}

Catalogues ==
    {<<Message(a), Choice(b, x), Choice(c, y)>> :
        a \in {<<Switch(2)>>, <<Switch(2), Block>>, <<Window(2), Block>>, <<Run(1), Switch(3)>>},
        b \in ArmLists, x \in {"none", "sized", "rest"},
        c \in ArmLists, y \in {"none"}}

(* Records at an offset, last in their body.                               *)
PlacedModules ==
    {<<Message(a), Message(b), Message(c)>> :
        a \in {<<Placed(2)>>, <<Pointed(2)>>, <<Opt(2)>>, <<Opt(3)>>},
        b \in {<<Opt(1)>>, <<Opt(3)>>, <<Pointed(1)>>, <<Block>>, <<Fill>>},
        c \in {<<Block>>, <<Opt(1)>>}}

(* References that are taken for avoidable: runs up to and including the   *)
(* element that ends them, and two options on the two senses of one flag.  *)
EndedModules ==
    {<<Message(a), Message(b), Message(c)>> :
        a \in {<<Ended(2)>>, <<Ended(2), Block>>, <<Ended(3), Opt(2)>>, <<Opt(2), Else(3)>>},
        b \in {<<Opt(1)>>, <<Block>>, <<Value(1)>>},
        c \in {<<Block>>, <<Opt(1)>>, <<Value(1)>>}}

(* Arms that end in a record at an offset, on a cycle of open ends.        *)
PlacedArms ==
    {<<Choice(<<a, b>>, x), Message(<<s>>), Message(<<c>>)>> :
        a \in {<<Value(2)>>, <<Opt(2)>>, <<Block>>},
        b \in {<<Placed(3)>>, <<Pointed(3)>>, <<Placed(-1)>>, <<Pointed(2)>>, <<Block>>},
        x \in {"none", "sized", "rest"},
        s \in {Switch(1), Window(1)},
        c \in {Fill, Block, Opt(2), Pointed(2), Switch(1)}}

MCModules == Rings \cup Catalogues \cup PlacedModules \cup PlacedArms \cup EndedModules
============================================================================
