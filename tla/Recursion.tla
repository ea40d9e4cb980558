----------------------------- MODULE Recursion -----------------------------
(***************************************************************************)
(* The checks a generated module goes through as a whole, and what they    *)
(* promise the decoder.                                                    *)
(*                                                                         *)
(* A module is a sequence of items.  A message has one body and a choice   *)
(* has one body for every arm; a body is a sequence of segments, and a     *)
(* segment may refer to another item.  emit/graph.rs asks three questions  *)
(* about the graph of those references, each by a loop over the items:     *)
(* can every item end on the wire, is every Rust type of finite size, and  *)
(* which items on a cycle read to the end of their body.  Then each item   *)
(* is generated with a constant OPEN_ENDED and assertions about other      *)
(* items' constants, rustc accepts or refuses the result, and an accepted  *)
(* decoder follows the references on some input.                           *)
(***************************************************************************)
EXTENDS Integers, Sequences, FiniteSets

CONSTANTS
    Modules,    \* the modules the generator may be given
    MaxDepth    \* MAX_NESTING_DEPTH of layline-core

(* A module is a sequence of items; a message has one body, a choice any   *)
(* number of arms and a fallback or none.  `to' is an item of the module,  *)
(* or one of another: 0 is bounded, -1 open-ended.  `how' tells apart      *)
(*   opt     "set" or "clear": present while the flag is so;               *)
(*   repeat  "counted": a count or a length off the wire, which may be 0,  *)
(*           "sized": a fixed nonzero number of bytes,                     *)
(*           "ended": up to and including the element that ends the run;   *)
(*   placed  "offset": an offset of zero means absent;                     *)
(*   switch  "window": the arm is read inside a window.                    *)
Segment(kinds, hows) == [kind : kinds, to : Int, boxed : BOOLEAN, how : hows]

Segments ==
    Segment({"block", "fill", "value", "placed", "switch"}, {"plain", "offset", "window"})
        \cup Segment({"opt"}, {"set", "clear"})
        \cup Segment({"repeat"}, {"counted", "sized", "ended"})

Item == [choice : BOOLEAN, bodies : Seq(Seq(Segments)), other : {"none", "sized", "rest"}]

(* A name is looked up together with its kind, so that the item a segment  *)
(* refers to is a choice for a switch and a message for the others.        *)
Resolved(m, s) == s.to \in DOMAIN m => m[s.to].choice = (s.kind = "switch")

ASSUME RecursionAssumption ==
    /\ MaxDepth \in Nat
    /\ \A m \in Modules :
          /\ m \in Seq(Item)
          /\ \A j \in DOMAIN m : m[j].choice \/ Len(m[j].bodies) = 1
          /\ \A j \in DOMAIN m : \A k \in DOMAIN m[j].bodies : \A n \in DOMAIN m[j].bodies[k] :
                Resolved(m, m[j].bodies[k][n])

VARIABLES
    module,     \* the sequence of items
    phase,      \* what the generator, the compiler or the decoder is doing
    set,        \* the vector a least_fixpoint loop fills
    i,          \* the item the loop is at
    changed,    \* whether this pass added an item
    reaches,    \* the pairs of items one of which ends as the other does
    emitted,    \* the terms of each generated OPEN_ENDED
    verdict,    \* what became of the module, or of the input
    at,         \* the item being decoded
    depth,      \* the __depth it was given
    calls       \* decode_with_nested calls on the native stack

analysis == <<set, i, changed, reaches, emitted>>
decoding == <<at, depth, calls>>
vars     == <<module, phase, analysis, verdict, decoding>>

Items == DOMAIN module

(***************************************************************************)
(* Segments.  `kind' is the shape: "block" is anything of a known size     *)
(* that refers to nothing, "fill" is a run or a text to the end of the     *)
(* body, the others refer to an item.                                      *)
(***************************************************************************)
Refers(s) == s.kind \in {"value", "opt", "repeat", "placed", "switch"}

AvoidableRuns(s) == s.kind \in {"opt", "repeat"} \/ (s.kind = "placed" /\ s.how = "offset")

Avoidable(s) ==
    \/ s.kind = "opt"
    \/ s.kind = "repeat" /\ s.how # "sized"
    \/ s.kind = "placed" /\ s.how = "offset"

IndirectOption(s) == s.kind \in {"repeat", "opt"} \/ (s.kind # "switch" /\ s.boxed)

IndirectSwitch(s) == s.kind \in {"repeat", "switch"} \/ s.boxed

Indirect(s) == s.kind = "repeat" \/ (s.kind # "switch" /\ s.boxed)

References(body) == {body[n] : n \in {m \in DOMAIN body : Refers(body[m])}}

Last(body) == body[Len(body)]

DefersUnlessOptional(body) ==
    /\ body # << >>
    /\ Last(body).kind \in {"value", "switch"}
    /\ Last(body).how # "window"

(* The last segment's open end is that of the item it refers to.           *)
DefersOpenEnd(body) ==
    /\ body # << >>
    /\ Last(body).kind \in {"value", "opt", "switch"}
    /\ Last(body).how # "window"

OpenEnded(s) == s.kind = "fill"

----------------------------------------------------------------------------
(* Items.                                                                  *)

Bodies(item) == {item.bodies[n] : n \in DOMAIN item.bodies}

(* The references of each alternative; a fallback arm refers to nothing.   *)
Alternatives(item) ==
    {References(b) : b \in Bodies(item)}
        \cup (IF item.choice /\ (item.other # "none" \/ item.bodies = << >>)
              THEN {{}} ELSE {})

Declared(s) == s.to \in Items /\ module[s.to].choice = (s.kind = "switch")

(* A choice whose fallback takes the rest is open-ended whatever its arms. *)
TakesRest(item) == item.choice /\ item.other = "rest"

Deferring(item) ==
    IF TakesRest(item) THEN {}
    ELSE {Last(b) : b \in {c \in Bodies(item) : DefersOpenEnd(c)}}

KnownOpen(item) ==
    \/ TakesRest(item)
    \/ \E b \in Bodies(item) : b # << >> /\ OpenEnded(Last(b))

----------------------------------------------------------------------------
(* The three closures `holds' of least_fixpoint.                           *)

Ends(j, in) ==
    \E refs \in Alternatives(module[j]) :
        \A r \in refs : Avoidable(r) \/ (Declared(r) => in[r.to])

Sized(j, in) ==
    \A refs \in Alternatives(module[j]) :
        \A r \in refs : Indirect(r) \/ (Declared(r) => in[r.to])

OpensByReference(j, in) ==
    \/ KnownOpen(module[j]) /\ Deferring(module[j]) = {}
    \/ \E r \in Deferring(module[j]) : Declared(r) /\ in[r.to]

Opens(j, in) ==
    \/ KnownOpen(module[j])
    \/ \E r \in Deferring(module[j]) : Declared(r) /\ in[r.to]

Holds(j, in) ==
    \/ phase = "ends"  /\ Ends(j, in)
    \/ phase = "sized" /\ Sized(j, in)
    \/ phase = "open"  /\ Opens(j, in)

----------------------------------------------------------------------------
(* What the generator writes for an item.                                  *)

(* The items on the same cycle of open ends.                               *)
Members(j) == {m \in Items : <<j, m>> \in reaches /\ <<m, j>> \in reaches}

Forward(owner, s) ==
    IF s.to \in Members(owner) THEN <<"literal", set[s.to]>>
    ELSE IF s.to = owner THEN <<"literal", FALSE>>
    ELSE <<"constant", s.to>>

OpenEndedExpr(owner, body) ==
    IF body = << >> THEN <<"literal", FALSE>>
    ELSE LET s == Last(body) IN
         IF s.kind \in {"value", "opt", "placed", "switch"} /\ s.how # "window"
         THEN Forward(owner, s)
         ELSE <<"literal", OpenEnded(s)>>

Terms(j) ==
    LET exprs == {OpenEndedExpr(j, b) : b \in Bodies(module[j])}
        open  == IF TakesRest(module[j]) THEN {<<"literal", TRUE>>}
                 ELSE exprs \ {<<"literal", FALSE>>}
    IN  IF <<"literal", TRUE>> \in open THEN {<<"literal", TRUE>>}
        ELSE IF open = {} THEN {<<"literal", FALSE>>}
        ELSE open

(* The items asserted not to be open-ended, because a segment follows.     *)
Followed(body) == {body[n] : n \in 1..(Len(body) - 1)}

AssertedBounded(j) ==
    {s.to : s \in {r \in UNION {Followed(b) : b \in Bodies(module[j])} :
                     r.kind \in {"value", "opt", "placed", "switch"} /\ r.how # "window"}}

NamesSelf(j, s) == s.to = j

(* Fields after an open end, an empty choice, and a field that always      *)
(* holds its own type.                                                     *)
OwnOpenEnd(item) ==
    \/ TakesRest(item)
    \/ \E b \in Bodies(item) : \E n \in DOMAIN b : OpenEnded(b[n])

Invalid(j) ==
    LET item == module[j] IN
    \/ \E b \in Bodies(item) : \E s \in Followed(b) :
          \/ OpenEnded(s)
          \/ /\ ~item.choice
             /\ s.kind = "switch" /\ s.how # "window"
             /\ Declared(s) /\ OwnOpenEnd(module[s.to])
    \/ item.choice /\ item.bodies = << >> /\ item.other = "none"

AlwaysSelf(j, body) ==
    \E r \in References(body) : ~Avoidable(r) /\ NamesSelf(j, r)

RefusedAlone(j) ==
    LET item == module[j] IN
    \/ ~item.choice /\ \E b \in Bodies(item) : AlwaysSelf(j, b)
    \/ /\ item.choice /\ item.other = "none" /\ item.bodies # << >>
       /\ \A b \in Bodies(item) : AlwaysSelf(j, b)
    \/ \E b \in Bodies(item) : \E r \in References(b) :
          /\ r.kind \in {"value", "opt", "placed"}
          /\ NamesSelf(j, r) /\ ~r.boxed

----------------------------------------------------------------------------
(* What rustc makes of the constants: those they mention, all evaluated,   *)
(* and the ones that come out true.                                        *)

Mentions(j) == {t[2] : t \in {u \in emitted[j] : u[1] = "constant"}}

Closed(S) ==
    \A j \in Items :
        (\/ <<"literal", TRUE>> \in emitted[j]
         \/ Mentions(j) \cap (S \cup {-1}) # {}) => j \in S

ConstantTrue == {j \in Items : \A S \in SUBSET Items : Closed(S) => j \in S}

(* Constants that wait for one another.                                    *)
Circular ==
    \E S \in SUBSET Items : S # {} /\ \A j \in S : Mentions(j) \cap S # {}

Bounded ==
    \A j \in Items : AssertedBounded(j) \cap (ConstantTrue \cup {-1}) = {}

----------------------------------------------------------------------------
NoSet == [j \in Items |-> FALSE]

Init ==
    /\ module \in Modules
    /\ phase = "ends"
    /\ set = NoSet /\ i = 1 /\ changed = FALSE
    /\ reaches = {}
    /\ emitted = [j \in Items |-> {}]
    /\ verdict = "none"
    /\ at = 0 /\ depth = 0 /\ calls = 0

(* One turn of the inner loop of least_fixpoint.                           *)
Turn ==
    /\ phase \in {"ends", "sized", "open"} /\ i \in Items
    /\ LET add == ~set[i] /\ Holds(i, set) IN
       /\ set' = [set EXCEPT ![i] = @ \/ add]
       /\ changed' = (changed \/ add)
    /\ i' = i + 1
    /\ UNCHANGED <<module, phase, reaches, emitted, verdict, decoding>>

AgainUncleared ==
    /\ phase \in {"ends", "sized", "open"} /\ i \notin Items /\ changed
    /\ i' = 1
    /\ UNCHANGED <<module, phase, set, changed, reaches, emitted, verdict, decoding>>

(* A pass that added something is followed by another.                     *)
Again ==
    /\ phase \in {"ends", "sized", "open"} /\ i \notin Items /\ changed
    /\ i' = 1 /\ changed' = FALSE
    /\ UNCHANGED <<module, phase, set, reaches, emitted, verdict, decoding>>

Refuse(why) ==
    /\ verdict' = why /\ phase' = "done"
    /\ UNCHANGED <<module, analysis, decoding>>

Settled(p) == phase = p /\ i \notin Items /\ ~changed

EndsSettled ==
    /\ Settled("ends")
    /\ IF \A j \in Items : set[j]
       THEN /\ phase' = "sized" /\ set' = NoSet /\ i' = 1
            /\ UNCHANGED <<module, changed, reaches, emitted, verdict, decoding>>
       ELSE Refuse("endless")

(* The direct dependencies open_end_cycles starts its matrix with.         *)
Direct == {e \in Items \X Items :
               \E r \in Deferring(module[e[1]]) : Declared(r) /\ r.to = e[2]}

SizedSettled ==
    /\ Settled("sized")
    /\ IF \A j \in Items : set[j]
       THEN /\ phase' = "reach" /\ reaches' = Direct /\ i' = 1
            /\ UNCHANGED <<module, set, changed, emitted, verdict, decoding>>
       ELSE Refuse("infinite")

(* One turn of the outer loop of the closure: the inner two leave row and  *)
(* column k as they were, so their order does not matter.                  *)
Reach ==
    /\ phase = "reach" /\ i \in Items
    /\ reaches' = reaches \cup {e \in Items \X Items :
                                    <<e[1], i>> \in reaches /\ <<i, e[2]>> \in reaches}
    /\ i' = i + 1
    /\ UNCHANGED <<module, phase, set, changed, emitted, verdict, decoding>>

Cyclic == {j \in Items : <<j, j>> \in reaches}

(* A cycle must not wait for an item this module does not declare.         *)
Undeclared ==
    \E j \in Cyclic : \E m \in Items :
        /\ m = j \/ <<j, m>> \in reaches
        /\ \E r \in Deferring(module[m]) : ~Declared(r)

Reached ==
    /\ phase = "reach" /\ i \notin Items
    /\ IF Cyclic = {}
       THEN /\ phase' = "lower" /\ i' = 1
            /\ UNCHANGED <<module, set, changed, reaches, emitted, verdict, decoding>>
       ELSE IF Undeclared THEN Refuse("undeclared")
       ELSE /\ phase' = "open" /\ set' = NoSet /\ i' = 1
            /\ UNCHANGED <<module, changed, reaches, emitted, verdict, decoding>>

OpenSettled ==
    /\ Settled("open")
    /\ phase' = "lower" /\ i' = 1
    /\ UNCHANGED <<module, set, changed, reaches, emitted, verdict, decoding>>

(* emit_source generates the items in turn; each is validated first.       *)
Lower ==
    /\ phase = "lower" /\ i \in Items
    /\ IF Invalid(i) THEN Refuse("invalid")
       ELSE IF RefusedAlone(i) THEN Refuse("refused")
       ELSE /\ emitted' = [emitted EXCEPT ![i] = Terms(i)]
            /\ i' = i + 1
            /\ UNCHANGED <<module, phase, set, changed, reaches, verdict, decoding>>

Compile ==
    /\ phase = "lower" /\ i \notin Items
    /\ IF Circular THEN Refuse("circular")
       ELSE IF ~Bounded THEN Refuse("unbounded")
       ELSE /\ verdict' = "accepted" /\ phase' = "ready"
            /\ UNCHANGED <<module, analysis, decoding>>

----------------------------------------------------------------------------
(* The decoder, along the chain of calls that are open at once.            *)

Decode(j) ==
    /\ phase = "ready"
    /\ phase' = "decode" /\ at' = j /\ depth' = 0 /\ calls' = 1
    /\ UNCHANGED <<module, analysis, verdict>>

TooDeep ==
    /\ phase = "decode" /\ depth > MaxDepth
    /\ verdict' = "too_deep" /\ phase' = "done"
    /\ UNCHANGED <<module, analysis, decoding>>

DepthOf(s) == IF s.kind = "switch" THEN depth ELSE depth + 1

(* A present reference is followed; which are present is the input's.      *)
Enter ==
    /\ phase = "decode" /\ ~(depth > MaxDepth)
    /\ \E b \in Bodies(module[at]) : \E s \in References(b) :
          /\ Declared(s)
          /\ at' = s.to /\ depth' = DepthOf(s) /\ calls' = calls + 1
    /\ UNCHANGED <<module, phase, analysis, verdict>>

(* The chain goes no deeper: nothing more is present, or an error returns. *)
Leave ==
    /\ phase = "decode" /\ ~(depth > MaxDepth)
    /\ phase' = "done"
    /\ UNCHANGED <<module, analysis, verdict, decoding>>

Next ==
    \/ Turn \/ Again
    \/ EndsSettled \/ SizedSettled
    \/ Reach \/ Reached \/ OpenSettled
    \/ Lower \/ Compile
    \/ \E j \in Items : Decode(j)
    \/ TooDeep \/ Enter \/ Leave

Spec == Init /\ [][Next]_vars /\ WF_vars(Next)

----------------------------------------------------------------------------
(* What the questions mean.                                                *)

(* Whether a segment is on the wire, given the flag of its body and counts *)
(* and offsets that are zero wherever the format lets them be.             *)
Present(s, flag) ==
    CASE s.kind = "opt"    -> flag = (s.how = "set")
      [] s.kind = "repeat" -> s.how # "counted"
      [] s.kind = "placed" -> s.how # "offset"
      [] OTHER             -> TRUE

(* From inside a trap every wire leads back into it: no wire of it ends.   *)
(* A choice of no arms, which has no wires, is refused for itself.         *)
Trap(S) ==
    \A j \in S :
        /\ module[j].bodies # << >>
        /\ ~(module[j].choice /\ module[j].other # "none")
        /\ \A b \in Bodies(module[j]) : \A flag \in BOOLEAN :
              \E s \in References(b) : Present(s, flag) /\ Declared(s) /\ s.to \in S

Endless == \E S \in SUBSET Items : S # {} /\ Trap(S)

(* Types that contain one another inline have no finite size.              *)
Inline(S) ==
    \A j \in S : \E b \in Bodies(module[j]) : \E s \in References(b) :
        /\ s.kind = "switch" \/ (s.kind \in {"value", "opt", "placed"} /\ ~s.boxed)
        /\ Declared(s) /\ s.to \in S

Infinite == \E S \in SUBSET Items : S # {} /\ Inline(S)

(* A body reads to the end of its input when its last segment does, or the *)
(* message or arm read by its last segment does.                           *)
EndsWithin(body, S) ==
    /\ body # << >>
    /\ \/ Last(body).kind = "fill"
       \/ /\ Last(body).kind \in {"value", "opt", "placed", "switch"}
          /\ Last(body).how # "window"
          /\ Last(body).to \in S \cup {-1}

ReadingToEnd ==
    {j \in Items : \A S \in SUBSET Items :
        (\A m \in Items :
            TakesRest(module[m]) \/ (\E b \in Bodies(module[m]) : EndsWithin(b, S))
                => m \in S)
        => j \in S}

----------------------------------------------------------------------------
(* Where one reference can be skipped, but not with the rest of its body:  *)
(* a run up to and including the element that ends it, which encode        *)
(* asserts is there, and two options on the two senses of one flag.        *)
SkippedAlone ==
    \E j \in Items : \E b \in Bodies(module[j]) :
        \/ \E s \in References(b) : s.how = "ended"
        \/ {"set", "clear"} \subseteq {s.how : s \in References(b)}

(* graph.rs `recursion': a module is refused as endless exactly when some  *)
(* of its items have no finite wire, and the fixpoint finds them in        *)
(* whatever order the items are declared.  It takes each reference by      *)
(* itself, and misses an endless module only for that.                     *)
EndlessIsExact ==
    /\ verdict = "endless" => Endless
    /\ verdict \notin {"none", "endless"} => ~Endless \/ SkippedAlone

(* graph.rs `recursion': a module is refused for the size of its types     *)
(* exactly when some of them contain one another inline.                   *)
InfiniteIsExact ==
    /\ verdict = "infinite" => Infinite
    /\ verdict \notin {"none", "endless", "infinite"} => ~Infinite

(* recursion.rs `open_ended_expr' writes a literal for an item on a cycle  *)
(* and a path otherwise: no generated constant waits for itself, unless    *)
(* the cycle goes through a last record at an offset, which                *)
(* `defers_open_end' leaves out.                                           *)
ConstantsResolve ==
    verdict = "circular" =>
        \E j \in Items : \E b \in Bodies(module[j]) :
            b # << >> /\ Last(b).kind = "placed" /\ Last(b).to \in Items

(* No body has a segment after one that reads to the end: what follows    *)
(* would never get a byte.                                                 *)
NothingFollowsTheEnd ==
    \A j \in Items : \A b \in Bodies(module[j]) : \A n \in 1..(Len(b) - 1) :
        ~EndsWithin(SubSeq(b, 1, n), ReadingToEnd)

(* An item on a cycle of open ends, or one it waits for, that reads to the *)
(* end by a record at an offset: the literals of the cycle are found       *)
(* without that record.                                                    *)
Overlooked(j) ==
    /\ ~TakesRest(module[j])
    /\ \E b \in Bodies(module[j]) :
          b # << >> /\ Last(b).kind = "placed" /\ Last(b).to \in ReadingToEnd \cup {-1}

EndOverlooked ==
    \E j \in Cyclic : \E m \in Items : (m = j \/ <<j, m>> \in reaches) /\ Overlooked(m)

(* In an accepted module the constants rustc computes, with the literals   *)
(* the graph supplied, are true only of items that read to the end of      *)
(* their body; they are true of all of those, and nothing follows one,     *)
(* but for an end that defers_open_end overlooks.                          *)
OpenEndedIsExact ==
    verdict = "accepted" =>
        /\ ConstantTrue \subseteq ReadingToEnd
        /\ EndOverlooked \/ (ReadingToEnd \subseteq ConstantTrue /\ NothingFollowsTheEnd)

(* A switch hands on the depth it was given, so the limit on the depth     *)
(* bounds the native stack only because no accepted module has a cycle of  *)
(* choices alone.                                                          *)
Choices == {j \in Items : module[j].choice}

StackBounded == calls <= (MaxDepth + 1) * (Cardinality(Choices) + 1) + 1

(* The generator comes to a verdict, and every chain of calls ends.        *)
Settles == <>(phase = "done")
============================================================================
