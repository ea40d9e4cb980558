-------------------------- MODULE RecursionProofs ---------------------------
(***************************************************************************)
(* What the fixpoints decide is what the questions mean, for every module  *)
(* and every order of its items, and it bounds the native stack.           *)
(*                                                                         *)
(* A fixpoint is sound because nothing of a set that leads back into       *)
(* itself is ever added (Found), and complete because a pass that adds     *)
(* nothing has looked at every item (Pass): what is left out then leads    *)
(* back into itself.  In an accepted module no choices hold one another,   *)
(* so each switch leaves fewer choices to go through before the depth      *)
(* grows (UnderShrinks).                                                   *)
(***************************************************************************)
EXTENDS Recursion, FiniteSetTheorems, WellFoundedInduction, TLAPS

(* Choices that the switches of an item lead to, and all they lead to.     *)
Switches(j) ==
    {m \in Items : \E b \in Bodies(module[j]) : \E s \in References(b) :
                        s.kind = "switch" /\ Declared(s) /\ s.to = m}

Onward(S) == \A m \in S : Switches(m) \subseteq S

Under(j) == {m \in Items : \A S \in SUBSET Items : Switches(j) \subseteq S /\ Onward(S) => m \in S}

Rank(j) == Cardinality(Under(j))

Level == Cardinality(Choices) + 1

Typed ==
    /\ module \in Modules
    /\ set \in [Items -> BOOLEAN] /\ changed \in BOOLEAN /\ i \in Nat \ {0}

(* An item this pass has left out does not hold.                           *)
Pass ==
    phase \in {"ends", "sized"} /\ ~changed =>
        \A j \in Items : j < i /\ ~set[j] => ~Holds(j, set)

(* What leads back into itself is not added, and then does not exist.      *)
Found ==
    /\ phase = "ends" /\ ~SkippedAlone =>
        \A S \in SUBSET Items : Trap(S) => \A j \in S : ~set[j]
    /\ phase \notin {"ends", "done"} => ~Endless \/ SkippedAlone
    /\ phase = "sized" => \A S \in SUBSET Items : Inline(S) => \A j \in S : ~set[j]
    /\ phase \notin {"ends", "sized", "done"} => ~Infinite

Told == phase # "done" => verdict \in {"none", "accepted"}

(* What is left of the stack: the choices still to go through at this      *)
(* depth, and Level calls for each depth to come.                          *)
Spent ==
    /\ phase \notin {"decode", "done"} => calls = 0
    /\ phase = "decode" =>
        /\ at \in Items /\ depth \in 0 .. MaxDepth + 1 /\ calls \in Nat
        /\ depth <= MaxDepth => calls + Rank(at) <= (depth + 1) * Level
    /\ StackBounded

IInv == Typed /\ Pass /\ Found /\ Told /\ Spent /\ EndlessIsExact /\ InfiniteIsExact

----------------------------------------------------------------------------
LEMMA ModuleTypes ==
    ASSUME module \in Modules
    PROVE  /\ Items = 1 .. Len(module) /\ Len(module) \in Nat /\ IsFiniteSet(Items)
           /\ \A j \in Items : module[j] \in Item /\ (module[j].choice \/ Len(module[j].bodies) = 1)
           /\ \A j \in Items : module[j].bodies \in Seq(Seq(Segments))
           /\ \A j \in Items : \A b \in Bodies(module[j]) : \A s \in References(b) : s \in Segments
<1>1. /\ module \in Seq(Item)
      /\ \A j \in Items : module[j].choice \/ Len(module[j].bodies) = 1
  BY RecursionAssumption DEF Items
<1>2. Items = 1 .. Len(module) /\ Len(module) \in Nat /\ \A j \in Items : module[j] \in Item
  BY <1>1 DEF Items
<1>3. IsFiniteSet(Items)
  BY <1>2, FS_Interval
<1>4. \A j \in Items : module[j].bodies \in Seq(Seq(Segments))
  BY <1>2 DEF Item
<1>5. ASSUME NEW j \in Items, NEW b \in Bodies(module[j]), NEW s \in References(b)
      PROVE  s \in Segments
  <2>1. b \in Seq(Segments)
    BY <1>4 DEF Bodies
  <2> QED BY <2>1 DEF References
<1> QED BY <1>1, <1>2, <1>3, <1>4, <1>5

LEMMA SegmentTypes ==
    ASSUME NEW s \in Segments
    PROVE  /\ s.kind \in {"block", "fill", "value", "placed", "switch", "opt", "repeat"}
           /\ s.kind = "opt" => s.how \in {"set", "clear"}
           /\ s.kind = "repeat" => s.how \in {"counted", "sized", "ended"}
BY DEF Segments, Segment

----------------------------------------------------------------------------
(* Endless recursion.                                                      *)

(* An item of a trap does not end while the others of it do not.           *)
LEMMA TrapIsNotAdded ==
    ASSUME module \in Modules, ~SkippedAlone, NEW S \in SUBSET Items, Trap(S),
           \A j \in S : ~set[j], NEW k \in S
    PROVE  ~Ends(k, set)
<1> SUFFICES ASSUME Ends(k, set) PROVE FALSE
  OBVIOUS
<1>1. /\ k \in Items /\ module[k].bodies # << >>
      /\ ~(module[k].choice /\ module[k].other # "none")
      /\ \A b \in Bodies(module[k]) : \A flag \in BOOLEAN :
            \E s \in References(b) : Present(s, flag) /\ Declared(s) /\ s.to \in S
  BY DEF Trap
<1>2. PICK refs \in Alternatives(module[k]) :
        \A r \in refs : Avoidable(r) \/ (Declared(r) => set[r.to])
  BY DEF Ends
<1>3. PICK b \in Bodies(module[k]) : refs = References(b)
  BY <1>1, <1>2 DEF Alternatives
<1>4. ASSUME NEW flag \in BOOLEAN
      PROVE  \E s \in References(b) : s.kind = "opt" /\ (flag <=> s.how = "set")
  <2>1. PICK s \in References(b) : Present(s, flag) /\ Declared(s) /\ s.to \in S
    BY <1>1, <1>3
  <2>2. Avoidable(s)
    BY <1>2, <1>3, <2>1
  <2>3. s \in Segments /\ s.how # "ended"
    BY <1>1, <1>3, ModuleTypes DEF SkippedAlone
  <2>4. s.kind = "opt"
    <3>1. CASE s.kind = "repeat"
      <4>1. s.how = "counted"
        BY <2>2, <2>3, <3>1, SegmentTypes DEF Avoidable
      <4> QED BY <2>1, <3>1, <4>1 DEF Present
    <3>2. CASE s.kind = "placed"
      BY <2>1, <2>2, <3>2 DEF Present, Avoidable
    <3> QED BY <2>2, <3>1, <3>2 DEF Avoidable
  <2>5. flag <=> s.how = "set"
    BY <2>1, <2>4 DEF Present
  <2> QED BY <2>4, <2>5
<1>5. PICK s \in References(b) : s.kind = "opt" /\ s.how = "set"
  BY <1>4
<1>6. PICK t \in References(b) : t.kind = "opt" /\ t.how # "set"
  BY <1>4
<1>7. t.how = "clear"
  BY <1>1, <1>3, <1>6, ModuleTypes, SegmentTypes
<1> QED BY <1>1, <1>3, <1>5, <1>6, <1>7 DEF SkippedAlone

(* What is left when nothing more ends is a trap.                          *)
LEMMA RestIsTrap ==
    ASSUME module \in Modules, \A j \in Items : ~set[j] => ~Ends(j, set)
    PROVE  Trap({j \in Items : ~set[j]})
<1> DEFINE S == {j \in Items : ~set[j]}
<1> SUFFICES ASSUME NEW j \in S
             PROVE  /\ module[j].bodies # << >>
                    /\ ~(module[j].choice /\ module[j].other # "none")
                    /\ \A b \in Bodies(module[j]) : \A flag \in BOOLEAN :
                          \E s \in References(b) : Present(s, flag) /\ Declared(s) /\ s.to \in S
  BY DEF Trap
<1>1. j \in Items /\ ~Ends(j, set)
  OBVIOUS
<1>2. {} \notin Alternatives(module[j])
  BY <1>1 DEF Ends
<1>3. ~(module[j].choice /\ (module[j].other # "none" \/ module[j].bodies = << >>))
  BY <1>2 DEF Alternatives
<1>4. module[j].bodies # << >>
  <2>1. Len(<< >>) = 0
    OBVIOUS
  <2>2. module[j].choice \/ Len(module[j].bodies) = 1
    BY <1>1, ModuleTypes
  <2> QED BY <1>3, <2>1, <2>2
<1>5. ASSUME NEW b \in Bodies(module[j]), NEW flag \in BOOLEAN
      PROVE  \E s \in References(b) : Present(s, flag) /\ Declared(s) /\ s.to \in S
  <2>1. References(b) \in Alternatives(module[j])
    BY DEF Alternatives
  <2>2. PICK s \in References(b) : ~Avoidable(s) /\ Declared(s) /\ ~set[s.to]
    BY <1>1, <2>1 DEF Ends
  <2>3. Present(s, flag)
    BY <2>2, Zenon DEF Present, Avoidable
  <2> QED BY <2>2, <2>3 DEF Declared
<1> QED BY <1>3, <1>4, <1>5

----------------------------------------------------------------------------
(* Types of infinite size.                                                 *)
LEMMA InlineIsNotAdded ==
    ASSUME NEW S \in SUBSET Items, Inline(S), \A j \in S : ~set[j], NEW k \in S
    PROVE  ~Sized(k, set)
<1>1. PICK b \in Bodies(module[k]) : \E s \in References(b) :
        /\ s.kind = "switch" \/ (s.kind \in {"value", "opt", "placed"} /\ ~s.boxed)
        /\ Declared(s) /\ s.to \in S
  BY DEF Inline
<1> PICK s \in References(b) :
        /\ s.kind = "switch" \/ (s.kind \in {"value", "opt", "placed"} /\ ~s.boxed)
        /\ Declared(s) /\ s.to \in S
  BY <1>1
<1>2. References(b) \in Alternatives(module[k])
  BY DEF Alternatives
<1>3. ~Indirect(s) /\ ~set[s.to]
  BY <1>1 DEF Indirect
<1> QED BY <1>1, <1>2, <1>3 DEF Sized

LEMMA RestIsInline ==
    ASSUME module \in Modules, \A j \in Items : ~set[j] => ~Sized(j, set)
    PROVE  Inline({j \in Items : ~set[j]})
<1> DEFINE S == {j \in Items : ~set[j]}
<1> SUFFICES ASSUME NEW j \in S
             PROVE  \E b \in Bodies(module[j]) : \E s \in References(b) :
                        /\ s.kind = "switch" \/ (s.kind \in {"value", "opt", "placed"} /\ ~s.boxed)
                        /\ Declared(s) /\ s.to \in S
  BY DEF Inline
<1>1. j \in Items /\ ~Sized(j, set)
  OBVIOUS
<1>2. PICK refs \in Alternatives(module[j]) :
        \E r \in refs : ~Indirect(r) /\ Declared(r) /\ ~set[r.to]
  BY <1>1 DEF Sized
<1>3. PICK s \in refs : ~Indirect(s) /\ Declared(s) /\ ~set[s.to]
  BY <1>2
<1>4. PICK b \in Bodies(module[j]) : refs = References(b)
  BY <1>3 DEF Alternatives
<1>5. s.kind \in {"value", "opt", "repeat", "placed", "switch"}
  BY <1>3, <1>4 DEF References, Refers
<1>6. s.kind = "switch" \/ (s.kind \in {"value", "opt", "placed"} /\ ~s.boxed)
  BY <1>3, <1>5 DEF Indirect
<1> QED BY <1>3, <1>4, <1>6 DEF Declared

----------------------------------------------------------------------------
(* The choices a switch leads to.                                          *)
LEMMA UnderIsOnward ==
    ASSUME NEW j \in Items
    PROVE  Switches(j) \subseteq Under(j) /\ Onward(Under(j)) /\ Under(j) \subseteq Items
<1>1. Switches(j) \subseteq Under(j)
  BY DEF Under, Switches
<1>2. ASSUME NEW m \in Under(j), NEW n \in Switches(m)
      PROVE  n \in Under(j)
  <2>1. n \in Items
    BY DEF Switches
  <2> SUFFICES ASSUME NEW S \in SUBSET Items, Switches(j) \subseteq S /\ Onward(S)
               PROVE  n \in S
    BY <2>1 DEF Under
  <2>2. m \in S
    BY DEF Under
  <2> QED BY <2>2 DEF Onward
<1>3. Under(j) \subseteq Items
  BY DEF Under
<1> QED BY <1>1, <1>2, <1>3 DEF Onward

LEMMA UnderIsLeast ==
    ASSUME NEW j \in Items, NEW S \in SUBSET Items, Switches(j) \subseteq S, Onward(S)
    PROVE  Under(j) \subseteq S
BY DEF Under

(* What is under an item is what it switches to, and what is under that.   *)
LEMMA UnderUnrolls ==
    ASSUME NEW j \in Items, NEW m \in Under(j)
    PROVE  \E n \in Switches(j) : m = n \/ m \in Under(n)
<1> DEFINE U == {x \in Items : \E n \in Switches(j) : x = n \/ x \in Under(n)}
<1>1. \A n \in Switches(j) : n \in Items
  BY DEF Switches
<1>2. Switches(j) \subseteq U
  BY <1>1
<1>3. ASSUME NEW x \in U, NEW y \in Switches(x) PROVE y \in U
  <2>1. PICK n \in Switches(j) : x = n \/ x \in Under(n)
    OBVIOUS
  <2>2. Switches(n) \subseteq Under(n) /\ Onward(Under(n)) /\ Under(n) \subseteq Items
    BY <1>1, <2>1, UnderIsOnward
  <2>3. y \in Under(n)
    BY <2>1, <2>2 DEF Onward
  <2> QED BY <2>1, <2>2, <2>3
<1>4. Under(j) \subseteq U
  <2>1. Onward(U) /\ U \in SUBSET Items
    BY <1>3 DEF Onward
  <2> HIDE DEF U
  <2> QED BY <1>2, <2>1, UnderIsLeast
<1> QED BY <1>4

(* Choices that lead back to themselves would hold one another inline.     *)
LEMMA NothingIsUnderItself ==
    ASSUME ~Infinite, NEW k \in Items
    PROVE  k \notin Under(k)
<1> SUFFICES ASSUME k \in Under(k) PROVE FALSE
  OBVIOUS
<1> DEFINE S == {m \in Under(k) : k \in Under(m)}
<1>1. \A m \in Under(k) : m \in Items
  BY UnderIsOnward
<1>2. ASSUME NEW m \in S PROVE \E n \in Switches(m) : n \in S
  <2>1. PICK n \in Switches(m) : k = n \/ k \in Under(n)
    BY <1>1, UnderUnrolls
  <2>2. n \in Under(k)
    BY UnderIsOnward DEF Onward
  <2> QED BY <2>1, <2>2
<1>3. Inline(S)
  <2> SUFFICES ASSUME NEW m \in S
               PROVE  \E b \in Bodies(module[m]) : \E s \in References(b) :
                          s.kind = "switch" /\ Declared(s) /\ s.to \in S
    BY DEF Inline
  <2>1. PICK n \in Switches(m) : n \in S
    BY <1>2
  <2> HIDE DEF S
  <2> QED BY <2>1 DEF Switches
<1>4. S \in SUBSET Items /\ S # {}
  BY <1>1
<1> HIDE DEF S
<1> QED BY <1>3, <1>4 DEF Infinite

(* A switch leads to fewer choices than lie under the item it is in.       *)
LEMMA UnderShrinks ==
    ASSUME module \in Modules, ~Infinite, NEW j \in Items, NEW k \in Switches(j)
    PROVE  Rank(k) < Rank(j)
<1>1. k \in Items
  BY DEF Switches
<1>2. k \in Under(j) /\ Under(k) \subseteq Under(j) /\ k \notin Under(k)
  <2>1. k \in Under(j) /\ Switches(k) \subseteq Under(j) /\ Onward(Under(j)) /\ Under(j) \in SUBSET Items
    BY UnderIsOnward DEF Onward
  <2> QED BY <1>1, <2>1, UnderIsLeast, NothingIsUnderItself
<1>3. IsFiniteSet(Under(j))
  <2>1. IsFiniteSet(Items) /\ Under(j) \in SUBSET Items
    BY ModuleTypes, UnderIsOnward
  <2> QED BY <2>1, FS_Subset
<1>4. /\ Cardinality(Under(k)) <= Cardinality(Under(j))
      /\ Cardinality(Under(k)) # Cardinality(Under(j))
      /\ IsFiniteSet(Under(k))
  <2>1. Under(k) \in SUBSET Under(j) /\ Under(k) # Under(j)
    BY <1>2
  <2> QED BY <1>3, <2>1, FS_Subset
<1>5. Cardinality(Under(k)) \in Nat /\ Cardinality(Under(j)) \in Nat
  BY <1>3, <1>4, FS_CardinalityType
<1> QED BY <1>4, <1>5 DEF Rank

LEMMA RankTypes ==
    ASSUME module \in Modules, NEW j \in Items
    PROVE  Rank(j) \in Nat /\ Level \in Nat /\ Rank(j) < Level
<1>1. IsFiniteSet(Choices) /\ Cardinality(Choices) \in Nat
  <2>1. IsFiniteSet(Items) /\ Choices \in SUBSET Items
    BY ModuleTypes DEF Choices
  <2>2. IsFiniteSet(Choices)
    BY <2>1, FS_Subset
  <2> QED BY <2>2, FS_CardinalityType
<1>2. Under(j) \in SUBSET Choices
  <2>1. \A m \in Items : Switches(m) \subseteq Choices
    BY DEF Switches, Declared, Choices
  <2>2. Choices \in SUBSET Items /\ Onward(Choices)
    BY <2>1 DEF Choices, Onward
  <2> QED BY <2>1, <2>2, UnderIsLeast
<1>3. Cardinality(Under(j)) <= Cardinality(Choices) /\ IsFiniteSet(Under(j))
  BY <1>1, <1>2, FS_Subset
<1>4. Cardinality(Under(j)) \in Nat
  BY <1>3, FS_CardinalityType
<1> QED BY <1>1, <1>3, <1>4 DEF Rank, Level

----------------------------------------------------------------------------
(* The questions are about the module alone, which no step changes.        *)
LEMMA ModuleStays ==
    ASSUME module' = module
    PROVE  /\ Items' = Items /\ Choices' = Choices /\ Level' = Level
           /\ (SkippedAlone)' <=> SkippedAlone
           /\ \A S : Trap(S)' <=> Trap(S)
           /\ \A S : Inline(S)' <=> Inline(S)
           /\ Endless' <=> Endless
           /\ Infinite' <=> Infinite
           /\ \A j : Rank(j)' = Rank(j)
<1>1. Items' = Items
  BY DEF Items
<1>2. Choices' = Choices /\ Level' = Level
  BY <1>1 DEF Choices, Level
<1>3. (SkippedAlone)' <=> SkippedAlone
  BY <1>1 DEF SkippedAlone
<1>4. \A s : Declared(s)' <=> Declared(s)
  BY <1>1 DEF Declared
<1>5. \A S : Trap(S)' <=> Trap(S)
  BY <1>4 DEF Trap
<1>6. \A S : Inline(S)' <=> Inline(S)
  BY <1>4 DEF Inline
<1>7. (Endless' <=> Endless) /\ (Infinite' <=> Infinite)
  BY <1>1, <1>5, <1>6 DEF Endless, Infinite
<1>8. \A j : Switches(j)' = Switches(j)
  BY <1>1, <1>4 DEF Switches
<1>9. \A S : Onward(S)' <=> Onward(S)
  BY <1>8 DEF Onward
<1>10. \A j : Rank(j)' = Rank(j)
  <2>1. \A j : Under(j)' = Under(j)
    BY <1>1, <1>8, <1>9 DEF Under
  <2> QED BY <2>1 DEF Rank
<1> QED BY <1>1, <1>2, <1>3, <1>5, <1>6, <1>7, <1>10

LEMMA HoldsStays ==
    ASSUME module' = module, set' = set, phase' = phase, NEW j
    PROVE  Holds(j, set)' <=> Holds(j, set)
<1>1. \A s : Declared(s)' <=> Declared(s)
  BY DEF Declared, Items
<1>2. (Ends(j, set)' <=> Ends(j, set)) /\ (Sized(j, set)' <=> Sized(j, set))
  BY <1>1 DEF Ends, Sized
<1>3. Opens(j, set)' <=> Opens(j, set)
  BY <1>1 DEF Opens
<1> QED BY <1>2, <1>3 DEF Holds

(* A verdict told stays told.                                              *)
LEMMA ToldStays ==
    ASSUME EndlessIsExact, InfiniteIsExact, module' = module, verdict' = verdict
    PROVE  EndlessIsExact' /\ InfiniteIsExact'
BY ModuleStays DEF EndlessIsExact, InfiniteIsExact

(* Once both fixpoints are settled there is nothing left to find.          *)
LEMMA FoundStays ==
    ASSUME Found, module' = module, phase \notin {"ends", "sized", "done"},
           phase' \notin {"ends", "sized"}
    PROVE  Found' /\ Pass'
BY ModuleStays DEF Found, Pass

LEMMA SpentStays ==
    ASSUME Spent, module' = module, decoding' = decoding,
           phase \notin {"decode", "done"}, phase' # "decode"
    PROVE  Spent'
BY ModuleStays DEF Spent, decoding, StackBounded

----------------------------------------------------------------------------
LEMMA InitKeeps == Init => IInv
<1> SUFFICES ASSUME Init PROVE IInv
  OBVIOUS
<1>1. Typed
  <2>1. NoSet \in [Items -> BOOLEAN]
    BY Zenon DEF NoSet
  <2>2. changed \in BOOLEAN
    BY Zenon DEF Init
  <2> QED BY <2>1, <2>2 DEF Init, Typed
<1>2. Items = 1 .. Len(module) /\ Len(module) \in Nat
  BY <1>1, ModuleTypes DEF Typed
<1>3. Pass
  BY <1>2 DEF Init, Pass
<1>4. Found
  BY DEF Init, NoSet, Found
<1>5. Told /\ EndlessIsExact /\ InfiniteIsExact
  BY DEF Init, Told, EndlessIsExact, InfiniteIsExact
<1>6. Spent
  <2>1. Cardinality(Choices) \in Nat
    <3>1. IsFiniteSet(Items) /\ Choices \in SUBSET Items
      BY <1>1, ModuleTypes DEF Typed, Choices
    <3>2. IsFiniteSet(Choices)
      BY <3>1, FS_Subset
    <3> QED BY <3>2, FS_CardinalityType
  <2>2. (MaxDepth + 1) * (Cardinality(Choices) + 1) \in Nat
    BY <2>1, RecursionAssumption
  <2>3. StackBounded
    BY <2>2 DEF Init, StackBounded
  <2> QED BY <2>3 DEF Init, Spent
<1> QED BY <1>1, <1>3, <1>4, <1>5, <1>6 DEF IInv

LEMMA TurnKeeps == IInv /\ Turn => IInv'
<1> SUFFICES ASSUME IInv, Turn PROVE IInv'
  OBVIOUS
<1> DEFINE add == ~set[i] /\ Holds(i, set)
<1>1. /\ Typed /\ Pass /\ Found /\ Told /\ Spent /\ EndlessIsExact /\ InfiniteIsExact
      /\ module \in Modules
  BY DEF IInv, Typed
<1>2. /\ module' = module /\ phase' = phase /\ verdict' = verdict /\ decoding' = decoding
      /\ phase \in {"ends", "sized", "open"} /\ i \in Items
      /\ set' = [set EXCEPT ![i] = @ \/ add] /\ changed' = (changed \/ add) /\ i' = i + 1
  BY DEF Turn
<1>3. Items = 1 .. Len(module) /\ Len(module) \in Nat
  BY <1>1, ModuleTypes
<1>4. Items' = Items /\ Typed'
  <2>1. Items' = Items
    BY <1>2 DEF Items
  <2>2. add \in BOOLEAN /\ i' \in Nat \ {0}
    BY <1>1, <1>2 DEF Typed
  <2> HIDE DEF add
  <2> QED BY <1>1, <1>2, <2>1, <2>2 DEF Typed
<1>5. /\ \A j \in Items : j # i => set'[j] = set[j]
      /\ set'[i] = (set[i] \/ add)
  <2> HIDE DEF add
  <2> QED BY <1>1, <1>2 DEF Typed
<1>6. Pass'
  <2> SUFFICES ASSUME phase \in {"ends", "sized"}, ~changed', NEW j \in Items, j < i + 1, ~set'[j]
               PROVE  ~Holds(j, set)'
    BY <1>2, <1>4 DEF Pass
  <2>1. ~changed /\ ~add
    BY <1>2
  <2>2. set' = set
    <3> HIDE DEF add
    <3> QED BY <1>1, <1>2, <2>1 DEF Typed
  <2>3. ~Holds(j, set)
    <3>1. CASE j = i
      BY <2>1, <2>2, <3>1
    <3>2. CASE j # i
      <4>1. j < i
        BY <1>1, <1>3, <3>2 DEF Typed
      <4> QED BY <1>1, <2>1, <2>2, <4>1 DEF Pass
    <3> QED BY <3>1, <3>2
  <2> QED BY <1>2, <2>2, <2>3, HoldsStays
<1>7. Found'
  <2>1. ASSUME phase = "ends", ~SkippedAlone, NEW S \in SUBSET Items, Trap(S), NEW j \in S
        PROVE  ~set'[j]
    <3>1. \A k \in S : ~set[k]
      BY <1>1, <2>1 DEF Found
    <3>2. j = i => ~add
      BY <1>1, <2>1, <3>1, TrapIsNotAdded DEF Holds
    <3> QED BY <1>5, <3>1, <3>2
  <2>2. ASSUME phase = "sized", NEW S \in SUBSET Items, Inline(S), NEW j \in S
        PROVE  ~set'[j]
    <3>1. \A k \in S : ~set[k]
      BY <1>1, <2>2 DEF Found
    <3>2. j = i => ~add
      BY <2>2, <3>1, InlineIsNotAdded DEF Holds
    <3> QED BY <1>5, <3>1, <3>2
  <2> HIDE DEF add
  <2> QED BY <1>1, <1>2, <2>1, <2>2, ModuleStays DEF Found
<1>8. Told' /\ Spent' /\ EndlessIsExact' /\ InfiniteIsExact'
  BY <1>1, <1>2, ToldStays, SpentStays DEF Told
<1> QED BY <1>4, <1>6, <1>7, <1>8 DEF IInv

LEMMA AgainKeeps == IInv /\ Again => IInv'
<1> SUFFICES ASSUME IInv, Again PROVE IInv'
  OBVIOUS
<1>1. /\ Typed /\ Pass /\ Found /\ Told /\ Spent /\ EndlessIsExact /\ InfiniteIsExact
      /\ module \in Modules
  BY DEF IInv, Typed
<1>2. /\ module' = module /\ phase' = phase /\ verdict' = verdict /\ decoding' = decoding
      /\ phase \in {"ends", "sized", "open"} /\ set' = set /\ ~changed' /\ i' = 1
  BY DEF Again
<1>3. Items' = Items /\ Items = 1 .. Len(module) /\ Len(module) \in Nat
  BY <1>1, <1>2, ModuleTypes DEF Items
<1>4. Typed'
  <2>1. changed' \in BOOLEAN
    BY Zenon DEF Again
  <2> QED BY <1>1, <1>2, <1>3, <2>1 DEF Typed
<1>5. Pass'
  BY <1>2, <1>3 DEF Pass
<1>6. Found'
  BY <1>1, <1>2, <1>3, ModuleStays DEF Found
<1>7. Told' /\ Spent' /\ EndlessIsExact' /\ InfiniteIsExact'
  BY <1>1, <1>2, ToldStays, SpentStays DEF Told
<1> QED BY <1>4, <1>5, <1>6, <1>7 DEF IInv

LEMMA EndsSettledKeeps == IInv /\ EndsSettled => IInv'
<1> SUFFICES ASSUME IInv, EndsSettled PROVE IInv'
  OBVIOUS
<1>1. /\ Typed /\ Pass /\ Found /\ Told /\ Spent /\ EndlessIsExact /\ InfiniteIsExact
      /\ module \in Modules
  BY DEF IInv, Typed
<1>2. /\ module' = module /\ changed' = changed /\ decoding' = decoding
      /\ phase = "ends" /\ i \notin Items /\ ~changed
  BY DEF EndsSettled, Settled, Refuse, analysis
<1>3. Items' = Items /\ \A j \in Items : j < i
  <2>1. Items = 1 .. Len(module) /\ Len(module) \in Nat
    BY <1>1, ModuleTypes
  <2>2. i > Len(module)
    BY <1>1, <1>2, <2>1 DEF Typed
  <2> QED BY <1>1, <1>2, <2>1, <2>2 DEF Items, Typed
<1>4. Trap({j \in Items : ~set[j]})
  <2>1. \A j \in Items : ~set[j] => ~Ends(j, set)
    BY <1>1, <1>2, <1>3 DEF Pass, Holds
  <2> QED BY <1>1, <2>1, RestIsTrap
<1>5. CASE \A j \in Items : set[j]
  <2>1. /\ phase' = "sized" /\ set' = NoSet /\ i' = 1 /\ verdict' = verdict
    BY <1>5 DEF EndsSettled
  <2>2. ~Endless \/ SkippedAlone
    <3> SUFFICES ASSUME NEW S \in SUBSET Items, Trap(S), ~SkippedAlone PROVE S = {}
      BY DEF Endless
    <3> QED BY <1>1, <1>2, <1>5 DEF Found
  <2>3. Typed'
    <3>1. set' \in [Items -> BOOLEAN]
      BY <2>1, Zenon DEF NoSet
    <3> QED BY <1>1, <1>2, <1>3, <2>1, <3>1 DEF Typed
  <2>4. Pass'
    <3>1. Items = 1 .. Len(module) /\ Len(module) \in Nat
      BY <1>1, ModuleTypes
    <3> QED BY <1>3, <2>1, <3>1 DEF Pass
  <2>5. Found'
    <3>1. \A j \in Items : ~set'[j]
      BY <2>1 DEF NoSet
    <3> QED BY <1>2, <1>3, <2>1, <2>2, <3>1, ModuleStays DEF Found
  <2>6. Told' /\ Spent' /\ EndlessIsExact' /\ InfiniteIsExact'
    BY <1>1, <1>2, <2>1, ToldStays, SpentStays DEF Told
  <2> QED BY <2>3, <2>4, <2>5, <2>6 DEF IInv
<1>6. CASE ~(\A j \in Items : set[j])
  <2>1. verdict' = "endless" /\ phase' = "done" /\ set' = set /\ i' = i
    BY <1>6 DEF EndsSettled, Refuse, analysis
  <2>2. Endless
    <3> DEFINE S == {j \in Items : ~set[j]}
    <3>1. S \in SUBSET Items /\ S # {}
      BY <1>6
    <3> HIDE DEF S
    <3> QED BY <1>4, <3>1 DEF Endless, S
  <2>3. EndlessIsExact' /\ InfiniteIsExact'
    BY <1>2, <2>1, <2>2, ModuleStays DEF EndlessIsExact, InfiniteIsExact
  <2>4. Typed' /\ Pass' /\ Found' /\ Told'
    BY <1>1, <1>2, <1>3, <2>1 DEF Typed, Pass, Found, Told
  <2>5. Spent'
    BY <1>1, <1>2, <2>1, SpentStays
  <2> QED BY <2>3, <2>4, <2>5 DEF IInv
<1> QED BY <1>5, <1>6

LEMMA SizedSettledKeeps == IInv /\ SizedSettled => IInv'
<1> SUFFICES ASSUME IInv, SizedSettled PROVE IInv'
  OBVIOUS
<1>1. /\ Typed /\ Pass /\ Found /\ Told /\ Spent /\ EndlessIsExact /\ InfiniteIsExact
      /\ module \in Modules
  BY DEF IInv, Typed
<1>2. /\ module' = module /\ changed' = changed /\ decoding' = decoding /\ set' = set
      /\ phase = "sized" /\ i \notin Items /\ ~changed
  BY DEF SizedSettled, Settled, Refuse, analysis
<1>3. Items' = Items /\ \A j \in Items : j < i
  <2>1. Items = 1 .. Len(module) /\ Len(module) \in Nat
    BY <1>1, ModuleTypes
  <2>2. i > Len(module)
    BY <1>1, <1>2, <2>1 DEF Typed
  <2> QED BY <1>1, <1>2, <2>1, <2>2 DEF Items, Typed
<1>4. Inline({j \in Items : ~set[j]})
  <2>1. \A j \in Items : ~set[j] => ~Sized(j, set)
    BY <1>1, <1>2, <1>3 DEF Pass, Holds
  <2> QED BY <1>1, <2>1, RestIsInline
<1>5. ~Endless \/ SkippedAlone
  BY <1>1, <1>2 DEF Found
<1>6. CASE \A j \in Items : set[j]
  <2>1. phase' = "reach" /\ i' = 1 /\ verdict' = verdict
    BY <1>6 DEF SizedSettled
  <2>2. ~Infinite
    <3> SUFFICES ASSUME NEW S \in SUBSET Items, Inline(S) PROVE S = {}
      BY DEF Infinite
    <3> QED BY <1>1, <1>2, <1>6 DEF Found
  <2>3. Typed' /\ Pass'
    BY <1>1, <1>2, <1>3, <2>1 DEF Typed, Pass
  <2>4. Found'
    BY <1>2, <1>5, <2>1, <2>2, ModuleStays DEF Found
  <2>5. Told' /\ Spent' /\ EndlessIsExact' /\ InfiniteIsExact'
    BY <1>1, <1>2, <2>1, ToldStays, SpentStays DEF Told
  <2> QED BY <2>3, <2>4, <2>5 DEF IInv
<1>7. CASE ~(\A j \in Items : set[j])
  <2>1. verdict' = "infinite" /\ phase' = "done" /\ i' = i
    BY <1>7 DEF SizedSettled, Refuse, analysis
  <2>2. Infinite
    <3> DEFINE S == {j \in Items : ~set[j]}
    <3>1. S \in SUBSET Items /\ S # {}
      BY <1>7
    <3> HIDE DEF S
    <3> QED BY <1>4, <3>1 DEF Infinite, S
  <2>3. EndlessIsExact' /\ InfiniteIsExact'
    BY <1>2, <1>5, <2>1, <2>2, ModuleStays DEF EndlessIsExact, InfiniteIsExact
  <2>4. Typed' /\ Pass' /\ Found' /\ Told'
    BY <1>1, <1>2, <1>3, <2>1 DEF Typed, Pass, Found, Told
  <2>5. Spent'
    BY <1>1, <1>2, <2>1, SpentStays
  <2> QED BY <2>3, <2>4, <2>5 DEF IInv
<1> QED BY <1>6, <1>7

(* Between the fixpoints and the decoder neither question is asked again,  *)
(* and whatever the verdict comes to be, their answers stand.              *)
LEMMA LaterKeeps ==
    ASSUME IInv, Reach \/ Reached \/ OpenSettled \/ Lower \/ Compile
    PROVE  IInv'
<1>1. /\ Typed /\ Pass /\ Found /\ Told /\ Spent /\ module \in Modules
      /\ Items = 1 .. Len(module) /\ Len(module) \in Nat
  BY ModuleTypes DEF IInv, Typed
<1> DEFINE Verdicts == {"none", "accepted", "undeclared", "invalid", "refused", "circular", "unbounded"}
           Course == /\ phase \in {"reach", "open", "lower"}
                     /\ phase' \in {"reach", "open", "lower", "ready", "done"}
                     /\ verdict' = verdict \/ verdict' \in Verdicts
                     /\ phase' # "done" => verdict' = verdict \/ verdict' = "accepted"
           Places == /\ module' = module /\ decoding' = decoding /\ changed' = changed
                     /\ i' \in {1, i, i + 1}
                     /\ set' = set \/ set' = NoSet
<1>2. Course /\ Places
  <2>1. CASE Reach
    BY <2>1 DEF Reach
  <2>2. CASE Reached
    BY <2>2 DEF Reached, Refuse, analysis
  <2>3. CASE OpenSettled
    BY <2>3 DEF OpenSettled, Settled
  <2>4. CASE Lower
    BY <2>4 DEF Lower, Refuse, analysis
  <2>5. CASE Compile
    BY <2>5 DEF Compile, Refuse, analysis
  <2> QED BY <2>1, <2>2, <2>3, <2>4, <2>5
<1>3. Typed'
  <2>1. NoSet \in [Items -> BOOLEAN]
    BY Zenon DEF NoSet
  <2>2. Items' = Items
    BY <1>2 DEF Items
  <2> QED BY <1>1, <1>2, <2>1, <2>2 DEF Typed
<1>4. (~Endless \/ SkippedAlone) /\ ~Infinite
  BY <1>1, <1>2 DEF Found
<1>5. Found' /\ Pass'
  BY <1>1, <1>2, FoundStays
<1>6. Told' /\ EndlessIsExact' /\ InfiniteIsExact'
  <2>1. verdict' \in Verdicts /\ (phase' # "done" => verdict' \in {"none", "accepted"})
    BY <1>1, <1>2 DEF Told
  <2> QED BY <1>2, <1>4, <2>1, ModuleStays DEF Told, EndlessIsExact, InfiniteIsExact
<1>7. Spent'
  BY <1>1, <1>2, SpentStays
<1> QED BY <1>3, <1>5, <1>6, <1>7 DEF IInv

----------------------------------------------------------------------------
(* The decoder.                                                            *)
LEMMA DecodingKeeps ==
    ASSUME IInv, module' = module, analysis' = analysis, Spent',
           phase \in {"ready", "decode"}, phase' \in {"decode", "done"},
           verdict' = verdict \/ (phase' = "done" /\ verdict' = "too_deep")
    PROVE  IInv'
<1>1. /\ Typed /\ Found /\ Told /\ EndlessIsExact /\ InfiniteIsExact
  BY DEF IInv
<1>2. Typed'
  BY <1>1 DEF Typed, analysis, Items
<1>3. Found' /\ Pass'
  BY <1>1, FoundStays
<1>4. (~Endless \/ SkippedAlone) /\ ~Infinite
  BY <1>1 DEF Found
<1>5. Told' /\ EndlessIsExact' /\ InfiniteIsExact'
  <2>1. verdict' \in {"none", "accepted", "too_deep"} /\ (phase' # "done" => verdict' = verdict)
    BY <1>1 DEF Told
  <2> QED BY <1>1, <1>4, <2>1, ModuleStays DEF Told, EndlessIsExact, InfiniteIsExact
<1> QED BY <1>2, <1>3, <1>5 DEF IInv

LEMMA DecodeKeeps == ASSUME IInv, NEW j \in Items, Decode(j) PROVE IInv'
<1>1. /\ Spent /\ module \in Modules
      /\ module' = module /\ analysis' = analysis /\ verdict' = verdict
      /\ phase = "ready" /\ phase' = "decode" /\ at' = j /\ depth' = 0 /\ calls' = 1
  BY DEF IInv, Typed, Decode
<1>2. Rank(j) \in Nat /\ Level \in Nat /\ Rank(j) < Level
  BY <1>1, RankTypes
<1>3. (MaxDepth + 1) * Level \in Nat
  BY <1>2, RecursionAssumption
<1>4. Rank(at)' = Rank(j) /\ Level' = Level /\ Items' = Items /\ Choices' = Choices
  BY <1>1, ModuleStays
<1>5. StackBounded'
  BY <1>1, <1>3, <1>4 DEF StackBounded, Level
<1>6. calls' + Rank(at)' <= (depth' + 1) * Level'
  BY <1>1, <1>2, <1>4
<1>7. Spent'
  BY <1>1, <1>4, <1>5, <1>6, RecursionAssumption DEF Spent
<1> QED BY <1>1, <1>7, DecodingKeeps

(* A switch uses up one of the choices under the item, any other reference *)
(* one of the depths.                                                      *)
LEMMA EnterKeeps == IInv /\ Enter => IInv'
<1> SUFFICES ASSUME IInv, Enter PROVE IInv'
  OBVIOUS
<1>1. /\ Spent /\ Found /\ module \in Modules
      /\ module' = module /\ analysis' = analysis /\ verdict' = verdict
      /\ phase = "decode" /\ phase' = "decode" /\ ~(depth > MaxDepth) /\ calls' = calls + 1
  BY DEF IInv, Typed, Enter
<1>2. /\ at \in Items /\ depth \in 0 .. MaxDepth /\ calls \in Nat
      /\ calls + Rank(at) <= (depth + 1) * Level
  BY <1>1, RecursionAssumption DEF Spent
<1>3. PICK b \in Bodies(module[at]) : \E s \in References(b) :
        Declared(s) /\ at' = s.to /\ depth' = DepthOf(s)
  BY DEF Enter
<1>4. PICK s \in References(b) : Declared(s) /\ at' = s.to /\ depth' = DepthOf(s)
  BY <1>3
<1>5. at' \in Items
  BY <1>4 DEF Declared
<1>6. /\ Rank(at) \in Nat /\ Rank(at') \in Nat /\ Level \in Nat
      /\ Rank(at') < Level
  BY <1>1, <1>2, <1>5, RankTypes
<1>7. calls + 1 + Rank(at') <= (depth' + 1) * Level /\ depth' \in 0 .. MaxDepth + 1
  <2>1. CASE s.kind = "switch"
    <3>1. s.to \in Switches(at)
      BY <1>4, <2>1 DEF Switches, Declared
    <3>2. Rank(at') < Rank(at)
      BY <1>1, <1>2, <1>4, <3>1, UnderShrinks DEF Found
    <3>3. depth' = depth
      BY <1>4, <2>1 DEF DepthOf
    <3>4. (depth + 1) * Level \in Nat
      BY <1>2, <1>6
    <3> QED BY <1>2, <1>6, <3>2, <3>3, <3>4, RecursionAssumption
  <2>2. CASE s.kind # "switch"
    <3>1. depth' = depth + 1
      BY <1>4, <2>2 DEF DepthOf
    <3>2. (depth + 2) * Level = (depth + 1) * Level + Level /\ (depth + 1) * Level \in Nat
      BY <1>2, <1>6
    <3>3. calls + 1 + Rank(at') <= (depth + 1) * Level + Level
      BY <1>2, <1>6, <3>2
    <3> QED BY <1>2, <3>1, <3>2, <3>3, RecursionAssumption
  <2> QED BY <2>1, <2>2
<1>8. StackBounded'
  <2>1. (depth + 1) * Level <= (MaxDepth + 1) * Level
    BY <1>2, <1>6, RecursionAssumption
  <2>2. (depth + 1) * Level \in Nat /\ (MaxDepth + 1) * Level \in Nat
    BY <1>2, <1>6, RecursionAssumption
  <2>3. calls + 1 <= (MaxDepth + 1) * Level + 1
    BY <1>2, <1>6, <2>1, <2>2
  <2> QED BY <1>1, <2>3, ModuleStays DEF StackBounded, Level
<1>9. Spent'
  <2>1. Items' = Items /\ Level' = Level /\ Rank(at)' = Rank(at')
    BY <1>1, ModuleStays
  <2> QED BY <1>1, <1>2, <1>5, <1>7, <1>8, <2>1 DEF Spent
<1> QED BY <1>1, <1>9, DecodingKeeps

LEMMA StoppingKeeps == IInv /\ (TooDeep \/ Leave) => IInv'
<1> SUFFICES ASSUME IInv, TooDeep \/ Leave PROVE IInv'
  OBVIOUS
<1>1. /\ Spent /\ module' = module /\ analysis' = analysis /\ decoding' = decoding
      /\ phase = "decode" /\ phase' = "done" /\ verdict' \in {verdict, "too_deep"}
  BY DEF IInv, TooDeep, Leave
<1>2. Spent'
  BY <1>1, ModuleStays DEF Spent, StackBounded, decoding
<1> QED BY <1>1, <1>2, DecodingKeeps

LEMMA StutterKeeps == IInv /\ UNCHANGED vars => IInv'
<1> SUFFICES ASSUME IInv, UNCHANGED vars PROVE IInv'
  OBVIOUS
<1>1. /\ Typed /\ Pass /\ Found /\ Told /\ Spent /\ EndlessIsExact /\ InfiniteIsExact
  BY DEF IInv
<1>2. /\ module' = module /\ phase' = phase /\ verdict' = verdict /\ decoding' = decoding
      /\ set' = set /\ i' = i /\ changed' = changed
  BY DEF vars, analysis
<1>3. Typed' /\ Pass'
  BY <1>1, <1>2, HoldsStays DEF Typed, Pass, Items
<1>4. Found'
  BY <1>1, <1>2, ModuleStays DEF Found
<1>5. Told' /\ Spent' /\ EndlessIsExact' /\ InfiniteIsExact'
  BY <1>1, <1>2, ModuleStays, ToldStays DEF Told, Spent, StackBounded, decoding
<1> QED BY <1>3, <1>4, <1>5 DEF IInv

----------------------------------------------------------------------------
LEMMA InvariantHolds == Spec => []IInv
<1>1. IInv /\ [Next]_vars => IInv'
  <2> SUFFICES ASSUME IInv, [Next]_vars PROVE IInv'
    OBVIOUS
  <2>1. CASE Turn
    BY <2>1, TurnKeeps
  <2>2. CASE Again
    BY <2>2, AgainKeeps
  <2>3. CASE EndsSettled
    BY <2>3, EndsSettledKeeps
  <2>4. CASE SizedSettled
    BY <2>4, SizedSettledKeeps
  <2>5. CASE Reach \/ Reached \/ OpenSettled \/ Lower \/ Compile
    BY <2>5, LaterKeeps
  <2>6. CASE \E j \in Items : Decode(j)
    BY <2>6, DecodeKeeps
  <2>7. CASE Enter
    BY <2>7, EnterKeeps
  <2>8. CASE TooDeep \/ Leave
    BY <2>8, StoppingKeeps
  <2>9. CASE UNCHANGED vars
    BY <2>9, StutterKeeps
  <2> QED BY <2>1, <2>2, <2>3, <2>4, <2>5, <2>6, <2>7, <2>8, <2>9 DEF Next
<1> QED BY <1>1, InitKeeps, PTL DEF Spec

(* graph.rs `recursion' calls a module endless exactly when some of its    *)
(* items have no finite wire, but for references skipped one at a time:    *)
(* of any number of items, declared in any order.                          *)
THEOREM EndlessDecided == Spec => []EndlessIsExact
<1>1. IInv => EndlessIsExact
  BY DEF IInv
<1> QED BY <1>1, InvariantHolds, PTL

(* graph.rs `recursion' refuses a module for the size of its types exactly *)
(* when some of them contain one another inline.                           *)
THEOREM InfiniteDecided == Spec => []InfiniteIsExact
<1>1. IInv => InfiniteIsExact
  BY DEF IInv
<1> QED BY <1>1, InvariantHolds, PTL

(* However the choices of an accepted module nest, the calls open at once  *)
(* are bounded by the depth the decoder counts: switches, which hand the   *)
(* depth on uncounted, cannot follow one another for ever.                 *)
THEOREM StackIsBounded == Spec => []StackBounded
<1>1. IInv => StackBounded
  BY DEF IInv, Spent
<1> QED BY <1>1, InvariantHolds, PTL

----------------------------------------------------------------------------
(***************************************************************************)
(* The constants OPEN_ENDED of an accepted module say which items read to  *)
(* the end of their body.                                                  *)
(*                                                                         *)
(* The items that read to the end are a least set (ReadingToEnd), and so   *)
(* are those the fixpoint of open_end_cycles adds and those whose constant *)
(* comes out true.  What the loops add is in every closed set; and what is *)
(* left out when a pass adds nothing is left out of some closed set.  The  *)
(* literals hold on the cycles alone, so the closure of `reaches' has to   *)
(* be transitive (Through): then all that a cycle waits for was looked at, *)
(* and constants that wait for one another would be one cycle.             *)
(***************************************************************************)

(* What reads to the end if the items of S do.                             *)
ReadsWith(S, m) ==
    TakesRest(module[m]) \/ \E b \in Bodies(module[m]) : EndsWithin(b, S)

(* A path by way of an item below k is a step.                             *)
Through(k) ==
    \A m \in Items : m < k =>
        \A a, b \in Items : <<a, m>> \in reaches /\ <<m, b>> \in reaches => <<a, b>> \in reaches

Transitive ==
    \A a, m, b \in Items : <<a, m>> \in reaches /\ <<m, b>> \in reaches => <<a, b>> \in reaches

(* An item on a cycle, or one that a cycle's end waits for.                *)
Awaited(m) == \E j \in Cyclic : m = j \/ <<j, m>> \in reaches

Sound == \A j \in Items : set[j] => j \in ReadingToEnd

Complete == \A j \in Items : ~set[j] => ~Opens(j, set)

LiteralsRight == Cyclic = {} \/ (~Undeclared /\ Sound /\ Complete)

Lowered(j) == emitted[j] = Terms(j) /\ ~Invalid(j)

Reaching ==
    /\ reaches \subseteq Items \X Items
    /\ phase = "reach" => Direct \subseteq reaches /\ Through(i)
    /\ phase \in {"open", "lower"} => Direct \subseteq reaches /\ Transitive

Opening ==
    phase = "open" =>
        /\ ~Undeclared /\ Sound
        /\ ~changed => \A j \in Items : j < i /\ ~set[j] => ~Opens(j, set)

Lowering ==
    /\ emitted = [j \in Items |-> emitted[j]]
    /\ phase = "lower" =>
        /\ LiteralsRight
        /\ \A j \in Items : j < i => Lowered(j)

Early ==
    phase \in {"ends", "sized", "reach", "open", "lower"} => verdict = "none"

OpenInv == Early /\ Reaching /\ Opening /\ Lowering /\ ConstantsResolve /\ OpenEndedIsExact

----------------------------------------------------------------------------
LEMMA NatLeast ==
    ASSUME NEW T \in SUBSET Nat, T # {}
    PROVE  \E x \in T : \A y \in T : x <= y
<1> DEFINE R == OpToRel(<, Nat)
<1>1. IsWellFoundedOn(R, Nat)
  BY NatLessThanWellFounded
<1>2. PICK x \in T : \A y \in T : <<y, x>> \notin R
  <2> HIDE DEF R
  <2> QED BY <1>1, WFMin
<1>3. \A y \in T : ~(y < x)
  BY <1>2 DEF OpToRel
<1>4. \A y \in T : x <= y
  <2> HIDE DEF R
  <2> QED BY <1>3
<1> QED BY <1>4

LEMMA TermsDiffer ==
    /\ \A x, t : t = <<"literal", x>> => t[1] = "literal" /\ t[1] # "constant"
    /\ <<"literal", TRUE>> # <<"literal", FALSE>>
OBVIOUS

(* The last segment of a body.                                             *)
LEMMA LastTypes ==
    ASSUME module \in Modules, NEW j \in Items, NEW b \in Bodies(module[j]), b # << >>
    PROVE  /\ Last(b) \in Segments
           /\ Refers(Last(b)) => Last(b) \in References(b)
           /\ Last(b).to \in Items => Declared(Last(b))
<1>1. PICK k \in DOMAIN module[j].bodies : b = module[j].bodies[k]
  BY DEF Bodies
<1>2. b \in Seq(Segments)
  BY <1>1, ModuleTypes
<1>3. Len(b) \in DOMAIN b
  BY <1>2
<1>4. Resolved(module, Last(b))
  BY <1>1, <1>3, RecursionAssumption DEF Last, Items
<1> QED BY <1>2, <1>3, <1>4 DEF Last, References, Resolved, Declared, Items

----------------------------------------------------------------------------
(* The items that read to the end.                                         *)

LEMMA EndsWithinGrows ==
    ASSUME NEW b, NEW S, NEW T, S \subseteq T, EndsWithin(b, S)
    PROVE  EndsWithin(b, T)
BY DEF EndsWithin

LEMMA ReadingIsLeast ==
    ASSUME NEW S \in SUBSET Items, \A m \in Items : ReadsWith(S, m) => m \in S
    PROVE  ReadingToEnd \subseteq S
BY DEF ReadingToEnd, ReadsWith

LEMMA ReadingIsClosed ==
    ASSUME NEW m \in Items, ReadsWith(ReadingToEnd, m)
    PROVE  m \in ReadingToEnd
<1> SUFFICES ASSUME NEW S \in SUBSET Items,
                    \A n \in Items : TakesRest(module[n])
                        \/ (\E b \in Bodies(module[n]) : EndsWithin(b, S)) => n \in S
             PROVE  m \in S
  BY DEF ReadingToEnd
<1>1. ReadingToEnd \subseteq S
  BY ReadingIsLeast DEF ReadsWith
<1>2. ReadsWith(S, m)
  BY <1>1, EndsWithinGrows DEF ReadsWith
<1> QED BY <1>2 DEF ReadsWith

LEMMA ReadingTypes == ReadingToEnd \subseteq Items
BY DEF ReadingToEnd

(* An item the fixpoint adds reads to the end.                             *)
LEMMA AddedReads ==
    ASSUME Sound, NEW k \in Items, Opens(k, set)
    PROVE  k \in ReadingToEnd
<1>1. CASE KnownOpen(module[k])
  <2>1. ReadsWith(ReadingToEnd, k)
    BY <1>1 DEF KnownOpen, OpenEnded, ReadsWith, EndsWithin
  <2> QED BY <2>1, ReadingIsClosed
<1>2. CASE \E r \in Deferring(module[k]) : Declared(r) /\ set[r.to]
  <2>1. PICK r \in Deferring(module[k]) : Declared(r) /\ set[r.to]
    BY <1>2
  <2>2. PICK b \in Bodies(module[k]) : DefersOpenEnd(b) /\ r = Last(b)
    BY <2>1 DEF Deferring
  <2>3. r.to \in ReadingToEnd
    BY <2>1 DEF Sound, Declared
  <2>4. EndsWithin(b, ReadingToEnd)
    BY <2>2, <2>3 DEF EndsWithin, DefersOpenEnd
  <2> QED BY <2>4, ReadingIsClosed DEF ReadsWith
<1> QED BY <1>1, <1>2 DEF Opens

----------------------------------------------------------------------------
(* The closure.                                                            *)

LEMMA ThroughNext ==
    ASSUME module \in Modules, reaches \subseteq Items \X Items, Through(i), Reach, i \in Nat
    PROVE  Through(i)' /\ reaches' \subseteq Items \X Items /\ reaches \subseteq reaches'
<1>1. /\ module' = module /\ Items' = Items /\ i' = i + 1 /\ i \in Items
      /\ reaches' = reaches \cup {e \in Items \X Items :
                                    <<e[1], i>> \in reaches /\ <<i, e[2]>> \in reaches}
  BY DEF Reach, Items
<1>2. \A a, b \in Items :
        <<a, b>> \in reaches' <=>
            <<a, b>> \in reaches \/ (<<a, i>> \in reaches /\ <<i, b>> \in reaches)
  BY <1>1
<1>3. ASSUME NEW m \in Items, m < i + 1, NEW a \in Items, NEW b \in Items,
             <<a, m>> \in reaches', <<m, b>> \in reaches'
      PROVE  <<a, b>> \in reaches'
  <2>1. CASE m = i
    <3>1. <<a, i>> \in reaches /\ <<i, b>> \in reaches
      BY <1>1, <1>2, <1>3, <2>1
    <3> QED BY <1>2, <3>1
  <2>2. CASE m # i
    <3>1. m < i
      <4>1. m \in Nat
        BY ModuleTypes
      <4> QED BY <1>3, <2>2, <4>1
    <3>2. \A x, y \in Items : <<x, m>> \in reaches /\ <<m, y>> \in reaches => <<x, y>> \in reaches
      BY <3>1 DEF Through
    <3>3. <<a, m>> \in reaches \/ (<<a, i>> \in reaches /\ <<i, m>> \in reaches)
      BY <1>2, <1>3
    <3>4. <<m, b>> \in reaches \/ (<<m, i>> \in reaches /\ <<i, b>> \in reaches)
      BY <1>2, <1>3
    <3> HIDE DEF Reach
    <3>5. CASE <<a, m>> \in reaches /\ <<m, b>> \in reaches
      BY <1>2, <3>2, <3>5
    <3>6. CASE <<a, m>> \in reaches /\ <<m, i>> \in reaches /\ <<i, b>> \in reaches
      <4>1. <<a, i>> \in reaches
        BY <1>1, <3>2, <3>6
      <4> QED BY <1>2, <3>6, <4>1
    <3>7. CASE <<a, i>> \in reaches /\ <<i, m>> \in reaches /\ <<m, b>> \in reaches
      <4>1. <<i, b>> \in reaches
        BY <1>1, <3>2, <3>7
      <4> QED BY <1>2, <3>7, <4>1
    <3>8. CASE <<a, i>> \in reaches /\ <<i, b>> \in reaches
      BY <1>2, <3>8
    <3> QED BY <3>3, <3>4, <3>5, <3>6, <3>7, <3>8
  <2> QED BY <2>1, <2>2
<1>4. Items' = Items /\ i' = i + 1
  BY <1>1
<1>5. Through(i)'
  BY <1>3, <1>4 DEF Through
<1> QED BY <1>1, <1>5

LEMMA ThroughAll ==
    ASSUME module \in Modules, Through(i), i \in Nat \ {0}, i \notin Items
    PROVE  Transitive
<1>1. \A m \in Items : m < i
  BY ModuleTypes
<1> QED BY <1>1 DEF Through, Transitive

----------------------------------------------------------------------------
(* The literals are found for all that the end of a cycle waits for.       *)
LEMMA AwaitedIsSet ==
    ASSUME module \in Modules, Direct \subseteq reaches, Transitive, LiteralsRight, ~EndOverlooked,
           NEW n \in ReadingToEnd, Awaited(n)
    PROVE  set[n]
<1>1. ~Undeclared /\ Complete
  BY DEF LiteralsRight, Awaited
<1> DEFINE S == {m \in ReadingToEnd : Awaited(m) => set[m]}
<1>2. ASSUME NEW m \in Items, ReadsWith(S, m) PROVE m \in S
  <2>1. m \in ReadingToEnd
    <3>1. S \subseteq ReadingToEnd
      OBVIOUS
    <3>2. ReadsWith(ReadingToEnd, m)
      BY <1>2, <3>1, EndsWithinGrows DEF ReadsWith
    <3> QED BY <3>2, ReadingIsClosed
  <2> SUFFICES ASSUME Awaited(m) PROVE set[m]
    BY <2>1
  <2>2. PICK j \in Cyclic : m = j \/ <<j, m>> \in reaches
    BY DEF Awaited
  <2>3. j \in Items
    BY DEF Cyclic
  <2> SUFFICES Opens(m, set)
    BY <1>1 DEF Complete
  <2>4. CASE TakesRest(module[m])
    BY <2>4 DEF Opens, KnownOpen
  <2>5. CASE ~TakesRest(module[m])
    <3>1. PICK b \in Bodies(module[m]) : EndsWithin(b, S)
      BY <1>2, <2>5 DEF ReadsWith
    <3>2. b # << >>
      BY <3>1 DEF EndsWithin
    <3>3. CASE Last(b).kind = "fill"
      BY <3>2, <3>3 DEF Opens, KnownOpen, OpenEnded
    <3>4. CASE Last(b).kind # "fill"
      <4>1. /\ Last(b).kind \in {"value", "opt", "placed", "switch"} /\ Last(b).how # "window"
            /\ Last(b).to \in S \cup {-1}
        BY <3>1, <3>4 DEF EndsWithin
      <4>2. Last(b).kind # "placed"
        <5>1. ~Overlooked(m)
          BY <2>2 DEF EndOverlooked
        <5>2. Last(b).to \in ReadingToEnd \cup {-1}
          BY <4>1
        <5> HIDE DEF S
        <5> QED BY <2>5, <3>2, <5>1, <5>2 DEF Overlooked
      <4>3. Last(b) \in Deferring(module[m])
        BY <2>5, <3>2, <4>1, <4>2 DEF Deferring, DefersOpenEnd
      <4>4. Declared(Last(b))
        BY <1>1, <2>2, <4>3 DEF Undeclared
      <4>5. Last(b).to \in Items /\ Last(b).to \in S
        <5>1. -1 \notin Items
          BY ModuleTypes
        <5> QED BY <4>1, <4>4, <5>1 DEF Declared
      <4>6. <<m, Last(b).to>> \in reaches
        BY <4>3, <4>4, <4>5 DEF Direct
      <4>7. Awaited(Last(b).to)
        <5>1. <<j, Last(b).to>> \in reaches
          BY <2>2, <2>3, <4>5, <4>6 DEF Transitive
        <5> QED BY <5>1 DEF Awaited
      <4>8. set[Last(b).to]
        BY <4>5, <4>7
      <4> QED BY <4>3, <4>4, <4>8 DEF Opens
    <3> QED BY <3>3, <3>4
  <2> QED BY <2>4, <2>5
<1>3. ReadingToEnd \subseteq S
  <2>1. S \in SUBSET Items
    BY ReadingTypes
  <2> HIDE DEF S
  <2> QED BY <1>2, <2>1, ReadingIsLeast
<1> QED BY <1>3

LEMMA MembersAreAwaited ==
    ASSUME Transitive, NEW j \in Items, NEW m \in Members(j)
    PROVE  m \in Cyclic /\ Awaited(m)
BY DEF Members, Transitive, Cyclic, Awaited

(* A constant that comes out true, or a literal, is of what reads to the   *)
(* end.                                                                    *)
LEMMA ConstantsSound ==
    ASSUME module \in Modules, Transitive, LiteralsRight, \A j \in Items : emitted[j] = Terms(j)
    PROVE  ConstantTrue \subseteq ReadingToEnd
<1>1. Closed(ReadingToEnd)
  <2> SUFFICES ASSUME NEW j \in Items,
                      \/ <<"literal", TRUE>> \in emitted[j]
                      \/ Mentions(j) \cap (ReadingToEnd \cup {-1}) # {}
               PROVE  j \in ReadingToEnd
    BY DEF Closed
  <2>1. CASE TakesRest(module[j])
    BY <2>1, ReadingIsClosed DEF ReadsWith
  <2>2. CASE ~TakesRest(module[j])
    <3>1. PICK t : t \in Terms(j) /\ (t = <<"literal", TRUE>> \/ (t[1] = "constant" /\ t[2] \in ReadingToEnd \cup {-1}))
      BY DEF Mentions
    <3>2. t # <<"literal", FALSE>>
      BY <3>1, TermsDiffer
    <3>3. t \in {OpenEndedExpr(j, b) : b \in Bodies(module[j])}
      BY <2>2, <3>1, <3>2 DEF Terms
    <3>4. PICK b \in Bodies(module[j]) : t = OpenEndedExpr(j, b)
      BY <3>3
    <3>5. b # << >>
      BY <3>2, <3>4 DEF OpenEndedExpr
    <3>6. CASE ~(Last(b).kind \in {"value", "opt", "placed", "switch"} /\ Last(b).how # "window")
      <4>1. t = <<"literal", OpenEnded(Last(b))>>
        BY <3>4, <3>5, <3>6 DEF OpenEndedExpr
      <4>2. OpenEnded(Last(b))
        BY <3>1, <4>1
      <4>3. EndsWithin(b, ReadingToEnd)
        BY <3>5, <4>2 DEF OpenEnded, EndsWithin
      <4> QED BY <4>3, ReadingIsClosed DEF ReadsWith
    <3>7. CASE Last(b).kind \in {"value", "opt", "placed", "switch"} /\ Last(b).how # "window"
      <4>1. t = Forward(j, Last(b))
        BY <3>4, <3>5, <3>7 DEF OpenEndedExpr
      <4>2. Last(b).to \in ReadingToEnd \cup {-1}
        <5>1. CASE Last(b).to \in Members(j)
          <6>1. t = <<"literal", set[Last(b).to]>>
            BY <4>1, <5>1 DEF Forward
          <6>2. set[Last(b).to]
            BY <3>1, <6>1
          <6>3. Sound
            BY <5>1, MembersAreAwaited DEF LiteralsRight
          <6> QED BY <5>1, <6>2, <6>3 DEF Sound, Members
        <5>2. CASE Last(b).to \notin Members(j)
          <6>1. t = <<"constant", Last(b).to>>
            BY <3>2, <4>1, <5>2 DEF Forward
          <6> QED BY <3>1, <6>1
        <5> QED BY <5>1, <5>2
      <4>3. EndsWithin(b, ReadingToEnd)
        BY <3>5, <3>7, <4>2 DEF EndsWithin
      <4> QED BY <4>3, ReadingIsClosed DEF ReadsWith
    <3> QED BY <3>6, <3>7
  <2> QED BY <2>1, <2>2
<1> QED BY <1>1, ReadingTypes DEF ConstantTrue

(* What a body's last segment makes of the item's constant.                *)
LEMMA TermsHold ==
    ASSUME NEW j \in Items, ~TakesRest(module[j]), NEW b \in Bodies(module[j]),
           OpenEndedExpr(j, b) # <<"literal", FALSE>>
    PROVE  OpenEndedExpr(j, b) \in Terms(j) \/ <<"literal", TRUE>> \in Terms(j)
BY DEF Terms

LEMMA ConstantsComplete ==
    ASSUME module \in Modules, Direct \subseteq reaches, Transitive, LiteralsRight, ~EndOverlooked,
           \A j \in Items : emitted[j] = Terms(j)
    PROVE  ReadingToEnd \subseteq ConstantTrue
<1> SUFFICES ASSUME NEW X \in SUBSET Items, Closed(X) PROVE ReadingToEnd \subseteq X
  BY ReadingTypes DEF ConstantTrue
<1> DEFINE Y == X \cap ReadingToEnd
<1>1. ASSUME NEW m \in Items, ReadsWith(Y, m) PROVE m \in Y
  <2>1. m \in ReadingToEnd
    <3>1. ReadsWith(ReadingToEnd, m)
      BY <1>1, EndsWithinGrows DEF ReadsWith
    <3> QED BY <3>1, ReadingIsClosed
  <2>2. <<"literal", TRUE>> \in Terms(m) => m \in X
    BY DEF Closed
  <2>3. CASE TakesRest(module[m])
    <3>1. <<"literal", TRUE>> \in Terms(m)
      BY <2>3 DEF Terms
    <3> QED BY <2>1, <2>2, <3>1
  <2>4. CASE ~TakesRest(module[m])
    <3>1. PICK b \in Bodies(module[m]) : EndsWithin(b, Y)
      BY <1>1, <2>4 DEF ReadsWith
    <3>2. b # << >>
      BY <3>1 DEF EndsWithin
    <3>3. CASE Last(b).kind = "fill"
      <4>1. OpenEndedExpr(m, b) = <<"literal", TRUE>>
        BY <3>2, <3>3 DEF OpenEndedExpr, OpenEnded
      <4> QED BY <2>1, <2>2, <2>4, <4>1, TermsDiffer, TermsHold
    <3>4. CASE Last(b).kind # "fill"
      <4>1. /\ Last(b).kind \in {"value", "opt", "placed", "switch"} /\ Last(b).how # "window"
            /\ Last(b).to \in Y \cup {-1}
        BY <3>1, <3>4 DEF EndsWithin
      <4>2. OpenEndedExpr(m, b) = Forward(m, Last(b))
        BY <3>2, <4>1 DEF OpenEndedExpr
      <4>3. CASE Last(b).to \in Members(m)
        <5>1. Last(b).to \in ReadingToEnd
          <6>1. -1 \notin Items
            BY ModuleTypes
          <6> QED BY <4>1, <4>3, <6>1 DEF Members
        <5>2. set[Last(b).to]
          BY <4>3, <5>1, MembersAreAwaited, AwaitedIsSet
        <5>3. OpenEndedExpr(m, b) = <<"literal", set[Last(b).to]>>
          BY <4>2, <4>3 DEF Forward
        <5>4. OpenEndedExpr(m, b) = <<"literal", TRUE>>
          <6>1. set[Last(b).to] = TRUE
            BY <5>2
          <6> QED BY <5>3, <6>1
        <5> QED BY <2>1, <2>2, <2>4, <5>4, TermsDiffer, TermsHold
      <4>4. CASE Last(b).to \notin Members(m) /\ Last(b).to = m
        <5>1. m # -1
          BY ModuleTypes
        <5> QED BY <4>1, <4>4, <5>1
      <4>5. CASE Last(b).to \notin Members(m) /\ Last(b).to # m
        <5>1. OpenEndedExpr(m, b) = <<"constant", Last(b).to>>
          BY <4>2, <4>5 DEF Forward
        <5>2. OpenEndedExpr(m, b) # <<"literal", FALSE>>
          BY <5>1
        <5>3. OpenEndedExpr(m, b) \in Terms(m) => Last(b).to \in Mentions(m)
          BY <5>1 DEF Mentions
        <5>4. Last(b).to \in X \cup {-1}
          BY <4>1
        <5>5. OpenEndedExpr(m, b) \in Terms(m) => m \in X
          BY <5>3, <5>4 DEF Closed
        <5> QED BY <2>1, <2>2, <2>4, <5>2, <5>5, TermsHold
      <4> QED BY <4>3, <4>4, <4>5
    <3> QED BY <3>3, <3>4
  <2> QED BY <2>3, <2>4
<1>2. ReadingToEnd \subseteq Y
  <2> HIDE DEF Y
  <2>1. Y \in SUBSET Items
    BY DEF Y
  <2> QED BY <1>1, <2>1, ReadingIsLeast
<1> QED BY <1>2

LEMMA NothingFollows ==
    ASSUME module \in Modules, ReadingToEnd \subseteq ConstantTrue, Bounded,
           \A j \in Items : ~Invalid(j)
    PROVE  NothingFollowsTheEnd
<1> SUFFICES ASSUME NEW j \in Items, NEW b \in Bodies(module[j]), NEW n \in 1 .. (Len(b) - 1),
                    EndsWithin(SubSeq(b, 1, n), ReadingToEnd)
             PROVE  FALSE
  BY DEF NothingFollowsTheEnd
<1>1. b \in Seq(Segments)
  BY ModuleTypes DEF Bodies
<1>2. Last(SubSeq(b, 1, n)) = b[n]
  <2>1. Len(SubSeq(b, 1, n)) = n /\ SubSeq(b, 1, n)[n] = b[n]
    BY <1>1
  <2> QED BY <2>1 DEF Last
<1>3. b[n] \in Followed(b)
  BY DEF Followed
<1>4. b[n].kind # "fill"
  BY <1>3 DEF Invalid, OpenEnded
<1>5. /\ b[n].kind \in {"value", "opt", "placed", "switch"} /\ b[n].how # "window"
      /\ b[n].to \in ReadingToEnd \cup {-1}
  BY <1>2, <1>4 DEF EndsWithin
<1>6. b[n].to \in AssertedBounded(j)
  BY <1>3, <1>5 DEF AssertedBounded
<1> QED BY <1>5, <1>6 DEF Bounded

----------------------------------------------------------------------------
(* No constants wait for one another.                                      *)

Onwards(j) == {m \in Items : m = j \/ <<j, m>> \in reaches}

LEMMA ConstantsDoNotWait ==
    ASSUME module \in Modules, reaches \subseteq Items \X Items, Direct \subseteq reaches, Transitive,
           \A j \in Items : emitted[j] = Terms(j),
           \A j \in Items : \A b \in Bodies(module[j]) :
              ~(b # << >> /\ Last(b).kind = "placed" /\ Last(b).to \in Items)
    PROVE  ~Circular
<1> SUFFICES ASSUME NEW S \in SUBSET Items, S # {}, \A j \in S : Mentions(j) \cap S # {}
             PROVE  FALSE
  BY DEF Circular
<1>1. ASSUME NEW j \in S
      PROVE  \E m \in S : <<j, m>> \in reaches /\ m # j /\ <<m, j>> \notin reaches
  <2>1. PICK m \in S : m \in Mentions(j)
    OBVIOUS
  <2>2. PICK t \in Terms(j) : t[1] = "constant" /\ t[2] = m
    BY <2>1 DEF Mentions
  <2>3. t # <<"literal", TRUE>> /\ t # <<"literal", FALSE>>
    BY <2>2, TermsDiffer
  <2>4. ~TakesRest(module[j])
    BY <2>2, <2>3 DEF Terms
  <2>5. PICK b \in Bodies(module[j]) : t = OpenEndedExpr(j, b)
    BY <2>3, <2>4 DEF Terms
  <2>6. b # << >> /\ Last(b).kind \in {"value", "opt", "placed", "switch"} /\ Last(b).how # "window"
    BY <2>2, <2>5 DEF OpenEndedExpr
  <2>7. t = Forward(j, Last(b))
    BY <2>5, <2>6 DEF OpenEndedExpr
  <2>8. Last(b).to = m /\ m \notin Members(j) /\ m # j
    BY <2>2, <2>7 DEF Forward
  <2>9. Last(b).kind # "placed"
    BY <2>6, <2>8
  <2>10. Last(b) \in Deferring(module[j])
    BY <2>4, <2>6, <2>9 DEF Deferring, DefersOpenEnd
  <2>11. Declared(Last(b))
    BY <2>6, <2>8, LastTypes
  <2>12. <<j, m>> \in reaches
    BY <2>8, <2>10, <2>11 DEF Direct
  <2> QED BY <2>8, <2>12 DEF Members
<1> DEFINE Sizes == {Cardinality(Onwards(j)) : j \in S}
<1>2. \A j \in S : IsFiniteSet(Onwards(j)) /\ Cardinality(Onwards(j)) \in Nat
  <2> SUFFICES ASSUME NEW j \in S PROVE IsFiniteSet(Onwards(j)) /\ Cardinality(Onwards(j)) \in Nat
    OBVIOUS
  <2>1. IsFiniteSet(Items) /\ Onwards(j) \in SUBSET Items
    BY ModuleTypes DEF Onwards
  <2>2. IsFiniteSet(Onwards(j))
    BY <2>1, FS_Subset
  <2> QED BY <2>2, FS_CardinalityType
<1>3. PICK j \in S : \A m \in S : Cardinality(Onwards(j)) <= Cardinality(Onwards(m))
  <2>1. Sizes \in SUBSET Nat /\ Sizes # {}
    BY <1>2
  <2>2. PICK x \in Sizes : \A y \in Sizes : x <= y
    <3> HIDE DEF Sizes
    <3> QED BY <2>1, NatLeast
  <2> QED BY <2>2
<1>4. PICK m \in S : <<j, m>> \in reaches /\ m # j /\ <<m, j>> \notin reaches
  BY <1>1
<1>5. Onwards(m) \in SUBSET Onwards(j)
  BY <1>4 DEF Onwards, Transitive
<1>6. j \in Onwards(j) /\ j \notin Onwards(m)
  BY <1>4 DEF Onwards
<1>7. Cardinality(Onwards(m)) <= Cardinality(Onwards(j)) /\ Cardinality(Onwards(m)) # Cardinality(Onwards(j))
  <2>1. IsFiniteSet(Onwards(j)) /\ Onwards(m) # Onwards(j)
    BY <1>2, <1>6
  <2> QED BY <1>5, <2>1, FS_Subset
<1>8. Cardinality(Onwards(j)) <= Cardinality(Onwards(m))
  BY <1>3
<1> QED BY <1>2, <1>7, <1>8

----------------------------------------------------------------------------
(* What depends on the module alone, on the closure, on the fixpoint and   *)
(* on the generated terms.                                                 *)
LEMMA QuestionsStay ==
    ASSUME module' = module
    PROVE  /\ Items' = Items /\ ReadingToEnd' = ReadingToEnd /\ Direct' = Direct
           /\ NothingFollowsTheEnd' <=> NothingFollowsTheEnd
           /\ \A j : Invalid(j)' <=> Invalid(j)
           /\ \A j : Overlooked(j)' <=> Overlooked(j)
           /\ \A s : Declared(s)' <=> Declared(s)
<1>1. Items' = Items
  BY DEF Items
<1>2. ReadingToEnd' = ReadingToEnd
  BY <1>1 DEF ReadingToEnd
<1>3. \A s : Declared(s)' <=> Declared(s)
  BY <1>1 DEF Declared
<1>4. Direct' = Direct
  BY <1>1, <1>3 DEF Direct
<1>5. NothingFollowsTheEnd' <=> NothingFollowsTheEnd
  BY <1>1, <1>2 DEF NothingFollowsTheEnd
<1>6. \A j : Invalid(j)' <=> Invalid(j)
  BY <1>3 DEF Invalid
<1>7. \A j : Overlooked(j)' <=> Overlooked(j)
  BY <1>2 DEF Overlooked
<1> QED BY <1>1, <1>2, <1>3, <1>4, <1>5, <1>6, <1>7

LEMMA ClosureStays ==
    ASSUME module' = module, reaches' = reaches
    PROVE  /\ Cyclic' = Cyclic /\ (Undeclared' <=> Undeclared) /\ (Transitive' <=> Transitive)
           /\ EndOverlooked' <=> EndOverlooked
           /\ \A j : Members(j)' = Members(j)
<1>1. Items' = Items /\ \A s : Declared(s)' <=> Declared(s)
  BY QuestionsStay
<1>2. Cyclic' = Cyclic
  BY <1>1 DEF Cyclic
<1>3. (Undeclared' <=> Undeclared) /\ (Transitive' <=> Transitive)
  BY <1>1, <1>2 DEF Undeclared, Transitive
<1>4. EndOverlooked' <=> EndOverlooked
  BY <1>1, <1>2, QuestionsStay DEF EndOverlooked
<1>5. \A j : Members(j)' = Members(j)
  BY <1>1 DEF Members
<1> QED BY <1>2, <1>3, <1>4, <1>5

LEMMA LiteralsStay ==
    ASSUME module' = module, reaches' = reaches, set' = set
    PROVE  /\ (Sound' <=> Sound) /\ (Complete' <=> Complete) /\ (LiteralsRight' <=> LiteralsRight)
           /\ \A j : Terms(j)' = Terms(j)
           /\ \A j : Opens(j, set)' <=> Opens(j, set)
<1>1. Sound' <=> Sound
  BY QuestionsStay DEF Sound
<1>2. \A j : Opens(j, set)' <=> Opens(j, set)
  BY QuestionsStay DEF Opens
<1>3. Complete' <=> Complete
  BY <1>2, QuestionsStay DEF Complete
<1>4. LiteralsRight' <=> LiteralsRight
  BY <1>1, <1>3, ClosureStays DEF LiteralsRight
<1>5. \A j, b : OpenEndedExpr(j, b)' = OpenEndedExpr(j, b)
  BY ClosureStays DEF OpenEndedExpr, Forward
<1>6. \A j : Terms(j)' = Terms(j)
  BY <1>5 DEF Terms
<1> QED BY <1>1, <1>2, <1>3, <1>4, <1>6

(* A verdict about the constants stands while they do.                     *)
LEMMA ExactStays ==
    ASSUME ConstantsResolve, OpenEndedIsExact, module' = module,
           \/ verdict' \notin {"circular", "accepted"}
           \/ verdict' = verdict /\ reaches' = reaches /\ emitted' = emitted
    PROVE  ConstantsResolve' /\ OpenEndedIsExact'
<1>1. CASE verdict' \notin {"circular", "accepted"}
  BY <1>1 DEF ConstantsResolve, OpenEndedIsExact
<1>2. CASE verdict' = verdict /\ reaches' = reaches /\ emitted' = emitted
  <2>1. ConstantTrue' = ConstantTrue
    <3>1. \A S : Closed(S)' <=> Closed(S)
      BY <1>2, QuestionsStay DEF Closed, Mentions
    <3> QED BY <3>1, QuestionsStay DEF ConstantTrue
  <2>2. ConstantsResolve'
    BY <1>2, QuestionsStay DEF ConstantsResolve
  <2>3. OpenEndedIsExact'
    BY <1>2, <2>1, QuestionsStay, ClosureStays DEF OpenEndedIsExact
  <2> QED BY <2>2, <2>3
<1> QED BY <1>1, <1>2

----------------------------------------------------------------------------
LEMMA InitOpens == Init => OpenInv
<1> SUFFICES ASSUME Init PROVE OpenInv
  OBVIOUS
<1>1. phase = "ends" /\ verdict = "none" /\ reaches = {} /\ emitted = [j \in Items |-> {}]
  BY DEF Init
<1> QED BY <1>1 DEF OpenInv, Early, Reaching, Opening, Lowering, ConstantsResolve, OpenEndedIsExact

LEMMA TurnOpens == IInv /\ OpenInv /\ Turn => OpenInv'
<1> SUFFICES ASSUME IInv, OpenInv, Turn PROVE OpenInv'
  OBVIOUS
<1> DEFINE add == ~set[i] /\ Holds(i, set)
<1>1. /\ module \in Modules /\ set \in [Items -> BOOLEAN] /\ changed \in BOOLEAN /\ i \in Nat \ {0}
      /\ Early /\ Reaching /\ Opening /\ Lowering /\ ConstantsResolve /\ OpenEndedIsExact
  BY DEF IInv, Typed, OpenInv
<1>2. /\ module' = module /\ phase' = phase /\ verdict' = verdict /\ reaches' = reaches
      /\ emitted' = emitted /\ phase \in {"ends", "sized", "open"} /\ i \in Items
      /\ set' = [set EXCEPT ![i] = @ \/ add] /\ changed' = (changed \/ add) /\ i' = i + 1
  BY DEF Turn
<1>3. /\ \A j \in Items : j # i => set'[j] = set[j]
      /\ set'[i] = (set[i] \/ add)
  <2> HIDE DEF add
  <2> QED BY <1>1, <1>2
<1>4. Early' /\ Reaching' /\ Lowering'
  BY <1>1, <1>2, QuestionsStay, ClosureStays DEF Early, Reaching, Lowering
<1>5. Opening'
  <2> SUFFICES ASSUME phase = "open"
               PROVE  /\ ~Undeclared' /\ Sound'
                      /\ ~changed' => \A j \in Items : j < i + 1 /\ ~set'[j] => ~Opens(j, set)'
    BY <1>2, QuestionsStay DEF Opening
  <2>1. ~Undeclared /\ Sound
    BY <1>1 DEF Opening
  <2>2. add => Opens(i, set)
    BY DEF Holds
  <2>3. Sound'
    <3>1. ASSUME NEW j \in Items, set'[j] PROVE j \in ReadingToEnd
      <4>1. CASE j # i \/ set[i]
        BY <1>3, <2>1, <3>1, <4>1 DEF Sound
      <4>2. CASE j = i /\ ~set[i]
        <5>1. add
          BY <1>3, <3>1, <4>2
        <5> QED BY <1>2, <2>1, <2>2, <4>2, <5>1, AddedReads
      <4> QED BY <4>1, <4>2
    <3> QED BY <1>2, <3>1, QuestionsStay DEF Sound
  <2>4. ASSUME ~changed', NEW j \in Items, j < i + 1, ~set'[j]
        PROVE  ~Opens(j, set)'
    <3>1. ~changed /\ ~add
      BY <1>2, <2>4
    <3>2. set' = set
      <4> HIDE DEF add
      <4> QED BY <1>1, <1>2, <3>1
    <3>3. ~Opens(j, set)
      <4>1. CASE j = i
        BY <2>4, <3>1, <3>2, <4>1 DEF Holds
      <4>2. CASE j # i
        <5>1. j < i
          <6>1. j \in Nat
            BY <1>1, ModuleTypes
          <6> QED BY <1>1, <2>4, <4>2, <6>1
        <5> QED BY <1>1, <2>4, <3>1, <3>2, <5>1 DEF Opening
      <4> QED BY <4>1, <4>2
    <3> QED BY <1>2, <3>2, <3>3, LiteralsStay
  <2> QED BY <1>2, <2>1, <2>3, <2>4, ClosureStays
<1>6. ConstantsResolve' /\ OpenEndedIsExact'
  BY <1>1, <1>2, ExactStays
<1> QED BY <1>4, <1>5, <1>6 DEF OpenInv

LEMMA AgainOpens == IInv /\ OpenInv /\ Again => OpenInv'
<1> SUFFICES ASSUME IInv, OpenInv, Again PROVE OpenInv'
  OBVIOUS
<1>1. /\ module \in Modules
      /\ Early /\ Reaching /\ Opening /\ Lowering /\ ConstantsResolve /\ OpenEndedIsExact
  BY DEF IInv, Typed, OpenInv
<1>2. /\ module' = module /\ phase' = phase /\ verdict' = verdict /\ reaches' = reaches
      /\ emitted' = emitted /\ phase \in {"ends", "sized", "open"} /\ set' = set /\ i' = 1
  BY DEF Again
<1>3. Early' /\ Reaching' /\ Lowering'
  BY <1>1, <1>2, QuestionsStay, ClosureStays DEF Early, Reaching, Lowering
<1>4. Opening'
  <2>1. \A j \in Items : ~(j < 1)
    BY <1>1, ModuleTypes
  <2> QED BY <1>1, <1>2, <2>1, QuestionsStay, ClosureStays, LiteralsStay DEF Opening
<1>5. ConstantsResolve' /\ OpenEndedIsExact'
  BY <1>1, <1>2, ExactStays
<1> QED BY <1>3, <1>4, <1>5 DEF OpenInv

LEMMA SettledOpens == IInv /\ OpenInv /\ (EndsSettled \/ SizedSettled) => OpenInv'
<1> SUFFICES ASSUME IInv, OpenInv, EndsSettled \/ SizedSettled PROVE OpenInv'
  OBVIOUS
<1>1. /\ module \in Modules
      /\ Early /\ Reaching /\ Lowering /\ ConstantsResolve /\ OpenEndedIsExact
  BY DEF IInv, Typed, OpenInv
<1>2. /\ module' = module /\ emitted' = emitted /\ phase \in {"ends", "sized"}
      /\ \/ phase' = "done" /\ verdict' \in {"endless", "infinite"} /\ reaches' = reaches
         \/ phase' = "sized" /\ verdict' = verdict /\ reaches' = reaches
         \/ phase' = "reach" /\ verdict' = verdict /\ reaches' = Direct /\ i' = 1
  BY DEF EndsSettled, SizedSettled, Settled, Refuse, analysis
<1>3. Early' /\ Opening' /\ Lowering'
  BY <1>1, <1>2, QuestionsStay DEF Early, Opening, Lowering
<1>4. Reaching'
  <2>1. Direct \subseteq Items \X Items
    BY DEF Direct
  <2>2. \A m \in Items : ~(m < 1)
    BY <1>1, ModuleTypes
  <2>3. i' = 1 => Through(i)'
    BY <1>2, <2>2, QuestionsStay DEF Through
  <2> QED BY <1>1, <1>2, <2>1, <2>3, QuestionsStay DEF Reaching
<1>5. ConstantsResolve' /\ OpenEndedIsExact'
  <2>1. verdict' \notin {"circular", "accepted"}
    BY <1>1, <1>2 DEF Early
  <2> QED BY <1>1, <1>2, <2>1, ExactStays
<1> QED BY <1>3, <1>4, <1>5 DEF OpenInv

LEMMA ReachOpens == IInv /\ OpenInv /\ Reach => OpenInv'
<1> SUFFICES ASSUME IInv, OpenInv, Reach PROVE OpenInv'
  OBVIOUS
<1>1. /\ module \in Modules /\ i \in Nat
      /\ Early /\ Reaching /\ Lowering /\ ConstantsResolve /\ OpenEndedIsExact
  BY DEF IInv, Typed, OpenInv
<1>2. /\ module' = module /\ emitted' = emitted /\ phase = "reach" /\ phase' = "reach"
      /\ verdict' = verdict
  BY DEF Reach
<1>3. Early' /\ Opening' /\ Lowering'
  BY <1>1, <1>2, QuestionsStay DEF Early, Opening, Lowering
<1>4. Reaching'
  <2>1. Through(i)' /\ reaches' \subseteq Items \X Items /\ reaches \subseteq reaches'
    BY <1>1, <1>2, ThroughNext DEF Reaching
  <2> QED BY <1>1, <1>2, <2>1, QuestionsStay DEF Reaching
<1>5. ConstantsResolve' /\ OpenEndedIsExact'
  <2>1. verdict' \notin {"circular", "accepted"}
    BY <1>1, <1>2 DEF Early
  <2> QED BY <1>1, <1>2, <2>1, ExactStays
<1> QED BY <1>3, <1>4, <1>5 DEF OpenInv

LEMMA ReachedOpens == IInv /\ OpenInv /\ Reached => OpenInv'
<1> SUFFICES ASSUME IInv, OpenInv, Reached PROVE OpenInv'
  OBVIOUS
<1>1. /\ module \in Modules /\ i \in Nat \ {0}
      /\ Early /\ Reaching /\ Lowering /\ ConstantsResolve /\ OpenEndedIsExact
  BY DEF IInv, Typed, OpenInv
<1>2. /\ module' = module /\ emitted' = emitted /\ reaches' = reaches
      /\ phase = "reach" /\ i \notin Items
      /\ \/ phase' = "lower" /\ verdict' = verdict /\ i' = 1 /\ Cyclic = {}
         \/ phase' = "done" /\ verdict' = "undeclared"
         \/ phase' = "open" /\ verdict' = verdict /\ i' = 1 /\ set' = NoSet /\ ~Undeclared
  BY DEF Reached, Refuse, analysis
<1>3. Early'
  BY <1>1, <1>2 DEF Early
<1>4. Direct \subseteq reaches /\ Transitive
  BY <1>1, <1>2, ThroughAll DEF Reaching
<1>5. Reaching'
  BY <1>1, <1>2, <1>4, QuestionsStay, ClosureStays DEF Reaching
<1>6. \A j \in Items : ~(j < 1)
  BY <1>1, ModuleTypes
<1>7. Opening'
  <2> SUFFICES ASSUME phase' = "open" PROVE Opening'
    BY DEF Opening
  <2>1. ~Undeclared' /\ i' = 1 /\ \A j \in Items : ~set'[j]
    BY <1>2, ClosureStays DEF NoSet
  <2>2. Sound'
    BY <1>2, <2>1, QuestionsStay DEF Sound
  <2> QED BY <1>2, <1>6, <2>1, <2>2, QuestionsStay DEF Opening
<1>8. Lowering'
  <2>1. phase' = "lower" => LiteralsRight'
    BY <1>2, ClosureStays DEF LiteralsRight
  <2> QED BY <1>1, <1>2, <1>6, <2>1, QuestionsStay DEF Lowering
<1>9. ConstantsResolve' /\ OpenEndedIsExact'
  <2>1. verdict' \notin {"circular", "accepted"}
    BY <1>1, <1>2 DEF Early
  <2> QED BY <1>1, <1>2, <2>1, ExactStays
<1> QED BY <1>3, <1>5, <1>7, <1>8, <1>9 DEF OpenInv

LEMMA OpenSettledOpens == IInv /\ OpenInv /\ OpenSettled => OpenInv'
<1> SUFFICES ASSUME IInv, OpenInv, OpenSettled PROVE OpenInv'
  OBVIOUS
<1>1. /\ module \in Modules /\ i \in Nat \ {0}
      /\ Early /\ Reaching /\ Opening /\ Lowering /\ ConstantsResolve /\ OpenEndedIsExact
  BY DEF IInv, Typed, OpenInv
<1>2. /\ module' = module /\ emitted' = emitted /\ reaches' = reaches /\ set' = set /\ verdict' = verdict
      /\ phase = "open" /\ i \notin Items /\ ~changed /\ phase' = "lower" /\ i' = 1
  BY DEF OpenSettled, Settled
<1>3. Early' /\ Reaching' /\ Opening'
  BY <1>1, <1>2, QuestionsStay, ClosureStays DEF Early, Reaching, Opening
<1>4. LiteralsRight
  <2>1. \A j \in Items : j < i
    BY <1>1, <1>2, ModuleTypes
  <2> QED BY <1>1, <1>2, <2>1 DEF Opening, LiteralsRight, Complete
<1>5. Lowering'
  <2>1. \A j \in Items : ~(j < 1)
    BY <1>1, ModuleTypes
  <2> QED BY <1>1, <1>2, <1>4, <2>1, QuestionsStay, LiteralsStay DEF Lowering
<1>6. ConstantsResolve' /\ OpenEndedIsExact'
  BY <1>1, <1>2, ExactStays
<1> QED BY <1>3, <1>5, <1>6 DEF OpenInv

LEMMA LowerOpens == IInv /\ OpenInv /\ Lower => OpenInv'
<1> SUFFICES ASSUME IInv, OpenInv, Lower PROVE OpenInv'
  OBVIOUS
<1>1. /\ module \in Modules /\ i \in Nat \ {0}
      /\ Early /\ Reaching /\ Lowering /\ ConstantsResolve /\ OpenEndedIsExact
  BY DEF IInv, Typed, OpenInv
<1>2. /\ module' = module /\ reaches' = reaches /\ set' = set /\ phase = "lower" /\ i \in Items
      /\ \/ phase' = "done" /\ verdict' \in {"invalid", "refused"} /\ emitted' = emitted
         \/ /\ phase' = "lower" /\ verdict' = verdict /\ ~Invalid(i) /\ i' = i + 1
            /\ emitted' = [emitted EXCEPT ![i] = Terms(i)]
  BY DEF Lower, Refuse, analysis
<1>3. Early' /\ Reaching' /\ Opening'
  BY <1>1, <1>2, QuestionsStay, ClosureStays DEF Early, Reaching, Opening
<1>4. Lowering'
  <2>1. CASE phase' = "done"
    BY <1>1, <1>2, <2>1, QuestionsStay DEF Lowering
  <2>2. CASE phase' = "lower"
    <3>1. /\ ~Invalid(i) /\ i' = i + 1 /\ emitted' = [emitted EXCEPT ![i] = Terms(i)]
      BY <1>2, <2>2
    <3>2. /\ emitted' = [j \in Items |-> emitted'[j]] /\ emitted'[i] = Terms(i)
          /\ \A j \in Items : j # i => emitted'[j] = emitted[j]
      <4>1. emitted = [j \in Items |-> emitted[j]]
        BY <1>1 DEF Lowering
      <4> QED BY <1>2, <3>1, <4>1
    <3>3. ASSUME NEW j \in Items, j < i + 1 PROVE Lowered(j)'
      <4>1. CASE j = i
        BY <1>2, <3>1, <3>2, <4>1, QuestionsStay, LiteralsStay DEF Lowered
      <4>2. CASE j # i
        <5>1. j < i
          <6>1. j \in Nat
            BY <1>1, ModuleTypes
          <6> QED BY <1>1, <3>3, <4>2, <6>1
        <5>2. Lowered(j)
          BY <1>1, <1>2, <5>1 DEF Lowering
        <5> QED BY <1>2, <3>2, <4>2, <5>2, QuestionsStay, LiteralsStay DEF Lowered
      <4> QED BY <4>1, <4>2
    <3>4. LiteralsRight'
      BY <1>1, <1>2, LiteralsStay DEF Lowering
    <3> QED BY <1>2, <3>1, <3>2, <3>3, <3>4, QuestionsStay DEF Lowering
  <2> QED BY <1>2, <2>1, <2>2
<1>5. ConstantsResolve' /\ OpenEndedIsExact'
  <2>1. verdict' \notin {"circular", "accepted"}
    BY <1>1, <1>2 DEF Early
  <2> QED BY <1>1, <1>2, <2>1, ExactStays
<1> QED BY <1>3, <1>4, <1>5 DEF OpenInv

LEMMA CompileOpens == IInv /\ OpenInv /\ Compile => OpenInv'
<1> SUFFICES ASSUME IInv, OpenInv, Compile PROVE OpenInv'
  OBVIOUS
<1>1. /\ module \in Modules /\ i \in Nat \ {0}
      /\ Early /\ Reaching /\ Lowering /\ ConstantsResolve /\ OpenEndedIsExact
  BY DEF IInv, Typed, OpenInv
<1>2. /\ module' = module /\ reaches' = reaches /\ set' = set /\ emitted' = emitted
      /\ phase = "lower" /\ i \notin Items
      /\ \/ phase' = "done" /\ verdict' = "circular" /\ Circular
         \/ phase' = "done" /\ verdict' = "unbounded"
         \/ phase' = "ready" /\ verdict' = "accepted" /\ Bounded
  BY DEF Compile, Refuse, analysis
<1>3. Early' /\ Reaching' /\ Opening'
  BY <1>1, <1>2, QuestionsStay, ClosureStays DEF Early, Reaching, Opening
<1>4. Lowering'
  BY <1>1, <1>2, QuestionsStay DEF Lowering
<1>5. /\ \A j \in Items : emitted[j] = Terms(j) /\ ~Invalid(j)
      /\ LiteralsRight /\ Direct \subseteq reaches /\ Transitive /\ reaches \subseteq Items \X Items
  <2>1. \A j \in Items : j < i
    BY <1>1, <1>2, ModuleTypes
  <2> QED BY <1>1, <1>2, <2>1 DEF Lowering, Lowered, Reaching
<1>6. CASE verdict' = "circular"
  <2>1. \E j \in Items : \E b \in Bodies(module[j]) :
            b # << >> /\ Last(b).kind = "placed" /\ Last(b).to \in Items
    BY <1>1, <1>2, <1>5, <1>6, ConstantsDoNotWait
  <2>2. ConstantsResolve' /\ OpenEndedIsExact'
    BY <1>2, <1>6, <2>1, QuestionsStay DEF ConstantsResolve, OpenEndedIsExact
  <2> QED BY <1>3, <1>4, <2>2 DEF OpenInv
<1>7. CASE verdict' = "unbounded"
  <2>1. ConstantsResolve' /\ OpenEndedIsExact'
    BY <1>1, <1>2, <1>7, ExactStays
  <2> QED BY <1>3, <1>4, <2>1 DEF OpenInv
<1>8. CASE verdict' = "accepted"
  <2>1. ConstantTrue \subseteq ReadingToEnd
    BY <1>1, <1>5, ConstantsSound
  <2>2. EndOverlooked \/ (ReadingToEnd \subseteq ConstantTrue /\ NothingFollowsTheEnd)
    BY <1>1, <1>2, <1>5, <1>8, ConstantsComplete, NothingFollows
  <2>3. ConstantTrue' = ConstantTrue
    <3>1. \A S : Closed(S)' <=> Closed(S)
      BY <1>2, QuestionsStay DEF Closed, Mentions
    <3> QED BY <1>2, <3>1, QuestionsStay DEF ConstantTrue
  <2>4. ConstantsResolve' /\ OpenEndedIsExact'
    BY <1>2, <1>8, <2>1, <2>2, <2>3, QuestionsStay, ClosureStays DEF ConstantsResolve, OpenEndedIsExact
  <2> QED BY <1>3, <1>4, <2>4 DEF OpenInv
<1> QED BY <1>2, <1>6, <1>7, <1>8

LEMMA DecodingOpens ==
    ASSUME OpenInv, (\E j \in Items : Decode(j)) \/ TooDeep \/ Enter \/ Leave
    PROVE  OpenInv'
<1>1. /\ Reaching /\ Lowering /\ ConstantsResolve /\ OpenEndedIsExact
  BY DEF OpenInv
<1>2. /\ module' = module /\ reaches' = reaches /\ emitted' = emitted
      /\ phase' \in {"decode", "done"} /\ verdict' \in {verdict, "too_deep"}
  <2>1. CASE \E j \in Items : Decode(j)
    BY <2>1 DEF Decode, analysis
  <2>2. CASE TooDeep
    BY <2>2 DEF TooDeep, analysis
  <2>3. CASE Enter
    BY <2>3 DEF Enter, analysis
  <2>4. CASE Leave
    BY <2>4 DEF Leave, analysis
  <2> QED BY <2>1, <2>2, <2>3, <2>4
<1>3. Early' /\ Reaching' /\ Opening' /\ Lowering'
  BY <1>1, <1>2, QuestionsStay DEF Early, Reaching, Opening, Lowering
<1>4. ConstantsResolve' /\ OpenEndedIsExact'
  BY <1>1, <1>2, ExactStays
<1> QED BY <1>3, <1>4 DEF OpenInv

LEMMA StutterOpens == OpenInv /\ UNCHANGED vars => OpenInv'
<1> SUFFICES ASSUME OpenInv, UNCHANGED vars PROVE OpenInv'
  OBVIOUS
<1>1. /\ Early /\ Reaching /\ Opening /\ Lowering /\ ConstantsResolve /\ OpenEndedIsExact
  BY DEF OpenInv
<1>2. /\ module' = module /\ reaches' = reaches /\ emitted' = emitted /\ phase' = phase
      /\ verdict' = verdict /\ set' = set /\ i' = i /\ changed' = changed
  BY DEF vars, analysis
<1>3. Early' /\ Opening'
  BY <1>1, <1>2, QuestionsStay, ClosureStays, LiteralsStay DEF Early, Opening
<1>4. Reaching'
  <2>1. Through(i)' <=> Through(i)
    BY <1>2, QuestionsStay DEF Through
  <2> QED BY <1>1, <1>2, <2>1, QuestionsStay, ClosureStays DEF Reaching
<1>5. Lowering'
  <2>1. \A j : Lowered(j)' <=> Lowered(j)
    BY <1>2, QuestionsStay, LiteralsStay DEF Lowered
  <2> QED BY <1>1, <1>2, <2>1, QuestionsStay, LiteralsStay DEF Lowering
<1>6. ConstantsResolve' /\ OpenEndedIsExact'
  BY <1>1, <1>2, ExactStays
<1> QED BY <1>3, <1>4, <1>5, <1>6 DEF OpenInv

LEMMA OpenInvHolds == Spec => []OpenInv
<1>1. IInv /\ OpenInv /\ [Next]_vars => OpenInv'
  <2> SUFFICES ASSUME IInv, OpenInv, [Next]_vars PROVE OpenInv'
    OBVIOUS
  <2>1. CASE Turn
    BY <2>1, TurnOpens
  <2>2. CASE Again
    BY <2>2, AgainOpens
  <2>3. CASE EndsSettled \/ SizedSettled
    BY <2>3, SettledOpens
  <2>4. CASE Reach
    BY <2>4, ReachOpens
  <2>5. CASE Reached
    BY <2>5, ReachedOpens
  <2>6. CASE OpenSettled
    BY <2>6, OpenSettledOpens
  <2>7. CASE Lower
    BY <2>7, LowerOpens
  <2>8. CASE Compile
    BY <2>8, CompileOpens
  <2>9. CASE (\E j \in Items : Decode(j)) \/ TooDeep \/ Enter \/ Leave
    BY <2>9, DecodingOpens
  <2>10. CASE UNCHANGED vars
    BY <2>10, StutterOpens
  <2> QED BY <2>1, <2>2, <2>3, <2>4, <2>5, <2>6, <2>7, <2>8, <2>9, <2>10 DEF Next
<1> QED BY <1>1, InitOpens, InvariantHolds, PTL DEF Spec

(* recursion.rs `open_ended_expr' and graph.rs `open_end_cycles': rustc    *)
(* refuses no module for constants that wait for one another, of any       *)
(* number of items, unless a body ends in a record at an offset.           *)
THEOREM ConstantsAreResolved == Spec => []ConstantsResolve
<1>1. OpenInv => ConstantsResolve
  BY DEF OpenInv
<1> QED BY <1>1, OpenInvHolds, PTL

(* The OPEN_ENDED of an item of an accepted module, computed by rustc from *)
(* the generated terms, is true only if the item reads to the end; it is   *)
(* true if the item does, and nothing follows the item, unless a cycle's   *)
(* end is overlooked in a record at an offset.                             *)
THEOREM OpenEndsDecided == Spec => []OpenEndedIsExact
<1>1. OpenInv => OpenEndedIsExact
  BY DEF OpenInv
<1> QED BY <1>1, OpenInvHolds, PTL
=============================================================================
