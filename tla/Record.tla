------------------------------- MODULE Record -------------------------------
(***************************************************************************)
(* What a layout promises whatever its container: a record of independent  *)
(* fields, each of which holds the bits of its width.  `record` is the     *)
(* value decoded from the bytes, `call` the call just made.                *)
(***************************************************************************)
EXTENDS Words, Sequences

VARIABLES lay, live, call, record

(* What a field of its width gives back of an element.                     *)
Kept(f, v) ==
    IF f.reading = "int"
    THEN SignCast(v \cap Bits(f.bits), f.bits, f.prim)
    ELSE v \cap Bits(f.bits)

KeptAll(f, value) == [j \in DOMAIN value |-> Kept(f, value[j])]

IsStamp(f) == f.magic # <<>> \/ f.over # <<>>

Init == ~live

(* Encode: every field but those encode stamps is the caller's.            *)
Fill ==
    /\ ~live /\ live'
    /\ call'.op = "encode" =>
        \A i \in DOMAIN lay.fields :
            ~IsStamp(lay.fields[i]) => record'[i] = KeptAll(lay.fields[i], call'.value[i])
    /\ UNCHANGED lay

(* A setter writes its own field.                                          *)
Set ==
    /\ live /\ live' /\ call'.op = "set"
    /\ record' = [record EXCEPT ![call'.field] = KeptAll(lay.fields[call'.field], call'.value)]
    /\ UNCHANGED lay

(* seal writes only the fields it stamps.                                  *)
Stamp ==
    /\ live /\ live' /\ call'.op = "seal"
    /\ \A i \in DOMAIN lay.fields : ~IsStamp(lay.fields[i]) => record'[i] = record[i]
    /\ UNCHANGED lay

(* The derive, and an encode that panics.                                  *)
Idle == ~live /\ ~live'

Spec == Init /\ [][Fill \/ Set \/ Stamp \/ Idle]_<<lay, live, call, record>>
============================================================================
