---------------------------- MODULE MCBitCursor ----------------------------
(***************************************************************************)
(* BitCursor with bytes of three bits and values of up to five, so that a   *)
(* field may lie inside a byte, fill one, or span three.                    *)
(***************************************************************************)
EXTENDS BitCursor

Word(bits) == [k \in 0 .. MaxBits - 1 |-> bits[k + 1]]
MCValues == {Word(<<1, 1, 1, 1, 1>>), Word(<<1, 0, 1, 1, 0>>)}
OnesByte == [k \in 0 .. W - 1 |-> 1]
MCHeld == {<<>>, <<OnesByte>>}
=============================================================================
