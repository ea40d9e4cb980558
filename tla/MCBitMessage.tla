---------------------------- MODULE MCBitMessage ----------------------------
(***************************************************************************)
(* BitMessage with bytes of four bits.  The messages hold each kind of     *)
(* field under each gate; a flag of two bits of which one gates nothing; a *)
(* gate of two bits; two gates in one flag, one of them for absence;       *)
(* fields as wide as a u64; and the declarations the validator is there to *)
(* refuse.                                                                 *)
(***************************************************************************)
EXTENDS BitMessage

U(n, when) == Field("u", n, when)
Var(when)  == Field("var", 0, when)
Bool       == Field("bool", 1, Always)

MCMessages ==
    { \* Accepted.
      <<U(3, Present), Field("i", 2, Always)>>,
      <<Var(Always), U(2, Always), Var(Present), U(1, Always)>>,
      <<U(2, Always), U(3, Mask(1, {1}, TRUE)), Field("codec", 2, Always)>>,
      <<U(3, Always), U(1, Mask(1, {0}, TRUE)), U(2, Mask(1, {2}, FALSE))>>,
      <<Field("i", 2, Always), U(2, Mask(1, {0, 1}, TRUE))>>,
      <<U(1, Always), Bool, Var(Mask(2, {0}, FALSE)), Field("i", 3, Always)>>,
      <<Field("codec", 2, Always), U(1, Mask(1, {1}, TRUE)), U(1, Present)>>,
      <<U(5, Always), U(4, Always)>>,
      <<U(6, Present), U(1, Always)>>,
      <<Field("i", 6, Always), U(1, Mask(1, {5}, TRUE))>>,
      \* Refused.
      <<U(2, Always), U(1, Mask(1, {0}, TRUE)), U(2, Mask(1, {0, 1}, FALSE))>>,
      <<U(1, Mask(2, {0}, TRUE)), U(1, Always)>>,
      <<U(1, Present), U(1, Mask(1, {0}, TRUE))>>,
      <<U(1, Always), U(1, Mask(1, {1}, TRUE))>>,
      <<Var(Always), U(1, Mask(1, {0}, TRUE))>>,
      <<U(0, Always)>> }

MCCodes == <<<<FALSE>>, <<TRUE, FALSE>>, <<TRUE, TRUE, FALSE>>>>

MCBodies == [1 .. 8 -> BOOLEAN]
=============================================================================
