----------------------------- MODULE MCNumbers -----------------------------
(***************************************************************************)
(* Numbers of seven bits in groups of two, so that a number has up to four  *)
(* groups and the last holds one bit of it, as 64 bits in groups of seven.  *)
(***************************************************************************)
EXTENDS Numbers

SeqsUpTo(S, n) == UNION {[1 .. k -> S] : k \in 0 .. n}
Bytes == 0 .. 2 ^ (Group + 1) - 1

(* Up to three bytes, and up to five with at most one byte after the first  *)
(* that does not continue: what lies further on is not looked at.           *)
MCInputs ==
  SeqsUpTo(Bytes, 3)
    \cup {head \o end : head \in [1 .. 2 -> {b \in Bytes : Continues(b)}]
                            \cup [1 .. 3 -> {b \in Bytes : Continues(b)}],
                       end \in [1 .. 2 -> Bytes]}
MCTails == SeqsUpTo(Bytes, 1)
MCBitTails == SeqsUpTo({0, 1}, 4)

(* Up to four bytes, and five where the first four bits are zeros: fewer    *)
(* zeros are followed by fewer bits.                                        *)
MCBits ==
  UNION {[1 .. (Group + 1) * k -> {0, 1}] : k \in 0 .. 4}
    \cup {<<0, 0, 0, 0>> \o end : end \in [1 .. 5 * (Group + 1) - 4 -> {0, 1}]}
=============================================================================
