------------------------------ MODULE MCFrame ------------------------------
(***************************************************************************)
(* Frame over seven small protocols, each the shape of a FrameSpec in the   *)
(* tests of layline-core, with bytes 0..3:                                  *)
(*   magic      a sync byte and a length byte; no scan past a lure          *)
(*              (frame.rs Stated, tests/magic_len_crc32.rs)                 *)
(*   checked    a checked header, damaged frames consumed                   *)
(*              (tests/header_ck_len.rs)                                    *)
(*   syncless   a self-checking header and a scan (tests/syncless_lrc.rs)   *)
(*   delimited  a terminator and a scan (tests/delimited.rs Nmea)           *)
(*   unbounded  the same search with no cap (tests/delimited.rs Unbounded)  *)
(*   catalogued a length looked up, some entries unknown                    *)
(*              (tests/catalogued.rs)                                       *)
(*   overreach  a body range past its frame (frame.rs Overreach), and a     *)
(*              scan                                                        *)
(***************************************************************************)
EXTENDS Frame, SequencesExt

MCByte == 0 .. 3
MCProtocols ==
  {"magic", "checked", "syncless", "delimited", "unbounded", "catalogued", "overreach"}
MCN == 4
MCChunks == UNION {[1 .. n -> MCByte] : n \in 1 .. 3}

MCCandidateLen == [p \in MCProtocols |-> IF p = "syncless" THEN 2 ELSE 1]
MCHeaderLen ==
  [p \in MCProtocols |-> IF p \in {"magic", "checked", "syncless", "overreach"} THEN 2 ELSE 1]
MCMaxFrame == [p \in MCProtocols |-> 4]
MCOnCorrupt == [p \in MCProtocols |-> IF p = "checked" THEN "Consume" ELSE "Resync"]
MCScan == [p \in MCProtocols |-> p \in {"syncless", "delimited", "catalogued", "overreach"}]

MCCandidate(p, b) == IF p = "syncless" THEN (b[1] + b[2]) % 2 = 1 ELSE b[1] = 3

\* frame_len, -1 for None.
MagicLen(h) == <<1, 3, 4, 6>>[h[2] + 1]
CheckedLen(h) == <<2, 3, 4, -1>>[h[2] + 1]
SynclessLen(h) == <<2, 4, 3, 5>>[h[1] + 1]
OverreachLen(h) == <<2, 2, 2, 4>>[h[2] + 1]

\* The search for the terminator 0; one check byte follows it.
Terminated(b, cap) ==
  LET star == SelectInSeq(b, LAMBDA x : x = 0)
  IN  IF star = 0 THEN IF Len(b) >= cap THEN [kind |-> "Reject", n |-> 0]
                                        ELSE [kind |-> "More", n |-> 1]
      ELSE IF star + 1 > cap THEN [kind |-> "Reject", n |-> 0]
      ELSE IF Len(b) < star + 1 THEN [kind |-> "More", n |-> star + 1 - Len(b)]
      ELSE [kind |-> "Frame", n |-> star + 1]
Unterminated(b) ==
  LET star == SelectInSeq(b, LAMBDA x : x = 0)
  IN  IF star = 0 THEN [kind |-> "More", n |-> 0] ELSE [kind |-> "Frame", n |-> star + 1]
Looked(b) ==
  CASE Len(b) < 2 -> [kind |-> "More", n |-> 1]
    [] Len(b) >= 2 /\ b[2] = 0 -> [kind |-> "Reject", n |-> 0]
    [] Len(b) >= 2 /\ b[2] = 3 -> [kind |-> "Unmeasurable", n |-> 0]
    [] OTHER -> [kind |-> "Frame", n |-> b[2] + 2]

MCMeasure(p, b) ==
  CASE p = "magic"      -> HeaderMeasure(2, MagicLen(SubSeq(b, 1, 2)), b)
    [] p = "checked"    -> HeaderMeasure(2, CheckedLen(SubSeq(b, 1, 2)), b)
    [] p = "syncless"   -> HeaderMeasure(2, SynclessLen(SubSeq(b, 1, 2)), b)
    [] p = "delimited"  -> Terminated(b, 4)
    [] p = "unbounded"  -> Unterminated(b)
    [] p = "catalogued" -> Looked(b)
    [] p = "overreach"  -> HeaderMeasure(2, OverreachLen(SubSeq(b, 1, 2)), b)

MCVerify(p, f) ==
  CASE p = "unbounded" \/ p = "overreach" -> TRUE
    [] p = "checked" /\ Len(f) = 2 -> TRUE
    [] p \in {"syncless", "delimited"} -> Len(f) > 0 /\ f[Len(f)] = 1
    [] OTHER -> Len(f) > 0 /\ f[Len(f)] = 0

MCBody(p, f) == IF p = "overreach" /\ Len(f) = 2 THEN <<0, 3>> ELSE <<MCHeaderLen[p], Len(f)>>

----------------------------------------------------------------------------
(* Liveness *)

\* pop returns, whatever is in the buffer: every turn of its loop makes progress.
PopReturns == pc = "pop" ~> pc = "idle"
============================================================================
