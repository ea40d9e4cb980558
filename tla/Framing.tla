------------------------------ MODULE Framing ------------------------------
(***************************************************************************)
(* What a Decoder (frame.rs) promises, without its buffer: bytes arrive at  *)
(* the end of a stream, and the stream is cut, from its start and once for  *)
(* all, into adjacent pieces.  A piece is a frame the caller received or    *)
(* bytes that were dropped.  A frame is handed over as Verified only when   *)
(* its bytes pass the protocol's check, and as Corrupt only when they fail  *)
(* it and the protocol asks for damaged frames (CorruptPolicy::Consume).    *)
(***************************************************************************)
EXTENDS Integers, Sequences

CONSTANTS Byte, Protocols, HeaderLen, MaxFrame, OnCorrupt, Verify(_, _)

VARIABLES protocol, stream, log

vars == <<protocol, stream, log>>

Integrities == {"Verified", "Corrupt"}
Causes == {"NoCandidate", "BadHeader", "Checksum", "TooLarge", "Unmeasurable", "Unbounded"}

CutEnd == IF log = <<>> THEN 0 ELSE log[Len(log)].at + log[Len(log)].len

Init == protocol \in Protocols /\ stream = <<>> /\ log = <<>>

Arrive ==
  /\ stream' \in Seq(Byte)
  /\ Len(stream) <= Len(stream') /\ SubSeq(stream', 1, Len(stream)) = stream
  /\ UNCHANGED <<protocol, log>>

\* A frame may be returned with this verdict.
Returnable(bytes, what) ==
  /\ Len(bytes) \in HeaderLen[protocol] .. MaxFrame[protocol]
  /\ what = "Verified" => Verify(protocol, bytes)
  /\ what = "Corrupt" => OnCorrupt[protocol] = "Consume" /\ ~Verify(protocol, bytes)

Cut ==
  /\ \E n \in 1 .. Len(stream) - CutEnd, what \in Integrities \cup Causes :
       /\ what \in Integrities =>
            Returnable(SubSeq(stream, CutEnd + 1, CutEnd + n), what)
       /\ what = "Checksum" => OnCorrupt[protocol] = "Resync"
       /\ log' = Append(log, [at |-> CutEnd, len |-> n, what |-> what])
  /\ UNCHANGED <<protocol, stream>>

Next == Arrive \/ Cut

Spec == Init /\ [][Next]_vars
============================================================================
