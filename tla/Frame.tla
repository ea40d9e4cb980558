------------------------------- MODULE Frame -------------------------------
(***************************************************************************)
(* The stream framer of layline-core (frame.rs): the pure function `parse`, *)
(* which tries to frame one message at the start of a buffer, and the       *)
(* `Decoder`, which accumulates pushed bytes and pops frames.               *)
(*                                                                         *)
(* A FrameSpec, the trait a protocol implements, is a value of Protocols;   *)
(* its associated constants are functions on Protocols and its methods are  *)
(* operators whose first argument is the protocol.  A behaviour is one      *)
(* Decoder<S, N>: the variable protocol is the type parameter S.            *)
(*                                                                         *)
(* stream, log, refused and due are history variables: every byte the      *)
(* decoder took, what became of each of them, the bytes it could not take,  *)
(* and how long the stream must be before the last Incomplete answer says   *)
(* that a frame can be complete.                                            *)
(***************************************************************************)
EXTENDS Integers, Sequences, FiniteSets

CONSTANTS
  Byte,                \* the values of a byte
  Protocols,           \* the FrameSpecs considered
  CandidateLen,        \* S::CANDIDATE_LEN
  HeaderLen,           \* S::HEADER_LEN
  MaxFrame,            \* S::MAX_FRAME
  OnCorrupt,           \* S::ON_CORRUPT: "Resync" or "Consume"
  ScanPastIncomplete,  \* S::SCAN_PAST_INCOMPLETE
  Candidate(_, _),     \* S::candidate(bytes)
  Measure(_, _),       \* S::measure(bytes)
  Verify(_, _),        \* S::verify(frame)
  Body(_, _),          \* S::body(frame): [start, end), both counted from 0
  N,                   \* the decoder's capacity
  StatMax,             \* u64::MAX, where the counters saturate
  Chunks,              \* what a caller may pass to one push
  MaxOffered           \* bound: bytes offered to push in one behaviour

BoundedBytes(n) == UNION {[1 .. k -> Byte] : k \in 0 .. n}

Measures == [kind : {"Frame", "More", "Reject", "Unmeasurable"}, n : Nat]

\* The const assertions of Decoder::new, and the types of the constants.
ASSUME ProtocolAssumption ==
  /\ N \in Nat /\ StatMax \in Nat /\ MaxOffered \in Nat
  /\ CandidateLen \in [Protocols -> Nat]
  /\ HeaderLen \in [Protocols -> Nat]
  /\ MaxFrame \in [Protocols -> Nat]
  /\ OnCorrupt \in [Protocols -> {"Resync", "Consume"}]
  /\ ScanPastIncomplete \in [Protocols -> BOOLEAN]
  /\ \A p \in Protocols :
       /\ 1 <= CandidateLen[p]
       /\ CandidateLen[p] <= HeaderLen[p]
       /\ HeaderLen[p] <= MaxFrame[p]
       /\ MaxFrame[p] <= N

ASSUME ChunksAssumption == Chunks \subseteq Seq(Byte)

\* The trait's methods answer for every argument parse may give them.
ASSUME MethodAssumption ==
  \A p \in Protocols : \A b \in BoundedBytes(N) \cup BoundedBytes(MaxOffered) :
    /\ Len(b) >= CandidateLen[p] => Candidate(p, b) \in BOOLEAN /\ Measure(p, b) \in Measures
    /\ Len(b) \in HeaderLen[p] .. MaxFrame[p] =>
         Verify(p, b) \in BOOLEAN /\ Body(p, b) \in Nat \X Nat

\* FrameSpec's contract, where a buffer is the start of a longer one: candidate reads
\* CANDIDATE_LEN bytes; an answer of measure stands, whatever arrives behind; and while
\* it says More no frame is whole, but one that is refused for being shorter than a header.
ASSUME ContractAssumption ==
  \A p \in Protocols : \A b \in BoundedBytes(MaxOffered) : \A n \in CandidateLen[p] .. Len(b) :
    LET a == SubSeq(b, 1, n)
        m == Measure(p, a)
    IN  /\ Candidate(p, a) = Candidate(p, b)
        /\ m.kind # "More" => Measure(p, b) = m
        /\ m.kind = "More" /\ Measure(p, b).kind = "Frame" =>
             Measure(p, b).n \notin HeaderLen[p] .. n

\* More's value is a lower bound on the bytes still needed, zero counting as one: measure
\* goes on saying More until they are there.  MAX_FRAME is the largest frame the protocol
\* can send, so no more bytes than that are needed.
ASSUME NeedAssumption ==
  \A p \in Protocols : \A b \in BoundedBytes(MaxOffered) : \A n \in CandidateLen[p] .. Len(b) :
    LET m == Measure(p, SubSeq(b, 1, n))
        need == IF m.n = 0 THEN 1 ELSE m.n
    IN  m.kind = "More" /\ n < MaxFrame[p] =>
          /\ n + need <= MaxFrame[p]
          /\ Len(b) < n + need => Measure(p, b).kind = "More"

----------------------------------------------------------------------------
(* parse *)

From(b, i) == SubSeq(b, i + 1, Len(b))

Least(S) == CHOOSE i \in S : \A j \in S : i <= j

Frame(consumed, body, integrity) ==
  [kind |-> "Frame", n |-> consumed, what |-> integrity, body |-> body]
Incomplete(need) ==
  [kind |-> "Incomplete", n |-> need, what |-> "None", body |-> <<0, 0>>]
Desync(discard, cause) ==
  [kind |-> "Desync", n |-> discard, what |-> cause, body |-> <<0, 0>>]

\* FrameSpec::measure as the trait provides it, for a protocol that only says
\* frame_len.  frameLen is its answer for b's header, -1 for None; without a whole header
\* it is not asked.
HeaderMeasure(headerLen, frameLen, b) ==
  IF Len(b) < headerLen THEN [kind |-> "More", n |-> headerLen - Len(b)]
  ELSE IF frameLen >= 0 THEN [kind |-> "Frame", n |-> frameLen]
                        ELSE [kind |-> "Reject", n |-> 0]

\* Offsets at which a frame may start.
Starts(p, b) == {i \in 0 .. Len(b) - CandidateLen[p] : Candidate(p, From(b, i))}

\* complete_frame_beyond: the later offsets that hold a whole, verified frame.
CompleteBeyond(p, b) ==
  {i \in Starts(p, b) \ {0} :
     LET m == Measure(p, From(b, i))
     IN  /\ m.kind = "Frame"
         /\ m.n \in HeaderLen[p] .. MaxFrame[p]
         /\ i + m.n <= Len(b)
         /\ Verify(p, SubSeq(b, i + 1, i + m.n))}

\* Mutant: the need of the whole frame, not of what is missing.
PendingWhole(p, b, need) ==
  IF ScanPastIncomplete[p] /\ CompleteBeyond(p, b) # {}
  THEN Desync(Least(CompleteBeyond(p, b)), "NoCandidate")
  ELSE Incomplete(need + Len(b))

\* The frame at offset 0 has not all arrived.
Pending(p, b, need) ==
  IF ScanPastIncomplete[p] /\ CompleteBeyond(p, b) # {}
  THEN Desync(Least(CompleteBeyond(p, b)), "NoCandidate")
  ELSE Incomplete(need)

\* Mutant: a damaged frame is dropped whole.
CompleteDropsFrame(p, f) ==
  LET body == Body(p, f)
  IN  IF body[1] > body[2] \/ body[2] > Len(f) THEN Desync(1, "BadHeader")
      ELSE IF Verify(p, f) THEN Frame(Len(f), body, "Verified")
      ELSE IF OnCorrupt[p] = "Resync" THEN Desync(Len(f), "Checksum")
      ELSE Frame(Len(f), body, "Corrupt")

\* Mutant: a damaged frame handed over is called verified.
CompleteUnmarked(p, f) ==
  LET body == Body(p, f)
  IN  IF body[1] > body[2] \/ body[2] > Len(f) THEN Desync(1, "BadHeader")
      ELSE IF Verify(p, f) \/ OnCorrupt[p] = "Consume" THEN Frame(Len(f), body, "Verified")
      ELSE Desync(1, "Checksum")

\* The frame at offset 0 has all arrived.
Complete(p, f) ==
  LET body == Body(p, f)
  IN  IF body[1] > body[2] \/ body[2] > Len(f) THEN Desync(1, "BadHeader")
      ELSE IF Verify(p, f) THEN Frame(Len(f), body, "Verified")
      ELSE IF OnCorrupt[p] = "Resync" THEN Desync(1, "Checksum")
      ELSE Frame(Len(f), body, "Corrupt")

\* Mutant: a full buffer may still ask for more.
MeasuredOverfull(p, b) ==
  LET m == Measure(p, b)
  IN  CASE m.kind = "Reject"       -> Desync(1, "BadHeader")
        [] m.kind = "Unmeasurable" -> Desync(1, "Unmeasurable")
        [] m.kind = "More" ->
             IF Len(b) > MaxFrame[p] THEN Desync(1, "Unbounded")
             ELSE Pending(p, b, IF m.n = 0 THEN 1 ELSE m.n)
        [] m.kind = "Frame" ->
             IF m.n > MaxFrame[p] THEN Desync(1, "TooLarge")
             ELSE IF m.n < HeaderLen[p] THEN Desync(1, "BadHeader")
             ELSE IF Len(b) < m.n THEN Pending(p, b, m.n - Len(b))
             ELSE Complete(p, SubSeq(b, 1, m.n))

\* A frame may start at offset 0.
Measured(p, b) ==
  LET m == Measure(p, b)
  IN  CASE m.kind = "Reject"       -> Desync(1, "BadHeader")
        [] m.kind = "Unmeasurable" -> Desync(1, "Unmeasurable")
        [] m.kind = "More" ->
             IF Len(b) >= MaxFrame[p] THEN Desync(1, "Unbounded")
             ELSE Pending(p, b, IF m.n = 0 THEN 1 ELSE m.n)
        [] m.kind = "Frame" ->
             IF m.n > MaxFrame[p] THEN Desync(1, "TooLarge")
             ELSE IF m.n < HeaderLen[p] THEN Desync(1, "BadHeader")
             ELSE IF Len(b) < m.n THEN Pending(p, b, m.n - Len(b))
             ELSE Complete(p, SubSeq(b, 1, m.n))

Parse(p, b) ==
  IF Len(b) < CandidateLen[p] THEN Incomplete(CandidateLen[p] - Len(b))
  ELSE IF Starts(p, b) = {} THEN Desync(Len(b) - CandidateLen[p] + 1, "NoCandidate")
  ELSE IF 0 \notin Starts(p, b) THEN Desync(Least(Starts(p, b)), "NoCandidate")
  ELSE Measured(p, b)

----------------------------------------------------------------------------
(* Decoder *)

VARIABLES
  protocol,  \* the type parameter S
  buf,       \* buf[..len]
  spent,     \* length of the last returned frame, removed on the next call
  stats,     \* Stats
  pc,        \* "idle" between calls, "pop" inside pop's loop
  result,    \* what the last call answered: "new", "push", "some" or "none"
  stream, log, refused, due

vars == <<protocol, buf, spent, stats, pc, result, stream, log, refused, due>>

Integrities == {"Verified", "Corrupt"}
Causes == {"NoCandidate", "BadHeader", "Checksum", "TooLarge", "Unmeasurable", "Unbounded"}

\* One piece of the stream: a returned frame, or bytes discarded for a cause.
Piece == [at : Nat, len : Nat, what : Integrities \cup Causes]

Counters == {"frames", "bytes_discarded", "checksum_errors", "bytes_refused", "unmeasurable"}

SaturatingAdd(a, b) == IF a + b > StatMax THEN StatMax ELSE a + b

\* Mutants: the returned frame stays, or everything behind it goes with it.
NothingReleased == buf
AllReleased == IF spent > 0 THEN <<>> ELSE buf

\* release: drop the frame the last pop returned.
Released == From(buf, spent)

\* The stream position of the buffer's first byte.
Base == Len(stream) - Len(buf)

Init ==
  /\ protocol \in Protocols
  /\ buf = <<>> /\ spent = 0
  /\ stats = [c \in Counters |-> 0]
  /\ pc = "idle" /\ result = "new"
  /\ stream = <<>> /\ log = <<>> /\ refused = 0 /\ due = 0

\* push: release, take what fits, count the rest as refused.
Push(chunk) ==
  LET room == N - Len(Released)
      take == IF Len(chunk) < room THEN Len(chunk) ELSE room
      rest == Len(chunk) - take
  IN  /\ pc = "idle"
      /\ Len(stream) + refused + Len(chunk) <= MaxOffered
      /\ buf' = Released \o SubSeq(chunk, 1, take)
      /\ spent' = 0
      /\ stats' = [stats EXCEPT !["bytes_refused"] = SaturatingAdd(@, rest)]
      /\ result' = "push"
      /\ stream' = stream \o SubSeq(chunk, 1, take)
      /\ refused' = refused + rest
      /\ UNCHANGED <<protocol, pc, log, due>>

\* pop, up to its loop.
PopCall ==
  /\ pc = "idle"
  /\ buf' = Released
  /\ spent' = 0
  /\ pc' = "pop"
  /\ UNCHANGED <<protocol, stats, result, stream, log, refused, due>>

\* One turn of pop's loop that drops bytes.
PopDesync ==
  LET r == Parse(protocol, buf)
      atLeastOne == IF r.n < 1 THEN 1 ELSE r.n
      n == IF atLeastOne < Len(buf) THEN atLeastOne ELSE Len(buf)
  IN  /\ pc = "pop"
      /\ r.kind = "Desync"
      /\ buf' = From(buf, n)
      /\ stats' = [stats EXCEPT
           !["bytes_discarded"] = SaturatingAdd(@, n),
           !["checksum_errors"] = IF r.what = "Checksum" THEN SaturatingAdd(@, 1) ELSE @,
           !["unmeasurable"] = IF r.what = "Unmeasurable" THEN SaturatingAdd(@, 1) ELSE @]
      /\ log' = Append(log, [at |-> Base, len |-> n, what |-> r.what])
      /\ UNCHANGED <<protocol, spent, pc, result, stream, refused, due>>

\* Mutant: the loop goes on where pop should return None.
PopIncompleteSpins ==
  LET r == Parse(protocol, buf)
  IN  /\ pc = "pop"
      /\ r.kind = "Incomplete"
      /\ due' = Len(stream) + r.n
      /\ UNCHANGED <<protocol, buf, spent, stats, pc, result, stream, log, refused>>

\* pop answers None.
PopIncomplete ==
  LET r == Parse(protocol, buf)
  IN  /\ pc = "pop"
      /\ r.kind = "Incomplete"
      /\ pc' = "idle"
      /\ result' = "none"
      /\ due' = Len(stream) + r.n
      /\ UNCHANGED <<protocol, buf, spent, stats, stream, log, refused>>

\* Mutant: a corrupt frame that is handed over is not counted as an error.
PopFrameUncounted ==
  LET r == Parse(protocol, buf)
  IN  /\ pc = "pop"
      /\ r.kind = "Frame"
      /\ spent' = r.n
      /\ stats' = [stats EXCEPT !["frames"] = SaturatingAdd(@, 1)]
      /\ pc' = "idle"
      /\ result' = "some"
      /\ log' = Append(log, [at |-> Base, len |-> r.n, what |-> r.what])
      /\ UNCHANGED <<protocol, buf, stream, refused, due>>

\* pop answers Some: the frame stays in the buffer, borrowed by the caller.
PopFrame ==
  LET r == Parse(protocol, buf)
  IN  /\ pc = "pop"
      /\ r.kind = "Frame"
      /\ spent' = r.n
      /\ stats' = [stats EXCEPT
           !["frames"] = SaturatingAdd(@, 1),
           !["checksum_errors"] = IF r.what = "Corrupt" THEN SaturatingAdd(@, 1) ELSE @]
      /\ pc' = "idle"
      /\ result' = "some"
      /\ log' = Append(log, [at |-> Base, len |-> r.n, what |-> r.what])
      /\ UNCHANGED <<protocol, buf, stream, refused, due>>

PopTurn == PopDesync \/ PopIncomplete \/ PopFrame

Next == (\E chunk \in Chunks : Push(chunk)) \/ PopCall \/ PopTurn

\* A call that has begun runs to its return; nothing obliges a caller to call.
Spec == Init /\ [][Next]_vars /\ WF_vars(PopTurn)

----------------------------------------------------------------------------
(* What the decoder keeps true, for every protocol *)

TypeOK ==
  /\ protocol \in Protocols
  /\ buf \in Seq(Byte) /\ Len(buf) <= N
  /\ spent \in 0 .. Len(buf)
  /\ stats \in [Counters -> 0 .. StatMax]
  /\ pc \in {"idle", "pop"}
  /\ result \in {"new", "push", "some", "none"}
  /\ stream \in Seq(Byte)
  /\ log \in Seq(Piece)
  /\ refused \in Nat
  /\ due \in Nat

\* The position just past piece i; piece 0 is the empty start of the stream.
EndOf(i) == IF i = 0 THEN 0 ELSE log[i].at + log[i].len

\* The buffer holds the newest bytes of the stream, in order, and nothing else:
\* what release, consume and push move about is never lost, repeated or mixed.
BufferIsTail ==
  /\ Len(buf) <= Len(stream)
  /\ \A i \in 1 .. Len(buf) : buf[i] = stream[Base + i]

\* The pieces tile the stream: each starts where the one before ends, none is
\* empty, and the last ends where the unread bytes begin.  So every byte taken
\* is in exactly one returned frame, or discarded once, or still buffered.
PiecesTile ==
  /\ \A i \in 1 .. Len(log) : log[i].at = EndOf(i - 1) /\ log[i].len >= 1
  /\ EndOf(Len(log)) = Base + spent

BytesAccounted == BufferIsTail /\ PiecesTile

\* When pop has answered None there is room for another byte: the buffer can
\* never be full with nothing to return, which no later push could undo.
NeverStalls == result = "none" /\ pc = "idle" => Len(buf) < N

----------------------------------------------------------------------------
(* The history *)

IsFrame(piece) == piece.what \in Integrities

\* The frame that measure sees at a position, when all of it is there and passes its
\* check: what complete_frame_beyond looks for.
FrameAt(s, at) == SubSeq(s, at + 1, at + Measure(protocol, From(s, at)).n)

VerifiedFrame(s, at) ==
  LET b == From(s, at)
      m == Measure(protocol, b)
  IN  /\ Len(b) >= CandidateLen[protocol] /\ Candidate(protocol, b)
      /\ m.kind = "Frame" /\ m.n \in HeaderLen[protocol] .. MaxFrame[protocol]
      /\ m.n <= Len(b)
      /\ Verify(protocol, FrameAt(s, at))

\* One that parse would return if it stood at the start of the buffer.
TrueFrame(s, at) ==
  /\ VerifiedFrame(s, at)
  /\ LET body == Body(protocol, FrameAt(s, at))
     IN  body[1] <= body[2] /\ body[2] <= Len(FrameAt(s, at))

\* No discarded byte begins a whole verified frame, whatever arrived before the
\* bytes that complete it, except where SCAN_PAST_INCOMPLETE gave it up for another
\* verified frame that starts inside it, and that one was returned, or refused because
\* its body reaches outside it, which the scan does not look at.
NoFrameLost ==
  pc = "idle" =>
    \A i \in 1 .. Len(log) :
      ~IsFrame(log[i]) =>
        \A at \in log[i].at .. EndOf(i) - 1 :
          TrueFrame(stream, at) =>
            /\ ScanPastIncomplete[protocol]
            /\ \E j \in i + 1 .. Len(log) :
                 /\ VerifiedFrame(stream, log[j].at)
                 /\ log[j].what = IF TrueFrame(stream, log[j].at) THEN "Verified" ELSE "BadHeader"
                 /\ log[j].at < at + Measure(protocol, From(stream, at)).n

\* Parsed::Incomplete's need is a lower bound on the bytes still missing, for a protocol
\* that does not scan past an incomplete frame: once pop has answered None, no frame is
\* returned before that many more were accepted.
NeedIsLowerBoundWithoutScan ==
  [][PopFrame /\ ~ScanPastIncomplete[protocol] => Len(stream) >= due]_vars

\* The frames of a stream that is all there before the first pop.
FramesInOne(s) ==
  LET cut[at \in 0 .. Len(s)] ==
        LET r == Parse(protocol, From(s, at))
        IN  IF r.kind = "Incomplete" THEN {}
            ELSE IF r.kind = "Desync" THEN cut[at + r.n]
            ELSE {[at |-> at, len |-> r.n, what |-> r.what]} \cup cut[at + r.n]
  IN  cut[0]

\* For a protocol that does not scan past an incomplete frame, the frames returned (in
\* the order of their positions: BytesAccounted) do not depend on how the stream was
\* split into pushes, nor on when pop was called.
ChunkingDoesNotMatter ==
  result = "none" /\ ~ScanPastIncomplete[protocol] =>
    {log[i] : i \in {j \in 1 .. Len(log) : IsFrame(log[j])}} = FramesInOne(stream)

Capped(n) == IF n > StatMax THEN StatMax ELSE n

\* The bytes of the stream that were discarded.
Dropped ==
  {at \in 0 .. Len(stream) - 1 :
     \E i \in 1 .. Len(log) : ~IsFrame(log[i]) /\ at \in log[i].at .. EndOf(i) - 1}

\* How many pieces of the history are among `whats'.
PiecesOf(whats) == Cardinality({i \in 1 .. Len(log) : log[i].what \in whats})

\* Every counter is the number of events in the history, saturated.
StatsExact ==
  /\ stats["frames"] = Capped(PiecesOf(Integrities))
  /\ stats["bytes_discarded"] = Capped(Cardinality(Dropped))
  /\ stats["checksum_errors"] = Capped(PiecesOf({"Checksum", "Corrupt"}))
  /\ stats["unmeasurable"] = Capped(PiecesOf({"Unmeasurable"}))
  /\ stats["bytes_refused"] = Capped(refused)

Abstract == INSTANCE Framing

\* The decoder implements Framing: what it does to its buffer shows outside only
\* as a stream that grows and a cut of it that grows, verified frame by frame.
ImplementsFraming == Abstract!Spec
============================================================================
