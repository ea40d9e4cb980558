---------------------------- MODULE FrameProofs ----------------------------
(***************************************************************************)
(* Proofs about Frame, for every protocol, byte set and capacity that meet *)
(* the assumptions of Decoder::new:                                        *)
(*   TypeCorrect          the type invariant                               *)
(*   Accounting           no byte is lost, repeated or reordered           *)
(*   Unstalled            pop never answers None with a full buffer        *)
(*   StatsAreExact        the counters count what happened                 *)
(*   Refinement           the decoder implements Framing                   *)
(* and for every protocol that also keeps the contract of FrameSpec        *)
(* (ContractAssumption, and for the last one NeedAssumption):              *)
(*   Lossless             no frame is discarded, however it arrived        *)
(*   ChunkingIsInvisible  pushes do not show in the frames                 *)
(*   NeedIsHonest         no frame comes before the bytes asked for        *)
(***************************************************************************)
EXTENDS Frame, TLAPS, SequenceTheorems, FiniteSetTheorems, WellFoundedInduction

(* ---------------------------------------------------------------------- *)
(* parse                                                                    *)

\* Least returns the least of a non-empty set of offsets, as the scans of parse
\* and complete_frame_beyond stop at an offset that passed their test.
LEMMA LeastIsMember ==
  ASSUME NEW T \in SUBSET Nat, T # {}
  PROVE  Least(T) \in T /\ \A y \in T : Least(T) <= y
<1> DEFINE R == {ss \in Nat \X Nat : ss[1] < ss[2]}
<1>1. IsWellFoundedOn(R, Nat)
  <2>1. OpToRel(<, Nat) = R
    BY DEF OpToRel
  <2>2. QED
    BY <2>1, NatLessThanWellFounded
<1>2. \E x \in T : \A y \in T : ~ (<<y, x>> \in R)
  <2> HIDE DEF R
  <2>1. QED
    BY <1>1, WFMin
<1>3. PICK x \in T : \A y \in T : ~ (<<y, x>> \in R)
  BY <1>2
<1>4. \A y \in T : x <= y
  <2>1. SUFFICES ASSUME NEW y \in T, y < x PROVE FALSE
    BY SMT
  <2>2. <<y, x>> \in R
    BY <2>1
  <2>3. QED
    BY <1>3, <2>2
<1>5. QED
  BY <1>4 DEF Least

\* Dropping i bytes from the front of a buffer.
LEMMA FromProperties ==
  ASSUME NEW b \in Seq(Byte), NEW i \in 0 .. Len(b)
  PROVE  /\ From(b, i) \in Seq(Byte)
         /\ Len(From(b, i)) = Len(b) - i
         /\ \A k \in 1 .. Len(b) - i : From(b, i)[k] = b[i + k]
  BY DEF From

\* What a buffer can hold is in the range of the methods' assumption.
LEMMA BufferIsBounded ==
  ASSUME NEW b \in Seq(Byte), Len(b) <= N
  PROVE  b \in BoundedBytes(N)
<1>1. Len(b) \in 0 .. N /\ b \in [1 .. Len(b) -> Byte]
  BY ProtocolAssumption, LenProperties
<1>2. QED
  BY <1>1 DEF BoundedBytes

\* What a returned frame is worth.
Framed(p, b, n, what) ==
  /\ n \in HeaderLen[p] .. MaxFrame[p] /\ n <= Len(b)
  /\ what \in Integrities
  /\ what = "Verified" => Verify(p, SubSeq(b, 1, n))
  /\ what = "Corrupt" => OnCorrupt[p] = "Consume" /\ ~Verify(p, SubSeq(b, 1, n))

\* The three answers of parse.
Answer(p, b, r) ==
  \/ r.kind = "Incomplete" /\ r.n \in Nat /\ Len(b) < N
  \/ /\ r.kind = "Desync" /\ r.n \in 1 .. Len(b) /\ r.what \in Causes
     /\ r.what = "Checksum" => OnCorrupt[p] = "Resync"
  \/ r.kind = "Frame" /\ Framed(p, b, r.n, r.what)

LEMMA ProtocolBounds ==
  ASSUME NEW p \in Protocols
  PROVE  /\ CandidateLen[p] \in Nat /\ HeaderLen[p] \in Nat /\ MaxFrame[p] \in Nat
         /\ 1 <= CandidateLen[p] /\ CandidateLen[p] <= HeaderLen[p]
         /\ HeaderLen[p] <= MaxFrame[p] /\ MaxFrame[p] <= N
         /\ OnCorrupt[p] \in {"Resync", "Consume"}
         /\ N \in Nat
  BY ProtocolAssumption

\* An unfinished frame asks for more bytes while there is room for them, or is
\* given up for a later offset inside the buffer.
LEMMA PendingAnswer ==
  ASSUME NEW p \in Protocols, NEW b \in Seq(Byte), Len(b) < N, NEW need \in Nat
  PROVE  Answer(p, b, Pending(p, b, need))
<1>1. CompleteBeyond(p, b) \subseteq 1 .. Len(b)
  BY ProtocolBounds DEF CompleteBeyond, Starts
<1>2. CASE ScanPastIncomplete[p] /\ CompleteBeyond(p, b) # {}
  <2>1. Least(CompleteBeyond(p, b)) \in 1 .. Len(b)
    BY <1>1, <1>2, LeastIsMember
  <2>2. QED
    BY <1>2, <2>1 DEF Pending, Answer, Desync, Causes
<1>3. CASE ~(ScanPastIncomplete[p] /\ CompleteBeyond(p, b) # {})
  BY <1>3 DEF Pending, Answer, Incomplete
<1>4. QED
  BY <1>2, <1>3

\* A frame that is all there is returned with the verdict of verify, or one byte
\* of it is dropped.
LEMMA CompleteAnswer ==
  ASSUME NEW p \in Protocols, NEW b \in Seq(Byte), Len(b) <= N,
         NEW n \in HeaderLen[p] .. MaxFrame[p], n <= Len(b)
  PROVE  Answer(p, b, Complete(p, SubSeq(b, 1, n)))
<1> DEFINE f == SubSeq(b, 1, n)
           body == Body(p, f)
<1>1. f \in Seq(Byte) /\ Len(f) = n /\ n \in 1 .. Len(b)
  BY ProtocolBounds
<1> SUFFICES Answer(p, b, Complete(p, f))
  OBVIOUS
<1>2. \A what : Framed(p, b, n, what) <=>
        /\ what \in Integrities
        /\ what = "Verified" => Verify(p, f)
        /\ what = "Corrupt" => OnCorrupt[p] = "Consume" /\ ~Verify(p, f)
  BY DEF Framed
<1> HIDE DEF f
<1>3. CASE body[1] > body[2] \/ body[2] > Len(f)
  BY <1>1, <1>3 DEF Complete, Answer, Desync, Causes
<1>4. CASE ~(body[1] > body[2] \/ body[2] > Len(f))
  <2>1. CASE Verify(p, f)
    BY <1>1, <1>2, <1>4, <2>1 DEF Complete, Answer, Frame, Integrities
  <2>2. CASE ~Verify(p, f) /\ OnCorrupt[p] = "Resync"
    BY <1>1, <1>4, <2>2 DEF Complete, Answer, Desync, Causes
  <2>3. CASE ~Verify(p, f) /\ OnCorrupt[p] # "Resync"
    BY <1>1, <1>2, <1>4, <2>3, ProtocolBounds DEF Complete, Answer, Frame, Integrities
  <2>4. QED
    BY <2>1, <2>2, <2>3
<1>5. QED
  BY <1>3, <1>4

LEMMA MeasuredAnswer ==
  ASSUME NEW p \in Protocols, NEW b \in Seq(Byte), Len(b) <= N,
         CandidateLen[p] <= Len(b)
  PROVE  Answer(p, b, Measured(p, b))
<1> DEFINE m == Measure(p, b)
<1>1. m \in Measures /\ Len(b) \in Nat /\ 1 <= Len(b)
  BY BufferIsBounded, MethodAssumption, ProtocolBounds
<1>2. m.kind \in {"Frame", "More", "Reject", "Unmeasurable"} /\ m.n \in Nat
  BY <1>1 DEF Measures
<1> HIDE DEF m
<1>3. CASE m.kind \in {"Reject", "Unmeasurable"}
  BY <1>1, <1>3 DEF Measured, Answer, Desync, Causes, m
<1>4. CASE m.kind = "More" /\ Len(b) >= MaxFrame[p]
  BY <1>1, <1>4 DEF Measured, Answer, Desync, Causes, m
<1>5. CASE m.kind = "More" /\ ~(Len(b) >= MaxFrame[p])
  <2> DEFINE need == IF m.n = 0 THEN 1 ELSE m.n
  <2>1. Answer(p, b, Pending(p, b, need))
    BY <1>1, <1>2, <1>5, ProtocolBounds, PendingAnswer
  <2>2. QED
    BY <1>5, <2>1 DEF Measured, m
<1>6. CASE m.kind = "Frame" /\ (m.n > MaxFrame[p] \/ m.n < HeaderLen[p])
  BY <1>1, <1>6 DEF Measured, Answer, Desync, Causes, m
<1>7. CASE m.kind = "Frame" /\ m.n <= MaxFrame[p] /\ HeaderLen[p] <= m.n /\ Len(b) < m.n
  <2>1. Answer(p, b, Pending(p, b, m.n - Len(b)))
    BY <1>1, <1>2, <1>7, ProtocolBounds, PendingAnswer
  <2>2. Measured(p, b) = Pending(p, b, m.n - Len(b))
    BY <1>1, <1>2, <1>7, ProtocolBounds DEF Measured, m
  <2>3. QED
    BY <2>1, <2>2
<1>8. CASE m.kind = "Frame" /\ m.n <= MaxFrame[p] /\ HeaderLen[p] <= m.n /\ ~(Len(b) < m.n)
  <2>1. Answer(p, b, Complete(p, SubSeq(b, 1, m.n)))
    BY <1>1, <1>2, <1>8, ProtocolBounds, CompleteAnswer
  <2>2. Measured(p, b) = Complete(p, SubSeq(b, 1, m.n))
    BY <1>1, <1>2, <1>8, ProtocolBounds DEF Measured, m
  <2>3. QED
    BY <2>1, <2>2
<1>9. QED
  BY <1>1, <1>2, <1>3, <1>4, <1>5, <1>6, <1>7, <1>8, ProtocolBounds

\* parse, on any buffer: it asks for more only while there is room, it discards
\* at least one byte and no more than there are, and a frame it returns is inside
\* the buffer, within the protocol's bounds, and has the verdict of verify.
THEOREM ParseAnswer ==
  ASSUME NEW p \in Protocols, NEW b \in Seq(Byte), Len(b) <= N
  PROVE  Answer(p, b, Parse(p, b))
<1>1. Starts(p, b) \in SUBSET (0 .. Len(b) - CandidateLen[p])
  BY DEF Starts
<1>2. CASE Len(b) < CandidateLen[p]
  BY <1>2, ProtocolBounds DEF Parse, Answer, Incomplete
<1>3. CASE ~(Len(b) < CandidateLen[p]) /\ Starts(p, b) = {}
  BY <1>3, ProtocolBounds DEF Parse, Answer, Desync, Causes
<1>4. CASE ~(Len(b) < CandidateLen[p]) /\ Starts(p, b) # {} /\ 0 \notin Starts(p, b)
  <2>1. Least(Starts(p, b)) \in Starts(p, b)
    BY <1>1, <1>4, LeastIsMember, ProtocolBounds
  <2>2. Least(Starts(p, b)) \in 1 .. Len(b)
    BY <1>1, <1>4, <2>1, ProtocolBounds
  <2>3. QED
    BY <1>4, <2>2 DEF Parse, Answer, Desync, Causes
<1>5. CASE ~(Len(b) < CandidateLen[p]) /\ Starts(p, b) # {} /\ 0 \in Starts(p, b)
  BY <1>5, MeasuredAnswer, ProtocolBounds DEF Parse
<1>6. QED
  BY <1>2, <1>3, <1>4, <1>5

(* ---------------------------------------------------------------------- *)
(* The inductive invariant                                                  *)

\* Inside pop's loop nothing is spent: the pieces it cuts start at the buffer.
NothingSpent == pc = "pop" => spent = 0

\* The type of the log needs the positions, and the positions need the type of
\* the buffer and NothingSpent: none is inductive without the others.
IInv == TypeOK /\ BytesAccounted /\ NeverStalls /\ NothingSpent

LEMMA Saturates ==
  ASSUME NEW a \in 0 .. StatMax, NEW b \in Nat
  PROVE  SaturatingAdd(a, b) \in 0 .. StatMax
  BY ProtocolAssumption DEF SaturatingAdd

\* Releasing the returned frame leaves the newest bytes.
LEMMA ReleasedIsTail ==
  ASSUME TypeOK, BytesAccounted
  PROVE  /\ Released \in Seq(Byte)
         /\ Len(Released) = Len(buf) - spent
         /\ Len(Released) <= N /\ Len(Released) <= Len(stream)
         /\ \A k \in 1 .. Len(Released) :
              Released[k] = stream[Len(stream) - Len(Released) + k]
<1>1. /\ Released \in Seq(Byte) /\ Len(Released) = Len(buf) - spent
      /\ \A k \in 1 .. Len(buf) - spent : Released[k] = buf[spent + k]
  BY FromProperties DEF TypeOK, Released
<1>2. /\ Len(buf) \in Nat /\ Len(stream) \in Nat /\ spent \in 0 .. Len(buf)
      /\ Len(buf) <= N /\ Len(buf) <= Len(stream) /\ N \in Nat
  BY ProtocolAssumption DEF TypeOK, BytesAccounted, BufferIsTail
<1> DEFINE tail == Released
<1>3. Len(tail) <= N /\ Len(tail) <= Len(stream)
  <2> HIDE DEF tail
  <2> QED BY <1>1, <1>2 DEF tail
<1>4. ASSUME NEW k \in 1 .. Len(tail)
      PROVE  tail[k] = stream[Len(stream) - Len(tail) + k]
  <2>1. tail[k] = buf[spent + k] /\ Len(tail) = Len(buf) - spent
    BY <1>1
  <2> HIDE DEF tail
  <2>2. spent + k \in 1 .. Len(buf) /\ Base + (spent + k) = Len(stream) - Len(tail) + k
    BY <1>2, <2>1 DEF Base
  <2>3. buf[spent + k] = stream[Base + (spent + k)]
    BY <2>2 DEF BytesAccounted, BufferIsTail
  <2> QED BY <2>1, <2>2, <2>3
<1> QED BY <1>1, <1>3, <1>4

\* Bytes put behind a stream and behind its newest part keep the part the newest.
LEMMA TailOfConcat ==
  ASSUME NEW s \in Seq(Byte), NEW r \in Seq(Byte), NEW t \in Seq(Byte),
         Len(r) <= Len(s),
         \A k \in 1 .. Len(r) : r[k] = s[Len(s) - Len(r) + k]
  PROVE  /\ r \o t \in Seq(Byte) /\ Len(r \o t) = Len(r) + Len(t)
         /\ s \o t \in Seq(Byte) /\ Len(s \o t) = Len(s) + Len(t)
         /\ \A k \in 1 .. Len(r \o t) :
              (r \o t)[k] = (s \o t)[Len(s \o t) - Len(r \o t) + k]
<1>1. /\ r \o t \in Seq(Byte) /\ Len(r \o t) = Len(r) + Len(t)
      /\ \A k \in 1 .. Len(r) + Len(t) :
           (r \o t)[k] = IF k <= Len(r) THEN r[k] ELSE t[k - Len(r)]
  BY ConcatProperties
<1>2. /\ s \o t \in Seq(Byte) /\ Len(s \o t) = Len(s) + Len(t)
      /\ \A k \in 1 .. Len(s) + Len(t) :
           (s \o t)[k] = IF k <= Len(s) THEN s[k] ELSE t[k - Len(s)]
  BY ConcatProperties
<1>3. Len(r) \in Nat /\ Len(s) \in Nat /\ Len(t) \in Nat
  OBVIOUS
<1>4. ASSUME NEW k \in 1 .. Len(r) + Len(t)
      PROVE  (r \o t)[k] = (s \o t)[Len(s) - Len(r) + k]
  <2>1. Len(s) - Len(r) + k \in 1 .. Len(s) + Len(t)
    BY <1>3
  <2>2. CASE k <= Len(r)
    BY <1>1, <1>2, <1>3, <2>1, <2>2
  <2>3. CASE ~(k <= Len(r))
    <3>1. (r \o t)[k] = t[k - Len(r)]
      BY <1>1, <2>3
    <3>2. (s \o t)[Len(s) - Len(r) + k] = t[Len(s) - Len(r) + k - Len(s)]
      BY <1>2, <1>3, <2>1, <2>3
    <3>3. Len(s) - Len(r) + k - Len(s) = k - Len(r)
      BY <1>3
    <3>4. QED
      BY <3>1, <3>2, <3>3
  <2>4. QED
    BY <2>2, <2>3
<1>5. QED
  BY <1>1, <1>2, <1>3, <1>4

LEMMA InitInv == Init => IInv
<1> SUFFICES ASSUME Init PROVE IInv
  OBVIOUS
<1>1. TypeOK
  BY ProtocolAssumption DEF Init, TypeOK
<1>2. BytesAccounted
  BY DEF Init, BytesAccounted, BufferIsTail, PiecesTile, EndOf, Base
<1>3. NeverStalls
  BY DEF Init, NeverStalls
<1>4. NothingSpent
  BY DEF Init, NothingSpent
<1>5. QED
  BY <1>1, <1>2, <1>3, <1>4 DEF IInv

LEMMA PushInv ==
  ASSUME IInv, NEW chunk \in Chunks, Push(chunk)
  PROVE  IInv'
<1> DEFINE room == N - Len(Released)
           take == IF Len(chunk) < room THEN Len(chunk) ELSE room
           rest == Len(chunk) - take
           taken == SubSeq(chunk, 1, take)
<1>1. TypeOK /\ BytesAccounted
  BY DEF IInv
<1>2. chunk \in Seq(Byte) /\ Len(chunk) \in Nat
  BY ChunksAssumption
<1>3. /\ Released \in Seq(Byte) /\ Len(Released) = Len(buf) - spent
      /\ Len(Released) \in 0 .. N /\ Len(Released) <= Len(stream)
      /\ \A k \in 1 .. Len(Released) :
           Released[k] = stream[Len(stream) - Len(Released) + k]
  BY <1>1, ReleasedIsTail
<1>4. take \in 0 .. Len(chunk) /\ take <= room /\ rest \in Nat
  BY <1>2, <1>3, ProtocolAssumption
<1> HIDE DEF room, take, rest
<1>5. taken \in Seq(Byte) /\ Len(taken) = take
  BY <1>2, <1>4
<1> HIDE DEF taken
<1>6. /\ buf' = Released \o taken /\ stream' = stream \o taken /\ spent' = 0
      /\ stats' = [stats EXCEPT !["bytes_refused"] = SaturatingAdd(@, rest)]
      /\ refused' = refused + rest /\ result' = "push"
      /\ protocol' = protocol /\ pc' = pc /\ log' = log /\ due' = due
  BY DEF Push, room, take, rest, taken
<1>7. /\ buf' \in Seq(Byte) /\ Len(buf') = Len(Released) + take
      /\ stream' \in Seq(Byte) /\ Len(stream') = Len(stream) + take
      /\ \A k \in 1 .. Len(buf') : buf'[k] = stream'[Len(stream') - Len(buf') + k]
  <2>1. stream \in Seq(Byte)
    BY <1>1 DEF TypeOK
  <2>2. LET r == Released
        IN  /\ r \o taken \in Seq(Byte) /\ Len(r \o taken) = Len(r) + Len(taken)
            /\ stream \o taken \in Seq(Byte)
            /\ Len(stream \o taken) = Len(stream) + Len(taken)
            /\ \A k \in 1 .. Len(r \o taken) :
                 (r \o taken)[k] =
                   (stream \o taken)[Len(stream \o taken) - Len(r \o taken) + k]
    BY <1>3, <1>5, <2>1, TailOfConcat
  <2>3. QED
    BY <1>5, <1>6, <2>2
<1>12. Len(buf') <= N
  BY <1>3, <1>4, <1>7, ProtocolAssumption DEF room
<1>8. TypeOK'
  <2>1. stats' \in [Counters -> 0 .. StatMax]
    <3>1. \A a \in 0 .. StatMax : SaturatingAdd(a, rest) \in 0 .. StatMax
      BY <1>4, Saturates
    <3>2. QED
      BY <1>1, <1>6, <3>1 DEF TypeOK, Counters
  <2>2. QED
    BY <1>1, <1>4, <1>6, <1>7, <1>12, <2>1 DEF TypeOK
<1>9. BytesAccounted'
  <2>2. BufferIsTail'
    <3>1. Len(buf') <= Len(stream')
      BY <1>3, <1>4, <1>7
    <3>2. QED
      BY <1>7, <3>1 DEF BufferIsTail, Base
  <2>3. Base' + spent' = Base + spent
    <3>1. /\ Len(buf') = Len(buf) - spent + take /\ spent' = 0
          /\ Len(stream') = Len(stream) + take
      BY <1>3, <1>6, <1>7
    <3>2. Len(buf) \in Int /\ Len(stream) \in Int /\ spent \in Int /\ take \in Int
      BY <1>1, <1>4 DEF TypeOK
    <3>3. QED
      BY <3>1, <3>2 DEF Base
  <2>4. PiecesTile'
    BY <1>1, <1>6, <2>3 DEF BytesAccounted, PiecesTile, EndOf
  <2>5. QED
    BY <2>2, <2>4 DEF BytesAccounted
<1>10. NeverStalls' /\ NothingSpent'
  BY <1>6 DEF NeverStalls, NothingSpent
<1>11. QED
  BY <1>8, <1>9, <1>10 DEF IInv

LEMMA PopCallInv ==
  ASSUME IInv, PopCall
  PROVE  IInv'
<1>1. TypeOK /\ BytesAccounted
  BY DEF IInv
<1>2. /\ Released \in Seq(Byte) /\ Len(Released) = Len(buf) - spent
      /\ Len(Released) \in 0 .. N /\ Len(Released) <= Len(stream)
      /\ \A k \in 1 .. Len(Released) :
           Released[k] = stream[Len(stream) - Len(Released) + k]
  BY <1>1, ReleasedIsTail
<1>3. /\ buf' = Released /\ spent' = 0 /\ pc' = "pop"
      /\ UNCHANGED <<protocol, stats, result, stream, log, refused, due>>
  BY DEF PopCall
<1>4. TypeOK'
  BY <1>1, <1>2, <1>3 DEF TypeOK
<1>5. BytesAccounted'
  <2>1. Base' + spent' = Base + spent
    <3>1. Len(buf') = Len(buf) - spent /\ stream' = stream /\ spent' = 0
      BY <1>2, <1>3
    <3>2. Len(buf) \in Int /\ Len(stream) \in Int /\ spent \in Int
      BY <1>1 DEF TypeOK
    <3>3. QED
      BY <3>1, <3>2 DEF Base
  <2>2. PiecesTile'
    BY <1>1, <1>3, <2>1 DEF BytesAccounted, PiecesTile, EndOf
  <2>3. BufferIsTail'
    BY <1>2, <1>3 DEF BufferIsTail, Base
  <2>4. QED
    BY <2>2, <2>3 DEF BytesAccounted
<1>6. NeverStalls' /\ NothingSpent'
  BY <1>3 DEF NeverStalls, NothingSpent
<1>7. QED
  BY <1>4, <1>5, <1>6 DEF IInv

\* Adding the piece that starts at the buffer keeps the tiling.
LEMMA AppendPiece ==
  ASSUME TypeOK, BytesAccounted, spent = 0,
         NEW n \in 1 .. Len(buf), NEW what \in Integrities \cup Causes,
         log' = Append(log, [at |-> Base, len |-> n, what |-> what])
  PROVE  /\ log' \in Seq(Piece)
         /\ \A i \in 1 .. Len(log') : log'[i].at = EndOf(i - 1)' /\ log'[i].len >= 1
         /\ EndOf(Len(log))' = Base + n
<1> DEFINE piece == [at |-> Base, len |-> n, what |-> what]
<1>1. Base \in Nat /\ n \in Nat /\ n >= 1
  BY DEF TypeOK, BytesAccounted, BufferIsTail, Base
<1>2. piece \in Piece /\ piece.at = Base /\ piece.len = n
  BY <1>1 DEF Piece
<1> HIDE DEF piece
<1>3. log \in Seq(Piece) /\ log' = Append(log, piece)
  BY DEF TypeOK, piece
<1>4. /\ log' \in Seq(Piece) /\ Len(log') = Len(log) + 1 /\ Len(log) \in Nat
      /\ \A i \in 1 .. Len(log) : log'[i] = log[i]
      /\ log'[Len(log) + 1] = piece
  BY <1>2, <1>3, AppendProperties
<1>5. \A i \in 0 .. Len(log) : EndOf(i)' = EndOf(i)
  BY <1>4 DEF EndOf
<1>6. EndOf(Len(log)) = Base
  BY <1>1 DEF BytesAccounted, PiecesTile, TypeOK
<1>7. EndOf(Len(log))' = Base + n
  BY <1>1, <1>2, <1>4 DEF EndOf
<1>8. ASSUME NEW i \in 1 .. Len(log')
      PROVE  log'[i].at = EndOf(i - 1)' /\ log'[i].len >= 1
  <2>1. CASE i <= Len(log)
    BY <1>4, <1>5, <2>1 DEF BytesAccounted, PiecesTile
  <2>2. CASE i = Len(log) + 1
    BY <1>1, <1>2, <1>4, <1>5, <1>6, <2>2
  <2>3. QED
    BY <1>4, <2>1, <2>2
<1>9. QED
  BY <1>4, <1>5, <1>6, <1>7, <1>8

LEMMA PopDesyncInv ==
  ASSUME IInv, PopDesync
  PROVE  IInv'
<1> DEFINE r == Parse(protocol, buf)
           n == r.n
<1>1. TypeOK /\ BytesAccounted /\ spent = 0 /\ pc = "pop"
  BY DEF IInv, NothingSpent, PopDesync
<1>2. buf \in Seq(Byte) /\ stream \in Seq(Byte)
  BY <1>1 DEF TypeOK
<1>3. r.kind = "Desync" /\ n \in 1 .. Len(buf) /\ r.what \in Causes
  <2>1. Answer(protocol, buf, r)
    BY <1>1, ParseAnswer DEF TypeOK
  <2>2. QED
    BY <2>1 DEF PopDesync, Answer
<1>4. /\ buf' = From(buf, n)
      /\ stats' = [stats EXCEPT
           !["bytes_discarded"] = SaturatingAdd(@, n),
           !["checksum_errors"] = IF r.what = "Checksum" THEN SaturatingAdd(@, 1) ELSE @,
           !["unmeasurable"] = IF r.what = "Unmeasurable" THEN SaturatingAdd(@, 1) ELSE @]
      /\ log' = Append(log, [at |-> Base, len |-> n, what |-> r.what])
      /\ UNCHANGED <<protocol, spent, pc, result, stream, refused, due>>
  <2>1. n = IF (IF n < 1 THEN 1 ELSE n) < Len(buf) THEN (IF n < 1 THEN 1 ELSE n) ELSE Len(buf)
    BY <1>2, <1>3
  <2>2. QED
    BY <2>1 DEF PopDesync
<1> HIDE DEF r
<1>5. /\ buf' \in Seq(Byte) /\ Len(buf') = Len(buf) - n
      /\ \A k \in 1 .. Len(buf) - n : buf'[k] = buf[n + k]
  <2>1. n \in 0 .. Len(buf)
    BY <1>2, <1>3
  <2>2. QED
    BY <1>2, <1>4, <2>1, FromProperties
<1>6. /\ log' \in Seq(Piece)
      /\ \A i \in 1 .. Len(log') : log'[i].at = EndOf(i - 1)' /\ log'[i].len >= 1
      /\ EndOf(Len(log))' = Base + n
  BY <1>1, <1>3, <1>4, AppendPiece
<1>7. TypeOK'
  <2>1. stats' \in [Counters -> 0 .. StatMax]
    <3> DEFINE dropped == SaturatingAdd(stats["bytes_discarded"], n)
               errors == IF r.what = "Checksum"
                         THEN SaturatingAdd(stats["checksum_errors"], 1)
                         ELSE stats["checksum_errors"]
               unknown == IF r.what = "Unmeasurable"
                          THEN SaturatingAdd(stats["unmeasurable"], 1)
                          ELSE stats["unmeasurable"]
    <3>1. stats \in [Counters -> 0 .. StatMax]
      BY <1>1 DEF TypeOK
    <3>2. \A c \in Counters : stats[c] \in 0 .. StatMax
      BY <3>1
    <3>3. dropped \in 0 .. StatMax
      <4>1. stats["bytes_discarded"] \in 0 .. StatMax
        BY <3>2 DEF Counters
      <4>2. n \in Nat
        BY <1>2, <1>3
      <4>3. QED
        BY <4>1, <4>2, Saturates
    <3>4. errors \in 0 .. StatMax /\ unknown \in 0 .. StatMax
      BY <3>2, Saturates DEF Counters
    <3>5. stats' = [stats EXCEPT !["bytes_discarded"] = dropped,
                                 !["checksum_errors"] = errors,
                                 !["unmeasurable"] = unknown]
      BY <1>4, <3>1 DEF Counters
    <3> HIDE DEF dropped, errors, unknown
    <3>6. QED
      BY <3>1, <3>3, <3>4, <3>5 DEF Counters
  <2>2. Len(buf') <= N /\ spent' \in 0 .. Len(buf')
    BY <1>1, <1>2, <1>3, <1>4, <1>5, ProtocolAssumption DEF TypeOK
  <2>3. QED
    BY <1>1, <1>4, <1>5, <1>6, <2>1, <2>2 DEF TypeOK
<1>8. BytesAccounted'
  <2>1. Base' = Base + n /\ spent' = 0
    BY <1>1, <1>2, <1>3, <1>4, <1>5 DEF Base
  <2>2. PiecesTile'
    BY <1>1, <1>2, <1>3, <1>6, <2>1 DEF PiecesTile, Base
  <2>3. BufferIsTail'
    <3>1. /\ Len(buf) <= Len(stream)
          /\ \A k \in 1 .. Len(buf) : buf[k] = stream[Base + k]
      BY <1>1 DEF BytesAccounted, BufferIsTail
    <3>2. Len(buf') <= Len(stream') /\ stream' = stream
      BY <1>2, <1>3, <1>4, <1>5, <3>1
    <3>3. ASSUME NEW k \in 1 .. Len(buf')
          PROVE  buf'[k] = stream'[Base' + k]
      <4>1. n + k \in 1 .. Len(buf) /\ k \in 1 .. Len(buf) - n
        BY <1>2, <1>3, <1>5
      <4>2. buf'[k] = stream[Base + (n + k)]
        BY <1>5, <3>1, <4>1
      <4>3. Base + (n + k) = Base' + k
        <5>1. Base \in Int
          BY <1>2 DEF Base
        <5>2. n \in Int /\ k \in Int
          BY <1>2, <1>3, <4>1
        <5>3. Base' = Base + n
          BY <2>1
        <5>4. QED
          BY <5>1, <5>2, <5>3
      <4>4. QED
        BY <3>2, <4>2, <4>3
    <3>4. QED
      BY <3>2, <3>3 DEF BufferIsTail
  <2>4. QED
    BY <2>2, <2>3 DEF BytesAccounted
<1>9. NeverStalls' /\ NothingSpent'
  BY <1>1, <1>4 DEF NeverStalls, NothingSpent
<1>10. QED
  BY <1>7, <1>8, <1>9 DEF IInv

LEMMA PopIncompleteInv ==
  ASSUME IInv, PopIncomplete
  PROVE  IInv'
<1> DEFINE r == Parse(protocol, buf)
<1>1. TypeOK /\ BytesAccounted /\ spent = 0
  BY DEF IInv, NothingSpent, PopIncomplete
<1>2. r.n \in Nat /\ Len(buf) < N
  <2>1. Answer(protocol, buf, r)
    BY <1>1, ParseAnswer DEF TypeOK
  <2>2. QED
    BY <2>1 DEF PopIncomplete, Answer
<1>3. /\ pc' = "idle" /\ result' = "none" /\ due' = Len(stream) + r.n
      /\ UNCHANGED <<protocol, buf, spent, stats, stream, log, refused>>
  BY DEF PopIncomplete
<1> HIDE DEF r
<1>4. TypeOK'
  BY <1>1, <1>2, <1>3 DEF TypeOK
<1>5. BytesAccounted'
  BY <1>1, <1>3 DEF BytesAccounted, BufferIsTail, PiecesTile, EndOf, Base
<1>6. NeverStalls' /\ NothingSpent'
  BY <1>1, <1>2, <1>3 DEF NeverStalls, NothingSpent
<1>7. QED
  BY <1>4, <1>5, <1>6 DEF IInv

LEMMA PopFrameInv ==
  ASSUME IInv, PopFrame
  PROVE  IInv'
<1> DEFINE r == Parse(protocol, buf)
<1>1. TypeOK /\ BytesAccounted /\ spent = 0 /\ pc = "pop"
  BY DEF IInv, NothingSpent, PopFrame
<1>2. r.n \in 1 .. Len(buf) /\ r.what \in Integrities
  <2>1. Answer(protocol, buf, r) /\ protocol \in Protocols /\ Len(buf) \in Nat
    BY <1>1, ParseAnswer DEF TypeOK
  <2>2. QED
    BY <2>1, ProtocolBounds DEF PopFrame, Answer, Framed
<1>3. /\ spent' = r.n
      /\ stats' = [stats EXCEPT
           !["frames"] = SaturatingAdd(@, 1),
           !["checksum_errors"] = IF r.what = "Corrupt" THEN SaturatingAdd(@, 1) ELSE @]
      /\ pc' = "idle" /\ result' = "some"
      /\ log' = Append(log, [at |-> Base, len |-> r.n, what |-> r.what])
      /\ UNCHANGED <<protocol, buf, stream, refused, due>>
  BY DEF PopFrame
<1> HIDE DEF r
<1>4. /\ log' \in Seq(Piece)
      /\ \A i \in 1 .. Len(log') : log'[i].at = EndOf(i - 1)' /\ log'[i].len >= 1
      /\ EndOf(Len(log))' = Base + r.n
  BY <1>1, <1>2, <1>3, AppendPiece
<1>5. TypeOK'
  <2>1. stats' \in [Counters -> 0 .. StatMax]
    <3>1. \A a \in 0 .. StatMax : SaturatingAdd(a, 1) \in 0 .. StatMax
      BY Saturates
    <3>2. QED
      BY <1>1, <1>3, <3>1 DEF TypeOK, Counters
  <2>2. QED
    BY <1>1, <1>2, <1>3, <1>4, <2>1 DEF TypeOK
<1>6. BytesAccounted'
  <2>1. Base' = Base
    BY <1>3 DEF Base
  <2>2. PiecesTile'
    BY <1>3, <1>4, <2>1 DEF PiecesTile
  <2>3. BufferIsTail'
    BY <1>1, <1>3, <2>1 DEF BytesAccounted, BufferIsTail
  <2>4. QED
    BY <2>2, <2>3 DEF BytesAccounted
<1>7. NeverStalls' /\ NothingSpent'
  BY <1>3 DEF NeverStalls, NothingSpent
<1>8. QED
  BY <1>5, <1>6, <1>7 DEF IInv

LEMMA NextInv == IInv /\ [Next]_vars => IInv'
<1> SUFFICES ASSUME IInv, [Next]_vars PROVE IInv'
  OBVIOUS
<1>1. CASE \E chunk \in Chunks : Push(chunk)
  BY <1>1, PushInv
<1>2. CASE PopCall
  BY <1>2, PopCallInv
<1>3. CASE PopDesync
  BY <1>3, PopDesyncInv
<1>4. CASE PopIncomplete
  BY <1>4, PopIncompleteInv
<1>5. CASE PopFrame
  BY <1>5, PopFrameInv
<1>6. CASE UNCHANGED vars
  BY <1>6 DEF vars, IInv, TypeOK, BytesAccounted, BufferIsTail, PiecesTile, EndOf, Base,
              NeverStalls, NothingSpent
<1>7. QED
  BY <1>1, <1>2, <1>3, <1>4, <1>5, <1>6 DEF Next, PopTurn

LEMMA Invariance == Spec => []IInv
<1>1. QED
  BY InitInv, NextInv, PTL DEF Spec

\* The decoder's fields keep their types and bounds: len never passes the
\* capacity N, spent never passes len, and no counter passes u64::MAX.
THEOREM TypeCorrect == Spec => []TypeOK
<1>1. IInv => TypeOK
  BY DEF IInv
<1>2. QED
  BY <1>1, Invariance, PTL

\* Every byte push took is, in order and once, in a returned frame, in a
\* discarded piece, or still in the buffer.
THEOREM Accounting == Spec => []BytesAccounted
<1>1. IInv => BytesAccounted
  BY DEF IInv
<1>2. QED
  BY <1>1, Invariance, PTL

\* pop never answers None with a full buffer, for any FrameSpec whatever its
\* measure answers: the decoder cannot wedge itself.
THEOREM Unstalled == Spec => []NeverStalls
<1>1. IInv => NeverStalls
  BY DEF IInv
<1>2. QED
  BY <1>1, Invariance, PTL

(* ---------------------------------------------------------------------- *)
(* The decoder implements Framing                                           *)

\* The abstract end of the cut is where the buffer starts, while nothing is spent.
LEMMA CutEndIsBase ==
  ASSUME TypeOK, BytesAccounted, spent = 0
  PROVE  Abstract!CutEnd = Base /\ Base \in Nat /\ Base + Len(buf) = Len(stream)
<1>1. Base \in Nat /\ Base + Len(buf) = Len(stream)
  BY DEF TypeOK, BytesAccounted, BufferIsTail, Base
<1>2. EndOf(Len(log)) = Base
  BY <1>1 DEF TypeOK, BytesAccounted, PiecesTile
<1>3. log = <<>> <=> Len(log) = 0
  BY EmptySeq DEF TypeOK
<1>4. QED
  BY <1>1, <1>2, <1>3 DEF Abstract!CutEnd, EndOf

\* The bytes at the start of the buffer are the bytes of the stream at Base.
LEMMA BufferInStream ==
  ASSUME TypeOK, BytesAccounted, NEW n \in 1 .. Len(buf)
  PROVE  SubSeq(buf, 1, n) = SubSeq(stream, Base + 1, Base + n)
<1> DEFINE b == SubSeq(buf, 1, n)
           s == SubSeq(stream, Base + 1, Base + n)
<1>1. /\ buf \in Seq(Byte) /\ stream \in Seq(Byte)
      /\ Base \in Nat /\ Base + Len(buf) = Len(stream)
      /\ \A k \in 1 .. Len(buf) : buf[k] = stream[Base + k]
  BY DEF TypeOK, BytesAccounted, BufferIsTail, Base
<1> HIDE DEF Base
<1>2. b \in Seq(Byte) /\ Len(b) = n /\ \A k \in 1 .. n : b[k] = buf[k]
  BY <1>1
<1>3. s \in Seq(Byte) /\ Len(s) = n /\ \A k \in 1 .. n : s[k] = stream[Base + k]
  BY <1>1
<1>4. QED
  <2> HIDE DEF b, s
  <2>1. \A k \in 1 .. Len(b) : b[k] = s[k]
    <3>1. \A k \in 1 .. n : k \in 1 .. Len(buf)
      BY <1>1
    <3>2. \A k \in 1 .. n : b[k] = s[k]
      BY <1>1, <1>2, <1>3, <3>1
    <3>3. QED
      BY <1>2, <3>2
  <2>2. b = s
    BY <1>2, <1>3, <2>1, SeqEqual
  <2>3. QED
    BY <2>2 DEF b, s

LEMMA PushArrives ==
  ASSUME IInv, NEW chunk \in Chunks, Push(chunk)
  PROVE  Abstract!Arrive
<1> DEFINE room == N - Len(Released)
           take == IF Len(chunk) < room THEN Len(chunk) ELSE room
           taken == SubSeq(chunk, 1, take)
<1>1. stream' = stream \o taken /\ UNCHANGED <<protocol, log>>
  BY DEF Push
<1>2. stream \in Seq(Byte) /\ Len(Released) \in 0 .. N /\ Len(Released) \in Nat
  BY ReleasedIsTail, ProtocolAssumption DEF IInv, TypeOK
<1>3. taken \in Seq(Byte)
  <2>1. chunk \in Seq(Byte) /\ Len(chunk) \in Nat
    BY ChunksAssumption
  <2>2. take \in 0 .. Len(chunk)
    BY <1>2, <2>1, ProtocolAssumption
  <2>3. QED
    BY <2>1, <2>2
<1> HIDE DEF taken
<1>4. /\ stream \o taken \in Seq(Byte)
      /\ Len(stream) <= Len(stream \o taken)
      /\ SubSeq(stream \o taken, 1, Len(stream)) = stream
  <2> DEFINE whole == stream \o taken
             front == SubSeq(whole, 1, Len(stream))
  <2>1. /\ whole \in Seq(Byte) /\ Len(whole) = Len(stream) + Len(taken)
        /\ \A k \in 1 .. Len(stream) : whole[k] = stream[k]
    BY <1>2, <1>3, ConcatProperties
  <2>2. Len(stream) \in Nat /\ Len(taken) \in Nat
    BY <1>2, <1>3
  <2> HIDE DEF whole
  <2>3. /\ front \in Seq(Byte) /\ Len(front) = Len(stream)
        /\ \A k \in 1 .. Len(stream) : front[k] = stream[k]
    BY <2>1, <2>2
  <2> HIDE DEF front
  <2>4. front = stream
    BY <1>2, <2>3, SeqEqual
  <2>5. QED
    BY <2>1, <2>2, <2>4 DEF front, whole
<1>5. QED
  BY <1>1, <1>4 DEF Abstract!Arrive

\* A piece logged at the buffer's start, with the verdict of parse, is a Cut.
LEMMA PieceIsCut ==
  ASSUME TypeOK, BytesAccounted, spent = 0,
         NEW n \in 1 .. Len(buf), NEW what \in Integrities \cup Causes,
         what \in Integrities => Framed(protocol, buf, n, what),
         what = "Checksum" => OnCorrupt[protocol] = "Resync",
         log' = Append(log, [at |-> Base, len |-> n, what |-> what]),
         UNCHANGED <<protocol, stream>>
  PROVE  Abstract!Cut
<1>1. Abstract!CutEnd = Base /\ Base \in Nat /\ Base + Len(buf) = Len(stream)
  BY CutEndIsBase
<1>2. n \in 1 .. Len(stream) - Abstract!CutEnd
  <2>1. Len(buf) \in Int /\ Len(stream) \in Int /\ Base \in Int
    BY <1>1 DEF TypeOK
  <2>2. QED
    BY <1>1, <2>1
<1>3. what \in Abstract!Integrities \cup Abstract!Causes
  BY DEF Integrities, Causes, Abstract!Integrities, Abstract!Causes
<1>4. ASSUME what \in Abstract!Integrities
      PROVE  Abstract!Returnable(SubSeq(stream, Abstract!CutEnd + 1, Abstract!CutEnd + n), what)
  <2>1. Framed(protocol, buf, n, what)
    BY <1>4 DEF Integrities, Abstract!Integrities
  <2>2. Len(SubSeq(buf, 1, n)) = n
    BY DEF TypeOK
  <2>3. Abstract!Returnable(SubSeq(buf, 1, n), what)
    BY <2>1, <2>2 DEF Framed, Abstract!Returnable
  <2>4. QED
    BY <1>1, <2>3, BufferInStream
<1>5. log' = Append(log, [at |-> Abstract!CutEnd, len |-> n, what |-> what])
  BY <1>1
<1>6. QED
  BY <1>2, <1>3, <1>4, <1>5 DEF Abstract!Cut

LEMMA PopDesyncCuts ==
  ASSUME IInv, PopDesync
  PROVE  Abstract!Cut
<1> DEFINE r == Parse(protocol, buf)
           n == r.n
<1>1. TypeOK /\ BytesAccounted /\ spent = 0
  BY DEF IInv, NothingSpent, PopDesync
<1>2. Len(buf) \in Nat
  BY <1>1 DEF TypeOK
<1>3. /\ n \in 1 .. Len(buf) /\ r.what \in Causes
      /\ r.what = "Checksum" => OnCorrupt[protocol] = "Resync"
  <2>1. Answer(protocol, buf, r)
    BY <1>1, ParseAnswer DEF TypeOK
  <2>2. QED
    BY <2>1 DEF PopDesync, Answer
<1>4. /\ log' = Append(log, [at |-> Base, len |-> n, what |-> r.what])
      /\ UNCHANGED <<protocol, stream>>
  <2>1. n = IF (IF n < 1 THEN 1 ELSE n) < Len(buf) THEN (IF n < 1 THEN 1 ELSE n) ELSE Len(buf)
    BY <1>2, <1>3
  <2>2. QED
    BY <2>1 DEF PopDesync
<1> HIDE DEF r
<1>5. r.what \notin Integrities
  BY <1>3 DEF Causes, Integrities
<1>6. QED
  BY <1>1, <1>3, <1>4, <1>5, PieceIsCut

LEMMA PopFrameCuts ==
  ASSUME IInv, PopFrame
  PROVE  Abstract!Cut
<1> DEFINE r == Parse(protocol, buf)
<1>1. TypeOK /\ BytesAccounted /\ spent = 0
  BY DEF IInv, NothingSpent, PopFrame
<1>2. Framed(protocol, buf, r.n, r.what)
  <2>1. Answer(protocol, buf, r)
    BY <1>1, ParseAnswer DEF TypeOK
  <2>2. QED
    BY <2>1 DEF PopFrame, Answer
<1>3. r.n \in 1 .. Len(buf) /\ r.what \in Integrities
  <2>1. protocol \in Protocols /\ Len(buf) \in Nat
    BY <1>1 DEF TypeOK
  <2>2. QED
    BY <1>2, <2>1, ProtocolBounds DEF Framed
<1>4. /\ log' = Append(log, [at |-> Base, len |-> r.n, what |-> r.what])
      /\ UNCHANGED <<protocol, stream>>
  BY DEF PopFrame
<1> HIDE DEF r
<1>5. r.what # "Checksum"
  BY <1>3 DEF Integrities
<1>6. QED
  BY <1>1, <1>2, <1>3, <1>4, <1>5, PieceIsCut

\* The Decoder implements Framing for every protocol: a verified frame it returns
\* passed verify on the very bytes of the stream it stands for, and what it has
\* cut from the stream it never takes back.
THEOREM Refinement == Spec => ImplementsFraming
<1>1. Init => Abstract!Init
  BY DEF Init, Abstract!Init
<1>2. IInv /\ [Next]_vars => [Abstract!Next]_(Abstract!vars)
  <2> SUFFICES ASSUME IInv, [Next]_vars
               PROVE  Abstract!Next \/ UNCHANGED Abstract!vars
    OBVIOUS
  <2>1. CASE \E chunk \in Chunks : Push(chunk)
    BY <2>1, PushArrives DEF Abstract!Next
  <2>2. CASE PopCall
    BY <2>2 DEF PopCall, Abstract!vars
  <2>3. CASE PopDesync
    BY <2>3, PopDesyncCuts DEF Abstract!Next
  <2>4. CASE PopIncomplete
    BY <2>4 DEF PopIncomplete, Abstract!vars
  <2>5. CASE PopFrame
    BY <2>5, PopFrameCuts DEF Abstract!Next
  <2>6. CASE UNCHANGED vars
    BY <2>6 DEF vars, Abstract!vars
  <2>7. QED
    BY <2>1, <2>2, <2>3, <2>4, <2>5, <2>6 DEF Next, PopTurn
<1>3. QED
  BY <1>1, <1>2, Invariance, PTL DEF Spec, ImplementsFraming, Abstract!Spec

(* ---------------------------------------------------------------------- *)
(* What parse answers, and what stands of it when more arrives               *)

Bounded(b) == b \in Seq(Byte) /\ (Len(b) <= N \/ Len(b) <= MaxOffered)

\* The frame's length is one the protocol has.
Sized(p, m) == m.kind = "Frame" /\ m.n \in HeaderLen[p] .. MaxFrame[p]

\* All of the frame is there, and parse returns it.
Sound(p, f) ==
  /\ Body(p, f)[1] <= Body(p, f)[2] /\ Body(p, f)[2] <= Len(f)
  /\ Verify(p, f) \/ OnCorrupt[p] = "Consume"

First(p, b) == SubSeq(b, 1, Measure(p, b).n)

Whole(p, b) == Sized(p, Measure(p, b)) /\ Measure(p, b).n <= Len(b) /\ Sound(p, First(p, b))

\* No frame starts at a candidate, and none ever will.
Dead(p, b) ==
  \/ Measure(p, b).kind \in {"Reject", "Unmeasurable"}
  \/ Measure(p, b).kind = "More" /\ MaxFrame[p] <= Len(b)
  \/ Measure(p, b).kind = "Frame" /\ ~Sized(p, Measure(p, b))
  \/ Sized(p, Measure(p, b)) /\ Measure(p, b).n <= Len(b) /\ ~Sound(p, First(p, b))

\* One may yet be there.
Open(p, b) ==
  \/ Measure(p, b).kind = "More" /\ Len(b) < MaxFrame[p]
  \/ Sized(p, Measure(p, b)) /\ Len(b) < Measure(p, b).n

Verdict(p, f) == IF Verify(p, f) THEN "Verified" ELSE "Corrupt"

LEMMA MeasureTypes ==
  ASSUME NEW p \in Protocols, NEW b, Bounded(b), CandidateLen[p] <= Len(b)
  PROVE  /\ Measure(p, b).kind \in {"Frame", "More", "Reject", "Unmeasurable"}
         /\ Measure(p, b).n \in Nat
         /\ Len(b) \in Nat /\ b \in Seq(Byte) /\ 1 <= Len(b)
<1>1. b \in Seq(Byte) /\ Len(b) \in Nat /\ 1 <= Len(b)
  BY ProtocolBounds DEF Bounded
<1>2. b \in BoundedBytes(N) \cup BoundedBytes(MaxOffered)
  <2>1. b \in [1 .. Len(b) -> Byte]
    BY <1>1, LenProperties
  <2>2. CASE Len(b) <= N
    <3>1. Len(b) \in 0 .. N
      BY <1>1, <2>2, ProtocolAssumption
    <3> QED BY <2>1, <3>1 DEF BoundedBytes
  <2>3. CASE Len(b) <= MaxOffered
    <3>1. Len(b) \in 0 .. MaxOffered
      BY <1>1, <2>3, ProtocolAssumption
    <3> QED BY <2>1, <3>1 DEF BoundedBytes
  <2> QED BY <2>2, <2>3 DEF Bounded
<1>3. Measure(p, b) \in Measures
  BY <1>2, MethodAssumption
<1> QED BY <1>1, <1>3 DEF Measures

LEMMA MeasuredIs ==
  ASSUME NEW p \in Protocols, NEW b, Bounded(b), CandidateLen[p] <= Len(b)
  PROVE  /\ Whole(p, b) \/ Dead(p, b) \/ Open(p, b)
         /\ Whole(p, b) => /\ Measured(p, b).kind = "Frame"
                           /\ Measured(p, b).n = Measure(p, b).n
                           /\ Measured(p, b).what = Verdict(p, First(p, b))
         /\ Dead(p, b) => /\ Measured(p, b).kind = "Desync" /\ Measured(p, b).n = 1
                          /\ Measured(p, b).what \notin Integrities
         /\ Open(p, b) => \E need \in Nat \ {0} : Measured(p, b) = Pending(p, b, need)
<1> DEFINE m == Measure(p, b)
           f == First(p, b)
           r == Measured(p, b)
<1>1. /\ m.kind \in {"Frame", "More", "Reject", "Unmeasurable"} /\ m.n \in Nat
      /\ Len(b) \in Nat /\ b \in Seq(Byte) /\ 1 <= Len(b)
  BY MeasureTypes
<1>2. HeaderLen[p] \in Nat /\ MaxFrame[p] \in Nat /\ 1 <= HeaderLen[p]
      /\ OnCorrupt[p] \in {"Resync", "Consume"}
  BY ProtocolBounds
<1>3. CASE m.kind \in {"Reject", "Unmeasurable"}
  <2>1. r.kind = "Desync" /\ r.n = 1 /\ r.what \notin Integrities
    BY <1>3 DEF Measured, Desync, Integrities
  <2>2. Dead(p, b) /\ ~Whole(p, b) /\ ~Open(p, b)
    BY <1>3 DEF Dead, Whole, Open, Sized
  <2> QED BY <2>1, <2>2
<1>4. CASE m.kind = "More" /\ MaxFrame[p] <= Len(b)
  <2>1. r = Desync(1, "Unbounded")
    BY <1>1, <1>2, <1>4 DEF Measured
  <2>2. r.kind = "Desync" /\ r.n = 1 /\ r.what \notin Integrities
    BY <2>1 DEF Desync, Integrities
  <2>3. Dead(p, b) /\ ~Whole(p, b) /\ ~Open(p, b)
    BY <1>1, <1>2, <1>4 DEF Dead, Whole, Open, Sized
  <2> QED BY <2>2, <2>3
<1>5. CASE m.kind = "More" /\ Len(b) < MaxFrame[p]
  <2> DEFINE need == IF m.n = 0 THEN 1 ELSE m.n
  <2>1. need \in Nat \ {0}
    BY <1>1
  <2>2. r = Pending(p, b, need)
    BY <1>1, <1>2, <1>5 DEF Measured
  <2>3. Open(p, b) /\ ~Whole(p, b) /\ ~Dead(p, b)
    BY <1>1, <1>2, <1>5 DEF Dead, Whole, Open, Sized
  <2> HIDE DEF need
  <2> QED BY <2>1, <2>2, <2>3
<1>6. CASE m.kind = "Frame" /\ ~Sized(p, m)
  <2>1. m.n > MaxFrame[p] \/ m.n < HeaderLen[p]
    BY <1>1, <1>2, <1>6 DEF Sized
  <2>2. r = Desync(1, "TooLarge") \/ r = Desync(1, "BadHeader")
    BY <1>6, <2>1 DEF Measured
  <2>3. r.kind = "Desync" /\ r.n = 1 /\ r.what \notin Integrities
    BY <2>2 DEF Desync, Integrities
  <2>4. Dead(p, b) /\ ~Whole(p, b) /\ ~Open(p, b)
    BY <1>6 DEF Dead, Whole, Open
  <2> QED BY <2>3, <2>4
<1>7. CASE Sized(p, m) /\ Len(b) < m.n
  <2>1. r = Pending(p, b, m.n - Len(b))
    BY <1>1, <1>2, <1>7 DEF Measured, Sized
  <2>2. m.n - Len(b) \in Nat \ {0}
    BY <1>1, <1>7
  <2>3. Open(p, b) /\ ~Whole(p, b) /\ ~Dead(p, b)
    BY <1>1, <1>7 DEF Dead, Whole, Open, Sized
  <2> QED BY <2>1, <2>2, <2>3
<1>8. CASE Sized(p, m) /\ m.n <= Len(b)
  <2>1. r = Complete(p, f)
    BY <1>1, <1>2, <1>8 DEF Measured, Sized, First
  <2>2. Len(f) = m.n /\ f \in Seq(Byte)
    BY <1>1, <1>8 DEF First
  <2>3. ~Open(p, b)
    BY <1>1, <1>8 DEF Open, Sized
  <2>4. CASE Sound(p, f)
    <3>1. Whole(p, b) /\ ~Dead(p, b)
      BY <1>1, <1>2, <1>8, <2>4 DEF Whole, Dead, Sized
    <3>2. ~(Body(p, f)[1] > Body(p, f)[2] \/ Body(p, f)[2] > Len(f))
      <4>1. Body(p, f) \in Nat \X Nat
        <5>1. m.n \in HeaderLen[p] .. MaxFrame[p] /\ m.n <= N
          BY <1>8, ProtocolBounds DEF Sized
        <5>2. f \in BoundedBytes(N)
          BY <2>2, <5>1, BufferIsBounded
        <5> QED BY <2>2, <5>1, <5>2, MethodAssumption
      <4> HIDE DEF f
      <4> QED BY <1>1, <2>2, <2>4, <4>1 DEF Sound
    <3> HIDE DEF f, r
    <3>3. r = Frame(Len(f), Body(p, f), Verdict(p, f))
      <4>1. CASE Verify(p, f)
        BY <2>1, <3>2, <4>1 DEF Complete, Verdict
      <4>2. CASE ~Verify(p, f)
        <5>1. OnCorrupt[p] # "Resync"
          BY <2>4, <4>2 DEF Sound
        <5> QED BY <2>1, <3>2, <4>2, <5>1 DEF Complete, Verdict
      <4> QED BY <4>1, <4>2
    <3>4. r.kind = "Frame" /\ r.n = m.n /\ r.what = Verdict(p, f)
      BY <2>2, <3>3 DEF Frame
    <3> QED BY <2>3, <3>1, <3>4 DEF f, r
  <2>5. CASE ~Sound(p, f)
    <3>1. Dead(p, b) /\ ~Whole(p, b)
      BY <1>8, <2>5 DEF Whole, Dead
    <3> HIDE DEF f, r
    <3>2. r = Desync(1, "BadHeader") \/ r = Desync(1, "Checksum")
      <4>1. CASE Body(p, f)[1] > Body(p, f)[2] \/ Body(p, f)[2] > Len(f)
        BY <2>1, <4>1 DEF Complete
      <4>2. CASE ~(Body(p, f)[1] > Body(p, f)[2] \/ Body(p, f)[2] > Len(f))
        <5>1. Body(p, f) \in Nat \X Nat
          <6>1. m.n \in HeaderLen[p] .. MaxFrame[p] /\ m.n <= N
            BY <1>8, ProtocolBounds DEF Sized
          <6>2. f \in BoundedBytes(N)
            BY <2>2, <6>1, BufferIsBounded
          <6> QED BY <2>2, <6>1, <6>2, MethodAssumption
        <5>2. Body(p, f)[1] <= Body(p, f)[2] /\ Body(p, f)[2] <= Len(f)
          BY <1>1, <2>2, <4>2, <5>1
        <5>3. ~Verify(p, f) /\ OnCorrupt[p] # "Consume"
          BY <2>5, <5>2 DEF Sound
        <5>4. OnCorrupt[p] = "Resync"
          BY <1>2, <5>3
        <5> QED BY <2>1, <4>2, <5>3, <5>4 DEF Complete
      <4> QED BY <4>1, <4>2
    <3>3. r.kind = "Desync" /\ r.n = 1 /\ r.what \notin Integrities
      BY <3>2 DEF Desync, Integrities
    <3> QED BY <2>3, <3>1, <3>3 DEF r
  <2> QED BY <2>4, <2>5
<1> QED
  <2>1. m.kind = "Frame" => Sized(p, m) \/ ~Sized(p, m)
    OBVIOUS
  <2>2. Sized(p, m) => Len(b) < m.n \/ m.n <= Len(b)
    BY <1>1
  <2>3. m.kind = "More" => MaxFrame[p] <= Len(b) \/ Len(b) < MaxFrame[p]
    BY <1>1, <1>2
  <2> HIDE DEF m
  <2> QED BY <1>1, <1>3, <1>4, <1>5, <1>6, <1>7, <1>8, <2>2, <2>3

\* a is the start of b.
Begins(a, b) == Len(a) <= Len(b) /\ a = SubSeq(b, 1, Len(a))

LEMMA BeginsIs ==
  ASSUME NEW a \in Seq(Byte), NEW b \in Seq(Byte), Len(a) <= Len(b),
         \A k \in 1 .. Len(a) : a[k] = b[k]
  PROVE  Begins(a, b)
<1> DEFINE c == SubSeq(b, 1, Len(a))
<1>1. Len(a) \in Nat /\ c \in Seq(Byte) /\ Len(c) = Len(a) /\ \A k \in 1 .. Len(a) : c[k] = b[k]
  OBVIOUS
<1> HIDE DEF c
<1>2. a = c
  BY <1>1, SeqEqual
<1> QED BY <1>2 DEF Begins, c

LEMMA FirstStands ==
  ASSUME NEW a \in Seq(Byte), NEW b \in Seq(Byte), Begins(a, b), NEW n \in 0 .. Len(a)
  PROVE  SubSeq(a, 1, n) = SubSeq(b, 1, n)
<1> DEFINE x == SubSeq(a, 1, n)
           y == SubSeq(b, 1, n)
<1>1. Len(a) \in Nat /\ Len(b) \in Nat /\ Len(a) <= Len(b) /\ n \in Nat /\ n <= Len(a)
  BY DEF Begins
<1>2. \A k \in 1 .. Len(a) : a[k] = b[k]
  <2> DEFINE c == SubSeq(b, 1, Len(a))
  <2>1. \A k \in 1 .. Len(a) : c[k] = b[k]
    BY <1>1
  <2> HIDE DEF c
  <2> QED BY <2>1 DEF Begins, c
<1>3. /\ x \in Seq(Byte) /\ Len(x) = n /\ \A k \in 1 .. n : x[k] = a[k]
      /\ y \in Seq(Byte) /\ Len(y) = n /\ \A k \in 1 .. n : y[k] = b[k]
  BY <1>1
<1> HIDE DEF x, y
<1>4. \A k \in 1 .. n : x[k] = y[k]
  BY <1>1, <1>2, <1>3
<1> QED BY <1>1, <1>3, <1>4, SeqEqual DEF x, y

LEMMA ContractStands ==
  ASSUME NEW p \in Protocols, NEW a \in Seq(Byte), NEW b \in Seq(Byte), Begins(a, b),
         CandidateLen[p] <= Len(a), Len(b) <= MaxOffered
  PROVE  /\ Candidate(p, a) = Candidate(p, b)
         /\ Measure(p, a).kind # "More" => Measure(p, b) = Measure(p, a)
         /\ Measure(p, a).kind = "More" /\ Measure(p, b).kind = "Frame" =>
              Measure(p, b).n \notin HeaderLen[p] .. Len(a)
<1>1. b \in BoundedBytes(MaxOffered)
  <2>1. b \in [1 .. Len(b) -> Byte] /\ Len(b) \in 0 .. MaxOffered
    BY LenProperties, ProtocolAssumption
  <2> QED BY <2>1 DEF BoundedBytes
<1>2. Len(a) \in CandidateLen[p] .. Len(b)
  BY ProtocolBounds DEF Begins
<1>3. a = SubSeq(b, 1, Len(a))
  BY DEF Begins
<1> DEFINE Promise(c, n) ==
              /\ Candidate(p, c) = Candidate(p, b)
              /\ Measure(p, c).kind # "More" => Measure(p, b) = Measure(p, c)
              /\ Measure(p, c).kind = "More" /\ Measure(p, b).kind = "Frame" =>
                   Measure(p, b).n \notin HeaderLen[p] .. n
<1>4. Promise(SubSeq(b, 1, Len(a)), Len(a))
  BY <1>1, <1>2, ContractAssumption, Zenon
<1>5. Promise(a, Len(a))
  <2> HIDE DEF Promise
  <2> QED BY <1>3, <1>4
<1> QED BY <1>5

\* A frame that is whole is the same frame, however much follows it; and where
\* there can be none, none appears.
LEMMA VerdictStands ==
  ASSUME NEW p \in Protocols, NEW a \in Seq(Byte), NEW b \in Seq(Byte), Begins(a, b),
         CandidateLen[p] <= Len(a), Len(b) <= MaxOffered
  PROVE  /\ Whole(p, a) => /\ Whole(p, b) /\ Measure(p, b) = Measure(p, a)
                           /\ First(p, b) = First(p, a)
         /\ Dead(p, a) => Dead(p, b)
<1>1. Len(a) \in Nat /\ Len(b) \in Nat /\ Len(a) <= Len(b) /\ CandidateLen[p] <= Len(b)
  BY ProtocolBounds DEF Begins
<1>2. Bounded(a) /\ Bounded(b)
  BY <1>1, ProtocolAssumption DEF Bounded
<1> DEFINE m == Measure(p, a)
           w == Measure(p, b)
<1>3. m.n \in Nat /\ w.n \in Nat /\ HeaderLen[p] \in Nat /\ MaxFrame[p] \in Nat
      /\ w.kind \in {"Frame", "More", "Reject", "Unmeasurable"}
  BY <1>1, <1>2, MeasureTypes, ProtocolBounds
<1>4. m.kind # "More" => w = m
  BY ContractStands
<1>5. ASSUME Sized(p, m), m.n <= Len(a)
      PROVE  First(p, b) = First(p, a) /\ w = m
  <2>1. w = m
    BY <1>4, <1>5 DEF Sized
  <2>2. m.n \in 0 .. Len(a)
    BY <1>1, <1>3, <1>5
  <2>3. SubSeq(a, 1, m.n) = SubSeq(b, 1, m.n)
    BY <2>2, FirstStands
  <2> QED BY <2>1, <2>3 DEF First
<1>6. ASSUME Whole(p, a)
      PROVE  Whole(p, b) /\ w = m /\ First(p, b) = First(p, a)
  <2>1. w = m /\ First(p, b) = First(p, a)
    BY <1>5, <1>6 DEF Whole
  <2>2. m.n <= Len(b)
    BY <1>1, <1>3, <1>6 DEF Whole
  <2> QED BY <1>6, <2>1, <2>2 DEF Whole
<1>7. ASSUME Dead(p, a) PROVE Dead(p, b)
  <2>1. CASE m.kind \in {"Reject", "Unmeasurable"}
    BY <1>4, <2>1 DEF Dead
  <2>2. CASE m.kind = "More" /\ MaxFrame[p] <= Len(a)
    <3>1. MaxFrame[p] <= Len(b)
      BY <1>1, <1>3, <2>2
    <3>2. w.kind = "Frame" => w.n \notin HeaderLen[p] .. Len(a)
      BY <2>2, ContractStands
    <3>3. w.kind = "Frame" => w.n \notin HeaderLen[p] .. MaxFrame[p]
      BY <1>1, <1>3, <2>2, <3>2
    <3>4. w.kind = "Frame" => ~Sized(p, w)
      BY <3>3 DEF Sized
    <3> HIDE DEF w, m
    <3> QED BY <1>3, <3>1, <3>4 DEF Dead, w
  <2>3. CASE m.kind = "Frame" /\ ~Sized(p, m)
    BY <1>4, <2>3 DEF Dead
  <2>4. CASE Sized(p, m) /\ m.n <= Len(a) /\ ~Sound(p, First(p, a))
    <3>1. w = m /\ First(p, b) = First(p, a)
      BY <1>5, <2>4
    <3>2. m.n <= Len(b)
      BY <1>1, <1>3, <2>4
    <3> QED BY <2>4, <3>1, <3>2 DEF Dead
  <2> QED BY <1>7, <2>1, <2>2, <2>3, <2>4 DEF Dead
<1> QED BY <1>6, <1>7

\* Dropping bytes from the front of what begins a longer stream.
LEMMA FromBegins ==
  ASSUME NEW a \in Seq(Byte), NEW b \in Seq(Byte), Begins(a, b), NEW i \in 0 .. Len(a)
  PROVE  /\ Begins(From(a, i), From(b, i)) /\ i \in 0 .. Len(b)
         /\ From(a, i) \in Seq(Byte) /\ From(b, i) \in Seq(Byte)
         /\ Len(From(a, i)) = Len(a) - i /\ Len(From(b, i)) = Len(b) - i
<1> DEFINE x == From(a, i)
           y == From(b, i)
<1>1. Len(a) \in Nat /\ Len(b) \in Nat /\ Len(a) <= Len(b) /\ i \in 0 .. Len(b) /\ i \in Nat
  BY DEF Begins
<1>2. \A k \in 1 .. Len(a) : a[k] = b[k]
  <2> DEFINE c == SubSeq(b, 1, Len(a))
  <2>1. \A k \in 1 .. Len(a) : c[k] = b[k]
    BY <1>1
  <2> HIDE DEF c
  <2> QED BY <2>1 DEF Begins, c
<1>3. /\ x \in Seq(Byte) /\ Len(x) = Len(a) - i /\ \A k \in 1 .. Len(a) - i : x[k] = a[i + k]
      /\ y \in Seq(Byte) /\ Len(y) = Len(b) - i /\ \A k \in 1 .. Len(b) - i : y[k] = b[i + k]
  BY <1>1, FromProperties
<1> HIDE DEF x, y
<1>4. Len(x) <= Len(y)
  BY <1>1, <1>3
<1>5. ASSUME NEW k \in 1 .. Len(x) PROVE x[k] = y[k]
  <2>1. k \in 1 .. Len(a) - i /\ k \in 1 .. Len(b) - i /\ i + k \in 1 .. Len(a)
    BY <1>1, <1>3, <1>5
  <2>2. x[k] = a[i + k] /\ y[k] = b[i + k] /\ a[i + k] = b[i + k]
    BY <1>2, <1>3, <2>1
  <2> QED BY <2>2
<1>6. Begins(x, y)
  BY <1>3, <1>4, <1>5, BeginsIs
<1> QED BY <1>1, <1>3, <1>6 DEF x, y

LEMMA FromFrom ==
  ASSUME NEW b \in Seq(Byte), NEW i \in 0 .. Len(b), NEW k \in 0 .. Len(b) - i
  PROVE  From(From(b, i), k) = From(b, i + k) /\ i + k \in 0 .. Len(b)
<1> DEFINE x == From(From(b, i), k)
           y == From(b, i + k)
           c == From(b, i)
<1>1. Len(b) \in Nat /\ i \in Nat /\ k \in Nat /\ i + k \in 0 .. Len(b)
  OBVIOUS
<1>2. c \in Seq(Byte) /\ Len(c) = Len(b) - i /\ \A j \in 1 .. Len(b) - i : c[j] = b[i + j]
  BY FromProperties
<1>3. k \in 0 .. Len(c)
  BY <1>2
<1>4. /\ x \in Seq(Byte) /\ Len(x) = Len(c) - k /\ \A j \in 1 .. Len(c) - k : x[j] = c[k + j]
  <2> HIDE DEF c
  <2> QED BY <1>2, <1>3, FromProperties DEF c
<1>5. y \in Seq(Byte) /\ Len(y) = Len(b) - (i + k) /\ \A j \in 1 .. Len(b) - (i + k) : y[j] = b[i + k + j]
  BY <1>1, FromProperties
<1> HIDE DEF x, y, c
<1>6. Len(x) = Len(y)
  BY <1>1, <1>2, <1>4, <1>5
<1>7. ASSUME NEW j \in 1 .. Len(x) PROVE x[j] = y[j]
  <2>1. j \in 1 .. Len(c) - k /\ k + j \in 1 .. Len(b) - i /\ j \in 1 .. Len(b) - (i + k)
    BY <1>1, <1>2, <1>4, <1>7
  <2>2. x[j] = c[k + j] /\ c[k + j] = b[i + (k + j)] /\ y[j] = b[i + k + j]
    BY <1>2, <1>4, <1>5, <2>1
  <2>3. i + (k + j) = i + k + j
    BY <1>1, <2>1
  <2> QED BY <2>2, <2>3
<1>8. x = y
  BY <1>4, <1>5, <1>6, <1>7, SeqEqual
<1> QED BY <1>1, <1>8 DEF x, y

(* ---------------------------------------------------------------------- *)
(* Positions of the stream                                                  *)

\* No frame begins at a position, and none ever will.
Barren(s, y) ==
  /\ y + CandidateLen[protocol] <= Len(s)
  /\ ~Candidate(protocol, From(s, y)) \/ Dead(protocol, From(s, y))

\* The frame at a position has all arrived, and parse returns it.
Fruitful(s, y) ==
  /\ y + CandidateLen[protocol] <= Len(s)
  /\ Candidate(protocol, From(s, y)) /\ Whole(protocol, From(s, y))

LEMMA PositionsStand ==
  ASSUME protocol \in Protocols, NEW s \in Seq(Byte), NEW t \in Seq(Byte), Begins(s, t),
         Len(t) <= MaxOffered, NEW y \in Nat
  PROVE  /\ Barren(s, y) => Barren(t, y)
         /\ Fruitful(s, y) =>
              /\ Fruitful(t, y)
              /\ Measure(protocol, From(t, y)) = Measure(protocol, From(s, y))
              /\ First(protocol, From(t, y)) = First(protocol, From(s, y))
<1> SUFFICES ASSUME y + CandidateLen[protocol] <= Len(s)
             PROVE  /\ Barren(s, y) => Barren(t, y)
                    /\ Fruitful(s, y) =>
                         /\ Fruitful(t, y)
                         /\ Measure(protocol, From(t, y)) = Measure(protocol, From(s, y))
                         /\ First(protocol, From(t, y)) = First(protocol, From(s, y))
  BY DEF Barren, Fruitful
<1> DEFINE a == From(s, y)
           b == From(t, y)
           c == CandidateLen[protocol]
<1>1. c \in Nat /\ 1 <= c /\ Len(s) \in Nat /\ Len(t) \in Nat /\ Len(s) <= Len(t)
  BY ProtocolBounds DEF Begins
<1>2. y \in 0 .. Len(s)
  BY <1>1
<1>3. /\ Begins(a, b) /\ a \in Seq(Byte) /\ b \in Seq(Byte)
      /\ Len(a) = Len(s) - y /\ Len(b) = Len(t) - y
  BY <1>2, FromBegins
<1> HIDE DEF a, b
<1>4. c <= Len(a) /\ Len(b) <= MaxOffered /\ y + c <= Len(t)
  BY <1>1, <1>3, ProtocolAssumption
<1>5. /\ Candidate(protocol, a) = Candidate(protocol, b)
      /\ Whole(protocol, a) => /\ Whole(protocol, b) /\ Measure(protocol, b) = Measure(protocol, a)
                               /\ First(protocol, b) = First(protocol, a)
      /\ Dead(protocol, a) => Dead(protocol, b)
  BY <1>3, <1>4, ContractStands, VerdictStands
<1> QED BY <1>4, <1>5 DEF Barren, Fruitful, a, b

\* The frame of NoFrameLost is the one parse would return.
LEMMA FrameAtIs ==
  ASSUME protocol \in Protocols, NEW s \in Seq(Byte), NEW y \in Nat,
         y + CandidateLen[protocol] <= Len(s), Len(s) <= N \/ Len(s) <= MaxOffered,
         Measure(protocol, From(s, y)).n <= Len(From(s, y))
  PROVE  /\ FrameAt(s, y) = First(protocol, From(s, y))
         /\ Len(FrameAt(s, y)) = Measure(protocol, From(s, y)).n
<1> DEFINE b == From(s, y)
           n == Measure(protocol, b).n
           f == SubSeq(s, y + 1, y + n)
           g == SubSeq(b, 1, n)
<1>1. CandidateLen[protocol] \in Nat /\ 1 <= CandidateLen[protocol] /\ Len(s) \in Nat /\ y \in 0 .. Len(s)
  BY ProtocolBounds
<1>2. b \in Seq(Byte) /\ Len(b) = Len(s) - y /\ \A k \in 1 .. Len(s) - y : b[k] = s[y + k]
  BY <1>1, FromProperties
<1>3. Bounded(b) /\ CandidateLen[protocol] <= Len(b)
  <2>1. Len(b) <= N \/ Len(b) <= MaxOffered
    BY <1>1, <1>2, ProtocolAssumption
  <2> HIDE DEF b
  <2> QED BY <1>1, <1>2, <2>1 DEF Bounded
<1>4. n \in Nat /\ n <= Len(b)
  BY <1>3, MeasureTypes
<1> HIDE DEF n, b
<1>5. f \in Seq(Byte) /\ Len(f) = n /\ \A k \in 1 .. n : f[k] = s[y + k]
  BY <1>1, <1>2, <1>4
<1>6. g \in Seq(Byte) /\ Len(g) = n /\ \A k \in 1 .. n : g[k] = b[k]
  BY <1>2, <1>4
<1> HIDE DEF f, g
<1>7. \A k \in 1 .. n : f[k] = g[k]
  BY <1>1, <1>2, <1>4, <1>5, <1>6
<1>8. f = g
  BY <1>5, <1>6, <1>7, SeqEqual
<1> QED BY <1>5, <1>8 DEF FrameAt, First, f, g, n, b

LEMMA VerifiedFrameIs ==
  ASSUME protocol \in Protocols, NEW s \in Seq(Byte), NEW y \in Nat,
         Len(s) <= N \/ Len(s) <= MaxOffered, y <= Len(s)
  PROVE  LET b == From(s, y)
             m == Measure(protocol, b)
         IN  /\ VerifiedFrame(s, y) <=>
                  /\ y + CandidateLen[protocol] <= Len(s) /\ Candidate(protocol, b)
                  /\ Sized(protocol, m) /\ m.n <= Len(b)
                  /\ Verify(protocol, First(protocol, b))
             /\ TrueFrame(s, y) <=>
                  /\ Fruitful(s, y) /\ Verify(protocol, First(protocol, b))
<1> DEFINE b == From(s, y)
           m == Measure(protocol, b)
           c == CandidateLen[protocol]
           f == FrameAt(s, y)
<1>1. c \in Nat /\ Len(s) \in Nat /\ y \in 0 .. Len(s)
  BY ProtocolBounds
<1>2. b \in Seq(Byte) /\ Len(b) = Len(s) - y
  BY <1>1, FromProperties
<1>3. Len(b) >= c <=> y + c <= Len(s)
  BY <1>1, <1>2
<1>4. ASSUME y + c <= Len(s), m.n <= Len(b)
      PROVE  f = First(protocol, b) /\ Len(f) = m.n
  BY <1>4, FrameAtIs
<1>5. VerifiedFrame(s, y) <=>
          /\ y + c <= Len(s) /\ Candidate(protocol, b)
          /\ Sized(protocol, m) /\ m.n <= Len(b)
          /\ Verify(protocol, First(protocol, b))
  <2> HIDE DEF c
  <2>1. VerifiedFrame(s, y) <=>
          /\ Len(b) >= c /\ Candidate(protocol, b)
          /\ Sized(protocol, m) /\ m.n <= Len(b)
          /\ Verify(protocol, f)
    BY DEF VerifiedFrame, Sized, c
  <2> HIDE DEF f, m, b
  <2>2. CASE y + c <= Len(s) /\ m.n <= Len(b)
    BY <1>3, <1>4, <2>1, <2>2
  <2>3. CASE ~(y + c <= Len(s) /\ m.n <= Len(b))
    BY <1>3, <2>1, <2>3
  <2> QED BY <2>2, <2>3
<1>6. TrueFrame(s, y) <=> Fruitful(s, y) /\ Verify(protocol, First(protocol, b))
  <2>1. TrueFrame(s, y) <=> /\ VerifiedFrame(s, y)
                            /\ Body(protocol, f)[1] <= Body(protocol, f)[2]
                            /\ Body(protocol, f)[2] <= Len(f)
    BY DEF TrueFrame
  <2>2. Fruitful(s, y) <=> /\ y + c <= Len(s) /\ Candidate(protocol, b)
                           /\ Sized(protocol, m) /\ m.n <= Len(b)
                           /\ Sound(protocol, First(protocol, b))
    BY DEF Fruitful, Whole
  <2> HIDE DEF f, m, b, c
  <2>3. CASE y + c <= Len(s) /\ m.n <= Len(b)
    <3>1. f = First(protocol, b)
      BY <1>4, <2>3
    <3> QED BY <1>5, <2>1, <2>2, <2>3, <3>1 DEF Sound
  <2>4. CASE ~(y + c <= Len(s) /\ m.n <= Len(b))
    BY <1>5, <2>1, <2>2, <2>4
  <2> QED BY <2>3, <2>4
<1> QED BY <1>5, <1>6

\* No position is two of these.
LEMMA BarrenIsNotFruitful ==
  ASSUME protocol \in Protocols, NEW s \in Seq(Byte), Len(s) <= MaxOffered, NEW y \in Nat, Barren(s, y)
  PROVE  ~Fruitful(s, y)
<1> DEFINE b == From(s, y)
           m == Measure(protocol, b)
<1>1. CandidateLen[protocol] \in Nat /\ 1 <= CandidateLen[protocol] /\ Len(s) \in Nat
      /\ y + CandidateLen[protocol] <= Len(s) /\ y \in 0 .. Len(s)
  BY ProtocolBounds DEF Barren
<1> SUFFICES ASSUME Candidate(protocol, b), Dead(protocol, b), Whole(protocol, b) PROVE FALSE
  BY DEF Barren, Fruitful
<1>2. b \in Seq(Byte) /\ Len(b) = Len(s) - y
  BY <1>1, FromProperties
<1>3. Bounded(b) /\ CandidateLen[protocol] <= Len(b)
  <2>1. Len(b) <= MaxOffered
    BY <1>1, <1>2, ProtocolAssumption
  <2> HIDE DEF b
  <2> QED BY <1>1, <1>2, <2>1 DEF Bounded
<1> QED
  <2>1. Measured(protocol, b).kind = "Frame" /\ Measured(protocol, b).kind = "Desync"
    BY <1>3, MeasuredIs
  <2> QED BY <2>1

(* ---------------------------------------------------------------------- *)
(* parse, case by case                                                      *)

LEMMA FromStart ==
  ASSUME NEW b \in Seq(Byte)
  PROVE  From(b, 0) = b
<1> DEFINE x == From(b, 0)
<1>1. Len(b) \in Nat /\ 0 \in 0 .. Len(b)
  OBVIOUS
<1>2. x \in Seq(Byte) /\ Len(x) = Len(b) - 0 /\ \A k \in 1 .. Len(b) - 0 : x[k] = b[0 + k]
  BY <1>1, FromProperties
<1> HIDE DEF x
<1>3. Len(x) = Len(b) /\ \A k \in 1 .. Len(x) : x[k] = b[k]
  BY <1>1, <1>2
<1> QED BY <1>2, <1>3, SeqEqual DEF x

\* Where the scan for a candidate stops: every offset it passed is refused by
\* candidate, and it stops at one or where too few bytes are left to ask.
ScanStops(p, b, n) ==
  /\ n \in 1 .. Len(b) - CandidateLen[p] + 1
  /\ \A k \in 0 .. n - 1 : ~Candidate(p, From(b, k))
  /\ n = Len(b) - CandidateLen[p] + 1 \/ Candidate(p, From(b, n))

LEMMA ParseIs ==
  ASSUME NEW p \in Protocols, NEW b \in Seq(Byte)
  PROVE  /\ Len(b) < CandidateLen[p] => Parse(p, b).kind = "Incomplete"
         /\ CandidateLen[p] <= Len(b) /\ ~Candidate(p, b) =>
              /\ Parse(p, b).kind = "Desync" /\ Parse(p, b).what = "NoCandidate"
              /\ ScanStops(p, b, Parse(p, b).n)
         /\ CandidateLen[p] <= Len(b) /\ Candidate(p, b) => Parse(p, b) = Measured(p, b)
<1> DEFINE c == CandidateLen[p]
           T == Starts(p, b)
           r == Parse(p, b)
<1>1. c \in Nat /\ 1 <= c /\ Len(b) \in Nat
  BY ProtocolBounds
<1>2. /\ \A k \in 0 .. Len(b) - c : k \in T <=> Candidate(p, From(b, k))
      /\ T \in SUBSET Nat /\ T \subseteq 0 .. Len(b) - c
  BY <1>1 DEF Starts
<1>3. c <= Len(b) => (0 \in T <=> Candidate(p, b))
  <2>1. From(b, 0) = b
    BY FromStart
  <2>2. c <= Len(b) => 0 \in 0 .. Len(b) - c
    BY <1>1
  <2> HIDE DEF T, c
  <2> QED BY <1>2, <2>1, <2>2
<1>4. Len(b) < c => r.kind = "Incomplete"
  BY <1>1 DEF Parse, Incomplete
<1>5. ASSUME c <= Len(b), ~Candidate(p, b), T = {}
      PROVE  r.kind = "Desync" /\ r.what = "NoCandidate" /\ ScanStops(p, b, r.n)
  <2> DEFINE n == Len(b) - c + 1
  <2>1. r = Desync(n, "NoCandidate")
    BY <1>1, <1>5 DEF Parse
  <2>2. r.kind = "Desync" /\ r.what = "NoCandidate" /\ r.n = n
    <3> HIDE DEF r, n
    <3> QED BY <2>1 DEF Desync
  <2>3. n \in 1 .. Len(b) - c + 1 /\ 0 .. n - 1 \subseteq 0 .. Len(b) - c
    BY <1>1, <1>5
  <2>4. \A k \in 0 .. n - 1 : ~Candidate(p, From(b, k))
    <3> HIDE DEF T, n
    <3> QED BY <1>2, <1>5, <2>3
  <2>5. ScanStops(p, b, n)
    BY <2>3, <2>4 DEF ScanStops
  <2> QED BY <2>2, <2>5
<1>6. ASSUME c <= Len(b), ~Candidate(p, b), T # {}
      PROVE  r.kind = "Desync" /\ r.what = "NoCandidate" /\ ScanStops(p, b, r.n)
  <2> DEFINE n == Least(T)
  <2>1. r = Desync(n, "NoCandidate")
    <3>1. 0 \notin T /\ ~(Len(b) < c)
      BY <1>1, <1>3, <1>6
    <3> QED BY <1>6, <3>1 DEF Parse
  <2>2. r.kind = "Desync" /\ r.what = "NoCandidate" /\ r.n = n
    <3> HIDE DEF r, n
    <3> QED BY <2>1 DEF Desync
  <2>3. n \in T /\ \A k \in T : n <= k
    <3> HIDE DEF T
    <3> QED BY <1>2, <1>6, LeastIsMember
  <2> HIDE DEF n, T, r, c
  <2>4. n \in 1 .. Len(b) - c /\ Candidate(p, From(b, n))
    BY <1>1, <1>2, <1>3, <1>6, <2>3
  <2>5. ASSUME NEW k \in 0 .. n - 1 PROVE ~Candidate(p, From(b, k))
    <3>1. k \in 0 .. Len(b) - c /\ ~(n <= k)
      BY <1>1, <2>4
    <3> QED BY <1>2, <2>3, <3>1
  <2>6. n \in 1 .. Len(b) - c + 1
    BY <1>1, <2>4
  <2>7. ScanStops(p, b, n)
    BY <2>4, <2>5, <2>6 DEF ScanStops, c
  <2> QED BY <2>2, <2>7
<1>7. ASSUME c <= Len(b), Candidate(p, b)
      PROVE  r = Measured(p, b)
  <2>1. 0 \in T /\ ~(Len(b) < c)
    BY <1>1, <1>3, <1>7
  <2> QED BY <2>1 DEF Parse
<1> QED BY <1>4, <1>5, <1>6, <1>7

\* What the scan of complete_frame_beyond looks for is a VerifiedFrame.
LEMMA BeyondIs ==
  ASSUME protocol \in Protocols, NEW b \in Seq(Byte), CandidateLen[protocol] <= Len(b)
  PROVE  /\ CompleteBeyond(protocol, b) \subseteq 1 .. Len(b) - CandidateLen[protocol]
         /\ \A k \in 1 .. Len(b) - CandidateLen[protocol] :
              k \in CompleteBeyond(protocol, b) <=> VerifiedFrame(b, k)
<1> DEFINE c == CandidateLen[protocol]
<1>1. c \in Nat /\ 1 <= c /\ Len(b) \in Nat /\ HeaderLen[protocol] \in Nat /\ MaxFrame[protocol] \in Nat
  BY ProtocolBounds
<1>2. CompleteBeyond(protocol, b) \subseteq 1 .. Len(b) - c
  BY <1>1 DEF CompleteBeyond, Starts
<1>3. ASSUME NEW k \in 1 .. Len(b) - c
      PROVE  k \in CompleteBeyond(protocol, b) <=> VerifiedFrame(b, k)
  <2> DEFINE a == From(b, k)
             m == Measure(protocol, a)
             Passes == Verify(protocol, SubSeq(b, k + 1, k + m.n))
  <2>1. k \in 0 .. Len(b) /\ k \in 0 .. Len(b) - c /\ k # 0
    BY <1>1
  <2>2. Len(a) = Len(b) - k
    BY <2>1, FromProperties
  <2>3. Len(a) >= c
    BY <1>1, <2>1, <2>2
  <2>4. m.n \in HeaderLen[protocol] .. MaxFrame[protocol] => (k + m.n <= Len(b) <=> m.n <= Len(a))
    <3> HIDE DEF m, a
    <3> QED BY <1>1, <2>1, <2>2
  <2>5. k \in CompleteBeyond(protocol, b) <=>
          /\ Candidate(protocol, a)
          /\ m.kind = "Frame" /\ m.n \in HeaderLen[protocol] .. MaxFrame[protocol]
          /\ k + m.n <= Len(b) /\ Passes
    BY <2>1, Zenon DEF CompleteBeyond, Starts
  <2>6. VerifiedFrame(b, k) <=>
          /\ Len(a) >= c /\ Candidate(protocol, a)
          /\ m.kind = "Frame" /\ m.n \in HeaderLen[protocol] .. MaxFrame[protocol]
          /\ m.n <= Len(a) /\ Passes
    BY DEF VerifiedFrame, FrameAt
  <2> HIDE DEF Passes, m, a
  <2> QED BY <2>3, <2>4, <2>5, <2>6, Zenon
<1> QED BY <1>2, <1>3

\* What is seen from a position is seen from the same place in a part that ends
\* with the stream.
LEMMA SeenFromPart ==
  ASSUME protocol \in Protocols, NEW s \in Seq(Byte), NEW i \in 0 .. Len(s),
         NEW k \in 0 .. Len(s) - i, Len(s) <= MaxOffered
  PROVE  /\ VerifiedFrame(From(s, i), k) <=> VerifiedFrame(s, i + k)
         /\ TrueFrame(From(s, i), k) <=> TrueFrame(s, i + k)
<1> DEFINE t == From(s, i)
           b == From(t, k)
           c == CandidateLen[protocol]
<1>1. c \in Nat /\ Len(s) \in Nat /\ i + k \in Nat /\ i + k <= Len(s) /\ MaxOffered \in Nat /\ k \in Nat
  BY ProtocolBounds, ProtocolAssumption
<1>2. t \in Seq(Byte) /\ Len(t) = Len(s) - i
  BY FromProperties
<1>3. b = From(s, i + k)
  BY FromFrom
<1> HIDE DEF t, b, c
<1>4. Len(t) <= MaxOffered /\ k <= Len(t) /\ (k + c <= Len(t) <=> (i + k) + c <= Len(s))
  BY <1>1, <1>2
<1>5. /\ VerifiedFrame(t, k) <=>
            /\ k + c <= Len(t) /\ Candidate(protocol, b)
            /\ Sized(protocol, Measure(protocol, b)) /\ Measure(protocol, b).n <= Len(b)
            /\ Verify(protocol, First(protocol, b))
      /\ TrueFrame(t, k) <=> Fruitful(t, k) /\ Verify(protocol, First(protocol, b))
  BY <1>1, <1>2, <1>4, VerifiedFrameIs DEF b, c
<1>6. /\ VerifiedFrame(s, i + k) <=>
            /\ i + k + c <= Len(s) /\ Candidate(protocol, b)
            /\ Sized(protocol, Measure(protocol, b)) /\ Measure(protocol, b).n <= Len(b)
            /\ Verify(protocol, First(protocol, b))
      /\ TrueFrame(s, i + k) <=> Fruitful(s, i + k) /\ Verify(protocol, First(protocol, b))
  BY <1>1, <1>3, VerifiedFrameIs DEF c
<1>7. Fruitful(t, k) <=> Fruitful(s, i + k)
  <2>1. Fruitful(t, k) <=> k + c <= Len(t) /\ Candidate(protocol, b) /\ Whole(protocol, b)
    BY DEF Fruitful, b, c
  <2>2. Fruitful(s, i + k) <=> i + k + c <= Len(s) /\ Candidate(protocol, b) /\ Whole(protocol, b)
    BY <1>3 DEF Fruitful, c
  <2> QED BY <1>4, <2>1, <2>2, Zenon
<1>8. VerifiedFrame(t, k) <=> VerifiedFrame(s, i + k)
  BY <1>4, <1>5, <1>6, Zenon
<1>9. TrueFrame(t, k) <=> TrueFrame(s, i + k)
  BY <1>5, <1>6, <1>7, Zenon
<1> QED BY <1>8, <1>9 DEF t

\* A verified frame at the start of the buffer is returned, or refused for its body.
LEMMA LureParsed ==
  ASSUME protocol \in Protocols, NEW b \in Seq(Byte), Len(b) <= N, VerifiedFrame(b, 0)
  PROVE  /\ Parse(protocol, b).kind # "Incomplete"
         /\ Parse(protocol, b).what = IF TrueFrame(b, 0) THEN "Verified" ELSE "BadHeader"
<1> DEFINE m == Measure(protocol, b)
           f == First(protocol, b)
           r == Parse(protocol, b)
           body == Body(protocol, f)
<1>1. From(b, 0) = b /\ CandidateLen[protocol] \in Nat /\ Len(b) \in Nat
  BY FromStart, ProtocolBounds
<1>2. /\ CandidateLen[protocol] <= Len(b) /\ Candidate(protocol, b)
      /\ Sized(protocol, m) /\ m.n <= Len(b) /\ Verify(protocol, f)
  <2>1. /\ 0 + CandidateLen[protocol] <= Len(b) /\ Candidate(protocol, From(b, 0))
        /\ Sized(protocol, Measure(protocol, From(b, 0)))
        /\ Measure(protocol, From(b, 0)).n <= Len(From(b, 0))
        /\ Verify(protocol, First(protocol, From(b, 0)))
    <3>1. 0 \in Nat /\ 0 <= Len(b)
      BY <1>1
    <3> QED BY <3>1, VerifiedFrameIs
  <2> QED BY <1>1, <2>1
<1>3. TrueFrame(b, 0) <=> Whole(protocol, b)
  <2>1. TrueFrame(b, 0) <=> Fruitful(b, 0) /\ Verify(protocol, First(protocol, From(b, 0)))
    <3>1. 0 \in Nat /\ 0 <= Len(b)
      BY <1>1
    <3> QED BY <3>1, VerifiedFrameIs
  <2>2. 0 + CandidateLen[protocol] <= Len(b)
    BY <1>1, <1>2
  <2>3. Fruitful(b, 0) <=> Whole(protocol, b)
    BY <1>1, <1>2, <2>2, Zenon DEF Fruitful
  <2> QED BY <1>1, <1>2, <2>1, <2>3, Zenon
<1>4. Bounded(b)
  BY DEF Bounded
<1>5. r = Measured(protocol, b)
  BY <1>2, ParseIs
<1>6. CASE Whole(protocol, b)
  <2>1. r.kind = "Frame" /\ r.what = Verdict(protocol, f)
    <3> HIDE DEF r, f
    <3> QED BY <1>2, <1>4, <1>5, <1>6, MeasuredIs DEF f
  <2>2. Verdict(protocol, f) = "Verified"
    BY <1>2 DEF Verdict
  <2> HIDE DEF r, f
  <2> QED BY <1>3, <1>6, <2>1, <2>2 DEF r
<1>7. CASE ~Whole(protocol, b)
  <2>1. ~Sound(protocol, f)
    BY <1>2, <1>7 DEF Whole
  <2>2. HeaderLen[protocol] \in Nat /\ MaxFrame[protocol] \in Nat /\ MaxFrame[protocol] <= N
        /\ 1 <= HeaderLen[protocol]
    BY ProtocolBounds
  <2>3. m.n \in HeaderLen[protocol] .. MaxFrame[protocol] /\ m.kind = "Frame" /\ m.n \in Nat
    BY <1>2, <2>2 DEF Sized
  <2>4. f \in Seq(Byte) /\ Len(f) = m.n
    BY <1>1, <1>2, <2>3 DEF First
  <2>5. body \in Nat \X Nat
    <3>1. f \in BoundedBytes(N)
      BY <2>2, <2>3, <2>4, BufferIsBounded, ProtocolAssumption
    <3> QED BY <2>3, <2>4, <3>1, MethodAssumption
  <2>6. r = Complete(protocol, f)
    BY <1>1, <1>2, <1>5, <2>2, <2>3 DEF Measured, First
  <2> HIDE DEF r, f
  <2>7. body[1] > body[2] \/ body[2] > Len(f)
    <3>1. ~(body[1] <= body[2] /\ body[2] <= Len(f))
      BY <1>2, <2>1 DEF Sound
    <3> HIDE DEF m
    <3> QED BY <2>3, <2>4, <2>5, <3>1
  <2>8. r = Desync(1, "BadHeader")
    BY <2>6, <2>7 DEF Complete
  <2>9. r.kind = "Desync" /\ r.what = "BadHeader"
    BY <2>8 DEF Desync
  <2> QED BY <1>3, <1>7, <2>9 DEF r
<1> QED BY <1>6, <1>7

\* A frame that has all arrived was seen at once.
LEMMA LateFrame ==
  ASSUME protocol \in Protocols, NEW s \in Seq(Byte), NEW t \in Seq(Byte), Begins(s, t),
         Len(t) <= MaxOffered, NEW y \in 0 .. Len(s), TrueFrame(t, y),
         y + Measure(protocol, From(t, y)).n <= Len(s)
  PROVE  TrueFrame(s, y) /\ Measure(protocol, From(s, y)) = Measure(protocol, From(t, y))
<1> DEFINE a == From(s, y)
           b == From(t, y)
           c == CandidateLen[protocol]
           m == Measure(protocol, b)
<1>1. c \in Nat /\ 1 <= c /\ Len(s) \in Nat /\ Len(t) \in Nat /\ Len(s) <= Len(t) /\ y \in Nat
      /\ c <= HeaderLen[protocol] /\ HeaderLen[protocol] \in Nat /\ MaxFrame[protocol] \in Nat
      /\ MaxOffered \in Nat
  BY ProtocolBounds, ProtocolAssumption DEF Begins
<1>2. /\ Begins(a, b) /\ a \in Seq(Byte) /\ b \in Seq(Byte)
      /\ Len(a) = Len(s) - y /\ Len(b) = Len(t) - y
  BY FromBegins
<1>3. Fruitful(t, y) /\ Verify(protocol, First(protocol, b))
  <2>1. y <= Len(t)
    BY <1>1
  <2> QED BY <1>1, <2>1, VerifiedFrameIs
<1>4. Candidate(protocol, b) /\ Whole(protocol, b) /\ Sized(protocol, m)
  BY <1>3 DEF Fruitful, Whole
<1> HIDE DEF a, b, c, m
<1>5. m.kind = "Frame" /\ m.n \in HeaderLen[protocol] .. MaxFrame[protocol] /\ m.n \in Nat
  BY <1>1, <1>4 DEF Sized
<1>6. m.n <= Len(a) /\ c <= Len(a) /\ Len(b) <= MaxOffered /\ y + c <= Len(s)
  <2>1. y + m.n <= Len(s)
    BY DEF m, b
  <2> DEFINE k == m.n
             h == HeaderLen[protocol]
  <2>2. k \in Nat /\ h <= k /\ h \in Nat /\ c <= h /\ y + k <= Len(s)
    BY <1>1, <1>5, <2>1
  <2> HIDE DEF k, h
  <2>3. k <= Len(a) /\ c <= Len(a) /\ y + c <= Len(s)
    BY <1>1, <1>2, <2>2
  <2>4. Len(b) <= MaxOffered
    BY <1>1, <1>2
  <2> QED BY <2>3, <2>4 DEF k
<1>7. Candidate(protocol, a)
  BY <1>2, <1>4, <1>6, ContractStands DEF c
<1>8. Measure(protocol, a) = m
  <2>1. Measure(protocol, a).kind # "More"
    <3>1. m.n \in HeaderLen[protocol] .. Len(a)
      BY <1>1, <1>2, <1>5, <1>6
    <3> QED BY <1>2, <1>5, <1>6, <3>1, ContractStands DEF c, m
  <2> QED BY <1>2, <1>6, <2>1, ContractStands DEF c, m
<1>9. First(protocol, a) = First(protocol, b)
  <2>1. m.n \in 0 .. Len(a)
    BY <1>2, <1>5, <1>6
  <2>2. SubSeq(a, 1, m.n) = SubSeq(b, 1, m.n)
    BY <1>2, <2>1, FirstStands
  <2> QED BY <1>8, <2>2 DEF First, m
<1>10. Whole(protocol, a)
  BY <1>4, <1>6, <1>8, <1>9 DEF Whole, m
<1>11. Fruitful(s, y)
  BY <1>6, <1>7, <1>10 DEF Fruitful, a, c
<1>12. TrueFrame(s, y)
  <2>1. Len(s) <= MaxOffered /\ y <= Len(s)
    BY <1>1
  <2> QED BY <1>1, <1>3, <1>9, <1>11, <2>1, VerifiedFrameIs DEF a
<1> QED BY <1>8, <1>12 DEF a, b, m

\* A verified frame stays one.
LEMMA VerifiedStands ==
  ASSUME protocol \in Protocols, NEW s \in Seq(Byte), NEW t \in Seq(Byte), Begins(s, t),
         Len(t) <= MaxOffered, NEW y \in 0 .. Len(s), VerifiedFrame(s, y)
  PROVE  VerifiedFrame(t, y) /\ (TrueFrame(t, y) <=> TrueFrame(s, y))
<1> DEFINE a == From(s, y)
           b == From(t, y)
           c == CandidateLen[protocol]
           m == Measure(protocol, a)
<1>1. c \in Nat /\ 1 <= c /\ Len(s) \in Nat /\ Len(t) \in Nat /\ Len(s) <= Len(t) /\ y \in Nat
      /\ y <= Len(t) /\ y <= Len(s) /\ Len(s) <= MaxOffered /\ MaxOffered \in Nat
      /\ HeaderLen[protocol] \in Nat /\ MaxFrame[protocol] \in Nat
  BY ProtocolBounds, ProtocolAssumption DEF Begins
<1>2. /\ Begins(a, b) /\ a \in Seq(Byte) /\ b \in Seq(Byte)
      /\ Len(a) = Len(s) - y /\ Len(b) = Len(t) - y
  BY FromBegins
<1>3. /\ y + c <= Len(s) /\ Candidate(protocol, a) /\ Sized(protocol, m) /\ m.n <= Len(a)
      /\ Verify(protocol, First(protocol, a))
  BY <1>1, VerifiedFrameIs
<1>4. TrueFrame(s, y) <=> Fruitful(s, y)
  BY <1>1, <1>3, VerifiedFrameIs
<1> HIDE DEF a, b, c, m
<1>5. m.kind = "Frame" /\ m.n \in Nat
  BY <1>1, <1>3 DEF Sized
<1>6. c <= Len(a) /\ Len(b) <= MaxOffered /\ y + c <= Len(t) /\ m.n <= Len(b) /\ m.n \in 0 .. Len(a)
  BY <1>1, <1>2, <1>3, <1>5
<1>7. Candidate(protocol, b) /\ Measure(protocol, b) = m
  BY <1>2, <1>3, <1>5, <1>6, ContractStands DEF c, m
<1>8. First(protocol, b) = First(protocol, a)
  <2>1. SubSeq(a, 1, m.n) = SubSeq(b, 1, m.n)
    BY <1>2, <1>6, FirstStands
  <2> QED BY <1>7, <2>1 DEF First, m
<1>9. VerifiedFrame(t, y)
  BY <1>1, <1>3, <1>6, <1>7, <1>8, VerifiedFrameIs DEF b, c
<1>10. TrueFrame(t, y) <=> Fruitful(t, y)
  BY <1>1, <1>3, <1>8, VerifiedFrameIs DEF a, b
<1>11. Whole(protocol, b) <=> Whole(protocol, a)
  BY <1>3, <1>6, <1>7, <1>8 DEF Whole, m
<1>12. Fruitful(t, y) <=> Fruitful(s, y)
  BY <1>3, <1>6, <1>7, <1>11 DEF Fruitful, a, b, c
<1> QED BY <1>4, <1>9, <1>10, <1>12, Zenon

LEMMA StandsFromPart ==
  ASSUME protocol \in Protocols, NEW s \in Seq(Byte), NEW i \in 0 .. Len(s),
         NEW k \in 0 .. Len(s) - i
  PROVE  /\ Barren(From(s, i), k) <=> Barren(s, i + k)
         /\ Fruitful(From(s, i), k) <=> Fruitful(s, i + k)
<1> DEFINE t == From(s, i)
           b == From(t, k)
           c == CandidateLen[protocol]
<1>1. c \in Nat /\ Len(s) \in Nat /\ i \in Nat /\ k \in Nat
  BY ProtocolBounds
<1>2. t \in Seq(Byte) /\ Len(t) = Len(s) - i
  BY FromProperties
<1>3. b = From(s, i + k)
  BY FromFrom
<1> HIDE DEF t, b, c
<1>4. k + c <= Len(t) <=> i + k + c <= Len(s)
  BY <1>1, <1>2
<1>5. Barren(t, k) <=> k + c <= Len(t) /\ (~Candidate(protocol, b) \/ Dead(protocol, b))
  BY DEF Barren, b, c
<1>6. Barren(s, i + k) <=> i + k + c <= Len(s) /\ (~Candidate(protocol, b) \/ Dead(protocol, b))
  BY <1>3 DEF Barren, c
<1>7. Fruitful(t, k) <=> k + c <= Len(t) /\ Candidate(protocol, b) /\ Whole(protocol, b)
  BY DEF Fruitful, b, c
<1>8. Fruitful(s, i + k) <=> i + k + c <= Len(s) /\ Candidate(protocol, b) /\ Whole(protocol, b)
  BY <1>3 DEF Fruitful, c
<1>9. Barren(t, k) <=> Barren(s, i + k)
  BY <1>4, <1>5, <1>6, Zenon
<1>10. Fruitful(t, k) <=> Fruitful(s, i + k)
  BY <1>4, <1>7, <1>8, Zenon
<1> QED BY <1>9, <1>10 DEF t

\* The piece parse cuts from the start of b: a frame as measured, bytes that begin
\* none, or bytes given up for the verified frame behind them.
LEMMA PieceIs ==
  ASSUME protocol \in Protocols, NEW b \in Seq(Byte), Bounded(b)
  PROVE  LET r == Parse(protocol, b)
         IN  /\ r.kind \in {"Incomplete", "Desync", "Frame"}
             /\ r.kind = "Frame" => /\ Fruitful(b, 0) /\ r.n = Measure(protocol, b).n
                                    /\ r.what = Verdict(protocol, First(protocol, b))
             /\ r.kind = "Desync" =>
                  /\ r.what \notin Integrities /\ r.n \in 1 .. Len(b)
                  /\ \/ \A k \in 0 .. r.n - 1 : Barren(b, k)
                     \/ /\ ScanPastIncomplete[protocol] /\ VerifiedFrame(b, r.n)
                        /\ \A k \in 0 .. r.n - 1 : ~TrueFrame(b, k)
             /\ r.kind = "Incomplete" /\ CandidateLen[protocol] <= Len(b) =>
                  Candidate(protocol, b) /\ Open(protocol, b)
<1> DEFINE c == CandidateLen[protocol]
           r == Parse(protocol, b)
<1>1. c \in Nat /\ 1 <= c /\ Len(b) \in Nat /\ From(b, 0) = b /\ 0 \in Nat /\ 0 <= Len(b)
  BY ProtocolBounds, FromStart
<1>2. CASE Len(b) < c
  <2>1. r.kind = "Incomplete"
    BY <1>2, ParseIs
  <2>2. ~(c <= Len(b))
    BY <1>1, <1>2
  <2> QED BY <2>1, <2>2
<1>3. CASE c <= Len(b) /\ ~Candidate(protocol, b)
  <2> HIDE DEF c, r
  <2>1. r.kind = "Desync" /\ r.what = "NoCandidate" /\ ScanStops(protocol, b, r.n)
    BY <1>3, ParseIs DEF c, r
  <2>2. r.n \in 1 .. Len(b) - c + 1 /\ \A k \in 0 .. r.n - 1 : ~Candidate(protocol, From(b, k))
    BY <2>1 DEF ScanStops, c
  <2>3. r.n \in 1 .. Len(b)
    BY <1>1, <1>3, <2>2
  <2>4. ASSUME NEW k \in 0 .. r.n - 1 PROVE Barren(b, k)
    <3>1. k + c <= Len(b)
      BY <1>1, <1>3, <2>2
    <3> QED BY <2>2, <3>1 DEF Barren, c
  <2>5. r.what \notin Integrities
    BY <2>1 DEF Integrities
  <2> QED BY <2>1, <2>3, <2>4, <2>5 DEF r
<1>4. CASE c <= Len(b) /\ Candidate(protocol, b)
  <2>1. r = Measured(protocol, b)
    BY <1>4, ParseIs
  <2>2. 0 + c <= Len(b)
    BY <1>1, <1>4
  <2> HIDE DEF r
  <2>3. CASE Whole(protocol, b)
    <3>1. Fruitful(b, 0)
      BY <1>1, <1>4, <2>2, <2>3 DEF Fruitful
    <3>2. r.kind = "Frame" /\ r.n = Measure(protocol, b).n
          /\ r.what = Verdict(protocol, First(protocol, b))
      BY <1>4, <2>1, <2>3, MeasuredIs
    <3> QED BY <3>1, <3>2 DEF r
  <2>4. CASE Dead(protocol, b)
    <3>1. r.kind = "Desync" /\ r.n = 1 /\ r.what \notin Integrities
      BY <1>4, <2>1, <2>4, MeasuredIs
    <3>2. Barren(b, 0)
      BY <1>1, <2>2, <2>4 DEF Barren
    <3>3. r.n \in 1 .. Len(b) /\ \A k \in 0 .. r.n - 1 : k = 0
      BY <1>1, <1>4, <3>1
    <3>4. \A k \in 0 .. r.n - 1 : Barren(b, k)
      BY <3>2, <3>3
    <3> QED BY <3>1, <3>3, <3>4 DEF r
  <2>5. CASE Open(protocol, b)
    <3>1. PICK need \in Nat \ {0} : r = Pending(protocol, b, need)
      BY <1>4, <2>1, <2>5, MeasuredIs
    <3>2. CASE ScanPastIncomplete[protocol] /\ CompleteBeyond(protocol, b) # {}
      <4> DEFINE B == CompleteBeyond(protocol, b)
                 n == Least(B)
      <4>1. r = Desync(n, "NoCandidate")
        BY <3>1, <3>2 DEF Pending
      <4>2. r.kind = "Desync" /\ r.what = "NoCandidate" /\ r.n = n
        <5> HIDE DEF n
        <5> QED BY <4>1 DEF Desync
      <4>3. /\ B \subseteq 1 .. Len(b) - c
            /\ \A k \in 1 .. Len(b) - c : k \in B <=> VerifiedFrame(b, k)
        BY <1>4, BeyondIs
      <4>4. n \in B /\ \A k \in B : n <= k
        <5> HIDE DEF B
        <5>1. B \in SUBSET Nat /\ B # {}
          <6>1. B \in SUBSET Nat
            <7>1. 1 .. Len(b) - c \subseteq Nat
              BY <1>1
            <7> QED BY <4>3, <7>1
          <6> QED BY <3>2, <6>1 DEF B
        <5> QED BY <5>1, LeastIsMember
      <4> HIDE DEF n, B, c
      <4>5. n \in 1 .. Len(b) - c /\ VerifiedFrame(b, n)
        BY <4>3, <4>4
      <4>6. ASSUME NEW k \in 0 .. n - 1 PROVE ~TrueFrame(b, k)
        <5>1. CASE k = 0
          <6> SUFFICES ASSUME TrueFrame(b, 0) PROVE FALSE
            BY <5>1
          <6>1. Fruitful(b, 0)
            BY <1>1, VerifiedFrameIs DEF Bounded
          <6>2. Whole(protocol, b)
            BY <1>1, <6>1 DEF Fruitful
          <6>3. r.kind = "Frame"
            BY <1>4, <2>1, <6>2, MeasuredIs DEF c
          <6> QED BY <4>2, <6>3
        <5>2. CASE k # 0
          <6>1. k \in 1 .. Len(b) - c /\ ~(n <= k)
            BY <1>1, <4>5, <5>2
          <6>2. ~VerifiedFrame(b, k)
            BY <4>3, <4>4, <6>1
          <6> QED BY <6>2 DEF TrueFrame
        <5> QED BY <5>1, <5>2
      <4>7. r.n \in 1 .. Len(b) /\ r.what \notin Integrities
        BY <1>1, <4>2, <4>5 DEF Integrities
      <4> QED BY <3>2, <4>2, <4>5, <4>6, <4>7 DEF r
    <3>3. CASE ~(ScanPastIncomplete[protocol] /\ CompleteBeyond(protocol, b) # {})
      <4>1. r.kind = "Incomplete"
        BY <3>1, <3>3 DEF Pending, Incomplete
      <4> QED BY <1>4, <2>5, <4>1 DEF r
    <3> QED BY <3>2, <3>3
  <2> QED BY <1>4, <2>3, <2>4, <2>5, MeasuredIs
<1> QED BY <1>1, <1>2, <1>3, <1>4

(* ---------------------------------------------------------------------- *)
(* The invariant of the history                                             *)

\* The bound on what is offered bounds the stream.
Offered == Len(stream) + refused <= MaxOffered

\* No piece ends behind the last one.
Ordered == \A i \in 1 .. Len(log) : EndOf(i) <= EndOf(Len(log))

\* While the last answer is None, the buffer still starts what was found unfinished.
NoneIsOpen == result = "none" => spent = 0 /\ Parse(protocol, buf).kind = "Incomplete"

\* A returned frame is the one that starts where it does, with verify's verdict on it.
Kept(i) ==
  \E y \in Nat :
    /\ y = log[i].at /\ Fruitful(stream, y)
    /\ log[i].len = Measure(protocol, From(stream, y)).n
    /\ log[i].what = Verdict(protocol, First(protocol, From(stream, y)))

\* Discarded bytes begin no frame.
Firm(i) == \A y \in log[i].at .. EndOf(i) - 1 : Barren(stream, y)

\* Or they were given up for the verified frame behind them.
GivenUp(i) ==
  /\ ScanPastIncomplete[protocol]
  /\ \A y \in log[i].at .. EndOf(i) - 1 :
       TrueFrame(stream, y) => EndOf(i) < y + Measure(protocol, From(stream, y)).n
  /\ \E lure \in Nat :
       /\ lure = EndOf(i) /\ VerifiedFrame(stream, lure)
       /\ i < Len(log) =>
            log[i + 1].what = IF TrueFrame(stream, lure) THEN "Verified" ELSE "BadHeader"
  /\ i = Len(log) => pc = "pop"

Judged(i) == IF IsFrame(log[i]) THEN Kept(i) ELSE Firm(i) \/ GivenUp(i)

\* The pieces are judged by what parse would see in the whole stream, and what has
\* been seen stands (ContractAssumption).
HistoryInv ==
  Offered /\ Ordered /\ NoneIsOpen /\ \A i \in 1 .. Len(log) : Judged(i)

\* Where the pieces and the buffer are in the stream.
LEMMA BufferIs ==
  ASSUME IInv
  PROVE  /\ protocol \in Protocols /\ stream \in Seq(Byte) /\ buf \in Seq(Byte)
         /\ log \in Seq(Piece) /\ Len(log) \in Nat /\ Len(stream) \in Nat /\ Len(buf) <= N
         /\ EndOf(Len(log)) \in 0 .. Len(stream)
         /\ \A i \in 1 .. Len(log) :
              /\ log[i].at \in Nat /\ log[i].len \in Nat /\ 1 <= log[i].len
              /\ log[i].what \in Integrities \cup Causes
              /\ log[i] = [at |-> log[i].at, len |-> log[i].len, what |-> log[i].what]
              /\ EndOf(i) = log[i].at + log[i].len /\ EndOf(i) \in Nat
              /\ i < Len(log) => log[i + 1].at = EndOf(i)
         /\ spent = 0 =>
              /\ EndOf(Len(log)) = Base /\ Base \in 0 .. Len(stream)
              /\ buf = From(stream, Base) /\ Len(buf) = Len(stream) - Base
<1>1. /\ protocol \in Protocols /\ stream \in Seq(Byte) /\ buf \in Seq(Byte)
      /\ log \in Seq(Piece) /\ Len(log) \in Nat /\ Len(stream) \in Nat /\ Len(buf) <= N
      /\ Len(buf) \in Nat /\ spent \in 0 .. Len(buf)
  BY DEF IInv, TypeOK
<1>2. /\ Len(buf) <= Len(stream) /\ \A k \in 1 .. Len(buf) : buf[k] = stream[Base + k]
      /\ EndOf(Len(log)) = Base + spent
      /\ \A i \in 1 .. Len(log) : log[i].at = EndOf(i - 1) /\ log[i].len >= 1
  BY DEF IInv, BytesAccounted, BufferIsTail, PiecesTile
<1>3. Base \in 0 .. Len(stream) /\ Base + Len(buf) = Len(stream) /\ Len(buf) = Len(stream) - Base
  BY <1>1, <1>2 DEF Base
<1>4. EndOf(Len(log)) \in 0 .. Len(stream)
  BY <1>1, <1>2, <1>3
<1>5. ASSUME NEW i \in 1 .. Len(log)
      PROVE  /\ log[i].at \in Nat /\ log[i].len \in Nat /\ 1 <= log[i].len
             /\ log[i].what \in Integrities \cup Causes
             /\ log[i] = [at |-> log[i].at, len |-> log[i].len, what |-> log[i].what]
             /\ EndOf(i) = log[i].at + log[i].len /\ EndOf(i) \in Nat
             /\ i < Len(log) => log[i + 1].at = EndOf(i)
  <2>1. log[i] \in Piece
    BY <1>1
  <2>2. /\ log[i].at \in Nat /\ log[i].len \in Nat
        /\ log[i].what \in Integrities \cup Causes
        /\ log[i] = [at |-> log[i].at, len |-> log[i].len, what |-> log[i].what]
    BY <2>1 DEF Piece
  <2>3. 1 <= log[i].len
    BY <1>2, <2>2
  <2>4. EndOf(i) = log[i].at + log[i].len /\ EndOf(i) \in Nat
    BY <2>2 DEF EndOf
  <2>5. i < Len(log) => log[i + 1].at = EndOf(i)
    <3>1. i < Len(log) => i + 1 \in 1 .. Len(log) /\ (i + 1) - 1 = i
      BY <1>1
    <3> QED BY <1>2, <3>1
  <2> QED BY <2>2, <2>3, <2>4, <2>5
<1>6. buf = From(stream, Base)
  <2> DEFINE x == From(stream, Base)
  <2>1. x \in Seq(Byte) /\ Len(x) = Len(stream) - Base
        /\ \A k \in 1 .. Len(stream) - Base : x[k] = stream[Base + k]
    BY <1>1, <1>3, FromProperties
  <2> HIDE DEF x
  <2>2. Len(x) = Len(buf) /\ \A k \in 1 .. Len(buf) : x[k] = buf[k]
    BY <1>2, <1>3, <2>1
  <2> QED BY <1>1, <2>1, <2>2, SeqEqual DEF x
<1>7. spent = 0 => EndOf(Len(log)) = Base
  BY <1>1, <1>2, <1>3
<1> QED BY <1>1, <1>3, <1>4, <1>5, <1>6, <1>7

LEMMA SeenPrimed ==
  ASSUME protocol' = protocol, NEW y
  PROVE  /\ Barren(stream, y)' <=> Barren(stream', y)
         /\ Fruitful(stream, y)' <=> Fruitful(stream', y)
         /\ VerifiedFrame(stream, y)' <=> VerifiedFrame(stream', y)
         /\ TrueFrame(stream, y)' <=> TrueFrame(stream', y)
<1>1. Barren(stream, y)' <=> Barren(stream', y)
  BY DEF Barren
<1>2. Fruitful(stream, y)' <=> Fruitful(stream', y)
  BY DEF Fruitful
<1>3. VerifiedFrame(stream, y)' <=> VerifiedFrame(stream', y)
  BY DEF VerifiedFrame, FrameAt
<1>4. TrueFrame(stream, y)' <=> TrueFrame(stream', y)
  BY <1>3 DEF TrueFrame, FrameAt
<1> QED BY <1>1, <1>2, <1>3, <1>4

LEMMA BeginsItself ==
  ASSUME NEW b \in Seq(Byte)
  PROVE  Begins(b, b)
<1>1. Len(b) \in Nat /\ Len(b) <= Len(b)
  OBVIOUS
<1> QED BY <1>1, BeginsIs

\* More bytes change no verdict on the pieces.
LEMMA JudgedStands ==
  ASSUME IInv, HistoryInv, stream' \in Seq(Byte), Begins(stream, stream'),
         Len(stream') <= MaxOffered, UNCHANGED <<protocol, log>>,
         GivenUp(Len(log)) => pc' = "pop", NEW i \in 1 .. Len(log)
  PROVE  Judged(i)'
<1> DEFINE t == stream'
           at == log[i].at
           end == EndOf(i)
<1>1. /\ protocol \in Protocols /\ stream \in Seq(Byte) /\ Len(log) \in Nat /\ Len(stream) \in Nat
      /\ at \in Nat /\ end \in Nat /\ protocol' = protocol /\ log' = log
  BY BufferIs
<1>2. end <= Len(stream)
  <2>1. end <= EndOf(Len(log)) /\ EndOf(Len(log)) \in 0 .. Len(stream)
    BY BufferIs DEF HistoryInv, Ordered
  <2> HIDE DEF end
  <2> QED BY <1>1, <2>1
<1>3. /\ EndOf(i)' = end /\ log[i]' = log[i] /\ (i + 1 \in 1 .. Len(log) => log[i + 1]' = log[i + 1])
      /\ Len(log)' = Len(log)
  BY <1>1 DEF EndOf
<1>4. CASE IsFrame(log[i])
  <2>1. Kept(i)
    BY <1>4 DEF HistoryInv, Judged
  <2>2. PICK y \in Nat : /\ y = log[i].at /\ Fruitful(stream, y)
                         /\ log[i].len = Measure(protocol, From(stream, y)).n
                         /\ log[i].what = Verdict(protocol, First(protocol, From(stream, y)))
    BY <2>1 DEF Kept
  <2>3. /\ Fruitful(t, y) /\ Measure(protocol, From(t, y)) = Measure(protocol, From(stream, y))
        /\ First(protocol, From(t, y)) = First(protocol, From(stream, y))
    BY <1>1, <2>2, PositionsStand
  <2>4. Fruitful(stream, y)'
    BY <1>1, <2>3, SeenPrimed
  <2>5. Kept(i)'
    BY <1>1, <2>2, <2>3, <2>4 DEF Kept
  <2>6. IsFrame(log[i])'
    BY <1>1, <1>4 DEF IsFrame
  <2> QED BY <2>5, <2>6 DEF Judged
<1>5. CASE ~IsFrame(log[i]) /\ Firm(i)
  <2>1. ASSUME NEW y \in at .. end - 1 PROVE Barren(stream, y)'
    <3>1. y \in Nat
      BY <1>1
    <3>2. Barren(stream, y)
      BY <1>5 DEF Firm
    <3>3. Barren(t, y)
      BY <1>1, <3>1, <3>2, PositionsStand
    <3> QED BY <1>1, <3>3, SeenPrimed
  <2>2. Firm(i)'
    BY <1>1, <1>3, <2>1 DEF Firm
  <2>3. ~IsFrame(log[i])'
    BY <1>1, <1>5 DEF IsFrame
  <2> QED BY <2>2, <2>3 DEF Judged
<1>6. CASE ~IsFrame(log[i]) /\ GivenUp(i)
  <2>1. ScanPastIncomplete[protocol]
    BY <1>6 DEF GivenUp
  <2>2. ASSUME NEW y \in at .. end - 1, TrueFrame(t, y)
        PROVE  end < y + Measure(protocol, From(t, y)).n
    <3> DEFINE n == Measure(protocol, From(t, y)).n
    <3>1. y \in 0 .. Len(stream) /\ y < end /\ y \in Nat
      BY <1>1, <1>2
    <3>2. n \in Nat
      <4>1. y <= Len(t) /\ Len(t) \in Nat
        BY <1>1, <3>1 DEF Begins
      <4>2. Fruitful(t, y)
        BY <1>1, <2>2, <3>1, <4>1, VerifiedFrameIs
      <4>3. Sized(protocol, Measure(protocol, From(t, y)))
        BY <4>2 DEF Fruitful, Whole
      <4> QED BY <1>1, <4>3, ProtocolBounds DEF Sized
    <3>3. CASE y + n <= Len(stream)
      <4>1. TrueFrame(stream, y) /\ Measure(protocol, From(stream, y)) = Measure(protocol, From(t, y))
        BY <1>1, <2>2, <3>1, <3>3, LateFrame
      <4> QED BY <1>6, <4>1 DEF GivenUp
    <3>4. CASE ~(y + n <= Len(stream))
      <4> HIDE DEF n, end
      <4>1. end < y + n
        BY <1>1, <1>2, <3>1, <3>2, <3>4
      <4> QED BY <4>1 DEF n
    <3> QED BY <3>3, <3>4
  <2>3. PICK lure \in Nat :
               /\ lure = EndOf(i) /\ VerifiedFrame(stream, lure)
               /\ i < Len(log) =>
                    log[i + 1].what = IF TrueFrame(stream, lure) THEN "Verified" ELSE "BadHeader"
    BY <1>6 DEF GivenUp
  <2>4. VerifiedFrame(t, lure) /\ (TrueFrame(t, lure) <=> TrueFrame(stream, lure))
    <3>1. lure \in 0 .. Len(stream)
      BY <1>1, <1>2, <2>3
    <3> QED BY <1>1, <2>3, <3>1, VerifiedStands
  <2>5. ~IsFrame(log[i])'
    BY <1>1, <1>6 DEF IsFrame
  <2>6. i = Len(log) => pc' = "pop"
    BY <1>6
  <2>7. VerifiedFrame(stream, lure)' /\ (TrueFrame(stream, lure)' <=> TrueFrame(t, lure))
    BY <1>1, <2>4, SeenPrimed
  <2>8. i < Len(log) =>
          log[i + 1].what = IF TrueFrame(stream, lure)' THEN "Verified" ELSE "BadHeader"
    BY <2>3, <2>4, <2>7
  <2>9. ASSUME NEW y \in at .. end - 1, TrueFrame(stream, y)'
        PROVE  end < y + Measure(protocol, From(t, y)).n
    BY <1>1, <2>2, <2>9, SeenPrimed
  <2>10. GivenUp(i)'
    <3>1. /\ ScanPastIncomplete[protocol]'
          /\ \A y \in (log[i].at)' .. EndOf(i)' - 1 :
               TrueFrame(stream, y)' => EndOf(i)' < y + Measure(protocol', From(stream', y)).n
      BY <1>1, <1>3, <2>1, <2>9
    <3>2. /\ lure = EndOf(i)' /\ VerifiedFrame(stream, lure)'
          /\ i < Len(log)' =>
               (log[i + 1].what)' = IF TrueFrame(stream, lure)' THEN "Verified" ELSE "BadHeader"
      BY <1>1, <1>3, <2>3, <2>7, <2>8
    <3>3. i = Len(log)' => pc' = "pop"
      BY <1>1, <2>6
    <3> QED BY <3>1, <3>2, <3>3, Zenon DEF GivenUp
  <2> QED BY <2>5, <2>10 DEF Judged
<1> QED
  <2>1. Judged(i)
    BY DEF HistoryInv
  <2> QED BY <1>4, <1>5, <1>6, <2>1 DEF Judged

\* The piece a turn of pop's loop cuts is judged by what is there, and where it
\* answers for bytes given up it is what they were given up for.
LEMMA JudgedCut ==
  ASSUME IInv, HistoryInv, spent = 0, UNCHANGED <<protocol, stream>>,
         NEW r, r = Parse(protocol, buf), r.kind \in {"Desync", "Frame"},
         r.kind = "Desync" => pc' = "pop",
         log' = Append(log, [at |-> Base, len |-> r.n, what |-> r.what]),
         NEW i \in 1 .. Len(log) + 1
  PROVE  Judged(i)'
<1> DEFINE piece == [at |-> Base, len |-> r.n, what |-> r.what]
<1>0. PICK k \in Nat : k = Len(log) + 1
  <2>1. Len(log) \in Nat
    BY BufferIs
  <2> QED BY <2>1
<1>1. /\ protocol \in Protocols /\ stream \in Seq(Byte) /\ Len(log) \in Nat /\ Len(stream) \in Nat
      /\ protocol' = protocol /\ stream' = stream /\ buf \in Seq(Byte) /\ Len(buf) <= N
      /\ log \in Seq(Piece) /\ k = Len(log) + 1 /\ k \in Nat
  BY <1>0, BufferIs
<1>2. /\ EndOf(Len(log)) = Base /\ Base \in 0 .. Len(stream) /\ Base \in Nat
      /\ buf = From(stream, Base) /\ Len(buf) = Len(stream) - Base
  <2>1. /\ EndOf(Len(log)) = Base /\ Base \in 0 .. Len(stream)
        /\ buf = From(stream, Base) /\ Len(buf) = Len(stream) - Base
    BY BufferIs
  <2> QED BY <2>1
<1>3. Len(stream) <= MaxOffered /\ MaxOffered \in Nat
  BY <1>1, ProtocolAssumption DEF HistoryInv, Offered, IInv, TypeOK
<1>4. /\ Len(log') = k /\ log'[k] = piece /\ \A j \in 1 .. Len(log) : log'[j] = log[j]
  <2>1. log' = Append(log, piece)
    OBVIOUS
  <2> HIDE DEF piece
  <2> QED BY <1>1, <2>1, AppendProperties
<1>5. piece.at = Base /\ piece.len = r.n /\ piece.what = r.what
  OBVIOUS
<1> HIDE DEF piece
<1>6. \A j \in 1 .. Len(log) : EndOf(j)' = EndOf(j)
  BY <1>1, <1>4 DEF EndOf
<1>7. EndOf(k)' = Base + r.n
  BY <1>1, <1>4, <1>5 DEF EndOf
<1>8. /\ r.kind = "Frame" => /\ Fruitful(buf, 0) /\ r.n = Measure(protocol, buf).n
                             /\ r.what = Verdict(protocol, First(protocol, buf))
      /\ r.kind = "Desync" =>
           /\ r.what \notin Integrities /\ r.n \in 1 .. Len(buf)
           /\ \/ \A y \in 0 .. r.n - 1 : Barren(buf, y)
              \/ /\ ScanPastIncomplete[protocol] /\ VerifiedFrame(buf, r.n)
                 /\ \A y \in 0 .. r.n - 1 : ~TrueFrame(buf, y)
  <2>1. Bounded(buf)
    BY <1>1 DEF Bounded
  <2> QED BY <1>1, <2>1, PieceIs
<1>9. Base + 0 = Base /\ 0 \in 0 .. Len(stream) - Base
  BY <1>1, <1>2
<1>10. CASE i = k /\ r.kind = "Frame"
  <2>1. Fruitful(stream, Base)
    BY <1>1, <1>2, <1>8, <1>9, <1>10, StandsFromPart
  <2>2. r.what \in Integrities
    BY <1>8, <1>10 DEF Verdict, Integrities
  <2>3. IsFrame(log[i])'
    BY <1>4, <1>5, <1>10, <2>2 DEF IsFrame
  <2>4. PICK y \in Nat : y = Base
    BY <1>2
  <2>5. Fruitful(stream, y)'
    BY <1>1, <2>1, <2>4, SeenPrimed
  <2>6. /\ y = (log[i].at)' /\ (log[i].len)' = Measure(protocol', From(stream', y)).n
        /\ (log[i].what)' = Verdict(protocol', First(protocol', From(stream', y)))
    BY <1>1, <1>2, <1>4, <1>5, <1>8, <1>10, <2>4
  <2>7. Kept(i)'
    BY <2>5, <2>6 DEF Kept
  <2> QED BY <2>3, <2>7 DEF Judged
<1>11. CASE i = k /\ r.kind = "Desync"
  <2>1. ~IsFrame(log[i])'
    BY <1>4, <1>5, <1>8, <1>11 DEF IsFrame
  <2>2. r.n \in 1 .. Len(buf) /\ r.n \in Nat
    BY <1>8, <1>11
  <2>3. (log[i].at)' = Base /\ EndOf(i)' = Base + r.n
    BY <1>4, <1>5, <1>7, <1>11
  <2>31. (log[i].at)' .. EndOf(i)' - 1 = Base .. Base + r.n - 1
    <3>1. (Base + r.n) - 1 = Base + r.n - 1
      BY <1>2, <2>2
    <3> QED BY <2>3, <3>1
  <2>4. ASSUME NEW y \in Base .. Base + r.n - 1
        PROVE  /\ y - Base \in 0 .. r.n - 1 /\ y - Base \in 0 .. Len(stream) - Base
               /\ Base + (y - Base) = y /\ y \in Nat
    BY <1>1, <1>2, <2>2
  <2>5. CASE \A y \in 0 .. r.n - 1 : Barren(buf, y)
    <3>1. ASSUME NEW y \in Base .. Base + r.n - 1 PROVE Barren(stream, y)'
      <4>1. Barren(buf, y - Base)
        BY <2>4, <2>5
      <4>2. Barren(stream, Base + (y - Base))
        BY <1>1, <1>2, <2>4, <4>1, StandsFromPart
      <4>3. Barren(stream, y)
        BY <2>4, <4>2
      <4> QED BY <1>1, <4>3, SeenPrimed
    <3>2. Firm(i)'
      BY <2>31, <3>1, Zenon DEF Firm
    <3> QED BY <2>1, <3>2 DEF Judged
  <2>6. CASE /\ ScanPastIncomplete[protocol] /\ VerifiedFrame(buf, r.n)
             /\ \A y \in 0 .. r.n - 1 : ~TrueFrame(buf, y)
    <3>1. ASSUME NEW y \in Base .. Base + r.n - 1 PROVE ~TrueFrame(stream, y)'
      <4>1. ~TrueFrame(buf, y - Base)
        BY <2>4, <2>6
      <4>2. ~TrueFrame(stream, Base + (y - Base))
        BY <1>1, <1>2, <1>3, <2>4, <4>1, SeenFromPart
      <4>3. ~TrueFrame(stream, y)
        BY <2>4, <4>2
      <4> QED BY <1>1, <4>3, SeenPrimed
    <3>2. PICK lure \in Nat : lure = Base + r.n
      BY <1>2, <2>2
    <3>3. VerifiedFrame(stream, lure)
      <4>1. r.n \in 0 .. Len(stream) - Base
        BY <1>1, <1>2, <2>2
      <4>2. VerifiedFrame(stream, Base + r.n)
        BY <1>1, <1>2, <1>3, <2>6, <4>1, SeenFromPart
      <4> QED BY <3>2, <4>2
    <3>4. VerifiedFrame(stream, lure)'
      BY <1>1, <3>3, SeenPrimed
    <3>5. ~(i < Len(log)')
      BY <1>1, <1>4, <1>11
    <3>6. pc' = "pop" /\ ScanPastIncomplete[protocol]'
      BY <1>1, <1>11, <2>6
    <3>7. \A y \in (log[i].at)' .. EndOf(i)' - 1 :
            TrueFrame(stream, y)' => EndOf(i)' < y + Measure(protocol', From(stream', y)).n
      BY <2>31, <3>1, Zenon
    <3>8. lure = EndOf(i)'
      BY <2>3, <3>2
    <3>9. GivenUp(i)'
      BY <3>4, <3>5, <3>6, <3>7, <3>8, Zenon DEF GivenUp
    <3> QED BY <2>1, <3>9 DEF Judged
  <2> QED BY <1>8, <1>11, <2>5, <2>6
<1>12. CASE i # k
  <2>1. i \in 1 .. Len(log)
    BY <1>1, <1>12
  <2>2. log'[i] = log[i] /\ EndOf(i)' = EndOf(i) /\ log[i]' = log[i]
    BY <1>4, <1>6, <2>1
  <2>3. Judged(i)
    BY <2>1 DEF HistoryInv
  <2>4. CASE IsFrame(log[i])
    <3>1. PICK y \in Nat : /\ y = log[i].at /\ Fruitful(stream, y)
                           /\ log[i].len = Measure(protocol, From(stream, y)).n
                           /\ log[i].what = Verdict(protocol, First(protocol, From(stream, y)))
      BY <2>3, <2>4 DEF Judged, Kept
    <3>2. Fruitful(stream, y)'
      BY <1>1, <3>1, SeenPrimed
    <3>3. Kept(i)'
      BY <1>1, <2>2, <3>1, <3>2 DEF Kept
    <3>4. IsFrame(log[i])'
      BY <2>2, <2>4 DEF IsFrame
    <3> QED BY <3>3, <3>4 DEF Judged
  <2>5. CASE ~IsFrame(log[i]) /\ Firm(i)
    <3>1. ASSUME NEW y \in log[i].at .. EndOf(i) - 1 PROVE Barren(stream, y)'
      <4>1. Barren(stream, y)
        BY <2>5 DEF Firm
      <4> QED BY <1>1, <4>1, SeenPrimed
    <3>2. Firm(i)'
      BY <2>2, <3>1 DEF Firm
    <3>3. ~IsFrame(log[i])'
      BY <2>2, <2>5 DEF IsFrame
    <3> QED BY <3>2, <3>3 DEF Judged
  <2>6. CASE ~IsFrame(log[i]) /\ GivenUp(i)
    <3>1. ~IsFrame(log[i])'
      BY <2>2, <2>6 DEF IsFrame
    <3>2. PICK lure \in Nat :
               /\ lure = EndOf(i) /\ VerifiedFrame(stream, lure)
               /\ i < Len(log) =>
                    log[i + 1].what = IF TrueFrame(stream, lure) THEN "Verified" ELSE "BadHeader"
      BY <2>6 DEF GivenUp
    <3>3. VerifiedFrame(stream, lure)' /\ (TrueFrame(stream, lure)' <=> TrueFrame(stream, lure))
      BY <1>1, <3>2, SeenPrimed
    <3>4. log'[i + 1].what = IF TrueFrame(stream, lure) THEN "Verified" ELSE "BadHeader"
      <4>1. CASE i < Len(log)
        <5>1. i + 1 \in 1 .. Len(log)
          BY <1>1, <2>1, <4>1
        <5>2. log'[i + 1] = log[i + 1]
          BY <1>4, <5>1
        <5> QED BY <3>2, <4>1, <5>2
      <4>2. CASE ~(i < Len(log))
        <5>1. i = Len(log) /\ i + 1 = k
          BY <1>1, <2>1, <4>2
        <5>2. lure = Base
          BY <1>2, <3>2, <5>1
        <5>3. VerifiedFrame(buf, 0) /\ (TrueFrame(buf, 0) <=> TrueFrame(stream, lure))
          <6>1. /\ VerifiedFrame(From(stream, Base), 0) <=> VerifiedFrame(stream, Base + 0)
                /\ TrueFrame(From(stream, Base), 0) <=> TrueFrame(stream, Base + 0)
            BY <1>1, <1>2, <1>3, <1>9, SeenFromPart
          <6> QED BY <1>2, <1>9, <3>2, <5>2, <6>1
        <5>4. r.what = IF TrueFrame(buf, 0) THEN "Verified" ELSE "BadHeader"
          BY <1>1, <5>3, LureParsed
        <5>5. log'[i + 1].what = r.what
          BY <1>4, <1>5, <5>1
        <5> QED BY <5>3, <5>4, <5>5
      <4> QED BY <4>1, <4>2
    <3>5. (log[i + 1].what)' = IF TrueFrame(stream, lure)' THEN "Verified" ELSE "BadHeader"
      BY <3>3, <3>4
    <3>6. ~(i = Len(log)')
      BY <1>1, <1>4, <2>1
    <3>7. ASSUME NEW y \in log[i].at .. EndOf(i) - 1, TrueFrame(stream, y)'
          PROVE  EndOf(i) < y + Measure(protocol, From(stream, y)).n
      <4>1. TrueFrame(stream, y)
        BY <1>1, <3>7, SeenPrimed
      <4> QED BY <2>6, <4>1 DEF GivenUp
    <3>8. \A y \in (log[i].at)' .. EndOf(i)' - 1 :
            TrueFrame(stream, y)' => EndOf(i)' < y + Measure(protocol', From(stream', y)).n
      BY <1>1, <2>2, <3>7
    <3>9. lure = EndOf(i)' /\ ScanPastIncomplete[protocol]'
      BY <1>1, <2>2, <2>6, <3>2 DEF GivenUp
    <3>10. GivenUp(i)'
      BY <3>3, <3>5, <3>6, <3>8, <3>9, Zenon DEF GivenUp
    <3> QED BY <3>1, <3>10 DEF Judged
  <2> QED BY <2>3, <2>4, <2>5, <2>6 DEF Judged
<1> QED BY <1>10, <1>11, <1>12

LEMMA InitHistory == Init => HistoryInv
<1> SUFFICES ASSUME Init PROVE HistoryInv
  OBVIOUS
<1>1. Offered
  BY ProtocolAssumption DEF Init, Offered
<1>2. Ordered /\ \A i \in 1 .. Len(log) : Judged(i)
  BY DEF Init, Ordered
<1>3. NoneIsOpen
  BY DEF Init, NoneIsOpen
<1> QED BY <1>1, <1>2, <1>3 DEF HistoryInv

LEMMA PushHistory ==
  ASSUME IInv, HistoryInv, NEW chunk \in Chunks, Push(chunk)
  PROVE  HistoryInv'
<1> DEFINE room == N - Len(Released)
           take == IF Len(chunk) < room THEN Len(chunk) ELSE room
           rest == Len(chunk) - take
           taken == SubSeq(chunk, 1, take)
<1>1. /\ pc = "idle" /\ Len(stream) + refused + Len(chunk) <= MaxOffered
      /\ stream' = stream \o taken /\ refused' = refused + rest /\ result' = "push"
      /\ UNCHANGED <<protocol, log>>
  BY DEF Push
<1>2. /\ Len(stream) \in Nat /\ refused \in Nat /\ Len(chunk) \in Nat /\ chunk \in Seq(Byte)
      /\ stream \in Seq(Byte) /\ Len(Released) \in 0 .. N /\ MaxOffered \in Nat /\ N \in Nat
  BY ReleasedIsTail, ChunksAssumption, ProtocolAssumption DEF IInv, TypeOK
<1>3. take \in 0 .. Len(chunk) /\ rest \in Nat /\ take + rest = Len(chunk)
  BY <1>2
<1> HIDE DEF take, rest, room
<1>4. taken \in Seq(Byte) /\ Len(taken) = take
  BY <1>2, <1>3
<1> HIDE DEF taken
<1>5. stream' \in Seq(Byte) /\ Len(stream') = Len(stream) + take
  BY <1>1, <1>2, <1>4, ConcatProperties
<1>6. Len(stream') <= MaxOffered /\ Offered'
  BY <1>1, <1>2, <1>3, <1>5 DEF Offered
<1>7. Begins(stream, stream')
  BY PushArrives DEF Abstract!Arrive, Begins
<1>8. GivenUp(Len(log)) => pc' = "pop"
  BY <1>1 DEF GivenUp
<1>9. \A i \in 1 .. Len(log) : Judged(i)'
  BY <1>1, <1>5, <1>6, <1>7, <1>8, JudgedStands
<1>10. Ordered' /\ NoneIsOpen'
  BY <1>1 DEF HistoryInv, Ordered, EndOf, NoneIsOpen
<1> QED BY <1>1, <1>6, <1>9, <1>10 DEF HistoryInv

\* A turn that cuts a piece leaves the pieces in order.
LEMMA CutOrdered ==
  ASSUME IInv, Ordered, spent = 0, NEW n \in 1 .. Len(buf), NEW what \in Integrities \cup Causes,
         log' = Append(log, [at |-> Base, len |-> n, what |-> what])
  PROVE  Ordered' /\ Len(log') = Len(log) + 1
<1> DEFINE piece == [at |-> Base, len |-> n, what |-> what]
<1>1. EndOf(Len(log))' = Base + n
  BY AppendPiece DEF IInv
<1>2. EndOf(Len(log)) = Base /\ Base \in Nat /\ Len(log) \in Nat /\ log \in Seq(Piece)
      /\ \A i \in 1 .. Len(log) : EndOf(i) \in Nat
  <2>1. EndOf(Len(log)) = Base /\ Base \in 0 .. Len(stream) /\ Len(log) \in Nat /\ log \in Seq(Piece)
    BY BufferIs
  <2>2. \A i \in 1 .. Len(log) : EndOf(i) \in Nat
    BY BufferIs
  <2> QED BY <2>1, <2>2
<1>3. Len(log') = Len(log) + 1 /\ \A i \in 1 .. Len(log) : log'[i] = log[i]
  <2>1. log' = Append(log, piece)
    OBVIOUS
  <2> HIDE DEF piece
  <2> QED BY <1>2, <2>1, AppendProperties
<1>4. \A i \in 1 .. Len(log) : EndOf(i)' = EndOf(i) /\ EndOf(i) <= Base
  BY <1>2, <1>3 DEF EndOf, Ordered
<1>5. ASSUME NEW i \in 1 .. Len(log) + 1
      PROVE  EndOf(i)' <= Base + n
  <2>1. CASE i \in 1 .. Len(log)
    BY <1>2, <1>4, <2>1
  <2>2. CASE i = Len(log) + 1
    <3>1. i = Len(log')
      BY <1>3, <2>2
    <3>2. EndOf(i)' = Base + n
      BY <1>1, <3>1 DEF EndOf
    <3> QED BY <1>2, <3>2
  <2> QED BY <1>2, <2>1, <2>2
<1>6. Ordered'
  BY <1>1, <1>3, <1>5 DEF Ordered
<1> QED BY <1>3, <1>6

\* The pieces stay in order: this rests on the tiling alone, not on the contract.
LEMMA NextOrdered ==
  ASSUME IInv, Ordered, [Next]_vars
  PROVE  Ordered'
<1>1. PICK r : r = Parse(protocol, buf)
  OBVIOUS
<1>2. TypeOK
  BY DEF IInv
<1>3. CASE PopDesync
  <2>1. spent = 0 /\ r.kind = "Desync"
    BY <1>1, <1>3 DEF IInv, NothingSpent, PopDesync
  <2>2. r.n \in 1 .. Len(buf) /\ r.what \in Causes
    <3>1. Answer(protocol, buf, r)
      BY <1>1, <1>2, ParseAnswer DEF TypeOK
    <3> QED BY <2>1, <3>1 DEF Answer
  <2>3. log' = Append(log, [at |-> Base, len |-> r.n, what |-> r.what])
    <3> DEFINE n == r.n
    <3>1. n = IF (IF n < 1 THEN 1 ELSE n) < Len(buf) THEN (IF n < 1 THEN 1 ELSE n) ELSE Len(buf)
      BY <1>2, <2>2 DEF TypeOK
    <3> QED BY <1>1, <1>3, <3>1 DEF PopDesync
  <2>4. r.what \in Integrities \cup Causes
    BY <2>2
  <2> QED BY <2>1, <2>2, <2>3, <2>4, CutOrdered
<1>4. CASE PopFrame
  <2>1. /\ spent = 0 /\ r.kind = "Frame"
        /\ log' = Append(log, [at |-> Base, len |-> r.n, what |-> r.what])
    BY <1>1, <1>4 DEF IInv, NothingSpent, PopFrame
  <2>2. r.n \in 1 .. Len(buf) /\ r.what \in Integrities
    <3>1. Answer(protocol, buf, r) /\ protocol \in Protocols /\ Len(buf) \in Nat
      BY <1>1, <1>2, ParseAnswer DEF TypeOK
    <3> QED BY <2>1, <3>1, ProtocolBounds DEF Answer, Framed
  <2>3. r.what \in Integrities \cup Causes
    BY <2>2
  <2> QED BY <2>1, <2>2, <2>3, CutOrdered
<1>5. CASE UNCHANGED log
  BY <1>5 DEF Ordered, EndOf
<1>6. (\E chunk \in Chunks : Push(chunk)) \/ PopCall \/ PopIncomplete \/ UNCHANGED vars
        => UNCHANGED log
  BY DEF Push, PopCall, PopIncomplete, vars
<1> QED BY <1>3, <1>4, <1>5, <1>6 DEF Next, PopTurn

LEMMA OrderedInvariance == Spec => [](IInv /\ Ordered)
<1>1. Init => Ordered
  BY DEF Init, Ordered
<1> QED BY <1>1, InitInv, NextInv, NextOrdered, PTL DEF Spec

LEMMA PopDesyncHistory ==
  ASSUME IInv, HistoryInv, PopDesync
  PROVE  HistoryInv'
<1>1. PICK r : r = Parse(protocol, buf)
  OBVIOUS
<1>2. TypeOK /\ spent = 0 /\ pc = "pop" /\ r.kind = "Desync"
  BY <1>1 DEF IInv, NothingSpent, PopDesync
<1>3. r.n \in 1 .. Len(buf) /\ r.what \in Causes
  <2>1. Answer(protocol, buf, r)
    BY <1>1, <1>2, ParseAnswer DEF TypeOK
  <2> QED BY <1>2, <2>1 DEF Answer
<1>4. /\ log' = Append(log, [at |-> Base, len |-> r.n, what |-> r.what])
      /\ UNCHANGED <<protocol, pc, result, stream, refused>>
  <2> DEFINE n == r.n
  <2>1. n = IF (IF n < 1 THEN 1 ELSE n) < Len(buf) THEN (IF n < 1 THEN 1 ELSE n) ELSE Len(buf)
    BY <1>2, <1>3 DEF TypeOK
  <2> QED BY <1>1, <2>1 DEF PopDesync
<1>5. Ordered' /\ Len(log') = Len(log) + 1
  <2>1. r.what \in Integrities \cup Causes
    BY <1>3
  <2> QED BY <1>2, <1>3, <1>4, <2>1, CutOrdered DEF HistoryInv
<1>6. \A i \in 1 .. Len(log) + 1 : Judged(i)'
  <2>1. r.kind \in {"Desync", "Frame"} /\ (r.kind = "Desync" => pc' = "pop")
    BY <1>2, <1>4
  <2> QED BY <1>1, <1>2, <1>4, <2>1, JudgedCut
<1>7. Offered'
  BY <1>4 DEF HistoryInv, Offered
<1>8. NoneIsOpen'
  <2>1. result # "none"
    BY <1>1, <1>2 DEF HistoryInv, NoneIsOpen
  <2> QED BY <1>4, <2>1 DEF NoneIsOpen
<1> QED BY <1>5, <1>6, <1>7, <1>8 DEF HistoryInv

LEMMA PopFrameHistory ==
  ASSUME IInv, HistoryInv, PopFrame
  PROVE  HistoryInv'
<1>1. PICK r : r = Parse(protocol, buf)
  OBVIOUS
<1>2. TypeOK /\ spent = 0 /\ pc = "pop" /\ r.kind = "Frame"
  BY <1>1 DEF IInv, NothingSpent, PopFrame
<1>3. r.n \in 1 .. Len(buf) /\ r.what \in Integrities
  <2>1. Answer(protocol, buf, r) /\ protocol \in Protocols /\ Len(buf) \in Nat
    BY <1>1, <1>2, ParseAnswer DEF TypeOK
  <2> QED BY <1>2, <2>1, ProtocolBounds DEF Answer, Framed
<1>4. /\ log' = Append(log, [at |-> Base, len |-> r.n, what |-> r.what])
      /\ result' = "some" /\ UNCHANGED <<protocol, stream, refused>>
  BY <1>1 DEF PopFrame
<1>5. Ordered' /\ Len(log') = Len(log) + 1
  <2>1. r.what \in Integrities \cup Causes
    BY <1>3
  <2> QED BY <1>2, <1>3, <1>4, <2>1, CutOrdered DEF HistoryInv
<1>6. \A i \in 1 .. Len(log) + 1 : Judged(i)'
  <2>1. r.kind \in {"Desync", "Frame"} /\ (r.kind = "Desync" => pc' = "pop")
    BY <1>2
  <2> QED BY <1>1, <1>2, <1>4, <2>1, JudgedCut
<1>7. Offered' /\ NoneIsOpen'
  BY <1>4 DEF HistoryInv, Offered, NoneIsOpen
<1> QED BY <1>5, <1>6, <1>7 DEF HistoryInv

\* pop does not answer None with bytes given up for a frame it has not judged.
LEMMA PopIncompleteHistory ==
  ASSUME IInv, HistoryInv, PopIncomplete
  PROVE  HistoryInv'
<1>1. /\ protocol \in Protocols /\ stream \in Seq(Byte) /\ buf \in Seq(Byte) /\ Len(buf) <= N
      /\ spent = 0 /\ Parse(protocol, buf).kind = "Incomplete"
  BY BufferIs DEF IInv, NothingSpent, PopIncomplete
<1>2. UNCHANGED <<protocol, buf, spent, stream, log, refused>>
  BY DEF PopIncomplete
<1>3. /\ EndOf(Len(log)) = Base /\ Base \in 0 .. Len(stream) /\ Base \in Nat
      /\ buf = From(stream, Base) /\ Len(stream) \in Nat
  <2>1. /\ EndOf(Len(log)) = Base /\ Base \in 0 .. Len(stream)
        /\ buf = From(stream, Base) /\ Len(stream) \in Nat
    BY <1>1, BufferIs
  <2> QED BY <2>1
<1>4. Len(stream) <= MaxOffered
  BY <1>3, ProtocolAssumption DEF HistoryInv, Offered, IInv, TypeOK
<1>5. ~GivenUp(Len(log))
  <2> SUFFICES ASSUME GivenUp(Len(log)) PROVE FALSE
    OBVIOUS
  <2>1. VerifiedFrame(stream, Base)
    BY <1>3 DEF GivenUp
  <2>2. 0 \in 0 .. Len(stream) - Base /\ Base + 0 = Base
    BY <1>3
  <2>3. VerifiedFrame(From(stream, Base), 0) <=> VerifiedFrame(stream, Base + 0)
    BY <1>1, <1>3, <1>4, <2>2, SeenFromPart
  <2>4. VerifiedFrame(buf, 0)
    BY <1>3, <2>1, <2>2, <2>3
  <2> QED BY <1>1, <2>4, LureParsed
<1>6. \A i \in 1 .. Len(log) : Judged(i)'
  <2>1. stream' \in Seq(Byte) /\ Begins(stream, stream') /\ Len(stream') <= MaxOffered
    BY <1>1, <1>2, <1>4, BeginsItself
  <2> QED BY <1>2, <1>5, <2>1, JudgedStands
<1>7. Offered' /\ Ordered'
  BY <1>2 DEF HistoryInv, Offered, Ordered, EndOf
<1>8. NoneIsOpen'
  BY <1>1, <1>2 DEF NoneIsOpen
<1> QED BY <1>2, <1>6, <1>7, <1>8 DEF HistoryInv

\* A step that leaves the stream and the pieces alone, and keeps what is released.
LEMMA StillHistory ==
  ASSUME IInv, HistoryInv, UNCHANGED <<protocol, result, stream, log, refused>>,
         pc = "pop" => pc' = "pop",
         spent = 0 => spent' = 0 /\ buf' = buf
  PROVE  HistoryInv'
<1>1. /\ protocol \in Protocols /\ stream \in Seq(Byte) /\ Len(stream) \in Nat
  BY BufferIs
<1>2. Len(stream) <= MaxOffered
  BY <1>1, ProtocolAssumption DEF HistoryInv, Offered, IInv, TypeOK
<1>3. \A i \in 1 .. Len(log) : Judged(i)'
  <2>1. stream' \in Seq(Byte) /\ Begins(stream, stream') /\ Len(stream') <= MaxOffered
    BY <1>1, <1>2, BeginsItself
  <2>2. GivenUp(Len(log)) => pc' = "pop"
    BY DEF GivenUp
  <2> QED BY <2>1, <2>2, JudgedStands
<1>4. Offered' /\ Ordered'
  BY DEF HistoryInv, Offered, Ordered, EndOf
<1>5. NoneIsOpen'
  BY DEF HistoryInv, NoneIsOpen
<1> QED BY <1>3, <1>4, <1>5 DEF HistoryInv

LEMMA PopCallHistory ==
  ASSUME IInv, HistoryInv, PopCall
  PROVE  HistoryInv'
<1>1. /\ buf' = From(buf, spent) /\ spent' = 0 /\ pc' = "pop"
      /\ UNCHANGED <<protocol, result, stream, log, refused>>
  BY DEF PopCall, Released
<1>2. spent = 0 => buf' = buf
  BY <1>1, FromStart DEF IInv, TypeOK
<1> QED BY <1>1, <1>2, StillHistory

LEMMA NextHistory == IInv /\ HistoryInv /\ [Next]_vars => HistoryInv'
<1> SUFFICES ASSUME IInv, HistoryInv, [Next]_vars PROVE HistoryInv'
  OBVIOUS
<1>1. CASE \E chunk \in Chunks : Push(chunk)
  BY <1>1, PushHistory
<1>2. CASE PopCall
  BY <1>2, PopCallHistory
<1>3. CASE PopDesync
  BY <1>3, PopDesyncHistory
<1>4. CASE PopIncomplete
  BY <1>4, PopIncompleteHistory
<1>5. CASE PopFrame
  BY <1>5, PopFrameHistory
<1>6. CASE UNCHANGED vars
  BY <1>6, StillHistory DEF vars
<1> QED BY <1>1, <1>2, <1>3, <1>4, <1>5, <1>6 DEF Next, PopTurn

LEMMA HistoryInvariance == Spec => [](IInv /\ HistoryInv)
<1>1. Init => IInv /\ HistoryInv
  BY InitInv, InitHistory
<1>2. IInv /\ HistoryInv /\ [Next]_vars => (IInv /\ HistoryInv)'
  BY NextInv, NextHistory
<1> QED BY <1>1, <1>2, PTL DEF Spec

LEMMA LossIsHistory ==
  ASSUME IInv, HistoryInv
  PROVE  NoFrameLost
<1> SUFFICES ASSUME pc = "idle", NEW i \in 1 .. Len(log), ~IsFrame(log[i]),
                    NEW at \in log[i].at .. EndOf(i) - 1, TrueFrame(stream, at)
             PROVE  /\ ScanPastIncomplete[protocol]
                    /\ \E j \in i + 1 .. Len(log) :
                         /\ VerifiedFrame(stream, log[j].at)
                         /\ log[j].what = IF TrueFrame(stream, log[j].at) THEN "Verified" ELSE "BadHeader"
                         /\ log[j].at < at + Measure(protocol, From(stream, at)).n
  BY DEF NoFrameLost
<1>1. /\ protocol \in Protocols /\ stream \in Seq(Byte) /\ Len(stream) \in Nat /\ Len(log) \in Nat
      /\ log[i].at \in Nat /\ EndOf(i) \in Nat /\ (i < Len(log) => log[i + 1].at = EndOf(i))
      /\ EndOf(Len(log)) <= Len(stream) /\ EndOf(Len(log)) \in Nat
  <2>1. EndOf(Len(log)) \in 0 .. Len(stream) /\ Len(stream) \in Nat
    BY BufferIs
  <2>2. EndOf(Len(log)) <= Len(stream) /\ EndOf(Len(log)) \in Nat
    BY <2>1
  <2> QED BY <2>2, BufferIs
<1>2. Len(stream) <= MaxOffered
  BY <1>1, ProtocolAssumption DEF HistoryInv, Offered, IInv, TypeOK
<1>3. EndOf(i) <= EndOf(Len(log))
  BY DEF HistoryInv, Ordered
<1>4. at \in Nat /\ at <= Len(stream)
  <2> DEFINE e == EndOf(i)
             z == EndOf(Len(log))
  <2>1. at < e /\ e <= z /\ z <= Len(stream) /\ at \in Nat /\ e \in Nat /\ z \in Nat
    BY <1>1, <1>3
  <2> HIDE DEF e, z
  <2> QED BY <1>1, <2>1
<1>5. Fruitful(stream, at)
  BY <1>1, <1>2, <1>4, VerifiedFrameIs
<1>6. ~Firm(i)
  BY <1>1, <1>2, <1>4, <1>5, BarrenIsNotFruitful DEF Firm
<1>7. GivenUp(i)
  BY <1>6 DEF HistoryInv, Judged
<1>8. i # Len(log)
  BY <1>7 DEF GivenUp
<1>9. i < Len(log) /\ i + 1 \in i + 1 .. Len(log)
  BY <1>1, <1>8
<1>10. PICK lure \in Nat :
           /\ lure = EndOf(i) /\ VerifiedFrame(stream, lure)
           /\ log[i + 1].what = IF TrueFrame(stream, lure) THEN "Verified" ELSE "BadHeader"
  BY <1>7, <1>9 DEF GivenUp
<1>11. log[i + 1].at = lure
  BY <1>1, <1>9, <1>10
<1>12. lure < at + Measure(protocol, From(stream, at)).n
  BY <1>7, <1>10 DEF GivenUp
<1>13. /\ VerifiedFrame(stream, log[i + 1].at)
       /\ log[i + 1].what = IF TrueFrame(stream, log[i + 1].at) THEN "Verified" ELSE "BadHeader"
       /\ log[i + 1].at < at + Measure(protocol, From(stream, at)).n
  BY <1>10, <1>11, <1>12
<1>14. ScanPastIncomplete[protocol]
  BY <1>7 DEF GivenUp
<1> QED BY <1>9, <1>13, <1>14, Zenon

\* No discarded byte begins a whole verified frame, in whatever pushes the frame
\* arrived and wherever pop was called between them, but where a scan past an incomplete
\* frame gave it up for another verified one inside it, and that one was returned or
\* refused for its body alone.  For any FrameSpec that keeps the contract of its trait,
\* ContractAssumption: what measure has answered stands when more bytes arrive.
THEOREM Lossless == Spec => []NoFrameLost
<1>1. IInv /\ HistoryInv => NoFrameLost
  BY LossIsHistory
<1> QED BY <1>1, HistoryInvariance, PTL

(* ---------------------------------------------------------------------- *)
(* The counters                                                             *)

LEMMA CappedAdd ==
  ASSUME NEW a \in Nat, NEW b \in Nat
  PROVE  SaturatingAdd(Capped(a), b) = Capped(a + b)
  BY ProtocolAssumption DEF SaturatingAdd, Capped

\* One more piece is counted once, where it is counted at all.
LEMMA PiecesCut ==
  ASSUME log \in Seq(Piece), NEW piece \in Piece, log' = Append(log, piece), NEW W
  PROVE  /\ PiecesOf(W) \in Nat
         /\ piece.what \in W => PiecesOf(W)' = PiecesOf(W) + 1
         /\ piece.what \notin W => PiecesOf(W)' = PiecesOf(W)
<1>1. /\ Len(log') = Len(log) + 1 /\ Len(log) \in Nat
      /\ log'[Len(log) + 1] = piece /\ \A i \in 1 .. Len(log) : log'[i] = log[i]
  BY AppendProperties
<1>2. PICK n \in Nat : n = Len(log)
  BY <1>1
<1> DEFINE A == {i \in 1 .. n : log[i].what \in W}
           B == {i \in 1 .. n + 1 : log'[i].what \in W}
<1>3. PiecesOf(W) = Cardinality(A) /\ PiecesOf(W)' = Cardinality(B)
  BY <1>1, <1>2 DEF PiecesOf
<1>4. IsFiniteSet(A)
  <2>1. IsFiniteSet(1 .. n) /\ A \subseteq 1 .. n
    BY FS_Interval
  <2> HIDE DEF A
  <2> QED BY <2>1, FS_Subset
<1>5. n + 1 \notin A
  BY <1>2
<1>6. Cardinality(A) \in Nat
  BY <1>4, FS_CardinalityType
<1>7. ASSUME piece.what \in W PROVE Cardinality(B) = Cardinality(A) + 1
  <2>1. B = A \cup {n + 1}
    BY <1>1, <1>2, <1>7
  <2> HIDE DEF A, B
  <2> QED BY <1>4, <1>5, <2>1, FS_AddElement
<1>8. ASSUME piece.what \notin W PROVE B = A
  BY <1>1, <1>2, <1>8
<1> HIDE DEF A, B
<1> QED BY <1>3, <1>6, <1>7, <1>8

LEMMA DroppedIs ==
  ASSUME IInv, Ordered
  PROVE  /\ Dropped = {at \in Nat : \E i \in 1 .. Len(log) :
                          ~IsFrame(log[i]) /\ at \in log[i].at .. EndOf(i) - 1}
         /\ IsFiniteSet(Dropped) /\ Cardinality(Dropped) \in Nat
         /\ \A i \in 1 .. Len(log) : EndOf(i) <= EndOf(Len(log))
<1> DEFINE D == {at \in Nat : \E i \in 1 .. Len(log) :
                   ~IsFrame(log[i]) /\ at \in log[i].at .. EndOf(i) - 1}
<1>1. Len(stream) \in Nat /\ EndOf(Len(log)) \in 0 .. Len(stream)
      /\ \A i \in 1 .. Len(log) : log[i].at \in Nat /\ EndOf(i) \in Nat
  BY BufferIs
<1>2. \A i \in 1 .. Len(log) : EndOf(i) <= EndOf(Len(log))
  BY DEF Ordered
<1>3. \A i \in 1 .. Len(log) : EndOf(i) <= Len(stream)
  BY <1>1, <1>2
<1>4. ASSUME NEW at, NEW i \in 1 .. Len(log), at \in log[i].at .. EndOf(i) - 1
      PROVE  at \in 0 .. Len(stream) - 1 /\ at \in Nat
  <2> DEFINE e == EndOf(i)
             b == log[i].at
  <2>1. b \in Nat /\ e \in Nat /\ e <= Len(stream) /\ at \in b .. e - 1
    BY <1>1, <1>3, <1>4
  <2> HIDE DEF e, b
  <2> QED BY <1>1, <2>1
<1>5. Dropped = D
  <2>1. \A at : at \in Dropped => at \in D
    BY <1>1, <1>4 DEF Dropped
  <2>2. \A at : at \in D => at \in Dropped
    BY <1>4 DEF Dropped
  <2> HIDE DEF D
  <2> QED BY <2>1, <2>2
<1>6. IsFiniteSet(Dropped)
  <2>1. IsFiniteSet(0 .. Len(stream) - 1)
    BY <1>1, FS_Interval
  <2>2. Dropped \subseteq 0 .. Len(stream) - 1
    BY DEF Dropped
  <2> QED BY <2>1, <2>2, FS_Subset
<1> QED BY <1>2, <1>5, <1>6, FS_CardinalityType

\* A stream that grows drops nothing.
LEMMA DroppedStands ==
  ASSUME IInv, Ordered, IInv', Ordered', log' = log
  PROVE  Dropped' = Dropped
<1> DEFINE D == {at \in Nat : \E i \in 1 .. Len(log) :
                   ~IsFrame(log[i]) /\ at \in log[i].at .. EndOf(i) - 1}
<1>1. Dropped = D
  BY DroppedIs
<1>2. D' = D
  BY DEF IsFrame, EndOf
<1>3. Len(stream') \in Nat /\ EndOf(Len(log)) <= Len(stream') /\ EndOf(Len(log)) \in Nat
  <2>1. Len(stream') \in Nat /\ Len(buf') \in Nat /\ spent' \in 0 .. Len(buf')
        /\ Len(buf') <= Len(stream')
        /\ EndOf(Len(log))' = Len(stream') - Len(buf') + spent'
    BY DEF IInv, TypeOK, BytesAccounted, BufferIsTail, PiecesTile, Base
  <2>2. EndOf(Len(log))' = EndOf(Len(log))
    BY DEF EndOf
  <2>3. EndOf(Len(log)) \in 0 .. Len(stream)
    BY BufferIs
  <2> DEFINE e == EndOf(Len(log))
  <2>4. e = Len(stream') - Len(buf') + spent' /\ e \in Nat
    BY <2>1, <2>2, <2>3
  <2> HIDE DEF e
  <2>5. e <= Len(stream')
    BY <2>1, <2>4
  <2> QED BY <2>1, <2>4, <2>5 DEF e
<1>4. ASSUME NEW at, NEW i \in 1 .. Len(log), at \in log[i].at .. EndOf(i) - 1
      PROVE  at \in 0 .. Len(stream') - 1
  <2> DEFINE e == EndOf(i)
             b == log[i].at
             z == EndOf(Len(log))
  <2>1. b \in Nat /\ e \in Nat /\ e <= z /\ at \in b .. e - 1
    BY <1>4, BufferIs, DroppedIs
  <2> HIDE DEF e, b, z
  <2> QED BY <1>3, <2>1 DEF z
<1>5. \A at : at \in D => at \in Dropped'
  <2>1. \A at \in D : \E i \in 1 .. Len(log) : ~IsFrame(log[i]) /\ at \in log[i].at .. EndOf(i) - 1
    OBVIOUS
  <2>2. Dropped' = {at \in 0 .. Len(stream') - 1 :
                      \E i \in 1 .. Len(log) : ~IsFrame(log[i]) /\ at \in log[i].at .. EndOf(i) - 1}
    BY DEF Dropped, IsFrame, EndOf
  <2> HIDE DEF D
  <2> QED BY <1>4, <2>1, <2>2
<1>6. \A at : at \in Dropped' => at \in D
  <2>1. Dropped' = {at \in 0 .. Len(stream') - 1 :
                      \E i \in 1 .. Len(log) : ~IsFrame(log[i]) /\ at \in log[i].at .. EndOf(i) - 1}
    BY DEF Dropped, IsFrame, EndOf
  <2>2. 0 .. Len(stream') - 1 \subseteq Nat
    BY <1>3
  <2> QED BY <2>1, <2>2
<1>7. Dropped' = D
  <2> HIDE DEF D
  <2> QED BY <1>5, <1>6
<1> QED BY <1>1, <1>7

\* A discarded piece drops its bytes, which no piece before it had.
LEMMA DroppedCut ==
  ASSUME IInv, Ordered, spent = 0, stream' = stream,
         NEW n \in 1 .. Len(buf), NEW what \in Integrities \cup Causes,
         log' = Append(log, [at |-> Base, len |-> n, what |-> what])
  PROVE  /\ what \in Integrities => Dropped' = Dropped
         /\ what \notin Integrities => Cardinality(Dropped') = Cardinality(Dropped) + n
<1>1. PICK base \in Nat : base = Base
  <2>1. Base \in 0 .. Len(stream)
    BY BufferIs
  <2> QED BY <2>1
<1> DEFINE piece == [at |-> base, len |-> n, what |-> what]
<1>2. /\ EndOf(Len(log)) = base /\ Len(log) \in Nat /\ log \in Seq(Piece) /\ Len(stream) \in Nat
      /\ Len(buf) = Len(stream) - base /\ base <= Len(stream)
      /\ \A i \in 1 .. Len(log) : log[i].at \in Nat /\ EndOf(i) \in Nat
  <2>1. /\ EndOf(Len(log)) = base /\ base \in 0 .. Len(stream) /\ Len(buf) = Len(stream) - base
        /\ Len(log) \in Nat /\ log \in Seq(Piece) /\ Len(stream) \in Nat
    BY <1>1, BufferIs
  <2>2. \A i \in 1 .. Len(log) : log[i].at \in Nat /\ EndOf(i) \in Nat
    BY BufferIs
  <2>3. base <= Len(stream)
    BY <2>1
  <2> QED BY <2>1, <2>2, <2>3
<1>3. n \in Nat /\ 1 <= n /\ base + n <= Len(stream)
  BY <1>2
<1>4. PICK k \in Nat : k = Len(log) + 1
  BY <1>2
<1>5. Len(log') = k /\ log'[k] = piece /\ \A i \in 1 .. Len(log) : log'[i] = log[i]
  <2>1. log' = Append(log, piece)
    BY <1>1
  <2> HIDE DEF piece
  <2> QED BY <1>2, <1>4, <2>1, AppendProperties
<1>6. piece.at = base /\ piece.len = n /\ piece.what = what
  OBVIOUS
<1> HIDE DEF piece
<1>7. EndOf(k)' = base + n /\ \A i \in 1 .. Len(log) : EndOf(i)' = EndOf(i)
  BY <1>4, <1>5, <1>6 DEF EndOf
<1> DEFINE Lost(at) == \E i \in 1 .. Len(log) : ~IsFrame(log[i]) /\ at \in log[i].at .. EndOf(i) - 1
<1>8. Dropped = {at \in 0 .. Len(stream) - 1 : Lost(at)}
  BY DEF Dropped
<1>9. Dropped' = {at \in 0 .. Len(stream) - 1 :
                    Lost(at) \/ (what \notin Integrities /\ at \in base .. (base + n) - 1)}
  <2> DEFINE Lost2(at) == \E i \in 1 .. k : log'[i].what \notin Integrities
                                            /\ at \in log'[i].at .. EndOf(i)' - 1
  <2>1. Dropped' = {at \in 0 .. Len(stream) - 1 : Lost2(at)}
    BY <1>5 DEF Dropped, IsFrame
  <2>2. ASSUME NEW at
        PROVE  Lost2(at) <=> Lost(at) \/ (what \notin Integrities /\ at \in base .. (base + n) - 1)
    <3>1. ASSUME Lost2(at)
          PROVE  Lost(at) \/ (what \notin Integrities /\ at \in base .. (base + n) - 1)
      <4>1. PICK i \in 1 .. k : log'[i].what \notin Integrities /\ at \in log'[i].at .. EndOf(i)' - 1
        BY <3>1
      <4>2. CASE i = k
        BY <1>5, <1>6, <1>7, <4>1, <4>2
      <4>3. CASE i # k
        <5>1. i \in 1 .. Len(log)
          BY <1>2, <1>4, <4>3
        <5>2. ~IsFrame(log[i]) /\ at \in log[i].at .. EndOf(i) - 1
          BY <1>5, <1>7, <4>1, <5>1 DEF IsFrame
        <5> QED BY <5>1, <5>2
      <4> QED BY <4>2, <4>3
    <3>2. ASSUME Lost(at) PROVE Lost2(at)
      <4>1. PICK i \in 1 .. Len(log) : ~IsFrame(log[i]) /\ at \in log[i].at .. EndOf(i) - 1
        BY <3>2
      <4>2. i \in 1 .. k /\ log'[i].what \notin Integrities /\ at \in log'[i].at .. EndOf(i)' - 1
        BY <1>2, <1>4, <1>5, <1>7, <4>1 DEF IsFrame
      <4> QED BY <4>2
    <3>3. ASSUME what \notin Integrities, at \in base .. (base + n) - 1 PROVE Lost2(at)
      <4>1. k \in 1 .. k /\ log'[k].what \notin Integrities /\ at \in log'[k].at .. EndOf(k)' - 1
        BY <1>2, <1>4, <1>5, <1>6, <1>7, <3>3
      <4> QED BY <4>1
    <3> HIDE DEF Lost, Lost2
    <3> QED BY <3>1, <3>2, <3>3, Zenon
  <2> HIDE DEF Lost, Lost2
  <2> QED BY <2>1, <2>2, Zenon
<1>10. \A at : Lost(at) => at \in Nat /\ at < base
  <2> SUFFICES ASSUME NEW at, NEW i \in 1 .. Len(log), at \in log[i].at .. EndOf(i) - 1
               PROVE  at \in Nat /\ at < base
    OBVIOUS
  <2> DEFINE e == EndOf(i)
             b == log[i].at
  <2>1. e <= base /\ e \in Nat /\ b \in Nat /\ at \in b .. e - 1
    BY <1>2, DroppedIs
  <2> HIDE DEF e, b
  <2> QED BY <2>1
<1> HIDE DEF Lost
<1>11. ASSUME what \in Integrities PROVE Dropped' = Dropped
  BY <1>8, <1>9, <1>11
<1>12. ASSUME what \notin Integrities PROVE Cardinality(Dropped') = Cardinality(Dropped) + n
  <2> DEFINE A == Dropped
             B == base .. (base + n) - 1
  <2>1. Dropped' = A \cup B
    <3>1. B \subseteq 0 .. Len(stream) - 1
      BY <1>2, <1>3
    <3> HIDE DEF B
    <3>2. Dropped' = {at \in 0 .. Len(stream) - 1 : Lost(at) \/ at \in B}
      BY <1>9, <1>12 DEF B
    <3> QED BY <1>8, <3>1, <3>2
  <2>2. IsFiniteSet(A) /\ Cardinality(A) \in Nat
    BY DroppedIs
  <2>3. IsFiniteSet(B) /\ Cardinality(B) = n
    <3> DEFINE top == (base + n) - 1
    <3>1. top \in Int /\ base \in Int /\ base <= top /\ top - base + 1 = n
      BY <1>1, <1>3
    <3> HIDE DEF top
    <3>2. IsFiniteSet(base .. top) /\ Cardinality(base .. top) = top - base + 1
      BY <3>1, FS_Interval
    <3> QED BY <3>1, <3>2 DEF top
  <2>4. A \cap B = {}
    BY <1>1, <1>8, <1>10
  <2>5. Cardinality(A \cap B) = 0
    BY <2>4, FS_EmptySet
  <2>6. Cardinality(A \cup B) = Cardinality(A) + Cardinality(B) - Cardinality(A \cap B)
    BY <2>2, <2>3, FS_Union
  <2> HIDE DEF A, B
  <2> QED BY <1>3, <2>1, <2>2, <2>3, <2>5, <2>6 DEF A
<1> QED BY <1>11, <1>12

LEMMA InitStats == Init => StatsExact
<1> SUFFICES ASSUME Init PROVE StatsExact
  OBVIOUS
<1>1. ASSUME NEW W PROVE PiecesOf(W) = 0
  <2>1. {i \in 1 .. Len(log) : log[i].what \in W} = {}
    BY DEF Init
  <2> QED BY <2>1, FS_EmptySet DEF PiecesOf
<1>2. Cardinality(Dropped) = 0
  <2>1. Dropped = {}
    BY DEF Init, Dropped
  <2> QED BY <2>1, FS_EmptySet
<1>3. Capped(0) = 0
  BY ProtocolAssumption DEF Capped
<1>4. refused = 0 /\ \A c \in Counters : stats[c] = 0
  BY DEF Init
<1> QED BY <1>1, <1>2, <1>3, <1>4 DEF StatsExact, Counters

\* A step that cuts no piece counts at most refused bytes.
LEMMA StillStats ==
  ASSUME IInv, Ordered, IInv', Ordered', StatsExact, log' = log, NEW rest \in Nat,
         refused' = refused + rest,
         \A c \in Counters \ {"bytes_refused"} : stats'[c] = stats[c],
         stats'["bytes_refused"] = SaturatingAdd(stats["bytes_refused"], rest)
  PROVE  StatsExact'
<1>1. ASSUME NEW W PROVE PiecesOf(W)' = PiecesOf(W)
  BY DEF PiecesOf
<1>2. /\ PiecesOf(Integrities)' = PiecesOf(Integrities)
      /\ PiecesOf({"Checksum", "Corrupt"})' = PiecesOf({"Checksum", "Corrupt"})
      /\ PiecesOf({"Unmeasurable"})' = PiecesOf({"Unmeasurable"})
  BY DEF PiecesOf, Integrities
<1>3. Cardinality(Dropped)' = Cardinality(Dropped)
  BY DroppedStands
<1>4. /\ stats'["frames"] = stats["frames"]
      /\ stats'["bytes_discarded"] = stats["bytes_discarded"]
      /\ stats'["checksum_errors"] = stats["checksum_errors"]
      /\ stats'["unmeasurable"] = stats["unmeasurable"]
  BY DEF Counters
<1>5. stats'["bytes_refused"] = Capped(refused)'
  <2>1. refused \in Nat /\ stats["bytes_refused"] = Capped(refused)
    BY DEF IInv, TypeOK, StatsExact
  <2>2. SaturatingAdd(Capped(refused), rest) = Capped(refused + rest)
    BY <2>1, CappedAdd
  <2> QED BY <2>1, <2>2 DEF Capped
<1> DEFINE F == Capped(PiecesOf(Integrities))
           D == Capped(Cardinality(Dropped))
           C == Capped(PiecesOf({"Checksum", "Corrupt"}))
           U == Capped(PiecesOf({"Unmeasurable"}))
<1>6. F' = F /\ D' = D /\ C' = C /\ U' = U
  BY <1>2, <1>3 DEF Capped
<1>7. /\ stats["frames"] = F /\ stats["bytes_discarded"] = D
      /\ stats["checksum_errors"] = C /\ stats["unmeasurable"] = U
  BY DEF StatsExact
<1> HIDE DEF F, D, C, U
<1>8. /\ stats'["frames"] = F' /\ stats'["bytes_discarded"] = D'
      /\ stats'["checksum_errors"] = C' /\ stats'["unmeasurable"] = U'
  BY <1>4, <1>6, <1>7
<1> QED BY <1>5, <1>8 DEF StatsExact, F, D, C, U

\* A cut piece is counted by what it is, and its bytes once.
LEMMA CutStats ==
  ASSUME IInv, Ordered, StatsExact, spent = 0, UNCHANGED <<stream, refused>>,
         NEW n \in 1 .. Len(buf), NEW what \in Integrities \cup Causes,
         log' = Append(log, [at |-> Base, len |-> n, what |-> what]),
         stats'["frames"] = IF what \in Integrities THEN SaturatingAdd(stats["frames"], 1)
                                                    ELSE stats["frames"],
         stats'["bytes_discarded"] = IF what \in Integrities THEN stats["bytes_discarded"]
                                     ELSE SaturatingAdd(stats["bytes_discarded"], n),
         stats'["checksum_errors"] = IF what \in {"Checksum", "Corrupt"}
                                     THEN SaturatingAdd(stats["checksum_errors"], 1)
                                     ELSE stats["checksum_errors"],
         stats'["unmeasurable"] = IF what \in {"Unmeasurable"}
                                  THEN SaturatingAdd(stats["unmeasurable"], 1)
                                  ELSE stats["unmeasurable"],
         stats'["bytes_refused"] = stats["bytes_refused"]
  PROVE  StatsExact'
<1> DEFINE f == PiecesOf(Integrities)
           c == PiecesOf({"Checksum", "Corrupt"})
           u == PiecesOf({"Unmeasurable"})
           d == Cardinality(Dropped)
<1>1. PICK piece \in Piece : piece = [at |-> Base, len |-> n, what |-> what]
  <2>1. Base \in 0 .. Len(stream) /\ Len(stream) \in Nat
    BY BufferIs
  <2> QED BY <2>1 DEF Piece
<1>2. log \in Seq(Piece) /\ log' = Append(log, piece) /\ piece.what = what /\ n \in Nat
  BY <1>1, BufferIs
<1>3. /\ f \in Nat
      /\ what \in Integrities => f' = f + 1
      /\ what \notin Integrities => f' = f
  <2>1. Integrities' = Integrities
    BY DEF Integrities
  <2> QED BY <1>2, <2>1, PiecesCut DEF Integrities
<1>4. /\ c \in Nat
      /\ what \in {"Checksum", "Corrupt"} => c' = c + 1
      /\ what \notin {"Checksum", "Corrupt"} => c' = c
  BY <1>2, PiecesCut
<1>5. /\ u \in Nat
      /\ what \in {"Unmeasurable"} => u' = u + 1
      /\ what \notin {"Unmeasurable"} => u' = u
  BY <1>2, PiecesCut
<1>6. /\ d \in Nat
      /\ what \in Integrities => d' = d
      /\ what \notin Integrities => d' = d + n
  BY DroppedIs, DroppedCut
<1>7. /\ stats["frames"] = Capped(f) /\ stats["bytes_discarded"] = Capped(d)
      /\ stats["checksum_errors"] = Capped(c) /\ stats["unmeasurable"] = Capped(u)
      /\ stats["bytes_refused"] = Capped(refused)
  BY DEF StatsExact
<1> HIDE DEF f, c, u, d
<1>8. stats'["frames"] = Capped(f')
  <2>1. CASE what \in Integrities
    <3>1. stats'["frames"] = SaturatingAdd(Capped(f), 1)
      BY <1>7, <2>1
    <3> QED BY <1>3, <2>1, <3>1, CappedAdd
  <2>2. CASE what \notin Integrities
    BY <1>3, <1>7, <2>2
  <2> QED BY <2>1, <2>2
<1>9. stats'["bytes_discarded"] = Capped(d')
  <2>1. CASE what \in Integrities
    BY <1>6, <1>7, <2>1
  <2>2. CASE what \notin Integrities
    <3>1. stats'["bytes_discarded"] = SaturatingAdd(Capped(d), n)
      BY <1>7, <2>2
    <3> QED BY <1>2, <1>6, <2>2, <3>1, CappedAdd
  <2> QED BY <2>1, <2>2
<1>10. stats'["checksum_errors"] = Capped(c')
  <2>1. CASE what \in {"Checksum", "Corrupt"}
    <3>1. stats'["checksum_errors"] = SaturatingAdd(Capped(c), 1)
      BY <1>7, <2>1
    <3> QED BY <1>4, <2>1, <3>1, CappedAdd
  <2>2. CASE what \notin {"Checksum", "Corrupt"}
    BY <1>4, <1>7, <2>2
  <2> QED BY <2>1, <2>2
<1>11. stats'["unmeasurable"] = Capped(u')
  <2>1. CASE what \in {"Unmeasurable"}
    <3>1. stats'["unmeasurable"] = SaturatingAdd(Capped(u), 1)
      BY <1>7, <2>1
    <3> QED BY <1>5, <2>1, <3>1, CappedAdd
  <2>2. CASE what \notin {"Unmeasurable"}
    BY <1>5, <1>7, <2>2
  <2> QED BY <2>1, <2>2
<1>12. stats'["bytes_refused"] = Capped(refused')
  BY <1>7
<1> QED BY <1>8, <1>9, <1>10, <1>11, <1>12 DEF StatsExact, Capped, f, c, u, d

LEMMA PopDesyncStats ==
  ASSUME IInv, Ordered, StatsExact, PopDesync
  PROVE  StatsExact'
<1>1. PICK r : r = Parse(protocol, buf)
  OBVIOUS
<1>2. TypeOK /\ spent = 0 /\ pc = "pop" /\ r.kind = "Desync"
  BY <1>1 DEF IInv, NothingSpent, PopDesync
<1>3. r.n \in 1 .. Len(buf) /\ r.what \in Causes
  <2>1. Answer(protocol, buf, r)
    BY <1>1, <1>2, ParseAnswer DEF TypeOK
  <2> QED BY <1>2, <2>1 DEF Answer
<1> DEFINE n == r.n
           what == r.what
<1>4. /\ stats' = [stats EXCEPT
           !["bytes_discarded"] = SaturatingAdd(@, n),
           !["checksum_errors"] = IF what = "Checksum" THEN SaturatingAdd(@, 1) ELSE @,
           !["unmeasurable"] = IF what = "Unmeasurable" THEN SaturatingAdd(@, 1) ELSE @]
      /\ log' = Append(log, [at |-> Base, len |-> n, what |-> what])
      /\ UNCHANGED <<stream, refused>>
  <2>1. n = IF (IF n < 1 THEN 1 ELSE n) < Len(buf) THEN (IF n < 1 THEN 1 ELSE n) ELSE Len(buf)
    BY <1>2, <1>3 DEF TypeOK
  <2> QED BY <1>1, <2>1 DEF PopDesync
<1>5. /\ what \notin Integrities /\ what # "Corrupt" /\ what \in Integrities \cup Causes
  BY <1>3 DEF Causes, Integrities
<1>6. /\ stats'["frames"] = stats["frames"]
      /\ stats'["bytes_discarded"] = SaturatingAdd(stats["bytes_discarded"], n)
      /\ stats'["checksum_errors"] = IF what = "Checksum" THEN SaturatingAdd(stats["checksum_errors"], 1)
                                                          ELSE stats["checksum_errors"]
      /\ stats'["unmeasurable"] = IF what = "Unmeasurable" THEN SaturatingAdd(stats["unmeasurable"], 1)
                                                           ELSE stats["unmeasurable"]
      /\ stats'["bytes_refused"] = stats["bytes_refused"]
  <2>1. stats \in [Counters -> 0 .. StatMax]
    BY <1>2 DEF TypeOK
  <2> HIDE DEF n, what
  <2> QED BY <1>4, <2>1 DEF Counters
<1> HIDE DEF what
<1>7. (what = "Checksum" <=> what \in {"Checksum", "Corrupt"})
      /\ (what = "Unmeasurable" <=> what \in {"Unmeasurable"})
  BY <1>5
<1>8. n \in 1 .. Len(buf)
  BY <1>3
<1> HIDE DEF n
<1>9. /\ stats'["frames"] = IF what \in Integrities THEN SaturatingAdd(stats["frames"], 1)
                                                    ELSE stats["frames"]
      /\ stats'["bytes_discarded"] = IF what \in Integrities THEN stats["bytes_discarded"]
                                     ELSE SaturatingAdd(stats["bytes_discarded"], n)
      /\ stats'["checksum_errors"] = IF what \in {"Checksum", "Corrupt"}
                                     THEN SaturatingAdd(stats["checksum_errors"], 1)
                                     ELSE stats["checksum_errors"]
      /\ stats'["unmeasurable"] = IF what \in {"Unmeasurable"}
                                  THEN SaturatingAdd(stats["unmeasurable"], 1)
                                  ELSE stats["unmeasurable"]
  BY <1>5, <1>6, <1>7
<1> QED BY <1>2, <1>4, <1>5, <1>6, <1>8, <1>9, CutStats

LEMMA PopFrameStats ==
  ASSUME IInv, Ordered, StatsExact, PopFrame
  PROVE  StatsExact'
<1>1. PICK r : r = Parse(protocol, buf)
  OBVIOUS
<1>2. TypeOK /\ spent = 0 /\ pc = "pop" /\ r.kind = "Frame"
  BY <1>1 DEF IInv, NothingSpent, PopFrame
<1>3. r.n \in 1 .. Len(buf) /\ r.what \in Integrities
  <2>1. Answer(protocol, buf, r) /\ protocol \in Protocols /\ Len(buf) \in Nat
    BY <1>1, <1>2, ParseAnswer DEF TypeOK
  <2> QED BY <1>2, <2>1, ProtocolBounds DEF Answer, Framed
<1> DEFINE n == r.n
           what == r.what
<1>4. /\ stats' = [stats EXCEPT
           !["frames"] = SaturatingAdd(@, 1),
           !["checksum_errors"] = IF what = "Corrupt" THEN SaturatingAdd(@, 1) ELSE @]
      /\ log' = Append(log, [at |-> Base, len |-> n, what |-> what])
      /\ UNCHANGED <<stream, refused>>
  BY <1>1 DEF PopFrame
<1>5. /\ what \in Integrities /\ what # "Checksum" /\ what # "Unmeasurable"
      /\ what \in Integrities \cup Causes
  BY <1>3 DEF Integrities
<1>6. /\ stats'["frames"] = SaturatingAdd(stats["frames"], 1)
      /\ stats'["bytes_discarded"] = stats["bytes_discarded"]
      /\ stats'["checksum_errors"] = IF what = "Corrupt" THEN SaturatingAdd(stats["checksum_errors"], 1)
                                                         ELSE stats["checksum_errors"]
      /\ stats'["unmeasurable"] = stats["unmeasurable"]
      /\ stats'["bytes_refused"] = stats["bytes_refused"]
  <2>1. stats \in [Counters -> 0 .. StatMax]
    BY <1>2 DEF TypeOK
  <2> HIDE DEF n, what
  <2> QED BY <1>4, <2>1 DEF Counters
<1> HIDE DEF what
<1>7. (what = "Corrupt" <=> what \in {"Checksum", "Corrupt"}) /\ what \notin {"Unmeasurable"}
  BY <1>5
<1>8. n \in 1 .. Len(buf)
  BY <1>3
<1> HIDE DEF n
<1>9. /\ stats'["frames"] = IF what \in Integrities THEN SaturatingAdd(stats["frames"], 1)
                                                    ELSE stats["frames"]
      /\ stats'["bytes_discarded"] = IF what \in Integrities THEN stats["bytes_discarded"]
                                     ELSE SaturatingAdd(stats["bytes_discarded"], n)
      /\ stats'["checksum_errors"] = IF what \in {"Checksum", "Corrupt"}
                                     THEN SaturatingAdd(stats["checksum_errors"], 1)
                                     ELSE stats["checksum_errors"]
      /\ stats'["unmeasurable"] = IF what \in {"Unmeasurable"}
                                  THEN SaturatingAdd(stats["unmeasurable"], 1)
                                  ELSE stats["unmeasurable"]
  BY <1>5, <1>6, <1>7
<1> QED BY <1>2, <1>4, <1>5, <1>6, <1>8, <1>9, CutStats

LEMMA PushStats ==
  ASSUME IInv, Ordered, IInv', Ordered', StatsExact, NEW chunk \in Chunks, Push(chunk)
  PROVE  StatsExact'
<1> DEFINE room == N - Len(Released)
           take == IF Len(chunk) < room THEN Len(chunk) ELSE room
           rest == Len(chunk) - take
<1>1. /\ log' = log /\ refused' = refused + rest
      /\ stats' = [stats EXCEPT !["bytes_refused"] = SaturatingAdd(@, rest)]
  BY DEF Push
<1>2. rest \in Nat
  <2>1. chunk \in Seq(Byte) /\ Len(chunk) \in Nat
    BY ChunksAssumption
  <2>2. Released \in Seq(Byte) /\ Len(Released) <= N
    BY ReleasedIsTail DEF IInv
  <2>3. Len(Released) \in 0 .. N /\ N \in Nat
    BY <2>2, ProtocolAssumption
  <2> QED BY <2>1, <2>3
<1> HIDE DEF rest
<1>3. /\ \A c \in Counters \ {"bytes_refused"} : stats'[c] = stats[c]
      /\ stats'["bytes_refused"] = SaturatingAdd(stats["bytes_refused"], rest)
  <2>1. stats \in [Counters -> 0 .. StatMax]
    BY DEF IInv, TypeOK
  <2> QED BY <1>1, <2>1 DEF Counters
<1> QED BY <1>1, <1>2, <1>3, StillStats

LEMMA NextStats ==
  IInv /\ Ordered /\ StatsExact /\ IInv' /\ Ordered' /\ [Next]_vars => StatsExact'
<1> SUFFICES ASSUME IInv, Ordered, StatsExact, IInv', Ordered', [Next]_vars
             PROVE  StatsExact'
  OBVIOUS
<1>1. CASE \E chunk \in Chunks : Push(chunk)
  BY <1>1, PushStats
<1>2. CASE UNCHANGED <<log, refused, stats>>
  <2>1. refused' = refused + 0 /\ SaturatingAdd(stats["bytes_refused"], 0) = stats["bytes_refused"]
    <3>1. refused \in Nat /\ stats["bytes_refused"] \in 0 .. StatMax
      BY DEF IInv, TypeOK, Counters
    <3> QED BY <1>2, <3>1, ProtocolAssumption DEF SaturatingAdd
  <2> QED BY <1>2, <2>1, StillStats
<1>3. CASE PopDesync
  BY <1>3, PopDesyncStats
<1>4. CASE PopFrame
  BY <1>4, PopFrameStats
<1>5. PopCall \/ PopIncomplete \/ UNCHANGED vars => UNCHANGED <<log, refused, stats>>
  BY DEF PopCall, PopIncomplete, vars
<1> QED BY <1>1, <1>2, <1>3, <1>4, <1>5 DEF Next, PopTurn

\* Every counter of Stats is the number of events of its kind in the whole history,
\* u64::MAX once that is reached: no piece, byte or error is counted twice or missed.
THEOREM StatsAreExact == Spec => []StatsExact
<1>1. Init => StatsExact
  BY InitStats
<1>2. IInv /\ Ordered /\ StatsExact /\ (IInv /\ Ordered)' /\ [Next]_vars => StatsExact'
  BY NextStats
<1> QED BY <1>1, <1>2, OrderedInvariance, PTL DEF Spec

(* ---------------------------------------------------------------------- *)
(* The frames of the whole stream                                           *)

\* What FramesInOne makes of the stream from a position, given what it makes of the rest.
CutAt(s, g, y) ==
  LET r == Parse(protocol, From(s, y))
  IN  IF r.kind = "Incomplete" THEN {}
      ELSE IF r.kind = "Desync" THEN g[y + r.n]
      ELSE {[at |-> y, len |-> r.n, what |-> r.what]} \cup g[y + r.n]

CutFrom(s, g, start) == g = [y \in start .. Len(s) |-> CutAt(s, g, y)]

LEMMA NatLeast ==
  ASSUME NEW T \in SUBSET Nat, T # {}
  PROVE  \E k \in T : \A y \in T : k <= y
  BY LeastIsMember

\* parse goes on, where it does, to a later position of the stream.
LEMMA GoesOn ==
  ASSUME protocol \in Protocols, NEW s \in Seq(Byte), Len(s) <= MaxOffered, NEW y \in 0 .. Len(s)
  PROVE  LET r == Parse(protocol, From(s, y))
         IN  r.kind = "Incomplete" \/ (r.n \in Nat /\ y + r.n \in y + 1 .. Len(s))
<1> DEFINE b == From(s, y)
           r == Parse(protocol, b)
           m == Measure(protocol, b)
<1>1. b \in Seq(Byte) /\ Len(b) = Len(s) - y /\ Len(s) \in Nat /\ y \in Nat /\ Len(b) \in Nat
  BY FromProperties
<1>2. Bounded(b)
  <2>1. Len(b) <= MaxOffered
    BY <1>1, ProtocolAssumption
  <2> HIDE DEF b
  <2> QED BY <1>1, <2>1 DEF Bounded
<1> HIDE DEF b
<1>3. /\ r.kind \in {"Incomplete", "Desync", "Frame"}
      /\ r.kind = "Frame" => Fruitful(b, 0) /\ r.n = m.n
      /\ r.kind = "Desync" => r.n \in 1 .. Len(b)
  BY <1>1, <1>2, PieceIs
<1> HIDE DEF r
<1>4. CASE r.kind = "Desync"
  <2>1. r.n \in 1 .. Len(b)
    BY <1>3, <1>4
  <2> QED BY <1>1, <2>1 DEF r, b
<1>5. CASE r.kind = "Frame"
  <2>1. Whole(protocol, b)
    BY <1>1, <1>3, <1>5, FromStart DEF Fruitful
  <2>2. m.n \in HeaderLen[protocol] .. MaxFrame[protocol] /\ m.n <= Len(b)
    BY <2>1 DEF Whole, Sized
  <2>3. r.n \in 1 .. Len(b)
    <3>1. HeaderLen[protocol] \in Nat /\ MaxFrame[protocol] \in Nat /\ 1 <= HeaderLen[protocol]
      BY ProtocolBounds
    <3> HIDE DEF m
    <3> QED BY <1>1, <1>3, <1>5, <2>2, <3>1
  <2> QED BY <1>1, <2>3 DEF r, b
<1> QED BY <1>3, <1>4, <1>5 DEF r, b

LEMMA CutExists ==
  ASSUME protocol \in Protocols, NEW s \in Seq(Byte), Len(s) <= MaxOffered
  PROVE  \E g : CutFrom(s, g, 0)
<1> DEFINE n == Len(s)
           T == {k \in Nat : k <= n + 1 /\ ~\E g : CutFrom(s, g, n + 1 - k)}
<1>1. n \in Nat
  OBVIOUS
<1>2. T = {}
  <2> SUFFICES ASSUME T # {} PROVE FALSE
    OBVIOUS
  <2>1. PICK k \in T : \A y \in T : k <= y
    <3> HIDE DEF T
    <3>1. T \in SUBSET Nat
      BY DEF T
    <3> QED BY <3>1, NatLeast
  <2>2. k \in Nat /\ k <= n + 1 /\ ~\E g : CutFrom(s, g, n + 1 - k)
    OBVIOUS
  <2>3. k # 0
    <3> SUFFICES ASSUME k = 0 PROVE FALSE
      OBVIOUS
    <3> DEFINE g == [y \in n + 1 .. n |-> {}]
    <3>1. n + 1 .. n = {} /\ n + 1 - k = n + 1
      BY <1>1
    <3>2. g = [y \in n + 1 .. n |-> CutAt(s, g, y)]
      BY <3>1
    <3>3. CutFrom(s, g, n + 1)
      BY <3>2 DEF CutFrom
    <3> QED BY <2>2, <3>1, <3>3
  <2> DEFINE a == n + 1 - k
  <2>4. a \in 0 .. n /\ a + 1 = n + 1 - (k - 1)
    BY <1>1, <2>2, <2>3
  <2>5. k - 1 \in Nat /\ k - 1 <= n + 1 /\ k - 1 \notin T
    <3>1. k - 1 \in Nat /\ k - 1 <= n + 1 /\ ~(k <= k - 1)
      BY <1>1, <2>2, <2>3
    <3> HIDE DEF T
    <3> QED BY <2>1, <3>1
  <2>6. PICK f : CutFrom(s, f, a + 1)
    BY <2>4, <2>5
  <2>7. ~\E g : CutFrom(s, g, a)
    BY <2>2
  <2> HIDE DEF T, a, n
  <2> DEFINE g == [y \in a .. n |-> IF y = a THEN CutAt(s, f, a) ELSE f[y]]
  <2>8. ASSUME NEW y \in a .. n PROVE CutAt(s, f, y) = CutAt(s, g, y)
    <3> DEFINE r == Parse(protocol, From(s, y))
    <3>1. CASE r.kind = "Incomplete"
      BY <3>1 DEF CutAt
    <3>2. CASE r.kind # "Incomplete"
      <4>1. r.n \in Nat /\ y + r.n \in y + 1 .. n
        <5>1. y \in 0 .. Len(s)
          BY <1>1, <2>4 DEF n
        <5> QED BY <3>2, <5>1, GoesOn DEF n
      <4>2. y + r.n \in a .. n /\ y + r.n # a
        <5> HIDE DEF r
        <5> QED BY <1>1, <2>4, <4>1
      <4>3. g[y + r.n] = f[y + r.n]
        BY <4>2
      <4> HIDE DEF g
      <4> QED BY <4>3 DEF CutAt
    <3> QED BY <3>1, <3>2
  <2>9. \A y \in a .. n : g[y] = CutAt(s, g, y)
    <3> SUFFICES ASSUME NEW y \in a .. n PROVE g[y] = CutAt(s, g, y)
      OBVIOUS
    <3>1. CASE y = a
      <4>1. g[y] = CutAt(s, f, y)
        BY <3>1
      <4> HIDE DEF g
      <4> QED BY <2>8, <4>1
    <3>2. CASE y # a
      <4>1. y \in a + 1 .. n
        BY <1>1, <2>4, <3>2
      <4>2. f[y] = CutAt(s, f, y)
        BY <2>6, <4>1 DEF CutFrom, n
      <4>3. g[y] = f[y]
        BY <3>2
      <4> HIDE DEF g
      <4> QED BY <2>8, <4>2, <4>3
    <3> QED BY <3>1, <3>2
  <2>10. g = [y \in a .. n |-> g[y]]
    OBVIOUS
  <2> HIDE DEF g
  <2>11. CutFrom(s, g, a)
    BY <2>9, <2>10 DEF CutFrom, n
  <2> QED BY <2>7, <2>11
<1>3. n + 1 \notin T /\ n + 1 \in Nat
  BY <1>1, <1>2
<1>4. n + 1 - (n + 1) = 0 /\ n + 1 <= n + 1
  BY <1>1
<1> QED BY <1>3, <1>4

\* FramesInOne is well defined.
LEMMA FramesInOneIs ==
  ASSUME protocol \in Protocols, NEW s \in Seq(Byte), Len(s) <= MaxOffered
  PROVE  \E g : FramesInOne(s) = g[0] /\ \A y \in 0 .. Len(s) : g[y] = CutAt(s, g, y)
<1> DEFINE g == CHOOSE f : CutFrom(s, f, 0)
<1>1. FramesInOne(s) = g[0]
  BY DEF FramesInOne, CutFrom, CutAt
<1>2. CutFrom(s, g, 0)
  BY CutExists
<1> HIDE DEF g
<1>3. \A y \in 0 .. Len(s) : g[y] = CutAt(s, g, y)
  BY <1>2 DEF CutFrom
<1> QED BY <1>1, <1>3

\* A position that begins no frame is passed over, alone or with its neighbours.
LEMMA BarrenSkips ==
  ASSUME protocol \in Protocols, NEW s \in Seq(Byte), Len(s) <= MaxOffered,
         NEW g, \A y \in 0 .. Len(s) : g[y] = CutAt(s, g, y), NEW x \in Nat, Barren(s, x)
  PROVE  g[x] = g[x + 1] /\ x + 1 <= Len(s)
<1> DEFINE c == CandidateLen[protocol]
           b == From(s, x)
           r == Parse(protocol, b)
<1>1. c \in Nat /\ 1 <= c /\ Len(s) \in Nat /\ x + c <= Len(s)
  BY ProtocolBounds DEF Barren
<1>2. x \in 0 .. Len(s) /\ x + 1 \in 0 .. Len(s) /\ x + 1 <= Len(s)
  BY <1>1
<1>3. b \in Seq(Byte) /\ Len(b) = Len(s) - x /\ c <= Len(b) /\ Len(b) \in Nat /\ Len(b) <= MaxOffered
  <2>1. b \in Seq(Byte) /\ Len(b) = Len(s) - x
    BY <1>2, FromProperties
  <2> HIDE DEF b
  <2> QED BY <1>1, <2>1, ProtocolAssumption
<1>4. g[x] = CutAt(s, g, x) /\ g[x + 1] = CutAt(s, g, x + 1)
  BY <1>2
<1>5. r.kind = "Desync" => g[x] = g[x + r.n]
  BY <1>4 DEF CutAt
<1>6. CASE Candidate(protocol, b)
  <2>1. Dead(protocol, b)
    BY <1>6 DEF Barren
  <2>2. r.kind = "Desync" /\ r.n = 1
    <3>1. Bounded(b)
      BY <1>3 DEF Bounded
    <3> QED BY <1>3, <1>6, <2>1, <3>1, ParseIs, MeasuredIs
  <2> QED BY <1>2, <1>5, <2>2
<1>7. CASE ~Candidate(protocol, b)
  <2> HIDE DEF b
  <2>1. PICK n : r.kind = "Desync" /\ r.n = n /\ ScanStops(protocol, b, n)
    BY <1>3, <1>7, ParseIs
  <2>2. /\ n \in 1 .. Len(b) - c + 1 /\ n \in Nat
        /\ \A k \in 0 .. n - 1 : ~Candidate(protocol, From(b, k))
        /\ n = Len(b) - c + 1 \/ Candidate(protocol, From(b, n))
    <3> HIDE DEF r
    <3>1. /\ n \in 1 .. Len(b) - c + 1
          /\ \A k \in 0 .. n - 1 : ~Candidate(protocol, From(b, k))
          /\ n = Len(b) - c + 1 \/ Candidate(protocol, From(b, n))
      BY <2>1 DEF ScanStops
    <3> QED BY <3>1
  <2>3. g[x] = g[x + n]
    BY <1>5, <2>1
  <2>4. CASE n = 1
    BY <1>2, <2>3, <2>4
  <2>5. CASE n # 1
    <3> DEFINE a == From(s, x + 1)
               w == Parse(protocol, a)
    <3>1. 1 \in 0 .. Len(b) /\ 1 \in 0 .. n - 1
      BY <1>1, <1>3, <2>2, <2>5
    <3>2. a = From(b, 1)
      <4>1. 1 \in 0 .. Len(s) - x
        BY <1>3, <3>1
      <4> QED BY <1>2, <4>1, FromFrom DEF b
    <3>3. a \in Seq(Byte) /\ Len(a) = Len(b) - 1 /\ c <= Len(a)
      <4>1. From(b, 1) \in Seq(Byte) /\ Len(From(b, 1)) = Len(b) - 1
        <5> HIDE DEF a
        <5> QED BY <1>3, <3>1, FromProperties
      <4>2. a \in Seq(Byte) /\ Len(a) = Len(b) - 1
        <5> HIDE DEF a
        <5> QED BY <3>2, <4>1
      <4> HIDE DEF a
      <4> QED BY <1>1, <1>3, <2>2, <2>5, <4>2
    <3>4. ~Candidate(protocol, a)
      BY <2>2, <3>1, <3>2
    <3> HIDE DEF a
    <3>5. PICK m : w.kind = "Desync" /\ w.n = m /\ ScanStops(protocol, a, m)
      BY <3>3, <3>4, ParseIs
    <3>6. /\ m \in 1 .. Len(a) - c + 1
          /\ \A k \in 0 .. m - 1 : ~Candidate(protocol, From(a, k))
          /\ m = Len(a) - c + 1 \/ Candidate(protocol, From(a, m))
      <4> HIDE DEF w
      <4> QED BY <3>5 DEF ScanStops
    <3>7. ASSUME NEW k \in 0 .. Len(a) PROVE From(a, k) = From(b, k + 1)
      <4>1. k \in 0 .. Len(b) - 1 /\ 1 + k = k + 1
        BY <1>3, <3>3, <3>7
      <4>2. From(From(b, 1), k) = From(b, 1 + k)
        BY <1>3, <3>1, <4>1, FromFrom
      <4> QED BY <3>2, <4>1, <4>2
    <3>8. m \in Nat /\ m \in 0 .. Len(a) /\ Len(a) \in Nat
      BY <1>1, <3>3, <3>6
    <3>9. ~(m < n - 1)
      <4> SUFFICES ASSUME m < n - 1 PROVE FALSE
        OBVIOUS
      <4>1. m + 1 \in 0 .. n - 1 /\ m # Len(a) - c + 1
        BY <1>1, <1>3, <2>2, <3>3, <3>8
      <4>2. Candidate(protocol, From(b, m + 1))
        BY <3>6, <3>7, <3>8, <4>1
      <4> QED BY <2>2, <4>1, <4>2
    <3>10. ~(m > n - 1)
      <4> SUFFICES ASSUME m > n - 1 PROVE FALSE
        OBVIOUS
      <4>1. n - 1 \in 0 .. m - 1 /\ n - 1 \in 0 .. Len(a) /\ (n - 1) + 1 = n /\ n # Len(b) - c + 1
        BY <1>1, <1>3, <2>2, <3>3, <3>6, <3>8
      <4>2. ~Candidate(protocol, From(b, n))
        BY <3>6, <3>7, <4>1
      <4> QED BY <2>2, <4>1, <4>2
    <3>11. (x + 1) + m = x + n
      BY <2>2, <3>8, <3>9, <3>10
    <3>12. g[x + 1] = g[(x + 1) + m]
      <4>1. w.kind = "Desync" => CutAt(s, g, x + 1) = g[(x + 1) + w.n]
        BY DEF CutAt, a
      <4> QED BY <1>4, <3>5, <4>1
    <3> QED BY <1>2, <2>3, <3>11, <3>12
  <2> QED BY <2>4, <2>5
<1> QED BY <1>6, <1>7

\* So are the bytes of a piece that begin none.
LEMMA FirmSkips ==
  ASSUME protocol \in Protocols, NEW s \in Seq(Byte), Len(s) <= MaxOffered,
         NEW g, \A y \in 0 .. Len(s) : g[y] = CutAt(s, g, y),
         NEW x \in Nat, NEW z \in Nat, x <= z, \A y \in x .. z - 1 : Barren(s, y)
  PROVE  g[x] = g[z]
<1> DEFINE T == {k \in Nat : k <= z - x /\ g[z - k] # g[z]}
<1>1. T = {}
  <2> SUFFICES ASSUME T # {} PROVE FALSE
    OBVIOUS
  <2>1. PICK k \in T : \A y \in T : k <= y
    <3> HIDE DEF T
    <3>1. T \in SUBSET Nat
      BY DEF T
    <3> QED BY <3>1, NatLeast
  <2>2. k \in Nat /\ k <= z - x /\ g[z - k] # g[z]
    OBVIOUS
  <2>3. k # 0
    <3>1. z - 0 = z
      OBVIOUS
    <3> QED BY <2>2, <3>1
  <2>4. k - 1 \in Nat /\ k - 1 <= z - x /\ ~(k <= k - 1)
    BY <2>2, <2>3
  <2>5. k - 1 \notin T
    <3> HIDE DEF T
    <3> QED BY <2>1, <2>4
  <2>6. g[z - (k - 1)] = g[z]
    BY <2>4, <2>5
  <2>7. z - k \in x .. z - 1 /\ z - k \in Nat /\ (z - k) + 1 = z - (k - 1)
    BY <2>2, <2>3
  <2>8. g[z - k] = g[(z - k) + 1]
    BY <2>7, BarrenSkips
  <2> QED BY <2>2, <2>6, <2>7, <2>8
<1>2. z - x \in Nat /\ z - x <= z - x /\ z - (z - x) = x
  OBVIOUS
<1>3. z - x \notin T
  <2> HIDE DEF T
  <2> QED BY <1>1
<1>4. g[z - (z - x)] = g[z]
  BY <1>2, <1>3
<1> QED BY <1>2, <1>4

\* A frame that has arrived is cut where it starts.
LEMMA FruitfulCuts ==
  ASSUME protocol \in Protocols, NEW s \in Seq(Byte), Len(s) <= MaxOffered,
         NEW g, \A y \in 0 .. Len(s) : g[y] = CutAt(s, g, y), NEW x \in Nat, Fruitful(s, x)
  PROVE  LET n == Measure(protocol, From(s, x)).n
         IN  g[x] = {[at |-> x, len |-> n, what |-> Verdict(protocol, First(protocol, From(s, x)))]}
                    \cup g[x + n]
<1> DEFINE c == CandidateLen[protocol]
           b == From(s, x)
           r == Parse(protocol, b)
           n == Measure(protocol, b).n
           v == Verdict(protocol, First(protocol, b))
<1>1. c \in Nat /\ 1 <= c /\ Len(s) \in Nat /\ x + c <= Len(s)
  BY ProtocolBounds DEF Fruitful
<1>2. x \in 0 .. Len(s)
  BY <1>1
<1>3. b \in Seq(Byte) /\ c <= Len(b) /\ Len(b) <= MaxOffered
  <2>1. b \in Seq(Byte) /\ Len(b) = Len(s) - x
    BY <1>2, FromProperties
  <2> HIDE DEF b
  <2> QED BY <1>1, <2>1, ProtocolAssumption
<1>4. r.kind = "Frame" /\ r.n = n /\ r.what = v
  <2>1. Bounded(b) /\ Candidate(protocol, b) /\ Whole(protocol, b)
    BY <1>3 DEF Bounded, Fruitful
  <2> QED BY <1>3, <2>1, ParseIs, MeasuredIs
<1>5. g[x] = CutAt(s, g, x)
  BY <1>2
<1>6. CutAt(s, g, x) = {[at |-> x, len |-> r.n, what |-> r.what]} \cup g[x + r.n]
  BY <1>4 DEF CutAt
<1> HIDE DEF r, n, v
<1> QED BY <1>4, <1>5, <1>6 DEF n, v

LEMMA ChunksAreHistory ==
  ASSUME IInv, HistoryInv
  PROVE  ChunkingDoesNotMatter
<1> SUFFICES ASSUME result = "none", ~ScanPastIncomplete[protocol]
             PROVE  {log[i] : i \in {j \in 1 .. Len(log) : IsFrame(log[j])}} = FramesInOne(stream)
  BY DEF ChunkingDoesNotMatter
<1>1. /\ protocol \in Protocols /\ stream \in Seq(Byte) /\ Len(stream) \in Nat /\ Len(log) \in Nat
      /\ spent = 0 /\ EndOf(Len(log)) = Base /\ buf = From(stream, Base)
      /\ Parse(protocol, buf).kind = "Incomplete"
  <2>1. spent = 0 /\ Parse(protocol, buf).kind = "Incomplete"
    BY DEF HistoryInv, NoneIsOpen
  <2> QED BY <2>1, BufferIs
<1>2. Base \in 0 .. Len(stream)
  BY <1>1, BufferIs
<1>3. Len(stream) <= MaxOffered
  BY <1>1, ProtocolAssumption DEF HistoryInv, Offered, IInv, TypeOK
<1>4. PICK g : FramesInOne(stream) = g[0] /\ \A y \in 0 .. Len(stream) : g[y] = CutAt(stream, g, y)
  BY <1>1, <1>3, FramesInOneIs
<1> DEFINE Frames(i) == {log[x] : x \in {j \in i + 1 .. Len(log) : IsFrame(log[j])}}
           n == Len(log)
           T == {k \in Nat : k <= n /\ g[EndOf(n - k)] # Frames(n - k)}
<1>5. T = {}
  <2> SUFFICES ASSUME T # {} PROVE FALSE
    OBVIOUS
  <2>1. PICK k \in T : \A y \in T : k <= y
    <3> HIDE DEF T
    <3>1. T \in SUBSET Nat
      BY DEF T
    <3> QED BY <3>1, NatLeast
  <2>2. k \in Nat /\ k <= n /\ g[EndOf(n - k)] # Frames(n - k)
    OBVIOUS
  <2>3. k # 0
    <3> SUFFICES ASSUME k = 0 PROVE FALSE
      OBVIOUS
    <3>1. n - k = n /\ n + 1 .. n = {}
      BY <1>1
    <3>2. Frames(n) = {}
      BY <3>1
    <3>3. g[Base] = {}
      <4>1. g[Base] = CutAt(stream, g, Base)
        BY <1>2, <1>4
      <4> QED BY <1>1, <4>1 DEF CutAt
    <3> HIDE DEF Frames
    <3> QED BY <1>1, <2>2, <3>1, <3>2, <3>3
  <2>4. k - 1 \in Nat /\ k - 1 <= n /\ ~(k <= k - 1)
    BY <1>1, <2>2, <2>3
  <2>5. k - 1 \notin T
    <3> HIDE DEF T
    <3> QED BY <2>1, <2>4
  <2>6. g[EndOf(n - (k - 1))] = Frames(n - (k - 1))
    BY <2>4, <2>5
  <2>7. PICK i \in 1 .. Len(log) : i = n - (k - 1) /\ i - 1 = n - k
    <3>1. n - (k - 1) \in 1 .. Len(log) /\ (n - (k - 1)) - 1 = n - k
      BY <1>1, <2>2, <2>3
    <3> QED BY <3>1
  <2>8. g[EndOf(i)] = Frames(i) /\ g[EndOf(i - 1)] # Frames(i - 1)
    BY <2>2, <2>6, <2>7
  <2> HIDE DEF T
  <2>9. /\ log[i].at \in Nat /\ log[i].len \in Nat /\ 1 <= log[i].len
        /\ log[i] = [at |-> log[i].at, len |-> log[i].len, what |-> log[i].what]
        /\ EndOf(i) = log[i].at + log[i].len /\ EndOf(i) \in Nat
        /\ log[i].at = EndOf(i - 1)
    <3>1. log[i].at = EndOf(i - 1)
      BY DEF IInv, BytesAccounted, PiecesTile
    <3> QED BY <3>1, BufferIs
  <2>10. CASE IsFrame(log[i])
    <3>1. PICK y \in Nat : /\ y = log[i].at /\ Fruitful(stream, y)
                           /\ log[i].len = Measure(protocol, From(stream, y)).n
                           /\ log[i].what = Verdict(protocol, First(protocol, From(stream, y)))
      BY <2>10 DEF HistoryInv, Judged, Kept
    <3>2. g[y] = {[at |-> y, len |-> log[i].len, what |-> log[i].what]} \cup g[y + log[i].len]
      BY <1>1, <1>3, <1>4, <3>1, FruitfulCuts
    <3>3. g[EndOf(i - 1)] = {log[i]} \cup g[EndOf(i)]
      BY <2>9, <3>1, <3>2
    <3>4. Frames(i - 1) = {log[i]} \cup Frames(i)
      <4>1. {j \in (i - 1) + 1 .. Len(log) : IsFrame(log[j])}
              = {i} \cup {j \in i + 1 .. Len(log) : IsFrame(log[j])}
        BY <1>1, <2>10
      <4> QED BY <4>1
    <3> HIDE DEF Frames
    <3> QED BY <2>8, <3>3, <3>4
  <2>11. CASE ~IsFrame(log[i])
    <3>1. Firm(i)
      BY <2>11 DEF HistoryInv, Judged, GivenUp
    <3>2. g[EndOf(i - 1)] = g[EndOf(i)]
      <4> DEFINE x == log[i].at
                 z == EndOf(i)
      <4>1. x \in Nat /\ z \in Nat /\ x <= z
        BY <2>9
      <4>2. \A y \in x .. z - 1 : Barren(stream, y)
        BY <3>1 DEF Firm
      <4> HIDE DEF x, z
      <4>3. g[x] = g[z]
        BY <1>1, <1>3, <1>4, <4>1, <4>2, FirmSkips
      <4> QED BY <2>9, <4>3 DEF x, z
    <3>3. Frames(i - 1) = Frames(i)
      <4>1. {j \in (i - 1) + 1 .. Len(log) : IsFrame(log[j])}
              = {j \in i + 1 .. Len(log) : IsFrame(log[j])}
        BY <1>1, <2>11
      <4> QED BY <4>1
    <3> HIDE DEF Frames
    <3> QED BY <2>8, <3>2, <3>3
  <2> QED BY <2>10, <2>11
<1>6. n \in Nat /\ n <= n /\ n - n = 0 /\ EndOf(0) = 0
  BY <1>1 DEF EndOf
<1>7. g[0] = Frames(0)
  <2>1. n \notin T
    <3> HIDE DEF T
    <3> QED BY <1>5
  <2>2. g[EndOf(n - n)] = Frames(n - n)
    BY <1>6, <2>1
  <2> HIDE DEF Frames
  <2> QED BY <1>6, <2>2
<1>8. Frames(0) = {log[x] : x \in {j \in 1 .. Len(log) : IsFrame(log[j])}}
  OBVIOUS
<1> QED BY <1>4, <1>7, <1>8

\* For a protocol that does not scan past an incomplete frame, what pop has returned
\* once it answers None is what one push of the whole stream would have given, however
\* the stream was split into pushes and wherever pop was called between them.
THEOREM ChunkingIsInvisible == Spec => []ChunkingDoesNotMatter
<1>1. IInv /\ HistoryInv => ChunkingDoesNotMatter
  BY ChunksAreHistory
<1> QED BY <1>1, HistoryInvariance, PTL

(* ---------------------------------------------------------------------- *)
(* Incomplete's need                                                         *)

\* Until the bytes that parse asked for are there, it goes on asking.
LEMMA NeedHolds ==
  ASSUME NEW p \in Protocols, ~ScanPastIncomplete[p],
         NEW a \in Seq(Byte), NEW b \in Seq(Byte), Begins(a, b), Len(b) <= N, Len(b) <= MaxOffered,
         Parse(p, a).kind = "Incomplete", Len(b) < Len(a) + Parse(p, a).n
  PROVE  Parse(p, b).kind = "Incomplete"
<1>1. /\ Len(a) \in Nat /\ Len(b) \in Nat /\ Len(a) <= Len(b) /\ CandidateLen[p] \in Nat
      /\ Bounded(a) /\ Bounded(b) /\ Len(a) <= N
  <2>1. Len(a) \in Nat /\ Len(b) \in Nat /\ Len(a) <= Len(b) /\ N \in Nat /\ MaxOffered \in Nat
    BY ProtocolAssumption DEF Begins
  <2>2. CandidateLen[p] \in Nat
    BY ProtocolAssumption
  <2> QED BY <2>1, <2>2 DEF Bounded
<1>2. CASE Len(a) < CandidateLen[p]
  <2>1. Parse(p, a).n = CandidateLen[p] - Len(a)
    BY <1>2 DEF Parse, Incomplete
  <2>2. Len(b) < CandidateLen[p]
    BY <1>1, <2>1
  <2> QED BY <2>2, ParseIs
<1>3. CASE CandidateLen[p] <= Len(a)
  <2> DEFINE m == Measure(p, a)
             w == Measure(p, b)
  <2>1. Candidate(p, a) /\ Parse(p, a) = Measured(p, a)
    BY <1>3, ParseIs
  <2>2. CandidateLen[p] <= Len(b) /\ Candidate(p, b) /\ Parse(p, b) = Measured(p, b)
    <3>1. CandidateLen[p] <= Len(b)
      BY <1>1, <1>3
    <3>2. Candidate(p, b)
      BY <1>3, <2>1, ContractStands
    <3> QED BY <3>1, <3>2, ParseIs
  <2>3. Open(p, a)
    <3>1. ~Whole(p, a) /\ ~Dead(p, a)
      BY <1>1, <1>3, <2>1, MeasuredIs
    <3> QED BY <1>1, <1>3, <3>1, MeasuredIs
  <2>4. /\ m.n \in Nat /\ w.n \in Nat /\ MaxFrame[p] \in Nat
    BY <1>1, <1>3, <2>2, MeasureTypes, ProtocolAssumption
  <2>5. Open(p, b)
    <3>1. CASE Sized(p, m) /\ Len(a) < m.n
      <4>1. w = m
        BY <1>3, <3>1, ContractStands DEF Sized
      <4>2. Parse(p, a).n = m.n - Len(a)
        <5>1. m.kind = "Frame" /\ ~(m.n > MaxFrame[p]) /\ ~(m.n < HeaderLen[p])
          BY <3>1, ProtocolAssumption DEF Sized
        <5>2. Measured(p, a) = Pending(p, a, m.n - Len(a))
          BY <3>1, <5>1 DEF Measured
        <5> QED BY <2>1, <5>2 DEF Pending, Incomplete
      <4>3. Len(b) < w.n
        <5> HIDE DEF m, w
        <5> QED BY <1>1, <2>4, <4>1, <4>2
      <4> QED BY <3>1, <4>1, <4>3 DEF Open
    <3>2. CASE m.kind = "More" /\ Len(a) < MaxFrame[p]
      <4> DEFINE need == IF m.n = 0 THEN 1 ELSE m.n
      <4>1. Parse(p, a).n = need
        <5>1. Measured(p, a) = Pending(p, a, need)
          BY <1>1, <2>4, <3>2 DEF Measured
        <5> QED BY <2>1, <5>1 DEF Pending, Incomplete
      <4>2. b \in BoundedBytes(MaxOffered) /\ Len(a) \in CandidateLen[p] .. Len(b)
            /\ a = SubSeq(b, 1, Len(a))
        <5>1. b \in [1 .. Len(b) -> Byte] /\ Len(b) \in 0 .. MaxOffered
          BY <1>1, ProtocolAssumption
        <5> QED BY <1>1, <1>3, <5>1 DEF BoundedBytes, Begins
      <4>3. /\ Len(a) + need <= MaxFrame[p]
            /\ Len(b) < Len(a) + need => w.kind = "More"
        BY <3>2, <4>2, NeedAssumption
      <4>4. need \in Nat
        BY <2>4
      <4>5. w.kind = "More" /\ Len(b) < MaxFrame[p]
        <5> HIDE DEF need, w, m
        <5> QED BY <1>1, <2>4, <4>1, <4>3, <4>4
      <4> QED BY <4>5 DEF Open
    <3> QED BY <2>3, <3>1, <3>2 DEF Open
  <2>6. PICK need : Measured(p, b) = Pending(p, b, need)
    BY <1>1, <2>2, <2>5, MeasuredIs
  <2> QED BY <2>2, <2>6 DEF Pending, Incomplete
<1> QED BY <1>1, <1>2, <1>3

\* While the bytes asked for are not there, nothing was removed since, and what was
\* there then still starts the buffer.
DueInv ==
  ~ScanPastIncomplete[protocol] /\ Len(stream) < due =>
    /\ spent = 0
    /\ \E k \in 0 .. Len(buf) :
         LET asked == Parse(protocol, SubSeq(buf, 1, k))
         IN  asked.kind = "Incomplete" /\ due = Base + k + asked.n

\* So parse would answer Incomplete.
LEMMA DueIsIncomplete ==
  ASSUME IInv, HistoryInv, DueInv, ~ScanPastIncomplete[protocol], Len(stream) < due
  PROVE  Parse(protocol, buf).kind = "Incomplete"
<1>1. PICK k \in 0 .. Len(buf) : /\ Parse(protocol, SubSeq(buf, 1, k)).kind = "Incomplete"
                                 /\ due = Base + k + Parse(protocol, SubSeq(buf, 1, k)).n
  BY DEF DueInv
<1> DEFINE a == SubSeq(buf, 1, k)
<1>2. /\ buf \in Seq(Byte) /\ Len(buf) <= N /\ protocol \in Protocols /\ Base \in Nat
      /\ Len(stream) = Base + Len(buf) /\ Len(stream) <= MaxOffered
  <2>1. spent = 0
    BY DEF DueInv
  <2>2. /\ buf \in Seq(Byte) /\ Len(buf) <= N /\ protocol \in Protocols
        /\ Base \in 0 .. Len(stream) /\ Len(buf) = Len(stream) - Base /\ Len(stream) \in Nat
    BY <2>1, BufferIs
  <2>3. refused \in Nat /\ MaxOffered \in Nat /\ Len(stream) + refused <= MaxOffered
    BY ProtocolAssumption DEF IInv, TypeOK, HistoryInv, Offered
  <2> QED BY <2>2, <2>3
<1>3. a \in Seq(Byte) /\ Len(a) = k /\ Begins(a, buf)
  <2>1. a \in Seq(Byte) /\ Len(a) = k
    BY <1>2
  <2> QED BY <1>2, <2>1 DEF Begins
<1>4. Answer(protocol, a, Parse(protocol, a))
  <2>1. Len(a) <= N
    BY <1>2, <1>3, ProtocolAssumption
  <2> QED BY <1>2, <1>3, <2>1, ParseAnswer
<1>5. Parse(protocol, a).n \in Nat
  BY <1>1, <1>4 DEF Answer
<1>6. Len(buf) < Len(a) + Parse(protocol, a).n
  <2> DEFINE n == Parse(protocol, a).n
  <2>1. Len(a) = k /\ due = Base + k + n /\ n \in Nat
    BY <1>1, <1>3, <1>5
  <2> HIDE DEF n, a
  <2> QED BY <1>2, <2>1 DEF n
<1>7. Len(buf) <= MaxOffered
  BY <1>2, ProtocolAssumption
<1> QED BY <1>1, <1>2, <1>3, <1>6, <1>7, NeedHolds

LEMMA PushDue ==
  ASSUME IInv, DueInv, NEW chunk \in Chunks, Push(chunk), ~ScanPastIncomplete[protocol],
         Len(stream') < due
  PROVE  \E k \in 0 .. Len(buf') :
           LET asked == Parse(protocol, SubSeq(buf', 1, k))
           IN  asked.kind = "Incomplete" /\ due = Base' + k + asked.n
<1> DEFINE room == N - Len(Released)
           take == IF Len(chunk) < room THEN Len(chunk) ELSE room
           taken == SubSeq(chunk, 1, take)
<1>1. /\ buf' = Released \o taken /\ stream' = stream \o taken
  BY DEF Push
<1>2. /\ Len(chunk) \in Nat /\ chunk \in Seq(Byte) /\ due \in Nat /\ buf \in Seq(Byte)
      /\ stream \in Seq(Byte) /\ Len(Released) \in 0 .. N /\ N \in Nat
  BY ReleasedIsTail, ChunksAssumption, ProtocolAssumption DEF IInv, TypeOK
<1>3. take \in 0 .. Len(chunk)
  BY <1>2
<1> HIDE DEF take, room
<1>4. taken \in Seq(Byte) /\ Len(taken) = take
  BY <1>2, <1>3
<1> HIDE DEF taken
<1>5. Len(stream') = Len(stream) + take
  BY <1>1, <1>2, <1>4, ConcatProperties
<1>6. Len(stream) < due
  BY <1>2, <1>3, <1>5
<1>7. PICK k \in 0 .. Len(buf) : /\ spent = 0
                                 /\ Parse(protocol, SubSeq(buf, 1, k)).kind = "Incomplete"
                                 /\ due = Base + k + Parse(protocol, SubSeq(buf, 1, k)).n
  BY <1>6 DEF DueInv
<1>8. Released = buf
  BY <1>2, <1>7, FromStart DEF Released
<1>9. buf' \in Seq(Byte) /\ Len(buf') = Len(buf) + take /\ \A i \in 1 .. Len(buf) : buf[i] = buf'[i]
  <2>1. buf' = buf \o taken
    BY <1>1, <1>8
  <2>2. buf \o taken \in Seq(Byte) /\ Len(buf \o taken) = Len(buf) + Len(taken)
    BY <1>2, <1>4, ConcatProperties
  <2>3. \A i \in 1 .. Len(buf) : (buf \o taken)[i] = buf[i]
    <3> TAKE i \in 1 .. Len(buf)
    <3>1. Len(buf) \in Nat /\ Len(taken) \in Nat
      BY <1>2, <1>4
    <3>2. i \in 1 .. Len(buf) + Len(taken) /\ i <= Len(buf)
      BY <3>1
    <3> QED BY <1>2, <1>4, <3>2
  <2> QED BY <1>4, <2>1, <2>2, <2>3
<1>10. Begins(buf, buf')
  BY <1>2, <1>3, <1>9, BeginsIs
<1>11. SubSeq(buf', 1, k) = SubSeq(buf, 1, k)
  BY <1>2, <1>9, <1>10, FirstStands
<1>12. Base' = Base /\ k \in 0 .. Len(buf')
  BY <1>2, <1>3, <1>5, <1>9 DEF Base
<1> QED BY <1>7, <1>11, <1>12

LEMMA NextDue ==
  ASSUME IInv, HistoryInv, DueInv, [Next]_vars
  PROVE  DueInv'
<1> SUFFICES ASSUME ~ScanPastIncomplete[protocol'], Len(stream') < due'
             PROVE  /\ spent' = 0
                    /\ \E k \in 0 .. Len(buf') :
                         LET asked == Parse(protocol', SubSeq(buf', 1, k))
                         IN  asked.kind = "Incomplete" /\ due' = Base' + k + asked.n
  BY DEF DueInv
<1>1. CASE \E chunk \in Chunks : Push(chunk)
  <2>1. PICK chunk \in Chunks : Push(chunk)
    BY <1>1
  <2>2. protocol' = protocol /\ due' = due /\ spent' = 0
    BY <2>1 DEF Push
  <2> QED BY <2>1, <2>2, PushDue
<1>2. CASE PopCall
  <2>1. /\ UNCHANGED <<protocol, stream, due>> /\ spent' = 0 /\ buf' = Released
    BY <1>2 DEF PopCall
  <2>2. spent = 0 /\ Len(stream) < due /\ ~ScanPastIncomplete[protocol]
    BY <2>1 DEF DueInv
  <2>3. buf' = buf
    BY <2>1, <2>2, FromStart DEF Released, IInv, TypeOK
  <2> QED BY <2>1, <2>2, <2>3 DEF DueInv, Base
<1>3. CASE PopDesync
  <2>1. /\ UNCHANGED <<protocol, stream, due>> /\ Parse(protocol, buf).kind = "Desync"
    BY <1>3 DEF PopDesync
  <2> QED BY <2>1, DueIsIncomplete
<1>4. CASE PopIncomplete
  <2>1. /\ UNCHANGED <<protocol, stream, buf, spent>> /\ pc = "pop"
        /\ Parse(protocol, buf).kind = "Incomplete"
        /\ due' = Len(stream) + Parse(protocol, buf).n
    BY <1>4 DEF PopIncomplete
  <2>2. spent = 0 /\ buf \in Seq(Byte) /\ Len(stream) \in Nat
    BY <2>1 DEF IInv, NothingSpent, TypeOK
  <2>3. Len(buf) \in 0 .. Len(buf) /\ SubSeq(buf, 1, Len(buf)) = buf /\ Base + Len(buf) = Len(stream)
    BY <2>2 DEF Base
  <2>4. Base' = Base
    BY <2>1 DEF Base
  <2> QED BY <2>1, <2>2, <2>3, <2>4
<1>5. CASE PopFrame
  <2>1. /\ UNCHANGED <<protocol, stream, due>> /\ Parse(protocol, buf).kind = "Frame"
    BY <1>5 DEF PopFrame
  <2> QED BY <2>1, DueIsIncomplete
<1>6. CASE UNCHANGED vars
  BY <1>6 DEF vars, DueInv, Base
<1> QED BY <1>1, <1>2, <1>3, <1>4, <1>5, <1>6 DEF Next, PopTurn

LEMMA DueInvariance == Spec => []DueInv
<1>1. Init => DueInv
  <2>1. Init => Len(stream) = 0 /\ due = 0
    BY DEF Init
  <2> QED BY <2>1 DEF DueInv
<1> QED BY <1>1, NextDue, Invariance, HistoryInvariance, PTL DEF Spec

\* For a protocol that does not scan past an incomplete frame, the number that
\* Parsed::Incomplete carries is a true lower bound: pop returns no frame before that
\* many more bytes were accepted.
THEOREM NeedIsHonest == Spec => NeedIsLowerBoundWithoutScan
<1>1. IInv /\ HistoryInv /\ DueInv /\ [Next]_vars
        => [PopFrame /\ ~ScanPastIncomplete[protocol] => Len(stream) >= due]_vars
  <2> SUFFICES ASSUME IInv, HistoryInv, DueInv, PopFrame, ~ScanPastIncomplete[protocol],
                      ~(Len(stream) >= due)
               PROVE  FALSE
    OBVIOUS
  <2>1. Len(stream) < due
    BY DEF IInv, TypeOK
  <2> QED BY <2>1, DueIsIncomplete DEF PopFrame
<1> QED BY <1>1, Invariance, HistoryInvariance, DueInvariance, PTL
            DEF Spec, NeedIsLowerBoundWithoutScan
=============================================================================
