------------------------- MODULE BodyRecordingProofs --------------------------
(***************************************************************************)
(* Proofs about the tee for every byte set, every set of frame payloads    *)
(* and every cap (its invariants, and that it implements BodyTap), and     *)
(* about what is recorded of it, for every set of JSON texts.              *)
(***************************************************************************)
EXTENDS BodyRecording, SequenceTheorems, TLAPS

-----------------------------------------------------------------------------
(***************************************************************************)
(* Copying the part of a payload that still fits keeps the buffer the kept *)
(* prefix of everything forwarded, and the flag moves exactly when the     *)
(* total passes the cap.                                                   *)
(***************************************************************************)
LEMMA CopyKeepsPrefix ==
  ASSUME TypeOK, NEW d \in Seq(Byte), Cap \in Nat,
         buf = SubSeq(forwarded, 1, Tap!KeptLen(forwarded)),
         truncated <=> Len(forwarded) > Cap
  PROVE  /\ BufAfter(d) = SubSeq(forwarded \o d, 1, Tap!KeptLen(forwarded \o d))
         /\ TruncatedAfter(d) <=> Len(forwarded \o d) > Cap
<1> DEFINE fw == forwarded
           all == forwarded \o d
<1>1. /\ fw \in Seq(Byte) /\ all \in Seq(Byte) /\ Len(all) = Len(fw) + Len(d)
      /\ Len(fw) \in Nat /\ Len(d) \in Nat
  BY DEF TypeOK
<1>2. CASE truncated
  <2>1. Len(fw) > Cap /\ Len(all) > Cap
    BY <1>1, <1>2
  <2>2. BufAfter(d) = SubSeq(fw, 1, Cap)
    BY <1>1, <1>2, <2>1 DEF BufAfter, Tap!KeptLen
  <2>3. SubSeq(fw, 1, Cap) = SubSeq(all, 1, Cap)
    BY <1>1, <2>1
  <2>4. QED
    BY <1>2, <2>1, <2>2, <2>3 DEF TruncatedAfter, Tap!KeptLen
<1>3. CASE ~truncated
  <2>1. Len(fw) <= Cap
    BY <1>1, <1>3
  <2>2. buf = fw
    BY <1>1, <2>1 DEF Tap!KeptLen
  <2>3. /\ Take(d) \in Nat
        /\ Take(d) = IF Len(d) <= Cap - Len(fw) THEN Len(d) ELSE Cap - Len(fw)
    <3>1. Remaining = Cap - Len(fw)
      BY <1>1, <2>1, <2>2 DEF Remaining
    <3>2. QED
      BY <1>1, <2>1, <3>1 DEF Take
  <2>4. Tap!KeptLen(all) = Len(fw) + Take(d)
    BY <1>1, <2>1, <2>3 DEF Tap!KeptLen
  <2>5. fw \o SubSeq(d, 1, Take(d)) = SubSeq(all, 1, Len(fw) + Take(d))
    BY <1>1, <2>3
  <2>6. TruncatedAfter(d) <=> Len(all) > Cap
    BY <1>1, <1>3, <2>1, <2>3 DEF TruncatedAfter
  <2>7. QED
    BY <1>3, <2>2, <2>4, <2>5, <2>6 DEF BufAfter
<1>4. QED
  BY <1>2, <1>3 DEF TypeOK

\* The summary of a sequence of bytes is a well-typed CapturedBody.
LEMMA SummaryType ==
  ASSUME NEW s \in Seq(Byte), Cap \in Nat
  PROVE  Tap!Summary(s) \in [bytes : Seq(Byte), truncated : BOOLEAN]
<1>1. Tap!KeptLen(s) \in 0..Len(s)
  BY DEF Tap!KeptLen
<1>2. SubSeq(s, 1, Tap!KeptLen(s)) \in Seq(Byte)
  BY <1>1
<1>3. QED
  BY <1>2 DEF Tap!Summary

-----------------------------------------------------------------------------
(***************************************************************************)
(* finish() hands out a well-typed report when given well-typed contents.  *)
(***************************************************************************)
LEMMA FinishType ==
  ASSUME TypeOK, NEW b \in Seq(Byte), NEW t \in BOOLEAN, Finish(b, t),
         Cap \in Nat, Len(b) <= Cap
  PROVE  /\ onFinish' \in BOOLEAN
         /\ buf' \in Seq(Byte) /\ Len(buf') <= Cap
         /\ captured' \in Seq([bytes : Seq(Byte), truncated : BOOLEAN])
<1> DEFINE Report == [bytes : Seq(Byte), truncated : BOOLEAN]
           report == [bytes |-> b, truncated |-> t]
<1>1. report \in Report
  OBVIOUS
<1>2. captured \in Seq(Report) /\ buf \in Seq(Byte) /\ onFinish \in BOOLEAN
  BY DEF TypeOK
<1>3. captured' = IF onFinish THEN Append(captured, report) ELSE captured
  BY DEF Finish
<1>4. captured' \in Seq(Report)
  <2> HIDE DEF Report, report
  <2>1. QED
    BY <1>1, <1>2, <1>3
<1>5. onFinish' \in BOOLEAN /\ buf' \in Seq(Byte) /\ Len(buf') <= Cap
  <2>1. <<>> \in Seq(Byte) /\ Len(<<>>) = 0
    OBVIOUS
  <2>2. onFinish' = FALSE /\ buf' = IF onFinish THEN <<>> ELSE b
    BY DEF Finish
  <2>3. CASE onFinish
    <3>1. buf' = <<>>
      BY <2>2, <2>3
    <3>2. buf' \in Seq(Byte)
      BY <3>1, <2>1
    <3>3. Len(buf') <= Cap
      BY <3>1, <2>1
    <3>4. QED
      BY <2>2, <3>2, <3>3
  <2>4. CASE ~onFinish
    BY <2>2, <2>4
  <2>5. QED
    BY <2>3, <2>4
<1>6. QED
  BY <1>4, <1>5

LEMMA AfterFrameType ==
  ASSUME TypeOK, NEW last \in BOOLEAN, NEW b \in Seq(Byte), NEW t \in BOOLEAN,
         AfterFrame(last, b, t), Cap \in Nat, Len(b) <= Cap
  PROVE  /\ onFinish' \in BOOLEAN
         /\ buf' \in Seq(Byte) /\ Len(buf') <= Cap
         /\ captured' \in Seq([bytes : Seq(Byte), truncated : BOOLEAN])
<1>1. CASE last
  BY <1>1, FinishType DEF AfterFrame
<1>2. CASE ~last
  BY <1>2 DEF AfterFrame, KeepOpen, TypeOK
<1>3. QED
  BY <1>1, <1>2

LEMMA CopyType ==
  ASSUME TypeOK, NEW d \in Seq(Byte), Cap \in Nat
  PROVE  /\ BufAfter(d) \in Seq(Byte) /\ Len(BufAfter(d)) <= Cap
         /\ TruncatedAfter(d) \in BOOLEAN
<1>1. Take(d) \in 0..Len(d) /\ Len(buf) + Take(d) <= Cap
  BY DEF TypeOK, Take, Remaining
<1>2. SubSeq(d, 1, Take(d)) \in Seq(Byte) /\ Len(SubSeq(d, 1, Take(d))) = Take(d)
  BY <1>1
<1>3. BufAfter(d) \in Seq(Byte) /\ Len(BufAfter(d)) <= Cap
  <2>1. CASE truncated
    BY <2>1 DEF TypeOK, BufAfter
  <2>2. CASE ~truncated
    BY <1>1, <1>2, <2>2 DEF TypeOK, BufAfter
  <2>3. QED
    BY <2>1, <2>2 DEF TypeOK
<1>4. TruncatedAfter(d) \in BOOLEAN
  BY <1>1 DEF TypeOK, TruncatedAfter
<1>5. QED
  BY <1>3, <1>4

\* Every result of a poll keeps the types.
LEMMA PollKeepsTypes ==
  ASSUME TypeOK, Next
  PROVE  TypeOK'
<1>1. ASSUME NEW d \in Chunk, NEW last \in BOOLEAN, PollData(d, last)
      PROVE  TypeOK'
  <2>1. d \in Seq(Byte) /\ Cap \in Nat
    BY TeeAssumption
  <2>2. /\ BufAfter(d) \in Seq(Byte) /\ Len(BufAfter(d)) <= Cap
        /\ TruncatedAfter(d) \in BOOLEAN
    BY <2>1, CopyType
  <2>3. /\ onFinish' \in BOOLEAN /\ buf' \in Seq(Byte) /\ Len(buf') <= Cap
        /\ captured' \in Seq([bytes : Seq(Byte), truncated : BOOLEAN])
    BY <1>1, <2>1, <2>2, AfterFrameType DEF PollData
  <2>4. QED
    BY <1>1, <2>1, <2>2, <2>3 DEF PollData, TypeOK, Results
<1>2. ASSUME NEW last \in BOOLEAN, PollTrailers(last)
      PROVE  TypeOK'
  <2>1. /\ onFinish' \in BOOLEAN /\ buf' \in Seq(Byte) /\ Len(buf') <= Cap
        /\ captured' \in Seq([bytes : Seq(Byte), truncated : BOOLEAN])
    BY <1>2, AfterFrameType, TeeAssumption DEF PollTrailers, TypeOK
  <2>2. QED
    BY <1>2, <2>1 DEF PollTrailers, TypeOK, Results
<1>3. CASE PollError
  BY <1>3, FinishType, TeeAssumption DEF PollError, TypeOK, Results
<1>4. CASE PollEnd
  BY <1>4, FinishType, TeeAssumption DEF PollEnd, TypeOK, Results
<1> QED
  BY <1>4, <1>3, <1>2, <1>1 DEF Next

(***************************************************************************)
(* TeeBody is type correct (src/body.rs, struct TeeBody).                  *)
(***************************************************************************)
THEOREM TypeCorrect == Spec => []TypeOK
<1>1. Init => TypeOK
  <2> SUFFICES ASSUME Init PROVE TypeOK
    OBVIOUS
  <2>1. /\ inner \in {"open", "ended"}
        /\ truncated \in BOOLEAN /\ onFinish \in BOOLEAN
        /\ result \in Results
    BY DEF Init, Results
  <2>2. buf \in Seq(Byte) /\ Len(buf) <= Cap /\ forwarded \in Seq(Byte)
    BY TeeAssumption DEF Init
  <2>3. captured \in Seq([bytes : Seq(Byte), truncated : BOOLEAN])
    BY EmptySeq DEF Init
  <2>4. QED
    BY <2>1, <2>2, <2>3 DEF TypeOK
<1>2. TypeOK /\ [Next]_vars => TypeOK'
  BY PollKeepsTypes DEF vars, TypeOK
<1> QED
  BY <1>1, <1>2, PTL DEF Spec

-----------------------------------------------------------------------------
(***************************************************************************)
(* The capture invariant is inductive: at every step the buffer is the     *)
(* kept prefix of what the caller received, until the one report is made.  *)
(***************************************************************************)
LEMMA ErrorOrEndKeepsInv ==
  ASSUME CaptureInv, Finish(buf, truncated), inner' = "ended",
         forwarded' = forwarded, truncated' = truncated,
         TypeOK
  PROVE  CaptureInv'
<1>1. CASE onFinish
  <2>1. /\ buf = SubSeq(forwarded, 1, Tap!KeptLen(forwarded))
        /\ truncated = (Len(forwarded) > Cap)
    BY <1>1 DEF CaptureInv, TypeOK
  <2>2. Tap!Summary(forwarded) = [bytes |-> buf, truncated |-> truncated]
    BY <2>1, Zenon DEF Tap!Summary
  <2>3. captured' = <<Tap!Summary(forwarded)>>
    BY <1>1, <2>2 DEF CaptureInv, Finish
  <2>4. QED
    BY <2>3 DEF CaptureInv, Finish, Tap!Summary, Tap!KeptLen
<1>2. CASE ~onFinish
  BY <1>2 DEF CaptureInv, Finish, Tap!Summary, Tap!KeptLen
<1>3. QED
  BY <1>1, <1>2 DEF TypeOK

LEMMA FrameKeepsInv ==
  ASSUME TypeOK, CaptureInv, inner = "open", NEW d \in Seq(Byte), NEW last \in BOOLEAN,
         Cap \in Nat,
         AfterFrame(last, BufAfter(d), TruncatedAfter(d)),
         truncated' = TruncatedAfter(d),
         inner' = IF last THEN "ended" ELSE "open",
         forwarded' = forwarded \o d,
         result' = "frame",
         onFinish
  PROVE  CaptureInv'
<1>1. /\ BufAfter(d) = SubSeq(forwarded', 1, Tap!KeptLen(forwarded'))
      /\ TruncatedAfter(d) <=> Len(forwarded') > Cap
      /\ TruncatedAfter(d) \in BOOLEAN
  BY CopyKeepsPrefix, CopyType DEF CaptureInv
<1>2. CASE last
  <2>0. TruncatedAfter(d) = (Len(forwarded') > Cap)
    BY <1>1
  <2>1. Tap!Summary(forwarded') = [bytes |-> BufAfter(d), truncated |-> TruncatedAfter(d)]
    BY <1>1, <2>0, Zenon DEF Tap!Summary
  <2>2. captured' = <<Tap!Summary(forwarded')>>
    BY <1>2, <2>1 DEF CaptureInv, AfterFrame, Finish
  <2>3. QED
    BY <1>2, <2>2 DEF CaptureInv, AfterFrame, Finish, Tap!Summary, Tap!KeptLen
<1>3. CASE ~last
  BY <1>1, <1>3 DEF CaptureInv, AfterFrame, KeepOpen, Tap!KeptLen
<1>4. QED
  BY <1>2, <1>3

\* Every result of a poll keeps the capture invariant.
LEMMA PollKeepsCapture ==
  ASSUME TypeOK, CaptureInv, Next
  PROVE  CaptureInv'
<1>1. inner = "open" => onFinish
  BY DEF CaptureInv, TypeOK
<1>2. ASSUME NEW d \in Chunk, NEW last \in BOOLEAN, PollData(d, last)
      PROVE  CaptureInv'
  BY <1>1, <1>2, FrameKeepsInv, TeeAssumption DEF PollData
<1>3. ASSUME NEW last \in BOOLEAN, PollTrailers(last)
      PROVE  CaptureInv'
  <2>1. /\ <<>> \in Seq(Byte)
        /\ forwarded \o <<>> = forwarded
        /\ BufAfter(<<>>) = buf
        /\ TruncatedAfter(<<>>) = truncated
    BY TeeAssumption DEF TypeOK, BufAfter, TruncatedAfter, Take, Remaining
  <2>2. QED
    BY <1>1, <1>3, <2>1, FrameKeepsInv, TeeAssumption DEF PollTrailers
<1>4. CASE PollError
  BY <1>4, ErrorOrEndKeepsInv DEF PollError
<1>5. CASE PollEnd
  BY <1>5, ErrorOrEndKeepsInv DEF PollEnd
<1> QED
  BY <1>5, <1>4, <1>3, <1>2 DEF Next

(***************************************************************************)
(* Whatever the cap, the payloads and the order of polls: the report given *)
(* to on_finish is the kept prefix of the forwarded bytes, with the        *)
(* truncation flag exact at the boundary (src/body.rs, poll_frame).        *)
(***************************************************************************)
THEOREM CaptureFaithful == Spec => []CaptureInv
<1>1. Init => CaptureInv
  BY TeeAssumption DEF Init, CaptureInv, Tap!KeptLen
<1>2. TypeOK /\ CaptureInv /\ [Next]_vars => CaptureInv'
  <2>1. CaptureInv /\ UNCHANGED vars => CaptureInv'
    BY DEF vars, CaptureInv, Tap!Summary, Tap!KeptLen
  <2>2. QED
    BY <2>1, PollKeepsCapture
<1>3. QED
  BY <1>1, <1>2, TypeCorrect, PTL DEF Spec

(***************************************************************************)
(* A caller that has seen an error, the end, or a last frame never has to  *)
(* poll again for the body to be recorded (src/body.rs, poll_frame).       *)
(***************************************************************************)
THEOREM TerminalReported == Spec => []TerminalIsReported
<1>1. CaptureInv => TerminalIsReported
  <2> SUFFICES ASSUME CaptureInv,
                      result \in {"error", "end"} \/ (result = "frame" /\ inner = "ended")
               PROVE  captured # <<>>
    BY DEF TerminalIsReported
  <2>1. ~onFinish
    BY DEF CaptureInv
  <2>2. captured = <<Tap!Summary(forwarded)>>
    BY <2>1 DEF CaptureInv
  <2>3. QED
    BY <2>2
<1>2. QED
  BY <1>1, CaptureFaithful, PTL

-----------------------------------------------------------------------------
\* What a step that calls on_finish, and one that does not, do to the report.
LEMMA ReportStep ==
  ASSUME CaptureInv, CaptureInv', onFinish, NEW last \in BOOLEAN,
         NEW b, NEW t, AfterFrame(last, b, t)
  PROVE  /\ captured = <<>>
         /\ captured' = IF last THEN <<Tap!Summary(forwarded')>> ELSE <<>>
<1>1. captured = <<>>
  BY DEF CaptureInv
<1>2. CASE last
  <2>1. ~onFinish'
    BY <1>2 DEF AfterFrame, Finish
  <2>2. QED
    BY <1>1, <1>2, <2>1 DEF CaptureInv, Tap!Summary, Tap!KeptLen
<1>3. CASE ~last
  BY <1>1, <1>3 DEF AfterFrame, KeepOpen
<1>4. QED
  BY <1>1, <1>2, <1>3

\* A poll that ends the body reports it, or changes nothing a caller sees.
LEMMA LastPollStep ==
  ASSUME TypeOK, CaptureInv, CaptureInv', Finish(buf, truncated),
         forwarded' = forwarded
  PROVE  Tap!Next \/ UNCHANGED <<forwarded, captured>>
<1>1. CASE onFinish
  <2>1. /\ captured = <<>>
        /\ captured' = <<Tap!Summary(forwarded')>>
    BY <1>1, ReportStep DEF AfterFrame
  <2>2. forwarded' = forwarded \o <<>>
    BY DEF TypeOK
  <2>3. Tap!Deliver(<<>>, TRUE)
    BY <2>1, <2>2 DEF Tap!Deliver
  <2>4. QED
    BY <2>3 DEF Tap!Next
<1>2. CASE ~onFinish
  BY <1>2 DEF Finish
<1>3. QED
  BY <1>1, <1>2

\* A poll delivers to the tap what it forwards, or shows nothing.
LEMMA PollIsTapped ==
  ASSUME TypeOK, CaptureInv, CaptureInv', Next
  PROVE  Tap!Next \/ UNCHANGED <<forwarded, captured>>
<1>0. inner = "open" => onFinish
  BY DEF CaptureInv
<1>1. ASSUME NEW d \in Chunk, NEW last \in BOOLEAN, PollData(d, last)
      PROVE  Tap!Next
  <2>1. onFinish /\ forwarded' = forwarded \o d
    BY <1>0, <1>1 DEF PollData
  <2>2. AfterFrame(last, BufAfter(d), TruncatedAfter(d))
    BY <1>1 DEF PollData
  <2>3. /\ captured = <<>>
        /\ captured' = IF last THEN <<Tap!Summary(forwarded')>> ELSE <<>>
    BY <2>1, <2>2, ReportStep
  <2>4. Tap!Deliver(d, last)
    BY <2>1, <2>3 DEF Tap!Deliver
  <2>5. QED
    BY <2>4 DEF Tap!Next
<1>2. ASSUME NEW last \in BOOLEAN, PollTrailers(last)
      PROVE  Tap!Next
  <2>1. onFinish /\ forwarded' = forwarded \o <<>>
    BY <1>0, <1>2 DEF PollTrailers, TypeOK
  <2>2. AfterFrame(last, buf, truncated)
    BY <1>2 DEF PollTrailers
  <2>3. /\ captured = <<>>
        /\ captured' = IF last THEN <<Tap!Summary(forwarded')>> ELSE <<>>
    BY <2>1, <2>2, ReportStep
  <2>4. Tap!Deliver(<<>>, last)
    BY <2>1, <2>3 DEF Tap!Deliver
  <2>5. QED
    BY <2>4 DEF Tap!Next
<1>3. CASE PollError
  BY <1>3, LastPollStep DEF PollError
<1>4. CASE PollEnd
  BY <1>4, LastPollStep DEF PollEnd
<1> QED
  BY <1>4, <1>3, <1>2, <1>1 DEF Next

(***************************************************************************)
(* The tee implements its abstract specification: through any sequence of  *)
(* frames, trailers, errors and ends it is a tap that reports, at most     *)
(* once and last, a summary of exactly what the caller received            *)
(* (src/body.rs, TeeBody).                                                 *)
(***************************************************************************)
THEOREM TeeImplementsTap == Spec => ImplementsTap
<1>1. Init => Tap!Init
  BY DEF Init, Tap!Init
<1>2. TypeOK /\ CaptureInv /\ CaptureInv' /\ [Next]_vars => [Tap!Next]_(Tap!vars)
  BY PollIsTapped DEF vars, Tap!vars
<1>3. QED
  BY <1>1, <1>2, TypeCorrect, CaptureFaithful, PTL DEF Spec, Tap!Spec, ImplementsTap

-----------------------------------------------------------------------------
(* What is recorded, from the tee's invariants.                             *)

\* Recording adds a header and a history to the tee: it is still the tee.
THEOREM RecordingIsTee == RecSpec => Spec
<1>1. RecInit => Init
  BY DEF RecInit
<1>2. [RecNext]_recVars => [Next]_vars
  BY DEF RecNext, recVars
<1>3. QED
  BY <1>1, <1>2, PTL DEF RecSpec, Spec

(***************************************************************************)
(* For every cap: a stored JSON sample is the very bytes the caller        *)
(* received and fits the cap, so inference never reads a prefix of what    *)
(* was sent, whatever the header and however the stream ends               *)
(* (from_captured of src/exchange.rs on what finish of src/body.rs gives). *)
(***************************************************************************)
THEOREM SampleIsWhole == RecSpec => []SampleIsAllForwarded
<1>1. TypeOK /\ CaptureInv => SampleIsAllForwarded
  <2> SUFFICES ASSUME TypeOK, CaptureInv, recorded.kind = "Json"
               PROVE  recorded.value = forwarded /\ Len(forwarded) <= Cap
    BY DEF SampleIsAllForwarded
  <2>1. captured # <<>>
    BY DEF recorded, Empty
  <2>2. captured = <<Tap!Summary(forwarded)>>
    BY <2>1 DEF CaptureInv, TypeOK
  <2>3. recorded = FromCaptured(ContentTypeOf(header), captured[1])
    BY <2>1 DEF recorded
  <2>4. recorded = Json(captured[1].bytes) /\ ~captured[1].truncated
    BY <2>3 DEF FromCaptured, Json, Empty, Truncated, Opaque
  <2>5. /\ captured[1].bytes = SubSeq(forwarded, 1, Tap!KeptLen(forwarded))
        /\ ~(Len(forwarded) > Cap)
    BY <2>2, <2>4 DEF Tap!Summary
  <2>6. /\ forwarded \in Seq(Byte) /\ Len(forwarded) <= Cap
        /\ Tap!KeptLen(forwarded) = Len(forwarded)
    BY <2>5, TeeAssumption DEF TypeOK, Tap!KeptLen
  <2>7. captured[1].bytes = forwarded
    BY <2>5, <2>6
  <2>8. QED
    BY <2>4, <2>6, <2>7 DEF Json
<1>2. QED
  BY <1>1, RecordingIsTee, TypeCorrect, CaptureFaithful, PTL

-----------------------------------------------------------------------------
(***************************************************************************)
(* What the report says of a body decides its class: from_captured on the  *)
(* kept prefix and its flag answers as the documented rules answer on the  *)
(* whole body (src/exchange.rs, from_captured; src/layer.rs,               *)
(* content_type_of).                                                       *)
(***************************************************************************)
LEMMA ClassOfSummary ==
  ASSUME NEW h \in HeaderClass, h # "unreadable", NEW s \in Seq(Byte)
  PROVE  FromCaptured(ContentTypeOf(h), Tap!Summary(s)) = WholeBody(h, s)
<1> DEFINE c == Tap!Summary(s)
           ct == ContentTypeOf(h)
<1>1. /\ LooksLikeJson(ct) <=> h \in {"json", "+json"}
      /\ ct = None <=> h = "absent"
  BY DEF LooksLikeJson, ContentTypeOf, HeaderClass, None
<1>2. Cap \in Nat /\ Len(s) \in Nat
  BY TeeAssumption
<1>3. CASE Len(s) <= Cap
  <2>1. Tap!KeptLen(s) = Len(s) /\ SubSeq(s, 1, Len(s)) = s
    BY <1>2, <1>3 DEF Tap!KeptLen
  <2>2. c.bytes = s /\ ~c.truncated
    <3>1. c.bytes = s
      BY <2>1 DEF Tap!Summary
    <3>2. c.truncated <=> Len(s) > Cap
      BY DEF Tap!Summary
    <3>3. QED
      BY <1>2, <1>3, <3>1, <3>2
  <2> HIDE DEF c, ct
  <2>3. FromCaptured(ct, c) = WholeBody(h, s)
    BY <1>1, <1>3, <2>2 DEF FromCaptured, WholeBody
  <2>4. QED
    BY <2>3 DEF c, ct
<1>4. CASE Len(s) > Cap
  <2>a. Tap!KeptLen(s) = Cap
    BY <1>2, <1>4 DEF Tap!KeptLen
  <2>b. Len(SubSeq(s, 1, Cap)) = Cap /\ s # <<>>
    BY <1>2, <1>4
  <2>1. c.truncated /\ c.bytes = SubSeq(s, 1, Cap) /\ Len(c.bytes) = Cap /\ s # <<>>
    BY <1>4, <2>a, <2>b DEF Tap!Summary
  <2> HIDE DEF c, ct
  <2>2. FromCaptured(ct, c) = WholeBody(h, s)
    BY <1>1, <1>2, <1>4, <2>1 DEF FromCaptured, WholeBody
  <2>3. QED
    BY <2>2 DEF c, ct
<1>5. QED
  BY <1>2, <1>3, <1>4

\* The header is fixed before the body starts.
LEMMA HeaderTypes == RecSpec => [](header \in HeaderClass /\ failed \in BOOLEAN)
<1>1. RecInit => header \in HeaderClass /\ failed \in BOOLEAN
  BY DEF RecInit
<1>2. (header \in HeaderClass /\ failed \in BOOLEAN) /\ [RecNext]_recVars
        => (header \in HeaderClass /\ failed \in BOOLEAN)'
  BY DEF RecNext, recVars
<1>3. QED
  BY <1>1, <1>2, PTL DEF RecSpec

(***************************************************************************)
(* The fields of the recording keep their types (src/exchange.rs, enum     *)
(* BodyCapture).                                                           *)
(***************************************************************************)
THEOREM RecTypeCorrect == RecSpec => []RecTypeOK
<1>1. recorded.kind \in {"Empty", "Json", "Opaque", "Truncated"}
  BY DEF recorded, FromCaptured, Empty, Json, Opaque, Truncated
<1>2. TypeOK /\ header \in HeaderClass /\ failed \in BOOLEAN => RecTypeOK
  BY <1>1 DEF RecTypeOK
<1>3. QED
  BY <1>2, RecordingIsTee, TypeCorrect, HeaderTypes, PTL

(***************************************************************************)
(* For every cap and every way to cut a body into frames: once a stream    *)
(* has ended, what is stored is the classification of the whole body, if   *)
(* its header is absent or readable (src/body.rs with src/exchange.rs).    *)
(***************************************************************************)
THEOREM WholeIsClassified == RecSpec => []ClassifiedAsWhole
<1>1. TypeOK /\ CaptureInv /\ TerminalIsReported /\ header \in HeaderClass
        => ClassifiedAsWhole
  <2> SUFFICES ASSUME TypeOK, CaptureInv, TerminalIsReported,
                      header \in HeaderClass, header # "unreadable",
                      result = "end" \/ (result = "frame" /\ inner = "ended")
               PROVE  recorded = WholeBody(header, forwarded)
    BY DEF ClassifiedAsWhole
  <2>1. captured # <<>>
    BY DEF TerminalIsReported
  <2>2. captured = <<Tap!Summary(forwarded)>>
    BY <2>1 DEF CaptureInv, TypeOK
  <2>3. recorded = FromCaptured(ContentTypeOf(header), Tap!Summary(forwarded))
    BY <2>2 DEF recorded
  <2>4. QED
    BY <2>3, ClassOfSummary DEF TypeOK
<1>2. QED
  BY <1>1, RecordingIsTee, TypeCorrect, CaptureFaithful, TerminalReported, HeaderTypes, PTL

(***************************************************************************)
(* What was recorded of a body is never recorded again, whoever goes on    *)
(* polling (src/body.rs, finish).                                          *)
(***************************************************************************)
THEOREM RecordsOnce == RecSpec => RecordedOnce
<1>1. TypeOK /\ CaptureInv /\ [RecNext]_recVars
        => (captured # <<>> => recorded' = recorded)
  <2> SUFFICES ASSUME TypeOK, CaptureInv, [RecNext]_recVars, captured # <<>>
               PROVE  recorded' = recorded
    OBVIOUS
  <2>1. ~onFinish /\ inner = "ended"
    BY DEF CaptureInv, TypeOK
  <2>2. captured' = captured /\ header' = header
    <3>1. CASE RecNext
      <4>1. Next /\ header' = header
        BY <3>1 DEF RecNext
      <4>2. PollEnd
        BY <2>1, <4>1 DEF Next, PollData, PollTrailers, PollError
      <4>3. QED
        BY <2>1, <4>1, <4>2 DEF PollEnd, Finish
    <3>2. CASE UNCHANGED recVars
      BY <3>2 DEF recVars, vars
    <3>3. QED
      BY <3>1, <3>2
  <2>3. QED
    BY <2>2 DEF recorded
<1>2. QED
  BY <1>1, RecordingIsTee, TypeCorrect, CaptureFaithful, PTL DEF RecSpec, RecordedOnce
===============================================================================
