------------------------------- MODULE TeeBody -------------------------------
(***************************************************************************)
(* The streaming tee of src/body.rs: a wrapper around an http_body::Body   *)
(* that forwards every frame unchanged and copies up to Cap bytes of the   *)
(* data into a side buffer, which it gives to a callback exactly once.     *)
(*                                                                         *)
(* The wrapped body is external code, modelled from what poll_frame relies *)
(* on: while it is "open" a poll may return a data frame, a trailers       *)
(* frame, an error or None; with its last frame it may already answer      *)
(* is_end_stream() = true ("ended"); once "ended" a poll returns None.  A  *)
(* poll that returns Pending changes nothing and is not an action.  A      *)
(* caller that drops the body is a behaviour in which no further poll      *)
(* happens: there is no Drop implementation that would flush the buffer.   *)
(***************************************************************************)
EXTENDS Integers, Sequences

CONSTANTS
  Byte,          \* the byte values
  Chunk,         \* payloads a data frame may carry
  Cap,           \* CAPTURE_CAP_BYTES
  MaxForwarded   \* bound: the longest body the wrapped stream produces

ASSUME TeeAssumption == /\ Cap \in Nat
                        /\ MaxForwarded \in Nat
                        /\ Chunk \subseteq Seq(Byte)

VARIABLES
  inner,       \* the wrapped body: "open" or "ended"
  buf,         \* TeeBody::buf
  truncated,   \* TeeBody::truncated
  onFinish,    \* TeeBody::on_finish is still Some
  forwarded,   \* history: every byte handed to the caller
  result,      \* what the caller's last poll returned
  captured     \* the CapturedBody values given to on_finish

vars == <<inner, buf, truncated, onFinish, forwarded, result, captured>>

Results == {"none", "frame", "error", "end"}

\* TeeBody::new around a body that may be empty from the start.
Init ==
  /\ inner \in {"open", "ended"}
  /\ buf = <<>>
  /\ truncated = FALSE
  /\ onFinish = TRUE
  /\ forwarded = <<>>
  /\ result = "none"
  /\ captured = <<>>

-----------------------------------------------------------------------------
\* Mutated forms, each a plausible slip in poll_frame or finish, that the
\* properties below must reject: room computed without looking at the buffer;
\* truncation reported at the cap instead of beyond it; a callback called
\* without being taken, whose result is added or replaces the first; a last
\* frame that waits for one more poll.
RemainingForgetsBuf == Cap
TruncatedAtCap(d) == truncated \/ (d # <<>> /\ Len(buf) + Len(d) >= Cap)
FinishAgain(b, t) ==
  /\ onFinish' = FALSE
  /\ captured' = Append(captured, [bytes |-> b, truncated |-> t])
  /\ buf' = <<>>
FinishOverwrites(b, t) ==
  /\ onFinish' = FALSE
  /\ captured' = <<[bytes |-> b, truncated |-> t]>>
  /\ buf' = <<>>
LazyAfterFrame(last, b, t) == buf' = b /\ UNCHANGED <<onFinish, captured>>

\* cap.saturating_sub(buf.len())
Remaining == IF Len(buf) <= Cap THEN Cap - Len(buf) ELSE 0

\* How many bytes of a payload still fit.
Take(d) == IF Len(d) <= Remaining THEN Len(d) ELSE Remaining

\* The side buffer and the flag after a data frame with payload d.
BufAfter(d) == IF truncated THEN buf ELSE buf \o SubSeq(d, 1, Take(d))
TruncatedAfter(d) == truncated \/ Take(d) < Len(d)

(***************************************************************************)
(* finish(): take the callback if it is still there and give it the        *)
(* buffer, which is left empty.                                            *)
(***************************************************************************)
Finish(b, t) ==
  /\ onFinish' = FALSE
  /\ captured' = IF onFinish THEN Append(captured, [bytes |-> b, truncated |-> t])
                             ELSE captured
  /\ buf' = IF onFinish THEN <<>> ELSE b

KeepOpen(b) ==
  /\ buf' = b
  /\ UNCHANGED <<onFinish, captured>>

\* After a frame: finish eagerly if the wrapped body already says it has ended.
AfterFrame(last, b, t) == IF last THEN Finish(b, t) ELSE KeepOpen(b)

-----------------------------------------------------------------------------
PollData(d, last) ==
  /\ inner = "open"
  /\ Len(forwarded) + Len(d) <= MaxForwarded
  /\ inner' = IF last THEN "ended" ELSE "open"
  /\ truncated' = TruncatedAfter(d)
  /\ AfterFrame(last, BufAfter(d), TruncatedAfter(d))
  /\ forwarded' = forwarded \o d
  /\ result' = "frame"

\* A trailers frame has no data: nothing is copied.
PollTrailers(last) ==
  /\ inner = "open"
  /\ inner' = IF last THEN "ended" ELSE "open"
  /\ AfterFrame(last, buf, truncated)
  /\ result' = "frame"
  /\ UNCHANGED <<truncated, forwarded>>

PollError ==
  /\ inner = "open"
  /\ inner' = "ended"
  /\ Finish(buf, truncated)
  /\ result' = "error"
  /\ UNCHANGED <<truncated, forwarded>>

PollEnd ==
  /\ inner' = "ended"
  /\ Finish(buf, truncated)
  /\ result' = "end"
  /\ UNCHANGED <<truncated, forwarded>>

Next ==
  \/ \E d \in Chunk, last \in BOOLEAN : PollData(d, last)
  \/ \E last \in BOOLEAN : PollTrailers(last)
  \/ PollError
  \/ PollEnd

Spec == Init /\ [][Next]_vars

-----------------------------------------------------------------------------
\* The abstract view: the forwarded bytes and the report about them.
Tap == INSTANCE BodyTap WITH sent <- forwarded, reported <- captured

\* The type invariant of TeeBody's fields (src/body.rs, struct TeeBody), with
\* its memory bound: the side buffer never outgrows the cap.
TypeOK ==
  /\ inner \in {"open", "ended"}
  /\ buf \in Seq(Byte)
  /\ Len(buf) <= Cap
  /\ truncated \in BOOLEAN
  /\ onFinish \in BOOLEAN
  /\ forwarded \in Seq(Byte)
  /\ result \in Results
  /\ captured \in Seq([bytes : Seq(Byte), truncated : BOOLEAN])

(***************************************************************************)
(* Across any split of a body into frames, whatever mix of eager and lazy  *)
(* end-of-stream and at whatever point an error arrives, the recorder gets *)
(* the first Cap bytes of what the caller got, marked truncated exactly    *)
(* when the caller got more than Cap, and gets it at most once (poll_frame *)
(* and finish of src/body.rs).                                             *)
(***************************************************************************)
ImplementsTap == Tap!Spec

(***************************************************************************)
(* A caller that has seen the stream end, or fail, or has been told by     *)
(* is_end_stream() that its last frame was the final one, needs no further *)
(* poll for the body to be recorded (src/body.rs, "Finish eagerly").       *)
(***************************************************************************)
TerminalIsReported ==
  (result \in {"error", "end"} \/ (result = "frame" /\ inner = "ended"))
    => captured # <<>>

(***************************************************************************)
(* The strengthening that makes the two properties above inductive: while  *)
(* the callback is still there, buf is the kept part of what was forwarded *)
(* and the flag says whether there was more; afterwards the one report is  *)
(* the summary of everything forwarded, and the wrapped body has ended.    *)
(***************************************************************************)
CaptureInv ==
  /\ onFinish => /\ captured = <<>>
                 /\ buf = SubSeq(forwarded, 1, Tap!KeptLen(forwarded))
                 /\ truncated <=> Len(forwarded) > Cap
                 /\ inner = "ended" => result = "none"
                 /\ result \notin {"error", "end"}
  /\ ~onFinish => /\ captured = <<Tap!Summary(forwarded)>>
                  /\ inner = "ended"

=============================================================================
