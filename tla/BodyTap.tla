------------------------------- MODULE BodyTap -------------------------------
(***************************************************************************)
(* What the recorder promises about one message body, with none of the     *)
(* machinery of src/body.rs: bytes go to the caller, and at most once, at  *)
(* the end, a summary of exactly those bytes goes to the recorder.         *)
(*                                                                         *)
(* TeeBody implements this specification (see TeeBody!Tap).                *)
(***************************************************************************)
EXTENDS Integers, Sequences

CONSTANTS
  Chunk,   \* payloads a data frame may carry
  Cap      \* how many bytes of a body are kept for recording

VARIABLES
  sent,      \* every byte the caller has received, in order
  reported   \* the summaries given to the recorder: none, or one

vars == <<sent, reported>>

\* The part of a byte sequence that recording keeps.
KeptLen(s) == IF Len(s) <= Cap THEN Len(s) ELSE Cap

Summary(s) == [bytes     |-> SubSeq(s, 1, KeptLen(s)),
               truncated |-> Len(s) > Cap]

Init == sent = <<>> /\ reported = <<>>

(***************************************************************************)
(* The caller receives payload d (empty for a trailers frame, an error or  *)
(* the end of the stream); if this was the last result, the summary of     *)
(* everything it received is reported in the same step.  Once the summary  *)
(* is out nothing more is sent and nothing more is reported.               *)
(***************************************************************************)
Deliver(d, last) ==
  /\ reported = <<>>
  /\ sent' = sent \o d
  /\ reported' = IF last THEN <<Summary(sent \o d)>> ELSE <<>>

Next == \E d \in Chunk \cup {<<>>}, last \in BOOLEAN : Deliver(d, last)

Spec == Init /\ [][Next]_vars
=============================================================================
