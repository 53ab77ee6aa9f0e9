---------------------------- MODULE BodyRecording ----------------------------
(***************************************************************************)
(* One message body from the wire to the store: the streaming tee of       *)
(* TeeBody, and the classification of BodyCapture that its callback        *)
(* (record_side of src/layer.rs) applies to whatever was captured.         *)
(***************************************************************************)
EXTENDS TeeBody, BodyCapture

VARIABLES
  header,   \* the message's Content-Type header, fixed before the body starts
  failed    \* history: the wrapped body has returned an error

recVars == <<vars, header, failed>>

\* MessageCapture::body: Empty until the tee's callback has run.
recorded == IF captured = <<>> THEN Empty
            ELSE FromCaptured(ContentTypeOf(header), captured[1])

RecInit == Init /\ header \in HeaderClass /\ failed = FALSE

RecNext ==
  /\ Next
  /\ failed' = (failed \/ result' = "error")
  /\ UNCHANGED header

RecSpec == RecInit /\ [][RecNext]_recVars

-----------------------------------------------------------------------------
\* The type invariant: TeeBody's, and the classes of header and record.
RecTypeOK ==
  /\ TypeOK
  /\ header \in HeaderClass
  /\ failed \in BOOLEAN
  /\ recorded.kind \in {"Empty", "Json", "Opaque", "Truncated"}

\* How the documented rules classify a whole body (DESIGN.md section 2).
WholeBody(h, body) ==
  LET jsonHeader == h \in {"json", "+json"}
      fits == Len(body) <= Cap
  IN  CASE body = <<>> -> Empty
        [] ~fits /\ jsonHeader -> Truncated
        [] /\ fits /\ body \in JsonText
           /\ jsonHeader \/ h = "absent" -> Json(body)
        [] OTHER -> Opaque(IF fits THEN Len(body) ELSE Cap)

(***************************************************************************)
(* However a body is cut into frames, once its stream has ended without an *)
(* error what is stored is the classification of the whole body: a         *)
(* complete JSON sample, or no sample at all when the body passed the cap; *)
(* a header that cannot be read is the exception, which is what the run of *)
(* ExplicitTypeIsTrusted finds (poll_frame and finish of src/body.rs with  *)
(* from_captured of src/exchange.rs).                                      *)
(***************************************************************************)
ClassifiedAsWhole ==
  header # "unreadable" /\ ~failed /\ (result = "end" \/ (result = "frame" /\ inner = "ended"))
    => recorded = WholeBody(header, forwarded)

(***************************************************************************)
(* A JSON sample is every byte the caller received, never a prefix of      *)
(* them: a body that passed the cap is no sample, not even when its stream *)
(* fails later or its kept prefix happens to be a JSON text                *)
(* (src/exchange.rs, "dropped entirely rather than kept as a partial       *)
(* document").                                                             *)
(***************************************************************************)
SampleIsAllForwarded ==
  recorded.kind = "Json" => recorded.value = forwarded /\ Len(forwarded) <= Cap

(***************************************************************************)
(* What was recorded of a body is recorded once: no later poll changes it  *)
(* (the Option::take of finish in src/body.rs).                            *)
(***************************************************************************)
RecordedOnce == [][captured # <<>> => recorded' = recorded]_recVars

-----------------------------------------------------------------------------
(***************************************************************************)
(* DESIGN.md section 2: a partial JSON document is never kept as a sample. *)
(* The code finishes a body that failed in mid-stream as if it were whole. *)
(***************************************************************************)
NoPartialSample == recorded.kind = "Json" => ~failed

(***************************************************************************)
(* DESIGN.md section 2: sniffing "only fires on an absent header -- an     *)
(* explicit non-JSON content-type is never second-guessed".  The code      *)
(* sniffs the body of a message whose header is no visible ASCII, too.     *)
(***************************************************************************)
ExplicitTypeIsTrusted == recorded.kind = "Json" => header \in {"absent", "json", "+json"}
=============================================================================
