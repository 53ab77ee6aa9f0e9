------------------------------ MODULE MCRecorder ------------------------------
(***************************************************************************)
(* Small instances of Recorder.  A payload is a JSON body with an ordinary *)
(* secret (ssn) and a high-entropy one (token), a JSON body without        *)
(* fields, or a body beyond the cap.                                       *)
(***************************************************************************)
EXTENDS Recorder, TLC

CONSTANTS ssn, token

MCField   == {ssn, token}
MCToken   == {token}
Secrets   == [kind |-> "Json", fields |-> {ssn, token}]
Plain     == [kind |-> "Json", fields |-> {}]
TooLong   == [kind |-> "Truncated", fields |-> {}]
MCPayload == {Secrets, TooLong}
MCConfig  == {{}, {ssn}, {token}, {ssn, token}}
MCPlain   == {Plain}
MCTooLong == {TooLong}
NoConfig  == {{}}

Symmetry == Permutations(Exchange) \cup Permutations(Collector)
===============================================================================
