--------------------------- MODULE MCBodyRecording ---------------------------
(***************************************************************************)
(* A small instance of BodyRecording, and of the tee within it.  Frames    *)
(* hold 0 to 3 bytes, the cap is 3 and bodies go up to 6, so that a body   *)
(* can end below, exactly at and beyond the cap, in one frame or several.  *)
(* One byte value is a digit: every non-empty run of digits is a JSON text *)
(* and so is each of its prefixes, the worst case for truncation.  The     *)
(* other makes texts that do not parse.                                    *)
(***************************************************************************)
EXTENDS BodyRecording

CONSTANTS digit, letter

MCByte  == {digit, letter}
MCChunk == UNION {[1..n -> MCByte] : n \in 0..3}
MCJson  == UNION {[1..n -> {digit}] : n \in 1..6}
=============================================================================
