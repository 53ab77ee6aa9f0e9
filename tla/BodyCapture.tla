----------------------------- MODULE BodyCapture -----------------------------
(***************************************************************************)
(* What is kept of a captured body: content_type_of of src/layer.rs and    *)
(* BodyCapture::from_captured of src/exchange.rs.                          *)
(*                                                                         *)
(* A Content-Type header is one of a few classes, which is all the code    *)
(* tells apart.  Parameters after ";" and surrounding blanks are dropped   *)
(* before the comparison, so a class stands for every such variation.      *)
(***************************************************************************)
EXTENDS Integers, Sequences

CONSTANTS JsonText   \* the byte sequences serde_json::from_slice accepts

HeaderClass == {
  "absent",      \* no Content-Type header
  "unreadable",  \* a header whose value to_str() refuses (not visible ASCII)
  "json",        \* application/json, in any letter case
  "+json",       \* a structured-syntax suffix, in lower case
  "+JSON",       \* the same suffix in another case: ends_with is case-sensitive
  "other" }      \* anything else, e.g. image/png

None == "None"

\* content_type_of: a header that to_str() refuses is dropped like an absent one.
ContentTypeOf(header) == IF header \in {"absent", "unreadable"} THEN None ELSE header

\* from_captured: looks_like_json
LooksLikeJson(ct) == ct \in {"json", "+json"}

\* The variants of enum BodyCapture; an Opaque body keeps the captured length.
Empty        == [kind |-> "Empty"]
Json(b)      == [kind |-> "Json", value |-> b]
Opaque(n)    == [kind |-> "Opaque", len |-> n]
Truncated    == [kind |-> "Truncated"]

\* Mutated forms: the truncation test forgotten, so a cut document is parsed;
\* every body that parses is sampled, whatever its header says.
KeepsPrefix(ct, c) ==
  CASE c.bytes = <<>> -> Empty
    [] c.bytes # <<>> /\ c.bytes \in JsonText -> Json(c.bytes)
    [] OTHER -> Opaque(Len(c.bytes))
SniffsEverything(ct, c) ==
  CASE c.bytes = <<>> /\ ~c.truncated -> Empty
    [] c.truncated /\ LooksLikeJson(ct) -> Truncated
    [] ~c.truncated /\ c.bytes \in JsonText -> Json(c.bytes)
    [] OTHER -> Opaque(Len(c.bytes))

\* BodyCapture::from_captured
FromCaptured(ct, c) ==
  CASE c.bytes = <<>> /\ ~c.truncated -> Empty
    [] c.truncated /\ LooksLikeJson(ct) -> Truncated
    [] /\ ~c.truncated
       /\ LooksLikeJson(ct) \/ ct = None
       /\ c.bytes \in JsonText -> Json(c.bytes)
    [] OTHER -> Opaque(Len(c.bytes))
=============================================================================
