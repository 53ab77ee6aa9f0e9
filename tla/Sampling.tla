------------------------------- MODULE Sampling -------------------------------
(***************************************************************************)
(* From the bodies of one operation and status to its schema: each body is *)
(* redacted and scanned as record_side of src/layer.rs does it, under the  *)
(* configuration of its moment, and becomes a sample of infer_schema.      *)
(***************************************************************************)
EXTENDS Infer, Redact

CONSTANT Config   \* field sets that configure() is called with

\* What redaction makes of a body is a body.
ASSUME SamplingAssumption ==
  \A v \in Json : \A c \in Config \cup {{}} : RedactWith(c, v) \in Json

VARIABLES
  config,    \* the global Redactions
  warned,    \* the locations that scan has warned about
  raw        \* history: each body as it came, and the configuration it met

sampVars == <<samples, config, warned, raw>>

SampInit ==
  /\ Init
  /\ config = {}
  /\ warned = {}
  /\ raw = <<>>

Configure(c) ==
  /\ c # config
  /\ config' = c
  /\ UNCHANGED <<samples, warned, raw>>

\* Mutated form: the scan sees the body as it came.
ScanRaw(v) == Scan[v]

Scanned(v) == Scan[RedactWith(config, v)]

Record(v) ==
  /\ Sampled(RedactWith(config, v))
  /\ warned' = warned \cup Scanned(v)
  /\ raw' = Append(raw, [body |-> v, config |-> config])
  /\ UNCHANGED config

SampNext ==
  \/ \E c \in Config : Configure(c)
  \/ \E v \in Value : Record(v)

SampSpec == SampInit /\ [][SampNext]_sampVars

-----------------------------------------------------------------------------
\* The steps of a location that name a declared field.
Declared(at, fields) == {n \in DOMAIN at : at[n] \in {Key(f) : f \in fields}}

\* Each value without parts in an example of s, with its place.
Shown(s) ==
  UNION {UNION {{[at |-> t.at \o Place(leaf.at), is |-> leaf.is] : leaf \in Leaves(x)}
                  : x \in t.is.examples}
           : t \in {u \in s : "examples" \in DOMAIN u.is}}

Secret(v) == v.k = "str" /\ v # Marker /\ v.s \in HighEntropy

AlwaysDeclared == {f \in UNION Config : \A i \in DOMAIN raw : f \in raw[i].config}

-----------------------------------------------------------------------------
(***************************************************************************)
(* Redaction is exact at any depth, inside arrays and inside declared      *)
(* fields: of each sample every outermost declared field shows the marker  *)
(* and nothing below it, and every value under no declared field is as it  *)
(* came (src/redact.rs, redact_with).                                      *)
(***************************************************************************)
RedactionIsExact ==
  \A i \in DOMAIN samples :
    LET fields == raw[i].config
        body   == raw[i].body
    IN  Leaves(samples[i]) =
          {p \in Leaves(body) : Declared(p.at, fields) = {}} \cup
          {[at |-> p.at, is |-> Marker] :
             p \in {q \in Parts[body] : Declared(q.at, fields) = {Len(q.at)}}}

(***************************************************************************)
(* A field that was declared before the first body is documented, wherever *)
(* it occurs, as a string with the marker for its only example: neither    *)
(* its values nor their type, fields or nulls reach the schema             *)
(* (src/redact.rs with src/infer.rs).                                      *)
(***************************************************************************)
DeclaredShowsMarker ==
  /\ \A t \in schema : Declared(t.at, AlwaysDeclared) # {} =>
       /\ Declared(t.at, AlwaysDeclared) = {Len(t.at)}
       /\ t.is = [type |-> {"string"}, examples |-> {Marker}]
  /\ \A x \in Shown(schema) : Declared(x.at, AlwaysDeclared) # {} => x.is = Marker

(***************************************************************************)
(* Every high-entropy value that an example shows was warned about at the  *)
(* very place where it is shown, and each warning is about a value that is *)
(* still there: never about a redacted one, nor about the marker.  Object  *)
(* keys are no values, and are not scanned (src/redact.rs, scan, with      *)
(* src/infer.rs, add_examples).                                            *)
(***************************************************************************)
WarnedWhereShown ==
  /\ \A x \in Shown(schema) : Secret(x.is) => \E at \in warned : Place(at) = x.at
  /\ \A at \in warned : \E i \in DOMAIN samples : \E leaf \in Leaves(samples[i]) :
       leaf.at = at /\ Secret(leaf.is)

-----------------------------------------------------------------------------
(***************************************************************************)
(* What ties each sample to the body it was, and the warnings to the       *)
(* samples (src/layer.rs, record_side).                                    *)
(***************************************************************************)
SampInv ==
  /\ samples \in Seq(Json)
  /\ config \in Config \cup {{}}
  /\ raw \in Seq([body : Value, config : Config \cup {{}}])
  /\ Len(raw) = Len(samples)
  /\ \A i \in DOMAIN samples : samples[i] = RedactWith(raw[i].config, raw[i].body)
  /\ warned = UNION {Scan[samples[i]] : i \in DOMAIN samples}
=============================================================================
