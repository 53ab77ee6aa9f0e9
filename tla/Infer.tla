-------------------------------- MODULE Infer --------------------------------
(***************************************************************************)
(* src/infer.rs: infer_schema and its helpers, over a sequence of samples  *)
(* that grows one recorded body at a time.                                 *)
(*                                                                         *)
(* A schema is the set of its subschemas, itself among them, each with its *)
(* place: the steps to it through "properties" and "items".  A subschema   *)
(* is the record of its keywords: an absent keyword is an absent field,    *)
(* "type" and "examples" hold sets, and "properties" the names.            *)
(***************************************************************************)
EXTENDS JsonValue, FiniteSets

CONSTANTS
  Value,         \* the bodies that may be recorded
  MAX_EXAMPLES,  \* how many examples a schema shows
  MaxSamples     \* bound: samples of one operation and status

ASSUME InferAssumption ==
  Value \subseteq Json /\ MAX_EXAMPLES \in Nat \ {0} /\ MaxSamples \in Nat

VARIABLES samples   \* the argument of infer_schema

MIN_SAMPLES_FOR_REQUIRED == 2

NonNull(vs) == Select(vs, {i \in DOMAIN vs : vs[i].k # "null"})
AllOf(vs, k) == \A i \in DOMAIN vs : vs[i].k = k

-----------------------------------------------------------------------------
(* Primitive types, examples and null.                                     *)

NoType == "none"   \* Option::None of common_primitive_type

PrimitiveTypeOf(v) ==
  CASE v.k = "str"   -> "string"
    [] v.k = "bool"  -> "boolean"
    [] v.k = "int"   -> "integer"
    [] v.k = "float" -> "number"
    [] OTHER         -> NoType

\* Mutated form: an integer after a float is taken for a disagreement.
WidenForward(kind, this) ==
  CASE kind = this -> kind
    [] kind = "integer" /\ this = "number" -> "number"
    [] OTHER -> NoType

\* One round of the loop: integer and number widen to number.
Widen(kind, this) ==
  CASE kind = this -> kind
    [] {kind, this} = {"integer", "number"} -> "number"
    [] OTHER -> NoType

\* None is final, from a value that is no primitive or from a disagreement.
CommonPrimitiveType(vs) ==
  LET kind[n \in 1..Len(vs)] ==
        IF n = 1 THEN PrimitiveTypeOf(vs[1])
        ELSE Widen(kind[n - 1], PrimitiveTypeOf(vs[n]))
  IN  kind[Len(vs)]

\* The first MAX_EXAMPLES distinct values: those with fewer before them.
Examples(vs) ==
  {vs[i] : i \in {j \in DOMAIN vs : Cardinality({vs[m] : m \in 1..(j - 1)}) < MAX_EXAMPLES}}

\* A schema without a type gets one: the type list of null alone.
MakeNullable(keywords) ==
  [w \in DOMAIN keywords \cup {"type"} |->
     IF w # "type" THEN keywords[w]
     ELSE IF "type" \in DOMAIN keywords THEN keywords.type \cup {"null"} ELSE {"null"}]

-----------------------------------------------------------------------------
(* infer_schema.                                                           *)

KeysOf(objs) == UNION {DOMAIN objs[i].fields : i \in DOMAIN objs}

\* Mutated form: a field that an object lacks is read as null.
ValuesOrNull(objs, key) ==
  [i \in DOMAIN objs |-> IF key \in DOMAIN objs[i].fields THEN objs[i].fields[key]
                         ELSE [k |-> "null"]]

\* The values of a key, in sample order, of the objects that have it.
ValuesOf(objs, key) ==
  LET having == Select(objs, {i \in DOMAIN objs : key \in DOMAIN objs[i].fields})
  IN  [i \in DOMAIN having |-> having[i].fields[key]]

ElementsOf(arrs) == Concatenated([i \in DOMAIN arrs |-> arrs[i].items])

\* Mutated forms: required once two objects have the field; required at N = 1.
RequiredIfTwice(objs, key) ==
  Cardinality({i \in DOMAIN objs : key \in DOMAIN objs[i].fields}) >= MIN_SAMPLES_FOR_REQUIRED
RequiredAtOne(objs, key) == \A i \in DOMAIN objs : key \in DOMAIN objs[i].fields

\* Present in every one of at least two objects.
IsRequired(objs, key) ==
  /\ Len(objs) >= MIN_SAMPLES_FOR_REQUIRED
  /\ \A i \in DOMAIN objs : key \in DOMAIN objs[i].fields

\* The keywords of infer_object, infer_array, infer_primitive and mixed shapes.
NonNullKeywords(vs) ==
  CASE AllOf(vs, "obj") ->
         [type |-> {"object"}, properties |-> KeysOf(vs),
          required |-> {key \in KeysOf(vs) : IsRequired(vs, key)}]
    [] AllOf(vs, "arr") -> [type |-> {"array"}]
    [] OTHER ->
         LET type == CommonPrimitiveType(vs)
         IN  IF type # NoType THEN [type |-> {type}, examples |-> Examples(vs)]
             ELSE [examples |-> Examples(vs)]

Keywords(vs) ==
  LET found == NonNull(vs)
  IN  CASE found = <<>> -> [type |-> {"null"}]
        [] found # <<>> /\ Len(found) < Len(vs) -> MakeNullable(NonNullKeywords(found))
        [] OTHER -> NonNullKeywords(found)

\* The samples of each subschema that infer_object or infer_array calls for.
SubSamples(vs) ==
  LET found == NonNull(vs)
  IN  CASE found = <<>> -> [step \in {} |-> vs]
        [] found # <<>> /\ AllOf(found, "obj") ->
             [step \in {Key(name) : name \in KeysOf(found)} |-> ValuesOf(found, step[2])]
        [] found # <<>> /\ AllOf(found, "arr") -> [step \in {Element} |-> ElementsOf(found)]
        [] OTHER -> [step \in {} |-> vs]

InferSchema[vs \in Seq(Json)] ==
  LET below == SubSamples(vs)
  IN  Here(Keywords(vs)) \cup UNION {Under(step, InferSchema[below[step]]) : step \in DOMAIN below}

-----------------------------------------------------------------------------
Init == samples = <<>>
Sampled(v) == Len(samples) < MaxSamples /\ samples' = Append(samples, v)
Next == \E v \in Value : Sampled(v)
Spec == Init /\ [][Next]_samples

schema == InferSchema[samples]

-----------------------------------------------------------------------------
(* What a schema means (JSON Schema 2020-12) and what was observed.        *)

TypesOf(v) ==
  CASE v.k = "null" -> {"null"}  [] v.k = "obj" -> {"object"} [] v.k = "arr" -> {"array"}
    [] v.k = "int" -> {"integer", "number"} [] OTHER -> {PrimitiveTypeOf(v)}

\* A value satisfies the keywords of a subschema itself.
Satisfies(v, keywords) ==
  /\ "type" \in DOMAIN keywords => keywords.type \cap TypesOf(v) # {}
  /\ v.k = "obj" /\ "required" \in DOMAIN keywords => keywords.required \subseteq DOMAIN v.fields

\* So do all values inside it, wherever the schema has a subschema.
Validates(v, s) == \A p \in Parts[v] : \A t \in s : t.at = Place(p.at) => Satisfies(p.is, t.is)

\* The same schema without its examples.
Assertions(s) ==
  {[at |-> t.at, is |-> [w \in DOMAIN t.is \ {"examples"} |-> t.is[w]]] : t \in s}

\* Every value that the samples in vs have at a place, with its sample.
SeenAt(vs, place) ==
  {o \in UNION {{<<i, p>> : p \in Parts[vs[i]]} : i \in DOMAIN vs} : Place(o[2].at) = place}

\* make_nullable's answer to values that have no common type.
MixedAndNull(keywords) ==
  "examples" \in DOMAIN keywords /\ "type" \in DOMAIN keywords /\ keywords.type = {"null"}

(***************************************************************************)
(* Every recorded body validates against the schema inferred from them,    *)
(* objects, arrays, missing fields and nulls at any depth, unless values   *)
(* of no common type were observed together with a null (src/infer.rs,     *)
(* infer_schema; the exception is what EverySampleDescribed's run finds).  *)
(***************************************************************************)
SamplesValidateUnlessMixed ==
  (\A t \in schema : ~MixedAndNull(t.is)) =>
    \A i \in DOMAIN samples : Validates(samples[i], schema)

(***************************************************************************)
(* The store's order is a race between tests, and no assertion of a schema *)
(* depends on it; only examples do (src/infer.rs with src/store.rs).       *)
(***************************************************************************)
OrderAssertsNothing ==
  \A i, j \in DOMAIN samples : i < j =>
    Assertions(schema)
      = Assertions(InferSchema[[samples EXCEPT ![i] = samples[j], ![j] = samples[i]]])

(***************************************************************************)
(* A field is required at some depth only if at least two objects were     *)
(* observed at that very place and all of them had it (src/infer.rs,       *)
(* infer_object, "required only at N >= 2").                               *)
(***************************************************************************)
RequiredIsObserved ==
  \A t \in schema : "required" \in DOMAIN t.is /\ t.is.required # {} =>
    LET objs == {o \in SeenAt(samples, t.at) : o[2].is.k = "obj"}
    IN  /\ \E a, b \in objs : a # b
        /\ \A o \in objs : t.is.required \subseteq DOMAIN o[2].is.fields

(***************************************************************************)
(* Null is never inferred from an absent field, at any depth: a type list  *)
(* has it only where a null was observed, if any value was; the elements   *)
(* of arrays that were all empty are the exception, which is what          *)
(* NullOnEvidence's run finds (src/infer.rs, "nullable only on positive    *)
(* evidence").                                                             *)
(***************************************************************************)
NullOnEvidenceOrEmpty ==
  \A t \in schema : "type" \in DOMAIN t.is /\ "null" \in t.is.type =>
    \/ SeenAt(samples, t.at) = {}
    \/ \E o \in SeenAt(samples, t.at) : o[2].is.k = "null"

Root(s) == (CHOOSE t \in s : t.at = <<>>).is

(***************************************************************************)
(* Union the properties, intersect the required: from two objects on, one  *)
(* more body never removes a property and never adds a requirement         *)
(* (SPEC.md section 4.3, infer_object of src/infer.rs).                    *)
(***************************************************************************)
UnionAndIntersect ==
  [][Len(samples) >= 2 /\ AllOf(samples', "obj") =>
       /\ Root(schema).properties \subseteq Root(schema').properties
       /\ Root(schema').required \subseteq Root(schema).required]_samples

-----------------------------------------------------------------------------
(***************************************************************************)
(* src/infer.rs promises a "JSON Schema fragment describing every sample   *)
(* in samples".  Every sample validates against it.                        *)
(***************************************************************************)
EverySampleDescribed == \A i \in DOMAIN samples : Validates(samples[i], schema)

(***************************************************************************)
(* Null "on positive evidence only -- a null was observed.  Never inferred *)
(* from absence" (SPEC.md section 4.3), once there are samples to infer    *)
(* from at all, as build_document sees to.                                 *)
(***************************************************************************)
NullOnEvidence ==
  samples # <<>> => \A t \in schema : "type" \in DOMAIN t.is /\ "null" \in t.is.type =>
    \E o \in SeenAt(samples, t.at) : o[2].is.k = "null"
=============================================================================
