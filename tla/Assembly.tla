------------------------------- MODULE Assembly -------------------------------
(***************************************************************************)
(* src/openapi.rs: build_document folds the collected exchanges, in store  *)
(* order, into per-operation and per-status accumulators, and              *)
(* operation_object reads the document off them.                           *)
(*                                                                         *)
(* One step is one iteration of the loop, over any exchange a snapshot can *)
(* hold.  A map entry made by entry().or_default() is counted in the same  *)
(* iteration, so an entry with a zero count stands for an absent one.      *)
(* A schema is known by what it was made from: the samples it was inferred *)
(* from, or the type a test declared.                                      *)
(***************************************************************************)
EXTENDS Integers, Sequences, FiniteSets

CONSTANTS
  Op,            \* OperationKey: a route template and a method
  Status,        \* response status codes
  Sample,        \* JSON bodies
  Scheme,        \* security schemes, one per component name
  Type,          \* types a test may declare
  Name,          \* names of subschemas that a declared type refers to
  Def,           \* contents of such subschemas
  DefsOf,        \* the named subschemas of a type: [Type -> SUBSET (Name \X Def)]
  None,          \* Option::None
  Input,         \* the exchanges a snapshot may hold
  MaxExchanges   \* bound: length of a snapshot

MIN_SAMPLES_FOR_REQUIRED == 2

Exchanges == [op : Op, status : Status \cup {None},
              request : Sample \cup {None}, response : Sample \cup {None},
              declared : Type \cup {None}, security : Scheme \cup {None}]

ASSUME AssemblyAssumption ==
  /\ Input \subseteq Exchanges
  /\ DefsOf \in [Type -> SUBSET (Name \X Def)]
  /\ \A t \in Type : \A r, q \in DefsOf[t] : r[1] = q[1] => r = q
  /\ None \notin Status \cup Sample \cup Type \cup Scheme \cup Def
  /\ MaxExchanges \in Nat

VARIABLES
  seen,        \* history: the exchanges folded so far
  operations,  \* OperationAcc per operation, without by_status
  byStatus,    \* StatusAcc per operation and status
  schemeDefs,  \* security_scheme_defs: the schemes defined
  components   \* component_schemas: the definition of each name, or None

vars == <<seen, operations, byStatus, schemeDefs, components>>

Init ==
  /\ seen = <<>>
  /\ operations = [o \in Op |-> [requests_observed |-> 0, request_samples |-> <<>>,
                                 security_schemes |-> {}]]
  /\ byStatus = [r \in Op \X Status |->
                   [sample_count |-> 0, json_samples |-> <<>>, declared |-> None]]
  /\ schemeDefs = {}
  /\ components = [n \in Name |-> None]

-----------------------------------------------------------------------------
\* Option<T> as a sequence: pushing it appends the value that is there.
Pushed(s, v) == IF v = None THEN s ELSE Append(s, v)

\* A set with an optional value inserted.
With(S, v) == IF v = None THEN S ELSE S \cup {v}

\* Mutated forms: an operation that counts only the requests with a JSON body;
\* the last declaration winning; a scheme listed on the operation but defined
\* only once per run.
CountsJsonOnly(acc, x) ==
  [requests_observed |-> Len(Pushed(acc.request_samples, x.request)),
   request_samples   |-> Pushed(acc.request_samples, x.request),
   security_schemes  |-> With(acc.security_schemes, x.security)]
LastDeclared(acc, x) ==
  [sample_count |-> acc.sample_count + 1,
   json_samples |-> Pushed(acc.json_samples, x.response),
   declared     |-> x.declared]
DefinesFirstScheme(x) == IF schemeDefs = {} THEN With(schemeDefs, x.security) ELSE schemeDefs

\* What one exchange adds to its operation.
Observe(acc, x) ==
  [requests_observed |-> acc.requests_observed + 1,
   request_samples   |-> Pushed(acc.request_samples, x.request),
   security_schemes  |-> With(acc.security_schemes, x.security)]

\* What it adds to its operation's status: the first declaration stays.
ObserveStatus(acc, x) ==
  [sample_count |-> acc.sample_count + 1,
   json_samples |-> Pushed(acc.json_samples, x.response),
   declared     |-> IF acc.declared = None THEN x.declared ELSE acc.declared]

DefineScheme(x) == With(schemeDefs, x.security)

\* The names an exchange's declaration defines and that are not yet defined.
NewNames(x) == IF x.declared = None THEN {}
               ELSE {n \in Name : components[n] = None /\ \E d \in Def : <<n, d>> \in DefsOf[x.declared]}

\* component_schemas.entry(name).or_insert: the first definition of a name stays.
DefineNames(x) ==
  [n \in Name |-> IF n \in NewNames(x)
                  THEN CHOOSE d \in Def : <<n, d>> \in DefsOf[x.declared]
                  ELSE components[n]]

-----------------------------------------------------------------------------
\* An exchange whose response never came is skipped.
Skip(x) ==
  /\ Len(seen) < MaxExchanges
  /\ x.status = None
  /\ seen' = Append(seen, x)
  /\ UNCHANGED <<operations, byStatus, schemeDefs, components>>

Fold(x) ==
  /\ Len(seen) < MaxExchanges
  /\ x.status # None
  /\ seen' = Append(seen, x)
  /\ operations' = [operations EXCEPT ![x.op] = Observe(@, x)]
  /\ byStatus' = [byStatus EXCEPT ![<<x.op, x.status>>] = ObserveStatus(@, x)]
  /\ schemeDefs' = DefineScheme(x)
  /\ components' = DefineNames(x)

Next == \E x \in Input : Skip(x) \/ Fold(x)

Spec == Init /\ [][Next]_vars

-----------------------------------------------------------------------------
(* The document, read off the accumulators by operation_object and by the  *)
(* end of build_document.                                                  *)

Responses(o) == {st \in Status : byStatus[o, st].sample_count > 0}

NoSchema      == [source |-> "none"]
Declared(t)   == [source |-> "declared", type |-> t]
Inferred(s)   == [source |-> "inferred", samples |-> s]

ResponseSchema(o, st) ==
  LET acc == byStatus[o, st]
  IN  IF acc.declared # None THEN Declared(acc.declared)
      ELSE IF acc.json_samples # <<>> THEN Inferred(acc.json_samples)
      ELSE NoSchema

HasRequestBody(o) == operations[o].request_samples # <<>>

\* Mutated form: required as soon as two JSON bodies have been seen.
RequiredByJson(o) == Len(operations[o].request_samples) >= MIN_SAMPLES_FOR_REQUIRED

RequestRequired(o) ==
  LET acc == operations[o]
  IN  /\ acc.requests_observed >= MIN_SAMPLES_FOR_REQUIRED
      /\ Len(acc.request_samples) = acc.requests_observed

\* Mutated form: a threshold that is off by one.
NoticeAtThreshold ==
  {r \in Op \X Status : byStatus[r].sample_count \in 1..MIN_SAMPLES_FOR_REQUIRED}

\* below_threshold_notice: the pairs observed fewer than MIN times.
Notice ==
  {r \in Op \X Status : byStatus[r].sample_count \in 1..(MIN_SAMPLES_FOR_REQUIRED - 1)}

-----------------------------------------------------------------------------
(* The exchanges themselves, for properties to be stated against.          *)

\* Positions in the snapshot of the exchanges of an operation that are not skipped.
Of(o)       == {i \in DOMAIN seen : seen[i].op = o /\ seen[i].status # None}
At(o, st)   == {i \in DOMAIN seen : seen[i].op = o /\ seen[i].status = st}

OperationAcc == [requests_observed : Nat, request_samples : Seq(Sample),
                 security_schemes : SUBSET Scheme]
StatusAcc    == [sample_count : Nat, json_samples : Seq(Sample),
                 declared : Type \cup {None}]

\* The type invariant of the accumulators; no list outgrows its count.
TypeOK ==
  /\ seen \in Seq(Exchanges)
  /\ operations \in [Op -> OperationAcc]
  /\ byStatus \in [Op \X Status -> StatusAcc]
  /\ schemeDefs \subseteq Scheme
  /\ components \in [Name -> Def \cup {None}]
  /\ \A o \in Op : Len(operations[o].request_samples) <= operations[o].requests_observed
  /\ \A r \in Op \X Status : Len(byStatus[r].json_samples) <= byStatus[r].sample_count

Count(s, v) == Cardinality({i \in DOMAIN s : s[i] = v})

(***************************************************************************)
(* Every sample count in the document is the number of exchanges behind    *)
(* it, JSON or not, and every JSON body of theirs is a sample exactly once *)
(* (src/openapi.rs, x-cyanotype-samples of responses and of requestBody).  *)
(***************************************************************************)
CountsAreEvidence ==
  /\ \A o \in Op :
       /\ operations[o].requests_observed = Cardinality(Of(o))
       /\ \A v \in Sample : Count(operations[o].request_samples, v)
                              = Cardinality({i \in Of(o) : seen[i].request = v})
  /\ \A o \in Op, st \in Status :
       /\ byStatus[o, st].sample_count = Cardinality(At(o, st))
       /\ \A v \in Sample : Count(byStatus[o, st].json_samples, v)
                              = Cardinality({i \in At(o, st) : seen[i].response = v})

(***************************************************************************)
(* A request body is called required only if at least two requests of the  *)
(* operation were observed, over all its statuses, and every one of them   *)
(* carried JSON (src/openapi.rs, "asserted only from N >= 2, and only when *)
(* every observed request carried one").                                   *)
(***************************************************************************)
RequiredIsWarranted ==
  \A o \in Op : HasRequestBody(o) /\ RequestRequired(o) =>
    Cardinality(Of(o)) >= 2 /\ \A i \in Of(o) : seen[i].request # None

(***************************************************************************)
(* The notice names a documented response exactly when it rests on a       *)
(* single exchange (src/openapi.rs, below_threshold_notice).               *)
(***************************************************************************)
NoticeIsExact ==
  \A o \in Op, st \in Status : <<o, st>> \in Notice <=> Cardinality(At(o, st)) = 1

(***************************************************************************)
(* A declaration beats inference whenever any exchange of the operation    *)
(* and status carries one, wherever it stands in the store, and the        *)
(* earliest one is documented (src/exchange.rs, "Takes precedence over     *)
(* inference for this operation+status during assembly").                  *)
(***************************************************************************)
DeclarationWins ==
  \A o \in Op, st \in Status :
    LET declaring == {i \in At(o, st) : seen[i].declared # None}
    IN  declaring # {} =>
          \E i \in declaring : /\ \A j \in declaring : i <= j
                               /\ ResponseSchema(o, st) = Declared(seen[i].declared)

(***************************************************************************)
(* Nothing in the document dangles: the security an operation names is     *)
(* defined, each definition is named by an operation, and every named      *)
(* subschema that a documented type refers to is in components             *)
(* (src/openapi.rs, securitySchemes and component_schemas).                *)
(***************************************************************************)
ReferencesResolve ==
  /\ schemeDefs = UNION {operations[o].security_schemes : o \in Op}
  /\ \A o \in Op, st \in Status :
       ResponseSchema(o, st).source = "declared" =>
         \A r \in DefsOf[ResponseSchema(o, st).type] : components[r[1]] # None

-----------------------------------------------------------------------------
(* The strengthening that makes the properties above inductive.            *)

\* As many JSON bodies as requests: then no request came without one.
AllCarriedJson ==
  \A o \in Op :
    Len(operations[o].request_samples) = operations[o].requests_observed =>
      \A i \in Of(o) : seen[i].request # None

\* The declaration kept for a status is the first of its exchanges', if any.
FirstDeclared ==
  \A o \in Op, st \in Status :
    IF byStatus[o, st].declared = None THEN \A i \in At(o, st) : seen[i].declared = None
    ELSE \E i \in At(o, st) :
           /\ seen[i].declared = byStatus[o, st].declared
           /\ \A j \in At(o, st) : seen[j].declared # None => i <= j

\* Every scheme listed is defined, and every name a kept declaration needs.
AllDefined ==
  /\ schemeDefs = UNION {operations[o].security_schemes : o \in Op}
  /\ \A r \in Op \X Status : byStatus[r].declared # None =>
       \A q \in DefsOf[byStatus[r].declared] : components[q[1]] # None

(***************************************************************************)
(* What the loop of build_document (src/openapi.rs) maintains between the  *)
(* exchanges already folded and the accumulators, at every iteration.      *)
(***************************************************************************)
AssemblyInv == TypeOK /\ CountsAreEvidence /\ AllCarriedJson /\ FirstDeclared /\ AllDefined

-----------------------------------------------------------------------------
(***************************************************************************)
(* SPEC.md section 4.3: the generator warns which operations fall below    *)
(* the threshold, with a constant "shared by the inference rule and the    *)
(* warning that reports on it so the two cannot drift".  A response schema *)
(* inferred from too few samples for `required` is in the notice.          *)
(***************************************************************************)
WithheldIsNoticed ==
  \A o \in Op, st \in Status :
    LET schema == ResponseSchema(o, st)
    IN  schema.source = "inferred" /\ Len(schema.samples) < MIN_SAMPLES_FOR_REQUIRED
          => <<o, st>> \in Notice

(***************************************************************************)
(* src/exchange.rs: the named subschemas a declared type references are    *)
(* "merged into components.schemas".  A documented type's references       *)
(* resolve to its own subschemas.                                          *)
(***************************************************************************)
ReferencesMeanTheSame ==
  \A o \in Op, st \in Status :
    ResponseSchema(o, st).source = "declared" =>
      \A r \in DefsOf[ResponseSchema(o, st).type] : components[r[1]] = r[2]
=============================================================================
