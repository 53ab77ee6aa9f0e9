------------------------------- MODULE Document -------------------------------
(***************************************************************************)
(* The document that build_document of src/openapi.rs makes of what its    *)
(* loop accumulated: path items by route, operations by method, and what   *)
(* operation_object says of each.                                          *)
(***************************************************************************)
EXTENDS Requests

ASSUME DocumentAssumption == \A o \in Op : o = [route |-> o.route, method |-> o.method]

Answered == {o \in Op : operations[o].requests_observed > 0}

OperationObject(o) ==
  [responses |-> [st \in Responses(o) |->
                    [samples |-> byStatus[o, st].sample_count, schema |-> ResponseSchema(o, st)]],
   requestBody |-> IF HasRequestBody(o)
                   THEN [samples  |-> operations[o].request_samples,
                         required |-> RequestRequired(o)]
                   ELSE None,
   parameters |-> PathParameters(o.route),
   security   |-> operations[o].security_schemes]

Methods(route) == {o.method : o \in {p \in Answered : p.route = route}}

\* Mutated form: a path item is made anew for each operation, and keeps one.
OneMethod(route) == {CHOOSE method \in Methods(route) : TRUE}

\* paths.entry(route).or_insert: the operations of one route share a path item.
MethodsOf(route) == Methods(route)

PathItem(route) ==
  [method \in MethodsOf(route) |-> OperationObject([route |-> route, method |-> method])]

Paths == [route \in {o.route : o \in Answered} |-> PathItem(route)]

-----------------------------------------------------------------------------
\* The response of request r is in the document, and its bodies are evidence of it.
Evidenced(paths, r) ==
  LET route  == ToOpenapiTemplate(r.matched)
      method == Lowercase[r.method]
      op     == paths[route][method]
      schema == op.responses[r.status].schema
  IN  /\ route \in DOMAIN paths
      /\ method \in DOMAIN paths[route]
      /\ r.status \in DOMAIN op.responses
      /\ r.response # None \/ r.declared # None => schema # NoSchema
      /\ r.response # None /\ schema.source = "inferred" =>
           \E n \in DOMAIN schema.samples : schema.samples[n] = r.response
      /\ r.request # None =>
           \E n \in DOMAIN op.requestBody.samples : op.requestBody.samples[n] = r.request

\* Request r was answered with status st, by the operation at route and method.
Witness(r, route, method, st) ==
  ToOpenapiTemplate(r.matched) = route /\ Lowercase[r.method] = method /\ r.status = st

(***************************************************************************)
(* Every answered request is in the document, under its route, method and  *)
(* status, with its JSON bodies among the samples that the schemas are     *)
(* inferred from unless a declared type takes their place; and the         *)
(* document has no path, operation or response that no request showed      *)
(* (src/openapi.rs, build_document and operation_object).                  *)
(***************************************************************************)
DocumentIsEvidence ==
  LET paths == Paths
  IN  /\ \A i \in DOMAIN requests : requests[i].status # None => Evidenced(paths, requests[i])
      /\ \A route \in DOMAIN paths : \A method \in DOMAIN paths[route] :
           LET shown == DOMAIN paths[route][method].responses
           IN  shown # {} /\ \A st \in shown :
                 \E i \in DOMAIN requests : Witness(requests[i], route, method, st)
=============================================================================
