------------------------------- MODULE Requests -------------------------------
(***************************************************************************)
(* From a request as it reaches RecordService to the exchange that         *)
(* Assembly folds: the scheme of its credentials (src/auth.rs,             *)
(* capture_headers), and its route (src/layer.rs, to_openapi_template;     *)
(* src/openapi.rs, path_parameters).  Headers are a sequence in the order  *)
(* of HeaderMap's iterator, which keeps those of one name together, and a  *)
(* value is one of the three classes that capture_headers tells apart; the *)
(* list that it stores is left out, since no part of src/ reads it.        *)
(*                                                                         *)
(* A route is a sequence of segments, a name with one of the forms that    *)
(* the router and the code tell apart: "x:" is a parameter behind a        *)
(* literal prefix (/user_:name), and its name is the whole text.           *)
(***************************************************************************)
EXTENDS Assembly, Lists

CONSTANTS
  RawRequest,   \* the requests that tests make, and what came of them
  Lowercase     \* a method in lower case, of each method

Segment == [form : {":", "*", "{}", "x:", "plain"}, name : STRING]
Header  == [name : STRING, value : {"Bearer", "text", "binary"}]

ASSUME RequestsAssumption ==
  /\ \A r \in RawRequest : r.matched \in Seq(Segment) /\ r.headers \in Seq(Header)
  /\ None \notin {"bearerAuth", "apiKeyAuth"}

VARIABLES
  requests    \* history: the request of each exchange folded

reqVars == <<vars, requests>>

-----------------------------------------------------------------------------
(* capture_headers.                                                        *)

Authorizations(hs) == {i \in DOMAIN hs : hs[i].name = "authorization"}

\* Mutated form: the first Authorization header decides.
FirstDecides(hs) ==
  LET i == CHOOSE n \in Authorizations(hs) : \A m \in Authorizations(hs) : n <= m
  IN  IF Authorizations(hs) = {} THEN None
      ELSE IF hs[i].value = "Bearer" THEN "bearerAuth" ELSE "apiKeyAuth"

\* The scheme of the last Authorization header, bearer or anything else.
SecurityScheme(hs) ==
  LET i == CHOOSE n \in Authorizations(hs) : \A m \in Authorizations(hs) : m <= n
  IN  IF Authorizations(hs) = {} THEN None
      ELSE IF hs[i].value = "Bearer" THEN "bearerAuth" ELSE "apiKeyAuth"

-----------------------------------------------------------------------------
(* Route templates.                                                        *)

\* :id and *rest become {id} and {rest}; what is in braces already looks the
\* same, and a parameter that does not begin its segment stays as it is.
Templated(segment) == segment.form \in {":", "*", "{}"}

ToOpenapiTemplate(matched) ==
  [i \in DOMAIN matched |-> [param |-> Templated(matched[i]), name |-> matched[i].name]]

PathParameters(route) ==
  LET params == Select(route, {n \in DOMAIN route : route[n].param})
  IN  [i \in DOMAIN params |-> params[i].name]

-----------------------------------------------------------------------------
\* Exchange::new, and what was recorded of the exchange since.
ExchangeOf(r) ==
  [op |-> [route |-> ToOpenapiTemplate(r.matched), method |-> Lowercase[r.method]],
   status |-> r.status, request |-> r.request, response |-> r.response,
   declared |-> r.declared, security |-> SecurityScheme(r.headers)]

ASSUME ExchangeAssumption == \A r \in RawRequest : ExchangeOf(r) \in Input

ReqInit == Init /\ requests = <<>>

Recorded(r) ==
  /\ Skip(ExchangeOf(r)) \/ Fold(ExchangeOf(r))
  /\ requests' = Append(requests, r)

ReqNext == \E r \in RawRequest : Recorded(r)

ReqSpec == ReqInit /\ [][ReqNext]_reqVars

-----------------------------------------------------------------------------
\* The last of a request's Authorization headers is a bearer token, or is not.
Presents(r, bearer) ==
  \E i \in Authorizations(r.headers) :
    /\ \A j \in Authorizations(r.headers) : j <= i
    /\ (r.headers[i].value = "Bearer") = bearer

(***************************************************************************)
(* An operation is documented with exactly the schemes that its answered   *)
(* requests presented, in their last Authorization header; an unanswered   *)
(* request adds none (src/auth.rs with src/openapi.rs, security).          *)
(***************************************************************************)
SecurityIsWitnessed ==
  \A o \in Op : \A bearer \in BOOLEAN :
    (IF bearer THEN "bearerAuth" ELSE "apiKeyAuth") \in operations[o].security_schemes
      <=> \E i \in Of(o) : Presents(requests[i], bearer)

-----------------------------------------------------------------------------
(***************************************************************************)
(* What ties the requests to the exchanges folded, and an operation's      *)
(* schemes to its exchanges, at every iteration of build_document's loop   *)
(* (src/openapi.rs).                                                       *)
(***************************************************************************)
ReqInv ==
  /\ requests \in Seq(RawRequest)
  /\ Len(requests) = Len(seen)
  /\ \A i \in DOMAIN seen : seen[i] = ExchangeOf(requests[i])
  /\ \A o \in Op : operations[o].security_schemes = {seen[i].security : i \in Of(o)} \ {None}
=============================================================================
