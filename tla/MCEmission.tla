------------------------------ MODULE MCEmission ------------------------------
(***************************************************************************)
(* A small instance of Emission.  Up to three requests: to one operation   *)
(* with every mix of statuses, bodies and a bearer token; to two with      *)
(* declarations and repeated Authorization headers; and to routes that are *)
(* templated in different ways.  Two emissions to one path, over an older  *)
(* file longer than any document.                                          *)
(***************************************************************************)
EXTENDS Emission, TLC

CONSTANTS s200, s404, v1, v2, t1, t2, Address, street, postbox, me, another, other

MCStatus == {s200, s404}
MCSample == {v1, v2}
MCType   == {t1, t2}
MCScheme == {"bearerAuth", "apiKeyAuth"}
MCName   == {Address}
MCDef    == {street, postbox}
MCDefsOf == (t1 :> {<<Address, street>>}) @@ (t2 :> {<<Address, postbox>>})
MCWriter == {me, another}

segment(form, name) == [form |-> form, name |-> name]
users(form)  == <<segment("plain", "users"), segment(form, "id")>>
auth(value)  == [name |-> "authorization", value |-> value]
accept(value) == [name |-> "accept", value |-> value]

Evidence ==
  {r \in [method : {"GET"}, matched : {users(":")}, headers : {<<>>, <<auth("Bearer")>>},
          status : MCStatus \cup {None}, request : {v1, None}, response : {v1, v2, None},
          declared : {None}] : r.status = None => r.response = None}

Declarations ==
  [method : {"GET"}, matched : {users(":"), <<segment("plain", "healthz")>>},
   headers : {<<auth("text"), auth("Bearer")>>,
              <<accept("binary"), auth("Bearer"), auth("binary")>>},
   status : {s200}, request : {None}, response : {v1}, declared : MCType \cup {None}]

Routes ==
  [method : {"GET", "POST"},
   matched : {users("*"), users("{}"), users("plain"), <<segment("x:", "user_:id")>>,
              <<segment(":", "org"), segment("plain", "users"), segment("*", "id")>>},
   headers : {<<accept("text")>>}, status : {s200}, request : {None}, response : {None},
   declared : {None}]

\* A method of one's own that is a standard one in lower case.
Extension == {[r EXCEPT !.method = "get"] : r \in {q \in Routes : q.matched = users("*")}}

MCLowercase == ("GET" :> "get") @@ ("POST" :> "post") @@ ("get" :> "get")

MCRawRequest == Evidence \cup Declarations \cup Routes \cup Extension
MCInput == {ExchangeOf(r) : r \in MCRawRequest}
MCOp    == {x.op : x \in MCInput}

MCArgument == {[text |-> "-", as |-> "str"], [text |-> "", as |-> "str"],
               [text |-> "-", as |-> "path"], [text |-> "openapi.json", as |-> "str"]}
===============================================================================
