------------------------------ MODULE MCSampling ------------------------------
(***************************************************************************)
(* A small instance of Sampling: MCInfer's bodies, and bodies with a       *)
(* declared field inside a declared field, under arrays and next to        *)
(* high-entropy strings, in objects, arrays and bare, and the marker.      *)
(***************************************************************************)
EXTENDS Sampling, MCInfer

MCHighEntropy == {REDACTED_VALUE, "token"}

token == str("token")

MCBody == MCValue \cup {
  token, str(REDACTED_VALUE), A(token), B(token), B(A(token)), A(B(token)),
  arr(<<A(token), A(null)>>), B(arr(<<A(arr(<<token>>)), token>>)), A(A(token)) }

MCConfig == {{}, {"a"}}

\* What v may become when the fields "a" in it are redacted, the ones that hold
\* objects or arrays or not.
RECURSIVE Masked(_, _)
Masked(v, deep) ==
  CASE v.k = "obj" ->
         obj([n \in DOMAIN v.fields |->
                IF n = "a" /\ (deep \/ v.fields[n].k \notin {"obj", "arr"})
                THEN str(REDACTED_VALUE) ELSE Masked(v.fields[n], deep)])
    [] v.k = "arr" -> arr([i \in DOMAIN v.items |-> Masked(v.items[i], deep)])
    [] OTHER -> v

MCBodyJson ==
  UNION {Closure(v) \cup Closure(Masked(v, TRUE)) \cup Closure(Masked(v, FALSE)) : v \in MCBody}
MCBodyDepth == [v \in MCBodyJson |-> Nesting(v)]
===============================================================================
