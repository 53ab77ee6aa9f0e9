------------------------------ MODULE JsonValue ------------------------------
(***************************************************************************)
(* serde_json::Value as src/redact.rs and src/infer.rs walk it: a record   *)
(* with a kind k; the fields of an object are a function from names, the   *)
(* items of an array a sequence.  A location is a sequence of steps, each  *)
(* to a field or to an item.                                               *)
(***************************************************************************)
EXTENDS Lists

CONSTANTS
  Json,    \* the values that occur in bodies, with their parts
  Depth    \* how deep each of them is nested

Kind == {"null", "str", "bool", "int", "float", "obj", "arr"}

Key(name) == <<"key", name>>
Index(i)  == <<"index", i - 1>>   \* Rust counts from 0

\* The values directly inside v, by the step that leads to each.
Children(v) ==
  CASE v.k = "obj" -> [s \in {Key(name) : name \in DOMAIN v.fields} |-> v.fields[s[2]]]
    [] v.k = "arr" -> [s \in {Index(i) : i \in DOMAIN v.items} |-> v.items[s[2] + 1]]
    [] OTHER       -> [s \in {} |-> v]

\* A value is built from its children, and is a tree of finite depth.
ASSUME JsonAssumption ==
  /\ Depth \in [Json -> Nat]
  /\ \A v \in Json :
       /\ v.k \in Kind
       /\ v.k = "obj" =>
            v = [k |-> "obj", fields |-> [name \in DOMAIN v.fields |-> v.fields[name]]]
       /\ v.k = "arr" => v.items \in Seq(Json) /\ v = [k |-> "arr", items |-> v.items]
       /\ \A s \in DOMAIN Children(v) :
            Children(v)[s] \in Json /\ Depth[Children(v)[s]] < Depth[v]

-----------------------------------------------------------------------------
Here(x) == {[at |-> <<>>, is |-> x]}
Under(step, S) == {[at |-> <<step>> \o p.at, is |-> p.is] : p \in S}

\* Every value inside v and v itself, each with its location.
Parts[v \in Json] ==
  Here(v) \cup UNION {Under(s, Parts[Children(v)[s]]) : s \in DOMAIN Children(v)}

Leaves(v) == {p \in Parts[v] : DOMAIN Children(p.is) = {}}

\* A schema does not tell the items of an array apart.
Element == <<"items">>
PlaceOf(step) == IF step[1] = "index" THEN Element ELSE step
Place(at) == [n \in DOMAIN at |-> PlaceOf(at[n])]
===============================================================================
