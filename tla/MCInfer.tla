------------------------------- MODULE MCInfer -------------------------------
(***************************************************************************)
(* A small instance of Infer: every kind of value, objects with fields     *)
(* missing, null or of differing types, nested objects, and arrays that    *)
(* are empty or hold objects, in up to three samples.                      *)
(***************************************************************************)
EXTENDS Infer, TLC

null     == [k |-> "null"]
str(x)   == [k |-> "str", s |-> x]
int(n)   == [k |-> "int", n |-> n]
float    == [k |-> "float", f |-> "1.5"]
bool     == [k |-> "bool", b |-> TRUE]
arr(vs)  == [k |-> "arr", items |-> vs]
obj(f)   == [k |-> "obj", fields |-> f]

Nothing  == obj(<<>>)
A(v)     == obj("a" :> v)
B(v)     == obj("b" :> v)

MCValue == {
  null, str("x"), int(1), float, bool,
  arr(<<>>), arr(<<int(1)>>), arr(<<null, str("x")>>), arr(<<A(int(1)), A(int(2))>>),
  Nothing, A(int(1)), A(float), A(null), A(str("x")), B(int(1)),
  obj(("a" :> int(2)) @@ ("b" :> null)), A(A(int(1))), A(arr(<<>>)) }

\* A value and all values inside it; how deep it is nested.
RECURSIVE Closure(_)
Closure(v) == {v} \cup UNION {Closure(Children(v)[s]) : s \in DOMAIN Children(v)}

RECURSIVE Nesting(_)
Nesting(v) ==
  LET below == {Nesting(Children(v)[s]) : s \in DOMAIN Children(v)}
  IN  IF below = {} THEN 0 ELSE 1 + (CHOOSE d \in below : \A c \in below : c <= d)

MCJson  == UNION {Closure(v) : v \in MCValue}
MCDepth == [v \in MCJson |-> Nesting(v)]
===============================================================================
