-------------------------------- MODULE Redact --------------------------------
(***************************************************************************)
(* src/redact.rs on one JSON body: redact_with, which replaces the value   *)
(* of every declared field, and scan, which finds the high-entropy strings *)
(* that are left.  What makes a string look high-entropy is left to a set  *)
(* of strings, REDACTED_VALUE among them.                                  *)
(***************************************************************************)
EXTENDS JsonValue

CONSTANT HighEntropy   \* the strings of which looks_high_entropy is true

REDACTED_VALUE == "[cyanotype:redacted]"

Marker == [k |-> "str", s |-> REDACTED_VALUE]

ASSUME RedactAssumption == REDACTED_VALUE \in HighEntropy /\ Marker \in Json

\* Mutated form: a declared field that holds an object or an array is entered.
RedactScalar(config, name, v, entered) ==
  IF name \in config /\ v.k \notin {"obj", "arr"} THEN Marker ELSE entered

\* A declared field shows the marker and is not entered; any other one is.
RedactField(config, name, v, entered) == IF name \in config THEN Marker ELSE entered

RedactWith(config, v) ==
  LET redact[u \in Json] ==
        CASE u.k = "obj" ->
               [k |-> "obj",
                fields |-> [name \in DOMAIN u.fields |->
                  RedactField(config, name, u.fields[name], redact[u.fields[name]])]]
          [] u.k = "arr" ->
               [k |-> "arr", items |-> [i \in DOMAIN u.items |-> redact[u.items[i]]]]
          [] OTHER -> u
  IN  redact[v]

Warns(v) == v.k = "str" /\ v # Marker /\ v.s \in HighEntropy

\* The locations in v that scan warns about.
Scan[v \in Json] ==
  (IF Warns(v) THEN {<<>>} ELSE {})
    \cup UNION {{<<s>> \o at : at \in Scan[Children(v)[s]]} : s \in DOMAIN Children(v)}
===============================================================================
