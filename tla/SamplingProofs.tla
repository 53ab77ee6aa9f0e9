---------------------------- MODULE SamplingProofs ----------------------------
(***************************************************************************)
(* Proofs about Sampling, for bodies of any depth, any number of samples   *)
(* and any configurations: what redaction and scan do to a body, and what  *)
(* the schema of the samples says.                                         *)
(***************************************************************************)
EXTENDS Sampling, InferProofs, FiniteSetTheorems

-----------------------------------------------------------------------------
(* scan.                                                                   *)

Locations == Seq(Steps)

Prefixed(s, S) == {<<s>> \o at : at \in S}

LEMMA InPrefixed ==
  ASSUME NEW s, NEW S, NEW at
  PROVE  at \in Prefixed(s, S) <=> \E b \in S : at = <<s>> \o b
BY DEF Prefixed

\* What scan finds in v, if found has what it finds in the children.
ScanNext(found, v) ==
  (IF Warns(v) THEN {<<>>} ELSE {})
    \cup UNION {Prefixed(s, found[Children(v)[s]]) : s \in DOMAIN Children(v)}

Finds(at, found, v) ==
  \/ at = <<>> /\ Warns(v)
  \/ \E s \in DOMAIN Children(v) : \E b \in found[Children(v)[s]] : at = <<s>> \o b

LEMMA InScanNext ==
  ASSUME NEW v, NEW found, NEW at
  PROVE  at \in ScanNext(found, v) <=> Finds(at, found, v)
<1>1. at \in (IF Warns(v) THEN {<<>>} ELSE {}) <=> at = <<>> /\ Warns(v)
  OBVIOUS
<1>2. at \in UNION {Prefixed(s, found[Children(v)[s]]) : s \in DOMAIN Children(v)} <=>
        \E s \in DOMAIN Children(v) : at \in Prefixed(s, found[Children(v)[s]])
  OBVIOUS
<1>3. \A s : at \in Prefixed(s, found[Children(v)[s]]) <=>
        \E b \in found[Children(v)[s]] : at = <<s>> \o b
  BY InPrefixed
<1>4. at \in ScanNext(found, v) <=>
        \/ at \in (IF Warns(v) THEN {<<>>} ELSE {})
        \/ at \in UNION {Prefixed(s, found[Children(v)[s]]) : s \in DOMAIN Children(v)}
  BY DEF ScanNext
<1>5. QED
  BY <1>1, <1>2, <1>3, <1>4 DEF Finds

LEMMA ScanNextIn ==
  ASSUME NEW v \in Json, NEW found, \A s \in DOMAIN Children(v) : found[Children(v)[s]] \subseteq Locations
  PROVE  ScanNext(found, v) \subseteq Locations
<1> SUFFICES ASSUME NEW at \in ScanNext(found, v) PROVE at \in Locations
  OBVIOUS
<1>1. <<>> \in Locations
  BY DEF Locations
<1>2. ASSUME NEW s \in DOMAIN Children(v), NEW b \in found[Children(v)[s]], at = <<s>> \o b
      PROVE  at \in Locations
  <2>1. s \in Steps /\ b \in Seq(Steps)
    BY <1>2, ChildOf DEF Locations
  <2>2. QED
    BY <1>2, <2>1, FrontStep DEF Locations
<1>3. Finds(at, found, v)
  BY InScanNext
<1>4. QED
  BY <1>1, <1>2, <1>3 DEF Finds

LEMMA ScanDefined ==
  /\ \A v \in Json : Scan[v] = ScanNext(Scan, v)
  /\ \A v \in Json : Scan[v] \subseteq Locations
<1> DEFINE X == SUBSET Locations
           F == [p \in [Json -> X] \X Json |-> ScanNext(p[1], p[2])]
           Recursive(f) == f = [v \in Json |->
             (IF Warns(v) THEN {<<>>} ELSE {})
               \cup UNION {{<<s>> \o at : at \in f[Children(v)[s]]} : s \in DOMAIN Children(v)}]
<1>1. ASSUME NEW g \in [Json -> X], NEW v \in Json PROVE ScanNext(g, v) \in X
  <2>1. \A s \in DOMAIN Children(v) : g[Children(v)[s]] \subseteq Locations
    BY ChildOf
  <2>2. QED
    BY <2>1, ScanNextIn
<1> HIDE DEF X
<1>2. F \in [[Json -> X] \X Json -> X] /\ \A g \in [Json -> X] : \A v \in Json : F[<<g, v>>] = ScanNext(g, v)
  BY <1>1
<1> HIDE DEF F
<1>3. Local(Json, Depth, X, F)
  <2>1. ASSUME NEW v \in Json, NEW g \in [Json -> X], NEW h \in [Json -> X],
               \A u \in Json : Depth[u] < Depth[v] => g[u] = h[u]
        PROVE  F[<<g, v>>] = F[<<h, v>>]
    <3>1. \A s \in DOMAIN Children(v) : g[Children(v)[s]] = h[Children(v)[s]]
      BY <2>1, ChildOf
    <3>2. {Prefixed(s, g[Children(v)[s]]) : s \in DOMAIN Children(v)} =
          {Prefixed(s, h[Children(v)[s]]) : s \in DOMAIN Children(v)}
      BY <3>1
    <3>3. ScanNext(g, v) = ScanNext(h, v)
      BY <3>2 DEF ScanNext
    <3>4. QED
      BY <1>2, <3>3
  <2>2. QED
    BY <1>2, <2>1, JsonAssumption DEF Local
<1>4. PICK f : Solves(f, Json, X, F)
  <2>1. X # {}
    BY DEF X
  <2>2. QED
    BY <1>3, <2>1, Recursion
<1>5. f \in [Json -> X] /\ \A v \in Json : f[v] = ScanNext(f, v)
  BY <1>2, <1>4 DEF Solves
<1>6. Recursive(f)
  BY <1>5 DEF ScanNext, Prefixed
<1>7. Recursive(Scan)
  BY <1>6 DEF Scan
<1>8. \A v \in Json : Scan[v] = ScanNext(Scan, v)
  BY <1>7 DEF ScanNext, Prefixed
<1>9. \A v \in Json : Scan[v] \subseteq Locations
  <2> DEFINE S == {v \in Json : Scan[v] \subseteq Locations}
  <2>1. ASSUME NEW v \in Json, \A s \in DOMAIN Children(v) : Children(v)[s] \in S
        PROVE  v \in S
    <3>1. \A s \in DOMAIN Children(v) : Scan[Children(v)[s]] \subseteq Locations
      BY <2>1
    <3>2. ScanNext(Scan, v) \subseteq Locations
      BY <3>1, ScanNextIn
    <3>3. QED
      BY <1>8, <3>2
  <2> HIDE DEF S
  <2>2. \A v \in Json : v \in S
    BY <2>1, JsonInduction
  <2>3. QED
    BY <2>2 DEF S
<1>10. QED
  BY <1>8, <1>9

\* scan warns about the parts of a body that are high-entropy strings.
LEMMA ScanFinds ==
  \A v \in Json : \A at : at \in Scan[v] <=> \E p \in Parts[v] : p.at = at /\ Warns(p.is)
<1> DEFINE S == {v \in Json : \A at : at \in Scan[v] <=> \E p \in Parts[v] : p.at = at /\ Warns(p.is)}
<1>1. ASSUME NEW v \in Json, \A s \in DOMAIN Children(v) : Children(v)[s] \in S
      PROVE  v \in S
  <2> SUFFICES ASSUME NEW at
               PROVE  at \in Scan[v] <=> \E p \in Parts[v] : p.at = at /\ Warns(p.is)
    OBVIOUS
  <2>1. at \in Scan[v] <=>
          \/ at = <<>> /\ Warns(v)
          \/ \E s \in DOMAIN Children(v) : \E b \in Scan[Children(v)[s]] : at = <<s>> \o b
    <3>1. Scan[v] = ScanNext(Scan, v)
      BY ScanDefined
    <3>2. at \in ScanNext(Scan, v) <=> Finds(at, Scan, v)
      BY InScanNext
    <3>3. QED
      BY <3>1, <3>2 DEF Finds
  <2>2. ASSUME at \in Scan[v] PROVE \E p \in Parts[v] : p.at = at /\ Warns(p.is)
    <3>1. CASE at = <<>> /\ Warns(v)
      <4>1. PICK p : p = [at |-> <<>>, is |-> v]
        OBVIOUS
      <4>2. p \in Parts[v] /\ p.at = at /\ Warns(p.is)
        BY <3>1, <4>1, ItselfIsPart
      <4>3. QED
        BY <4>2
    <3>2. ASSUME NEW s \in DOMAIN Children(v), NEW b \in Scan[Children(v)[s]], at = <<s>> \o b
          PROVE  \E p \in Parts[v] : p.at = at /\ Warns(p.is)
      <4>1. PICK q \in Parts[Children(v)[s]] : q.at = b /\ Warns(q.is)
        BY <1>1
      <4>2. Behind(s, q) \in Parts[v] /\ Behind(s, q).at = at /\ Behind(s, q).is = q.is
        BY <3>2, <4>1, BehindShape
      <4>3. QED
        BY <4>1, <4>2
    <3>3. QED
      BY <2>1, <2>2, <3>1, <3>2
  <2>3. ASSUME NEW p \in Parts[v], p.at = at, Warns(p.is) PROVE at \in Scan[v]
    <3>1. CASE p = [at |-> <<>>, is |-> v]
      BY <2>1, <2>3, <3>1
    <3>2. ASSUME NEW s \in DOMAIN Children(v), NEW q \in Parts[Children(v)[s]], p = Behind(s, q)
          PROVE  at \in Scan[v]
      <4>1. p.is = q.is /\ p.at = <<s>> \o q.at
        BY <3>2, BehindShape
      <4>2. q.at \in Scan[Children(v)[s]]
        BY <1>1, <2>3, <4>1
      <4>3. QED
        BY <2>1, <2>3, <4>1, <4>2
    <3>3. QED
      BY <3>1, <3>2, PartsUnfold
  <2>4. QED
    BY <2>2, <2>3
<1> HIDE DEF S
<1>2. \A v \in Json : v \in S
  BY <1>1, JsonInduction
<1>3. QED
  BY <1>2 DEF S

-----------------------------------------------------------------------------
(* redact_with is defined for all values.                                  *)

\* What redaction makes of u, if g has what it makes of its children.
Redacts(c, g, u) ==
  CASE u.k = "obj" ->
         [k |-> "obj",
          fields |-> [name \in DOMAIN u.fields |->
            RedactField(c, name, u.fields[name], g[u.fields[name]])]]
    [] u.k = "arr" ->
         [k |-> "arr", items |-> [i \in DOMAIN u.items |-> g[u.items[i]]]]
    [] OTHER -> u

LEMMA RedactsObject ==
  ASSUME NEW c, NEW g, NEW u, u.k = "obj"
  PROVE  Redacts(c, g, u) =
           [k |-> "obj",
            fields |-> [name \in DOMAIN u.fields |->
              RedactField(c, name, u.fields[name], g[u.fields[name]])]]
BY DEF Redacts

LEMMA RedactsArray ==
  ASSUME NEW c, NEW g, NEW u, u.k = "arr"
  PROVE  Redacts(c, g, u) = [k |-> "arr", items |-> [i \in DOMAIN u.items |-> g[u.items[i]]]]
BY DEF Redacts

LEMMA RedactsOther ==
  ASSUME NEW c, NEW g, NEW u, u.k \notin {"obj", "arr"}
  PROVE  Redacts(c, g, u) = u
BY DEF Redacts

\* Only what g makes of the children matters.
LEMMA RedactsLocal ==
  ASSUME NEW c, NEW u \in Json, NEW g, NEW h,
         \A s \in DOMAIN Children(u) : g[Children(u)[s]] = h[Children(u)[s]]
  PROVE  Redacts(c, g, u) = Redacts(c, h, u)
<1>1. CASE u.k = "obj"
  <2>1. \A name \in DOMAIN u.fields : g[u.fields[name]] = h[u.fields[name]]
    BY <1>1, ChildrenOfObject
  <2>2. [name \in DOMAIN u.fields |-> RedactField(c, name, u.fields[name], g[u.fields[name]])]
        = [name \in DOMAIN u.fields |-> RedactField(c, name, u.fields[name], h[u.fields[name]])]
    BY <2>1
  <2>3. QED
    BY <1>1, <2>2, RedactsObject
<1>2. CASE u.k = "arr"
  <2>1. \A i \in DOMAIN u.items : g[u.items[i]] = h[u.items[i]]
    BY <1>2, ChildrenOfArray
  <2>2. [i \in DOMAIN u.items |-> g[u.items[i]]] = [i \in DOMAIN u.items |-> h[u.items[i]]]
    BY <2>1
  <2>3. QED
    BY <1>2, <2>2, RedactsArray
<1>3. CASE u.k \notin {"obj", "arr"}
  BY <1>3, RedactsOther
<1>4. QED
  BY <1>1, <1>2, <1>3

\* f is a redaction of the values that are nested less than n deep.
RedactsBelow(c, f, n) == \A u \in Json : Depth[u] < n => f[u] = Redacts(c, f, u)

LEMMA RedactionsAgree ==
  ASSUME NEW c, NEW f, NEW g, NEW n \in Nat, RedactsBelow(c, f, n), RedactsBelow(c, g, n)
  PROVE  \A u \in Json : Depth[u] < n => f[u] = g[u]
<1> DEFINE S == {u \in Json : Depth[u] < n => f[u] = g[u]}
<1>1. ASSUME NEW u \in Json, \A s \in DOMAIN Children(u) : Children(u)[s] \in S
      PROVE  u \in S
  <2> SUFFICES ASSUME Depth[u] < n PROVE f[u] = g[u]
    OBVIOUS
  <2>1. ASSUME NEW s \in DOMAIN Children(u) PROVE f[Children(u)[s]] = g[Children(u)[s]]
    <3>1. /\ Children(u)[s] \in Json /\ Depth[u] \in Nat
          /\ Depth[Children(u)[s]] \in Nat /\ Depth[Children(u)[s]] < Depth[u]
      BY ChildOf
    <3>2. Depth[Children(u)[s]] < n
      BY <3>1
    <3>3. QED
      BY <1>1, <3>2
  <2>2. Redacts(c, f, u) = Redacts(c, g, u)
    BY <2>1, RedactsLocal
  <2>3. QED
    BY <2>2 DEF RedactsBelow
<1> HIDE DEF S
<1>2. \A u \in Json : u \in S
  BY <1>1, JsonInduction
<1>3. QED
  BY <1>2 DEF S

LEMMA RedactionBelow ==
  ASSUME NEW c
  PROVE  \A n \in Nat : \E f : RedactsBelow(c, f, n)
<1> DEFINE T == {n \in Nat : \E f : RedactsBelow(c, f, n)}
<1>1. 0 \in T
  <2>1. \A u \in Json : ~(Depth[u] < 0)
    BY ChildOf
  <2>2. \A f : RedactsBelow(c, f, 0)
    BY <2>1 DEF RedactsBelow
  <2>3. QED
    BY <2>2
<1>2. ASSUME NEW n \in Nat, n \in T PROVE n + 1 \in T
  <2>1. PICK f : RedactsBelow(c, f, n)
    BY <1>2
  <2>2. PICK g : g = [u \in Json |-> Redacts(c, f, u)]
    OBVIOUS
  <2>3. ASSUME NEW u \in Json, Depth[u] < n + 1 PROVE g[u] = Redacts(c, g, u)
    <3>1. ASSUME NEW s \in DOMAIN Children(u) PROVE f[Children(u)[s]] = g[Children(u)[s]]
      <4>1. /\ Children(u)[s] \in Json /\ Depth[u] \in Nat
            /\ Depth[Children(u)[s]] \in Nat /\ Depth[Children(u)[s]] < Depth[u]
        BY ChildOf
      <4>2. Depth[Children(u)[s]] < n
        BY <2>3, <4>1
      <4>3. f[Children(u)[s]] = Redacts(c, f, Children(u)[s])
        BY <2>1, <4>1, <4>2 DEF RedactsBelow
      <4>4. g[Children(u)[s]] = Redacts(c, f, Children(u)[s])
        BY <2>2, <4>1
      <4>5. QED
        BY <4>3, <4>4
    <3>2. Redacts(c, f, u) = Redacts(c, g, u)
      BY <3>1, RedactsLocal
    <3>3. g[u] = Redacts(c, f, u)
      BY <2>2
    <3>4. QED
      BY <3>2, <3>3
  <2>4. RedactsBelow(c, g, n + 1)
    BY <2>3 DEF RedactsBelow
  <2>5. QED
    BY <2>4
<1> HIDE DEF T
<1>3. \A n \in Nat : n \in T
  BY <1>1, <1>2, Induction
<1>4. QED
  BY <1>3 DEF T

LEMMA RedactWithDefined ==
  ASSUME NEW c
  PROVE  \E f : /\ \A v \in Json : f[v] = Redacts(c, f, v)
                /\ \A v \in Json : RedactWith(c, v) = f[v]
<1> DEFINE Shallower(n) == CHOOSE f : RedactsBelow(c, f, n)
           f == [u \in Json |-> Shallower(Depth[u] + 1)[u]]
           Recursive(g) == g = [u \in Json |->
             CASE u.k = "obj" ->
                    [k |-> "obj",
                     fields |-> [name \in DOMAIN u.fields |->
                       RedactField(c, name, u.fields[name], g[u.fields[name]])]]
               [] u.k = "arr" ->
                    [k |-> "arr", items |-> [i \in DOMAIN u.items |-> g[u.items[i]]]]
               [] OTHER -> u]
           redact == CHOOSE g : Recursive(g)
<1>1. \A n \in Nat : RedactsBelow(c, Shallower(n), n)
  BY RedactionBelow
<1> HIDE DEF Shallower
<1>2. ASSUME NEW u \in Json PROVE f[u] = Redacts(c, f, u)
  <2>1. Depth[u] \in Nat /\ Depth[u] + 1 \in Nat /\ Depth[u] < Depth[u] + 1
    BY ChildOf
  <2>2. PICK g : g = Shallower(Depth[u] + 1)
    OBVIOUS
  <2>3. RedactsBelow(c, g, Depth[u] + 1)
    BY <1>1, <2>1, <2>2
  <2>4. ASSUME NEW s \in DOMAIN Children(u) PROVE g[Children(u)[s]] = f[Children(u)[s]]
    <3>1. /\ Children(u)[s] \in Json
          /\ Depth[Children(u)[s]] \in Nat /\ Depth[Children(u)[s]] < Depth[u]
      BY ChildOf
    <3>2. PICK x \in Json : x = Children(u)[s]
      BY <3>1
    <3>3. PICK h : h = Shallower(Depth[x] + 1)
      OBVIOUS
    <3>4. Depth[x] + 1 \in Nat /\ Depth[x] < Depth[x] + 1
      BY <3>1, <3>2
    <3>5. RedactsBelow(c, h, Depth[x] + 1)
      BY <1>1, <3>3, <3>4
    <3>6. RedactsBelow(c, g, Depth[x] + 1)
      <4>1. \A w \in Json : Depth[w] \in Nat
        BY ChildOf
      <4>2. \A w \in Json : Depth[w] < Depth[x] + 1 => Depth[w] < Depth[u] + 1
        BY <2>1, <3>1, <3>2, <4>1
      <4>3. QED
        BY <2>3, <4>2 DEF RedactsBelow
    <3>7. g[x] = h[x]
      BY <3>4, <3>5, <3>6, RedactionsAgree
    <3>8. f[x] = h[x]
      BY <3>3
    <3>9. QED
      BY <3>2, <3>7, <3>8
  <2> HIDE DEF f
  <2>5. Redacts(c, g, u) = Redacts(c, f, u)
    BY <2>4, RedactsLocal
  <2>6. g[u] = Redacts(c, g, u)
    BY <2>1, <2>3 DEF RedactsBelow
  <2>7. f[u] = g[u]
    BY <2>2 DEF f
  <2>8. QED
    BY <2>5, <2>6, <2>7
<1>3. f = [u \in Json |-> Redacts(c, f, u)]
  <2>1. f = [u \in Json |-> f[u]]
    OBVIOUS
  <2> HIDE DEF f
  <2>2. QED
    BY <1>2, <2>1
<1> HIDE DEF f
<1>4. Recursive(f)
  BY <1>3 DEF Redacts
<1>5. Recursive(redact)
  <2> HIDE DEF Recursive
  <2>1. QED
    BY <1>4
<1>6. \A v \in Json : RedactWith(c, v) = redact[v]
  BY DEF RedactWith
<1> HIDE DEF redact
<1>7. redact = [u \in Json |-> Redacts(c, redact, u)]
  BY <1>5 DEF Redacts
<1>8. \A v \in Json : redact[v] = Redacts(c, redact, v)
  BY <1>7
<1>9. QED
  BY <1>6, <1>8

-----------------------------------------------------------------------------
(* What redact_with makes of a value, kind by kind, and of its children.   *)

LEMMA RedactUnfolds ==
  ASSUME NEW c, NEW v \in Json
  PROVE  /\ v.k = "obj" =>
              RedactWith(c, v) =
                [k |-> "obj",
                 fields |-> [name \in DOMAIN v.fields |->
                   RedactField(c, name, v.fields[name], RedactWith(c, v.fields[name]))]]
         /\ v.k = "arr" =>
              RedactWith(c, v) =
                [k |-> "arr", items |-> [i \in DOMAIN v.items |-> RedactWith(c, v.items[i])]]
         /\ v.k \notin {"obj", "arr"} => RedactWith(c, v) = v
<1>1. PICK f : (\A u \in Json : f[u] = Redacts(c, f, u)) /\ (\A u \in Json : RedactWith(c, u) = f[u])
  BY RedactWithDefined
<1>2. RedactWith(c, v) = Redacts(c, f, v)
  BY <1>1
<1>3. ASSUME v.k = "obj"
      PROVE  RedactWith(c, v) =
               [k |-> "obj",
                fields |-> [name \in DOMAIN v.fields |->
                  RedactField(c, name, v.fields[name], RedactWith(c, v.fields[name]))]]
  <2>1. \A name \in DOMAIN v.fields : v.fields[name] \in Json
    BY <1>3, ChildrenOfObject, ChildOf
  <2>2. \A name \in DOMAIN v.fields : f[v.fields[name]] = RedactWith(c, v.fields[name])
    BY <1>1, <2>1
  <2>3. [name \in DOMAIN v.fields |->
           RedactField(c, name, v.fields[name], f[v.fields[name]])] =
        [name \in DOMAIN v.fields |->
           RedactField(c, name, v.fields[name], RedactWith(c, v.fields[name]))]
    BY <2>2
  <2>4. QED
    BY <1>2, <1>3, <2>3, RedactsObject
<1>4. ASSUME v.k = "arr"
      PROVE  RedactWith(c, v) =
               [k |-> "arr", items |-> [i \in DOMAIN v.items |-> RedactWith(c, v.items[i])]]
  <2>1. \A i \in DOMAIN v.items : v.items[i] \in Json
    BY <1>4, ChildrenOfArray, ListShape
  <2>2. \A i \in DOMAIN v.items : f[v.items[i]] = RedactWith(c, v.items[i])
    BY <1>1, <2>1
  <2>3. [i \in DOMAIN v.items |-> f[v.items[i]]] = [i \in DOMAIN v.items |-> RedactWith(c, v.items[i])]
    BY <2>2
  <2>4. QED
    BY <1>2, <1>4, <2>3, RedactsArray
<1>5. v.k \notin {"obj", "arr"} => RedactWith(c, v) = v
  BY <1>2, RedactsOther
<1>6. QED
  BY <1>3, <1>4, <1>5

Names(c) == {Key(f) : f \in c}

\* A declared child is replaced by the marker, any other is redacted in turn.
RedactsChild(c, v, w, s) ==
  /\ s \in Names(c) => Children(w)[s] = Marker
  /\ s \notin Names(c) => Children(w)[s] = RedactWith(c, Children(v)[s])

LEMMA RedactedObject ==
  ASSUME NEW c, NEW v \in Json, NEW w \in Json, w = RedactWith(c, v), v.k = "obj"
  PROVE  /\ DOMAIN Children(w) = DOMAIN Children(v)
         /\ \A s \in DOMAIN Children(v) : RedactsChild(c, v, w, s)
<1>1. w = [k |-> "obj",
           fields |-> [name \in DOMAIN v.fields |->
             RedactField(c, name, v.fields[name], RedactWith(c, v.fields[name]))]]
  BY RedactUnfolds
<1>2. /\ w.k = "obj" /\ DOMAIN w.fields = DOMAIN v.fields
      /\ \A name \in DOMAIN v.fields :
           w.fields[name] = RedactField(c, name, v.fields[name], RedactWith(c, v.fields[name]))
  BY <1>1
<1>3. \A s : s \in DOMAIN Children(w) <=> \E name \in DOMAIN w.fields : s = Key(name)
  BY <1>2, ChildrenOfObject
<1>4. \A s : s \in DOMAIN Children(v) <=> \E name \in DOMAIN v.fields : s = Key(name)
  BY ChildrenOfObject
<1>5. DOMAIN Children(w) = DOMAIN Children(v)
  BY <1>2, <1>3, <1>4
<1>6. ASSUME NEW s \in DOMAIN Children(v) PROVE RedactsChild(c, v, w, s)
  <2>1. PICK name \in DOMAIN v.fields : s = Key(name)
    BY <1>4
  <2>2. Children(w)[s] = w.fields[name]
    BY <1>2, <2>1, ChildrenOfObject
  <2>3. Children(v)[s] = v.fields[name]
    BY <2>1, ChildrenOfObject
  <2>4. s \in Names(c) <=> name \in c
    BY <2>1, StepFacts DEF Names
  <2>5. name \in c => w.fields[name] = Marker
    BY <1>2 DEF RedactField
  <2>6. name \notin c => w.fields[name] = RedactWith(c, v.fields[name])
    BY <1>2 DEF RedactField
  <2>7. QED
    BY <2>2, <2>3, <2>4, <2>5, <2>6 DEF RedactsChild
<1>7. QED
  BY <1>5, <1>6

LEMMA RedactedArray ==
  ASSUME NEW c, NEW v \in Json, NEW w \in Json, w = RedactWith(c, v), v.k = "arr"
  PROVE  /\ DOMAIN Children(w) = DOMAIN Children(v)
         /\ \A s \in DOMAIN Children(v) : RedactsChild(c, v, w, s)
<1>1. w = [k |-> "arr", items |-> [i \in DOMAIN v.items |-> RedactWith(c, v.items[i])]]
  BY RedactUnfolds
<1>2. /\ w.k = "arr" /\ DOMAIN w.items = DOMAIN v.items
      /\ \A i \in DOMAIN v.items : w.items[i] = RedactWith(c, v.items[i])
  BY <1>1
<1>3. \A s : s \in DOMAIN Children(w) <=> \E i \in DOMAIN w.items : s = Index(i)
  BY <1>2, ChildrenOfArray
<1>4. \A s : s \in DOMAIN Children(v) <=> \E i \in DOMAIN v.items : s = Index(i)
  BY ChildrenOfArray
<1>5. DOMAIN Children(w) = DOMAIN Children(v)
  BY <1>2, <1>3, <1>4
<1>6. ASSUME NEW s \in DOMAIN Children(v) PROVE RedactsChild(c, v, w, s)
  <2>1. PICK i \in DOMAIN v.items : s = Index(i)
    BY <1>4
  <2>2. Children(w)[s] = w.items[i]
    BY <1>2, <2>1, ChildrenOfArray
  <2>3. Children(v)[s] = v.items[i]
    BY <2>1, ChildrenOfArray
  <2>4. s \notin Names(c)
    BY <2>1, StepFacts DEF Names
  <2>5. QED
    BY <1>2, <2>2, <2>3, <2>4 DEF RedactsChild
<1>7. QED
  BY <1>5, <1>6

LEMMA RedactedChildren ==
  ASSUME NEW c, NEW v \in Json, NEW w \in Json, w = RedactWith(c, v)
  PROVE  /\ DOMAIN Children(w) = DOMAIN Children(v)
         /\ \A s \in DOMAIN Children(v) : RedactsChild(c, v, w, s)
<1>1. CASE v.k = "obj"
  BY <1>1, RedactedObject
<1>2. CASE v.k = "arr"
  BY <1>2, RedactedArray
<1>3. CASE v.k \notin {"obj", "arr"}
  <2>1. w = v /\ DOMAIN Children(v) = {}
    BY <1>3, RedactUnfolds, NoChildren
  <2>2. QED
    BY <2>1
<1>4. QED
  BY <1>1, <1>2, <1>3

\* A value without children is left as it is.
LEMMA ChildlessIsKept ==
  ASSUME NEW c, NEW v \in Json, DOMAIN Children(v) = {}
  PROVE  RedactWith(c, v) = v
<1>1. CASE v.k = "obj"
  <2>1. DOMAIN v.fields = {}
    BY <1>1, ChildrenOfObject
  <2>2. v = [k |-> "obj", fields |-> [name \in DOMAIN v.fields |-> v.fields[name]]]
    BY <1>1, JsonAssumption
  <2>3. [name \in DOMAIN v.fields |->
           RedactField(c, name, v.fields[name], RedactWith(c, v.fields[name]))] =
        [name \in DOMAIN v.fields |-> v.fields[name]]
    BY <2>1
  <2>4. QED
    BY <1>1, <2>2, <2>3, RedactUnfolds
<1>2. CASE v.k = "arr"
  <2>1. DOMAIN v.items = {}
    BY <1>2, ChildrenOfArray
  <2>2. v = [k |-> "arr", items |-> v.items] /\ v.items \in Seq(Json)
    BY <1>2, JsonAssumption
  <2>3. v.items = [i \in DOMAIN v.items |-> v.items[i]]
    BY <2>2
  <2>4. [i \in DOMAIN v.items |-> RedactWith(c, v.items[i])] = [i \in DOMAIN v.items |-> v.items[i]]
    BY <2>1
  <2>5. QED
    BY <1>2, <2>2, <2>3, <2>4, RedactUnfolds
<1>3. CASE v.k \notin {"obj", "arr"}
  BY <1>3, RedactUnfolds
<1>4. QED
  BY <1>1, <1>2, <1>3

LEMMA PartsOfMarker ==
  /\ Marker \in Json /\ DOMAIN Children(Marker) = {}
  /\ \A p : p \in Parts[Marker] <=> p = [at |-> <<>>, is |-> Marker]
  /\ \A p : p \in Leaves(Marker) <=> p = [at |-> <<>>, is |-> Marker]
<1>1. Marker \in Json
  BY RedactAssumption
<1>2. DOMAIN Children(Marker) = {}
  <2>1. Marker.k = "str"
    BY DEF Marker
  <2>2. QED
    BY <1>1, <2>1, NoChildren
<1>3. \A p : p \in Parts[Marker] <=> p = [at |-> <<>>, is |-> Marker]
  BY <1>1, <1>2, PartsUnfold
<1>4. \A p : p \in Leaves(Marker) <=> p = [at |-> <<>>, is |-> Marker]
  BY <1>1, <1>2, LeavesUnfold
<1>5. QED
  BY <1>1, <1>2, <1>3, <1>4

-----------------------------------------------------------------------------
(* Declared steps.                                                         *)

\* The only step of at that is declared is the last one.
Outermost(at, c) == Declared(at, c) = {Len(at)}

LEMMA DeclaredIn ==
  ASSUME NEW at, NEW c
  PROVE  \A n : n \in Declared(at, c) <=> n \in DOMAIN at /\ at[n] \in Names(c)
BY DEF Declared, Names

LEMMA NoneDeclared ==
  ASSUME NEW c
  PROVE  Declared(<<>>, c) = {} /\ ~Outermost(<<>>, c)
<1>1. Declared(<<>>, c) = {}
  <2>1. \A n : n \notin DOMAIN <<>>
    OBVIOUS
  <2>2. QED
    BY <2>1, DeclaredIn
<1>2. QED
  BY <1>1 DEF Outermost

LEMMA DeclaredFront ==
  ASSUME NEW X, NEW s \in X, NEW a \in Seq(X), NEW c
  PROVE  /\ s \notin Names(c) =>
              /\ Declared(<<s>> \o a, c) = {} <=> Declared(a, c) = {}
              /\ Outermost(<<s>> \o a, c) <=> Outermost(a, c)
         /\ s \in Names(c) =>
              /\ Declared(<<s>> \o a, c) # {}
              /\ Outermost(<<s>> \o a, c) <=> a = <<>>
<1>1. PICK b : b = <<s>> \o a
  OBVIOUS
<1>2. /\ Len(a) \in Nat /\ Len(b) = Len(a) + 1 /\ DOMAIN a = 1..Len(a)
      /\ DOMAIN b = 1..(Len(a) + 1) /\ b[1] = s /\ \A n \in 1..Len(a) : b[n + 1] = a[n]
  BY <1>1, FrontStep
<1>3. \A n : n \in Declared(a, c) <=> n \in 1..Len(a) /\ a[n] \in Names(c)
  BY <1>2, DeclaredIn
<1>4. \A n : n \in Declared(b, c) <=> n \in 1..(Len(a) + 1) /\ b[n] \in Names(c)
  BY <1>2, DeclaredIn
<1>5. \A n \in 1..Len(a) : n + 1 \in Declared(b, c) <=> n \in Declared(a, c)
  <2>1. \A n \in 1..Len(a) : n + 1 \in 1..(Len(a) + 1)
    BY <1>2
  <2>2. QED
    BY <1>2, <1>3, <1>4, <2>1
<1>6. \A n \in Declared(b, c) : n # 1 => n - 1 \in 1..Len(a) /\ (n - 1) + 1 = n
  BY <1>2, <1>4
<1>7. 1 \in Declared(b, c) <=> s \in Names(c)
  BY <1>2, <1>4
<1>8. ASSUME s \notin Names(c)
      PROVE  /\ Declared(b, c) = {} <=> Declared(a, c) = {}
             /\ Outermost(b, c) <=> Outermost(a, c)
  <2>1. \A n \in Declared(b, c) : n - 1 \in Declared(a, c) /\ (n - 1) + 1 = n
    <3>1. \A n \in Declared(b, c) : n # 1
      BY <1>7, <1>8
    <3>2. QED
      BY <1>5, <1>6, <3>1
  <2>2. \A n \in Declared(a, c) : n + 1 \in Declared(b, c) /\ n \in Nat
    BY <1>3, <1>5
  <2>3. Declared(b, c) = {} <=> Declared(a, c) = {}
    BY <2>1, <2>2
  <2>4. ASSUME Outermost(b, c) PROVE Outermost(a, c)
    <3>1. Declared(b, c) = {Len(a) + 1}
      BY <1>2, <2>4 DEF Outermost
    <3>2. \A n \in Declared(a, c) : n = Len(a)
      BY <1>2, <2>2, <3>1
    <3>3. Declared(a, c) # {}
      BY <2>3, <3>1
    <3>4. QED
      BY <3>2, <3>3 DEF Outermost
  <2>5. ASSUME Outermost(a, c) PROVE Outermost(b, c)
    <3>1. Declared(a, c) = {Len(a)}
      BY <2>5 DEF Outermost
    <3>2. \A n \in Declared(b, c) : n = Len(a) + 1
      BY <1>2, <2>1, <3>1
    <3>3. Declared(b, c) # {}
      BY <2>3, <3>1
    <3>4. Declared(b, c) = {Len(b)}
      BY <1>2, <3>2, <3>3
    <3>5. QED
      BY <3>4 DEF Outermost
  <2>6. QED
    BY <2>3, <2>4, <2>5
<1>9. ASSUME s \in Names(c)
      PROVE  Declared(b, c) # {} /\ (Outermost(b, c) <=> a = <<>>)
  <2>1. 1 \in Declared(b, c)
    BY <1>7, <1>9
  <2>2. a = <<>> <=> Len(a) = 0
    BY ListShape
  <2>3. ASSUME Outermost(b, c) PROVE Len(a) = 0
    <3>1. 1 = Len(a) + 1
      BY <1>2, <2>1, <2>3 DEF Outermost
    <3>2. QED
      BY <1>2, <3>1
  <2>4. ASSUME Len(a) = 0 PROVE Outermost(b, c)
    <3>1. \A n \in Declared(b, c) : n = 1
      BY <1>4, <2>4
    <3>2. Declared(b, c) = {1} /\ Len(b) = 1
      BY <1>2, <2>1, <2>4, <3>1
    <3>3. QED
      BY <3>2 DEF Outermost
  <2>5. QED
    BY <2>1, <2>2, <2>3, <2>4
<1>10. QED
  BY <1>1, <1>8, <1>9

\* Declared steps are the same in a location and in its place.
LEMMA DeclaredPlace ==
  ASSUME NEW a \in Seq(Steps), NEW c
  PROVE  Declared(Place(a), c) = Declared(a, c) /\ Len(Place(a)) = Len(a)
<1>1. /\ Len(Place(a)) = Len(a) /\ DOMAIN a = 1..Len(a) /\ DOMAIN Place(a) = 1..Len(a)
      /\ \A n \in 1..Len(a) : a[n] \in Steps /\ Place(a)[n] = PlaceOf(a[n])
  BY PlaceIsList
<1>2. ASSUME NEW s \in Steps PROVE PlaceOf(s) \in Names(c) <=> s \in Names(c)
  <2>1. \A f : PlaceOf(Key(f)) = Key(f) /\ Key(f) # Element
    BY StepFacts
  <2>2. PlaceOf(s) = s \/ PlaceOf(s) = Element
    BY DEF PlaceOf
  <2>3. \A f : Element # Key(f)
    BY <2>1
  <2>4. Element \notin Names(c)
    BY <2>3 DEF Names
  <2>5. s \in Names(c) => PlaceOf(s) = s
    BY <2>1 DEF Names
  <2>6. QED
    BY <2>2, <2>4, <2>5
<1>3. \A n : n \in Declared(Place(a), c) <=> n \in Declared(a, c)
  <2>1. \A n : n \in Declared(Place(a), c) <=> n \in 1..Len(a) /\ Place(a)[n] \in Names(c)
    BY <1>1, DeclaredIn
  <2>2. \A n : n \in Declared(a, c) <=> n \in 1..Len(a) /\ a[n] \in Names(c)
    BY <1>1, DeclaredIn
  <2>3. QED
    BY <1>1, <1>2, <2>1, <2>2
<1>4. QED
  BY <1>1, <1>3

-----------------------------------------------------------------------------
(* Redaction is exact.                                                     *)

\* What is left of v when the fields in c are redacted.
Left(p, v, c) ==
  \/ p \in Leaves(v) /\ Declared(p.at, c) = {}
  \/ \E q \in Parts[v] : Outermost(q.at, c) /\ p = [at |-> q.at, is |-> Marker]

\* What is left of v is what is left of its children, or is v itself.
LEMMA LeftBehind ==
  ASSUME NEW c, NEW v \in Json, NEW s \in DOMAIN Children(v), s \notin Names(c), NEW q
  PROVE  Left(q, Children(v)[s], c) => Left(Behind(s, q), v, c)
<1> SUFFICES ASSUME Left(q, Children(v)[s], c) PROVE Left(Behind(s, q), v, c)
  OBVIOUS
<1>1. s \in Steps /\ Children(v)[s] \in Json
  BY ChildOf
<1>2. CASE q \in Leaves(Children(v)[s]) /\ Declared(q.at, c) = {}
  <2>1. Behind(s, q) \in Leaves(v)
    BY <1>2, LeavesUnfold
  <2>2. q \in Parts[Children(v)[s]]
    BY <1>2 DEF Leaves
  <2>3. q.at \in Seq(Steps) /\ Behind(s, q).at = <<s>> \o q.at
    BY <2>2, BehindShape
  <2>4. Declared(Behind(s, q).at, c) = {}
    BY <1>1, <1>2, <2>3, DeclaredFront
  <2>5. QED
    BY <2>1, <2>4 DEF Left
<1>3. ASSUME NEW r \in Parts[Children(v)[s]], Outermost(r.at, c), q = [at |-> r.at, is |-> Marker]
      PROVE  Left(Behind(s, q), v, c)
  <2>1. Behind(s, r) \in Parts[v] /\ Behind(s, r).at = <<s>> \o r.at /\ r.at \in Seq(Steps)
    BY BehindShape
  <2>2. Outermost(Behind(s, r).at, c)
    BY <1>1, <1>3, <2>1, DeclaredFront
  <2>3. Behind(s, q) = [at |-> Behind(s, r).at, is |-> Marker]
    BY <1>3 DEF Behind
  <2>4. QED
    BY <2>1, <2>2, <2>3 DEF Left
<1>4. QED
  BY <1>2, <1>3 DEF Left

LEMMA RedactionLeaves ==
  ASSUME NEW c \in Config \cup {{}}
  PROVE  \A v \in Json : \A p : p \in Leaves(RedactWith(c, v)) <=> Left(p, v, c)
<1> DEFINE S == {v \in Json : \A p : p \in Leaves(RedactWith(c, v)) <=> Left(p, v, c)}
<1>1. ASSUME NEW v \in Json, \A s \in DOMAIN Children(v) : Children(v)[s] \in S
      PROVE  v \in S
  <2> SUFFICES ASSUME NEW p PROVE p \in Leaves(RedactWith(c, v)) <=> Left(p, v, c)
    OBVIOUS
  <2>1. PICK w \in Json : w = RedactWith(c, v)
    BY SamplingAssumption
  <2>2. /\ DOMAIN Children(w) = DOMAIN Children(v)
        /\ \A s \in DOMAIN Children(v) : RedactsChild(c, v, w, s)
    BY <2>1, RedactedChildren
  <2>3. ASSUME p \in Leaves(w) PROVE Left(p, v, c)
    <3>1. CASE DOMAIN Children(w) = {} /\ p = [at |-> <<>>, is |-> w]
      <4>1. w = v
        BY <2>1, <2>2, <3>1, ChildlessIsKept
      <4>2. p \in Leaves(v)
        BY <3>1, <4>1, LeavesUnfold
      <4>3. Declared(p.at, c) = {}
        BY <3>1, NoneDeclared
      <4>4. QED
        BY <4>2, <4>3 DEF Left
    <3>2. ASSUME NEW s \in DOMAIN Children(w), NEW q \in Leaves(Children(w)[s]), p = Behind(s, q)
          PROVE  Left(p, v, c)
      <4>1. s \in DOMAIN Children(v) /\ RedactsChild(c, v, w, s)
        BY <2>2
      <4>2. CASE s \in Names(c)
        <5>1. q = [at |-> <<>>, is |-> Marker]
          BY <3>2, <4>1, <4>2, PartsOfMarker DEF RedactsChild
        <5>2. PICK r : r = [at |-> <<>>, is |-> Children(v)[s]]
          OBVIOUS
        <5>3. r \in Parts[Children(v)[s]]
          BY <4>1, <5>2, ChildOf, ItselfIsPart
        <5>4. /\ Behind(s, r) \in Parts[v] /\ Behind(s, r).at = <<s>> \o r.at
              /\ s \in Steps /\ r.at \in Seq(Steps)
          BY <4>1, <5>3, BehindShape
        <5>5. Outermost(Behind(s, r).at, c)
          <6>1. Outermost(<<s>> \o r.at, c) <=> r.at = <<>>
            BY <4>2, <5>4, DeclaredFront
          <6>2. QED
            BY <5>2, <5>4, <6>1
        <5>6. p = [at |-> Behind(s, r).at, is |-> Marker]
          BY <3>2, <5>1, <5>2 DEF Behind
        <5>7. QED
          BY <5>4, <5>5, <5>6 DEF Left
      <4>3. CASE s \notin Names(c)
        <5>1. q \in Leaves(RedactWith(c, Children(v)[s]))
          BY <3>2, <4>1, <4>3 DEF RedactsChild
        <5>2. Left(q, Children(v)[s], c)
          BY <1>1, <4>1, <5>1
        <5>3. QED
          BY <3>2, <4>1, <4>3, <5>2, LeftBehind
      <4>4. QED
        BY <4>2, <4>3
    <3>3. QED
      BY <2>3, <3>1, <3>2, LeavesUnfold
  <2>4. ASSUME p \in Leaves(v), Declared(p.at, c) = {} PROVE p \in Leaves(w)
    <3>1. CASE DOMAIN Children(v) = {} /\ p = [at |-> <<>>, is |-> v]
      <4>1. w = v
        BY <2>1, <3>1, ChildlessIsKept
      <4>2. QED
        BY <2>4, <4>1
    <3>2. ASSUME NEW s \in DOMAIN Children(v), NEW q \in Leaves(Children(v)[s]), p = Behind(s, q)
          PROVE  p \in Leaves(w)
      <4>1. q \in Parts[Children(v)[s]]
        BY <3>2 DEF Leaves
      <4>2. p.at = <<s>> \o q.at /\ s \in Steps /\ q.at \in Seq(Steps)
        BY <3>2, <4>1, BehindShape
      <4>3. s \notin Names(c) /\ Declared(q.at, c) = {}
        <5>1. Declared(<<s>> \o q.at, c) = {}
          BY <2>4, <4>2
        <5>2. s \notin Names(c)
          BY <4>2, <5>1, DeclaredFront
        <5>3. Declared(<<s>> \o q.at, c) = {} <=> Declared(q.at, c) = {}
          BY <4>2, <5>2, DeclaredFront
        <5>4. QED
          BY <5>1, <5>2, <5>3
      <4>4. Left(q, Children(v)[s], c)
        BY <3>2, <4>3 DEF Left
      <4>5. q \in Leaves(Children(w)[s])
        BY <1>1, <2>2, <3>2, <4>3, <4>4 DEF RedactsChild
      <4>6. QED
        BY <2>2, <3>2, <4>5, LeavesUnfold
    <3>3. QED
      BY <2>4, <3>1, <3>2, LeavesUnfold
  <2>5. ASSUME NEW r \in Parts[v], Outermost(r.at, c), p = [at |-> r.at, is |-> Marker]
        PROVE  p \in Leaves(w)
    <3>1. CASE r = [at |-> <<>>, is |-> v]
      BY <2>5, <3>1, NoneDeclared
    <3>2. ASSUME NEW s \in DOMAIN Children(v), NEW q \in Parts[Children(v)[s]], r = Behind(s, q)
          PROVE  p \in Leaves(w)
      <4>1. r.at = <<s>> \o q.at /\ s \in Steps /\ q.at \in Seq(Steps)
        BY <3>2, BehindShape
      <4>2. PICK x : x = [at |-> q.at, is |-> Marker]
        OBVIOUS
      <4>3. p = Behind(s, x)
        BY <2>5, <4>1, <4>2 DEF Behind
      <4>4. CASE s \in Names(c)
        <5>1. q.at = <<>>
          BY <2>5, <4>1, <4>4, DeclaredFront
        <5>2. x \in Leaves(Marker)
          BY <4>2, <5>1, PartsOfMarker
        <5>3. Children(w)[s] = Marker
          BY <2>2, <3>2, <4>4 DEF RedactsChild
        <5>4. QED
          BY <2>2, <3>2, <4>3, <5>2, <5>3, LeavesUnfold
      <4>5. CASE s \notin Names(c)
        <5>1. Outermost(q.at, c)
          BY <2>5, <4>1, <4>5, DeclaredFront
        <5>2. Left(x, Children(v)[s], c)
          BY <3>2, <4>2, <5>1 DEF Left
        <5>3. x \in Leaves(Children(w)[s])
          BY <1>1, <2>2, <3>2, <4>5, <5>2 DEF RedactsChild
        <5>4. QED
          BY <2>2, <3>2, <4>3, <5>3, LeavesUnfold
      <4>6. QED
        BY <4>4, <4>5
    <3>3. QED
      BY <3>1, <3>2, PartsUnfold
  <2>6. QED
    BY <2>1, <2>3, <2>4, <2>5 DEF Left
<1> HIDE DEF S
<1>2. \A v \in Json : v \in S
  BY <1>1, JsonInduction
<1>3. QED
  BY <1>2 DEF S

-----------------------------------------------------------------------------
(* Where a field is declared the marker is all there is.                   *)

\* Whatever v has below a step to a field in A is the marker, right there.
Masks(v, A) ==
  \A p \in Parts[v] : Declared(p.at, A) # {} => Outermost(p.at, A) /\ p.is = Marker

LEMMA RedactionMasks ==
  ASSUME NEW c \in Config \cup {{}}
  PROVE  \A v \in Json : Masks(RedactWith(c, v), c)
<1> DEFINE S == {v \in Json : Masks(RedactWith(c, v), c)}
<1>1. ASSUME NEW v \in Json, \A s \in DOMAIN Children(v) : Children(v)[s] \in S
      PROVE  v \in S
  <2>1. PICK w \in Json : w = RedactWith(c, v)
    BY SamplingAssumption
  <2> SUFFICES ASSUME NEW p \in Parts[w], Declared(p.at, c) # {}
               PROVE  Outermost(p.at, c) /\ p.is = Marker
    BY <2>1 DEF Masks
  <2>2. /\ DOMAIN Children(w) = DOMAIN Children(v)
        /\ \A s \in DOMAIN Children(v) : RedactsChild(c, v, w, s)
    BY <2>1, RedactedChildren
  <2>3. CASE p = [at |-> <<>>, is |-> w]
    BY <2>3, NoneDeclared
  <2>4. ASSUME NEW s \in DOMAIN Children(w), NEW q \in Parts[Children(w)[s]], p = Behind(s, q)
        PROVE  Outermost(p.at, c) /\ p.is = Marker
    <3>1. p.at = <<s>> \o q.at /\ p.is = q.is /\ s \in Steps /\ q.at \in Seq(Steps)
      BY <2>4, BehindShape
    <3>2. s \in DOMAIN Children(v) /\ RedactsChild(c, v, w, s)
      BY <2>2
    <3>3. CASE s \in Names(c)
      <4>1. q = [at |-> <<>>, is |-> Marker]
        BY <2>4, <3>2, <3>3, PartsOfMarker DEF RedactsChild
      <4>2. Outermost(<<s>> \o q.at, c) <=> q.at = <<>>
        BY <3>1, <3>3, DeclaredFront
      <4>3. QED
        BY <3>1, <4>1, <4>2
    <3>4. CASE s \notin Names(c)
      <4>1. Masks(Children(w)[s], c)
        BY <1>1, <3>2, <3>4 DEF RedactsChild
      <4>2. Declared(<<s>> \o q.at, c) = {} <=> Declared(q.at, c) = {}
        BY <3>1, <3>4, DeclaredFront
      <4>3. Outermost(<<s>> \o q.at, c) <=> Outermost(q.at, c)
        BY <3>1, <3>4, DeclaredFront
      <4>4. Outermost(q.at, c) /\ q.is = Marker
        BY <3>1, <4>1, <4>2 DEF Masks
      <4>5. QED
        BY <3>1, <4>3, <4>4
    <3>5. QED
      BY <3>3, <3>4
  <2>5. QED
    BY <2>3, <2>4, PartsUnfold
<1> HIDE DEF S
<1>2. \A v \in Json : v \in S
  BY <1>1, JsonInduction
<1>3. QED
  BY <1>2 DEF S

\* So it is for any fewer fields.
LEMMA MasksFewer ==
  ASSUME NEW c, NEW A \in SUBSET c, NEW v, Masks(v, c)
  PROVE  Masks(v, A)
<1> SUFFICES ASSUME NEW p \in Parts[v], Declared(p.at, A) # {}
             PROVE  Outermost(p.at, A) /\ p.is = Marker
  BY DEF Masks
<1>1. Declared(p.at, A) \subseteq Declared(p.at, c)
  <2>1. Names(A) \subseteq Names(c)
    BY DEF Names
  <2>2. QED
    BY <2>1, DeclaredIn
<1>2. Outermost(p.at, c) /\ p.is = Marker
  BY <1>1 DEF Masks
<1>3. QED
  BY <1>1, <1>2 DEF Outermost

AllMask(vs, A) == \A i \in DOMAIN vs : Masks(vs[i], A)

\* The keywords of samples that are the marker, however many.
MarkerKeywords == [type |-> {"string"}, examples |-> {Marker}]

LEMMA MarkersAreString ==
  ASSUME NEW vs \in Seq(Json), vs # <<>>, \A i \in DOMAIN vs : vs[i] = Marker
  PROVE  Keywords(vs) = MarkerKeywords /\ DOMAIN SubSamples(vs) = {}
<1>1. 1 \in DOMAIN vs /\ DOMAIN vs = 1..Len(vs) /\ Len(vs) \in Nat
  BY ListShape
<1>2. Marker.k = "str" /\ PrimitiveTypeOf(Marker) = "string"
  BY DEF Marker, PrimitiveTypeOf
<1>3. \A i \in DOMAIN vs : vs[i].k = "str"
  BY <1>2
<1>4. NonNull(vs) = vs /\ ~HasNull(vs)
  BY <1>3, NonNullFacts DEF HasNull
<1>5. ~AllOf(vs, "obj") /\ ~AllOf(vs, "arr")
  BY <1>1, <1>3 DEF AllOf
<1>6. CommonPrimitiveType(vs) = "string"
  <2>1. TypesIn(vs) = {"string"}
    BY <1>1, <1>2 DEF TypesIn
  <2>2. IsCommon(TypesIn(vs), "string")
    BY <2>1 DEF IsCommon
  <2>3. QED
    BY <2>2, CommonTypeIsCommon, CommonIsUnique
<1>7. Examples(vs) = {Marker}
  <2>1. \A x \in Examples(vs) : x = Marker
    BY ExamplesObserved
  <2>2. Cardinality({vs[m] : m \in 1..(1 - 1)}) < MAX_EXAMPLES
    <3>1. {vs[m] : m \in 1..(1 - 1)} = {}
      OBVIOUS
    <3>2. Cardinality({}) = 0
      BY FS_EmptySet
    <3>3. Cardinality({vs[m] : m \in 1..(1 - 1)}) = 0
      BY <3>1, <3>2
    <3>4. 0 < MAX_EXAMPLES
      BY InferAssumption
    <3>5. QED
      BY <3>3, <3>4
  <2>3. vs[1] \in Examples(vs)
    BY <1>1, <2>2 DEF Examples
  <2>4. QED
    BY <1>1, <2>1, <2>3
<1>8. NonNullKeywords(vs) = MarkerKeywords
  BY <1>5, <1>6, <1>7 DEF NonNullKeywords, MarkerKeywords, NoType
<1>9. Keywords(vs) = MarkerKeywords
  BY <1>4, <1>8, KeywordsCases
<1>10. DOMAIN SubSamples(vs) = {}
  BY <1>4, <1>5, SubSamplesOfOthers
<1>11. QED
  BY <1>9, <1>10

\* There is a sample below each name.
LEMMA NameHasSamples ==
  ASSUME NEW vs \in Seq(Json), NEW name, Key(name) \in DOMAIN SubSamples(vs)
  PROVE  SubSamples(vs)[Key(name)] # <<>>
<1> DEFINE objs == NonNull(vs)
<1>1. objs \in Seq(Json) /\ objs # <<>>
  BY Below, NonNullFacts
<1>2. AllOf(objs, "obj")
  <2>1. CASE AllOf(objs, "arr")
    <3>1. DOMAIN SubSamples(vs) = {Element}
      BY <1>1, <2>1, SubSamplesOfArrays
    <3>2. QED
      BY <3>1, StepFacts
  <2>2. CASE ~AllOf(objs, "arr")
    BY <2>2, SubSamplesOfOthers
  <2>3. QED
    BY <2>1, <2>2
<1>3. name \in KeysOf(objs)
  <2>1. \E other \in KeysOf(NonNull(vs)) : Key(name) = Key(other)
    BY <1>1, <1>2, SubSamplesOfObjects
  <2>2. \A other : Key(name) = Key(other) => name = other
    BY StepFacts
  <2>3. QED
    BY <2>1, <2>2
<1>4. PICK i \in DOMAIN objs : name \in DOMAIN objs[i].fields
  BY <1>3 DEF KeysOf
<1>5. PICK n \in DOMAIN vs : vs[n] = objs[i]
  BY NonNullFacts
<1>6. vs[n] \in Json /\ vs[n].k = "obj" /\ name \in DOMAIN vs[n].fields
  BY <1>2, <1>4, <1>5, ListShape DEF AllOf
<1>7. Key(name) \in DOMAIN Children(vs[n])
  BY <1>6, ChildrenOfObject
<1>8. Key(name) \in StepsAt(vs[n], Key(name))
  BY <1>7, StepFacts DEF StepsAt
<1>9. <<n, Key(name)>> \in DOMAIN ChildrenAt(vs, Key(name))
  BY <1>8, ChildIn
<1>10. SubSamples(vs)[Key(name)] \in Seq(Json) /\ Same(SubSamples(vs)[Key(name)], ChildrenAt(vs, Key(name)))
  BY Below
<1>11. DOMAIN SubSamples(vs)[Key(name)] # {}
  BY <1>9, <1>10, SameValues
<1>12. QED
  BY <1>10, <1>11, ListShape

\* A place with a declared step has the marker's keywords, and ends there.
ShowsMarker(t, A) == Declared(t.at, A) # {} => Outermost(t.at, A) /\ t.is = MarkerKeywords

LEMMA MaskedSchema ==
  ASSUME NEW A
  PROVE  \A vs \in Seq(Json) : AllMask(vs, A) => \A t \in InferSchema[vs] : ShowsMarker(t, A)
<1> DEFINE S == {vs \in Seq(Json) : AllMask(vs, A) => \A t \in InferSchema[vs] : ShowsMarker(t, A)}
<1>1. ASSUME NEW vs \in Seq(Json), \A step \in DOMAIN SubSamples(vs) : SubSamples(vs)[step] \in S
      PROVE  vs \in S
  <2> SUFFICES ASSUME AllMask(vs, A), NEW t \in InferSchema[vs] PROVE ShowsMarker(t, A)
    OBVIOUS
  <2>1. CASE t = [at |-> <<>>, is |-> Keywords(vs)]
    BY <2>1, NoneDeclared DEF ShowsMarker
  <2>2. ASSUME NEW step \in DOMAIN SubSamples(vs), NEW x \in InferSchema[SubSamples(vs)[step]],
               t = Behind(step, x)
        PROVE  ShowsMarker(t, A)
    <3>1. PICK below \in Seq(Json) : below = SubSamples(vs)[step]
      BY Below
    <3>2. step \in Places /\ x.at \in Seq(Places) /\ t.at = <<step>> \o x.at /\ t.is = x.is
      BY <2>2, <3>1, Below, SubschemaShape DEF Behind
    <3>3. ASSUME NEW j \in DOMAIN below
          PROVE  \E i \in DOMAIN vs : \E s \in DOMAIN Children(vs[i]) :
                   PlaceOf(s) = step /\ below[j] = Children(vs[i])[s]
      BY <3>1, BelowIsChild
    <3>4. CASE step \in Names(A)
      <4>1. PICK name : name \in A /\ step = Key(name)
        BY <3>4 DEF Names
      <4>2. below # <<>>
        BY <3>1, <4>1, NameHasSamples
      <4>3. ASSUME NEW j \in DOMAIN below PROVE below[j] = Marker
        <5>. PICK i \in DOMAIN vs : \E s \in DOMAIN Children(vs[i]) :
                                      PlaceOf(s) = step /\ below[j] = Children(vs[i])[s]
          BY <3>3
        <5>1. PICK s \in DOMAIN Children(vs[i]) :
                PlaceOf(s) = step /\ below[j] = Children(vs[i])[s]
          OBVIOUS
        <5>2. s = step
          BY <4>1, <5>1, StepFacts DEF PlaceOf
        <5>3. vs[i] \in Json /\ Masks(vs[i], A)
          BY ListShape DEF AllMask
        <5>4. PICK r : r = [at |-> <<>>, is |-> Children(vs[i])[s]]
          OBVIOUS
        <5>5. r \in Parts[Children(vs[i])[s]]
          BY <5>1, <5>3, <5>4, ChildOf, ItselfIsPart
        <5>6. /\ Behind(s, r) \in Parts[vs[i]] /\ Behind(s, r).at = <<s>> \o r.at
              /\ Behind(s, r).is = r.is /\ s \in Steps /\ r.at \in Seq(Steps)
          BY <5>1, <5>3, <5>5, BehindShape
        <5>7. Declared(<<s>> \o r.at, A) # {}
          BY <3>4, <5>2, <5>6, DeclaredFront
        <5>8. QED
          BY <5>1, <5>3, <5>4, <5>6, <5>7 DEF Masks
      <4>4. Keywords(below) = MarkerKeywords /\ DOMAIN SubSamples(below) = {}
        BY <4>2, <4>3, MarkersAreString
      <4>5. x = [at |-> <<>>, is |-> MarkerKeywords]
        BY <3>1, <4>4, SchemaUnfolds
      <4>6. Outermost(<<step>> \o x.at, A) <=> x.at = <<>>
        BY <3>2, <3>4, DeclaredFront
      <4>7. QED
        BY <3>2, <4>5, <4>6 DEF ShowsMarker
    <3>5. CASE step \notin Names(A)
      <4>1. ASSUME NEW j \in DOMAIN below PROVE Masks(below[j], A)
        <5>. PICK i \in DOMAIN vs : \E s \in DOMAIN Children(vs[i]) :
                                      PlaceOf(s) = step /\ below[j] = Children(vs[i])[s]
          BY <3>3
        <5>1. PICK s \in DOMAIN Children(vs[i]) :
                PlaceOf(s) = step /\ below[j] = Children(vs[i])[s]
          OBVIOUS
        <5>2. s \notin Names(A)
          BY <3>5, <5>1, StepFacts DEF Names
        <5>3. vs[i] \in Json /\ Masks(vs[i], A)
          BY ListShape DEF AllMask
        <5> SUFFICES ASSUME NEW q \in Parts[Children(vs[i])[s]], Declared(q.at, A) # {}
                     PROVE  Outermost(q.at, A) /\ q.is = Marker
          BY <5>1 DEF Masks
        <5>4. /\ Behind(s, q) \in Parts[vs[i]] /\ Behind(s, q).at = <<s>> \o q.at
              /\ Behind(s, q).is = q.is /\ s \in Steps /\ q.at \in Seq(Steps)
          BY <5>1, <5>3, BehindShape
        <5>5. Declared(<<s>> \o q.at, A) = {} <=> Declared(q.at, A) = {}
          BY <5>2, <5>4, DeclaredFront
        <5>6. Outermost(<<s>> \o q.at, A) <=> Outermost(q.at, A)
          BY <5>2, <5>4, DeclaredFront
        <5>7. QED
          BY <5>3, <5>4, <5>5, <5>6 DEF Masks
      <4>2. ShowsMarker(x, A)
        BY <1>1, <3>1, <4>1 DEF AllMask
      <4>3. Declared(<<step>> \o x.at, A) = {} <=> Declared(x.at, A) = {}
        BY <3>2, <3>5, DeclaredFront
      <4>4. Outermost(<<step>> \o x.at, A) <=> Outermost(x.at, A)
        BY <3>2, <3>5, DeclaredFront
      <4>5. QED
        BY <3>2, <4>2, <4>3, <4>4 DEF ShowsMarker
    <3>6. QED
      BY <3>4, <3>5
  <2>3. QED
    BY <2>1, <2>2, SchemaUnfolds
<1> HIDE DEF S
<1>2. \A vs \in Seq(Json) : vs \in S
  BY <1>1, SamplesInduction
<1>3. QED
  BY <1>2 DEF S

-----------------------------------------------------------------------------
(* What the examples of a schema show was observed at that very place.     *)

LEMMA KeywordExamples ==
  ASSUME NEW ws \in Seq(Json), "examples" \in DOMAIN Keywords(ws), NEW x \in Keywords(ws).examples
  PROVE  \E j \in DOMAIN ws : ws[j] = x
<1> DEFINE found == NonNull(ws)
           K == NonNullKeywords(found)
<1>1. found # <<>> /\ found \in Seq(Json)
  <2>1. SUFFICES ASSUME found = <<>> PROVE FALSE
    BY NonNullFacts
  <2>2. Keywords(ws) = [type |-> {"null"}]
    BY <2>1, KeywordsCases
  <2>3. QED
    BY <2>2
<1>2. "examples" \in DOMAIN K /\ K.examples = Keywords(ws).examples
  <2>1. CASE HasNull(ws)
    <3>1. Keywords(ws) = MakeNullable(K)
      BY <1>1, <2>1, KeywordsCases
    <3>2. /\ DOMAIN MakeNullable(K) = DOMAIN K \cup {"type"}
          /\ \A w \in DOMAIN K : w # "type" => MakeNullable(K)[w] = K[w]
      BY NullableFacts
    <3> HIDE DEF K
    <3>3. QED
      BY <3>1, <3>2
  <2>2. CASE ~HasNull(ws)
    BY <1>1, <2>2, KeywordsCases
  <2>3. QED
    BY <2>1, <2>2
<1>3. K.examples = Examples(found)
  <2>1. ~OfObjects(found, K) /\ ~OfArrays(found, K)
    BY <1>2 DEF OfObjects, OfArrays
  <2>2. OfPrimitives(found, K) \/ OfMixed(found, K)
    BY <1>1, <2>1, NonNullShape
  <2>3. QED
    BY <2>2 DEF OfPrimitives, OfMixed
<1>4. PICK j \in DOMAIN found : found[j] = x
  BY <1>2, <1>3, ExamplesObserved
<1>5. QED
  BY <1>4, NonNullFacts

\* x is a leaf of a sample, with its place.
Witnesses(i, leaf, x) == leaf \in Leaves(samples[i]) /\ Place(leaf.at) = x.at /\ leaf.is = x.is

LEMMA ShownIsObserved ==
  ASSUME samples \in Seq(Json), NEW x \in Shown(schema)
  PROVE  \E i \in DOMAIN samples : \E leaf : Witnesses(i, leaf, x)
<1> DEFINE Shows(t, y) == {[at |-> t.at \o Place(leaf.at), is |-> leaf.is] : leaf \in Leaves(y)}
           ShownIn(t) == {Shows(t, y) : y \in t.is.examples}
<1>0. Shown(schema) = UNION {UNION ShownIn(t) : t \in {u \in schema : "examples" \in DOMAIN u.is}}
  BY DEF Shown
<1> HIDE DEF ShownIn
<1>1. PICK t \in schema : "examples" \in DOMAIN t.is /\ x \in UNION ShownIn(t)
  BY <1>0
<1> HIDE DEF Shows
<1>2. PICK y \in t.is.examples : x \in Shows(t, y)
  BY <1>1 DEF ShownIn
<1>3. PICK leaf \in Leaves(y) : x = [at |-> t.at \o Place(leaf.at), is |-> leaf.is]
  BY <1>2 DEF Shows
<1>4. t \in InferSchema[samples]
  BY DEF schema
<1>5. PICK ws \in Seq(Json) :
        /\ t.is = Keywords(ws)
        /\ \A j \in DOMAIN ws : \E o \in SeenAt(samples, t.at) : o[2].is = ws[j]
  BY <1>4, ObservedAtPlace
<1>6. PICK j \in DOMAIN ws : ws[j] = y
  BY <1>1, <1>5, KeywordExamples
<1>7. PICK o \in SeenAt(samples, t.at) : o[2].is = y
  BY <1>5, <1>6
<1>8. PICK i \in DOMAIN samples : \E p \in Parts[samples[i]] : o = <<i, p>> /\ Place(p.at) = t.at
  BY <1>7, SeenIn
<1>9. PICK p \in Parts[samples[i]] : o = <<i, p>> /\ Place(p.at) = t.at
  BY <1>8
<1>10. p.is = y
  BY <1>7, <1>9
<1>11. samples[i] \in Json /\ y \in Json /\ p.at \in Seq(Steps)
  BY <1>10, ListShape, PartShape
<1>12. leaf \in Parts[y] /\ DOMAIN Children(leaf.is) = {}
  BY DEF Leaves
<1>13. leaf.at \in Seq(Steps)
  BY <1>11, <1>12, PartShape
<1>14. PICK q : q = [at |-> p.at \o leaf.at, is |-> leaf.is]
  OBVIOUS
<1>15. q \in Parts[samples[i]]
  BY <1>10, <1>11, <1>12, <1>14, PartsTransitive
<1>16. q \in Leaves(samples[i])
  BY <1>12, <1>14, <1>15 DEF Leaves
<1>17. Place(q.at) = Place(p.at) \o Place(leaf.at)
  BY <1>11, <1>13, <1>14, PlaceConcat
<1>18. Witnesses(i, q, x)
  BY <1>3, <1>9, <1>14, <1>16, <1>17 DEF Witnesses
<1>19. QED
  BY <1>18

-----------------------------------------------------------------------------
(* The invariant: each sample is the redaction of the body it was, and     *)
(* the warnings are what scan finds in the samples.                        *)

LEMMA SampBase == SampInit => SampInv
<1> SUFFICES ASSUME SampInit PROVE SampInv
  OBVIOUS
<1>1. samples = <<>> /\ config = {} /\ warned = {} /\ raw = <<>>
  BY DEF SampInit, Init
<1>2. DOMAIN samples = {}
  BY <1>1
<1>3. UNION {Scan[samples[i]] : i \in DOMAIN samples} = {}
  BY <1>2
<1>4. QED
  BY <1>1, <1>2, <1>3 DEF SampInv

LEMMA RecordStep ==
  ASSUME SampInv, NEW v \in Value, Record(v)
  PROVE  /\ SampInv' /\ RedactWith(config, v) \in Json
         /\ samples' = Append(samples, RedactWith(config, v))
<1>1. PICK w : w = RedactWith(config, v)
  OBVIOUS
<1>2. PICK x : x = [body |-> v, config |-> config]
  OBVIOUS
<1>3. /\ samples \in Seq(Json) /\ config \in Config \cup {{}} /\ v \in Json
      /\ raw \in Seq([body : Value, config : Config \cup {{}}]) /\ Len(raw) = Len(samples)
      /\ \A i \in DOMAIN samples : samples[i] = RedactWith(raw[i].config, raw[i].body)
      /\ warned = UNION {Scan[samples[i]] : i \in DOMAIN samples}
  BY InferAssumption DEF SampInv
<1>4. w \in Json
  BY <1>1, <1>3, SamplingAssumption
<1>5. /\ samples' = Append(samples, w) /\ raw' = Append(raw, x) /\ config' = config
      /\ warned' = warned \cup Scan[w]
  BY <1>1, <1>2 DEF Record, Sampled, Scanned
<1>6. x \in [body : Value, config : Config \cup {{}}] /\ x.body = v /\ x.config = config
  BY <1>2, <1>3
<1>7. samples' \in Seq(Json) /\ raw' \in Seq([body : Value, config : Config \cup {{}}])
  BY <1>3, <1>4, <1>5, <1>6
<1>8. /\ Len(samples) \in Nat /\ DOMAIN samples = 1..Len(samples)
      /\ DOMAIN samples' = 1..(Len(samples) + 1) /\ Len(samples') = Len(samples) + 1
      /\ samples'[Len(samples) + 1] = w /\ \A i \in 1..Len(samples) : samples'[i] = samples[i]
  BY <1>3, <1>4, <1>5
<1>9. /\ Len(raw') = Len(samples) + 1 /\ raw'[Len(samples) + 1] = x
      /\ \A i \in 1..Len(samples) : raw'[i] = raw[i]
  BY <1>3, <1>5, <1>6, <1>8
<1>10. \A i \in DOMAIN samples' : i \in DOMAIN samples \/ i = Len(samples) + 1
  BY <1>8
<1>11. ASSUME NEW i \in DOMAIN samples'
       PROVE  samples'[i] = RedactWith(raw'[i].config, raw'[i].body)
  <2>1. CASE i \in DOMAIN samples
    BY <1>3, <1>8, <1>9, <2>1
  <2>2. CASE i = Len(samples) + 1
    BY <1>1, <1>6, <1>8, <1>9, <2>2
  <2>3. QED
    BY <1>10, <2>1, <2>2
<1>12. warned' = UNION {Scan[samples'[i]] : i \in DOMAIN samples'}
  <2>1. \A at : at \in warned <=> \E i \in DOMAIN samples : at \in Scan[samples[i]]
    BY <1>3
  <2>2. \A at : at \in warned' <=> at \in warned \/ at \in Scan[w]
    BY <1>5
  <2>3. \A i \in DOMAIN samples : i \in DOMAIN samples' /\ samples'[i] = samples[i]
    BY <1>8
  <2>4. Len(samples) + 1 \in DOMAIN samples' /\ samples'[Len(samples) + 1] = w
    BY <1>8
  <2>5. \A at : at \in warned' <=> \E i \in DOMAIN samples' : at \in Scan[samples'[i]]
    BY <1>10, <2>1, <2>2, <2>3, <2>4
  <2>6. QED
    BY <2>5
<1>13. QED
  BY <1>1, <1>3, <1>4, <1>5, <1>7, <1>8, <1>9, <1>11, <1>12 DEF SampInv

LEMMA SampStep == SampInv /\ [SampNext]_sampVars => SampInv'
<1> SUFFICES ASSUME SampInv, [SampNext]_sampVars PROVE SampInv'
  OBVIOUS
<1>1. ASSUME NEW c \in Config, Configure(c) PROVE SampInv'
  BY <1>1 DEF SampInv, Configure
<1>2. ASSUME NEW v \in Value, Record(v) PROVE SampInv'
  BY <1>2, RecordStep
<1>3. CASE UNCHANGED sampVars
  BY <1>3 DEF SampInv, sampVars
<1>4. QED
  BY <1>1, <1>2, <1>3 DEF SampNext

(***************************************************************************)
(* Each sample is the redaction of a body under the configuration it met,  *)
(* and scan has warned about what the samples still show (record_side of   *)
(* src/layer.rs).                                                          *)
(***************************************************************************)
THEOREM SamplingHolds == SampSpec => []SampInv
<1>1. SampInit => SampInv
  BY SampBase
<1>2. SampInv /\ [SampNext]_sampVars => SampInv'
  BY SampStep
<1>3. QED
  BY <1>1, <1>2, PTL DEF SampSpec

-----------------------------------------------------------------------------
(* The properties of the schema that hold of any list of samples.          *)

(***************************************************************************)
(* For any number of bodies of any depth: every sample validates against   *)
(* the schema inferred from them all, unless values of no common type were *)
(* observed together with a null (infer_schema of src/infer.rs).           *)
(***************************************************************************)
THEOREM SamplesValidate == SampSpec => []SamplesValidateUnlessMixed
<1>1. SampInv => SamplesValidateUnlessMixed
  BY SamplesAreValid DEF SampInv
<1>2. QED
  BY <1>1, SamplingHolds, PTL

(***************************************************************************)
(* However many samples, no assertion of their schema depends on their     *)
(* order: swapping any two changes at most examples (src/infer.rs).        *)
(***************************************************************************)
THEOREM OrderIrrelevant == SampSpec => []OrderAssertsNothing
<1>1. SampInv => OrderAssertsNothing
  BY OrderIsNotAsserted DEF SampInv
<1>2. QED
  BY <1>1, SamplingHolds, PTL

(***************************************************************************)
(* At any depth, a field is required only if at least two objects were     *)
(* observed at that place and all had it (infer_object of src/infer.rs).   *)
(***************************************************************************)
THEOREM RequiredRestsOnTwo == SampSpec => []RequiredIsObserved
<1>1. SampInv => RequiredIsObserved
  BY RequiredWasObserved DEF SampInv
<1>2. QED
  BY <1>1, SamplingHolds, PTL

(***************************************************************************)
(* At any depth, null is in a type list only where a null was observed, or *)
(* no value at all (make_nullable and infer_schema of src/infer.rs).       *)
(***************************************************************************)
THEOREM NullRestsOnEvidence == SampSpec => []NullOnEvidenceOrEmpty
<1>1. SampInv => NullOnEvidenceOrEmpty
  BY NullWasObserved DEF SampInv
<1>2. QED
  BY <1>1, SamplingHolds, PTL

(***************************************************************************)
(* From two objects on, one more body never removes a property and never   *)
(* adds a requirement (infer_object of src/infer.rs).                      *)
(***************************************************************************)
THEOREM BodiesUniteAndIntersect == SampSpec => UnionAndIntersect
<1> DEFINE Grows == Len(samples) >= 2 /\ AllOf(samples', "obj") =>
             /\ Root(schema).properties \subseteq Root(schema').properties
             /\ Root(schema').required \subseteq Root(schema).required
<1>1. SampInv /\ SampInv' /\ [SampNext]_sampVars => [Grows]_samples
  <2> SUFFICES ASSUME SampInv, SampInv', [SampNext]_sampVars, samples' # samples,
                      Len(samples) >= 2, AllOf(samples', "obj")
               PROVE  /\ Root(schema).properties \subseteq Root(schema').properties
                      /\ Root(schema').required \subseteq Root(schema).required
    OBVIOUS
  <2>1. PICK v \in Value : Record(v)
    BY DEF SampNext, Configure, sampVars
  <2>2. samples' = Append(samples, RedactWith(config, v))
    BY <2>1, RecordStep
  <2>3. PICK vs, us : vs = samples /\ us = samples'
    OBVIOUS
  <2>4. vs \in Seq(Json) /\ us \in Seq(Json) /\ us = Append(vs, RedactWith(config, v))
    BY <2>2, <2>3 DEF SampInv
  <2>5. schema = InferSchema[vs] /\ schema' = InferSchema[us]
    BY <2>3 DEF schema
  <2>6. /\ Root(InferSchema[vs]).properties \subseteq Root(InferSchema[us]).properties
        /\ Root(InferSchema[us]).required \subseteq Root(InferSchema[vs]).required
    BY <2>3, <2>4, OneMoreObject
  <2>7. QED
    BY <2>5, <2>6
<1>2. QED
  BY <1>1, SamplingHolds, PTL DEF SampSpec, UnionAndIntersect

-----------------------------------------------------------------------------
(* The properties of redaction, and of what is shown.                      *)

LEMMA SampleIsRedacted ==
  ASSUME SampInv, NEW i \in DOMAIN samples
  PROVE  /\ i \in DOMAIN raw /\ raw[i].body \in Json /\ raw[i].config \in Config \cup {{}}
         /\ samples[i] = RedactWith(raw[i].config, raw[i].body) /\ samples[i] \in Json
<1>1. DOMAIN raw = DOMAIN samples
  BY DEF SampInv
<1>2. raw[i].body \in Value /\ raw[i].config \in Config \cup {{}}
  <2>1. PICK R : R = [body : Value, config : Config \cup {{}}]
    OBVIOUS
  <2>2. raw \in Seq(R)
    BY <2>1 DEF SampInv
  <2>3. raw[i] \in R
    BY <1>1, <2>2
  <2>4. QED
    BY <2>1, <2>3
<1>3. QED
  BY <1>1, <1>2, InferAssumption DEF SampInv

(***************************************************************************)
(* For any body and any set of declared fields: each outermost declared    *)
(* field shows the marker and nothing below it, and every value under no   *)
(* declared field is as it came (redact_with of src/redact.rs).            *)
(***************************************************************************)
THEOREM RedactsExactly == SampSpec => []RedactionIsExact
<1>1. SampInv => RedactionIsExact
  <2> SUFFICES ASSUME SampInv, NEW i \in DOMAIN samples, NEW c, c = raw[i].config,
                      NEW v, v = raw[i].body
               PROVE  Leaves(samples[i]) =
                        {p \in Leaves(v) : Declared(p.at, c) = {}} \cup
                        {[at |-> p.at, is |-> Marker] :
                           p \in {q \in Parts[v] : Declared(q.at, c) = {Len(q.at)}}}
    BY DEF RedactionIsExact
  <2>1. v \in Json /\ c \in Config \cup {{}} /\ samples[i] = RedactWith(c, v)
    BY SampleIsRedacted
  <2> DEFINE masked == {[at |-> p.at, is |-> Marker] :
                          p \in {q \in Parts[v] : Declared(q.at, c) = {Len(q.at)}}}
  <2>2. \A p : p \in masked <=>
          \E q \in Parts[v] : Outermost(q.at, c) /\ p = [at |-> q.at, is |-> Marker]
    BY DEF Outermost
  <2> HIDE DEF masked
  <2>3. \A p : p \in Leaves(samples[i]) <=> Left(p, v, c)
    BY <2>1, RedactionLeaves
  <2>4. \A p : p \in Leaves(samples[i]) <=>
          p \in {q \in Leaves(v) : Declared(q.at, c) = {}} \cup masked
    BY <2>2, <2>3 DEF Left
  <2>5. Leaves(samples[i]) = {q \in Leaves(v) : Declared(q.at, c) = {}} \cup masked
    BY <2>4
  <2>6. QED
    BY <2>5 DEF masked
<1>2. QED
  BY <1>1, SamplingHolds, PTL

(***************************************************************************)
(* For any bodies: a field declared before the first of them is described, *)
(* wherever it occurs, as a string whose only example is the marker        *)
(* (src/redact.rs with src/infer.rs).                                      *)
(***************************************************************************)
THEOREM MarkerIsShown == SampSpec => []DeclaredShowsMarker
<1>1. SampInv => DeclaredShowsMarker
  <2> SUFFICES ASSUME SampInv PROVE DeclaredShowsMarker
    OBVIOUS
  <2>1. PICK A : A = AlwaysDeclared
    OBVIOUS
  <2>2. samples \in Seq(Json)
    BY DEF SampInv
  <2>3. ASSUME NEW i \in DOMAIN samples PROVE Masks(samples[i], A)
    <3>1. PICK c \in Config \cup {{}} : c = raw[i].config
      BY SampleIsRedacted
    <3>2. i \in DOMAIN raw /\ raw[i].body \in Json /\ samples[i] = RedactWith(c, raw[i].body)
      BY <3>1, SampleIsRedacted
    <3>3. A \subseteq c
      BY <2>1, <3>1, <3>2 DEF AlwaysDeclared
    <3>4. Masks(samples[i], c)
      BY <3>2, RedactionMasks
    <3>5. QED
      BY <3>3, <3>4, MasksFewer
  <2>4. ASSUME NEW t \in schema, Declared(t.at, A) # {}
        PROVE  Declared(t.at, A) = {Len(t.at)} /\ t.is = [type |-> {"string"}, examples |-> {Marker}]
    <3>1. AllMask(samples, A) /\ t \in InferSchema[samples]
      BY <2>3 DEF AllMask, schema
    <3>2. ShowsMarker(t, A)
      BY <2>2, <3>1, MaskedSchema
    <3>3. QED
      BY <2>4, <3>2 DEF ShowsMarker, Outermost, MarkerKeywords
  <2>5. ASSUME NEW x \in Shown(schema), Declared(x.at, A) # {} PROVE x.is = Marker
    <3>1. PICK i \in DOMAIN samples : \E leaf : Witnesses(i, leaf, x)
      BY <2>2, ShownIsObserved
    <3>2. PICK leaf : Witnesses(i, leaf, x)
      BY <3>1
    <3>3. leaf \in Parts[samples[i]] /\ Place(leaf.at) = x.at /\ leaf.is = x.is
      BY <3>2 DEF Witnesses, Leaves
    <3>4. leaf.at \in Seq(Steps)
      BY <2>2, <3>3, ListShape, PartShape
    <3>5. Declared(leaf.at, A) # {}
      BY <2>5, <3>3, <3>4, DeclaredPlace
    <3>6. QED
      BY <2>3, <3>3, <3>5 DEF Masks
  <2>6. QED
    BY <2>1, <2>4, <2>5 DEF DeclaredShowsMarker
<1>2. QED
  BY <1>1, SamplingHolds, PTL

(***************************************************************************)
(* For any bodies: a high-entropy value that an example shows was warned   *)
(* about at that place, and each warning is about a value that a sample    *)
(* still has there; keys are no values (scan of src/redact.rs with         *)
(* add_examples of src/infer.rs).                                          *)
(***************************************************************************)
THEOREM WarningsMatch == SampSpec => []WarnedWhereShown
<1>1. SampInv => WarnedWhereShown
  <2> SUFFICES ASSUME SampInv PROVE WarnedWhereShown
    OBVIOUS
  <2>1. samples \in Seq(Json)
    BY DEF SampInv
  <2>2. \A at : at \in warned <=> \E i \in DOMAIN samples : at \in Scan[samples[i]]
    BY DEF SampInv
  <2>3. \A v : Secret(v) <=> Warns(v)
    BY DEF Secret, Warns
  <2>4. ASSUME NEW x \in Shown(schema), Secret(x.is) PROVE \E at \in warned : Place(at) = x.at
    <3>1. PICK i \in DOMAIN samples : \E leaf : Witnesses(i, leaf, x)
      BY <2>1, ShownIsObserved
    <3>2. PICK leaf : Witnesses(i, leaf, x)
      BY <3>1
    <3>3. leaf \in Parts[samples[i]] /\ Place(leaf.at) = x.at /\ leaf.is = x.is
      BY <3>2 DEF Witnesses, Leaves
    <3>4. samples[i] \in Json
      BY <2>1, ListShape
    <3>5. leaf.at \in Scan[samples[i]]
      BY <2>3, <2>4, <3>3, <3>4, ScanFinds
    <3>6. QED
      BY <2>2, <3>3, <3>5
  <2>5. ASSUME NEW at \in warned
        PROVE  \E i \in DOMAIN samples : \E leaf \in Leaves(samples[i]) :
                 leaf.at = at /\ Secret(leaf.is)
    <3>1. PICK i \in DOMAIN samples : at \in Scan[samples[i]]
      BY <2>2
    <3>2. samples[i] \in Json
      BY <2>1, ListShape
    <3>3. PICK p \in Parts[samples[i]] : p.at = at /\ Warns(p.is)
      BY <3>1, <3>2, ScanFinds
    <3>4. p.is \in Json /\ p.is.k = "str"
      BY <3>2, <3>3, PartShape DEF Warns
    <3>5. DOMAIN Children(p.is) = {}
      BY <3>4, NoChildren
    <3>6. p \in Leaves(samples[i])
      BY <3>5 DEF Leaves
    <3>7. QED
      BY <2>3, <3>3, <3>6
  <2>6. QED
    BY <2>4, <2>5 DEF WarnedWhereShown
<1>2. QED
  BY <1>1, SamplingHolds, PTL
===============================================================================
