----------------------------- MODULE InferProofs ------------------------------
(***************************************************************************)
(* Proofs about JSON values of any depth, by induction on how deep a value *)
(* is nested, and about infer_schema for any number of such samples.       *)
(***************************************************************************)
EXTENDS Infer, ListsProofs

\* The steps that lead from some value to a part of it.
Steps == UNION {DOMAIN Children(v) : v \in Json}
Part  == [at : Seq(Steps), is : Json]

LEMMA ChildOf ==
  ASSUME NEW v \in Json
  PROVE  /\ Depth \in [Json -> Nat] /\ Depth[v] \in Nat
         /\ \A s \in DOMAIN Children(v) :
              /\ s \in Steps /\ Children(v)[s] \in Json
              /\ Depth[Children(v)[s]] \in Nat /\ Depth[Children(v)[s]] < Depth[v]
<1>1. Depth \in [Json -> Nat]
  BY JsonAssumption
<1>2. \A s \in DOMAIN Children(v) :
        Children(v)[s] \in Json /\ Depth[Children(v)[s]] < Depth[v]
  BY JsonAssumption
<1>3. \A s \in DOMAIN Children(v) : s \in Steps
  BY DEF Steps
<1>4. QED
  BY <1>1, <1>2, <1>3

\* What holds of a value whenever it holds of its children holds of all values.
LEMMA JsonInduction ==
  ASSUME NEW S,
         \A v \in Json : (\A s \in DOMAIN Children(v) : Children(v)[s] \in S) => v \in S
  PROVE  \A v \in Json : v \in S
<1> DEFINE T == {n \in Nat : \A v \in Json : Depth[v] < n => v \in S}
<1>1. 0 \in T
  BY ChildOf
<1>2. ASSUME NEW n \in Nat, n \in T PROVE n + 1 \in T
  <2> SUFFICES ASSUME NEW v \in Json, Depth[v] < n + 1 PROVE v \in S
    OBVIOUS
  <2>1. ASSUME NEW s \in DOMAIN Children(v) PROVE Children(v)[s] \in S
    <3>1. /\ Children(v)[s] \in Json /\ Depth[v] \in Nat
          /\ Depth[Children(v)[s]] \in Nat /\ Depth[Children(v)[s]] < Depth[v]
      BY ChildOf
    <3>2. Depth[Children(v)[s]] < n
      BY <3>1
    <3>3. QED
      BY <1>2, <3>1, <3>2
  <2>2. QED
    BY <2>1
<1> HIDE DEF T
<1>3. \A n \in Nat : n \in T
  BY <1>1, <1>2, Induction
<1>4. ASSUME NEW v \in Json PROVE v \in S
  <2>1. Depth[v] \in Nat /\ Depth[v] + 1 \in Nat /\ Depth[v] < Depth[v] + 1
    BY ChildOf
  <2>2. QED
    BY <1>3, <2>1 DEF T
<1>5. QED
  BY <1>4

-----------------------------------------------------------------------------
(* A step in front of a location.                                          *)

LEMMA FrontStep ==
  ASSUME NEW X, NEW s \in X, NEW a \in Seq(X)
  PROVE  /\ <<s>> \o a \in Seq(X) /\ <<s>> \o a # <<>>
         /\ Len(a) \in Nat /\ Len(<<s>> \o a) = Len(a) + 1
         /\ DOMAIN a = 1..Len(a) /\ DOMAIN (<<s>> \o a) = 1..(Len(a) + 1)
         /\ (<<s>> \o a)[1] = s
         /\ \A n \in 1..Len(a) : (<<s>> \o a)[n + 1] = a[n]
OBVIOUS

LEMMA FrontInjective ==
  ASSUME NEW X, NEW s \in X, NEW t \in X, NEW a \in Seq(X), NEW b \in Seq(X),
         <<s>> \o a = <<t>> \o b
  PROVE  s = t /\ a = b
<1>1. s = t
  <2>1. (<<s>> \o a)[1] = s /\ (<<t>> \o b)[1] = t
    BY FrontStep
  <2>2. QED
    BY <2>1
<1>2. Len(a) = Len(b) /\ Len(a) \in Nat /\ Len(b) \in Nat
  <2>1. Len(<<s>> \o a) = Len(a) + 1 /\ Len(<<t>> \o b) = Len(b) + 1
    BY FrontStep
  <2>2. Len(a) \in Nat /\ Len(b) \in Nat
    OBVIOUS
  <2>3. QED
    BY <2>1, <2>2
<1>3. \A n \in 1..Len(a) : a[n] = b[n]
  <2>1. \A n \in 1..Len(a) : (<<s>> \o a)[n + 1] = a[n]
    BY FrontStep
  <2>2. \A n \in 1..Len(b) : (<<t>> \o b)[n + 1] = b[n]
    BY FrontStep
  <2>3. QED
    BY <1>2, <2>1, <2>2
<1>4. QED
  BY <1>1, <1>2, <1>3

LEMMA FrontAssociative ==
  ASSUME NEW X, NEW s \in X, NEW a \in Seq(X), NEW b \in Seq(X)
  PROVE  (<<s>> \o a) \o b = <<s>> \o (a \o b)
OBVIOUS

-----------------------------------------------------------------------------
(* Parts.                                                                  *)

\* A part of a child, as a part of its parent.
Behind(s, q) == [at |-> <<s>> \o q.at, is |-> q.is]

LEMMA InUnder ==
  ASSUME NEW s, NEW S, NEW p
  PROVE  p \in Under(s, S) <=> \E q \in S : p = Behind(s, q)
BY DEF Under, Behind

LEMMA HereIsPart ==
  ASSUME NEW v \in Json, NEW p \in Here(v)
  PROVE  p \in Part
<1>1. <<>> \in Seq(Steps)
  OBVIOUS
<1>2. p = [at |-> <<>>, is |-> v]
  BY DEF Here
<1>3. QED
  BY <1>1, <1>2 DEF Part

LEMMA PartsDefined ==
  /\ Parts = [v \in Json |-> Here(v) \cup
                UNION {Under(s, Parts[Children(v)[s]]) : s \in DOMAIN Children(v)}]
  /\ Parts \in [Json -> SUBSET Part]
<1> DEFINE X == SUBSET Part
           next(g, v) == Here(v) \cup UNION {Under(s, g[Children(v)[s]]) : s \in DOMAIN Children(v)}
           F == [p \in [Json -> X] \X Json |-> next(p[1], p[2])]
           Recursive(f) == f = [v \in Json |-> Here(v) \cup
                UNION {Under(s, f[Children(v)[s]]) : s \in DOMAIN Children(v)}]
<1>1. \A g \in [Json -> X] : \A v \in Json : next(g, v) \in X
  <2> SUFFICES ASSUME NEW g \in [Json -> X], NEW v \in Json, NEW p \in next(g, v)
               PROVE  p \in Part
    OBVIOUS
  <2>1. CASE p \in Here(v)
    BY <2>1, HereIsPart
  <2>2. ASSUME NEW s \in DOMAIN Children(v), p \in Under(s, g[Children(v)[s]])
        PROVE  p \in Part
    <3>1. PICK q \in g[Children(v)[s]] : p = Behind(s, q)
      BY <2>2, InUnder
    <3>2. s \in Steps /\ Children(v)[s] \in Json
      BY ChildOf
    <3>3. q \in Part
      BY <3>1, <3>2
    <3>4. q.at \in Seq(Steps) /\ q.is \in Json
      BY <3>3 DEF Part
    <3>5. <<s>> \o q.at \in Seq(Steps)
      BY <3>2, <3>4, FrontStep
    <3>6. QED
      BY <3>1, <3>4, <3>5 DEF Part, Behind
  <2>3. QED
    BY <2>1, <2>2
<1>2. F \in [[Json -> X] \X Json -> X] /\ \A g \in [Json -> X] : \A v \in Json : F[<<g, v>>] = next(g, v)
  <2> HIDE DEF next, X
  <2>1. QED
    BY <1>1
<1>3. Local(Json, Depth, X, F)
  <2>1. ASSUME NEW v \in Json, NEW g \in [Json -> X], NEW h \in [Json -> X],
               \A u \in Json : Depth[u] < Depth[v] => g[u] = h[u]
        PROVE  F[<<g, v>>] = F[<<h, v>>]
    <3>1. \A s \in DOMAIN Children(v) : g[Children(v)[s]] = h[Children(v)[s]]
      BY <2>1, ChildOf
    <3>2. next(g, v) = next(h, v)
      BY <3>1
    <3> HIDE DEF F, next
    <3>3. QED
      BY <1>2, <3>2
  <2> HIDE DEF F, X
  <2>2. QED
    BY <1>2, <2>1, JsonAssumption DEF Local
<1>4. PICK f : Solves(f, Json, X, F)
  <2>1. X # {}
    BY DEF X
  <2> HIDE DEF F, X
  <2>2. QED
    BY <1>3, <2>1, Recursion
<1>5. f \in [Json -> X] /\ \A v \in Json : f[v] = next(f, v)
  <2> HIDE DEF F, X, next
  <2>1. QED
    BY <1>2, <1>4 DEF Solves
<1>6. Recursive(f)
  <2> HIDE DEF X
  <2>1. QED
    BY <1>5
<1>7. Recursive(Parts)
  BY <1>6 DEF Parts
<1>8. \A v \in Json : Parts[v] = next(Parts, v)
  BY <1>7
<1>9. \A v \in Json : Parts[v] \in X
  <2> DEFINE S == {v \in Json : Parts[v] \in X}
  <2>1. ASSUME NEW v \in Json, \A s \in DOMAIN Children(v) : Children(v)[s] \in S
        PROVE  v \in S
    <3> SUFFICES ASSUME NEW p \in Parts[v] PROVE p \in Part
      OBVIOUS
    <3>1. CASE p \in Here(v)
      BY <3>1, HereIsPart
    <3>2. ASSUME NEW s \in DOMAIN Children(v), p \in Under(s, Parts[Children(v)[s]])
          PROVE  p \in Part
      <4>1. PICK q \in Parts[Children(v)[s]] : p = Behind(s, q)
        BY <3>2, InUnder
      <4>2. s \in Steps /\ q \in Part
        BY <2>1, <4>1, ChildOf
      <4>3. q.at \in Seq(Steps) /\ q.is \in Json
        BY <4>2 DEF Part
      <4>4. <<s>> \o q.at \in Seq(Steps)
        BY <4>2, <4>3, FrontStep
      <4>5. QED
        BY <4>1, <4>3, <4>4 DEF Part, Behind
    <3>3. QED
      BY <1>8, <3>1, <3>2
  <2> HIDE DEF S
  <2>2. \A v \in Json : v \in S
    BY <2>1, JsonInduction
  <2>3. QED
    BY <2>2 DEF S
<1>10. Parts \in [Json -> X]
  BY <1>7, <1>9
<1>11. QED
  BY <1>7, <1>10

\* A part of v is v itself, or a part of one of its children.
LEMMA PartsUnfold ==
  ASSUME NEW v \in Json
  PROVE  /\ Parts[v] \subseteq Part
         /\ \A p : p \in Parts[v] <=>
              \/ p = [at |-> <<>>, is |-> v]
              \/ \E s \in DOMAIN Children(v) : \E q \in Parts[Children(v)[s]] : p = Behind(s, q)
<1>1. Parts[v] = Here(v) \cup UNION {Under(s, Parts[Children(v)[s]]) : s \in DOMAIN Children(v)}
  BY PartsDefined
<1>2. Parts[v] \subseteq Part
  BY PartsDefined
<1>3. ASSUME NEW p
      PROVE  p \in Parts[v] <=>
              \/ p = [at |-> <<>>, is |-> v]
              \/ \E s \in DOMAIN Children(v) : \E q \in Parts[Children(v)[s]] : p = Behind(s, q)
  <2>1. p \in Parts[v] <=> p \in Here(v) \/ \E s \in DOMAIN Children(v) : p \in Under(s, Parts[Children(v)[s]])
    BY <1>1
  <2>2. QED
    BY <2>1, InUnder DEF Here
<1>4. QED
  BY <1>2, <1>3

LEMMA ItselfIsPart ==
  ASSUME NEW v \in Json
  PROVE  [at |-> <<>>, is |-> v] \in Parts[v]
BY PartsUnfold

LEMMA PartShape ==
  ASSUME NEW v \in Json, NEW p \in Parts[v]
  PROVE  p.at \in Seq(Steps) /\ p.is \in Json /\ p = [at |-> p.at, is |-> p.is]
<1>1. p \in Part
  BY PartsUnfold
<1>2. QED
  BY <1>1 DEF Part

LEMMA BehindShape ==
  ASSUME NEW v \in Json, NEW s \in DOMAIN Children(v), NEW q \in Parts[Children(v)[s]]
  PROVE  /\ Behind(s, q) \in Parts[v] /\ Behind(s, q).is = q.is
         /\ Behind(s, q).at = <<s>> \o q.at /\ Behind(s, q).at # <<>>
         /\ s \in Steps /\ q.at \in Seq(Steps) /\ Children(v)[s] \in Json /\ q.is \in Json
<1>1. s \in Steps /\ Children(v)[s] \in Json
  BY ChildOf
<1>2. q.at \in Seq(Steps) /\ q.is \in Json
  BY <1>1, PartShape
<1>3. Behind(s, q) \in Parts[v]
  BY PartsUnfold
<1>4. <<s>> \o q.at # <<>>
  BY <1>1, <1>2, FrontStep
<1>5. QED
  BY <1>1, <1>2, <1>3, <1>4 DEF Behind

\* Only v itself is at the empty location.
LEMMA PartHere ==
  ASSUME NEW v \in Json, NEW p \in Parts[v], p.at = <<>>
  PROVE  p.is = v
<1>1. CASE p = [at |-> <<>>, is |-> v]
  BY <1>1
<1>2. ASSUME NEW s \in DOMAIN Children(v), NEW q \in Parts[Children(v)[s]], p = Behind(s, q)
      PROVE  FALSE
  BY <1>2, BehindShape
<1>3. QED
  BY <1>1, <1>2, PartsUnfold

\* The parts of a part are parts.
LEMMA PartsTransitive ==
  \A v \in Json : \A p \in Parts[v] : \A q \in Parts[p.is] :
    [at |-> p.at \o q.at, is |-> q.is] \in Parts[v]
<1> DEFINE Holds(v) == \A p \in Parts[v] : \A q \in Parts[p.is] :
                         [at |-> p.at \o q.at, is |-> q.is] \in Parts[v]
           S == {v \in Json : Holds(v)}
<1>1. ASSUME NEW v \in Json, \A s \in DOMAIN Children(v) : Children(v)[s] \in S
      PROVE  v \in S
  <2> SUFFICES ASSUME NEW p \in Parts[v], NEW q \in Parts[p.is]
               PROVE  [at |-> p.at \o q.at, is |-> q.is] \in Parts[v]
    OBVIOUS
  <2>1. p.is \in Json /\ q.at \in Seq(Steps) /\ q = [at |-> q.at, is |-> q.is]
    BY PartShape
  <2>2. CASE p = [at |-> <<>>, is |-> v]
    <3>1. p.at \o q.at = q.at
      BY <2>1, <2>2
    <3>2. QED
      BY <2>1, <2>2, <3>1
  <2>3. ASSUME NEW s \in DOMAIN Children(v), NEW r \in Parts[Children(v)[s]], p = Behind(s, r)
        PROVE  [at |-> p.at \o q.at, is |-> q.is] \in Parts[v]
    <3>1. p.is = r.is /\ p.at = <<s>> \o r.at /\ s \in Steps /\ r.at \in Seq(Steps)
      BY <2>3, BehindShape
    <3> DEFINE u == [at |-> r.at \o q.at, is |-> q.is]
    <3>2. u \in Parts[Children(v)[s]]
      BY <1>1, <2>3, <3>1
    <3>3. Behind(s, u) \in Parts[v]
      BY <3>2, BehindShape
    <3>4. \A a, b \in Seq(Steps) : (<<s>> \o a) \o b = <<s>> \o (a \o b)
      BY <3>1, FrontAssociative
    <3>5. Behind(s, u) = [at |-> p.at \o q.at, is |-> q.is]
      <4>1. (<<s>> \o r.at) \o q.at = <<s>> \o (r.at \o q.at)
        BY <2>1, <3>1, <3>4
      <4>2. Behind(s, u) = [at |-> <<s>> \o (r.at \o q.at), is |-> q.is]
        BY DEF Behind
      <4>3. QED
        BY <3>1, <4>1, <4>2
    <3>6. QED
      BY <3>3, <3>5
  <2>4. \/ p = [at |-> <<>>, is |-> v]
        \/ \E s \in DOMAIN Children(v) : \E r \in Parts[Children(v)[s]] : p = Behind(s, r)
    BY PartsUnfold
  <2>5. QED
    BY <2>2, <2>3, <2>4
<1> HIDE DEF S
<1>2. \A v \in Json : v \in S
  BY <1>1, JsonInduction
<1>3. QED
  BY <1>2 DEF S

\* A leaf of v is v itself, if it has no children, or a leaf of one of them.
LEMMA LeavesUnfold ==
  ASSUME NEW v \in Json
  PROVE  \A p : p \in Leaves(v) <=>
           \/ DOMAIN Children(v) = {} /\ p = [at |-> <<>>, is |-> v]
           \/ \E s \in DOMAIN Children(v) : \E q \in Leaves(Children(v)[s]) : p = Behind(s, q)
<1> SUFFICES ASSUME NEW p
             PROVE  p \in Leaves(v) <=>
           \/ DOMAIN Children(v) = {} /\ p = [at |-> <<>>, is |-> v]
           \/ \E s \in DOMAIN Children(v) : \E q \in Leaves(Children(v)[s]) : p = Behind(s, q)
  OBVIOUS
<1>1. p \in Leaves(v) <=> p \in Parts[v] /\ DOMAIN Children(p.is) = {}
  BY DEF Leaves
<1>2. \A s \in DOMAIN Children(v) : \A q :
        q \in Leaves(Children(v)[s]) <=> q \in Parts[Children(v)[s]] /\ DOMAIN Children(q.is) = {}
  BY DEF Leaves
<1>3. \A s \in DOMAIN Children(v) : \A q : Behind(s, q).is = q.is
  BY DEF Behind
<1>4. p = [at |-> <<>>, is |-> v] => p.is = v
  OBVIOUS
<1>5. QED
  BY <1>1, <1>2, <1>3, <1>4, PartsUnfold

-----------------------------------------------------------------------------
(* Places.                                                                 *)

Places == {PlaceOf(s) : s \in Steps} \cup {Element}

LEMMA PlaceIsList ==
  ASSUME NEW a \in Seq(Steps)
  PROVE  /\ Place(a) \in Seq(Places) /\ Len(a) \in Nat /\ Len(Place(a)) = Len(a)
         /\ DOMAIN a = 1..Len(a) /\ DOMAIN Place(a) = 1..Len(a)
         /\ \A n \in 1..Len(a) : a[n] \in Steps /\ Place(a)[n] = PlaceOf(a[n])
<1>1. Len(a) \in Nat /\ DOMAIN a = 1..Len(a) /\ \A n \in 1..Len(a) : a[n] \in Steps
  OBVIOUS
<1>2. Place(a) = [n \in 1..Len(a) |-> PlaceOf(a[n])]
  BY <1>1 DEF Place
<1>3. \A n \in 1..Len(a) : PlaceOf(a[n]) \in Places
  BY <1>1 DEF Places
<1>4. Place(a) \in [1..Len(a) -> Places]
  BY <1>2, <1>3
<1>5. Place(a) \in Seq(Places) /\ Len(Place(a)) = Len(a)
  BY <1>1, <1>4, ListOfLength
<1>6. QED
  BY <1>1, <1>2, <1>5

LEMMA PlaceEmpty ==
  /\ Place(<<>>) = <<>>
  /\ \A a \in Seq(Steps) : Place(a) = <<>> => a = <<>>
<1>1. Place(<<>>) = <<>>
  BY DEF Place
<1>2. ASSUME NEW a \in Seq(Steps), Place(a) = <<>> PROVE a = <<>>
  <2>1. Len(Place(a)) = Len(a)
    BY PlaceIsList
  <2>2. Len(a) = 0
    BY <1>2, <2>1
  <2>3. QED
    BY <2>2
<1>3. QED
  BY <1>1, <1>2

LEMMA PlaceFront ==
  ASSUME NEW s \in Steps, NEW a \in Seq(Steps)
  PROVE  PlaceOf(s) \in Places /\ Place(<<s>> \o a) = <<PlaceOf(s)>> \o Place(a)
<1> DEFINE b == <<s>> \o a
           c == <<PlaceOf(s)>> \o Place(a)
<1>1. PlaceOf(s) \in Places
  BY DEF Places
<1>2. /\ Place(a) \in Seq(Places) /\ Len(a) \in Nat /\ Len(Place(a)) = Len(a)
      /\ \A n \in 1..Len(a) : Place(a)[n] = PlaceOf(a[n])
  BY PlaceIsList
<1>3. /\ b \in Seq(Steps) /\ Len(b) = Len(a) + 1 /\ b[1] = s
      /\ \A n \in 1..Len(a) : b[n + 1] = a[n]
  BY FrontStep
<1>4. /\ c \in Seq(Places) /\ Len(c) = Len(a) + 1 /\ c[1] = PlaceOf(s)
      /\ \A n \in 1..Len(a) : c[n + 1] = Place(a)[n]
  BY <1>1, <1>2, FrontStep
<1> HIDE DEF b, c
<1>5. /\ Place(b) \in Seq(Places) /\ Len(Place(b)) = Len(a) + 1
      /\ \A n \in 1..(Len(a) + 1) : Place(b)[n] = PlaceOf(b[n])
  BY <1>3, PlaceIsList
<1>6. ASSUME NEW n \in 1..(Len(a) + 1) PROVE Place(b)[n] = c[n]
  <2>1. CASE n = 1
    BY <1>3, <1>4, <1>5, <2>1
  <2>2. CASE n # 1
    <3>1. n - 1 \in 1..Len(a) /\ (n - 1) + 1 = n
      BY <1>2, <2>2
    <3>2. b[n] = a[n - 1] /\ c[n] = Place(a)[n - 1]
      BY <1>3, <1>4, <3>1
    <3>3. QED
      BY <1>2, <1>5, <3>1, <3>2
  <2>3. QED
    BY <2>1, <2>2
<1>7. Place(b) = c
  BY <1>2, <1>4, <1>5, <1>6
<1>8. QED
  BY <1>1, <1>7 DEF b, c

LEMMA ConcatShape ==
  ASSUME NEW X, NEW a \in Seq(X), NEW b \in Seq(X)
  PROVE  /\ a \o b \in Seq(X) /\ Len(a \o b) = Len(a) + Len(b)
         /\ \A n \in 1..Len(a) : (a \o b)[n] = a[n]
         /\ \A n \in 1..Len(b) : (a \o b)[Len(a) + n] = b[n]
OBVIOUS

LEMMA PlaceConcat ==
  ASSUME NEW a \in Seq(Steps), NEW b \in Seq(Steps)
  PROVE  a \o b \in Seq(Steps) /\ Place(a \o b) = Place(a) \o Place(b)
<1> DEFINE c == a \o b
           d == Place(a) \o Place(b)
<1>1. /\ Place(a) \in Seq(Places) /\ Len(a) \in Nat /\ Len(Place(a)) = Len(a)
      /\ \A n \in 1..Len(a) : Place(a)[n] = PlaceOf(a[n])
  BY PlaceIsList
<1>2. /\ Place(b) \in Seq(Places) /\ Len(b) \in Nat /\ Len(Place(b)) = Len(b)
      /\ \A n \in 1..Len(b) : Place(b)[n] = PlaceOf(b[n])
  BY PlaceIsList
<1>3. /\ c \in Seq(Steps) /\ Len(c) = Len(a) + Len(b)
      /\ \A n \in 1..Len(a) : c[n] = a[n]
      /\ \A n \in 1..Len(b) : c[Len(a) + n] = b[n]
  OBVIOUS
<1>4. /\ d \in Seq(Places) /\ Len(d) = Len(a) + Len(b)
      /\ \A n \in 1..Len(a) : d[n] = Place(a)[n]
      /\ \A n \in 1..Len(b) : d[Len(a) + n] = Place(b)[n]
  <2>1. /\ d \in Seq(Places) /\ Len(d) = Len(Place(a)) + Len(Place(b))
        /\ \A n \in 1..Len(Place(a)) : d[n] = Place(a)[n]
        /\ \A n \in 1..Len(Place(b)) : d[Len(Place(a)) + n] = Place(b)[n]
    <3>1. Place(a) \in Seq(Places) /\ Place(b) \in Seq(Places)
      BY <1>1, <1>2
    <3>2. QED
      BY <3>1, ConcatShape
  <2>2. QED
    BY <1>1, <1>2, <2>1
<1> HIDE DEF c, d
<1>5. /\ Place(c) \in Seq(Places) /\ Len(Place(c)) = Len(a) + Len(b)
      /\ \A n \in 1..(Len(a) + Len(b)) : Place(c)[n] = PlaceOf(c[n])
  BY <1>3, PlaceIsList
<1>6. ASSUME NEW n \in 1..(Len(a) + Len(b)) PROVE Place(c)[n] = d[n]
  <2>1. CASE n \in 1..Len(a)
    BY <1>1, <1>3, <1>4, <1>5, <2>1
  <2>2. CASE n \notin 1..Len(a)
    <3>1. n - Len(a) \in 1..Len(b) /\ Len(a) + (n - Len(a)) = n
      BY <1>1, <1>2, <2>2
    <3>2. c[n] = b[n - Len(a)] /\ d[n] = Place(b)[n - Len(a)]
      BY <1>3, <1>4, <3>1
    <3>3. QED
      BY <1>2, <1>5, <3>1, <3>2
  <2>3. QED
    BY <2>1, <2>2
<1>7. Place(c) = d
  BY <1>1, <1>2, <1>4, <1>5, <1>6
<1>8. QED
  BY <1>3, <1>7 DEF c, d
-----------------------------------------------------------------------------
(* The children of each kind of value.                                     *)

LEMMA StepFacts ==
  /\ \A name : PlaceOf(Key(name)) = Key(name) /\ Key(name)[2] = name /\ Key(name) # Element
  /\ \A i : PlaceOf(Index(i)) = Element /\ Index(i)[2] = i - 1
  /\ \A i, name : Index(i) # Key(name)
  /\ \A i, j \in Nat : Index(i) = Index(j) => i = j
<1>1. \A name : PlaceOf(Key(name)) = Key(name) /\ Key(name)[2] = name
  BY DEF PlaceOf, Key
<1>2. \A name : Key(name) # Element
  <2>1. \A name : Key(name)[1] = "key" /\ Element[1] = "items"
    BY DEF Key, Element
  <2>2. "key" # "items"
    OBVIOUS
  <2>3. QED
    BY <2>1, <2>2
<1>3. \A i : PlaceOf(Index(i)) = Element /\ Index(i)[2] = i - 1
  BY DEF PlaceOf, Index
<1>4. \A i, name : Index(i) # Key(name)
  <2>1. \A i, name : Key(name)[1] = "key" /\ Index(i)[1] = "index"
    BY DEF Key, Index
  <2>2. "key" # "index"
    OBVIOUS
  <2>3. QED
    BY <2>1, <2>2
<1>5. ASSUME NEW i \in Nat, NEW j \in Nat, Index(i) = Index(j) PROVE i = j
  <2>1. i - 1 = j - 1
    BY <1>5 DEF Index
  <2>2. QED
    BY <2>1
<1>6. QED
  BY <1>1, <1>2, <1>3, <1>4, <1>5

LEMMA ChildrenOfObject ==
  ASSUME NEW v \in Json, v.k = "obj"
  PROVE  /\ \A s : s \in DOMAIN Children(v) <=> \E name \in DOMAIN v.fields : s = Key(name)
         /\ \A name \in DOMAIN v.fields :
              Key(name) \in DOMAIN Children(v) /\ Children(v)[Key(name)] = v.fields[name]
         /\ \A name : Key(name) \in DOMAIN Children(v) => name \in DOMAIN v.fields
<1>1. Children(v) = [s \in {Key(name) : name \in DOMAIN v.fields} |-> v.fields[s[2]]]
  BY DEF Children
<1>2. \A name, other : Key(name) = Key(other) => name = other
  BY StepFacts
<1>3. \A s : s \in DOMAIN Children(v) <=> \E name \in DOMAIN v.fields : s = Key(name)
  BY <1>1
<1>4. QED
  BY <1>1, <1>2, <1>3, StepFacts

LEMMA ChildrenOfArray ==
  ASSUME NEW v \in Json, v.k = "arr"
  PROVE  /\ v.items \in Seq(Json)
         /\ \A s : s \in DOMAIN Children(v) <=> \E i \in DOMAIN v.items : s = Index(i)
         /\ \A i \in DOMAIN v.items :
              Index(i) \in DOMAIN Children(v) /\ Children(v)[Index(i)] = v.items[i]
<1>1. Children(v) = [s \in {Index(i) : i \in DOMAIN v.items} |-> v.items[s[2] + 1]]
  BY DEF Children
<1>2. v.items \in Seq(Json)
  BY JsonAssumption
<1>3. \A s : s \in DOMAIN Children(v) <=> \E i \in DOMAIN v.items : s = Index(i)
  BY <1>1
<1>4. ASSUME NEW i \in DOMAIN v.items
      PROVE  Index(i) \in DOMAIN Children(v) /\ Children(v)[Index(i)] = v.items[i]
  <2>1. i \in Nat
    BY <1>2, ListShape
  <2>2. Index(i)[2] + 1 = i
    BY <2>1, StepFacts
  <2>3. QED
    BY <1>1, <2>2
<1>5. QED
  BY <1>2, <1>3, <1>4

LEMMA NoChildren ==
  ASSUME NEW v \in Json, v.k \notin {"obj", "arr"}
  PROVE  DOMAIN Children(v) = {}
BY DEF Children

-----------------------------------------------------------------------------
(* What the values of a function are, at a place.                          *)

IsFamily(F) == \A i \in DOMAIN F : F[i] \in Json

Observed(F, place) == [o \in SeenAt(F, place) |-> o[2].is]

LEMMA SeenIn ==
  ASSUME NEW F, NEW place
  PROVE  \A o : o \in SeenAt(F, place) <=>
           \E i \in DOMAIN F : \E p \in Parts[F[i]] : o = <<i, p>> /\ Place(p.at) = place
<1>1. ASSUME NEW o
      PROVE  o \in SeenAt(F, place) <=>
           \E i \in DOMAIN F : \E p \in Parts[F[i]] : o = <<i, p>> /\ Place(p.at) = place
  <2> DEFINE U == UNION {{<<i, p>> : p \in Parts[F[i]]} : i \in DOMAIN F}
  <2>1. o \in U <=> \E i \in DOMAIN F : \E p \in Parts[F[i]] : o = <<i, p>>
    OBVIOUS
  <2>2. o \in SeenAt(F, place) <=> o \in U /\ Place(o[2].at) = place
    BY DEF SeenAt
  <2> HIDE DEF U
  <2>3. \A i, p : o = <<i, p>> => o[2] = p
    OBVIOUS
  <2>4. QED
    BY <2>1, <2>2, <2>3
<1>2. QED
  BY <1>1

LEMMA SeenPair ==
  ASSUME NEW F, NEW place, NEW i \in DOMAIN F, NEW p \in Parts[F[i]], Place(p.at) = place
  PROVE  /\ <<i, p>> \in SeenAt(F, place) /\ <<i, p>> \in DOMAIN Observed(F, place)
         /\ Observed(F, place)[<<i, p>>] = p.is
<1>1. <<i, p>> \in SeenAt(F, place)
  BY SeenIn
<1>2. QED
  BY <1>1 DEF Observed

\* At the empty place they are the values themselves.
Itself(v) == [at |-> <<>>, is |-> v]

LEMMA ItselfShape ==
  ASSUME NEW v \in Json
  PROVE  Itself(v) \in Parts[v] /\ Place(Itself(v).at) = <<>> /\ Itself(v).is = v
BY ItselfIsPart, PlaceEmpty DEF Itself

LEMMA SeenHere ==
  ASSUME NEW F, IsFamily(F)
  PROVE  Same(F, Observed(F, <<>>))
<1> DEFINE g == [i \in DOMAIN F |-> <<i, Itself(F[i])>>]
<1>1. ASSUME NEW i \in DOMAIN F
      PROVE  /\ g[i] = <<i, Itself(F[i])>> /\ g[i] \in SeenAt(F, <<>>)
             /\ g[i] \in DOMAIN Observed(F, <<>>) /\ Observed(F, <<>>)[g[i]] = F[i]
  <2>1. F[i] \in Json
    BY DEF IsFamily
  <2>2. Itself(F[i]) \in Parts[F[i]] /\ Place(Itself(F[i]).at) = <<>> /\ Itself(F[i]).is = F[i]
    BY <2>1, ItselfShape
  <2>3. QED
    BY <2>2, SeenPair
<1>2. ASSUME NEW o \in SeenAt(F, <<>>) PROVE \E i \in DOMAIN F : g[i] = o
  <2>1a. PICK i \in DOMAIN F : \E p \in Parts[F[i]] : o = <<i, p>> /\ Place(p.at) = <<>>
    BY SeenIn
  <2>1. PICK p \in Parts[F[i]] : o = <<i, p>> /\ Place(p.at) = <<>>
    BY <2>1a
  <2>2. F[i] \in Json
    BY DEF IsFamily
  <2>3. p.at \in Seq(Steps) /\ p = [at |-> p.at, is |-> p.is]
    BY <2>2, PartShape
  <2>4. p.at = <<>>
    BY <2>1, <2>3, PlaceEmpty
  <2>5. p.is = F[i]
    BY <2>2, <2>4, PartHere
  <2>6. o = <<i, Itself(F[i])>>
    BY <2>1, <2>3, <2>4, <2>5 DEF Itself
  <2>7. QED
    BY <2>6
<1>3. DOMAIN Observed(F, <<>>) = SeenAt(F, <<>>) /\ DOMAIN g = DOMAIN F
  BY DEF Observed
<1>4. \A i, j \in DOMAIN F : g[i] = g[j] => i = j
  OBVIOUS
<1>5. g \in [DOMAIN F -> SeenAt(F, <<>>)]
  BY <1>1
<1> HIDE DEF g
<1>6. Renames(g, F, Observed(F, <<>>))
  BY <1>1, <1>2, <1>3, <1>4, <1>5 DEF Renames
<1>7. QED
  BY <1>6 DEF Same

\* Renamed values are observed at each place as they were.
LEMMA SeenSame ==
  ASSUME NEW F, NEW G, Same(F, G), NEW place
  PROVE  Same(Observed(F, place), Observed(G, place))
<1>1. PICK g : Renames(g, F, G)
  BY DEF Same
<1>2. /\ \A i \in DOMAIN F : g[i] \in DOMAIN G /\ F[i] = G[g[i]]
      /\ \A i, j \in DOMAIN F : g[i] = g[j] => i = j
      /\ \A k \in DOMAIN G : \E i \in DOMAIN F : g[i] = k
  BY <1>1 DEF Renames
<1> DEFINE S == SeenAt(F, place)
           T == SeenAt(G, place)
           h == [o \in S |-> <<g[o[1]], o[2]>>]
<1>3. DOMAIN Observed(F, place) = S /\ DOMAIN Observed(G, place) = T
  BY DEF Observed
<1>4. ASSUME NEW i \in DOMAIN F, NEW p \in Parts[F[i]], Place(p.at) = place
      PROVE  /\ <<i, p>> \in S /\ Observed(F, place)[<<i, p>>] = p.is
             /\ <<g[i], p>> \in T /\ Observed(G, place)[<<g[i], p>>] = p.is
             /\ h[<<i, p>>] = <<g[i], p>>
  <2>1. <<i, p>> \in S /\ Observed(F, place)[<<i, p>>] = p.is
    BY <1>4, SeenPair
  <2>2. g[i] \in DOMAIN G /\ p \in Parts[G[g[i]]]
    BY <1>2
  <2>3. <<g[i], p>> \in T /\ Observed(G, place)[<<g[i], p>>] = p.is
    BY <1>4, <2>2, SeenPair
  <2> HIDE DEF S, T
  <2>4. h[<<i, p>>] = <<g[i], p>>
    BY <2>1
  <2>5. QED
    BY <2>1, <2>3, <2>4
<1>5. \A o \in S : \E i \in DOMAIN F : \E p \in Parts[F[i]] : o = <<i, p>> /\ Place(p.at) = place
  BY SeenIn
<1>6. \A o \in T : \E i \in DOMAIN G : \E p \in Parts[G[i]] : o = <<i, p>> /\ Place(p.at) = place
  BY SeenIn
<1>7. DOMAIN h = S /\ h = [o \in S |-> h[o]]
  OBVIOUS
<1> HIDE DEF h, S, T
<1>8. \A o \in S : h[o] \in T /\ Observed(F, place)[o] = Observed(G, place)[h[o]]
  <2> SUFFICES ASSUME NEW o \in S
               PROVE  h[o] \in T /\ Observed(F, place)[o] = Observed(G, place)[h[o]]
    OBVIOUS
  <2>1. PICK i \in DOMAIN F : \E p \in Parts[F[i]] : o = <<i, p>> /\ Place(p.at) = place
    BY <1>5
  <2>2. PICK p \in Parts[F[i]] : o = <<i, p>> /\ Place(p.at) = place
    BY <2>1
  <2>3. /\ <<i, p>> \in S /\ Observed(F, place)[<<i, p>>] = p.is
        /\ <<g[i], p>> \in T /\ Observed(G, place)[<<g[i], p>>] = p.is
        /\ h[<<i, p>>] = <<g[i], p>>
    BY <1>4, <2>2
  <2>4. QED
    BY <2>2, <2>3
<1>9. \A o, u \in S : h[o] = h[u] => o = u
  <2> SUFFICES ASSUME NEW o \in S, NEW u \in S, h[o] = h[u] PROVE o = u
    OBVIOUS
  <2>1a. PICK i \in DOMAIN F : \E p \in Parts[F[i]] : o = <<i, p>> /\ Place(p.at) = place
    BY <1>5
  <2>1. PICK p \in Parts[F[i]] : o = <<i, p>> /\ Place(p.at) = place
    BY <2>1a
  <2>2a. PICK j \in DOMAIN F : \E q \in Parts[F[j]] : u = <<j, q>> /\ Place(q.at) = place
    BY <1>5
  <2>2. PICK q \in Parts[F[j]] : u = <<j, q>> /\ Place(q.at) = place
    BY <2>2a
  <2>i. h[<<i, p>>] = <<g[i], p>>
    BY <1>4, <2>1
  <2>j. h[<<j, q>>] = <<g[j], q>>
    BY <1>4, <2>2
  <2>3. <<g[i], p>> = <<g[j], q>>
    BY <2>1, <2>2, <2>i, <2>j
  <2>4. g[i] = g[j] /\ p = q
    BY <2>3
  <2>5. QED
    BY <1>2, <2>1, <2>2, <2>4
<1>10. \A z \in T : \E o \in S : h[o] = z
  <2> SUFFICES ASSUME NEW z \in T PROVE \E o \in S : h[o] = z
    OBVIOUS
  <2>1a. PICK k \in DOMAIN G : \E p \in Parts[G[k]] : z = <<k, p>> /\ Place(p.at) = place
    BY <1>6
  <2>1. PICK p \in Parts[G[k]] : z = <<k, p>> /\ Place(p.at) = place
    BY <2>1a
  <2>2. PICK i \in DOMAIN F : g[i] = k
    BY <1>2
  <2>3. p \in Parts[F[i]]
    BY <1>2, <2>1, <2>2
  <2>4. QED
    BY <1>4, <2>1, <2>2, <2>3
<1>11. Renames(h, Observed(F, place), Observed(G, place))
  <2>1. h \in [S -> T]
    BY <1>7, <1>8
  <2>2. QED
    BY <1>3, <1>8, <1>9, <1>10, <2>1 DEF Renames
<1>12. QED
  BY <1>11 DEF Same

-----------------------------------------------------------------------------
(* The children of the values, at one step of a place.                     *)

StepsAt(v, step) == {s \in DOMAIN Children(v) : PlaceOf(s) = step}

ChildIndex(F, step) == UNION {{<<i, s>> : s \in StepsAt(F[i], step)} : i \in DOMAIN F}

ChildrenAt(F, step) == [x \in ChildIndex(F, step) |-> Children(F[x[1]])[x[2]]]

LEMMA ChildIn ==
  ASSUME NEW F, NEW step
  PROVE  /\ DOMAIN ChildrenAt(F, step) = ChildIndex(F, step)
         /\ \A x : x \in ChildIndex(F, step) <=>
              \E i \in DOMAIN F : \E s \in StepsAt(F[i], step) : x = <<i, s>>
         /\ \A i \in DOMAIN F : \A s \in StepsAt(F[i], step) :
              /\ <<i, s>> \in ChildIndex(F, step) /\ s \in DOMAIN Children(F[i])
              /\ PlaceOf(s) = step /\ ChildrenAt(F, step)[<<i, s>>] = Children(F[i])[s]
<1>1. DOMAIN ChildrenAt(F, step) = ChildIndex(F, step)
  BY DEF ChildrenAt
<1>2. \A x : x \in ChildIndex(F, step) <=>
              \E i \in DOMAIN F : \E s \in StepsAt(F[i], step) : x = <<i, s>>
  BY DEF ChildIndex
<1>3. \A i \in DOMAIN F : \A s \in StepsAt(F[i], step) : <<i, s>> \in ChildIndex(F, step)
  BY <1>2
<1>4. \A i \in DOMAIN F : \A s \in StepsAt(F[i], step) :
        ChildrenAt(F, step)[<<i, s>>] = Children(F[i])[s]
  BY <1>3 DEF ChildrenAt
<1>5. \A i \in DOMAIN F : \A s \in StepsAt(F[i], step) :
        s \in DOMAIN Children(F[i]) /\ PlaceOf(s) = step
  BY DEF StepsAt
<1>6. QED
  BY <1>1, <1>2, <1>3, <1>4, <1>5

LEMMA ChildrenAreFamily ==
  ASSUME NEW F, IsFamily(F), NEW step
  PROVE  IsFamily(ChildrenAt(F, step))
<1> SUFFICES ASSUME NEW x \in ChildIndex(F, step) PROVE ChildrenAt(F, step)[x] \in Json
  BY ChildIn DEF IsFamily
<1>1a. PICK i \in DOMAIN F : \E s \in StepsAt(F[i], step) : x = <<i, s>>
  BY ChildIn
<1>1. PICK s \in StepsAt(F[i], step) : x = <<i, s>>
  BY <1>1a
<1>2. F[i] \in Json /\ s \in DOMAIN Children(F[i]) /\ ChildrenAt(F, step)[x] = Children(F[i])[s]
  BY <1>1, ChildIn DEF IsFamily
<1>3. QED
  BY <1>2, ChildOf

LEMMA ChildrenSame ==
  ASSUME NEW F, NEW G, Same(F, G), NEW step
  PROVE  Same(ChildrenAt(F, step), ChildrenAt(G, step))
<1>1. PICK g : Renames(g, F, G)
  BY DEF Same
<1>2. /\ \A i \in DOMAIN F : g[i] \in DOMAIN G /\ F[i] = G[g[i]]
      /\ \A i, j \in DOMAIN F : g[i] = g[j] => i = j
      /\ \A k \in DOMAIN G : \E i \in DOMAIN F : g[i] = k
  BY <1>1 DEF Renames
<1> DEFINE S == ChildIndex(F, step)
           T == ChildIndex(G, step)
           h == [x \in S |-> <<g[x[1]], x[2]>>]
<1>3. DOMAIN ChildrenAt(F, step) = S /\ DOMAIN ChildrenAt(G, step) = T
  BY ChildIn
<1>4. ASSUME NEW i \in DOMAIN F, NEW s \in StepsAt(F[i], step)
      PROVE  /\ <<i, s>> \in S /\ <<g[i], s>> \in T /\ h[<<i, s>>] = <<g[i], s>>
             /\ ChildrenAt(F, step)[<<i, s>>] = ChildrenAt(G, step)[<<g[i], s>>]
  <2>1. <<i, s>> \in S /\ ChildrenAt(F, step)[<<i, s>>] = Children(F[i])[s]
    BY ChildIn
  <2>2. g[i] \in DOMAIN G /\ G[g[i]] = F[i]
    BY <1>2
  <2>3. s \in StepsAt(G[g[i]], step)
    BY <2>2
  <2>4. <<g[i], s>> \in T /\ ChildrenAt(G, step)[<<g[i], s>>] = Children(G[g[i]])[s]
    BY <2>2, <2>3, ChildIn
  <2> HIDE DEF S, T
  <2>5. h[<<i, s>>] = <<g[i], s>>
    BY <2>1
  <2>6. QED
    BY <2>1, <2>2, <2>4, <2>5
<1>5. \A x \in S : \E i \in DOMAIN F : \E s \in StepsAt(F[i], step) : x = <<i, s>>
  BY ChildIn
<1>6. \A x \in T : \E i \in DOMAIN G : \E s \in StepsAt(G[i], step) : x = <<i, s>>
  BY ChildIn
<1>7. DOMAIN h = S /\ h = [x \in S |-> h[x]]
  OBVIOUS
<1> HIDE DEF h, S, T
<1>8. \A x \in S : h[x] \in T /\ ChildrenAt(F, step)[x] = ChildrenAt(G, step)[h[x]]
  <2> SUFFICES ASSUME NEW x \in S
               PROVE  h[x] \in T /\ ChildrenAt(F, step)[x] = ChildrenAt(G, step)[h[x]]
    OBVIOUS
  <2>1. PICK i \in DOMAIN F : \E s \in StepsAt(F[i], step) : x = <<i, s>>
    BY <1>5
  <2>2. PICK s \in StepsAt(F[i], step) : x = <<i, s>>
    BY <2>1
  <2>3. /\ <<g[i], s>> \in T /\ h[<<i, s>>] = <<g[i], s>>
        /\ ChildrenAt(F, step)[<<i, s>>] = ChildrenAt(G, step)[<<g[i], s>>]
    BY <1>4
  <2>4. QED
    BY <2>2, <2>3
<1>9. \A x, y \in S : h[x] = h[y] => x = y
  <2> SUFFICES ASSUME NEW x \in S, NEW y \in S, h[x] = h[y] PROVE x = y
    OBVIOUS
  <2>1a. PICK i \in DOMAIN F : \E s \in StepsAt(F[i], step) : x = <<i, s>>
    BY <1>5
  <2>1. PICK s \in StepsAt(F[i], step) : x = <<i, s>>
    BY <2>1a
  <2>2a. PICK j \in DOMAIN F : \E t \in StepsAt(F[j], step) : y = <<j, t>>
    BY <1>5
  <2>2. PICK t \in StepsAt(F[j], step) : y = <<j, t>>
    BY <2>2a
  <2>i. h[<<i, s>>] = <<g[i], s>>
    BY <1>4
  <2>j. h[<<j, t>>] = <<g[j], t>>
    BY <1>4
  <2>3. <<g[i], s>> = <<g[j], t>>
    BY <2>1, <2>2, <2>i, <2>j
  <2>4. g[i] = g[j] /\ s = t
    BY <2>3
  <2>5. QED
    BY <1>2, <2>1, <2>2, <2>4
<1>10. \A z \in T : \E x \in S : h[x] = z
  <2> SUFFICES ASSUME NEW z \in T PROVE \E x \in S : h[x] = z
    OBVIOUS
  <2>1a. PICK k \in DOMAIN G : \E s \in StepsAt(G[k], step) : z = <<k, s>>
    BY <1>6
  <2>1. PICK s \in StepsAt(G[k], step) : z = <<k, s>>
    BY <2>1a
  <2>2. PICK i \in DOMAIN F : g[i] = k
    BY <1>2
  <2>3. s \in StepsAt(F[i], step)
    BY <1>2, <2>1, <2>2
  <2>4. QED
    BY <1>4, <2>1, <2>2, <2>3
<1>11. Renames(h, ChildrenAt(F, step), ChildrenAt(G, step))
  <2>1. h \in [S -> T]
    BY <1>7, <1>8
  <2>2. QED
    BY <1>3, <1>8, <1>9, <1>10, <2>1 DEF Renames
<1>12. QED
  BY <1>11 DEF Same

LEMMA StepInjective ==
  \A s, t \in Steps : \A a, b \in Seq(Steps) :
    <<s>> \o a = <<t>> \o b => s = t /\ a = b
BY FrontInjective

\* What is observed below a step is what is observed of the children there.
LEMMA SeenBelow ==
  ASSUME NEW F, IsFamily(F), NEW step \in Places, NEW rest \in Seq(Places)
  PROVE  Same(Observed(ChildrenAt(F, step), rest), Observed(F, <<step>> \o rest))
<1> DEFINE G == ChildrenAt(F, step)
           place == <<step>> \o rest
           S == SeenAt(G, rest)
           T == SeenAt(F, place)
           h == [o \in S |-> <<o[1][1], Behind(o[1][2], o[2])>>]
<1>1. DOMAIN Observed(G, rest) = S /\ DOMAIN Observed(F, place) = T
  BY DEF Observed
<1>2. ASSUME NEW i \in DOMAIN F, NEW s \in StepsAt(F[i], step),
             NEW q \in Parts[Children(F[i])[s]]
      PROVE  /\ s \in Steps /\ q.at \in Seq(Steps) /\ q = [at |-> q.at, is |-> q.is]
             /\ s \in DOMAIN Children(F[i]) /\ PlaceOf(s) = step
             /\ Behind(s, q) \in Parts[F[i]] /\ Behind(s, q).is = q.is
             /\ Behind(s, q).at = <<s>> \o q.at
             /\ Place(Behind(s, q).at) = <<step>> \o Place(q.at)
  <2>0. F[i] \in Json
    BY DEF IsFamily
  <2>1. F[i] \in Json /\ s \in DOMAIN Children(F[i]) /\ PlaceOf(s) = step
    BY <2>0 DEF StepsAt
  <2>2. /\ Behind(s, q) \in Parts[F[i]] /\ Behind(s, q).is = q.is
        /\ Behind(s, q).at = <<s>> \o q.at
        /\ s \in Steps /\ q.at \in Seq(Steps) /\ Children(F[i])[s] \in Json
    BY <2>1, BehindShape
  <2>3. Place(<<s>> \o q.at) = <<PlaceOf(s)>> \o Place(q.at)
    BY <2>2, PlaceFront
  <2>4. q = [at |-> q.at, is |-> q.is]
    BY <2>2, PartShape
  <2>5. QED
    BY <2>1, <2>2, <2>3, <2>4
<1>3. ASSUME NEW i \in DOMAIN F, NEW s \in StepsAt(F[i], step),
             NEW q \in Parts[Children(F[i])[s]], Place(q.at) = rest
      PROVE  /\ <<<<i, s>>, q>> \in S /\ Observed(G, rest)[<<<<i, s>>, q>>] = q.is
             /\ <<i, Behind(s, q)>> \in T /\ Observed(F, place)[<<i, Behind(s, q)>>] = q.is
             /\ h[<<<<i, s>>, q>>] = <<i, Behind(s, q)>>
  <2>1. <<i, s>> \in DOMAIN G /\ G[<<i, s>>] = Children(F[i])[s]
    BY ChildIn
  <2>2. <<<<i, s>>, q>> \in S /\ Observed(G, rest)[<<<<i, s>>, q>>] = q.is
    <3> HIDE DEF G, S
    <3>1. q \in Parts[G[<<i, s>>]]
      BY <2>1
    <3>2. <<<<i, s>>, q>> \in SeenAt(G, rest) /\ Observed(G, rest)[<<<<i, s>>, q>>] = q.is
      BY <1>3, <2>1, <3>1, SeenPair
    <3>3. QED
      BY <3>2 DEF S
  <2>3. /\ Behind(s, q) \in Parts[F[i]] /\ Behind(s, q).is = q.is
        /\ Place(Behind(s, q).at) = place
    BY <1>2, <1>3
  <2>4. <<i, Behind(s, q)>> \in T /\ Observed(F, place)[<<i, Behind(s, q)>>] = q.is
    <3> HIDE DEF place
    <3>1. QED
      BY <2>3, SeenPair
  <2> HIDE DEF S, T
  <2>5. h[<<<<i, s>>, q>>] = <<i, Behind(s, q)>>
    BY <2>2
  <2>6. QED
    BY <2>2, <2>4, <2>5
<1>4. \A o \in S : \E i \in DOMAIN F : \E s \in StepsAt(F[i], step) :
        \E q \in Parts[Children(F[i])[s]] : o = <<<<i, s>>, q>> /\ Place(q.at) = rest
  <2> SUFFICES ASSUME NEW o \in S
               PROVE  \E i \in DOMAIN F : \E s \in StepsAt(F[i], step) :
        \E q \in Parts[Children(F[i])[s]] : o = <<<<i, s>>, q>> /\ Place(q.at) = rest
    OBVIOUS
  <2>1a. PICK x \in DOMAIN G : \E q \in Parts[G[x]] : o = <<x, q>> /\ Place(q.at) = rest
    BY SeenIn
  <2>1. PICK q \in Parts[G[x]] : o = <<x, q>> /\ Place(q.at) = rest
    BY <2>1a
  <2>2a. PICK i \in DOMAIN F : \E s \in StepsAt(F[i], step) : x = <<i, s>>
    BY <2>1, ChildIn
  <2>2. PICK s \in StepsAt(F[i], step) : x = <<i, s>>
    BY <2>2a
  <2>3. G[x] = Children(F[i])[s]
    BY <2>2, ChildIn
  <2>4. QED
    BY <2>1, <2>2, <2>3
<1>5. \A z \in T : \E i \in DOMAIN F : \E s \in StepsAt(F[i], step) :
        \E q \in Parts[Children(F[i])[s]] : z = <<i, Behind(s, q)>> /\ Place(q.at) = rest
  <2> SUFFICES ASSUME NEW z \in T
               PROVE  \E i \in DOMAIN F : \E s \in StepsAt(F[i], step) :
        \E q \in Parts[Children(F[i])[s]] : z = <<i, Behind(s, q)>> /\ Place(q.at) = rest
    OBVIOUS
  <2>1a. PICK i \in DOMAIN F : \E p \in Parts[F[i]] : z = <<i, p>> /\ Place(p.at) = place
    <3> HIDE DEF place
    <3>1. QED
      BY SeenIn
  <2>1. PICK p \in Parts[F[i]] : z = <<i, p>> /\ Place(p.at) = place
    BY <2>1a
  <2>2. F[i] \in Json
    BY DEF IsFamily
  <2>3. place # <<>>
    BY FrontStep
  <2>4. p # [at |-> <<>>, is |-> F[i]]
    BY <2>1, <2>3, PlaceEmpty
  <2>5a. PICK s \in DOMAIN Children(F[i]) : \E q \in Parts[Children(F[i])[s]] : p = Behind(s, q)
    BY <2>2, <2>4, PartsUnfold
  <2>5. PICK q \in Parts[Children(F[i])[s]] : p = Behind(s, q)
    BY <2>5a
  <2>6. s \in Steps /\ q.at \in Seq(Steps) /\ p.at = <<s>> \o q.at
    BY <2>2, <2>5, BehindShape
  <2>7. PlaceOf(s) \in Places /\ Place(q.at) \in Seq(Places)
        /\ <<PlaceOf(s)>> \o Place(q.at) = <<step>> \o rest
    BY <2>1, <2>6, PlaceFront, PlaceIsList
  <2>8. PlaceOf(s) = step /\ Place(q.at) = rest
    <3> HIDE DEF place
    <3>1. QED
      BY <2>7, FrontInjective
  <2>9. s \in StepsAt(F[i], step)
    BY <2>5, <2>8 DEF StepsAt
  <2>10. QED
    BY <2>1, <2>5, <2>8, <2>9
<1>6. DOMAIN h = S /\ h = [o \in S |-> h[o]]
  OBVIOUS
<1> HIDE DEF h, S, T, G, place
<1>7. \A o \in S : h[o] \in T /\ Observed(G, rest)[o] = Observed(F, place)[h[o]]
  <2> SUFFICES ASSUME NEW o \in S
               PROVE  h[o] \in T /\ Observed(G, rest)[o] = Observed(F, place)[h[o]]
    OBVIOUS
  <2>1. PICK i \in DOMAIN F : \E s \in StepsAt(F[i], step) :
          \E q \in Parts[Children(F[i])[s]] : o = <<<<i, s>>, q>> /\ Place(q.at) = rest
    BY <1>4
  <2>2. PICK s \in StepsAt(F[i], step) :
          \E q \in Parts[Children(F[i])[s]] : o = <<<<i, s>>, q>> /\ Place(q.at) = rest
    BY <2>1
  <2>3. PICK q \in Parts[Children(F[i])[s]] : o = <<<<i, s>>, q>> /\ Place(q.at) = rest
    BY <2>2
  <2>4. /\ <<<<i, s>>, q>> \in S /\ Observed(G, rest)[<<<<i, s>>, q>>] = q.is
        /\ <<i, Behind(s, q)>> \in T /\ Observed(F, place)[<<i, Behind(s, q)>>] = q.is
        /\ h[<<<<i, s>>, q>>] = <<i, Behind(s, q)>>
    BY <1>3, <2>3
  <2>5. QED
    BY <2>3, <2>4
<1>8. \A o, u \in S : h[o] = h[u] => o = u
  <2> SUFFICES ASSUME NEW o \in S, NEW u \in S, h[o] = h[u] PROVE o = u
    OBVIOUS
  <2>1a. PICK i \in DOMAIN F : \E s \in StepsAt(F[i], step) :
           \E q \in Parts[Children(F[i])[s]] : o = <<<<i, s>>, q>> /\ Place(q.at) = rest
    BY <1>4
  <2>1b. PICK s \in StepsAt(F[i], step) :
           \E q \in Parts[Children(F[i])[s]] : o = <<<<i, s>>, q>> /\ Place(q.at) = rest
    BY <2>1a
  <2>1. PICK q \in Parts[Children(F[i])[s]] : o = <<<<i, s>>, q>> /\ Place(q.at) = rest
    BY <2>1b
  <2>2a. PICK j \in DOMAIN F : \E t \in StepsAt(F[j], step) :
           \E r \in Parts[Children(F[j])[t]] : u = <<<<j, t>>, r>> /\ Place(r.at) = rest
    BY <1>4
  <2>2b. PICK t \in StepsAt(F[j], step) :
           \E r \in Parts[Children(F[j])[t]] : u = <<<<j, t>>, r>> /\ Place(r.at) = rest
    BY <2>2a
  <2>2. PICK r \in Parts[Children(F[j])[t]] : u = <<<<j, t>>, r>> /\ Place(r.at) = rest
    BY <2>2b
  <2>i. h[<<<<i, s>>, q>>] = <<i, Behind(s, q)>>
    BY <1>3, <2>1
  <2>j. h[<<<<j, t>>, r>>] = <<j, Behind(t, r)>>
    BY <1>3, <2>2
  <2>3. <<i, Behind(s, q)>> = <<j, Behind(t, r)>>
    BY <2>1, <2>2, <2>i, <2>j
  <2>4. i = j /\ Behind(s, q) = Behind(t, r)
    BY <2>3
  <2>5. <<s>> \o q.at = <<t>> \o r.at /\ q.is = r.is
    BY <2>4 DEF Behind
  <2>6. s \in Steps /\ q.at \in Seq(Steps) /\ q = [at |-> q.at, is |-> q.is]
    BY <1>2
  <2>7. t \in Steps /\ r.at \in Seq(Steps) /\ r = [at |-> r.at, is |-> r.is]
    BY <1>2
  <2>8. s = t /\ q.at = r.at
    <3>1. s \in Steps /\ t \in Steps /\ q.at \in Seq(Steps) /\ r.at \in Seq(Steps)
      BY <2>6, <2>7
    <3>2. \A a, b \in Seq(Steps) : <<s>> \o a = <<t>> \o b => s = t /\ a = b
      BY <3>1, StepInjective
    <3>3. QED
      BY <2>5, <3>1, <3>2
  <2>9. q = r
    BY <2>5, <2>6, <2>7, <2>8
  <2>10. QED
    BY <2>1, <2>2, <2>4, <2>8, <2>9
<1>9. \A z \in T : \E o \in S : h[o] = z
  <2> SUFFICES ASSUME NEW z \in T PROVE \E o \in S : h[o] = z
    OBVIOUS
  <2>1. PICK i \in DOMAIN F : \E s \in StepsAt(F[i], step) :
          \E q \in Parts[Children(F[i])[s]] : z = <<i, Behind(s, q)>> /\ Place(q.at) = rest
    BY <1>5
  <2>2. PICK s \in StepsAt(F[i], step) :
          \E q \in Parts[Children(F[i])[s]] : z = <<i, Behind(s, q)>> /\ Place(q.at) = rest
    BY <2>1
  <2>3. PICK q \in Parts[Children(F[i])[s]] : z = <<i, Behind(s, q)>> /\ Place(q.at) = rest
    BY <2>2
  <2>4. <<<<i, s>>, q>> \in S /\ h[<<<<i, s>>, q>>] = <<i, Behind(s, q)>>
    BY <1>3, <2>3
  <2>5. QED
    BY <2>3, <2>4
<1>10. Renames(h, Observed(G, rest), Observed(F, place))
  <2>1. h \in [S -> T]
    BY <1>6, <1>7
  <2>2. QED
    BY <1>1, <1>7, <1>8, <1>9, <2>1 DEF Renames
<1>11. QED
  BY <1>10 DEF Same, G, place
-----------------------------------------------------------------------------
(* The values that are not null.                                           *)

NotNull(vs) == {i \in DOMAIN vs : vs[i].k # "null"}

LEMMA NonNullSame ==
  ASSUME NEW vs \in Seq(Json)
  PROVE  NonNull(vs) \in Seq(Json) /\ Same(NonNull(vs), [i \in NotNull(vs) |-> vs[i]])
<1>1. NotNull(vs) \subseteq DOMAIN vs /\ NonNull(vs) = Select(vs, NotNull(vs))
  BY DEF NotNull, NonNull
<1>2. QED
  BY <1>1, SelectSame

LEMMA NonNullFacts ==
  ASSUME NEW vs \in Seq(Json)
  PROVE  /\ NonNull(vs) \in Seq(Json)
         /\ \A j \in DOMAIN NonNull(vs) :
              NonNull(vs)[j].k # "null" /\ \E i \in DOMAIN vs : vs[i] = NonNull(vs)[j]
         /\ \A i \in DOMAIN vs : vs[i].k # "null" =>
              \E j \in DOMAIN NonNull(vs) : NonNull(vs)[j] = vs[i]
         /\ \A j, m \in DOMAIN NonNull(vs) : j # m =>
              \E i, n \in DOMAIN vs : i # n /\ vs[i] = NonNull(vs)[j] /\ vs[n] = NonNull(vs)[m]
         /\ (\A i \in DOMAIN vs : vs[i].k # "null") => NonNull(vs) = vs
         /\ Len(NonNull(vs)) < Len(vs) <=> \E i \in DOMAIN vs : vs[i].k = "null"
         /\ NonNull(vs) = <<>> <=> \A i \in DOMAIN vs : vs[i].k = "null"
<1> DEFINE found == NonNull(vs)
           there == [i \in NotNull(vs) |-> vs[i]]
<1>1. found \in Seq(Json) /\ Same(found, there)
  BY NonNullSame
<1>2. DOMAIN there = NotNull(vs) /\ \A i \in NotNull(vs) : there[i] = vs[i]
  OBVIOUS
<1>3. \A i : i \in NotNull(vs) <=> i \in DOMAIN vs /\ vs[i].k # "null"
  BY DEF NotNull
<1> HIDE DEF there
<1>4. /\ \A x \in DOMAIN found : \E z \in DOMAIN there : there[z] = found[x]
      /\ \A z \in DOMAIN there : \E x \in DOMAIN found : found[x] = there[z]
      /\ \A x, y \in DOMAIN found : x # y =>
           \E z, w \in DOMAIN there : z # w /\ there[z] = found[x] /\ there[w] = found[y]
  <2> HIDE DEF found
  <2>1. QED
    BY <1>1, SameValues
<1>5. \A j \in DOMAIN found : found[j].k # "null" /\ \E i \in DOMAIN vs : vs[i] = found[j]
  BY <1>2, <1>3, <1>4
<1>6. \A i \in DOMAIN vs : vs[i].k # "null" => \E j \in DOMAIN found : found[j] = vs[i]
  BY <1>2, <1>3, <1>4
<1>7. \A j, m \in DOMAIN found : j # m =>
        \E i, n \in DOMAIN vs : i # n /\ vs[i] = found[j] /\ vs[n] = found[m]
  BY <1>2, <1>3, <1>4
<1>8. found = Select(vs, NotNull(vs))
  BY DEF NotNull, NonNull
<1>9. /\ Shorter(found, vs, NotNull(vs), Len(vs))
      /\ DOMAIN vs \subseteq NotNull(vs) => found = vs
  <2>1. /\ Shorter(Select(vs, NotNull(vs)), vs, NotNull(vs), Len(vs))
        /\ DOMAIN vs \subseteq NotNull(vs) => Select(vs, NotNull(vs)) = vs
    BY SelectLength
  <2> HIDE DEF found
  <2>2. QED
    BY <1>8, <2>1
<1>10. DOMAIN vs = 1..Len(vs) /\ Len(vs) \in Nat /\ DOMAIN found = 1..Len(found) /\ Len(found) \in Nat
  BY <1>1
<1> HIDE DEF found
<1>11. Len(found) < Len(vs) <=> \E i \in DOMAIN vs : vs[i].k = "null"
  <2>1. (\E i \in 1..Len(vs) : i \notin NotNull(vs)) => Len(found) < Len(vs)
    BY <1>9 DEF Shorter
  <2>2. (\A i \in 1..Len(vs) : i \in NotNull(vs)) => Len(found) = Len(vs)
    BY <1>9 DEF Shorter
  <2>3. (\E i \in DOMAIN vs : vs[i].k = "null") <=> (\E i \in 1..Len(vs) : i \notin NotNull(vs))
    BY <1>3, <1>10
  <2>4. (\E i \in 1..Len(vs) : i \notin NotNull(vs)) \/ (\A i \in 1..Len(vs) : i \in NotNull(vs))
    OBVIOUS
  <2>5. Len(found) = Len(vs) => ~(Len(found) < Len(vs))
    BY <1>10
  <2>6. QED
    BY <2>1, <2>2, <2>3, <2>4, <2>5
<1>12. (\A i \in DOMAIN vs : vs[i].k # "null") => found = vs
  BY <1>3, <1>9
<1>13. found = <<>> <=> \A i \in DOMAIN vs : vs[i].k = "null"
  <2>1. found = <<>> <=> DOMAIN found = {}
    BY <1>1, ListShape
  <2>2. QED
    BY <1>5, <1>6, <2>1
<1>14. QED
  BY <1>1, <1>5, <1>6, <1>7, <1>11, <1>12, <1>13 DEF found
-----------------------------------------------------------------------------
(* The samples below a list of samples are its children at a step.         *)

LEMMA OneKind ==
  ASSUME NEW vs \in Seq(Json), NonNull(vs) # <<>>
  PROVE  ~(AllOf(NonNull(vs), "obj") /\ AllOf(NonNull(vs), "arr"))
<1>1. NonNull(vs) \in Seq(Json)
  BY NonNullFacts
<1>2. 1 \in DOMAIN NonNull(vs)
  BY <1>1, ListShape
<1>3. QED
  BY <1>2 DEF AllOf

LEMMA SubSamplesOfObjects ==
  ASSUME NEW vs \in Seq(Json), NonNull(vs) # <<>>, AllOf(NonNull(vs), "obj")
  PROVE  /\ \A step : step \in DOMAIN SubSamples(vs) <=>
              \E name \in KeysOf(NonNull(vs)) : step = Key(name)
         /\ \A name \in KeysOf(NonNull(vs)) : SubSamples(vs)[Key(name)] = ValuesOf(NonNull(vs), name)
<1>1. SubSamples(vs) = [step \in {Key(name) : name \in KeysOf(NonNull(vs))} |->
                          ValuesOf(NonNull(vs), step[2])]
  BY OneKind DEF SubSamples
<1>2. \A name : Key(name)[2] = name
  BY StepFacts
<1>3. \A step : step \in DOMAIN SubSamples(vs) <=>
        \E name \in KeysOf(NonNull(vs)) : step = Key(name)
  BY <1>1
<1>4. \A name \in KeysOf(NonNull(vs)) : SubSamples(vs)[Key(name)] = ValuesOf(NonNull(vs), name)
  BY <1>1, <1>2
<1>5. QED
  BY <1>3, <1>4

LEMMA SubSamplesOfArrays ==
  ASSUME NEW vs \in Seq(Json), NonNull(vs) # <<>>, AllOf(NonNull(vs), "arr")
  PROVE  /\ DOMAIN SubSamples(vs) = {Element}
         /\ SubSamples(vs)[Element] = ElementsOf(NonNull(vs))
<1>1. SubSamples(vs) = [step \in {Element} |-> ElementsOf(NonNull(vs))]
  BY OneKind DEF SubSamples
<1>2. QED
  BY <1>1

LEMMA SubSamplesOfOthers ==
  ASSUME NEW vs \in Seq(Json),
         NonNull(vs) = <<>> \/ (~AllOf(NonNull(vs), "obj") /\ ~AllOf(NonNull(vs), "arr"))
  PROVE  DOMAIN SubSamples(vs) = {}
<1>1. CASE NonNull(vs) = <<>>
  BY <1>1 DEF SubSamples
<1>2. CASE NonNull(vs) # <<>>
  BY <1>2 DEF SubSamples
<1>3. QED
  BY <1>1, <1>2

\* Null has no children.
LEMMA ChildrenOfNonNull ==
  ASSUME NEW vs \in Seq(Json), NEW step
  PROVE  Same(ChildrenAt(NonNull(vs), step), ChildrenAt(vs, step))
<1> DEFINE there == [i \in NotNull(vs) |-> vs[i]]
<1>1. Same(ChildrenAt(NonNull(vs), step), ChildrenAt(there, step))
  <2>1. Same(NonNull(vs), there)
    BY NonNullSame
  <2> HIDE DEF there
  <2>2. QED
    BY <2>1, ChildrenSame
<1>2. DOMAIN there = NotNull(vs) /\ \A i \in NotNull(vs) : there[i] = vs[i]
  OBVIOUS
<1> HIDE DEF there
<1>3. \A i \in DOMAIN vs : vs[i] \in Json
  BY ListShape
<1>4. ASSUME NEW i \in DOMAIN vs, NEW s \in StepsAt(vs[i], step)
      PROVE  i \in NotNull(vs)
  <2>1. s \in DOMAIN Children(vs[i])
    BY DEF StepsAt
  <2>2. vs[i].k # "null"
    BY <1>3, <2>1, NoChildren
  <2>3. QED
    BY <2>2 DEF NotNull
<1>5. \A i : i \in NotNull(vs) => i \in DOMAIN vs
  BY DEF NotNull
<1>6. ChildIndex(there, step) = ChildIndex(vs, step)
  <2>1. ASSUME NEW x \in ChildIndex(there, step) PROVE x \in ChildIndex(vs, step)
    <3>1. PICK i \in DOMAIN there : \E s \in StepsAt(there[i], step) : x = <<i, s>>
      BY ChildIn
    <3>2. i \in DOMAIN vs /\ there[i] = vs[i]
      BY <1>2, <1>5
    <3>3. QED
      BY <3>1, <3>2, ChildIn
  <2>2. ASSUME NEW x \in ChildIndex(vs, step) PROVE x \in ChildIndex(there, step)
    <3>1. PICK i \in DOMAIN vs : \E s \in StepsAt(vs[i], step) : x = <<i, s>>
      BY ChildIn
    <3>2. i \in DOMAIN there /\ there[i] = vs[i]
      BY <1>2, <1>4, <3>1
    <3>3. QED
      BY <3>1, <3>2, ChildIn
  <2>3. QED
    BY <2>1, <2>2
<1>7. ASSUME NEW x \in ChildIndex(vs, step)
      PROVE  ChildrenAt(there, step)[x] = ChildrenAt(vs, step)[x]
  <2>1. PICK i \in DOMAIN vs : \E s \in StepsAt(vs[i], step) : x = <<i, s>>
    BY ChildIn
  <2>2. PICK s \in StepsAt(vs[i], step) : x = <<i, s>>
    BY <2>1
  <2>3. i \in DOMAIN there /\ there[i] = vs[i]
    BY <1>2, <1>4, <2>2
  <2>4. ChildrenAt(vs, step)[<<i, s>>] = Children(vs[i])[s]
    BY ChildIn
  <2>5. s \in StepsAt(there[i], step)
    BY <2>3
  <2>6. ChildrenAt(there, step)[<<i, s>>] = Children(there[i])[s]
    BY <2>3, <2>5, ChildIn
  <2>7. QED
    BY <2>2, <2>3, <2>4, <2>6
<1>8. ChildrenAt(there, step) = ChildrenAt(vs, step)
  <2>1. DOMAIN ChildrenAt(there, step) = ChildIndex(vs, step)
    BY <1>6, ChildIn
  <2>2. DOMAIN ChildrenAt(vs, step) = ChildIndex(vs, step)
    BY ChildIn
  <2>3. ChildrenAt(there, step) = [x \in ChildIndex(there, step) |-> ChildrenAt(there, step)[x]]
    BY DEF ChildrenAt
  <2>4. ChildrenAt(vs, step) = [x \in ChildIndex(vs, step) |-> ChildrenAt(vs, step)[x]]
    BY DEF ChildrenAt
  <2>5. QED
    BY <1>6, <1>7, <2>3, <2>4
<1>9. QED
  BY <1>1, <1>8

\* The values of a key are the children of the objects there.
LEMMA ValuesSame ==
  ASSUME NEW objs \in Seq(Json), AllOf(objs, "obj"), NEW name
  PROVE  ValuesOf(objs, name) \in Seq(Json) /\ Same(ValuesOf(objs, name), ChildrenAt(objs, Key(name)))
<1> DEFINE P == {i \in DOMAIN objs : name \in DOMAIN objs[i].fields}
           having == Select(objs, P)
           there == [i \in P |-> objs[i]]
           values == [i \in DOMAIN having |-> having[i].fields[name]]
           index == ChildIndex(objs, Key(name))
<1>1. ValuesOf(objs, name) = values
  BY DEF ValuesOf
<1>2. having \in Seq(Json) /\ Same(having, there)
  <2>1. P \subseteq DOMAIN objs
    OBVIOUS
  <2> HIDE DEF P
  <2>2. QED
    BY <2>1, SelectSame
<1>3. PICK g : Renames(g, having, there)
  BY <1>2 DEF Same
<1>4. DOMAIN there = P /\ \A i \in P : there[i] = objs[i]
  OBVIOUS
<1>5. \A i : i \in P <=> i \in DOMAIN objs /\ name \in DOMAIN objs[i].fields
  OBVIOUS
<1> HIDE DEF there
<1>6. /\ \A j \in DOMAIN having : g[j] \in P /\ having[j] = objs[g[j]]
      /\ \A j, m \in DOMAIN having : g[j] = g[m] => j = m
      /\ \A i \in P : \E j \in DOMAIN having : g[j] = i
  BY <1>3, <1>4 DEF Renames
<1>7. \A i \in DOMAIN objs : objs[i] \in Json /\ objs[i].k = "obj"
  BY ListShape DEF AllOf
<1>8. ASSUME NEW i \in P
      PROVE  /\ <<i, Key(name)>> \in index /\ objs[i].fields[name] \in Json
             /\ ChildrenAt(objs, Key(name))[<<i, Key(name)>>] = objs[i].fields[name]
  <2>1. i \in DOMAIN objs /\ name \in DOMAIN objs[i].fields /\ objs[i] \in Json /\ objs[i].k = "obj"
    BY <1>5, <1>7
  <2>2. Key(name) \in DOMAIN Children(objs[i]) /\ Children(objs[i])[Key(name)] = objs[i].fields[name]
    BY <2>1, ChildrenOfObject
  <2>3. Key(name) \in StepsAt(objs[i], Key(name))
    BY <2>2, StepFacts DEF StepsAt
  <2>4. /\ <<i, Key(name)>> \in index
        /\ ChildrenAt(objs, Key(name))[<<i, Key(name)>>] = Children(objs[i])[Key(name)]
    BY <2>1, <2>3, ChildIn
  <2>5. Children(objs[i])[Key(name)] \in Json
    BY <2>1, <2>2, ChildOf
  <2>6. QED
    BY <2>2, <2>4, <2>5
<1>9. ASSUME NEW x \in index PROVE \E i \in P : x = <<i, Key(name)>>
  <2>1. PICK i \in DOMAIN objs : \E s \in StepsAt(objs[i], Key(name)) : x = <<i, s>>
    BY ChildIn
  <2>2. PICK s \in StepsAt(objs[i], Key(name)) : x = <<i, s>>
    BY <2>1
  <2>3. s \in DOMAIN Children(objs[i]) /\ PlaceOf(s) = Key(name)
    BY DEF StepsAt
  <2>4. objs[i] \in Json /\ objs[i].k = "obj"
    BY <1>7
  <2>5. PICK other \in DOMAIN objs[i].fields : s = Key(other)
    BY <2>3, <2>4, ChildrenOfObject
  <2>6. other = name
    BY <2>3, <2>5, StepFacts
  <2>7. i \in P
    BY <1>5, <2>5, <2>6
  <2>8. QED
    BY <2>2, <2>5, <2>6, <2>7
<1>10. DOMAIN ChildrenAt(objs, Key(name)) = index
  BY ChildIn
<1>11. DOMAIN values = DOMAIN having /\ \A j \in DOMAIN having : values[j] = having[j].fields[name]
  OBVIOUS
<1>h. ASSUME NEW j \in DOMAIN having
      PROVE  /\ <<g[j], Key(name)>> \in index /\ having[j].fields[name] \in Json
             /\ ChildrenAt(objs, Key(name))[<<g[j], Key(name)>>] = having[j].fields[name]
  <2> HIDE DEF having, P, index
  <2>1. g[j] \in P /\ having[j] = objs[g[j]]
    BY <1>6
  <2>2. /\ <<g[j], Key(name)>> \in index /\ objs[g[j]].fields[name] \in Json
        /\ ChildrenAt(objs, Key(name))[<<g[j], Key(name)>>] = objs[g[j]].fields[name]
    BY <1>8, <2>1
  <2>3. QED
    BY <2>1, <2>2
<1>12. values \in Seq(Json)
  <2>1. DOMAIN having = 1..Len(having) /\ Len(having) \in Nat
    BY <1>2, ListShape
  <2>2. \A j \in DOMAIN having : having[j].fields[name] \in Json
    BY <1>h
  <2> HIDE DEF having
  <2>3. values \in [1..Len(having) -> Json]
    BY <2>1, <2>2
  <2> HIDE DEF values
  <2>4. QED
    BY <2>1, <2>3, ListOfLength
<1> DEFINE h == [j \in DOMAIN having |-> <<g[j], Key(name)>>]
<1>13. DOMAIN h = DOMAIN having /\ \A j \in DOMAIN having : h[j] = <<g[j], Key(name)>>
  OBVIOUS
<1>14. h \in [DOMAIN having -> index]
  <2> HIDE DEF having, P, index
  <2>1. QED
    BY <1>h
<1> HIDE DEF h, having, P, index, values
<1>15. \A j, m \in DOMAIN having : h[j] = h[m] => j = m
  BY <1>6, <1>13
<1>16. \A x \in index : \E j \in DOMAIN having : h[j] = x
  BY <1>6, <1>9, <1>13
<1>17. \A j \in DOMAIN having : values[j] = ChildrenAt(objs, Key(name))[h[j]]
  BY <1>h, <1>11, <1>13
<1>18. Renames(h, values, ChildrenAt(objs, Key(name)))
  BY <1>10, <1>11, <1>14, <1>15, <1>16, <1>17 DEF Renames
<1>19. QED
  BY <1>1, <1>12, <1>18 DEF Same

\* The elements of arrays are their children.
LEMMA ElementsSame ==
  ASSUME NEW arrs \in Seq(Json), AllOf(arrs, "arr")
  PROVE  ElementsOf(arrs) \in Seq(Json) /\ Same(ElementsOf(arrs), ChildrenAt(arrs, Element))
<1> DEFINE ss == [i \in DOMAIN arrs |-> arrs[i].items]
           N == Len(arrs)
           index == ChildIndex(arrs, Element)
<1>1. N \in Nat /\ DOMAIN arrs = 1..N
  BY ListShape
<1>2. \A i \in DOMAIN arrs : arrs[i] \in Json /\ arrs[i].k = "arr"
  BY ListShape DEF AllOf
<1>3. \A i \in DOMAIN arrs : arrs[i].items \in Seq(Json)
  BY <1>2, ChildrenOfArray
<1>4. ss \in Seq(Seq(Json)) /\ Len(ss) = N /\ \A i \in 1..N : ss[i] = arrs[i].items
  <2>1. ss \in [1..N -> Seq(Json)] /\ \A i \in 1..N : ss[i] = arrs[i].items
    BY <1>1, <1>3
  <2> HIDE DEF ss, N
  <2>2. QED
    BY <1>1, <2>1, ListOfLength
<1>5. ElementsOf(arrs) = Concatenated(ss)
  BY DEF ElementsOf
<1> HIDE DEF ss, N, index
<1>6. ElementsOf(arrs) \in Seq(Json) /\ Same(ElementsOf(arrs), Elements(ss, N))
  BY <1>4, <1>5, ConcatenatedSame
<1>7. ASSUME NEW i \in 1..N, NEW m \in DOMAIN ss[i]
      PROVE  /\ m \in Nat /\ <<i, Index(m)>> \in index
             /\ ChildrenAt(arrs, Element)[<<i, Index(m)>>] = ss[i][m]
  <2>1. i \in DOMAIN arrs /\ arrs[i] \in Json /\ arrs[i].k = "arr" /\ ss[i] = arrs[i].items
    BY <1>1, <1>2, <1>4
  <2>2. m \in DOMAIN arrs[i].items /\ arrs[i].items \in Seq(Json)
    BY <1>3, <2>1
  <2>3. m \in Nat
    BY <2>2, ListShape
  <2>4. Index(m) \in DOMAIN Children(arrs[i]) /\ Children(arrs[i])[Index(m)] = arrs[i].items[m]
    BY <2>1, <2>2, ChildrenOfArray
  <2>5. Index(m) \in StepsAt(arrs[i], Element)
    BY <2>4, StepFacts DEF StepsAt
  <2>6. /\ <<i, Index(m)>> \in index
        /\ ChildrenAt(arrs, Element)[<<i, Index(m)>>] = Children(arrs[i])[Index(m)]
    BY <2>1, <2>5, ChildIn DEF index
  <2>7. QED
    BY <2>1, <2>3, <2>4, <2>6
<1>8. ASSUME NEW x \in index
      PROVE  \E i \in 1..N : \E m \in DOMAIN ss[i] : x = <<i, Index(m)>>
  <2>1. PICK i \in DOMAIN arrs : \E s \in StepsAt(arrs[i], Element) : x = <<i, s>>
    BY ChildIn DEF index
  <2>2. PICK s \in StepsAt(arrs[i], Element) : x = <<i, s>>
    BY <2>1
  <2>3. s \in DOMAIN Children(arrs[i])
    BY DEF StepsAt
  <2>4. arrs[i] \in Json /\ arrs[i].k = "arr" /\ i \in 1..N /\ ss[i] = arrs[i].items
    BY <1>1, <1>2, <1>4
  <2>5. PICK m \in DOMAIN arrs[i].items : s = Index(m)
    BY <2>3, <2>4, ChildrenOfArray
  <2>6. QED
    BY <2>2, <2>4, <2>5
<1>9. DOMAIN ChildrenAt(arrs, Element) = index
  BY ChildIn DEF index
<1> DEFINE Q == Positions(ss, N)
           h == [x \in Q |-> <<x[1], Index(x[2])>>]
<1>10. /\ DOMAIN h = Q /\ DOMAIN Elements(ss, N) = Q
       /\ h = [x \in Q |-> h[x]]
  BY DEF Elements
<1>11. \A x \in Q : \E i \in 1..N : \E m \in DOMAIN ss[i] : x = <<i, m>>
  BY PositionIn
<1>12. ASSUME NEW i \in 1..N, NEW m \in DOMAIN ss[i]
       PROVE  /\ <<i, m>> \in Q /\ h[<<i, m>>] = <<i, Index(m)>>
              /\ Elements(ss, N)[<<i, m>>] = ss[i][m]
  <2>1. <<i, m>> \in Q
    BY PositionIn
  <2> HIDE DEF Q
  <2>2. h[<<i, m>>] = <<i, Index(m)>>
    BY <2>1
  <2>3. Elements(ss, N)[<<i, m>>] = ss[i][m]
    BY <2>1 DEF Elements, Q
  <2>4. QED
    BY <2>1, <2>2, <2>3
<1> HIDE DEF h, Q
<1>13. ASSUME NEW x \in Q
       PROVE  h[x] \in index /\ Elements(ss, N)[x] = ChildrenAt(arrs, Element)[h[x]]
  <2>1. PICK i \in 1..N : \E m \in DOMAIN ss[i] : x = <<i, m>>
    BY <1>11
  <2>2. PICK m \in DOMAIN ss[i] : x = <<i, m>>
    BY <2>1
  <2>3. h[<<i, m>>] = <<i, Index(m)>> /\ Elements(ss, N)[<<i, m>>] = ss[i][m]
    BY <1>12
  <2>4. <<i, Index(m)>> \in index /\ ChildrenAt(arrs, Element)[<<i, Index(m)>>] = ss[i][m]
    BY <1>7
  <2>5. QED
    BY <2>2, <2>3, <2>4
<1>14. ASSUME NEW x \in Q, NEW y \in Q, h[x] = h[y] PROVE x = y
  <2>1. PICK i \in 1..N : \E m \in DOMAIN ss[i] : x = <<i, m>>
    BY <1>11
  <2>2. PICK m \in DOMAIN ss[i] : x = <<i, m>>
    BY <2>1
  <2>3. PICK j \in 1..N : \E n \in DOMAIN ss[j] : y = <<j, n>>
    BY <1>11
  <2>4. PICK n \in DOMAIN ss[j] : y = <<j, n>>
    BY <2>3
  <2>5. h[x] = <<i, Index(m)>> /\ m \in Nat
    BY <1>7, <1>12, <2>2
  <2>6. h[y] = <<j, Index(n)>> /\ n \in Nat
    BY <1>7, <1>12, <2>4
  <2>7. i = j /\ Index(m) = Index(n)
    <3>1. <<i, Index(m)>> = <<j, Index(n)>>
      BY <1>14, <2>5, <2>6
    <3>2. QED
      BY <3>1
  <2>8. m = n
    BY <2>5, <2>6, <2>7, StepFacts
  <2>9. QED
    BY <2>2, <2>4, <2>7, <2>8
<1>15. ASSUME NEW z \in index PROVE \E x \in Q : h[x] = z
  <2>1. PICK i \in 1..N : \E m \in DOMAIN ss[i] : z = <<i, Index(m)>>
    BY <1>8
  <2>2. PICK m \in DOMAIN ss[i] : z = <<i, Index(m)>>
    BY <2>1
  <2>3. <<i, m>> \in Q /\ h[<<i, m>>] = <<i, Index(m)>>
    BY <1>12
  <2>4. QED
    BY <2>2, <2>3
<1>16. h \in [Q -> index]
  BY <1>10, <1>13
<1>17. Renames(h, Elements(ss, N), ChildrenAt(arrs, Element))
  BY <1>9, <1>10, <1>13, <1>14, <1>15, <1>16 DEF Renames
<1>18. Same(Elements(ss, N), ChildrenAt(arrs, Element))
  BY <1>17 DEF Same
<1>19. QED
  BY <1>6, <1>18, SameTransitive

LEMMA KeyIsPlace ==
  ASSUME NEW v \in Json, v.k = "obj", NEW name \in DOMAIN v.fields
  PROVE  Key(name) \in Places
<1>1. Key(name) \in Steps
  BY ChildrenOfObject, ChildOf
<1>2. QED
  BY <1>1, StepFacts DEF Places

LEMMA Below ==
  ASSUME NEW vs \in Seq(Json), NEW step \in DOMAIN SubSamples(vs)
  PROVE  /\ SubSamples(vs)[step] \in Seq(Json) /\ step \in Places
         /\ Same(SubSamples(vs)[step], ChildrenAt(vs, step)) /\ NonNull(vs) # <<>>
<1>1. NonNull(vs) \in Seq(Json)
  BY NonNullFacts
<1>2. NonNull(vs) # <<>>
  BY SubSamplesOfOthers
<1>3. CASE AllOf(NonNull(vs), "obj")
  <2>1. PICK name \in KeysOf(NonNull(vs)) : step = Key(name)
    BY <1>2, <1>3, SubSamplesOfObjects
  <2>2. SubSamples(vs)[step] = ValuesOf(NonNull(vs), name)
    BY <1>2, <1>3, <2>1, SubSamplesOfObjects
  <2>3. /\ ValuesOf(NonNull(vs), name) \in Seq(Json)
        /\ Same(ValuesOf(NonNull(vs), name), ChildrenAt(NonNull(vs), step))
    BY <1>1, <1>3, <2>1, ValuesSame
  <2>4. Same(SubSamples(vs)[step], ChildrenAt(vs, step))
    BY <2>2, <2>3, ChildrenOfNonNull, SameTransitive
  <2>5. PICK i \in DOMAIN NonNull(vs) : name \in DOMAIN NonNull(vs)[i].fields
    BY DEF KeysOf
  <2>6. NonNull(vs)[i] \in Json /\ NonNull(vs)[i].k = "obj"
    BY <1>1, <1>3, ListShape DEF AllOf
  <2>7. step \in Places
    BY <2>1, <2>5, <2>6, KeyIsPlace
  <2>8. QED
    BY <1>2, <2>2, <2>3, <2>4, <2>7
<1>4. CASE AllOf(NonNull(vs), "arr")
  <2>1. step = Element /\ SubSamples(vs)[step] = ElementsOf(NonNull(vs))
    BY <1>2, <1>4, SubSamplesOfArrays
  <2>2. /\ ElementsOf(NonNull(vs)) \in Seq(Json)
        /\ Same(ElementsOf(NonNull(vs)), ChildrenAt(NonNull(vs), step))
    BY <1>1, <1>4, <2>1, ElementsSame
  <2>3. Same(SubSamples(vs)[step], ChildrenAt(vs, step))
    BY <2>1, <2>2, ChildrenOfNonNull, SameTransitive
  <2>4. step \in Places
    BY <2>1 DEF Places
  <2>5. QED
    BY <1>2, <2>1, <2>2, <2>3, <2>4
<1>5. QED
  BY <1>3, <1>4, SubSamplesOfOthers

\* Each sample below is a child of a sample.
LEMMA BelowIsChild ==
  ASSUME NEW vs \in Seq(Json), NEW step \in DOMAIN SubSamples(vs),
         NEW j \in DOMAIN SubSamples(vs)[step]
  PROVE  \E i \in DOMAIN vs : \E s \in DOMAIN Children(vs[i]) :
           PlaceOf(s) = step /\ SubSamples(vs)[step][j] = Children(vs[i])[s]
<1>1. Same(SubSamples(vs)[step], ChildrenAt(vs, step))
  BY Below
<1>2. PICK x \in DOMAIN ChildrenAt(vs, step) : ChildrenAt(vs, step)[x] = SubSamples(vs)[step][j]
  BY <1>1, SameValues
<1>3. PICK i \in DOMAIN vs : \E s \in StepsAt(vs[i], step) : x = <<i, s>>
  BY ChildIn
<1>4. PICK s \in StepsAt(vs[i], step) : x = <<i, s>>
  BY <1>3
<1>5. /\ s \in DOMAIN Children(vs[i]) /\ PlaceOf(s) = step
      /\ ChildrenAt(vs, step)[x] = Children(vs[i])[s]
  BY <1>4, ChildIn
<1>6. QED
  BY <1>2, <1>5

-----------------------------------------------------------------------------
(* The samples below are nested less deeply.                               *)

IsBound(vs, b) == b \in Nat /\ \A i \in DOMAIN vs : Depth[vs[i]] < b

Nested(vs) == CHOOSE b \in Nat : IsBound(vs, b) /\ \A c \in Nat : IsBound(vs, c) => b <= c

LEMMA HasBound ==
  ASSUME NEW vs \in Seq(Json)
  PROVE  \E b \in Nat : IsBound(vs, b)
<1> DEFINE Bounded(n, b) == \A i \in 1..n : Depth[vs[i]] < b
           S == {n \in Nat : n <= Len(vs) => \E b \in Nat : Bounded(n, b)}
<1>1. Len(vs) \in Nat /\ DOMAIN vs = 1..Len(vs) /\ \A i \in DOMAIN vs : vs[i] \in Json
  BY ListShape
<1>2. \A i \in 1..Len(vs) : Depth[vs[i]] \in Nat
  BY <1>1, ChildOf
<1>3. 0 \in S
  OBVIOUS
<1>4. ASSUME NEW n \in Nat, n \in S PROVE n + 1 \in S
  <2> SUFFICES ASSUME n + 1 <= Len(vs) PROVE \E b \in Nat : Bounded(n + 1, b)
    OBVIOUS
  <2>1. n + 1 \in 1..Len(vs) /\ n <= Len(vs) /\ 1..(n + 1) = (1..n) \cup {n + 1}
        /\ 1..n \subseteq 1..Len(vs)
    BY <1>1
  <2>2. PICK b \in Nat : Bounded(n, b)
    BY <1>4, <2>1
  <2>3. PICK d \in Nat : d = Depth[vs[n + 1]]
    BY <1>2, <2>1
  <2>4. CASE d < b
    <3>1. Bounded(n + 1, b)
      BY <2>1, <2>2, <2>3, <2>4
    <3>2. QED
      BY <3>1
  <2>5. CASE ~(d < b)
    <3>1. d + 1 \in Nat /\ \A i \in 1..n : Depth[vs[i]] < d + 1
      BY <1>2, <2>1, <2>2, <2>5
    <3>2. Bounded(n + 1, d + 1)
      BY <2>1, <2>3, <3>1
    <3>3. QED
      BY <3>1, <3>2
  <2>6. QED
    BY <2>4, <2>5
<1> HIDE DEF S
<1>5. Len(vs) \in S
  BY <1>1, <1>3, <1>4, Induction
<1>6. PICK b \in Nat : Bounded(Len(vs), b)
  BY <1>1, <1>5 DEF S
<1>7. QED
  BY <1>1, <1>6 DEF IsBound

LEMMA NestedIsBound ==
  ASSUME NEW vs \in Seq(Json)
  PROVE  /\ Nested(vs) \in Nat /\ IsBound(vs, Nested(vs))
         /\ \A c \in Nat : IsBound(vs, c) => Nested(vs) <= c
<1> DEFINE B == {b \in Nat : IsBound(vs, b)}
<1>1. B \in SUBSET Nat /\ B # {}
  BY HasBound
<1> HIDE DEF B
<1>2. PICK b \in B : \A c \in B : b <= c
  BY <1>1, Least
<1>3. \E d \in Nat : IsBound(vs, d) /\ \A c \in Nat : IsBound(vs, c) => d <= c
  BY <1>2 DEF B
<1>4. QED
  BY <1>3 DEF Nested

LEMMA BelowIsLess ==
  ASSUME NEW vs \in Seq(Json), NEW step \in DOMAIN SubSamples(vs)
  PROVE  Nested(SubSamples(vs)[step]) < Nested(vs)
<1> DEFINE us == SubSamples(vs)[step]
<1>1. us \in Seq(Json) /\ NonNull(vs) # <<>>
  BY Below
<1>2. Nested(vs) \in Nat /\ IsBound(vs, Nested(vs))
  BY NestedIsBound
<1>3. PICK i \in DOMAIN vs : vs[i].k # "null"
  BY <1>1, NonNullFacts
<1>4. vs[i] \in Json
  BY ListShape
<1>5. Nested(vs) - 1 \in Nat
  <2>1. Depth[vs[i]] \in Nat /\ Depth[vs[i]] < Nested(vs)
    BY <1>2, <1>4, ChildOf DEF IsBound
  <2>2. QED
    BY <1>2, <2>1
<1>6. ASSUME NEW j \in DOMAIN us PROVE Depth[us[j]] < Nested(vs) - 1
  <2>1. PICK m \in DOMAIN vs : \E s \in DOMAIN Children(vs[m]) :
          PlaceOf(s) = step /\ us[j] = Children(vs[m])[s]
    BY BelowIsChild
  <2>2. vs[m] \in Json
    BY ListShape
  <2>3. Depth[us[j]] \in Nat /\ Depth[vs[m]] \in Nat /\ Depth[us[j]] < Depth[vs[m]]
    BY <2>1, <2>2, ChildOf
  <2>4. Depth[vs[m]] < Nested(vs)
    BY <1>2 DEF IsBound
  <2>5. QED
    BY <1>2, <2>3, <2>4
<1> HIDE DEF us
<1>7. IsBound(us, Nested(vs) - 1)
  BY <1>5, <1>6 DEF IsBound
<1>8. Nested(us) \in Nat /\ Nested(us) <= Nested(vs) - 1
  BY <1>1, <1>5, <1>7, NestedIsBound
<1>9. QED
  BY <1>2, <1>8 DEF us

\* What holds of samples if it holds of all samples below them holds of all.
LEMMA SamplesInduction ==
  ASSUME NEW S,
         \A vs \in Seq(Json) :
           (\A step \in DOMAIN SubSamples(vs) : SubSamples(vs)[step] \in S) => vs \in S
  PROVE  \A vs \in Seq(Json) : vs \in S
<1> DEFINE T == {n \in Nat : \A vs \in Seq(Json) : Nested(vs) < n => vs \in S}
<1>1. 0 \in T
  BY NestedIsBound
<1>2. ASSUME NEW n \in Nat, n \in T PROVE n + 1 \in T
  <2> SUFFICES ASSUME NEW vs \in Seq(Json), Nested(vs) < n + 1 PROVE vs \in S
    OBVIOUS
  <2>1. ASSUME NEW step \in DOMAIN SubSamples(vs) PROVE SubSamples(vs)[step] \in S
    <3>1. SubSamples(vs)[step] \in Seq(Json)
      BY Below
    <3>2. Nested(SubSamples(vs)[step]) < Nested(vs)
      BY BelowIsLess
    <3>3. Nested(vs) \in Nat /\ Nested(SubSamples(vs)[step]) \in Nat
      BY <3>1, NestedIsBound
    <3>4. Nested(SubSamples(vs)[step]) < n
      BY <3>2, <3>3
    <3>5. QED
      BY <1>2, <3>1, <3>4
  <2>2. QED
    BY <2>1
<1> HIDE DEF T
<1>3. \A n \in Nat : n \in T
  BY <1>1, <1>2, Induction
<1>4. ASSUME NEW vs \in Seq(Json) PROVE vs \in S
  <2>1. Nested(vs) \in Nat /\ Nested(vs) + 1 \in Nat /\ Nested(vs) < Nested(vs) + 1
    BY NestedIsBound
  <2>2. QED
    BY <1>3, <2>1 DEF T
<1>5. QED
  BY <1>4

-----------------------------------------------------------------------------
(* infer_schema is defined for all samples.                                *)

Subschema == [at : Seq(Places), is : {Keywords(ws) : ws \in Seq(Json)}]

LEMMA HereIsSubschema ==
  ASSUME NEW vs \in Seq(Json), NEW t \in Here(Keywords(vs))
  PROVE  t \in Subschema
<1>1. <<>> \in Seq(Places)
  OBVIOUS
<1>2. t = [at |-> <<>>, is |-> Keywords(vs)]
  BY DEF Here
<1>3. QED
  BY <1>1, <1>2 DEF Subschema

LEMMA UnderIsSubschema ==
  ASSUME NEW vs \in Seq(Json), NEW step \in DOMAIN SubSamples(vs), NEW S \in SUBSET Subschema,
         NEW t \in Under(step, S)
  PROVE  t \in Subschema
<1>1. PICK u \in S : t = Behind(step, u)
  BY InUnder
<1>2. step \in Places
  BY Below
<1>3. u.at \in Seq(Places) /\ u.is \in {Keywords(ws) : ws \in Seq(Json)}
  BY DEF Subschema
<1>4. <<step>> \o u.at \in Seq(Places)
  BY <1>2, <1>3, FrontStep
<1>5. QED
  BY <1>1, <1>3, <1>4 DEF Subschema, Behind

Nesting == [vs \in Seq(Json) |-> Nested(vs)]

LEMMA InferSchemaDefined ==
  /\ \A vs \in Seq(Json) :
       InferSchema[vs] = Here(Keywords(vs)) \cup
         UNION {Under(step, InferSchema[SubSamples(vs)[step]]) : step \in DOMAIN SubSamples(vs)}
  /\ \A vs \in Seq(Json) : InferSchema[vs] \in SUBSET Subschema
<1> DEFINE D == Seq(Json)
           X == SUBSET Subschema
           next(g, vs) == Here(Keywords(vs)) \cup
             UNION {Under(step, g[SubSamples(vs)[step]]) : step \in DOMAIN SubSamples(vs)}
           F == [p \in [D -> X] \X D |-> next(p[1], p[2])]
           Recursive(f) == f = [vs \in D |-> next(f, vs)]
<1>1. \A g \in [D -> X] : \A vs \in D : next(g, vs) \in X
  <2> SUFFICES ASSUME NEW g \in [D -> X], NEW vs \in D, NEW t \in next(g, vs)
               PROVE  t \in Subschema
    OBVIOUS
  <2>1. CASE t \in Here(Keywords(vs))
    BY <2>1, HereIsSubschema
  <2>2. ASSUME NEW step \in DOMAIN SubSamples(vs), t \in Under(step, g[SubSamples(vs)[step]])
        PROVE  t \in Subschema
    <3>1. SubSamples(vs)[step] \in D
      BY Below
    <3>2. g[SubSamples(vs)[step]] \in SUBSET Subschema
      BY <3>1
    <3>3. QED
      BY <2>2, <3>2, UnderIsSubschema
  <2>3. QED
    BY <2>1, <2>2
<1>2. F \in [[D -> X] \X D -> X] /\ \A g \in [D -> X] : \A vs \in D : F[<<g, vs>>] = next(g, vs)
  <2> HIDE DEF next, X, D
  <2>1. QED
    BY <1>1
<1>3. Local(D, Nesting, X, F)
  <2>1. Nesting \in [D -> Nat] /\ \A vs \in D : Nesting[vs] = Nested(vs)
    BY NestedIsBound DEF Nesting
  <2>2. ASSUME NEW vs \in D, NEW g \in [D -> X], NEW h \in [D -> X],
               \A us \in D : Nesting[us] < Nesting[vs] => g[us] = h[us]
        PROVE  F[<<g, vs>>] = F[<<h, vs>>]
    <3>1. \A step \in DOMAIN SubSamples(vs) : g[SubSamples(vs)[step]] = h[SubSamples(vs)[step]]
      BY <2>1, <2>2, Below, BelowIsLess
    <3>2. next(g, vs) = next(h, vs)
      BY <3>1
    <3> HIDE DEF F, next
    <3>3. QED
      BY <1>2, <3>2
  <2> HIDE DEF F, X, D
  <2>3. QED
    BY <1>2, <2>1, <2>2 DEF Local
<1>4. PICK f : Solves(f, D, X, F)
  <2>1. X # {}
    BY DEF X
  <2> HIDE DEF F, X, D
  <2>2. QED
    BY <1>3, <2>1, Recursion
<1>5. f \in [D -> X] /\ \A vs \in D : f[vs] = next(f, vs)
  <2> HIDE DEF F, X, D, next
  <2>1. QED
    BY <1>2, <1>4 DEF Solves
<1>6. Recursive(f)
  <2> HIDE DEF X, D, next
  <2>1. QED
    BY <1>5
<1>7. InferSchema = CHOOSE g : Recursive(g)
  BY DEF InferSchema
<1> HIDE DEF Recursive
<1>8. Recursive(InferSchema)
  BY <1>6, <1>7
<1>9. \A vs \in D : InferSchema[vs] = next(InferSchema, vs)
  <2> HIDE DEF next, D
  <2>1. InferSchema = [vs \in D |-> next(InferSchema, vs)]
    BY <1>8 DEF Recursive
  <2>2. QED
    BY <2>1
<1>10. \A vs \in D : InferSchema[vs] \in X
  <2> DEFINE S == {vs \in D : InferSchema[vs] \in X}
  <2>1. ASSUME NEW vs \in Seq(Json),
               \A step \in DOMAIN SubSamples(vs) : SubSamples(vs)[step] \in S
        PROVE  vs \in S
    <3> SUFFICES ASSUME NEW t \in InferSchema[vs] PROVE t \in Subschema
      OBVIOUS
    <3>1. CASE t \in Here(Keywords(vs))
      BY <3>1, HereIsSubschema
    <3>2. ASSUME NEW step \in DOMAIN SubSamples(vs),
                 t \in Under(step, InferSchema[SubSamples(vs)[step]])
          PROVE  t \in Subschema
      <4>1. InferSchema[SubSamples(vs)[step]] \in SUBSET Subschema
        BY <2>1
      <4>2. QED
        BY <3>2, <4>1, UnderIsSubschema
    <3>3. QED
      BY <1>9, <3>1, <3>2
  <2> HIDE DEF S
  <2>2. \A vs \in Seq(Json) : vs \in S
    BY <2>1, SamplesInduction
  <2>3. QED
    BY <2>2 DEF S
<1>11. QED
  BY <1>9, <1>10

\* A subschema is the one of the samples themselves, or one of a sub-schema.
LEMMA SchemaUnfolds ==
  ASSUME NEW vs \in Seq(Json)
  PROVE  \A t : t \in InferSchema[vs] <=>
           \/ t = [at |-> <<>>, is |-> Keywords(vs)]
           \/ \E step \in DOMAIN SubSamples(vs) :
                \E u \in InferSchema[SubSamples(vs)[step]] : t = Behind(step, u)
<1>1. InferSchema[vs] = Here(Keywords(vs)) \cup
         UNION {Under(step, InferSchema[SubSamples(vs)[step]]) : step \in DOMAIN SubSamples(vs)}
  BY InferSchemaDefined
<1>2. ASSUME NEW t
      PROVE  t \in InferSchema[vs] <=>
           \/ t = [at |-> <<>>, is |-> Keywords(vs)]
           \/ \E step \in DOMAIN SubSamples(vs) :
                \E u \in InferSchema[SubSamples(vs)[step]] : t = Behind(step, u)
  <2>1. t \in InferSchema[vs] <=>
          \/ t \in Here(Keywords(vs))
          \/ \E step \in DOMAIN SubSamples(vs) : t \in Under(step, InferSchema[SubSamples(vs)[step]])
    BY <1>1
  <2>2. QED
    BY <2>1, InUnder DEF Here
<1>3. QED
  BY <1>2

LEMMA SubschemaShape ==
  ASSUME NEW vs \in Seq(Json), NEW t \in InferSchema[vs]
  PROVE  t.at \in Seq(Places) /\ t = [at |-> t.at, is |-> t.is]
<1>1. t \in Subschema
  BY InferSchemaDefined
<1>2. QED
  BY <1>1 DEF Subschema

\* A subschema has the keywords of what is observed at its place.
LEMMA SchemaAtPlace ==
  \A vs \in Seq(Json) : \A t \in InferSchema[vs] :
    \E ws \in Seq(Json) : t.is = Keywords(ws) /\ Same(ws, Observed(vs, t.at))
<1> DEFINE Holds(vs) == \A t \in InferSchema[vs] :
             \E ws \in Seq(Json) : t.is = Keywords(ws) /\ Same(ws, Observed(vs, t.at))
           S == {vs \in Seq(Json) : Holds(vs)}
<1>1. ASSUME NEW vs \in Seq(Json), \A step \in DOMAIN SubSamples(vs) : SubSamples(vs)[step] \in S
      PROVE  vs \in S
  <2> SUFFICES ASSUME NEW t \in InferSchema[vs]
               PROVE  \E ws \in Seq(Json) : t.is = Keywords(ws) /\ Same(ws, Observed(vs, t.at))
    OBVIOUS
  <2>1. IsFamily(vs)
    BY ListShape DEF IsFamily
  <2>2. CASE t = [at |-> <<>>, is |-> Keywords(vs)]
    <3>1. t.at = <<>> /\ t.is = Keywords(vs)
      BY <2>2
    <3>2. Same(vs, Observed(vs, t.at))
      BY <2>1, <3>1, SeenHere
    <3>3. QED
      BY <3>1, <3>2
  <2>3. ASSUME NEW step \in DOMAIN SubSamples(vs),
               NEW u \in InferSchema[SubSamples(vs)[step]], t = Behind(step, u)
        PROVE  \E ws \in Seq(Json) : t.is = Keywords(ws) /\ Same(ws, Observed(vs, t.at))
    <3>1. t.at = <<step>> \o u.at /\ t.is = u.is
      BY <2>3 DEF Behind
    <3>2. SubSamples(vs)[step] \in Seq(Json) /\ step \in Places
          /\ Same(SubSamples(vs)[step], ChildrenAt(vs, step))
      BY Below
    <3>3. u.at \in Seq(Places)
      BY <3>2, SubschemaShape
    <3>4. PICK ws \in Seq(Json) :
            u.is = Keywords(ws) /\ Same(ws, Observed(SubSamples(vs)[step], u.at))
      BY <1>1
    <3>5. Same(Observed(SubSamples(vs)[step], u.at), Observed(ChildrenAt(vs, step), u.at))
      BY <3>2, SeenSame
    <3>6. Same(Observed(ChildrenAt(vs, step), u.at), Observed(vs, t.at))
      BY <2>1, <3>1, <3>2, <3>3, SeenBelow
    <3>7. Same(ws, Observed(vs, t.at))
      BY <3>4, <3>5, <3>6, SameTransitive
    <3>8. QED
      BY <3>1, <3>4, <3>7
  <2>4. QED
    BY <2>2, <2>3, SchemaUnfolds
<1> HIDE DEF S
<1>2. \A vs \in Seq(Json) : vs \in S
  BY <1>1, SamplesInduction
<1>3. QED
  BY <1>2 DEF S

-----------------------------------------------------------------------------
(* The common primitive type does not depend on the order of the values.   *)

Primitive == {"string", "boolean", "integer", "number", NoType}

LEMMA PrimitiveTypes ==
  /\ \A v : PrimitiveTypeOf(v) \in Primitive
  /\ \A kind, this \in Primitive : Widen(kind, this) \in Primitive
BY DEF PrimitiveTypeOf, Widen, Primitive, NoType

\* What the types in T have in common.
IsCommon(T, kind) ==
  \/ T = {kind}
  \/ kind = "number" /\ T = {"integer", "number"}
  \/ kind = NoType /\ T # {"integer", "number"} /\ \A t : T # {t}

LEMMA CommonIsUnique ==
  ASSUME NEW T, NEW a, NEW b, IsCommon(T, a), IsCommon(T, b)
  PROVE  a = b
<1>1. "integer" # "number"
  OBVIOUS
<1>2. \A t : T = {t} => T # {"integer", "number"}
  BY <1>1
<1>3. CASE T = {a}
  <2>1. T = {b}
    BY <1>2, <1>3 DEF IsCommon
  <2>2. QED
    BY <1>3, <2>1
<1>4. CASE a = "number" /\ T = {"integer", "number"}
  <2>1. T # {b}
    BY <1>2, <1>4
  <2>2. QED
    BY <1>4, <2>1 DEF IsCommon
<1>5. CASE a = NoType /\ T # {"integer", "number"} /\ \A t : T # {t}
  BY <1>5 DEF IsCommon
<1>6. QED
  BY <1>3, <1>4, <1>5 DEF IsCommon

LEMMA CommonWidens ==
  ASSUME NEW T, T # {}, T \subseteq Primitive, NEW kind \in Primitive, IsCommon(T, kind),
         NEW this \in Primitive
  PROVE  IsCommon(T \cup {this}, Widen(kind, this))
<1>1. CASE T = {kind}
  <2>1. CASE this = kind
    BY <1>1, <2>1 DEF Widen, IsCommon
  <2>2. CASE this # kind
    <3>1. T \cup {this} = {kind, this} /\ \A t : T \cup {this} # {t}
      BY <1>1, <2>2
    <3>2. QED
      BY <2>2, <3>1 DEF Widen, IsCommon, NoType
  <2>3. QED
    BY <2>1, <2>2
<1>2. CASE kind = "number" /\ T = {"integer", "number"}
  <2>1. CASE this \in T
    <3>1. T \cup {this} = T /\ Widen(kind, this) = "number"
      BY <1>2, <2>1 DEF Widen
    <3>2. QED
      BY <1>2, <3>1 DEF IsCommon
  <2>2. CASE this \notin T
    <3>1. Widen(kind, this) = NoType
      BY <1>2, <2>2 DEF Widen
    <3>2. T \cup {this} # {"integer", "number"} /\ \A t : T \cup {this} # {t}
      BY <1>2, <2>2
    <3>3. QED
      BY <3>1, <3>2 DEF IsCommon
  <2>3. QED
    BY <2>1, <2>2
<1>3. CASE kind = NoType /\ T # {"integer", "number"} /\ \A t : T # {t}
  <2>1. Widen(kind, this) = NoType
    BY <1>3 DEF Widen, NoType
  <2>2. \A t : T \cup {this} # {t}
    BY <1>3
  <2>3. T \cup {this} # {"integer", "number"}
    <3>1. SUFFICES ASSUME T \cup {this} = {"integer", "number"} PROVE FALSE
      OBVIOUS
    <3>2. T \subseteq {"integer", "number"}
      BY <3>1
    <3>3. T = {"integer"} \/ T = {"number"} \/ T = {"integer", "number"}
      BY <3>2
    <3>4. QED
      BY <1>3, <3>3
  <2>4. QED
    BY <2>1, <2>2, <2>3 DEF IsCommon
<1>4. QED
  BY <1>1, <1>2, <1>3 DEF IsCommon

TypesIn(vs) == {PrimitiveTypeOf(vs[i]) : i \in DOMAIN vs}

LEMMA CommonUnfolds ==
  ASSUME NEW vs \in Seq(Json), NEW N, N = Len(vs), N # 0
  PROVE  \E kind :
           /\ kind[1] = PrimitiveTypeOf(vs[1])
           /\ \A n \in 2..N : kind[n] = Widen(kind[n - 1], PrimitiveTypeOf(vs[n]))
           /\ CommonPrimitiveType(vs) = kind[N]
<1> DEFINE X == Primitive
           next(n, t) == IF n = 1 THEN PrimitiveTypeOf(vs[1]) ELSE Widen(t, PrimitiveTypeOf(vs[n]))
           round == [p \in (1..N) \X X |-> next(p[1], p[2])]
           Recursive(f) == f = [n \in 1..N |-> IF n = 1 THEN PrimitiveTypeOf(vs[1])
                                  ELSE Widen(f[n - 1], PrimitiveTypeOf(vs[n]))]
           kind == CHOOSE f : Recursive(f)
<1>1. N \in Nat /\ N >= 1
  BY ListShape
<1>2. \A n \in 1..N : \A t \in X : next(n, t) \in X
  BY PrimitiveTypes
<1>3. round \in [(1..N) \X X -> X] /\ \A n \in 1..N : \A t \in X : round[<<n, t>>] = next(n, t)
  <2> HIDE DEF next, X
  <2>1. QED
    BY <1>2
<1>4. CommonPrimitiveType(vs) = kind[N]
  BY DEF CommonPrimitiveType
<1>5. \E g : Recursive(g)
  <2>1. NoType \in X
    BY DEF Primitive
  <2>2. IsLoop(N, X, NoType, round)
    <3> HIDE DEF round, X
    <3>1. QED
      BY <1>1, <1>3, <2>1 DEF IsLoop
  <2>3. PICK f : Runs(f, N, X, NoType, round)
    <3> HIDE DEF round, X
    <3>1. QED
      BY <1>1, <2>2, Loop
  <2> HIDE DEF X, round
  <2>4. f \in [0..N -> X] /\ \A n \in 1..N : f[n] = round[<<n, f[n - 1]>>]
    BY <2>3 DEF Runs
  <2>5. \A n \in 1..N : n - 1 \in 0..N
    BY <1>1
  <2>6. \A n \in 1..N : f[n - 1] \in X
    BY <2>4, <2>5
  <2>7. \A n \in 1..N : f[n] = next(n, f[n - 1])
    BY <1>3, <2>4, <2>6
  <2> DEFINE g == [n \in 1..N |-> f[n]]
  <2>8. \A n \in 1..N : n # 1 => n - 1 \in 1..N
    BY <1>1
  <2>9. \A n \in 1..N : g[n] = f[n]
    OBVIOUS
  <2>10. \A n \in 1..N : g[n] = IF n = 1 THEN PrimitiveTypeOf(vs[1])
                                ELSE Widen(g[n - 1], PrimitiveTypeOf(vs[n]))
    <3> HIDE DEF g
    <3>1. QED
      BY <2>7, <2>8, <2>9
  <2>11. g = [n \in 1..N |-> g[n]]
    OBVIOUS
  <2> HIDE DEF g
  <2>12. Recursive(g)
    BY <2>10, <2>11
  <2>13. QED
    BY <2>12
<1>6. Recursive(kind)
  BY <1>5
<1> HIDE DEF kind
<1>7. \A n \in 1..N : kind[n] = next(n, kind[n - 1])
  BY <1>6
<1>8. kind[1] = PrimitiveTypeOf(vs[1])
  BY <1>1, <1>7
<1>9. \A n \in 2..N : kind[n] = Widen(kind[n - 1], PrimitiveTypeOf(vs[n]))
  <2>1. \A n \in 2..N : n \in 1..N /\ n # 1
    BY <1>1
  <2>2. QED
    BY <1>7, <2>1
<1>10. QED
  BY <1>4, <1>8, <1>9

LEMMA CommonTypeIsCommon ==
  ASSUME NEW vs \in Seq(Json), vs # <<>>
  PROVE  /\ CommonPrimitiveType(vs) \in Primitive
         /\ IsCommon(TypesIn(vs), CommonPrimitiveType(vs))
<1>0. PICK N : N = Len(vs)
  OBVIOUS
<1>1. N \in Nat /\ N # 0 /\ DOMAIN vs = 1..N
  BY <1>0, ListShape
<1>2. PICK kind :
        /\ kind[1] = PrimitiveTypeOf(vs[1])
        /\ \A n \in 2..N : kind[n] = Widen(kind[n - 1], PrimitiveTypeOf(vs[n]))
        /\ CommonPrimitiveType(vs) = kind[N]
  BY <1>0, <1>1, CommonUnfolds
<1> DEFINE T(n) == {PrimitiveTypeOf(vs[i]) : i \in 1..n}
           Good(n) == kind[n] \in Primitive /\ IsCommon(T(n), kind[n])
           S == {n \in Nat : n + 1 <= N => Good(n + 1)}
<1>3. 0 \in S
  <2>1. T(1) = {PrimitiveTypeOf(vs[1])}
    OBVIOUS
  <2> HIDE DEF T
  <2>2. Good(1)
    BY <1>2, <2>1, PrimitiveTypes DEF IsCommon
  <2>3. QED
    BY <2>2
<1>4. ASSUME NEW n \in Nat, n \in S PROVE n + 1 \in S
  <2> SUFFICES ASSUME n + 2 <= N PROVE Good(n + 2)
    OBVIOUS
  <2>1. n + 2 \in 2..N /\ (n + 2) - 1 = n + 1 /\ n + 1 <= N
    BY <1>1
  <2>2. Good(n + 1)
    BY <1>4, <2>1
  <2>3. kind[n + 2] = Widen(kind[n + 1], PrimitiveTypeOf(vs[n + 2]))
    BY <1>2, <2>1
  <2>4. T(n + 2) = T(n + 1) \cup {PrimitiveTypeOf(vs[n + 2])}
    <3>1. 1..(n + 2) = (1..(n + 1)) \cup {n + 2}
      OBVIOUS
    <3>2. QED
      BY <3>1
  <2>5. T(n + 1) # {} /\ T(n + 1) \subseteq Primitive
    <3>1. 1 \in 1..(n + 1)
      OBVIOUS
    <3>2. QED
      BY <3>1, PrimitiveTypes
  <2> HIDE DEF T
  <2>6. IsCommon(T(n + 2), kind[n + 2])
    BY <2>2, <2>3, <2>4, <2>5, CommonWidens, PrimitiveTypes
  <2>7. kind[n + 2] \in Primitive
    BY <2>2, <2>3, PrimitiveTypes
  <2>8. QED
    BY <2>6, <2>7
<1> HIDE DEF S, Good
<1>5. \A n \in Nat : n \in S
  BY <1>3, <1>4, Induction
<1>6. N - 1 \in Nat /\ (N - 1) + 1 = N
  BY <1>1
<1>7. Good(N)
  BY <1>5, <1>6 DEF S
<1>8. T(N) = TypesIn(vs)
  BY <1>1 DEF TypesIn
<1>9. QED
  BY <1>2, <1>7, <1>8 DEF Good

\* Every value has the common type, or is an integer among numbers.
LEMMA CommonTypeCovers ==
  ASSUME NEW vs \in Seq(Json), NEW i \in DOMAIN vs, CommonPrimitiveType(vs) # NoType
  PROVE  \/ PrimitiveTypeOf(vs[i]) = CommonPrimitiveType(vs)
         \/ PrimitiveTypeOf(vs[i]) = "integer" /\ CommonPrimitiveType(vs) = "number"
<1>1. vs # <<>>
  BY ListShape
<1>2. IsCommon(TypesIn(vs), CommonPrimitiveType(vs))
  BY <1>1, CommonTypeIsCommon
<1>3. PrimitiveTypeOf(vs[i]) \in TypesIn(vs)
  BY DEF TypesIn
<1>4. QED
  BY <1>2, <1>3 DEF IsCommon

\* Values that occur in both lists make the common types equal.
LEMMA CommonTypeSame ==
  ASSUME NEW vs \in Seq(Json), NEW ws \in Seq(Json), vs # <<>>, Same(vs, ws)
  PROVE  ws # <<>> /\ CommonPrimitiveType(vs) = CommonPrimitiveType(ws)
<1>1. /\ \A i \in DOMAIN vs : \E j \in DOMAIN ws : ws[j] = vs[i]
      /\ \A j \in DOMAIN ws : \E i \in DOMAIN vs : vs[i] = ws[j]
  BY SameValues
<1>2. ws # <<>>
  <2>1. DOMAIN vs # {}
    BY ListShape
  <2>2. DOMAIN ws # {}
    BY <1>1, <2>1
  <2>3. QED
    BY <2>2, ListShape
<1>3. TypesIn(vs) = TypesIn(ws)
  BY <1>1 DEF TypesIn
<1>4. QED
  BY <1>2, <1>3, CommonTypeIsCommon, CommonIsUnique

-----------------------------------------------------------------------------
(* The keywords of a list of samples, case by case.                        *)

HasNull(ws) == \E i \in DOMAIN ws : ws[i].k = "null"

LEMMA KeywordsCases ==
  ASSUME NEW ws \in Seq(Json)
  PROVE  /\ NonNull(ws) = <<>> => Keywords(ws) = [type |-> {"null"}]
         /\ NonNull(ws) # <<>> /\ HasNull(ws) =>
              Keywords(ws) = MakeNullable(NonNullKeywords(NonNull(ws)))
         /\ NonNull(ws) # <<>> /\ ~HasNull(ws) =>
              Keywords(ws) = NonNullKeywords(NonNull(ws)) /\ NonNull(ws) = ws
<1>1. Len(NonNull(ws)) < Len(ws) <=> HasNull(ws)
  BY NonNullFacts DEF HasNull
<1>2. ~HasNull(ws) => NonNull(ws) = ws
  BY NonNullFacts DEF HasNull
<1>3. NonNull(ws) = <<>> => Keywords(ws) = [type |-> {"null"}]
  BY DEF Keywords
<1>4. NonNull(ws) # <<>> /\ Len(NonNull(ws)) < Len(ws) =>
        Keywords(ws) = MakeNullable(NonNullKeywords(NonNull(ws)))
  BY DEF Keywords
<1>5. NonNull(ws) # <<>> /\ ~(Len(NonNull(ws)) < Len(ws)) =>
        Keywords(ws) = NonNullKeywords(NonNull(ws))
  BY DEF Keywords
<1>6. QED
  BY <1>1, <1>2, <1>3, <1>4, <1>5

LEMMA NullableFacts ==
  ASSUME NEW K
  PROVE  /\ DOMAIN MakeNullable(K) = DOMAIN K \cup {"type"}
         /\ \A w \in DOMAIN K : w # "type" => MakeNullable(K)[w] = K[w]
         /\ "type" \in DOMAIN K => MakeNullable(K).type = K.type \cup {"null"}
         /\ "type" \notin DOMAIN K => MakeNullable(K).type = {"null"}
BY DEF MakeNullable

\* The keywords of values none of which is null, by their kind.
OfObjects(vs, K) ==
  /\ AllOf(vs, "obj") /\ DOMAIN K = {"type", "properties", "required"}
  /\ K.type = {"object"} /\ K.properties = KeysOf(vs)
  /\ K.required = {key \in KeysOf(vs) : IsRequired(vs, key)}

OfArrays(vs, K) == AllOf(vs, "arr") /\ DOMAIN K = {"type"} /\ K.type = {"array"}

OfPrimitives(vs, K) ==
  /\ CommonPrimitiveType(vs) # NoType /\ DOMAIN K = {"type", "examples"}
  /\ K.type = {CommonPrimitiveType(vs)} /\ K.examples = Examples(vs)

OfMixed(vs, K) == DOMAIN K = {"examples"} /\ K.examples = Examples(vs)

LEMMA NonNullShape ==
  ASSUME NEW vs \in Seq(Json), vs # <<>>
  PROVE  \/ OfObjects(vs, NonNullKeywords(vs)) \/ OfArrays(vs, NonNullKeywords(vs))
         \/ /\ ~AllOf(vs, "obj") /\ ~AllOf(vs, "arr")
            /\ OfPrimitives(vs, NonNullKeywords(vs)) \/ OfMixed(vs, NonNullKeywords(vs))
<1>1. ~(AllOf(vs, "obj") /\ AllOf(vs, "arr"))
  <2>1. 1 \in DOMAIN vs
    BY ListShape
  <2>2. QED
    BY <2>1 DEF AllOf
<1>2. CASE AllOf(vs, "obj")
  <2>1. NonNullKeywords(vs) =
          [type |-> {"object"}, properties |-> KeysOf(vs),
           required |-> {key \in KeysOf(vs) : IsRequired(vs, key)}]
    BY <1>1, <1>2 DEF NonNullKeywords
  <2>2. QED
    BY <1>2, <2>1 DEF OfObjects
<1>3. CASE AllOf(vs, "arr")
  <2>1. NonNullKeywords(vs) = [type |-> {"array"}]
    BY <1>1, <1>3 DEF NonNullKeywords
  <2>2. QED
    BY <1>3, <2>1 DEF OfArrays
<1>4. CASE ~AllOf(vs, "obj") /\ ~AllOf(vs, "arr")
  <2>1. CASE CommonPrimitiveType(vs) # NoType
    <3>1. NonNullKeywords(vs) = [type |-> {CommonPrimitiveType(vs)}, examples |-> Examples(vs)]
      BY <1>4, <2>1 DEF NonNullKeywords
    <3>2. QED
      BY <1>4, <2>1, <3>1 DEF OfPrimitives
  <2>2. CASE CommonPrimitiveType(vs) = NoType
    <3>1. NonNullKeywords(vs) = [examples |-> Examples(vs)]
      BY <1>4, <2>2 DEF NonNullKeywords
    <3>2. QED
      BY <1>4, <3>1 DEF OfMixed
  <2>3. QED
    BY <2>1, <2>2
<1>5. QED
  BY <1>2, <1>3, <1>4

\* Examples are values that were observed.
LEMMA ExamplesObserved ==
  ASSUME NEW vs
  PROVE  \A x \in Examples(vs) : \E i \in DOMAIN vs : vs[i] = x
BY DEF Examples

-----------------------------------------------------------------------------
(* Samples satisfy the keywords inferred from them.                        *)

LEMMA TypesOfKinds ==
  ASSUME NEW v
  PROVE  /\ v.k = "null" => TypesOf(v) = {"null"}
         /\ v.k = "obj" => TypesOf(v) = {"object"}
         /\ v.k = "arr" => TypesOf(v) = {"array"}
         /\ PrimitiveTypeOf(v) # NoType => PrimitiveTypeOf(v) \in TypesOf(v)
         /\ PrimitiveTypeOf(v) = "integer" => "number" \in TypesOf(v)
<1>1. v.k = "null" => TypesOf(v) = {"null"}
  BY DEF TypesOf
<1>2. v.k = "obj" => TypesOf(v) = {"object"}
  BY DEF TypesOf
<1>3. v.k = "arr" => TypesOf(v) = {"array"}
  BY DEF TypesOf
<1>4. PrimitiveTypeOf(v) # NoType => PrimitiveTypeOf(v) \in TypesOf(v)
  BY DEF TypesOf, PrimitiveTypeOf, NoType
<1>5. PrimitiveTypeOf(v) = "integer" => "number" \in TypesOf(v)
  BY DEF TypesOf, PrimitiveTypeOf, NoType
<1>6. QED
  BY <1>1, <1>2, <1>3, <1>4, <1>5

LEMMA SatisfiesNonNull ==
  ASSUME NEW vs \in Seq(Json), NEW i \in DOMAIN vs, vs[i].k # "null"
  PROVE  Satisfies(vs[i], NonNullKeywords(vs))
<1> DEFINE K == NonNullKeywords(vs)
           v == vs[i]
<1>1. vs # <<>>
  BY ListShape
<1>2. CASE OfObjects(vs, K)
  <2>1. v.k = "obj" /\ TypesOf(v) = {"object"} /\ K.type = {"object"}
    BY <1>2, TypesOfKinds DEF OfObjects, AllOf
  <2>2. K.required \subseteq DOMAIN v.fields
    BY <1>2 DEF OfObjects, IsRequired
  <2> HIDE DEF K, v
  <2>3. K.type \cap TypesOf(v) # {}
    BY <2>1
  <2>4. Satisfies(v, K)
    BY <2>2, <2>3 DEF Satisfies
  <2>5. QED
    BY <2>4 DEF K, v
<1>3. CASE OfArrays(vs, K)
  <2>1. v.k = "arr" /\ TypesOf(v) = {"array"} /\ K.type = {"array"} /\ DOMAIN K = {"type"}
    BY <1>3, TypesOfKinds DEF OfArrays, AllOf
  <2> HIDE DEF K, v
  <2>2. Satisfies(v, K)
    BY <2>1 DEF Satisfies
  <2>3. QED
    BY <2>2 DEF K, v
<1>4. CASE OfPrimitives(vs, K)
  <2>1. /\ CommonPrimitiveType(vs) # NoType /\ K.type = {CommonPrimitiveType(vs)}
        /\ "required" \notin DOMAIN K
    BY <1>4 DEF OfPrimitives
  <2>2. CommonPrimitiveType(vs) \in TypesOf(v)
    BY <2>1, CommonTypeCovers, TypesOfKinds
  <2> HIDE DEF K, v
  <2>3. Satisfies(v, K)
    BY <2>1, <2>2 DEF Satisfies
  <2>4. QED
    BY <2>3 DEF K, v
<1>5. CASE OfMixed(vs, K)
  <2>1. "type" \notin DOMAIN K /\ "required" \notin DOMAIN K
    BY <1>5 DEF OfMixed
  <2>2. QED
    BY <2>1 DEF Satisfies
<1>6. QED
  BY <1>1, <1>2, <1>3, <1>4, <1>5, NonNullShape

LEMMA SatisfiesUnlessMixed ==
  ASSUME NEW ws \in Seq(Json), NEW i \in DOMAIN ws, ~MixedAndNull(Keywords(ws))
  PROVE  Satisfies(ws[i], Keywords(ws))
<1> DEFINE v == ws[i]
           found == NonNull(ws)
           K == NonNullKeywords(found)
<1>1. found \in Seq(Json)
  BY NonNullFacts
<1>2. CASE found = <<>>
  <2>1. v.k = "null" /\ TypesOf(v) = {"null"}
    BY <1>2, NonNullFacts, TypesOfKinds
  <2>2. Keywords(ws) = [type |-> {"null"}]
    BY <1>2, KeywordsCases
  <2>3. Keywords(ws).type = {"null"}
    BY <2>2
  <2>4. QED
    BY <2>1, <2>3 DEF Satisfies
<1>3. CASE found # <<>> /\ ~HasNull(ws)
  <2>1. Keywords(ws) = NonNullKeywords(ws) /\ v.k # "null"
    BY <1>3, KeywordsCases DEF HasNull
  <2>2. QED
    BY <2>1, SatisfiesNonNull
<1>4. CASE found # <<>> /\ HasNull(ws)
  <2>1. Keywords(ws) = MakeNullable(K)
    BY <1>4, KeywordsCases
  <2>2. /\ DOMAIN MakeNullable(K) = DOMAIN K \cup {"type"}
        /\ \A w \in DOMAIN K : w # "type" => MakeNullable(K)[w] = K[w]
        /\ "type" \in DOMAIN K => MakeNullable(K).type = K.type \cup {"null"}
        /\ "type" \notin DOMAIN K => MakeNullable(K).type = {"null"}
    BY NullableFacts
  <2>3. CASE v.k = "null"
    <3>1. TypesOf(v) = {"null"} /\ "null" \in MakeNullable(K).type
      BY <2>2, <2>3, TypesOfKinds
    <3>2. QED
      BY <2>1, <2>3, <3>1 DEF Satisfies
  <2>4. CASE v.k # "null"
    <3>1. PICK j \in DOMAIN found : found[j] = v
      BY <2>4, NonNullFacts
    <3>2. Satisfies(v, K)
      BY <1>1, <2>4, <3>1, SatisfiesNonNull
    <3>3. "type" \in DOMAIN K
      <4>1. SUFFICES ASSUME "type" \notin DOMAIN K PROVE FALSE
        OBVIOUS
      <4>2. OfMixed(found, K)
        BY <1>1, <1>4, <4>1, NonNullShape DEF OfObjects, OfArrays, OfPrimitives
      <4>3. "examples" \in DOMAIN K
        BY <4>2 DEF OfMixed
      <4>4. MixedAndNull(MakeNullable(K))
        BY <2>2, <4>1, <4>3 DEF MixedAndNull
      <4>5. QED
        BY <2>1, <4>4
    <3>4. K.type \cap TypesOf(v) # {}
      BY <3>2, <3>3 DEF Satisfies
    <3>5. MakeNullable(K).type \cap TypesOf(v) # {}
      BY <2>2, <3>3, <3>4
    <3>6. v.k = "obj" /\ "required" \in DOMAIN K => K.required \subseteq DOMAIN v.fields
      BY <3>2 DEF Satisfies
    <3>7. "required" \in DOMAIN MakeNullable(K) =>
            "required" \in DOMAIN K /\ MakeNullable(K).required = K.required
      BY <2>2
    <3>8. Satisfies(v, MakeNullable(K))
      BY <3>5, <3>6, <3>7 DEF Satisfies
    <3>9. QED
      BY <2>1, <3>8
  <2>5. QED
    BY <2>3, <2>4
<1>5. QED
  BY <1>2, <1>3, <1>4

-----------------------------------------------------------------------------
(* What schemas say of the samples they are inferred from.                 *)

LEMMA ObservedAtPlace ==
  ASSUME NEW vs \in Seq(Json), NEW t \in InferSchema[vs]
  PROVE  \E ws \in Seq(Json) :
           /\ t.is = Keywords(ws)
           /\ \A o \in SeenAt(vs, t.at) : \E j \in DOMAIN ws : ws[j] = o[2].is
           /\ \A j \in DOMAIN ws : \E o \in SeenAt(vs, t.at) : o[2].is = ws[j]
           /\ \A i, j \in DOMAIN ws : i # j =>
                \E o, u \in SeenAt(vs, t.at) : o # u /\ o[2].is = ws[i] /\ u[2].is = ws[j]
<1>1. PICK ws \in Seq(Json) : t.is = Keywords(ws) /\ Same(ws, Observed(vs, t.at))
  BY SchemaAtPlace
<1>2. /\ DOMAIN Observed(vs, t.at) = SeenAt(vs, t.at)
      /\ \A o \in SeenAt(vs, t.at) : Observed(vs, t.at)[o] = o[2].is
  BY DEF Observed
<1>3. /\ \A x \in DOMAIN ws : \E z \in DOMAIN Observed(vs, t.at) : Observed(vs, t.at)[z] = ws[x]
      /\ \A z \in DOMAIN Observed(vs, t.at) : \E x \in DOMAIN ws : ws[x] = Observed(vs, t.at)[z]
      /\ \A x, y \in DOMAIN ws : x # y =>
           \E z, w \in DOMAIN Observed(vs, t.at) :
             z # w /\ Observed(vs, t.at)[z] = ws[x] /\ Observed(vs, t.at)[w] = ws[y]
  BY <1>1, SameValues
<1>4. \A o \in SeenAt(vs, t.at) : \E j \in DOMAIN ws : ws[j] = o[2].is
  BY <1>2, <1>3
<1>5. ASSUME NEW j \in DOMAIN ws PROVE \E o \in SeenAt(vs, t.at) : o[2].is = ws[j]
  <2>1. PICK z \in DOMAIN Observed(vs, t.at) : Observed(vs, t.at)[z] = ws[j]
    BY <1>3
  <2>2. z \in SeenAt(vs, t.at) /\ z[2].is = ws[j]
    BY <1>2, <2>1
  <2>3. QED
    BY <2>2
<1>6. ASSUME NEW i \in DOMAIN ws, NEW j \in DOMAIN ws, i # j
      PROVE  \E o, u \in SeenAt(vs, t.at) : o # u /\ o[2].is = ws[i] /\ u[2].is = ws[j]
  <2>1. PICK z, w \in DOMAIN Observed(vs, t.at) :
          z # w /\ Observed(vs, t.at)[z] = ws[i] /\ Observed(vs, t.at)[w] = ws[j]
    BY <1>3, <1>6
  <2>2. z \in SeenAt(vs, t.at) /\ w \in SeenAt(vs, t.at) /\ z[2].is = ws[i] /\ w[2].is = ws[j]
    BY <1>2, <2>1
  <2>3. QED
    BY <2>1, <2>2
<1>7. QED
  BY <1>1, <1>4, <1>5, <1>6

LEMMA SamplesAreValid ==
  ASSUME samples \in Seq(Json)
  PROVE  SamplesValidateUnlessMixed
<1> SUFFICES ASSUME \A t \in schema : ~MixedAndNull(t.is), NEW i \in DOMAIN samples,
                    NEW p \in Parts[samples[i]], NEW t \in schema, t.at = Place(p.at)
             PROVE  Satisfies(p.is, t.is)
  BY DEF SamplesValidateUnlessMixed, Validates
<1>1. t \in InferSchema[samples]
  BY DEF schema
<1>2. PICK ws \in Seq(Json) :
        /\ t.is = Keywords(ws)
        /\ \A o \in SeenAt(samples, t.at) : \E j \in DOMAIN ws : ws[j] = o[2].is
  BY <1>1, ObservedAtPlace
<1>3. <<i, p>> \in SeenAt(samples, t.at)
  BY SeenIn
<1>4. PICK o : o = <<i, p>>
  OBVIOUS
<1>5. o \in SeenAt(samples, t.at) /\ o[2] = p
  BY <1>3, <1>4
<1>6. PICK j \in DOMAIN ws : ws[j] = p.is
  BY <1>2, <1>5
<1>7. ~MixedAndNull(Keywords(ws))
  BY <1>2
<1>8. Satisfies(ws[j], Keywords(ws))
  BY <1>7, SatisfiesUnlessMixed
<1>9. QED
  BY <1>2, <1>6, <1>8

\* Fields are required of at least two objects that all have them.
LEMMA RequiredOfObjects ==
  ASSUME NEW ws \in Seq(Json), "required" \in DOMAIN Keywords(ws), Keywords(ws).required # {}
  PROVE  /\ \E i, j \in DOMAIN ws : i # j /\ ws[i].k = "obj" /\ ws[j].k = "obj"
         /\ \A i \in DOMAIN ws : ws[i].k = "obj" =>
              Keywords(ws).required \subseteq DOMAIN ws[i].fields
<1> DEFINE found == NonNull(ws)
           K == NonNullKeywords(found)
<1>1. found \in Seq(Json)
  BY NonNullFacts
<1>2. found # <<>>
  <2>1. SUFFICES ASSUME found = <<>> PROVE FALSE
    OBVIOUS
  <2>2. Keywords(ws) = [type |-> {"null"}]
    BY <2>1, KeywordsCases
  <2>3. QED
    BY <2>2
<1>3. "required" \in DOMAIN K /\ K.required = Keywords(ws).required
  <2>1. CASE HasNull(ws)
    <3>1. Keywords(ws) = MakeNullable(K)
      BY <1>2, <2>1, KeywordsCases
    <3>2. /\ DOMAIN MakeNullable(K) = DOMAIN K \cup {"type"}
          /\ \A w \in DOMAIN K : w # "type" => MakeNullable(K)[w] = K[w]
      BY NullableFacts
    <3> HIDE DEF K
    <3>3. QED
      BY <3>1, <3>2
  <2>2. CASE ~HasNull(ws)
    BY <1>2, <2>2, KeywordsCases
  <2>3. QED
    BY <2>1, <2>2
<1>4. OfObjects(found, K)
  BY <1>1, <1>2, <1>3, NonNullShape DEF OfArrays, OfPrimitives, OfMixed
<1>5. AllOf(found, "obj") /\ K.required = {key \in KeysOf(found) : IsRequired(found, key)}
  BY <1>4 DEF OfObjects
<1>6. Len(found) >= 2 /\ \A j \in DOMAIN found : K.required \subseteq DOMAIN found[j].fields
  BY <1>3, <1>5 DEF IsRequired, MIN_SAMPLES_FOR_REQUIRED
<1>7. \E i, j \in DOMAIN ws : i # j /\ ws[i].k = "obj" /\ ws[j].k = "obj"
  <2>1. 1 \in DOMAIN found /\ 2 \in DOMAIN found
    BY <1>1, <1>6, ListShape
  <2>2. found[1].k = "obj" /\ found[2].k = "obj"
    BY <1>5, <2>1 DEF AllOf
  <2>3. \E i, n \in DOMAIN ws : i # n /\ ws[i] = found[1] /\ ws[n] = found[2]
    BY <2>1, NonNullFacts
  <2>4. QED
    BY <2>2, <2>3
<1>8. ASSUME NEW i \in DOMAIN ws, ws[i].k = "obj"
      PROVE  Keywords(ws).required \subseteq DOMAIN ws[i].fields
  <2>1. ws[i].k # "null"
    BY <1>8
  <2>2. PICK j \in DOMAIN found : found[j] = ws[i]
    BY <2>1, NonNullFacts
  <2>3. K.required \subseteq DOMAIN found[j].fields
    BY <1>6
  <2>4. QED
    BY <1>3, <2>2, <2>3
<1>9. QED
  BY <1>7, <1>8

LEMMA RequiredWasObserved ==
  ASSUME samples \in Seq(Json)
  PROVE  RequiredIsObserved
<1> SUFFICES ASSUME NEW t \in schema, "required" \in DOMAIN t.is, t.is.required # {}
             PROVE  LET objs == {o \in SeenAt(samples, t.at) : o[2].is.k = "obj"}
                    IN  /\ \E a, b \in objs : a # b
                        /\ \A o \in objs : t.is.required \subseteq DOMAIN o[2].is.fields
  BY DEF RequiredIsObserved
<1> DEFINE seen == SeenAt(samples, t.at)
<1>1. t \in InferSchema[samples]
  BY DEF schema
<1>2. PICK ws \in Seq(Json) :
        /\ t.is = Keywords(ws)
        /\ \A o \in seen : \E j \in DOMAIN ws : ws[j] = o[2].is
        /\ \A i, j \in DOMAIN ws : i # j =>
             \E o, u \in seen : o # u /\ o[2].is = ws[i] /\ u[2].is = ws[j]
  BY <1>1, ObservedAtPlace
<1>3. /\ \E i, j \in DOMAIN ws : i # j /\ ws[i].k = "obj" /\ ws[j].k = "obj"
      /\ \A i \in DOMAIN ws : ws[i].k = "obj" => t.is.required \subseteq DOMAIN ws[i].fields
  BY <1>2, RequiredOfObjects
<1> HIDE DEF seen
<1>4. \E o, u \in seen : o # u /\ o[2].is.k = "obj" /\ u[2].is.k = "obj"
  <2>1. PICK i, j \in DOMAIN ws : i # j /\ ws[i].k = "obj" /\ ws[j].k = "obj"
    BY <1>3
  <2>2. PICK o, u \in seen : o # u /\ o[2].is = ws[i] /\ u[2].is = ws[j]
    BY <1>2, <2>1
  <2>3. QED
    BY <2>1, <2>2
<1>5. ASSUME NEW o \in seen, o[2].is.k = "obj"
      PROVE  t.is.required \subseteq DOMAIN o[2].is.fields
  <2>1. PICK j \in DOMAIN ws : ws[j] = o[2].is
    BY <1>2
  <2>2. QED
    BY <1>3, <1>5, <2>1
<1>6. QED
  BY <1>4, <1>5 DEF seen

\* Null is among the types only of samples that have it, or of none.
LEMMA NullOfNull ==
  ASSUME NEW ws \in Seq(Json), "type" \in DOMAIN Keywords(ws), "null" \in Keywords(ws).type
  PROVE  ws = <<>> \/ HasNull(ws)
<1> DEFINE found == NonNull(ws)
           K == NonNullKeywords(found)
<1> SUFFICES ASSUME ~HasNull(ws), ws # <<>> PROVE FALSE
  OBVIOUS
<1>1. 1 \in DOMAIN ws
  BY ListShape
<1>2. found # <<>>
  BY <1>1, NonNullFacts DEF HasNull
<1>3. Keywords(ws) = K /\ found \in Seq(Json)
  BY <1>2, KeywordsCases, NonNullFacts
<1>4. CommonPrimitiveType(found) # "null"
  BY <1>2, <1>3, CommonTypeIsCommon DEF Primitive, NoType
<1>5. "type" \in DOMAIN K => "null" \notin K.type
  <2>1. OfObjects(found, K) => "null" \notin K.type
    BY DEF OfObjects
  <2>2. OfArrays(found, K) => "null" \notin K.type
    BY DEF OfArrays
  <2>3. OfPrimitives(found, K) => "null" \notin K.type
    BY <1>4 DEF OfPrimitives
  <2>4. OfMixed(found, K) => "type" \notin DOMAIN K
    BY DEF OfMixed
  <2> HIDE DEF K, found
  <2>5. QED
    BY <1>2, <1>3, <2>1, <2>2, <2>3, <2>4, NonNullShape DEF K
<1>6. QED
  BY <1>3, <1>5

LEMMA NullWasObserved ==
  ASSUME samples \in Seq(Json)
  PROVE  NullOnEvidenceOrEmpty
<1> SUFFICES ASSUME NEW t \in schema, "type" \in DOMAIN t.is, "null" \in t.is.type
             PROVE  \/ SeenAt(samples, t.at) = {}
                    \/ \E o \in SeenAt(samples, t.at) : o[2].is.k = "null"
  BY DEF NullOnEvidenceOrEmpty
<1>1. t \in InferSchema[samples]
  BY DEF schema
<1>2. PICK ws \in Seq(Json) :
        /\ t.is = Keywords(ws)
        /\ \A o \in SeenAt(samples, t.at) : \E j \in DOMAIN ws : ws[j] = o[2].is
        /\ \A j \in DOMAIN ws : \E o \in SeenAt(samples, t.at) : o[2].is = ws[j]
  BY <1>1, ObservedAtPlace
<1>3. ws = <<>> \/ HasNull(ws)
  BY <1>2, NullOfNull
<1>4. CASE ws = <<>>
  <2>1. DOMAIN ws = {}
    BY <1>4, ListShape
  <2>2. QED
    BY <1>2, <2>1
<1>5. CASE HasNull(ws)
  BY <1>2, <1>5 DEF HasNull
<1>6. QED
  BY <1>3, <1>4, <1>5

-----------------------------------------------------------------------------
(* Schemas do not depend on the order of the samples, but for examples.    *)

\* Two subschemas differ at most in their examples.
Agree(K, L) ==
  /\ DOMAIN K \ {"examples"} = DOMAIN L \ {"examples"}
  /\ \A w \in DOMAIN K \ {"examples"} : K[w] = L[w]

Asserted(K) == [w \in DOMAIN K \ {"examples"} |-> K[w]]

LEMMA AgreeingAssert ==
  ASSUME NEW K, NEW L, Agree(K, L)
  PROVE  Asserted(K) = Asserted(L)
BY DEF Agree, Asserted

LEMMA AgreeNullable ==
  ASSUME NEW K, NEW L, Agree(K, L)
  PROVE  Agree(MakeNullable(K), MakeNullable(L))
<1>1. DOMAIN MakeNullable(K) = DOMAIN K \cup {"type"} /\ DOMAIN MakeNullable(L) = DOMAIN L \cup {"type"}
  BY NullableFacts
<1>2. "type" \in DOMAIN K <=> "type" \in DOMAIN L
  BY DEF Agree
<1>3. MakeNullable(K)["type"] = MakeNullable(L)["type"]
  <2>1. CASE "type" \in DOMAIN K
    <3>1. K["type"] = L["type"]
      BY <2>1 DEF Agree
    <3>2. QED
      BY <1>2, <2>1, <3>1, NullableFacts
  <2>2. CASE "type" \notin DOMAIN K
    BY <1>2, <2>2, NullableFacts
  <2>3. QED
    BY <2>1, <2>2
<1>4. ASSUME NEW w \in DOMAIN MakeNullable(K) \ {"examples"}, w # "type"
      PROVE  MakeNullable(K)[w] = MakeNullable(L)[w]
  <2>1. w \in DOMAIN K /\ w \in DOMAIN L /\ K[w] = L[w]
    BY <1>1, <1>4 DEF Agree
  <2>2. MakeNullable(K)[w] = K[w] /\ MakeNullable(L)[w] = L[w]
    BY <1>4, <2>1, NullableFacts
  <2>3. QED
    BY <2>1, <2>2
<1>5. DOMAIN MakeNullable(K) \ {"examples"} = DOMAIN MakeNullable(L) \ {"examples"}
  BY <1>1 DEF Agree
<1>6. QED
  BY <1>3, <1>4, <1>5 DEF Agree

LEMMA NonNullRenamed ==
  ASSUME NEW vs \in Seq(Json), NEW us \in Seq(Json), Same(vs, us)
  PROVE  Same(NonNull(vs), NonNull(us)) /\ (HasNull(vs) <=> HasNull(us))
<1>1. PICK g : Renames(g, vs, us)
  BY DEF Same
<1>2. /\ \A i \in DOMAIN vs : g[i] \in DOMAIN us /\ vs[i] = us[g[i]]
      /\ \A i, j \in DOMAIN vs : g[i] = g[j] => i = j
      /\ \A z \in DOMAIN us : \E i \in DOMAIN vs : g[i] = z
  BY <1>1 DEF Renames
<1>3. /\ \A i : i \in NotNull(vs) <=> i \in DOMAIN vs /\ vs[i].k # "null"
      /\ \A i : i \in NotNull(us) <=> i \in DOMAIN us /\ us[i].k # "null"
  BY DEF NotNull
<1> DEFINE F == [i \in NotNull(vs) |-> vs[i]]
           G == [i \in NotNull(us) |-> us[i]]
           h == [i \in NotNull(vs) |-> g[i]]
<1>4. Renames(h, F, G)
  <2>1. h \in [NotNull(vs) -> NotNull(us)]
    BY <1>2, <1>3
  <2>2. \A i, j \in NotNull(vs) : h[i] = h[j] => i = j
    BY <1>2, <1>3
  <2>3. \A z \in NotNull(us) : \E i \in NotNull(vs) : h[i] = z
    BY <1>2, <1>3
  <2>4. \A i \in NotNull(vs) : F[i] = G[h[i]]
    BY <1>2, <1>3, <2>1
  <2>5. DOMAIN F = NotNull(vs) /\ DOMAIN G = NotNull(us)
    OBVIOUS
  <2> HIDE DEF F, G, h
  <2>6. QED
    BY <2>1, <2>2, <2>3, <2>4, <2>5 DEF Renames
<1>5. Same(F, G)
  <2> HIDE DEF F, G, h
  <2>1. QED
    BY <1>4 DEF Same
<1>6. Same(NonNull(vs), F) /\ Same(NonNull(us), G)
  BY NonNullSame
<1> HIDE DEF F, G
<1>7. Same(G, NonNull(us))
  BY <1>6, SameSymmetric
<1>8. Same(F, NonNull(us))
  BY <1>5, <1>7, SameTransitive
<1>9. Same(NonNull(vs), NonNull(us))
  BY <1>6, <1>8, SameTransitive
<1>10. HasNull(vs) <=> HasNull(us)
  BY <1>2 DEF HasNull
<1>11. QED
  BY <1>9, <1>10

LEMMA KindsRenamed ==
  ASSUME NEW vs \in Seq(Json), NEW us \in Seq(Json), Same(vs, us)
  PROVE  /\ \A k : AllOf(vs, k) <=> AllOf(us, k)
         /\ KeysOf(vs) = KeysOf(us)
         /\ \A key : IsRequired(vs, key) <=> IsRequired(us, key)
         /\ vs = <<>> <=> us = <<>>
<1>1. /\ \A i \in DOMAIN vs : \E j \in DOMAIN us : us[j] = vs[i]
      /\ \A j \in DOMAIN us : \E i \in DOMAIN vs : vs[i] = us[j]
      /\ \A i, n \in DOMAIN vs : i # n => \E j, m \in DOMAIN us : j # m
  BY SameValues
<1>2. \A j, m \in DOMAIN us : j # m => \E i, n \in DOMAIN vs : i # n
  <2>1. Same(us, vs)
    BY SameSymmetric
  <2>2. QED
    BY <2>1, SameValues
<1>3. \A k : AllOf(vs, k) <=> AllOf(us, k)
  BY <1>1 DEF AllOf
<1>4. KeysOf(vs) = KeysOf(us)
  BY <1>1 DEF KeysOf
<1>5. ASSUME NEW X, NEW s \in Seq(X) PROVE Len(s) >= 2 <=> \E i, j \in DOMAIN s : i # j
  <2>1. Len(s) \in Nat /\ DOMAIN s = 1..Len(s)
    BY ListShape
  <2>2. Len(s) >= 2 => \E i, j \in DOMAIN s : i # j
    <3>1. Len(s) >= 2 => 1 \in 1..Len(s) /\ 2 \in 1..Len(s) /\ 1 # 2
      BY <2>1
    <3>2. QED
      BY <2>1, <3>1
  <2>3. ~(Len(s) >= 2) => \A i, j \in DOMAIN s : i = j
    BY <2>1
  <2>4. QED
    BY <2>2, <2>3
<1>6. Len(vs) >= 2 <=> Len(us) >= 2
  <2>1. Len(vs) >= 2 <=> \E i, j \in DOMAIN vs : i # j
    BY <1>5
  <2>2. Len(us) >= 2 <=> \E i, j \in DOMAIN us : i # j
    BY <1>5
  <2>3. QED
    BY <1>1, <1>2, <2>1, <2>2
<1>7. ASSUME NEW key PROVE IsRequired(vs, key) <=> IsRequired(us, key)
  <2>1. (\A i \in DOMAIN vs : key \in DOMAIN vs[i].fields) <=>
        (\A i \in DOMAIN us : key \in DOMAIN us[i].fields)
    BY <1>1
  <2>2. QED
    BY <1>6, <2>1 DEF IsRequired, MIN_SAMPLES_FOR_REQUIRED
<1>8. vs = <<>> <=> us = <<>>
  <2>1. (vs = <<>> <=> DOMAIN vs = {}) /\ (us = <<>> <=> DOMAIN us = {})
    BY ListShape
  <2>2. DOMAIN vs = {} <=> DOMAIN us = {}
    BY <1>1
  <2>3. QED
    BY <2>1, <2>2
<1>9. QED
  BY <1>3, <1>4, <1>7, <1>8

LEMMA NonNullAgree ==
  ASSUME NEW vs \in Seq(Json), NEW us \in Seq(Json), Same(vs, us), vs # <<>>
  PROVE  Agree(NonNullKeywords(vs), NonNullKeywords(us))
<1> DEFINE K == NonNullKeywords(vs)
           L == NonNullKeywords(us)
<1>1. /\ AllOf(vs, "obj") <=> AllOf(us, "obj")
      /\ AllOf(vs, "arr") <=> AllOf(us, "arr")
      /\ KeysOf(vs) = KeysOf(us)
      /\ {key \in KeysOf(vs) : IsRequired(vs, key)} = {key \in KeysOf(us) : IsRequired(us, key)}
      /\ us # <<>>
  BY KindsRenamed
<1>2. CommonPrimitiveType(vs) = CommonPrimitiveType(us)
  BY CommonTypeSame
<1>3. ~(AllOf(vs, "obj") /\ AllOf(vs, "arr"))
  <2>1. 1 \in DOMAIN vs
    BY ListShape
  <2>2. QED
    BY <2>1 DEF AllOf
<1>4. CASE AllOf(vs, "obj")
  <2>1. K = [type |-> {"object"}, properties |-> KeysOf(vs),
             required |-> {key \in KeysOf(vs) : IsRequired(vs, key)}]
    BY <1>3, <1>4 DEF NonNullKeywords
  <2>2. L = [type |-> {"object"}, properties |-> KeysOf(us),
             required |-> {key \in KeysOf(us) : IsRequired(us, key)}]
    BY <1>1, <1>3, <1>4 DEF NonNullKeywords
  <2>3. K = L
    BY <1>1, <2>1, <2>2
  <2>4. QED
    BY <2>3 DEF Agree
<1>5. CASE AllOf(vs, "arr")
  <2>1. K = [type |-> {"array"}] /\ L = [type |-> {"array"}]
    BY <1>1, <1>3, <1>5 DEF NonNullKeywords
  <2>2. QED
    BY <2>1 DEF Agree
<1>6. CASE ~AllOf(vs, "obj") /\ ~AllOf(vs, "arr")
  <2>1. CASE CommonPrimitiveType(vs) # NoType
    <3>1. K = [type |-> {CommonPrimitiveType(vs)}, examples |-> Examples(vs)]
      BY <1>6, <2>1 DEF NonNullKeywords
    <3>2. L = [type |-> {CommonPrimitiveType(vs)}, examples |-> Examples(us)]
      BY <1>1, <1>2, <1>6, <2>1 DEF NonNullKeywords
    <3> HIDE DEF K, L
    <3>3. DOMAIN K = {"type", "examples"} /\ DOMAIN L = {"type", "examples"}
      BY <3>1, <3>2
    <3>4. K["type"] = L["type"]
      BY <3>1, <3>2
    <3>5. Agree(K, L)
      BY <3>3, <3>4 DEF Agree
    <3>6. QED
      BY <3>5 DEF K, L
  <2>2. CASE CommonPrimitiveType(vs) = NoType
    <3>1. K = [examples |-> Examples(vs)]
      BY <1>6, <2>2 DEF NonNullKeywords
    <3>2. L = [examples |-> Examples(us)]
      BY <1>1, <1>2, <1>6, <2>2 DEF NonNullKeywords
    <3> HIDE DEF K, L
    <3>3. Agree(K, L)
      BY <3>1, <3>2 DEF Agree
    <3>4. QED
      BY <3>3 DEF K, L
  <2>3. QED
    BY <2>1, <2>2
<1>7. QED
  BY <1>4, <1>5, <1>6

LEMMA KeywordsAgree ==
  ASSUME NEW vs \in Seq(Json), NEW us \in Seq(Json), Same(vs, us)
  PROVE  Agree(Keywords(vs), Keywords(us))
<1>1. NonNull(vs) \in Seq(Json) /\ NonNull(us) \in Seq(Json)
  BY NonNullFacts
<1>2. Same(NonNull(vs), NonNull(us)) /\ (HasNull(vs) <=> HasNull(us))
  BY NonNullRenamed
<1>3. NonNull(vs) = <<>> <=> NonNull(us) = <<>>
  BY <1>1, <1>2, KindsRenamed
<1>4. CASE NonNull(vs) = <<>>
  <2>1. Keywords(vs) = Keywords(us)
    BY <1>3, <1>4, KeywordsCases
  <2>2. QED
    BY <2>1 DEF Agree
<1>5. CASE NonNull(vs) # <<>>
  <2>1. Agree(NonNullKeywords(NonNull(vs)), NonNullKeywords(NonNull(us)))
    BY <1>1, <1>2, <1>5, NonNullAgree
  <2>2. CASE HasNull(vs)
    <3>1. /\ Keywords(vs) = MakeNullable(NonNullKeywords(NonNull(vs)))
          /\ Keywords(us) = MakeNullable(NonNullKeywords(NonNull(us)))
      BY <1>2, <1>3, <1>5, <2>2, KeywordsCases
    <3>2. QED
      BY <2>1, <3>1, AgreeNullable
  <2>3. CASE ~HasNull(vs)
    <3>1. /\ Keywords(vs) = NonNullKeywords(NonNull(vs))
          /\ Keywords(us) = NonNullKeywords(NonNull(us))
      BY <1>2, <1>3, <1>5, <2>3, KeywordsCases
    <3>2. QED
      BY <2>1, <3>1
  <2>4. QED
    BY <2>2, <2>3
<1>6. QED
  BY <1>4, <1>5

\* The samples below are renamed as well.
LEMMA BelowRenamed ==
  ASSUME NEW vs \in Seq(Json), NEW us \in Seq(Json), Same(vs, us),
         NEW step \in DOMAIN SubSamples(vs)
  PROVE  /\ step \in DOMAIN SubSamples(us) /\ SubSamples(us)[step] \in Seq(Json)
         /\ Same(SubSamples(vs)[step], SubSamples(us)[step])
<1> DEFINE F == NonNull(vs)
           G == NonNull(us)
<1>1. F \in Seq(Json) /\ G \in Seq(Json) /\ Same(F, G)
  BY NonNullFacts, NonNullRenamed
<1>2. /\ AllOf(F, "obj") <=> AllOf(G, "obj")
      /\ AllOf(F, "arr") <=> AllOf(G, "arr")
      /\ KeysOf(F) = KeysOf(G)
      /\ F = <<>> <=> G = <<>>
  <2> HIDE DEF F, G
  <2>1. QED
    BY <1>1, KindsRenamed
<1>3. step \in DOMAIN SubSamples(us)
  <2>1. CASE AllOf(F, "obj") /\ F # <<>>
    <3>1. \E name \in KeysOf(NonNull(vs)) : step = Key(name)
      BY <2>1, SubSamplesOfObjects
    <3>2. \A s : s \in DOMAIN SubSamples(us) <=> \E name \in KeysOf(NonNull(us)) : s = Key(name)
      BY <1>2, <2>1, SubSamplesOfObjects
    <3>3. QED
      BY <1>2, <3>1, <3>2
  <2>2. CASE AllOf(F, "arr") /\ F # <<>>
    <3>1. DOMAIN SubSamples(vs) = {Element}
      BY <2>2, SubSamplesOfArrays
    <3>2. DOMAIN SubSamples(us) = {Element}
      BY <1>2, <2>2, SubSamplesOfArrays
    <3>3. QED
      BY <3>1, <3>2
  <2>3. CASE F = <<>> \/ (~AllOf(F, "obj") /\ ~AllOf(F, "arr"))
    <3>1. DOMAIN SubSamples(vs) = {}
      BY <2>3, SubSamplesOfOthers
    <3>2. QED
      BY <3>1
  <2>4. QED
    BY <2>1, <2>2, <2>3
<1>4. Same(SubSamples(vs)[step], ChildrenAt(vs, step))
  BY Below
<1>5. SubSamples(us)[step] \in Seq(Json) /\ Same(SubSamples(us)[step], ChildrenAt(us, step))
  BY <1>3, Below
<1>6. Same(ChildrenAt(vs, step), ChildrenAt(us, step))
  BY ChildrenSame
<1>7. Same(ChildrenAt(us, step), SubSamples(us)[step])
  BY <1>5, SameSymmetric
<1>8. Same(ChildrenAt(vs, step), SubSamples(us)[step])
  BY <1>6, <1>7, SameTransitive
<1>9. Same(SubSamples(vs)[step], SubSamples(us)[step])
  BY <1>4, <1>8, SameTransitive
<1>10. QED
  BY <1>3, <1>5, <1>9

\* Each subschema of the one agrees with a subschema of the other.
SchemaAgrees(vs, us) ==
  \A t \in InferSchema[vs] : \E u \in InferSchema[us] : u.at = t.at /\ Agree(t.is, u.is)

LEMMA OrderIsIrrelevant ==
  \A vs \in Seq(Json) : \A us \in Seq(Json) : Same(vs, us) => SchemaAgrees(vs, us)
<1> DEFINE S == {vs \in Seq(Json) : \A us \in Seq(Json) : Same(vs, us) => SchemaAgrees(vs, us)}
<1>1. ASSUME NEW vs \in Seq(Json), \A step \in DOMAIN SubSamples(vs) : SubSamples(vs)[step] \in S
      PROVE  vs \in S
  <2> SUFFICES ASSUME NEW us \in Seq(Json), Same(vs, us), NEW t \in InferSchema[vs]
               PROVE  \E u \in InferSchema[us] : u.at = t.at /\ Agree(t.is, u.is)
    BY DEF SchemaAgrees
  <2>1. CASE t = [at |-> <<>>, is |-> Keywords(vs)]
    <3>1. PICK u : u = [at |-> <<>>, is |-> Keywords(us)]
      OBVIOUS
    <3>2. u \in InferSchema[us]
      BY <3>1, SchemaUnfolds
    <3>3. Agree(Keywords(vs), Keywords(us))
      BY KeywordsAgree
    <3>4. u.at = t.at /\ t.is = Keywords(vs) /\ u.is = Keywords(us)
      BY <2>1, <3>1
    <3>5. QED
      BY <3>2, <3>3, <3>4
  <2>2. ASSUME NEW step \in DOMAIN SubSamples(vs), NEW x \in InferSchema[SubSamples(vs)[step]],
               t = Behind(step, x)
        PROVE  \E u \in InferSchema[us] : u.at = t.at /\ Agree(t.is, u.is)
    <3>1. /\ step \in DOMAIN SubSamples(us) /\ SubSamples(us)[step] \in Seq(Json)
          /\ Same(SubSamples(vs)[step], SubSamples(us)[step])
      BY BelowRenamed
    <3>2. SchemaAgrees(SubSamples(vs)[step], SubSamples(us)[step])
      BY <1>1, <3>1
    <3>3. PICK y \in InferSchema[SubSamples(us)[step]] : y.at = x.at /\ Agree(x.is, y.is)
      BY <3>2 DEF SchemaAgrees
    <3>4. PICK u : u = Behind(step, y)
      OBVIOUS
    <3>5. u \in InferSchema[us]
      BY <3>1, <3>4, SchemaUnfolds
    <3>6. t.at = <<step>> \o x.at /\ t.is = x.is /\ u.at = <<step>> \o y.at /\ u.is = y.is
      BY <2>2, <3>4 DEF Behind
    <3>7. QED
      BY <3>3, <3>5, <3>6
  <2>3. QED
    BY <2>1, <2>2, SchemaUnfolds
<1> HIDE DEF S
<1>2. \A vs \in Seq(Json) : vs \in S
  BY <1>1, SamplesInduction
<1>3. QED
  BY <1>2 DEF S

LEMMA AssertionsIncluded ==
  ASSUME NEW vs, NEW us, SchemaAgrees(vs, us)
  PROVE  Assertions(InferSchema[vs]) \subseteq Assertions(InferSchema[us])
<1> SUFFICES ASSUME NEW a \in Assertions(InferSchema[vs])
             PROVE  a \in Assertions(InferSchema[us])
  OBVIOUS
<1>1. \A ws : \A x : x \in Assertions(InferSchema[ws]) <=>
        \E t \in InferSchema[ws] : x = [at |-> t.at, is |-> Asserted(t.is)]
  BY DEF Assertions, Asserted
<1>2. PICK t \in InferSchema[vs] : a = [at |-> t.at, is |-> Asserted(t.is)]
  BY <1>1
<1>3. PICK u \in InferSchema[us] : u.at = t.at /\ Agree(t.is, u.is)
  BY DEF SchemaAgrees
<1>4. Asserted(t.is) = Asserted(u.is)
  BY <1>3, AgreeingAssert
<1>5. QED
  BY <1>1, <1>2, <1>3, <1>4

LEMMA Swapped ==
  ASSUME NEW X, NEW vs \in Seq(X), NEW i \in DOMAIN vs, NEW j \in DOMAIN vs
  PROVE  /\ [vs EXCEPT ![i] = vs[j], ![j] = vs[i]] \in Seq(X)
         /\ Same(vs, [vs EXCEPT ![i] = vs[j], ![j] = vs[i]])
<1> DEFINE us == [vs EXCEPT ![i] = vs[j], ![j] = vs[i]]
           g == [n \in DOMAIN vs |-> IF n = i THEN j ELSE IF n = j THEN i ELSE n]
<1>1. us \in Seq(X) /\ DOMAIN us = DOMAIN vs
  OBVIOUS
<1>2. us[i] = vs[j] /\ us[j] = vs[i] /\ \A n \in DOMAIN vs : n # i /\ n # j => us[n] = vs[n]
  OBVIOUS
<1>3. g \in [DOMAIN vs -> DOMAIN vs] /\ \A n \in DOMAIN vs : g[g[n]] = n
  OBVIOUS
<1>4. \A n \in DOMAIN vs : vs[n] = us[g[n]]
  BY <1>2
<1> HIDE DEF us, g
<1>5. Renames(g, vs, us)
  BY <1>1, <1>3, <1>4 DEF Renames
<1>6. QED
  BY <1>1, <1>5 DEF Same, us

LEMMA OrderIsNotAsserted ==
  ASSUME samples \in Seq(Json)
  PROVE  OrderAssertsNothing
<1> SUFFICES ASSUME NEW i \in DOMAIN samples, NEW j \in DOMAIN samples
             PROVE  Assertions(schema) =
                      Assertions(InferSchema[[samples EXCEPT ![i] = samples[j], ![j] = samples[i]]])
  BY DEF OrderAssertsNothing
<1>1. PICK us : us = [samples EXCEPT ![i] = samples[j], ![j] = samples[i]]
  OBVIOUS
<1>2. us \in Seq(Json) /\ Same(samples, us)
  BY <1>1, Swapped
<1>3. Same(us, samples)
  BY <1>2, SameSymmetric
<1>4. SchemaAgrees(samples, us) /\ SchemaAgrees(us, samples)
  BY <1>2, <1>3, OrderIsIrrelevant
<1>5. Assertions(InferSchema[samples]) \subseteq Assertions(InferSchema[us])
  BY <1>4, AssertionsIncluded
<1>6. Assertions(InferSchema[us]) \subseteq Assertions(InferSchema[samples])
  BY <1>4, AssertionsIncluded
<1>7. QED
  BY <1>1, <1>5, <1>6 DEF schema

-----------------------------------------------------------------------------
(* What one more object does to a schema of objects.                       *)

LEMMA RootKeywords ==
  ASSUME NEW vs \in Seq(Json)
  PROVE  Root(InferSchema[vs]) = Keywords(vs)
<1> DEFINE root == CHOOSE t \in InferSchema[vs] : t.at = <<>>
<1>1. \E t \in InferSchema[vs] : t.at = <<>>
  <2>1. PICK t : t = [at |-> <<>>, is |-> Keywords(vs)]
    OBVIOUS
  <2>2. t \in InferSchema[vs] /\ t.at = <<>>
    BY <2>1, SchemaUnfolds
  <2>3. QED
    BY <2>2
<1>2. root \in InferSchema[vs] /\ root.at = <<>>
  BY <1>1
<1> HIDE DEF root
<1>3. root.is = Keywords(vs)
  <2>1. CASE root = [at |-> <<>>, is |-> Keywords(vs)]
    BY <2>1
  <2>2. ASSUME NEW step \in DOMAIN SubSamples(vs), NEW x \in InferSchema[SubSamples(vs)[step]],
               root = Behind(step, x)
        PROVE  FALSE
    <3>1. SubSamples(vs)[step] \in Seq(Json) /\ step \in Places
      BY Below
    <3>2. x.at \in Seq(Places)
      BY <3>1, SubschemaShape
    <3>3. <<step>> \o x.at # <<>>
      BY <3>1, <3>2, FrontStep
    <3>4. root.at = <<step>> \o x.at
      BY <2>2 DEF Behind
    <3>5. QED
      BY <1>2, <3>3, <3>4
  <2>3. QED
    BY <1>2, <2>1, <2>2, SchemaUnfolds
<1>4. QED
  BY <1>3 DEF Root, root

LEMMA RootOfObjects ==
  ASSUME NEW vs \in Seq(Json), vs # <<>>, AllOf(vs, "obj")
  PROVE  /\ Root(InferSchema[vs]).properties = KeysOf(vs)
         /\ Root(InferSchema[vs]).required = {key \in KeysOf(vs) : IsRequired(vs, key)}
<1>1. \A i \in DOMAIN vs : vs[i].k # "null"
  BY DEF AllOf
<1>2. NonNull(vs) = vs
  BY <1>1, NonNullFacts
<1>3. ~HasNull(vs)
  BY <1>1 DEF HasNull
<1>4. Keywords(vs) = NonNullKeywords(vs)
  BY <1>2, <1>3, KeywordsCases
<1>5. NonNullKeywords(vs) =
        [type |-> {"object"}, properties |-> KeysOf(vs),
         required |-> {key \in KeysOf(vs) : IsRequired(vs, key)}]
  BY <1>2, OneKind DEF NonNullKeywords
<1>6. QED
  BY <1>4, <1>5, RootKeywords

LEMMA OneMoreObject ==
  ASSUME NEW vs \in Seq(Json), NEW us \in Seq(Json), NEW v, us = Append(vs, v),
         Len(vs) >= 2, AllOf(us, "obj")
  PROVE  /\ Root(InferSchema[vs]).properties \subseteq Root(InferSchema[us]).properties
         /\ Root(InferSchema[us]).required \subseteq Root(InferSchema[vs]).required
<1>1. /\ Len(vs) \in Nat /\ DOMAIN vs = 1..Len(vs) /\ vs # <<>>
      /\ Len(us) = Len(vs) + 1 /\ DOMAIN us = 1..(Len(vs) + 1) /\ us # <<>>
      /\ \A i \in DOMAIN vs : us[i] = vs[i]
  OBVIOUS
<1>2. \A i \in DOMAIN vs : i \in DOMAIN us
  BY <1>1
<1>3. AllOf(vs, "obj")
  BY <1>1, <1>2 DEF AllOf
<1>4. KeysOf(vs) \subseteq KeysOf(us)
  BY <1>1, <1>2 DEF KeysOf
<1>5. ASSUME NEW key, IsRequired(us, key) PROVE key \in KeysOf(vs) /\ IsRequired(vs, key)
  <2>1. \A i \in DOMAIN vs : key \in DOMAIN vs[i].fields
    BY <1>1, <1>2, <1>5 DEF IsRequired
  <2>2. 1 \in DOMAIN vs
    BY <1>1
  <2>3. key \in KeysOf(vs)
    BY <2>1, <2>2 DEF KeysOf
  <2>4. QED
    BY <2>1, <2>3 DEF IsRequired, MIN_SAMPLES_FOR_REQUIRED
<1>6. /\ Root(InferSchema[vs]).properties = KeysOf(vs)
      /\ Root(InferSchema[vs]).required = {key \in KeysOf(vs) : IsRequired(vs, key)}
  BY <1>1, <1>3, RootOfObjects
<1>7. /\ Root(InferSchema[us]).properties = KeysOf(us)
      /\ Root(InferSchema[us]).required = {key \in KeysOf(us) : IsRequired(us, key)}
  BY <1>1, RootOfObjects
<1>8. QED
  BY <1>4, <1>5, <1>6, <1>7
===============================================================================
