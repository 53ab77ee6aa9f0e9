---------------------------- MODULE AssemblyProofs ----------------------------
(***************************************************************************)
(* Proofs about Assembly, for snapshots of any length over any operations, *)
(* statuses, bodies, types and schemes.                                    *)
(***************************************************************************)
EXTENDS Assembly, FiniteSetTheorems, SequenceTheorems, TLAPS

LEMMA InputType ==
  ASSUME NEW x \in Input
  PROVE  /\ x \in Exchanges
         /\ x.op \in Op /\ x.status \in Status \cup {None}
         /\ x.request \in Sample \cup {None} /\ x.response \in Sample \cup {None}
         /\ x.declared \in Type \cup {None} /\ x.security \in Scheme \cup {None}
<1>1. x \in Exchanges
  BY AssemblyAssumption
<1>2. QED
  BY <1>1 DEF Exchanges

-----------------------------------------------------------------------------
(* What appending one element does to a sequence's positions and counts.   *)

\* Positions of a longer sequence: the old ones unchanged, and the new one.
LEMMA AppendParts ==
  ASSUME NEW S, NEW s \in Seq(S), NEW x \in S
  PROVE  /\ Append(s, x) \in Seq(S)
         /\ Len(s) \in Nat /\ Len(Append(s, x)) = Len(s) + 1
         /\ DOMAIN s = 1..Len(s)
         /\ DOMAIN Append(s, x) = DOMAIN s \cup {Len(s) + 1}
         /\ Len(s) + 1 \notin DOMAIN s
         /\ \A i \in DOMAIN s : i \in Nat /\ i < Len(s) + 1
         /\ \A i \in DOMAIN s : Append(s, x)[i] = s[i]
         /\ Append(s, x)[Len(s) + 1] = x
         /\ IsFiniteSet(DOMAIN s)
<1>1. Append(s, x) \in Seq(S) /\ Len(Append(s, x)) = Len(s) + 1
  BY AppendProperties
<1>2. Len(s) \in Nat /\ DOMAIN s = 1..Len(s)
  BY LenProperties
<1>3. DOMAIN Append(s, x) = 1..(Len(s) + 1)
  BY <1>1, LenProperties
<1>4. DOMAIN Append(s, x) = DOMAIN s \cup {Len(s) + 1}
  BY <1>2, <1>3
<1>5. IsFiniteSet(DOMAIN s)
  BY <1>2, FS_Interval
<1>6. \A i \in DOMAIN s : Append(s, x)[i] = s[i]
  BY <1>2, AppendProperties
<1>7. Append(s, x)[Len(s) + 1] = x
  BY AppendProperties
<1>8. /\ Len(s) + 1 \notin DOMAIN s
      /\ \A i \in DOMAIN s : i \in Nat /\ i < Len(s) + 1
  BY <1>2
<1>9. QED
  BY <1>1, <1>2, <1>4, <1>5, <1>6, <1>7, <1>8

\* One more occurrence of the value appended, none of any other.
LEMMA CountAppend ==
  ASSUME NEW S, NEW s \in Seq(S), NEW x \in S, NEW v
  PROVE  /\ Count(s, v) \in Nat
         /\ Count(Append(s, x), v) = IF x = v THEN Count(s, v) + 1 ELSE Count(s, v)
<1> DEFINE old == {i \in DOMAIN s : s[i] = v}
           new == {i \in DOMAIN Append(s, x) : Append(s, x)[i] = v}
<1>1. IsFiniteSet(old)
  BY AppendParts, FS_Subset
<1>2. Len(s) + 1 \notin old
  BY AppendParts
<1>3. CASE x = v
  <2>1. new = old \cup {Len(s) + 1}
    BY <1>3, AppendParts
  <2>2. Cardinality(new) = Cardinality(old) + 1
    BY <1>1, <1>2, <2>1, FS_AddElement
  <2>3. QED
    BY <1>1, <1>3, <2>2, FS_CardinalityType DEF Count
<1>4. CASE x # v
  <2>1. new = old
    BY <1>4, AppendParts
  <2>2. QED
    BY <1>1, <1>4, <2>1, FS_CardinalityType DEF Count
<1>5. QED
  BY <1>3, <1>4

\* The same of a list to which an optional value is pushed.
LEMMA PushedParts ==
  ASSUME NEW s \in Seq(Sample), NEW x \in Sample \cup {None}
  PROVE  /\ Pushed(s, x) \in Seq(Sample)
         /\ Len(s) \in Nat
         /\ Len(Pushed(s, x)) = IF x = None THEN Len(s) ELSE Len(s) + 1
         /\ \A v \in Sample :
              /\ Count(s, v) \in Nat
              /\ Count(Pushed(s, x), v) = IF x = v THEN Count(s, v) + 1 ELSE Count(s, v)
<1>1. CASE x = None
  <2>1. Pushed(s, x) = s /\ Len(s) \in Nat
    BY <1>1, LenProperties DEF Pushed
  <2>2. \A v \in Sample : x # v
    BY <1>1, AssemblyAssumption
  <2>3. ASSUME NEW v \in Sample PROVE Count(s, v) \in Nat
    BY CountAppend
  <2>4. QED
    BY <1>1, <2>1, <2>2, <2>3
<1>2. CASE x # None
  <2>1. Pushed(s, x) = Append(s, x) /\ x \in Sample
    BY <1>2 DEF Pushed
  <2>2. Append(s, x) \in Seq(Sample) /\ Len(s) \in Nat /\ Len(Append(s, x)) = Len(s) + 1
    BY <2>1, AppendParts
  <2>3. ASSUME NEW v \in Sample
        PROVE  /\ Count(s, v) \in Nat
               /\ Count(Append(s, x), v) = IF x = v THEN Count(s, v) + 1 ELSE Count(s, v)
    BY <2>1, CountAppend
  <2>4. QED
    BY <1>2, <2>1, <2>2, <2>3
<1>3. QED
  BY <1>1, <1>2

-----------------------------------------------------------------------------
(* What one iteration does to the history and to the accumulators.         *)

\* The exchange folded is the last; the earlier ones stay where they are.
LEMMA SeenGrows ==
  ASSUME seen \in Seq(Exchanges), NEW x \in Exchanges, seen' = Append(seen, x)
  PROVE  /\ seen' \in Seq(Exchanges)
         /\ DOMAIN seen' = DOMAIN seen \cup {Len(seen) + 1}
         /\ Len(seen) + 1 \notin DOMAIN seen
         /\ \A i \in DOMAIN seen : i \in Nat /\ i < Len(seen) + 1 /\ seen'[i] = seen[i]
         /\ Len(seen) \in Nat
         /\ seen'[Len(seen) + 1] = x
         /\ IsFiniteSet(DOMAIN seen)
  BY AppendParts

\* A set of positions that grows by the last one exactly if that one qualifies.
LEMMA PositionsOf ==
  ASSUME seen \in Seq(Exchanges), NEW x \in Exchanges, seen' = Append(seen, x),
         NEW o \in Op
  PROVE  /\ Of(o)' = IF x.op = o /\ x.status # None THEN Of(o) \cup {Len(seen) + 1} ELSE Of(o)
         /\ Of(o) \subseteq DOMAIN seen /\ IsFiniteSet(Of(o))
<1>1. Of(o) \subseteq DOMAIN seen
  BY DEF Of
<1>2. IsFiniteSet(Of(o))
  BY <1>1, SeenGrows, FS_Subset
<1>3. Of(o)' = IF x.op = o /\ x.status # None THEN Of(o) \cup {Len(seen) + 1} ELSE Of(o)
  BY SeenGrows DEF Of
<1>4. QED
  BY <1>1, <1>2, <1>3

LEMMA PositionsAt ==
  ASSUME seen \in Seq(Exchanges), NEW x \in Exchanges, seen' = Append(seen, x),
         NEW o \in Op, NEW st \in Status
  PROVE  /\ At(o, st)' = IF x.op = o /\ x.status = st THEN At(o, st) \cup {Len(seen) + 1}
                         ELSE At(o, st)
         /\ At(o, st) \subseteq DOMAIN seen /\ IsFiniteSet(At(o, st))
<1>1. At(o, st) \subseteq DOMAIN seen
  BY DEF At
<1>2. IsFiniteSet(At(o, st))
  BY <1>1, SeenGrows, FS_Subset
<1>3. At(o, st)' = IF x.op = o /\ x.status = st THEN At(o, st) \cup {Len(seen) + 1}
                   ELSE At(o, st)
  BY SeenGrows DEF At
<1>4. QED
  BY <1>1, <1>2, <1>3

\* One more position counts for one more.
LEMMA OneMore ==
  ASSUME NEW D, IsFiniteSet(D), NEW P \in SUBSET D, NEW Q \in SUBSET P, NEW n, n \notin D
  PROVE  /\ Cardinality(P) \in Nat /\ Cardinality(P \cup {n}) = Cardinality(P) + 1
         /\ Cardinality(Q) \in Nat /\ Cardinality(Q \cup {n}) = Cardinality(Q) + 1
<1>1. IsFiniteSet(P) /\ n \notin P /\ n \notin Q
  BY FS_Subset
<1>2. IsFiniteSet(Q)
  BY <1>1, FS_Subset
<1>3. Cardinality(P) \in Nat /\ Cardinality(P \cup {n}) = Cardinality(P) + 1
  BY <1>1, FS_AddElement, FS_CardinalityType
<1>4. Cardinality(Q) \in Nat /\ Cardinality(Q \cup {n}) = Cardinality(Q) + 1
  BY <1>1, <1>2, FS_AddElement, FS_CardinalityType
<1>5. QED
  BY <1>3, <1>4

LEMMA AccTypes ==
  ASSUME TypeOK
  PROVE  /\ \A o \in Op :
              /\ operations[o].requests_observed \in Nat
              /\ operations[o].request_samples \in Seq(Sample)
              /\ operations[o].security_schemes \subseteq Scheme
         /\ \A r \in Op \X Status :
              /\ byStatus[r].sample_count \in Nat
              /\ byStatus[r].json_samples \in Seq(Sample)
              /\ byStatus[r].declared \in Type \cup {None}
<1>1. \A o \in Op : operations[o] \in OperationAcc
  BY DEF TypeOK
<1>2. \A r \in Op \X Status : byStatus[r] \in StatusAcc
  BY DEF TypeOK
<1>3. QED
  BY <1>1, <1>2 DEF OperationAcc, StatusAcc

\* The accumulators of the exchange's operation and status, and all the others.
LEMMA FoldParts ==
  ASSUME TypeOK, NEW x \in Input, Fold(x)
  PROVE  /\ x.op \in Op /\ x.status \in Status /\ <<x.op, x.status>> \in Op \X Status
         /\ \A o \in Op : operations'[o] = IF o = x.op THEN Observe(operations[o], x)
                                           ELSE operations[o]
         /\ \A o \in Op, st \in Status :
              byStatus'[<<o, st>>] = IF o = x.op /\ st = x.status
                                     THEN ObserveStatus(byStatus[<<o, st>>], x)
                                     ELSE byStatus[<<o, st>>]
<1>1. x.op \in Op /\ x.status \in Status /\ <<x.op, x.status>> \in Op \X Status
  BY InputType DEF Fold
<1>2. \A o \in Op : operations'[o] = IF o = x.op THEN Observe(operations[o], x)
                                     ELSE operations[o]
  BY <1>1 DEF Fold, TypeOK
<1>3. ASSUME NEW o \in Op, NEW st \in Status
      PROVE  byStatus'[<<o, st>>] = IF o = x.op /\ st = x.status
                                    THEN ObserveStatus(byStatus[<<o, st>>], x)
                                    ELSE byStatus[<<o, st>>]
  <2>1. <<o, st>> = <<x.op, x.status>> <=> o = x.op /\ st = x.status
    OBVIOUS
  <2>2. <<o, st>> \in Op \X Status
    OBVIOUS
  <2>3. byStatus' = [byStatus EXCEPT ![<<x.op, x.status>>] = ObserveStatus(@, x)]
    BY DEF Fold
  <2>4. QED
    BY <1>1, <2>1, <2>2, <2>3 DEF TypeOK
<1>4. QED
  BY <1>1, <1>2, <1>3

-----------------------------------------------------------------------------
(* AssemblyInv is inductive: one step per action, one lemma per conjunct.  *)

LEMMA InitInv == Init => AssemblyInv
<1> SUFFICES ASSUME Init PROVE AssemblyInv
  OBVIOUS
<1>1. seen = <<>> /\ DOMAIN seen = {} /\ seen \in Seq(Exchanges)
  BY DEF Init
<1>2. /\ \A o \in Op : operations[o] = [requests_observed |-> 0, request_samples |-> <<>>,
                                        security_schemes |-> {}]
      /\ \A r \in Op \X Status :
           byStatus[r] = [sample_count |-> 0, json_samples |-> <<>>, declared |-> None]
  BY DEF Init
<1>3. TypeOK
  <2>1. operations \in [Op -> OperationAcc] /\ byStatus \in [Op \X Status -> StatusAcc]
    BY DEF Init, OperationAcc, StatusAcc
  <2>2. QED
    BY <1>1, <1>2, <2>1 DEF Init, TypeOK
<1>4. /\ \A o \in Op : Of(o) = {}
      /\ \A o \in Op, st \in Status : At(o, st) = {}
  BY <1>1 DEF Of, At
<1>5. \A v : Count(<<>>, v) = 0
  <2>1. \A v : {i \in DOMAIN <<>> : <<>>[i] = v} = {}
    OBVIOUS
  <2>2. QED
    BY <2>1, FS_EmptySet DEF Count
<1>6. CountsAreEvidence
  <2>1. ASSUME NEW o \in Op
        PROVE  /\ operations[o].requests_observed = Cardinality(Of(o))
               /\ \A v \in Sample : Count(operations[o].request_samples, v)
                                      = Cardinality({i \in Of(o) : seen[i].request = v})
    <3>1. \A v : {i \in Of(o) : seen[i].request = v} = {}
      BY <1>4
    <3>2. operations[o].requests_observed = 0 /\ operations[o].request_samples = <<>>
      BY <1>2
    <3>3. Cardinality({}) = 0
      BY FS_EmptySet
    <3>4. QED
      BY <1>4, <1>5, <3>1, <3>2, <3>3
  <2>2. ASSUME NEW o \in Op, NEW st \in Status
        PROVE  /\ byStatus[<<o, st>>].sample_count = Cardinality(At(o, st))
               /\ \A v \in Sample : Count(byStatus[<<o, st>>].json_samples, v)
                                      = Cardinality({i \in At(o, st) : seen[i].response = v})
    <3>1. \A v : {i \in At(o, st) : seen[i].response = v} = {}
      BY <1>4
    <3>2. byStatus[<<o, st>>].sample_count = 0 /\ byStatus[<<o, st>>].json_samples = <<>>
      BY <1>2
    <3>3. Cardinality({}) = 0
      BY FS_EmptySet
    <3>4. QED
      BY <1>4, <1>5, <3>1, <3>2, <3>3
  <2>3. QED
    BY <2>1, <2>2 DEF CountsAreEvidence
<1>7. AllCarriedJson /\ FirstDeclared
  <2>1. AllCarriedJson
    BY <1>4 DEF AllCarriedJson
  <2>2. \A o \in Op, st \in Status : byStatus[<<o, st>>].declared = None
    BY <1>2
  <2>3. QED
    BY <1>4, <2>1, <2>2 DEF FirstDeclared
<1>8. AllDefined
  BY <1>2 DEF AllDefined, Init
<1>9. QED
  BY <1>3, <1>6, <1>7, <1>8 DEF AssemblyInv

LEMMA TypeStep ==
  ASSUME TypeOK, NEW x \in Input, Fold(x)
  PROVE  TypeOK'
<1>1. seen' \in Seq(Exchanges)
  BY InputType, SeenGrows DEF Fold, TypeOK
<1>2. /\ \A o \in Op : /\ operations'[o] \in OperationAcc
                       /\ Len(operations'[o].request_samples) <= operations'[o].requests_observed
  <2> SUFFICES ASSUME NEW o \in Op
               PROVE  /\ operations'[o] \in OperationAcc
                      /\ Len(operations'[o].request_samples) <= operations'[o].requests_observed
    OBVIOUS
  <2> DEFINE acc == operations[o]
  <2>1. acc \in OperationAcc /\ Len(acc.request_samples) <= acc.requests_observed
    BY DEF TypeOK
  <2>2. CASE o # x.op
    BY <2>1, <2>2, FoldParts
  <2>3. CASE o = x.op
    <3>1. operations'[o] = Observe(acc, x)
      BY <2>3, FoldParts
    <3>2. /\ Pushed(acc.request_samples, x.request) \in Seq(Sample)
          /\ Len(Pushed(acc.request_samples, x.request)) <= acc.requests_observed + 1
      <4>1. acc.request_samples \in Seq(Sample) /\ x.request \in Sample \cup {None}
        BY AccTypes, InputType
      <4>2. acc.requests_observed \in Nat
        BY AccTypes
      <4>3. /\ Pushed(acc.request_samples, x.request) \in Seq(Sample)
            /\ Len(acc.request_samples) \in Nat
            /\ Len(Pushed(acc.request_samples, x.request))
                 = IF x.request = None THEN Len(acc.request_samples) ELSE Len(acc.request_samples) + 1
        BY <4>1, PushedParts
      <4>4. Len(acc.request_samples) <= acc.requests_observed
        BY <2>1
      <4>5. QED
        BY <4>2, <4>3, <4>4
    <3>3. With(acc.security_schemes, x.security) \subseteq Scheme
      BY AccTypes, InputType DEF With
    <3>4. acc.requests_observed + 1 \in Nat
      BY AccTypes
    <3>5. QED
      BY <3>1, <3>2, <3>3, <3>4 DEF Observe, OperationAcc
  <2>4. QED
    BY <2>2, <2>3
<1>3. \A r \in Op \X Status : /\ byStatus'[r] \in StatusAcc
                              /\ Len(byStatus'[r].json_samples) <= byStatus'[r].sample_count
  <2> SUFFICES ASSUME NEW o \in Op, NEW st \in Status
               PROVE  /\ byStatus'[<<o, st>>] \in StatusAcc
                      /\ Len(byStatus'[<<o, st>>].json_samples)
                           <= byStatus'[<<o, st>>].sample_count
    OBVIOUS
  <2> DEFINE acc == byStatus[<<o, st>>]
  <2>1. acc \in StatusAcc /\ Len(acc.json_samples) <= acc.sample_count
    BY DEF TypeOK
  <2>2. CASE ~(o = x.op /\ st = x.status)
    BY <2>1, <2>2, FoldParts
  <2>3. CASE o = x.op /\ st = x.status
    <3>1. byStatus'[<<o, st>>] = ObserveStatus(acc, x)
      BY <2>3, FoldParts
    <3>2. /\ Pushed(acc.json_samples, x.response) \in Seq(Sample)
          /\ Len(Pushed(acc.json_samples, x.response)) <= acc.sample_count + 1
      <4>1. acc.json_samples \in Seq(Sample) /\ x.response \in Sample \cup {None}
        BY AccTypes, InputType
      <4>2. acc.sample_count \in Nat
        BY AccTypes
      <4>3. /\ Pushed(acc.json_samples, x.response) \in Seq(Sample)
            /\ Len(acc.json_samples) \in Nat
            /\ Len(Pushed(acc.json_samples, x.response))
                 = IF x.response = None THEN Len(acc.json_samples) ELSE Len(acc.json_samples) + 1
        BY <4>1, PushedParts
      <4>4. Len(acc.json_samples) <= acc.sample_count
        BY <2>1
      <4>5. QED
        BY <4>2, <4>3, <4>4
    <3>3. (IF acc.declared = None THEN x.declared ELSE acc.declared) \in Type \cup {None}
      BY AccTypes, InputType
    <3>4. acc.sample_count + 1 \in Nat
      BY AccTypes
    <3>5. QED
      BY <3>1, <3>2, <3>3, <3>4 DEF ObserveStatus, StatusAcc
  <2>4. QED
    BY <2>2, <2>3
<1>4. operations' \in [Op -> OperationAcc] /\ byStatus' \in [Op \X Status -> StatusAcc]
  <2>1. /\ operations' = [o \in Op |-> operations'[o]]
        /\ byStatus' = [r \in Op \X Status |-> byStatus'[r]]
    BY DEF Fold, TypeOK
  <2>2. QED
    BY <1>2, <1>3, <2>1
<1>5. schemeDefs' \subseteq Scheme
  BY InputType DEF TypeOK, Fold, DefineScheme, With
<1>6. components' \in [Name -> Def \cup {None}]
  <2>1. ASSUME NEW n \in NewNames(x)
        PROVE  (CHOOSE d \in Def : <<n, d>> \in DefsOf[x.declared]) \in Def
    BY <2>1 DEF NewNames
  <2>2. QED
    BY <2>1 DEF TypeOK, Fold, DefineNames
<1>7. QED
  BY <1>1, <1>2, <1>3, <1>4, <1>5, <1>6 DEF TypeOK

\* Every count goes up by one for the exchange's own operation and status.
LEMMA CountStep ==
  ASSUME TypeOK, CountsAreEvidence, NEW x \in Input, Fold(x)
  PROVE  CountsAreEvidence'
<1> DEFINE n == Len(seen) + 1
<1>1. /\ seen \in Seq(Exchanges) /\ x \in Exchanges /\ seen' = Append(seen, x)
      /\ x.status # None
  BY InputType DEF Fold, TypeOK
<1>2. /\ n \notin DOMAIN seen /\ IsFiniteSet(DOMAIN seen) /\ seen'[n] = x
      /\ \A i \in DOMAIN seen : seen'[i] = seen[i]
  BY <1>1, SeenGrows
<1>3. ASSUME NEW o \in Op
      PROVE  /\ operations'[o].requests_observed = Cardinality(Of(o)')
             /\ \A v \in Sample : Count(operations'[o].request_samples, v)
                                    = Cardinality({i \in Of(o)' : seen'[i].request = v})
  <2> DEFINE old(v) == {i \in Of(o) : seen[i].request = v}
             new(v) == {i \in Of(o)' : seen'[i].request = v}
  <2>1. /\ operations[o].requests_observed = Cardinality(Of(o))
        /\ \A v \in Sample : Count(operations[o].request_samples, v) = Cardinality(old(v))
    BY DEF CountsAreEvidence
  <2>2. Of(o) \in SUBSET DOMAIN seen /\ \A v : old(v) \in SUBSET Of(o)
    BY DEF Of
  <2>3. CASE o # x.op
    <3>1. Of(o)' = Of(o)
      BY <1>1, <2>3, PositionsOf
    <3>2. \A v : new(v) = old(v)
      BY <1>2, <2>2, <3>1
    <3>3. operations'[o] = operations[o]
      BY <2>3, FoldParts
    <3>4. QED
      BY <2>1, <3>1, <3>2, <3>3
  <2>4. CASE o = x.op
    <3>1. Of(o)' = Of(o) \cup {n}
      BY <1>1, <2>4, PositionsOf
    <3>2. \A v : new(v) = IF x.request = v THEN old(v) \cup {n} ELSE old(v)
      BY <1>2, <2>2, <3>1
    <3>3. \A v : /\ Cardinality(Of(o) \cup {n}) = Cardinality(Of(o)) + 1
                 /\ Cardinality(old(v) \cup {n}) = Cardinality(old(v)) + 1
      BY <1>2, <2>2, OneMore
    <3>4. /\ operations'[o].requests_observed = operations[o].requests_observed + 1
          /\ operations'[o].request_samples = Pushed(operations[o].request_samples, x.request)
      <4>1. operations'[o] = Observe(operations[o], x)
        BY <2>4, FoldParts
      <4>2. QED
        BY <4>1 DEF Observe
    <3>5. \A v \in Sample : Count(Pushed(operations[o].request_samples, x.request), v)
                              = IF x.request = v THEN Count(operations[o].request_samples, v) + 1
                                ELSE Count(operations[o].request_samples, v)
      BY AccTypes, InputType, PushedParts
    <3>6. ASSUME NEW v \in Sample
          PROVE  Cardinality(new(v)) = IF x.request = v THEN Cardinality(old(v)) + 1
                                       ELSE Cardinality(old(v))
      BY <3>2, <3>3
    <3>7. QED
      BY <2>1, <3>1, <3>3, <3>4, <3>5, <3>6
  <2>5. QED
    BY <2>3, <2>4
<1>4. ASSUME NEW o \in Op, NEW st \in Status
      PROVE  /\ byStatus'[<<o, st>>].sample_count = Cardinality(At(o, st)')
             /\ \A v \in Sample : Count(byStatus'[<<o, st>>].json_samples, v)
                                    = Cardinality({i \in At(o, st)' : seen'[i].response = v})
  <2> DEFINE acc == byStatus[<<o, st>>]
             old(v) == {i \in At(o, st) : seen[i].response = v}
             new(v) == {i \in At(o, st)' : seen'[i].response = v}
  <2>1. /\ acc.sample_count = Cardinality(At(o, st))
        /\ \A v \in Sample : Count(acc.json_samples, v) = Cardinality(old(v))
    BY DEF CountsAreEvidence
  <2>2. At(o, st) \in SUBSET DOMAIN seen /\ \A v : old(v) \in SUBSET At(o, st)
    BY DEF At
  <2>3. CASE ~(o = x.op /\ st = x.status)
    <3>1. At(o, st)' = At(o, st)
      BY <1>1, <2>3, PositionsAt
    <3>2. \A v : new(v) = old(v)
      BY <1>2, <2>2, <3>1
    <3>3. byStatus'[<<o, st>>] = acc
      BY <2>3, FoldParts
    <3>4. QED
      BY <2>1, <3>1, <3>2, <3>3
  <2>4. CASE o = x.op /\ st = x.status
    <3>1. At(o, st)' = At(o, st) \cup {n}
      BY <1>1, <2>4, PositionsAt
    <3>2. \A v : new(v) = IF x.response = v THEN old(v) \cup {n} ELSE old(v)
      BY <1>2, <2>2, <3>1
    <3>3. \A v : /\ Cardinality(At(o, st) \cup {n}) = Cardinality(At(o, st)) + 1
                 /\ Cardinality(old(v) \cup {n}) = Cardinality(old(v)) + 1
      BY <1>2, <2>2, OneMore
    <3>4. /\ byStatus'[<<o, st>>].sample_count = acc.sample_count + 1
          /\ byStatus'[<<o, st>>].json_samples = Pushed(acc.json_samples, x.response)
      <4>1. byStatus'[<<o, st>>] = ObserveStatus(acc, x)
        BY <2>4, FoldParts
      <4>2. QED
        BY <4>1 DEF ObserveStatus
    <3>5. \A v \in Sample : Count(Pushed(acc.json_samples, x.response), v)
                              = IF x.response = v THEN Count(acc.json_samples, v) + 1
                                ELSE Count(acc.json_samples, v)
      BY AccTypes, InputType, PushedParts
    <3>6. ASSUME NEW v \in Sample
          PROVE  Cardinality(new(v)) = IF x.response = v THEN Cardinality(old(v)) + 1
                                       ELSE Cardinality(old(v))
      BY <3>2, <3>3
    <3>7. QED
      BY <2>1, <3>1, <3>3, <3>4, <3>5, <3>6
  <2>5. QED
    BY <2>3, <2>4
<1>5. QED
  BY <1>3, <1>4 DEF CountsAreEvidence

\* A list as long as its count stays so only if the exchange carries JSON too.
LEMMA CarriedStep ==
  ASSUME TypeOK, AllCarriedJson, NEW x \in Input, Fold(x)
  PROVE  AllCarriedJson'
<1> DEFINE n == Len(seen) + 1
<1>1. /\ seen \in Seq(Exchanges) /\ x \in Exchanges /\ seen' = Append(seen, x)
      /\ x.status # None
  BY InputType DEF Fold, TypeOK
<1>2. seen'[n] = x /\ \A i \in DOMAIN seen : seen'[i] = seen[i]
  BY <1>1, SeenGrows
<1> SUFFICES ASSUME NEW o \in Op,
                    Len(operations'[o].request_samples) = operations'[o].requests_observed,
                    NEW i \in Of(o)'
             PROVE  seen'[i].request # None
  BY DEF AllCarriedJson
<1> DEFINE acc == operations[o]
<1>3. CASE o # x.op
  <2>1. operations'[o] = acc
    BY <1>3, FoldParts
  <2>2. i \in Of(o) /\ i \in DOMAIN seen
    BY <1>1, <1>3, PositionsOf
  <2>3. seen[i].request # None
    BY <2>1, <2>2 DEF AllCarriedJson
  <2>4. QED
    BY <1>2, <2>2, <2>3
<1>4. CASE o = x.op
  <2>1. /\ acc.request_samples \in Seq(Sample) /\ acc.requests_observed \in Nat
        /\ x.request \in Sample \cup {None}
    BY AccTypes, InputType
  <2>2. Len(acc.request_samples) <= acc.requests_observed
    BY DEF TypeOK
  <2>3. operations'[o] = Observe(acc, x)
    BY <1>4, FoldParts
  <2>4. Len(Pushed(acc.request_samples, x.request)) = acc.requests_observed + 1
    BY <2>3 DEF Observe
  <2>5. x.request # None /\ Len(acc.request_samples) = acc.requests_observed
    <3>1. /\ Len(acc.request_samples) \in Nat
          /\ Len(Pushed(acc.request_samples, x.request))
               = IF x.request = None THEN Len(acc.request_samples)
                 ELSE Len(acc.request_samples) + 1
      BY <2>1, PushedParts
    <3> HIDE DEF acc
    <3>2. QED
      BY <2>1, <2>2, <2>4, <3>1
  <2>6. Of(o)' = Of(o) \cup {n} /\ Of(o) \subseteq DOMAIN seen
    BY <1>1, <1>4, PositionsOf
  <2>7. \A j \in Of(o) : seen[j].request # None
    BY <2>5 DEF AllCarriedJson
  <2>8. QED
    BY <1>2, <2>5, <2>6, <2>7
<1>5. QED
  BY <1>3, <1>4

\* The first declaration stays; without one, the exchange's own is the first.
LEMMA DeclaredStep ==
  ASSUME TypeOK, FirstDeclared, NEW x \in Input, Fold(x)
  PROVE  FirstDeclared'
<1> DEFINE n == Len(seen) + 1
<1>1. seen \in Seq(Exchanges) /\ x \in Exchanges /\ seen' = Append(seen, x)
  BY InputType DEF Fold, TypeOK
<1>2. /\ seen'[n] = x /\ n \in Nat
      /\ \A i \in DOMAIN seen : i \in Nat /\ i < n /\ seen'[i] = seen[i]
  BY <1>1, SeenGrows
<1> SUFFICES ASSUME NEW o \in Op, NEW st \in Status
             PROVE  IF byStatus'[<<o, st>>].declared = None
                    THEN \A i \in At(o, st)' : seen'[i].declared = None
                    ELSE \E i \in At(o, st)' :
                           /\ seen'[i].declared = byStatus'[<<o, st>>].declared
                           /\ \A j \in At(o, st)' : seen'[j].declared # None => i <= j
  BY DEF FirstDeclared
<1> DEFINE acc == byStatus[<<o, st>>]
<1>3. IF acc.declared = None THEN \A i \in At(o, st) : seen[i].declared = None
      ELSE \E i \in At(o, st) :
             /\ seen[i].declared = acc.declared
             /\ \A j \in At(o, st) : seen[j].declared # None => i <= j
  BY DEF FirstDeclared
<1>4. At(o, st) \subseteq DOMAIN seen
  BY DEF At
<1>5. CASE ~(o = x.op /\ st = x.status)
  <2>1. byStatus'[<<o, st>>] = acc
    BY <1>5, FoldParts
  <2>2. At(o, st)' = At(o, st)
    BY <1>1, <1>5, PositionsAt
  <2>3. QED
    BY <1>2, <1>3, <1>4, <2>1, <2>2
<1>6. CASE o = x.op /\ st = x.status
  <2>1. byStatus'[<<o, st>>].declared = IF acc.declared = None THEN x.declared ELSE acc.declared
    <3>1. byStatus'[<<o, st>>] = ObserveStatus(acc, x)
      BY <1>6, FoldParts
    <3>2. QED
      BY <3>1 DEF ObserveStatus
  <2>2. At(o, st)' = At(o, st) \cup {n}
    BY <1>1, <1>6, PositionsAt
  <2>3. CASE acc.declared = None
    <3>1. \A j \in At(o, st) : seen'[j].declared = None
      BY <1>2, <1>3, <1>4, <2>3
    <3>2. CASE x.declared = None
      BY <1>2, <2>1, <2>2, <2>3, <3>1, <3>2
    <3>3. CASE x.declared # None
      <4>1. n \in At(o, st)' /\ seen'[n].declared = byStatus'[<<o, st>>].declared
        BY <1>2, <2>1, <2>2, <2>3
      <4>2. \A j \in At(o, st)' : seen'[j].declared # None => n <= j
        BY <1>2, <2>2, <3>1
      <4>3. QED
        BY <2>1, <2>3, <3>3, <4>1, <4>2
    <3>4. QED
      BY <3>2, <3>3
  <2>4. CASE acc.declared # None
    <3>1. PICK i \in At(o, st) :
            /\ seen[i].declared = acc.declared
            /\ \A j \in At(o, st) : seen[j].declared # None => i <= j
      BY <1>3, <2>4
    <3>2. i \in At(o, st)' /\ seen'[i].declared = byStatus'[<<o, st>>].declared
      BY <1>2, <1>4, <2>1, <2>2, <2>4, <3>1
    <3>3. \A j \in At(o, st)' : seen'[j].declared # None => i <= j
      BY <1>2, <1>4, <2>2, <3>1
    <3>4. QED
      BY <2>1, <2>4, <3>2, <3>3
  <2>5. QED
    BY <2>3, <2>4
<1>7. QED
  BY <1>5, <1>6

\* What was defined stays so, and what the exchange's declaration needs is added.
LEMMA DefinedStep ==
  ASSUME TypeOK, AllDefined, NEW x \in Input, Fold(x)
  PROVE  AllDefined'
<1>1. schemeDefs' = UNION {operations'[o].security_schemes : o \in Op}
  <2>1. \A o \in Op : operations'[o].security_schemes
                        = IF o = x.op THEN With(operations[o].security_schemes, x.security)
                          ELSE operations[o].security_schemes
    <3>1. \A acc : Observe(acc, x).security_schemes = With(acc.security_schemes, x.security)
      BY DEF Observe
    <3>2. QED
      BY <3>1, FoldParts
  <2>2. schemeDefs = UNION {operations[o].security_schemes : o \in Op}
    BY DEF AllDefined
  <2>3. schemeDefs' = With(schemeDefs, x.security) /\ x.op \in Op
    BY FoldParts DEF Fold, DefineScheme
  <2>4. CASE x.security = None
    BY <2>1, <2>2, <2>3, <2>4 DEF With
  <2>5. CASE x.security # None
    <3>1. schemeDefs' = schemeDefs \cup {x.security}
      BY <2>3, <2>5 DEF With
    <3>2. \A o \in Op : operations'[o].security_schemes
                          = IF o = x.op THEN operations[o].security_schemes \cup {x.security}
                            ELSE operations[o].security_schemes
      BY <2>1, <2>5 DEF With
    <3>3. ASSUME NEW c
          PROVE  c \in schemeDefs' <=> \E o \in Op : c \in operations'[o].security_schemes
      <4>1. c \in schemeDefs <=> \E o \in Op : c \in operations[o].security_schemes
        BY <2>2
      <4>2. \A o \in Op : c \in operations'[o].security_schemes
                          <=> \/ c \in operations[o].security_schemes
                              \/ o = x.op /\ c = x.security
        BY <3>2
      <4>3. QED
        BY <2>3, <3>1, <4>1, <4>2
    <3>4. QED
      BY <3>3
  <2>6. QED
    BY <2>4, <2>5
<1>2. \A n \in Name : components[n] # None => components'[n] # None
  BY DEF Fold, DefineNames, NewNames
<1>3. x.declared # None => \A q \in DefsOf[x.declared] : components'[q[1]] # None
  <2> SUFFICES ASSUME x.declared # None, NEW q \in DefsOf[x.declared]
               PROVE  components'[q[1]] # None
    OBVIOUS
  <2>1. q \in Name \X Def
    BY InputType, AssemblyAssumption
  <2>2. q[1] \in Name /\ q[2] \in Def /\ <<q[1], q[2]>> \in DefsOf[x.declared]
    BY <2>1
  <2>3. CASE components[q[1]] # None
    BY <1>2, <2>2, <2>3
  <2>4. CASE components[q[1]] = None
    <3>1. q[1] \in NewNames(x)
      BY <2>2, <2>4 DEF NewNames
    <3>2. components'[q[1]] = CHOOSE d \in Def : <<q[1], d>> \in DefsOf[x.declared]
      BY <2>2, <3>1 DEF Fold, DefineNames
    <3>3. components'[q[1]] \in Def
      BY <2>2, <3>2
    <3>4. QED
      BY <3>3, AssemblyAssumption
  <2>5. QED
    BY <2>3, <2>4
<1>4. ASSUME NEW o \in Op, NEW st \in Status, byStatus'[<<o, st>>].declared # None,
             NEW q \in DefsOf[byStatus'[<<o, st>>].declared]
      PROVE  components'[q[1]] # None
  <2> DEFINE acc == byStatus[<<o, st>>]
  <2>1. CASE byStatus'[<<o, st>>].declared = acc.declared
    <3>1. acc.declared \in Type
      BY <1>4, <2>1, AccTypes
    <3>2. q[1] \in Name
      BY <2>1, <3>1, AssemblyAssumption
    <3>3. components[q[1]] # None
      BY <1>4, <2>1 DEF AllDefined
    <3>4. QED
      BY <1>2, <3>2, <3>3
  <2>2. CASE byStatus'[<<o, st>>].declared = x.declared
    BY <1>3, <1>4, <2>2
  <2>3. \/ byStatus'[<<o, st>>].declared = acc.declared
        \/ byStatus'[<<o, st>>].declared = x.declared
    <3>1. byStatus'[<<o, st>>] = acc \/ byStatus'[<<o, st>>] = ObserveStatus(acc, x)
      BY FoldParts
    <3>2. ObserveStatus(acc, x).declared \in {acc.declared, x.declared}
      BY DEF ObserveStatus
    <3>3. QED
      BY <3>1, <3>2
  <2>4. QED
    BY <2>1, <2>2, <2>3
<1>5. QED
  <2>1. \A r \in Op \X Status : byStatus'[r].declared # None =>
          \A q \in DefsOf[byStatus'[r].declared] : components'[q[1]] # None
    BY <1>4
  <2>2. QED
    BY <1>1, <2>1 DEF AllDefined

\* Nothing changes for the accumulators if no position is gained or lost.
LEMMA SamePositions ==
  ASSUME AssemblyInv, seen' \in Seq(Exchanges),
         \A i \in DOMAIN seen : seen'[i] = seen[i],
         \A o \in Op : Of(o)' = Of(o),
         \A o \in Op, st \in Status : At(o, st)' = At(o, st),
         UNCHANGED <<operations, byStatus, schemeDefs, components>>
  PROVE  AssemblyInv'
<1>1. UNCHANGED <<operations, byStatus, schemeDefs, components>>
  OBVIOUS
<1>2. seen' \in Seq(Exchanges) /\ \A i \in DOMAIN seen : seen'[i] = seen[i]
  OBVIOUS
<1>3. ASSUME NEW o \in Op PROVE Of(o)' = Of(o) /\ Of(o) \subseteq DOMAIN seen
  BY DEF Of
<1>4. ASSUME NEW o \in Op, NEW st \in Status
      PROVE  At(o, st)' = At(o, st) /\ At(o, st) \subseteq DOMAIN seen
  BY DEF At
<1>5. TypeOK'
  BY <1>1, <1>2 DEF AssemblyInv, TypeOK
<1>6. CountsAreEvidence'
  <2>1. \A o \in Op, v \in Sample :
          {i \in Of(o)' : seen'[i].request = v} = {i \in Of(o) : seen[i].request = v}
    BY <1>2, <1>3
  <2>2. \A o \in Op, st \in Status, v \in Sample :
          {i \in At(o, st)' : seen'[i].response = v} = {i \in At(o, st) : seen[i].response = v}
    BY <1>2, <1>4
  <2>3. CountsAreEvidence
    BY DEF AssemblyInv
  <2>4. ASSUME NEW o \in Op
        PROVE  /\ operations'[o].requests_observed = Cardinality(Of(o)')
               /\ \A v \in Sample : Count(operations'[o].request_samples, v)
                                      = Cardinality({i \in Of(o)' : seen'[i].request = v})
    BY <1>1, <1>3, <2>1, <2>3 DEF CountsAreEvidence
  <2>5. ASSUME NEW o \in Op, NEW st \in Status
        PROVE  /\ byStatus'[<<o, st>>].sample_count = Cardinality(At(o, st)')
               /\ \A v \in Sample : Count(byStatus'[<<o, st>>].json_samples, v)
                                      = Cardinality({i \in At(o, st)' : seen'[i].response = v})
    <3>1. /\ byStatus[<<o, st>>].sample_count = Cardinality(At(o, st))
          /\ \A v \in Sample : Count(byStatus[<<o, st>>].json_samples, v)
                                = Cardinality({i \in At(o, st) : seen[i].response = v})
      BY <2>3 DEF CountsAreEvidence
    <3>2. byStatus' = byStatus /\ At(o, st)' = At(o, st)
      BY <1>1, <1>4
    <3>3. QED
      BY <2>2, <3>1, <3>2
  <2>6. QED
    BY <2>4, <2>5 DEF CountsAreEvidence
<1>7. AllCarriedJson'
  BY <1>1, <1>2, <1>3 DEF AssemblyInv, AllCarriedJson
<1>8. FirstDeclared'
  <2>1. ASSUME NEW o \in Op, NEW st \in Status
        PROVE  IF byStatus'[<<o, st>>].declared = None
               THEN \A i \in At(o, st)' : seen'[i].declared = None
               ELSE \E i \in At(o, st)' :
                      /\ seen'[i].declared = byStatus'[<<o, st>>].declared
                      /\ \A j \in At(o, st)' : seen'[j].declared # None => i <= j
    <3>1. At(o, st)' = At(o, st) /\ \A i \in At(o, st) : seen'[i] = seen[i]
      BY <1>2, <1>4
    <3>2. IF byStatus[<<o, st>>].declared = None
          THEN \A i \in At(o, st) : seen[i].declared = None
          ELSE \E i \in At(o, st) :
                 /\ seen[i].declared = byStatus[<<o, st>>].declared
                 /\ \A j \in At(o, st) : seen[j].declared # None => i <= j
      BY DEF AssemblyInv, FirstDeclared
    <3>3. byStatus' = byStatus
      BY <1>1
    <3>4. QED
      BY <3>1, <3>2, <3>3
  <2>2. QED
    BY <2>1 DEF FirstDeclared
<1>9. AllDefined'
  BY <1>1 DEF AssemblyInv, AllDefined
<1>10. QED
  BY <1>5, <1>6, <1>7, <1>8, <1>9 DEF AssemblyInv

\* An exchange without a status is at no position anything is said about.
LEMMA SkipStep ==
  ASSUME AssemblyInv, NEW x \in Input, Skip(x)
  PROVE  AssemblyInv'
<1>1. /\ seen \in Seq(Exchanges) /\ x \in Exchanges /\ seen' = Append(seen, x)
      /\ x.status = None
      /\ UNCHANGED <<operations, byStatus, schemeDefs, components>>
  BY InputType DEF Skip, AssemblyInv, TypeOK
<1>2. seen' \in Seq(Exchanges) /\ \A i \in DOMAIN seen : seen'[i] = seen[i]
  BY <1>1, SeenGrows
<1>3. \A o \in Op : Of(o)' = Of(o)
  BY <1>1, PositionsOf
<1>4. ASSUME NEW o \in Op, NEW st \in Status PROVE At(o, st)' = At(o, st)
  <2>1. x.status # st
    BY <1>1, AssemblyAssumption
  <2>2. QED
    BY <1>1, <2>1, PositionsAt
<1>5. QED
  BY <1>1, <1>2, <1>3, <1>4, SamePositions

-----------------------------------------------------------------------------
LEMMA StepInv == AssemblyInv /\ [Next]_vars => AssemblyInv'
<1> SUFFICES ASSUME AssemblyInv, [Next]_vars PROVE AssemblyInv'
  OBVIOUS
<1>1. ASSUME NEW x \in Input, Skip(x) PROVE AssemblyInv'
  BY <1>1, SkipStep
<1>2. ASSUME NEW x \in Input, Fold(x) PROVE AssemblyInv'
  BY <1>2, TypeStep, CountStep, CarriedStep, DeclaredStep, DefinedStep DEF AssemblyInv
<1>3. CASE UNCHANGED vars
  <2>1. /\ seen' \in Seq(Exchanges) /\ \A i \in DOMAIN seen : seen'[i] = seen[i]
        /\ UNCHANGED <<operations, byStatus, schemeDefs, components>>
    BY <1>3 DEF vars, AssemblyInv, TypeOK
  <2>2. \A o \in Op : Of(o)' = Of(o)
    BY <1>3 DEF vars, Of
  <2>3. \A o \in Op, st \in Status : At(o, st)' = At(o, st)
    BY <1>3 DEF vars, At
  <2>4. QED
    BY <2>1, <2>2, <2>3, SamePositions
<1>4. QED
  BY <1>1, <1>2, <1>3 DEF Next

(***************************************************************************)
(* The loop of build_document (src/openapi.rs) keeps its accumulators in   *)
(* agreement with the exchanges folded, for every snapshot.                *)
(***************************************************************************)
THEOREM AssemblyHolds == Spec => []AssemblyInv
  BY InitInv, StepInv, PTL DEF Spec

(***************************************************************************)
(* The accumulators of build_document are always well typed, and no list   *)
(* of samples outgrows the count it is compared with.                      *)
(***************************************************************************)
THEOREM AssemblyTypes == Spec => []TypeOK
<1>1. AssemblyInv => TypeOK
  BY DEF AssemblyInv
<1>2. QED
  BY <1>1, AssemblyHolds, PTL

(***************************************************************************)
(* Every sample count of the document is the number of exchanges behind    *)
(* it, and every JSON body a sample exactly once (src/openapi.rs).         *)
(***************************************************************************)
THEOREM CountsCorrect == Spec => []CountsAreEvidence
<1>1. AssemblyInv => CountsAreEvidence
  BY DEF AssemblyInv
<1>2. QED
  BY <1>1, AssemblyHolds, PTL

(***************************************************************************)
(* A required request body rests on two or more requests that all carried  *)
(* JSON, however long the snapshot (operation_object of src/openapi.rs).   *)
(***************************************************************************)
THEOREM RequiredWarranted == Spec => []RequiredIsWarranted
<1>1. AssemblyInv => RequiredIsWarranted
  <2> SUFFICES ASSUME AssemblyInv, NEW o \in Op, RequestRequired(o)
               PROVE  Cardinality(Of(o)) >= 2 /\ \A i \in Of(o) : seen[i].request # None
    BY DEF RequiredIsWarranted
  <2>1. /\ operations[o].requests_observed >= 2
        /\ Len(operations[o].request_samples) = operations[o].requests_observed
    BY DEF RequestRequired, MIN_SAMPLES_FOR_REQUIRED
  <2>2. operations[o].requests_observed = Cardinality(Of(o))
    BY DEF AssemblyInv, CountsAreEvidence
  <2>3. \A i \in Of(o) : seen[i].request # None
    BY <2>1 DEF AssemblyInv, AllCarriedJson
  <2>4. QED
    BY <2>1, <2>2, <2>3
<1>2. QED
  BY <1>1, AssemblyHolds, PTL

(***************************************************************************)
(* The notice names exactly the documented responses that rest on a single *)
(* exchange (below_threshold_notice of src/openapi.rs).                    *)
(***************************************************************************)
THEOREM NoticeCorrect == Spec => []NoticeIsExact
<1>1. AssemblyInv => NoticeIsExact
  <2> SUFFICES ASSUME AssemblyInv, NEW o \in Op, NEW st \in Status
               PROVE  <<o, st>> \in Notice <=> Cardinality(At(o, st)) = 1
    BY DEF NoticeIsExact
  <2>1. byStatus[<<o, st>>].sample_count = Cardinality(At(o, st))
    BY DEF AssemblyInv, CountsAreEvidence
  <2>2. <<o, st>> \in Notice <=> byStatus[<<o, st>>].sample_count \in 1..1
    BY DEF Notice, MIN_SAMPLES_FOR_REQUIRED
  <2>3. QED
    BY <2>1, <2>2
<1>2. QED
  BY <1>1, AssemblyHolds, PTL

(***************************************************************************)
(* A declaration beats inference, and of several the first in store order  *)
(* is documented (ObserveStatus and ResponseSchema, src/openapi.rs).       *)
(***************************************************************************)
THEOREM DeclarationPrecedes == Spec => []DeclarationWins
<1>1. AssemblyInv => DeclarationWins
  <2> SUFFICES ASSUME AssemblyInv, NEW o \in Op, NEW st \in Status,
                      NEW k \in At(o, st), seen[k].declared # None
               PROVE  \E i \in {j \in At(o, st) : seen[j].declared # None} :
                        /\ \A j \in {h \in At(o, st) : seen[h].declared # None} : i <= j
                        /\ ResponseSchema(o, st) = Declared(seen[i].declared)
    BY DEF DeclarationWins
  <2>1. /\ byStatus[<<o, st>>].declared # None
        /\ \E i \in At(o, st) :
              /\ seen[i].declared = byStatus[<<o, st>>].declared
              /\ \A j \in At(o, st) : seen[j].declared # None => i <= j
    BY DEF AssemblyInv, FirstDeclared
  <2>2. ResponseSchema(o, st) = Declared(byStatus[<<o, st>>].declared)
    BY <2>1 DEF ResponseSchema
  <2>3. QED
    BY <2>1, <2>2
<1>2. QED
  BY <1>1, AssemblyHolds, PTL

(***************************************************************************)
(* No document refers to a security scheme or a component that it does not *)
(* define (build_document of src/openapi.rs).                              *)
(***************************************************************************)
THEOREM NothingDangles == Spec => []ReferencesResolve
<1>1. AssemblyInv => ReferencesResolve
  <2> SUFFICES ASSUME AssemblyInv, NEW o \in Op, NEW st \in Status,
                      ResponseSchema(o, st).source = "declared"
               PROVE  \A q \in DefsOf[ResponseSchema(o, st).type] : components[q[1]] # None
    BY DEF ReferencesResolve, AssemblyInv, AllDefined
  <2>1. /\ byStatus[<<o, st>>].declared # None
        /\ ResponseSchema(o, st).type = byStatus[<<o, st>>].declared
    BY DEF ResponseSchema, Declared, Inferred, NoSchema
  <2>2. QED
    BY <2>1 DEF AssemblyInv, AllDefined
<1>2. QED
  BY <1>1, AssemblyHolds, PTL
=============================================================================
