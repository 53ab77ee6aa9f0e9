---------------------------- MODULE EmissionProofs ----------------------------
(***************************************************************************)
(* Proofs about Emission, for any requests, routes, headers and arguments, *)
(* any number of emissions to one path, and documents of any length.       *)
(***************************************************************************)
EXTENDS Emission, AssemblyProofs, WellFoundedInduction

\* A non-empty set of positions has a last one.
LEMMA LastPosition ==
  ASSUME NEW n \in Nat, NEW S \in SUBSET (1..n), S # {}
  PROVE  \E i \in S : \A j \in S : j <= i
<1> DEFINE T == {k \in Nat : n - k \in S}
<1>1. T \subseteq Nat /\ T # {}
  <2>1. PICK i \in S : TRUE
    OBVIOUS
  <2>2. n - i \in Nat /\ n - (n - i) = i
    BY <2>1
  <2>3. n - i \in T
    BY <2>1, <2>2
  <2>4. QED
    BY <2>3
<1>2. IsWellFoundedOn(OpToRel(<,Nat), Nat)
  BY NatLessThanWellFounded
<1> HIDE DEF T
<1>3. PICK k \in T : \A m \in T : ~(<<m, k>> \in OpToRel(<,Nat))
  BY <1>1, <1>2, WFMin
<1>4. \A m \in T : ~(m < k)
  BY <1>1, <1>3 DEF OpToRel
<1>5. n - k \in S
  BY DEF T
<1>6. ASSUME NEW j \in S PROVE j <= n - k
  <2>1. n - j \in Nat /\ n - (n - j) = j /\ k \in Nat
    BY <1>1
  <2>2. n - j \in T
    BY <2>1 DEF T
  <2>3. ~(n - j < k)
    BY <1>4, <2>2
  <2>4. QED
    BY <2>1, <2>3
<1>7. QED
  BY <1>5, <1>6

-----------------------------------------------------------------------------
(* The file.                                                               *)

LEMMA FileBase == FileInit => FileInv
<1> SUFFICES ASSUME FileInit PROVE FileInv
  OBVIOUS
<1>1. FileTypeOK
  <2>1. file \in Seq(Writer \cup {Other})
    BY FileAssumption DEF FileInit
  <2>2. QED
    BY <2>1 DEF FileInit, FileTypeOK
<1>2. QED
  BY <1>1 DEF FileInit, FileInv

LEMMA BeginStep ==
  ASSUME FileInv, NEW w \in Writer, NEW n \in Nat, Begin(w, n)
  PROVE  FileInv'
<1>1. /\ emit' \in [Writer -> {"idle", "opening", "writing", "ok", "failed"}]
      /\ length' \in [Writer -> Nat]
      /\ offset[w] = 0
      /\ emit' = [emit EXCEPT ![w] = "opening"] /\ emit'[w] = "opening"
      /\ length' = [length EXCEPT ![w] = n] /\ length'[w] = n
  BY DEF FileInv, FileTypeOK, Begin
<1>2. \A v \in Writer : v # w => emit'[v] = emit[v] /\ length'[v] = length[v]
  BY <1>1
<1>3. FileTypeOK'
  BY <1>1, <1>2 DEF FileInv, FileTypeOK, Begin
<1>4. ASSUME NEW v \in Writer
      PROVE  /\ emit'[v] = "idle" => length'[v] = 0
             /\ emit'[v] \in {"idle", "opening"} => offset'[v] = 0 /\ ~alone'[v]
             /\ emit'[v] = "ok" => offset'[v] = length'[v]
             /\ emit'[v] \in {"writing", "ok"} /\ alone'[v] => file' = [i \in 1..offset'[v] |-> v]
  <2>1. file' = file /\ offset' = offset /\ alone' = alone /\ emit[w] = "idle"
    BY DEF Begin
  <2>2. QED
    BY <1>1, <1>2, <2>1 DEF FileInv
<1>5. QED
  BY <1>3, <1>4 DEF FileInv

LEMMA OpenStep ==
  ASSUME FileInv, NEW w \in Writer, Open(w)
  PROVE  FileInv'
<1>1. /\ emit' \in [Writer -> {"idle", "opening", "writing", "ok", "failed"}]
      /\ emit'[w] = "writing" /\ \A v \in Writer : v # w => emit'[v] = emit[v]
      /\ alone' \in [Writer -> BOOLEAN] /\ \A v \in Writer : alone'[v] <=> v = w
      /\ file' = <<>> /\ length' = length /\ offset' = offset /\ offset[w] = 0
  BY DEF FileInv, FileTypeOK, Open, Emptied
<1>2. FileTypeOK'
  BY <1>1 DEF FileInv, FileTypeOK
<1>3. file' = [i \in 1..offset'[w] |-> w]
  BY <1>1
<1>4. ASSUME NEW v \in Writer
      PROVE  /\ emit'[v] = "idle" => length'[v] = 0
             /\ emit'[v] \in {"idle", "opening"} => offset'[v] = 0 /\ ~alone'[v]
             /\ emit'[v] = "ok" => offset'[v] = length'[v]
             /\ emit'[v] \in {"writing", "ok"} /\ alone'[v] => file' = [i \in 1..offset'[v] |-> v]
  BY <1>1, <1>3 DEF FileInv
<1>5. QED
  BY <1>2, <1>4 DEF FileInv

\* Writing at the end of one's own pieces adds pieces of one's own.
LEMMA WriteStep ==
  ASSUME FileInv, NEW w \in Writer, Write(w)
  PROVE  FileInv'
<1>1. PICK n \in 1..(length[w] - offset[w]) :
        file' = Overlaid(w, n) /\ offset' = [offset EXCEPT ![w] = @ + n]
  BY DEF Write
<1>2. /\ file \in Seq(Writer \cup {Other}) /\ offset \in [Writer -> Nat]
      /\ length \in [Writer -> Nat] /\ emit[w] = "writing"
      /\ emit' = emit /\ length' = length
      /\ alone' = [v \in Writer |-> alone[v] /\ v = w]
  BY DEF FileInv, FileTypeOK, Write
<1>3. /\ n \in Nat /\ offset[w] + n \in Nat /\ offset[w] + n <= length[w]
      /\ Len(file) \in Nat
  BY <1>1, <1>2, LenProperties
<1>4. /\ offset' \in [Writer -> Nat] /\ offset'[w] = offset[w] + n
      /\ \A v \in Writer : v # w => offset'[v] = offset[v]
  BY <1>1, <1>2, <1>3
<1>5. file' \in Seq(Writer \cup {Other})
  <2>1. \A i \in 1..Len(file) : file[i] \in Writer \cup {Other}
    BY <1>2, ElementOfSeq
  <2>2. PICK k \in Nat :
          /\ k = IF Len(file) < offset[w] + n THEN offset[w] + n ELSE Len(file)
          /\ file' = [i \in 1..k |-> IF i > offset[w] /\ i <= offset[w] + n THEN w
                                     ELSE IF i <= Len(file) THEN file[i] ELSE Other]
    BY <1>1, <1>3 DEF Overlaid
  <2>3. \A i \in 1..k : (IF i > offset[w] /\ i <= offset[w] + n THEN w
                         ELSE IF i <= Len(file) THEN file[i] ELSE Other) \in Writer \cup {Other}
    BY <2>1, <1>3
  <2>4. file' \in [1..k -> Writer \cup {Other}]
    BY <2>2, <2>3
  <2>5. QED
    BY <2>2, <2>4
<1>6. FileTypeOK'
  <2>1. alone' \in [Writer -> BOOLEAN]
    BY <1>2 DEF FileInv, FileTypeOK
  <2>2. \A v \in Writer : offset'[v] <= length'[v]
    BY <1>2, <1>3, <1>4 DEF FileInv, FileTypeOK
  <2>3. QED
    BY <1>2, <1>4, <1>5, <2>1, <2>2 DEF FileInv, FileTypeOK
<1>7. alone[w] => file' = [i \in 1..offset'[w] |-> w]
  <2> SUFFICES ASSUME alone[w] PROVE file' = [i \in 1..(offset[w] + n) |-> w]
    BY <1>4
  <2>1. file = [i \in 1..offset[w] |-> w]
    BY <1>2 DEF FileInv
  <2>2. Len(file) = offset[w]
    BY <1>2, <1>3, <2>1
  <2>3. \A i \in 1..(offset[w] + n) :
          (IF i > offset[w] /\ i <= offset[w] + n THEN w
           ELSE IF i <= Len(file) THEN file[i] ELSE Other) = w
    BY <1>2, <1>3, <2>1, <2>2
  <2>4. (IF Len(file) < offset[w] + n THEN offset[w] + n ELSE Len(file)) = offset[w] + n
    BY <1>3, <2>2
  <2>5. QED
    BY <1>1, <2>3, <2>4 DEF Overlaid
<1>8. ASSUME NEW v \in Writer
      PROVE  /\ emit'[v] = "idle" => length'[v] = 0
             /\ emit'[v] \in {"idle", "opening"} => offset'[v] = 0 /\ ~alone'[v]
             /\ emit'[v] = "ok" => offset'[v] = length'[v]
             /\ emit'[v] \in {"writing", "ok"} /\ alone'[v] => file' = [i \in 1..offset'[v] |-> v]
  <2>1. CASE v = w
    BY <1>2, <1>7, <2>1
  <2>2. CASE v # w
    BY <1>2, <1>4, <2>2 DEF FileInv
  <2>3. QED
    BY <2>1, <2>2
<1>9. QED
  BY <1>6, <1>8 DEF FileInv

LEMMA FileStepInv ==
  ASSUME FileInv, NEW w \in Writer, FileStep(w)
  PROVE  FileInv'
<1>1. CASE Open(w)
  BY <1>1, OpenStep
<1>2. CASE Write(w)
  BY <1>2, WriteStep
<1>3. CASE Finish(w)
  BY <1>3 DEF FileInv, FileTypeOK, Finish
<1>4. CASE Fail(w)
  BY <1>4 DEF FileInv, FileTypeOK, Fail
<1>5. QED
  BY <1>1, <1>2, <1>3, <1>4 DEF FileStep

-----------------------------------------------------------------------------
(* Credentials and exchanges.                                              *)

\* The scheme derived is that of the last Authorization header.
LEMMA SchemeOfLast ==
  ASSUME NEW r \in RawRequest
  PROVE  /\ SecurityScheme(r.headers) = "bearerAuth" <=> Presents(r, TRUE)
         /\ SecurityScheme(r.headers) = "apiKeyAuth" <=> Presents(r, FALSE)
<1> DEFINE A == Authorizations(r.headers)
<1>1. A \subseteq 1..Len(r.headers) /\ Len(r.headers) \in Nat
  BY RequestsAssumption, LenProperties DEF Authorizations
<1>2. CASE A = {}
  <2>1. SecurityScheme(r.headers) = None
    BY <1>2 DEF SecurityScheme
  <2>2. QED
    BY <1>2, <2>1, RequestsAssumption DEF Presents
<1>3. CASE A # {}
  <2>1. \E i \in A : \A j \in A : j <= i
    BY <1>1, <1>3, LastPosition
  <2>2. PICK k \in A : k = CHOOSE n \in A : \A m \in A : m <= n
    BY <2>1
  <2>3. \A j \in A : j <= k
    BY <2>1, <2>2
  <2>4. \A i \in A : (\A j \in A : j <= i) => i = k
    BY <1>1, <2>2, <2>3
  <2>5. SecurityScheme(r.headers)
          = IF r.headers[k].value = "Bearer" THEN "bearerAuth" ELSE "apiKeyAuth"
    BY <1>3, <2>2 DEF SecurityScheme
  <2>6. \A bearer \in BOOLEAN : Presents(r, bearer) <=> (r.headers[k].value = "Bearer") = bearer
    BY <2>3, <2>4 DEF Presents
  <2>7. QED
    BY <2>5, <2>6
<1>4. QED
  BY <1>2, <1>3

LEMMA ExchangeParts ==
  ASSUME NEW r \in RawRequest
  PROVE  /\ ExchangeOf(r) \in Input /\ ExchangeOf(r) \in Exchanges
         /\ ExchangeOf(r).security = SecurityScheme(r.headers)
  BY ExchangeAssumption, InputType DEF ExchangeOf

LEMMA RecordedIsNext ==
  ASSUME NEW r \in RawRequest, Recorded(r)
  PROVE  Next
  BY ExchangeParts DEF Recorded, Next

LEMMA ReqBase == ReqInit => ReqInv
<1> SUFFICES ASSUME ReqInit PROVE ReqInv
  OBVIOUS
<1>1. /\ seen = <<>> /\ requests = <<>>
      /\ \A o \in Op : operations[o].security_schemes = {} /\ Of(o) = {}
  BY DEF ReqInit, Init, Of
<1>2. QED
  BY <1>1 DEF ReqInv

\* An operation's schemes are those of its answered exchanges, one more or not.
LEMMA SchemesStep ==
  ASSUME TypeOK, ReqInv, NEW x \in Input, Skip(x) \/ Fold(x), NEW o \in Op
  PROVE  operations'[o].security_schemes = {seen'[i].security : i \in Of(o)'} \ {None}
<1>1. /\ seen \in Seq(Exchanges) /\ x \in Exchanges /\ seen' = Append(seen, x)
      /\ x.security \in Scheme \cup {None}
  BY InputType DEF TypeOK, Skip, Fold
<1>2. /\ Of(o)' = IF x.op = o /\ x.status # None THEN Of(o) \cup {Len(seen) + 1} ELSE Of(o)
      /\ Of(o) \subseteq DOMAIN seen
  BY <1>1, PositionsOf
<1>3. /\ \A i \in Of(o) : seen'[i].security = seen[i].security
      /\ seen'[Len(seen) + 1].security = x.security
  BY <1>1, <1>2, SeenGrows
<1>4. operations[o].security_schemes = {seen[i].security : i \in Of(o)} \ {None}
  BY DEF ReqInv
<1>5. CASE Fold(x) /\ x.op = o
  <2>1. operations'[o].security_schemes = With(operations[o].security_schemes, x.security)
    <3>1. operations'[o] = Observe(operations[o], x)
      BY <1>5, FoldParts
    <3>2. QED
      BY <3>1 DEF Observe
  <2>2. {seen'[i].security : i \in Of(o)'} = {seen[i].security : i \in Of(o)} \cup {x.security}
    BY <1>2, <1>3, <1>5 DEF Fold
  <2>3. QED
    BY <1>4, <2>1, <2>2 DEF With
<1>6. CASE Skip(x) \/ x.op # o
  <2>1. operations'[o].security_schemes = operations[o].security_schemes
    BY <1>6, FoldParts DEF Skip
  <2>2. {seen'[i].security : i \in Of(o)'} = {seen[i].security : i \in Of(o)}
    BY <1>2, <1>3, <1>6 DEF Skip
  <2>3. QED
    BY <1>4, <2>1, <2>2
<1>7. QED
  BY <1>5, <1>6

LEMMA ReqStep ==
  ASSUME TypeOK, ReqInv, NEW r \in RawRequest, Recorded(r)
  PROVE  ReqInv'
<1> DEFINE x == ExchangeOf(r)
<1>1. /\ x \in Input /\ x \in Exchanges
      /\ Skip(x) \/ Fold(x)
      /\ requests' = Append(requests, r)
      /\ seen' = Append(seen, x) /\ seen \in Seq(Exchanges)
  BY ExchangeParts DEF Recorded, Skip, Fold, TypeOK
<1> HIDE DEF x
<1>2. /\ requests' \in Seq(RawRequest) /\ Len(requests') = Len(requests) + 1
      /\ \A i \in DOMAIN requests : requests'[i] = requests[i]
      /\ requests'[Len(requests) + 1] = r
      /\ DOMAIN requests = 1..Len(requests)
  <2>1. requests \in Seq(RawRequest)
    BY DEF ReqInv
  <2>2. QED
    BY <1>1, <2>1, AppendParts
<1>3. /\ Len(seen') = Len(seen) + 1 /\ Len(seen) \in Nat
      /\ DOMAIN seen = 1..Len(seen) /\ DOMAIN seen' = 1..(Len(seen) + 1)
      /\ \A i \in DOMAIN seen : seen'[i] = seen[i]
      /\ seen'[Len(seen) + 1] = x
  BY <1>1, AppendParts, LenProperties
<1>4. Len(requests) = Len(seen)
  BY DEF ReqInv
<1>5. ASSUME NEW i \in DOMAIN seen'
      PROVE  seen'[i] = ExchangeOf(requests'[i])
  <2>1. CASE i = Len(seen) + 1
    BY <1>2, <1>3, <1>4, <2>1 DEF x
  <2>2. CASE i \in DOMAIN seen
    BY <1>2, <1>3, <1>4, <2>2 DEF ReqInv
  <2>3. QED
    BY <1>3, <2>1, <2>2
<1>6. ASSUME NEW o \in Op
      PROVE  operations'[o].security_schemes = {seen'[i].security : i \in Of(o)'} \ {None}
  <2>1. x \in Input /\ (Skip(x) \/ Fold(x))
    BY <1>1
  <2>2. QED
    BY <2>1, SchemesStep
<1>7. QED
  BY <1>2, <1>3, <1>4, <1>5, <1>6 DEF ReqInv

-----------------------------------------------------------------------------
(* The emission.                                                           *)

\* A document is of finite length, whatever there is to be documented.
LEMMA LengthIsNat == AssemblyInv => DocumentLength \in Nat
<1> SUFFICES ASSUME AssemblyInv PROVE DocumentLength \in Nat
  OBVIOUS
<1> DEFINE D == DOMAIN seen
           f == [i \in D |-> <<seen[i].op, seen[i].status>>]
           T == {f[i] : i \in D}
<1>1. seen \in Seq(Exchanges) /\ CountsAreEvidence /\ TypeOK
  BY DEF AssemblyInv, TypeOK
<1>2. IsFiniteSet(D)
  <2>1. D = 1..Len(seen) /\ Len(seen) \in Nat
    BY <1>1, LenProperties
  <2>2. QED
    BY <2>1, FS_Interval
<1>3. IsFiniteSet(T)
  <2>1. f \in Surjection(D, T)
    BY Zenon DEF Surjection
  <2>2. QED
    BY <1>2, <2>1, FS_Surjection
<1>4. Documented \subseteq T
  <2> SUFFICES ASSUME NEW o \in Op, NEW st \in Status, byStatus[<<o, st>>].sample_count > 0
               PROVE  <<o, st>> \in T
    BY DEF Documented
  <2>1. byStatus[<<o, st>>].sample_count = Cardinality(At(o, st))
    BY <1>1 DEF CountsAreEvidence
  <2>2. At(o, st) # {}
    BY <2>1, FS_EmptySet
  <2>3. PICK i \in D : seen[i].op = o /\ seen[i].status = st
    BY <2>2 DEF At
  <2>4. QED
    BY <2>3
<1>5. IsFiniteSet(Documented) /\ Cardinality(Documented) \in Nat
  BY <1>3, <1>4, FS_Subset, FS_CardinalityType
<1>6. QED
  BY <1>5 DEF DocumentLength

LEMMA SameLength == UNCHANGED reqVars => UNCHANGED DocumentLength
  BY DEF reqVars, vars, DocumentLength, Documented

LEMMA SameRequests == ReqInv /\ UNCHANGED reqVars => ReqInv'
  BY DEF reqVars, vars, ReqInv, Of

LEMMA EmissionIsAssembly == [EmissionNext]_emissionVars => [Next]_vars
<1> SUFFICES ASSUME EmissionNext PROVE Next \/ UNCHANGED vars
  BY DEF emissionVars, reqVars
<1>1. CASE Folding
  BY <1>1, RecordedIsNext DEF Folding, ReqNext
<1>2. CASE UNCHANGED reqVars
  BY <1>2 DEF reqVars
<1>3. EmissionNext => Folding \/ UNCHANGED reqVars
  BY DEF EmissionNext, PrintLine, WriteOpenapi, OthersBegin, Writing
<1>4. QED
  BY <1>1, <1>2, <1>3

LEMMA EmissionBase == EmissionInit => AssemblyInv /\ DeliveryInv
<1> SUFFICES ASSUME EmissionInit PROVE AssemblyInv /\ DeliveryInv
  OBVIOUS
<1>1. AssemblyInv
  BY InitInv DEF EmissionInit, ReqInit
<1>2. ReqInv /\ FileInv
  BY ReqBase, FileBase DEF EmissionInit
<1>3. Destined
  BY EmissionAssumption DEF EmissionInit, FileInit, Destined
<1>4. QED
  BY <1>1, <1>2, <1>3 DEF DeliveryInv

LEMMA FoldingStep ==
  ASSUME AssemblyInv, DeliveryInv, Folding
  PROVE  DeliveryInv'
<1>1. ReqInv'
  <2>1. PICK r \in RawRequest : Recorded(r)
    BY DEF Folding, ReqNext
  <2>2. TypeOK /\ ReqInv
    BY DEF AssemblyInv, DeliveryInv
  <2>3. QED
    BY <2>1, <2>2, ReqStep
<1>2. FileInv'
  BY DEF Folding, DeliveryInv, FileInv, FileTypeOK, fileVars
<1>3. Destined'
  BY EmissionAssumption DEF Folding, DeliveryInv, Destined, fileVars
<1>4. QED
  BY <1>1, <1>2, <1>3 DEF DeliveryInv

LEMMA PrintStep ==
  ASSUME DeliveryInv, NEW arg \in Argument, PrintLine(arg)
  PROVE  DeliveryInv'
<1>1. UNCHANGED reqVars /\ UNCHANGED DocumentLength
  BY SameLength DEF PrintLine
<1>2. ReqInv'
  BY <1>1, SameRequests DEF DeliveryInv
<1>3. /\ \/ emit' = [emit EXCEPT ![Me] = "ok"] /\ stdout' = Append(stdout, DocumentLength)
         \/ emit' = [emit EXCEPT ![Me] = "failed"] /\ stdout' = stdout
      /\ Me \in Writer /\ emit[Me] = "idle"
      /\ UNCHANGED <<file, length, offset, alone>>
  BY EmissionAssumption DEF PrintLine
<1>4. FileInv'
  BY <1>3 DEF DeliveryInv, FileInv, FileTypeOK
<1>5. Destined'
  <2>1. stdout = <<>>
    BY <1>3 DEF DeliveryInv, Destined
  <2>2. \/ emit'[Me] = "ok" /\ stdout' = <<DocumentLength'>>
        \/ emit'[Me] = "failed" /\ stdout' = <<>>
    BY <1>1, <1>3, <2>1 DEF DeliveryInv, FileInv, FileTypeOK
  <2>3. IsStdout(asked)'
    BY DEF PrintLine, IsStdout
  <2>4. QED
    BY <2>2, <2>3 DEF Destined
<1>6. QED
  BY <1>2, <1>4, <1>5 DEF DeliveryInv

LEMMA WriteOpenapiStep ==
  ASSUME AssemblyInv, DeliveryInv, NEW arg \in Argument, WriteOpenapi(arg)
  PROVE  DeliveryInv'
<1>1. UNCHANGED reqVars /\ UNCHANGED DocumentLength /\ stdout' = stdout /\ asked' = arg
  BY SameLength DEF WriteOpenapi
<1>2. ReqInv'
  BY <1>1, SameRequests DEF DeliveryInv
<1>3. Begin(Me, DocumentLength) /\ Me \in Writer /\ DocumentLength \in Nat
  BY EmissionAssumption, LengthIsNat DEF WriteOpenapi
<1>4. FileInv'
  BY <1>3, BeginStep DEF DeliveryInv
<1>5. Destined'
  <2>1. emit[Me] = "idle" /\ emit'[Me] = "opening" /\ length'[Me] = DocumentLength
    BY <1>3 DEF Begin, DeliveryInv, FileInv, FileTypeOK
  <2>2. stdout' = <<>>
    BY <1>1, <2>1 DEF DeliveryInv, Destined
  <2>3. ~IsStdout(asked)'
    BY <1>1 DEF WriteOpenapi, IsStdout
  <2>4. QED
    BY <1>1, <2>1, <2>2, <2>3 DEF Destined
<1>6. QED
  BY <1>2, <1>4, <1>5 DEF DeliveryInv

LEMMA OthersStep ==
  ASSUME DeliveryInv, NEW w \in Writer, NEW n \in OtherLength, OthersBegin(w, n)
  PROVE  DeliveryInv'
<1>1. UNCHANGED reqVars /\ UNCHANGED DocumentLength /\ stdout' = stdout /\ asked' = asked
  BY SameLength DEF OthersBegin
<1>2. ReqInv'
  BY <1>1, SameRequests DEF DeliveryInv
<1>3. Begin(w, n) /\ n \in Nat /\ w # Me /\ Me \in Writer
  BY EmissionAssumption DEF OthersBegin
<1>4. FileInv'
  BY <1>3, BeginStep DEF DeliveryInv
<1>5. emit'[Me] = emit[Me] /\ length'[Me] = length[Me]
  BY <1>3 DEF Begin, DeliveryInv, FileInv, FileTypeOK
<1>6. Destined'
  BY <1>1, <1>5 DEF DeliveryInv, Destined, IsStdout
<1>7. QED
  BY <1>2, <1>4, <1>6 DEF DeliveryInv

\* An emission to stdout is over at once, printed or not, and writes no file.
LEMMA WritingStep ==
  ASSUME DeliveryInv, NEW w \in Writer, Writing(w)
  PROVE  DeliveryInv'
<1>1. UNCHANGED reqVars /\ UNCHANGED DocumentLength /\ stdout' = stdout /\ asked' = asked
  BY SameLength DEF Writing
<1>2. ReqInv'
  BY <1>1, SameRequests DEF DeliveryInv
<1>3. FileStep(w)
  BY DEF Writing
<1>4. FileInv'
  BY <1>3, FileStepInv DEF DeliveryInv
<1>5. /\ length' = length /\ emit[w] \in {"opening", "writing"} /\ emit'[w] # "idle"
      /\ \A v \in Writer : v # w => emit'[v] = emit[v]
  BY <1>3 DEF FileStep, Open, Write, Finish, Fail, DeliveryInv, FileInv, FileTypeOK
<1>6. Destined'
  <2>1. CASE w = Me
    <3>1. emit[Me] \notin {"idle", "ok", "failed"}
      BY <1>5, <2>1
    <3>2. ~IsStdout(asked) /\ stdout = <<>> /\ length[Me] = DocumentLength
      BY <3>1 DEF DeliveryInv, Destined
    <3>3. QED
      BY <1>1, <1>5, <2>1, <3>2 DEF Destined, IsStdout
  <2>2. CASE w # Me
    <3>1. emit'[Me] = emit[Me]
      BY <1>5, <2>2, EmissionAssumption
    <3>2. QED
      BY <1>1, <1>5, <3>1 DEF DeliveryInv, Destined, IsStdout
  <2>3. QED
    BY <2>1, <2>2
<1>7. QED
  BY <1>2, <1>4, <1>6 DEF DeliveryInv

LEMMA EmissionStep ==
  AssemblyInv /\ DeliveryInv /\ [EmissionNext]_emissionVars => AssemblyInv' /\ DeliveryInv'
<1> SUFFICES ASSUME AssemblyInv, DeliveryInv, [EmissionNext]_emissionVars
             PROVE  AssemblyInv' /\ DeliveryInv'
  OBVIOUS
<1>1. AssemblyInv'
  BY EmissionIsAssembly, StepInv
<1>2. ASSUME Folding PROVE DeliveryInv'
  BY <1>2, FoldingStep
<1>3. ASSUME NEW arg \in Argument, PrintLine(arg) PROVE DeliveryInv'
  BY <1>3, PrintStep
<1>4. ASSUME NEW arg \in Argument, WriteOpenapi(arg) PROVE DeliveryInv'
  BY <1>4, WriteOpenapiStep
<1>5. ASSUME NEW w \in Writer, NEW n \in OtherLength, OthersBegin(w, n) PROVE DeliveryInv'
  BY <1>5, OthersStep
<1>6. ASSUME NEW w \in Writer, Writing(w) PROVE DeliveryInv'
  BY <1>6, WritingStep
<1>7. ASSUME UNCHANGED emissionVars PROVE DeliveryInv'
  <2>1. UNCHANGED reqVars /\ UNCHANGED DocumentLength /\ UNCHANGED <<fileVars, stdout, asked>>
    BY <1>7, SameLength DEF emissionVars
  <2>2. ReqInv'
    BY <2>1, SameRequests DEF DeliveryInv
  <2>3. FileInv'
    BY <2>1 DEF DeliveryInv, FileInv, FileTypeOK, fileVars
  <2>4. Destined'
    BY <2>1 DEF DeliveryInv, Destined, IsStdout, fileVars
  <2>5. QED
    BY <2>2, <2>3, <2>4 DEF DeliveryInv
<1>8. DeliveryInv'
  BY <1>2, <1>3, <1>4, <1>5, <1>6, <1>7 DEF EmissionNext
<1>9. QED
  BY <1>1, <1>8

-----------------------------------------------------------------------------
(***************************************************************************)
(* What is emitted is a document of the loop of build_document: every      *)
(* theorem of AssemblyProofs holds of it (write_openapi, src/lib.rs).      *)
(***************************************************************************)
THEOREM EmissionImplementsAssembly == EmissionSpec => Spec
<1>1. EmissionInit => Init
  BY DEF EmissionInit, ReqInit
<1>2. QED
  BY <1>1, EmissionIsAssembly, PTL DEF EmissionSpec, Spec

(***************************************************************************)
(* Requests, exchanges, schemes, the file and the destination agree        *)
(* throughout, for any number of emissions (write_openapi, src/lib.rs).    *)
(***************************************************************************)
THEOREM EmissionHolds == EmissionSpec => []EmissionInv
<1>1. EmissionInit => EmissionInv
  BY EmissionBase DEF EmissionInv
<1>2. EmissionInv /\ [EmissionNext]_emissionVars => EmissionInv'
  BY EmissionStep DEF EmissionInv
<1>3. QED
  BY <1>1, <1>2, PTL DEF EmissionSpec

(***************************************************************************)
(* A write that succeeded undisturbed left exactly its document, whatever  *)
(* was in the file, in however many pieces it was written and whoever      *)
(* failed half-way before (write_openapi, src/lib.rs).                     *)
(***************************************************************************)
THEOREM CleanEmissions == EmissionSpec => []CleanEmissionIsWhole
<1>1. AssemblyInv /\ DeliveryInv => CleanEmissionIsWhole
  BY DEF DeliveryInv, FileInv, CleanEmissionIsWhole
<1>2. QED
  BY <1>1, EmissionHolds, PTL DEF EmissionInv

(***************************************************************************)
(* An emission that returned Ok delivered its whole document once, to the  *)
(* destination that its argument names (Destination, src/lib.rs).          *)
(***************************************************************************)
THEOREM DocumentsArrive == EmissionSpec => []DocumentArrives
<1>1. AssemblyInv /\ DeliveryInv => DocumentArrives
  <2> SUFFICES ASSUME DeliveryInv, emit[Me] = "ok" PROVE DocumentArrives
    BY DEF DocumentArrives
  <2>1. IF IsStdout(asked) THEN stdout = <<DocumentLength>>
        ELSE stdout = <<>> /\ length[Me] = DocumentLength
    BY DEF DeliveryInv, Destined
  <2>2. alone[Me] => file = [i \in 1..length[Me] |-> Me]
    BY EmissionAssumption DEF DeliveryInv, FileInv
  <2>3. QED
    BY <2>1, <2>2 DEF DocumentArrives, IsStdout
<1>2. QED
  BY <1>1, EmissionHolds, PTL DEF EmissionInv

(***************************************************************************)
(* An operation names exactly the schemes that its answered requests       *)
(* presented last, with however many headers (src/auth.rs).                *)
(***************************************************************************)
THEOREM SecurityWitnessed == EmissionSpec => []SecurityIsWitnessed
<1>1. AssemblyInv /\ DeliveryInv => SecurityIsWitnessed
  <2> SUFFICES ASSUME AssemblyInv, DeliveryInv, NEW o \in Op, NEW bearer \in BOOLEAN
               PROVE  (IF bearer THEN "bearerAuth" ELSE "apiKeyAuth")
                         \in operations[o].security_schemes
                        <=> \E i \in Of(o) : Presents(requests[i], bearer)
    BY DEF SecurityIsWitnessed
  <2> DEFINE scheme == IF bearer THEN "bearerAuth" ELSE "apiKeyAuth"
  <2>1. operations[o].security_schemes = {seen[i].security : i \in Of(o)} \ {None}
    BY DEF DeliveryInv, ReqInv
  <2>2. scheme # None
    BY RequestsAssumption
  <2>3. ASSUME NEW i \in Of(o) PROVE seen[i].security = scheme <=> Presents(requests[i], bearer)
    <3>1. i \in DOMAIN seen /\ seen \in Seq(Exchanges)
      BY <2>3 DEF Of, AssemblyInv, TypeOK
    <3>2. i \in 1..Len(requests)
      BY <3>1, LenProperties DEF DeliveryInv, ReqInv
    <3>3. requests[i] \in RawRequest /\ seen[i] = ExchangeOf(requests[i])
      BY <3>1, <3>2, ElementOfSeq DEF DeliveryInv, ReqInv
    <3>4. seen[i].security = SecurityScheme(requests[i].headers)
      BY <3>3, ExchangeParts
    <3>5. QED
      BY <3>3, <3>4, SchemeOfLast
  <2>4. QED
    BY <2>1, <2>2, <2>3
<1>2. QED
  BY <1>1, EmissionHolds, PTL DEF EmissionInv

-----------------------------------------------------------------------------
(* The document.                                                           *)

\* The finite sets of positions that the counts are taken of.
LEMMA FinitePositions ==
  ASSUME AssemblyInv, NEW S \in SUBSET DOMAIN seen
  PROVE  IsFiniteSet(S) /\ Cardinality(S) \in Nat /\ (Cardinality(S) = 0 <=> S = {})
<1>1. seen \in Seq(Exchanges)
  BY DEF AssemblyInv, TypeOK
<1>2. DOMAIN seen = 1..Len(seen) /\ Len(seen) \in Nat
  BY <1>1, LenProperties
<1>3. IsFiniteSet(DOMAIN seen)
  BY <1>2, FS_Interval
<1>4. IsFiniteSet(S)
  BY <1>3, FS_Subset
<1>5. QED
  BY <1>4, FS_EmptySet, FS_CardinalityType

\* A value counted in a sequence is in it.
LEMMA CountedIsIn ==
  ASSUME NEW s, NEW v, Count(s, v) # 0
  PROVE  \E n \in DOMAIN s : s[n] = v
<1>1. {n \in DOMAIN s : s[n] = v} # {}
  BY FS_EmptySet DEF Count
<1>2. QED
  BY <1>1

LEMMA AnsweredParts ==
  ASSUME AssemblyInv, ReqInv, NEW i \in DOMAIN requests, requests[i].status # None
  PROVE  /\ i \in DOMAIN seen /\ seen[i] = ExchangeOf(requests[i]) /\ seen[i] \in Exchanges
         /\ seen[i].op \in Op /\ seen[i].status \in Status
         /\ seen[i].op.route = ToOpenapiTemplate(requests[i].matched)
         /\ seen[i].op.method = Lowercase[requests[i].method]
         /\ seen[i].status = requests[i].status /\ seen[i].request = requests[i].request
         /\ seen[i].response = requests[i].response /\ seen[i].declared = requests[i].declared
         /\ i \in Of(seen[i].op) /\ i \in At(seen[i].op, seen[i].status)
<1>1. seen \in Seq(Exchanges)
  BY DEF AssemblyInv, TypeOK
<1>2. i \in 1..Len(seen) /\ i \in DOMAIN seen
  BY <1>1, LenProperties DEF ReqInv
<1>3. seen[i] = ExchangeOf(requests[i]) /\ seen[i] \in Exchanges
  BY <1>1, <1>2, ElementOfSeq DEF ReqInv
<1>4. /\ seen[i].op.route = ToOpenapiTemplate(requests[i].matched)
      /\ seen[i].op.method = Lowercase[requests[i].method]
      /\ seen[i].status = requests[i].status /\ seen[i].request = requests[i].request
      /\ seen[i].response = requests[i].response /\ seen[i].declared = requests[i].declared
  BY <1>3 DEF ExchangeOf
<1>5. seen[i].op \in Op /\ seen[i].status \in Status
  BY <1>3, <1>4 DEF Exchanges
<1>6. i \in Of(seen[i].op) /\ i \in At(seen[i].op, seen[i].status)
  BY <1>2, <1>4 DEF Of, At
<1>7. QED
  BY <1>2, <1>3, <1>4, <1>5, <1>6

\* An operation is in the document exactly if an answered request was made to it.
LEMMA AnsweredIffSeen ==
  ASSUME AssemblyInv, NEW o \in Op
  PROVE  /\ o \in Answered <=> Of(o) # {}
         /\ \A st \in Status : st \in Responses(o) <=> At(o, st) # {}
<1>1. CountsAreEvidence
  BY DEF AssemblyInv
<1>2. Cardinality(Of(o)) \in Nat /\ (Cardinality(Of(o)) = 0 <=> Of(o) = {})
  BY FinitePositions DEF Of
<1>3. ASSUME NEW st \in Status
      PROVE  Cardinality(At(o, st)) \in Nat /\ (Cardinality(At(o, st)) = 0 <=> At(o, st) = {})
  BY FinitePositions DEF At
<1>4. operations[o].requests_observed = Cardinality(Of(o))
  BY <1>1 DEF CountsAreEvidence
<1>5. \A st \in Status : byStatus[<<o, st>>].sample_count = Cardinality(At(o, st))
  BY <1>1 DEF CountsAreEvidence
<1>6. o \in Answered <=> Of(o) # {}
  BY <1>2, <1>4 DEF Answered
<1>7. ASSUME NEW st \in Status PROVE st \in Responses(o) <=> At(o, st) # {}
  <2>1. st \in Responses(o) <=> byStatus[<<o, st>>].sample_count > 0
    BY DEF Responses
  <2>2. QED
    BY <1>3, <1>5, <2>1
<1>8. QED
  BY <1>6, <1>7

LEMMA PathsParts ==
  /\ \A o \in Answered : /\ o.route \in DOMAIN Paths
                         /\ o.method \in DOMAIN Paths[o.route]
                         /\ Paths[o.route][o.method] = OperationObject(o)
  /\ \A route \in DOMAIN Paths : \A method \in DOMAIN Paths[route] :
       \E o \in Answered : /\ route = o.route /\ method = o.method
                           /\ Paths[route][method] = OperationObject(o)
<1>1. DOMAIN Paths = {o.route : o \in Answered}
  BY DEF Paths
<1>2. \A route \in DOMAIN Paths : Paths[route] = PathItem(route)
  BY DEF Paths
<1>3. \A route : /\ DOMAIN PathItem(route) = {o.method : o \in {p \in Answered : p.route = route}}
                 /\ \A method \in DOMAIN PathItem(route) :
                      PathItem(route)[method]
                        = OperationObject([route |-> route, method |-> method])
  BY DEF PathItem, MethodsOf, Methods
<1>4. \A o \in Answered : o = [route |-> o.route, method |-> o.method]
  BY DocumentAssumption DEF Answered
<1>5. ASSUME NEW o \in Answered
      PROVE  /\ o.route \in DOMAIN Paths
             /\ o.method \in DOMAIN Paths[o.route]
             /\ Paths[o.route][o.method] = OperationObject(o)
  <2>1. o.route \in DOMAIN Paths
    BY <1>1
  <2>2. o.method \in DOMAIN PathItem(o.route)
    BY <1>3
  <2>3. PathItem(o.route)[o.method] = OperationObject(o)
    BY <1>3, <1>4, <2>2
  <2>4. QED
    BY <1>2, <2>1, <2>2, <2>3
<1>6. ASSUME NEW route \in DOMAIN Paths, NEW method \in DOMAIN Paths[route]
      PROVE  \E o \in Answered : /\ route = o.route /\ method = o.method
                                 /\ Paths[route][method] = OperationObject(o)
  <2>1. method \in {o.method : o \in {p \in Answered : p.route = route}}
    BY <1>2, <1>3
  <2>2. PICK o \in Answered : o.route = route /\ o.method = method
    BY <2>1
  <2>3. QED
    BY <1>5, <2>2
<1>7. QED
  BY <1>5, <1>6

\* What the loop kept of an answered request's bodies and declaration.
LEMMA KeptEvidence ==
  ASSUME AssemblyInv, ReqInv, NEW i \in DOMAIN requests, requests[i].status # None
  PROVE  LET r == requests[i]
             o == seen[i].op
         IN  /\ r.response # None => \E n \in DOMAIN byStatus[<<o, r.status>>].json_samples :
                                       byStatus[<<o, r.status>>].json_samples[n] = r.response
             /\ r.request # None => \E n \in DOMAIN operations[o].request_samples :
                                      operations[o].request_samples[n] = r.request
             /\ r.declared # None => byStatus[<<o, r.status>>].declared # None
<1> DEFINE x == seen[i]
<1>1. /\ i \in DOMAIN seen /\ x \in Exchanges /\ x.op \in Op /\ x.status \in Status
      /\ i \in Of(x.op) /\ i \in At(x.op, x.status)
      /\ x.status = requests[i].status /\ x.request = requests[i].request
      /\ x.response = requests[i].response /\ x.declared = requests[i].declared
  BY AnsweredParts
<1>2. CountsAreEvidence /\ FirstDeclared
  BY DEF AssemblyInv
<1> HIDE DEF x
<1>3. ASSUME x.response # None
      PROVE  \E n \in DOMAIN byStatus[<<x.op, x.status>>].json_samples :
               byStatus[<<x.op, x.status>>].json_samples[n] = x.response
  <2> DEFINE S == {j \in At(x.op, x.status) : seen[j].response = x.response}
  <2>1. x.response \in Sample
    BY <1>1, <1>3 DEF Exchanges
  <2>2. Count(byStatus[<<x.op, x.status>>].json_samples, x.response) = Cardinality(S)
    BY <1>1, <1>2, <2>1 DEF CountsAreEvidence
  <2>3. S \subseteq DOMAIN seen /\ i \in S
    BY <1>1 DEF At, x
  <2> HIDE DEF S
  <2>4. Cardinality(S) # 0
    BY <2>3, FinitePositions
  <2>5. QED
    BY <2>2, <2>4, CountedIsIn
<1>4. ASSUME x.request # None
      PROVE  \E n \in DOMAIN operations[x.op].request_samples :
               operations[x.op].request_samples[n] = x.request
  <2> DEFINE S == {j \in Of(x.op) : seen[j].request = x.request}
  <2>1. x.request \in Sample
    BY <1>1, <1>4 DEF Exchanges
  <2>2. Count(operations[x.op].request_samples, x.request) = Cardinality(S)
    BY <1>1, <1>2, <2>1 DEF CountsAreEvidence
  <2>3. S \subseteq DOMAIN seen /\ i \in S
    BY <1>1 DEF Of, x
  <2> HIDE DEF S
  <2>4. Cardinality(S) # 0
    BY <2>3, FinitePositions
  <2>5. QED
    BY <2>2, <2>4, CountedIsIn
<1>5. x.declared # None => byStatus[<<x.op, x.status>>].declared # None
  BY <1>1, <1>2 DEF FirstDeclared, x
<1>6. QED
  BY <1>1, <1>3, <1>4, <1>5 DEF x

LEMMA EverythingShown ==
  ASSUME AssemblyInv, ReqInv, NEW i \in DOMAIN requests, requests[i].status # None
  PROVE  Evidenced(Paths, requests[i])
<1> DEFINE r == requests[i]
           o == seen[i].op
           acc == byStatus[<<o, r.status>>]
           obj == OperationObject(o)
<1>1. /\ o \in Op /\ r.status \in Status
      /\ o.route = ToOpenapiTemplate(r.matched) /\ o.method = Lowercase[r.method]
      /\ i \in Of(o) /\ i \in At(o, r.status)
  BY AnsweredParts
<1>2. /\ r.response # None => \E n \in DOMAIN acc.json_samples : acc.json_samples[n] = r.response
      /\ r.request # None => \E n \in DOMAIN operations[o].request_samples :
                               operations[o].request_samples[n] = r.request
      /\ r.declared # None => acc.declared # None
  BY KeptEvidence
<1> HIDE DEF o, r
<1>3. o \in Answered /\ r.status \in Responses(o)
  BY <1>1, AnsweredIffSeen
<1>4. /\ o.route \in DOMAIN Paths /\ o.method \in DOMAIN Paths[o.route]
      /\ Paths[o.route][o.method] = obj
  BY <1>3, PathsParts
<1>5. /\ DOMAIN obj.responses = Responses(o)
      /\ obj.responses[r.status].schema = ResponseSchema(o, r.status)
  BY <1>3 DEF OperationObject
<1>6. r.response # None => acc.json_samples # <<>>
  BY <1>2
<1>7. r.response # None \/ r.declared # None => ResponseSchema(o, r.status) # NoSchema
  <2>1. r.response # None \/ r.declared # None
          => acc.declared # None \/ acc.json_samples # <<>>
    BY <1>2, <1>6
  <2>2. acc.declared # None \/ acc.json_samples # <<>>
          => ResponseSchema(o, r.status).source \in {"declared", "inferred"}
    BY DEF ResponseSchema, Declared, Inferred
  <2>3. NoSchema.source = "none"
    BY DEF NoSchema
  <2>4. QED
    BY <2>1, <2>2, <2>3
<1>8. ResponseSchema(o, r.status).source = "inferred"
        => ResponseSchema(o, r.status).samples = acc.json_samples
  BY DEF ResponseSchema, Declared, Inferred, NoSchema
<1>9. r.request # None => obj.requestBody.samples = operations[o].request_samples
  <2> SUFFICES ASSUME r.request # None
               PROVE  obj.requestBody.samples = operations[o].request_samples
    OBVIOUS
  <2>1. HasRequestBody(o)
    BY <1>2 DEF HasRequestBody
  <2>2. QED
    BY <2>1 DEF OperationObject
<1> HIDE DEF acc, obj
<1>10. Evidenced(Paths, r)
  BY <1>1, <1>2, <1>3, <1>4, <1>5, <1>7, <1>8, <1>9 DEF Evidenced
<1>11. QED
  BY <1>10 DEF r

LEMMA NothingInvented ==
  ASSUME AssemblyInv, ReqInv, NEW route \in DOMAIN Paths, NEW method \in DOMAIN Paths[route]
  PROVE  /\ DOMAIN Paths[route][method].responses # {}
         /\ \A st \in DOMAIN Paths[route][method].responses :
              \E i \in DOMAIN requests : Witness(requests[i], route, method, st)
<1>1. PICK o \in Answered : /\ route = o.route /\ method = o.method
                            /\ Paths[route][method] = OperationObject(o)
  BY PathsParts
<1>2. o \in Op /\ DOMAIN Paths[route][method].responses = Responses(o)
  <2>1. o \in Op
    BY <1>1 DEF Answered
  <2>2. DOMAIN OperationObject(o).responses = Responses(o)
    BY DEF OperationObject
  <2>3. QED
    BY <1>1, <2>1, <2>2
<1>3. DOMAIN requests = DOMAIN seen
  <2>1. seen \in Seq(Exchanges)
    BY DEF AssemblyInv, TypeOK
  <2>2. QED
    BY <2>1, LenProperties DEF ReqInv
<1>4. Responses(o) # {}
  <2>1. PICK i \in Of(o) : i \in DOMAIN seen /\ seen[i].op = o /\ seen[i].status # None
    BY <1>1, <1>2, AnsweredIffSeen DEF Of
  <2>2. seen \in Seq(Exchanges)
    BY DEF AssemblyInv, TypeOK
  <2>3. seen[i] \in Exchanges
    BY <2>1, <2>2, LenProperties, ElementOfSeq
  <2>4. seen[i].status \in Status
    BY <2>1, <2>3 DEF Exchanges
  <2>5. i \in At(o, seen[i].status)
    BY <2>1 DEF At
  <2>6. QED
    BY <1>2, <2>4, <2>5, AnsweredIffSeen
<1>5. ASSUME NEW st \in Responses(o)
      PROVE  \E i \in DOMAIN requests : Witness(requests[i], route, method, st)
  <2>1. st \in Status
    BY DEF Responses
  <2>2. PICK i \in DOMAIN seen : seen[i].op = o /\ seen[i].status = st
    BY <1>2, <2>1, AnsweredIffSeen DEF At
  <2>3. st # None
    BY <2>1, AssemblyAssumption
  <2>4. seen[i] = ExchangeOf(requests[i])
    BY DEF ReqInv
  <2>5. requests[i].status = st
    BY <2>2, <2>4 DEF ExchangeOf
  <2>6. Witness(requests[i], route, method, st)
    BY <1>1, <1>3, <2>2, <2>3, <2>5, AnsweredParts DEF Witness
  <2>7. QED
    BY <1>3, <2>6
<1>6. QED
  BY <1>2, <1>4, <1>5

(***************************************************************************)
(* The document shows every answered request, with its bodies as evidence, *)
(* and nothing that no request showed, whatever the requests and in        *)
(* whatever order (build_document, src/openapi.rs).                        *)
(***************************************************************************)
THEOREM DocumentRestsOnEvidence == EmissionSpec => []DocumentIsEvidence
<1>1. AssemblyInv /\ DeliveryInv => DocumentIsEvidence
  BY EverythingShown, NothingInvented DEF DeliveryInv, DocumentIsEvidence
<1>2. QED
  BY <1>1, EmissionHolds, PTL DEF EmissionInv
=============================================================================
