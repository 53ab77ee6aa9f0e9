---------------------------- MODULE RecorderProofs ----------------------------
(***************************************************************************)
(* Proofs about Recorder for any number of requests, collectors, fields    *)
(* and configurations: type correctness with the store's lock discipline,  *)
(* redaction, and that a warning is out before what it warns about.        *)
(***************************************************************************)
EXTENDS Recorder, SequenceTheorems, TLAPS

USE DEF callVars, messageVars, redactVars, colVars

LEMMA BodyTypes ==
  /\ NoBody \in Body
  /\ NoPending \in [body : Body, warn : SUBSET Warning]
  BY DEF NoBody, NoPending, Body, Kind

\* Redaction and the scan produce well-typed bodies and warnings.
LEMMA RecordTypes ==
  ASSUME NEW m \in Message, NEW p \in Payload, config \subseteq Field
  PROVE  /\ Redact(m, p) \in Body
         /\ WarningsOf(m, Redact(m, p)) \subseteq Warning
<1>1. p.kind \in Kind /\ p.fields \in SUBSET Field
  BY RecorderAssumption
<1>2. Redact(m, p) \in Body
  BY <1>1 DEF Redact, Body
<1>3. WarningsOf(m, Redact(m, p)) \subseteq Warning
  BY DEF WarningsOf, Warning
<1>4. QED
  BY <1>2, <1>3

\* The message of an exchange's side.
LEMMA MessageOf ==
  ASSUME NEW e \in Exchange, NEW s \in Side
  PROVE  <<e, s>> \in Message /\ <<e, s>>[1] = e /\ <<e, s>>[2] = s
  BY DEF Message

LEMMA MessageParts ==
  ASSUME NEW m \in Message
  PROVE  m[1] \in Exchange /\ m[2] \in Side /\ m = <<m[1], m[2]>>
  BY DEF Message

LEMMA CloneType ==
  ASSUME TypeOK, NEW e \in Exchange
  PROVE  Clone(e) \in Entry
<1>1. \A s \in Side : body[<<e, s>>] \in Body
  BY MessageOf DEF TypeOK
<1>2. [s \in Side |-> body[<<e, s>>]] \in [Side -> Body]
  BY <1>1
<1>3. QED
  BY <1>2 DEF Clone, Entry, TypeOK

\* What a snapshot holds is a state of some exchange.
LEMMA EntryType ==
  ASSUME TypeOK, NEW k \in Collector, NEW i \in DOMAIN snap[k]
  PROVE  /\ snap[k][i] \in Entry /\ snap[k][i].id \in Exchange
         /\ \A s \in Side : snap[k][i].body[s] \in Body
<1>1. snap[k] \in Seq(Entry)
  BY DEF TypeOK
<1>2. DOMAIN snap[k] = 1..Len(snap[k])
  BY <1>1
<1>3. snap[k][i] \in Entry
  BY <1>1, <1>2
<1>4. QED
  BY <1>3 DEF Entry

(***************************************************************************)
(* Recorder is type correct, and the holder of the store's mutex between   *)
(* two steps is the collector that is cloning (src/store.rs, snapshot).    *)
(***************************************************************************)
THEOREM RecorderTypes == Spec => []TypeOK
<1>1. Init => TypeOK
  <2> SUFFICES ASSUME Init PROVE TypeOK
    OBVIOUS
  <2>1. store \in Seq(Exchange) /\ storeLock \in Collector \cup {None}
    BY DEF Init
  <2>2. snap \in [Collector -> Seq(Entry)]
    BY EmptySeq DEF Init
  <2>3. /\ body \in [Message -> Body]
        /\ pending \in [Message -> [body : Body, warn : SUBSET Warning]]
    BY BodyTypes DEF Init
  <2>4. \A k \in Collector : col[k] = "collecting" <=> storeLock = k
    BY RecorderAssumption DEF Init
  <2>5. QED
    BY <2>1, <2>2, <2>3, <2>4, RecorderAssumption DEF Init, TypeOK
<1>2. TypeOK /\ [Next]_vars => TypeOK'
  <2> SUFFICES ASSUME TypeOK, [Next]_vars
               PROVE  TypeOK'
    OBVIOUS
  <2>1. ASSUME NEW e \in Exchange, Arrive(e) PROVE TypeOK'
    BY <2>1 DEF TypeOK, Arrive
  <2>2. ASSUME NEW e \in Exchange, Push(e) PROVE TypeOK'
    <3>1. store' \in Seq(Exchange)
      BY <2>2, AppendProperties DEF TypeOK, Push, Pushed
    <3>2. call' \in [Exchange -> {"idle", "arriving", "running", "returned", "lost"}]
      BY <2>2 DEF TypeOK, Push, Pushed
    <3>3. stage' \in [Message -> {"unsent", "open", "recording", "stored"}]
      BY <2>2 DEF TypeOK, Push, Pushed
    <3>4. QED
      BY <2>2, <3>1, <3>2, <3>3 DEF TypeOK, Push, Pushed
  <2>3. ASSUME NEW e \in Exchange, NEW st \in Status, HandlerReturns(e, st) PROVE TypeOK'
    BY <2>3, MessageOf DEF TypeOK, HandlerReturns, Side
  <2>4. ASSUME NEW e \in Exchange, HandlerLost(e) PROVE TypeOK'
    BY <2>4 DEF TypeOK, HandlerLost
  <2>5. ASSUME NEW e \in Exchange, DeclareLock(e) PROVE TypeOK'
    <3>1. declares[e] \in 0..MaxDeclares /\ declares[e] < MaxDeclares /\ MaxDeclares \in Nat
      BY <2>5, RecorderAssumption DEF TypeOK, DeclareLock
    <3>2. declares[e] + 1 \in 0..MaxDeclares
      BY <3>1
    <3>3. declares' \in [Exchange -> 0..MaxDeclares]
      BY <2>5, <3>2 DEF TypeOK, DeclareLock
    <3>4. QED
      BY <2>5, <3>3 DEF TypeOK, DeclareLock
  <2>6. ASSUME NEW e \in Exchange, NEW t \in Type, DeclareOk(e, t) PROVE TypeOK'
    BY <2>6 DEF TypeOK, DeclareOk, Unlock
  <2>7. ASSUME NEW e \in Exchange, DeclareFails(e) PROVE TypeOK'
    BY <2>7 DEF TypeOK, DeclareFails, Unlock
  <2>7p. ASSUME NEW e \in Exchange, DeclarePanics(e) PROVE TypeOK'
    BY <2>7p DEF TypeOK, DeclarePanics, Unlock
  <2>8. ASSUME NEW m \in Message, NEW p \in Payload, Record(m, p) PROVE TypeOK'
    BY <2>8, RecordTypes DEF TypeOK, Record
  <2>9. ASSUME NEW m \in Message, NEW w \in pending[m].warn, PushWarning(m, w) PROVE TypeOK'
    BY <2>9 DEF TypeOK, PushWarning
  <2>10. ASSUME NEW m \in Message, StoreBody(m) PROVE TypeOK'
    BY <2>10 DEF TypeOK, StoreBody
  <2>11. ASSUME NEW c \in Config, Configure(c) PROVE TypeOK'
    BY <2>11, RecorderAssumption DEF TypeOK, Configure
  <2>12. ASSUME NEW k \in Collector, CollectStart(k) PROVE TypeOK'
    BY <2>12, RecorderAssumption DEF TypeOK, CollectStart, TakeLock, OnRecord
  <2>13. ASSUME NEW k \in Collector, CloneOne(k) PROVE TypeOK'
    BY <2>13, CloneType DEF TypeOK, CloneOne
  <2>14. ASSUME NEW k \in Collector, CollectEnd(k) PROVE TypeOK'
    BY <2>14, RecorderAssumption DEF TypeOK, CollectEnd
  <2>15. ASSUME NEW k \in Collector, Emit(k) PROVE TypeOK'
    BY <2>15 DEF TypeOK, Emit
  <2>16. CASE UNCHANGED vars
    BY <2>16 DEF TypeOK, vars
  <2>17. QED
    BY <2>1, <2>2, <2>3, <2>4, <2>5, <2>6, <2>7, <2>7p, <2>8, <2>9, <2>10,
       <2>11, <2>12, <2>13, <2>14, <2>15, <2>16 DEF Next, Quiet
<1>3. QED
  BY <1>1, <1>2, PTL DEF Spec

-----------------------------------------------------------------------------
(***************************************************************************)
(* Nothing is stored, held or snapshotted of a message before its time:    *)
(* inductive on its own.                                                   *)
(***************************************************************************)
LEMMA StagesInit == Init => StageInv
<1> SUFFICES ASSUME Init PROVE StageInv
  OBVIOUS
<1>1. \A e \in Exchange, s \in Side : stage[<<e, s>>] = "unsent"
  BY MessageOf DEF Init
<1>2. \A m \in Message : body[m] = NoBody /\ pending[m] = NoPending
  BY DEF Init
<1>3. \A k \in Collector : DOMAIN snap[k] = {}
  BY DEF Init
<1>4. QED
  BY <1>1, <1>2, <1>3 DEF StageInv, Side

LEMMA StagesStep == TypeOK /\ StageInv /\ [Next]_vars => StageInv'
<1> SUFFICES ASSUME TypeOK, StageInv, [Next]_vars
             PROVE  StageInv'
  OBVIOUS
<1>1. ASSUME NEW e \in Exchange, Arrive(e) PROVE StageInv'
  BY <1>1, MessageOf DEF TypeOK, StageInv, Arrive
<1>2. ASSUME NEW e \in Exchange, Push(e) PROVE StageInv'
  <2>1. /\ <<e, "request">> \in Message
        /\ stage \in [Message -> {"unsent", "open", "recording", "stored"}]
    BY MessageOf DEF Side, TypeOK
  <2>2. stage[<<e, "request">>] = "unsent"
    BY <1>2 DEF StageInv, Push, Pushed, Side
  <2>3. stage'[<<e, "request">>] = "open"
    BY <1>2, <2>1 DEF Push, Pushed
  <2>4. \A m \in Message : m # <<e, "request">> => stage'[m] = stage[m]
    BY <1>2, <2>1 DEF Push, Pushed
  <2>5. \A f \in Exchange, s \in Side : <<f, s>> \in Message
    BY MessageOf
  <2>6. /\ \A f \in Exchange, s \in Side :
             call'[f] \in {"idle", "arriving"} => stage'[<<f, s>>] = "unsent"
        /\ \A f \in Exchange : call'[f] # "returned" => stage'[<<f, "response">>] = "unsent"
    BY <1>2, <2>4, <2>5 DEF TypeOK, StageInv, Push, Pushed, Side
  <2>7. \A m \in Message : /\ stage'[m] # "stored" => body'[m] = NoBody
                           /\ stage'[m] \in Early => pending'[m] = NoPending
    BY <1>2, <2>2, <2>4 DEF StageInv, Push, Pushed, Early
  <2>8. \A k \in Collector : \A i \in DOMAIN snap'[k], s \in Side :
           stage'[<<snap'[k][i].id, s>>] # "stored" => snap'[k][i].body[s] = NoBody
    <3>1. \A k \in Collector : \A i \in DOMAIN snap[k] : snap[k][i].id \in Exchange
      BY EntryType
    <3>2. QED
      BY <1>2, <2>2, <2>4, <2>5, <3>1 DEF StageInv, Push, Pushed
  <2>9. QED
    BY <2>6, <2>7, <2>8 DEF StageInv
<1>3. ASSUME NEW e \in Exchange, NEW st \in Status, HandlerReturns(e, st) PROVE StageInv'
  <2>1. /\ <<e, "response">> \in Message
        /\ stage[<<e, "response">>] = "unsent"
        /\ \A f \in Exchange, t \in Side : <<f, t>> \in Message
    BY <1>3, MessageOf DEF StageInv, HandlerReturns, Side
  <2>2. /\ stage'[<<e, "response">>] = "open" /\ call'[e] = "returned"
        /\ \A m \in Message : m # <<e, "response">> => stage'[m] = stage[m]
        /\ \A f \in Exchange : f # e => call'[f] = call[f]
        /\ UNCHANGED <<body, pending, snap>>
    BY <1>3, <2>1 DEF HandlerReturns, TypeOK
  <2>3. /\ \A f \in Exchange, s \in Side :
             call'[f] \in {"idle", "arriving"} => stage'[<<f, s>>] = "unsent"
        /\ \A f \in Exchange : call'[f] # "returned" => stage'[<<f, "response">>] = "unsent"
    <3> SUFFICES ASSUME NEW f \in Exchange, NEW s \in Side, call'[f] # "returned"
                 PROVE  /\ call'[f] \in {"idle", "arriving"} => stage'[<<f, s>>] = "unsent"
                        /\ stage'[<<f, "response">>] = "unsent"
      BY <2>2 DEF Side
    <3>1. f # e /\ call'[f] = call[f]
      BY <2>2
    <3>2. <<f, s>> # <<e, "response">> /\ <<f, "response">> # <<e, "response">>
      BY <3>1
    <3>3. stage'[<<f, s>>] = stage[<<f, s>>] /\ stage'[<<f, "response">>] = stage[<<f, "response">>]
      BY <2>1, <2>2, <3>2 DEF Side
    <3>4. QED
      BY <3>1, <3>3 DEF StageInv
  <2>4. \A m \in Message : /\ stage'[m] # "stored" => body'[m] = NoBody
                           /\ stage'[m] \in Early => pending'[m] = NoPending
    BY <2>1, <2>2 DEF StageInv, Early
  <2>5. \A k \in Collector : \A i \in DOMAIN snap'[k], s \in Side :
           stage'[<<snap'[k][i].id, s>>] # "stored" => snap'[k][i].body[s] = NoBody
    BY <2>1, <2>2, EntryType DEF StageInv
  <2>6. QED
    BY <2>3, <2>4, <2>5 DEF StageInv
<1>4. ASSUME NEW e \in Exchange, HandlerLost(e) PROVE StageInv'
  BY <1>4, MessageOf DEF TypeOK, StageInv, HandlerLost
<1>5. ASSUME NEW e \in Exchange, DeclareLock(e) PROVE StageInv'
  BY <1>5 DEF StageInv, DeclareLock
<1>6. ASSUME NEW e \in Exchange, NEW t \in Type, DeclareOk(e, t) PROVE StageInv'
  BY <1>6 DEF StageInv, DeclareOk
<1>7. ASSUME NEW e \in Exchange, DeclareFails(e) PROVE StageInv'
  BY <1>7 DEF StageInv, DeclareFails
<1>7p. ASSUME NEW e \in Exchange, DeclarePanics(e) PROVE StageInv'
  BY <1>7p DEF StageInv, DeclarePanics
<1>8. ASSUME NEW m \in Message, NEW p \in Payload, Record(m, p) PROVE StageInv'
  BY <1>8, MessageOf, MessageParts DEF TypeOK, StageInv, Record, Early
<1>9. ASSUME NEW m \in Message, NEW w \in pending[m].warn, PushWarning(m, w) PROVE StageInv'
  <2>1. stage[m] \notin Early
    BY <1>9 DEF StageInv, NoPending
  <2>2. \A n \in Message : n # m => pending'[n] = pending[n]
    BY <1>9 DEF TypeOK, PushWarning
  <2>3. QED
    BY <1>9, <2>1, <2>2 DEF StageInv, PushWarning
<1>10. ASSUME NEW m \in Message, StoreBody(m) PROVE StageInv'
  BY <1>10, MessageOf, MessageParts DEF TypeOK, StageInv, StoreBody, Early
<1>11. ASSUME NEW c \in Config, Configure(c) PROVE StageInv'
  BY <1>11 DEF StageInv, Configure
<1>12. ASSUME NEW k \in Collector, CollectStart(k) PROVE StageInv'
  BY <1>12 DEF StageInv, CollectStart
<1>13. ASSUME NEW k \in Collector, CloneOne(k) PROVE StageInv'
  BY <1>13, MessageOf DEF TypeOK, StageInv, CloneOne, Clone
<1>14. ASSUME NEW k \in Collector, CollectEnd(k) PROVE StageInv'
  BY <1>14 DEF StageInv, CollectEnd
<1>15. ASSUME NEW k \in Collector, Emit(k) PROVE StageInv'
  BY <1>15 DEF StageInv, Emit
<1>16. CASE UNCHANGED vars
  BY <1>16 DEF StageInv, vars
<1>17. QED
  BY <1>1, <1>2, <1>3, <1>4, <1>5, <1>6, <1>7, <1>7p, <1>8, <1>9, <1>10,
     <1>11, <1>12, <1>13, <1>14, <1>15, <1>16 DEF Next, Quiet

LEMMA Stages == Spec => []StageInv
  BY StagesInit, StagesStep, RecorderTypes, PTL DEF Spec

-----------------------------------------------------------------------------
(***************************************************************************)
(* Redaction: what is protected is configured while the body is in flight, *)
(* so whatever record_side hands on has masked it.                         *)
(***************************************************************************)
LEMMA RedactsInit == Init => RedactInv
<1> SUFFICES ASSUME Init PROVE RedactInv
  OBVIOUS
<1>1. \A m \in Message : /\ protected[m] = {} /\ pending[m] = NoPending
                         /\ body[m] = NoBody
  BY DEF Init
<1>2. warnings = {} /\ \A k \in Collector : snap[k] = <<>>
  BY DEF Init
<1>3. NoLeak
  BY <1>1, <1>2 DEF NoLeak, NoBody, NoPending, Snapped
<1>4. QED
  BY <1>1, <1>2, <1>3 DEF RedactInv, NoPending

\* NoLeak, with the entries of a snapshot numbered.
LEMMA NoLeakByIndex ==
  NoLeak <=>
    /\ \A m \in Message : /\ pending[m].body.plain \cap protected[m] = {}
                          /\ body[m].plain \cap protected[m] = {}
    /\ \A k \in Collector : \A i \in DOMAIN snap[k], s \in Side :
         snap[k][i].body[s].plain \cap protected[<<snap[k][i].id, s>>] = {}
  BY DEF NoLeak, Snapped

\* Recording a body under a configuration that covers what is protected.
LEMMA RecordHides ==
  ASSUME NEW m \in Message, NEW p \in Payload, config \subseteq Field,
         protected[m] \subseteq config
  PROVE  /\ Redact(m, p).plain \cap protected[m] = {}
         /\ \A w \in WarningsOf(m, Redact(m, p)) : w.msg = m /\ w.what \notin protected[m]
<1>1. Redact(m, p).plain \cap protected[m] = {}
  BY DEF Redact
<1>2. ASSUME NEW w \in WarningsOf(m, Redact(m, p))
      PROVE  w.msg = m /\ w.what \notin protected[m]
  <2>1. w.msg = m /\ (w.what \in Redact(m, p).plain \/ w.what = "truncated")
    BY <1>2 DEF WarningsOf
  <2>2. "truncated" \notin protected[m]
    BY RecorderAssumption
  <2>3. QED
    BY <1>1, <2>1, <2>2
<1>3. QED
  BY <1>1, <1>2

LEMMA RedactsStep == TypeOK /\ StageInv /\ RedactInv /\ [Next]_vars => RedactInv'
<1> SUFFICES ASSUME TypeOK, StageInv, RedactInv, [Next]_vars
             PROVE  RedactInv'
  OBVIOUS
<1> USE DEF Early
<1>a. \A w \in warnings : w.msg \in Message
  BY DEF TypeOK, Warning
<1>b. CASE UNCHANGED <<stage, pending, body, protected, config, warnings, snap>>
  BY <1>b DEF RedactInv, NoLeak, Snapped
<1>1. ASSUME NEW e \in Exchange, Arrive(e) PROVE RedactInv'
  <2>1. /\ \A m \in Message : protected'[m] = IF m[1] = e THEN config ELSE protected[m]
        /\ UNCHANGED <<stage, pending, body, config, warnings, snap>>
    BY <1>1 DEF Arrive
  <2>2. \A m \in Message : m[1] = e => stage[m] = "unsent"
    BY <1>1, MessageParts DEF StageInv, Arrive
  <2>3. \A m \in Message : m[1] = e => pending[m] = NoPending /\ body[m] = NoBody
    BY <2>2 DEF StageInv
  <2>4. \A k \in Collector : \A i \in DOMAIN snap[k], s \in Side :
          snap[k][i].body[s].plain \cap protected'[<<snap[k][i].id, s>>] = {}
    <3> SUFFICES ASSUME NEW k \in Collector, NEW i \in DOMAIN snap[k], NEW s \in Side
                 PROVE  snap[k][i].body[s].plain \cap protected'[<<snap[k][i].id, s>>] = {}
      OBVIOUS
    <3>1. <<snap[k][i].id, s>> \in Message /\ <<snap[k][i].id, s>>[1] = snap[k][i].id
      BY EntryType, MessageOf
    <3>2. CASE snap[k][i].id = e
      BY <2>2, <3>1, <3>2 DEF StageInv, NoBody
    <3>3. CASE snap[k][i].id # e
      BY <2>1, <3>1, <3>3, NoLeakByIndex DEF RedactInv
    <3>4. QED
      BY <3>2, <3>3
  <2>5. NoLeak'
    BY <2>1, <2>3, <2>4, NoLeakByIndex DEF NoLeak, Snapped, RedactInv, NoBody, NoPending
  <2>6. QED
    BY <2>1, <2>2, <2>3, <2>5, <1>a DEF RedactInv, NoPending
<1>2. ASSUME NEW m \in Message, stage[m] = "unsent", stage' = [stage EXCEPT ![m] = "open"],
             UNCHANGED <<pending, body, protected, config, warnings, snap>>
      PROVE  RedactInv'
  <2>1. \A n \in Message : stage'[n] = stage[n] \/ (n = m /\ stage'[n] = "open")
    BY <1>2 DEF TypeOK
  <2>2. NoLeak'
    BY <1>2 DEF NoLeak, Snapped, RedactInv
  <2>3. QED
    BY <1>2, <2>1, <2>2, <1>a DEF RedactInv
<1>3. ASSUME NEW m \in Message, NEW p \in Payload, Record(m, p) PROVE RedactInv'
  <2>1. /\ stage'[m] = "recording"
        /\ pending'[m] = [body |-> Redact(m, p), warn |-> WarningsOf(m, Redact(m, p))]
        /\ UNCHANGED <<body, protected, config, warnings, snap>>
    BY <1>3 DEF Record, TypeOK
  <2>2. \A n \in Message : n # m => stage'[n] = stage[n] /\ pending'[n] = pending[n]
    BY <1>3 DEF Record, TypeOK
  <2>3. /\ Redact(m, p).plain \cap protected[m] = {}
        /\ \A w \in WarningsOf(m, Redact(m, p)) : w.msg = m /\ w.what \notin protected[m]
    <3>1. config \subseteq Field /\ protected[m] \subseteq config
      BY <1>3 DEF Record, RedactInv, TypeOK
    <3>2. QED
      BY <3>1, RecordHides
  <2>4. NoLeak'
    BY <2>1, <2>2, <2>3 DEF NoLeak, Snapped, RedactInv
  <2>5. QED
    BY <2>1, <2>2, <2>3, <2>4, <1>a DEF RedactInv
<1>4. ASSUME NEW m \in Message, NEW w \in pending[m].warn, PushWarning(m, w)
      PROVE  RedactInv'
  <2>1. w.msg = m /\ w.what \notin protected[m] /\ stage[m] \notin Early
    BY <1>4 DEF RedactInv, StageInv, NoPending
  <2>2. /\ UNCHANGED <<stage, body, protected, config, snap>>
        /\ warnings' = warnings \cup {w}
    BY <1>4 DEF PushWarning
  <2>3. \A n \in Message : /\ pending'[n].warn \subseteq pending[n].warn
                           /\ pending'[n].body = pending[n].body
    BY <1>4 DEF PushWarning, TypeOK
  <2>4. NoLeak'
    BY <2>2, <2>3 DEF NoLeak, Snapped, RedactInv
  <2>5. QED
    BY <2>1, <2>2, <2>3, <2>4, <1>a DEF RedactInv
<1>5. ASSUME NEW m \in Message, StoreBody(m) PROVE RedactInv'
  <2>1. /\ stage[m] = "recording"
        /\ UNCHANGED <<pending, protected, config, warnings, snap>>
        /\ stage'[m] = "stored" /\ body'[m] = pending[m].body
    BY <1>5 DEF StoreBody, TypeOK
  <2>2. \A n \in Message : n # m => stage'[n] = stage[n] /\ body'[n] = body[n]
    BY <1>5 DEF StoreBody, TypeOK
  <2>3. NoLeak'
    BY <2>1, <2>2 DEF NoLeak, Snapped, RedactInv
  <2>4. QED
    BY <2>1, <2>2, <2>3, <1>a DEF RedactInv
<1>6. ASSUME NEW c \in Config, Configure(c) PROVE RedactInv'
  <2>1. /\ config' = c
        /\ UNCHANGED <<stage, pending, body, warnings, snap>>
        /\ \A m \in Message : protected'[m] = IF stage[m] \in Early THEN protected[m] \cap c
                                              ELSE protected[m]
    BY <1>6 DEF Configure
  <2>2. \A m \in Message : protected'[m] \subseteq protected[m]
    BY <2>1
  <2>3. \A k \in Collector : \A i \in DOMAIN snap[k], s \in Side :
          snap[k][i].body[s].plain \cap protected'[<<snap[k][i].id, s>>] = {}
    BY <2>2, EntryType, MessageOf, NoLeakByIndex DEF RedactInv
  <2>4. NoLeak'
    BY <2>1, <2>2, <2>3 DEF NoLeak, Snapped, RedactInv
  <2>5. \A m \in Message : stage'[m] \in Early => protected'[m] \subseteq config'
    BY <2>1
  <2>6. /\ \A m \in Message : \A w \in pending'[m].warn :
             w.msg = m /\ w.what \notin protected'[m]
        /\ \A w \in warnings' : stage'[w.msg] \notin Early /\ w.what \notin protected'[w.msg]
    BY <2>1, <2>2, <1>a DEF RedactInv
  <2>7. QED
    BY <2>4, <2>5, <2>6 DEF RedactInv
<1>7. ASSUME NEW k \in Collector, CloneOne(k) PROVE RedactInv'
  <2> DEFINE e == store[Len(snap[k]) + 1]
  <2>1. /\ UNCHANGED <<stage, pending, body, protected, config, warnings>>
        /\ snap' = [snap EXCEPT ![k] = Append(snap[k], Clone(e))]
    BY <1>7 DEF CloneOne
  <2>2. e \in Exchange /\ snap[k] \in Seq(Entry)
    BY <1>7 DEF TypeOK, CloneOne
  <2>3. \A s \in Side : Clone(e).body[s].plain \cap protected[<<Clone(e).id, s>>] = {}
    BY <2>2, MessageOf, NoLeakByIndex DEF Clone, RedactInv
  <2>4. \A l \in Collector : \A x \in Snapped(l)' : x \in Snapped(l) \/ x = Clone(e)
    <3> HIDE DEF e
    <3>1. \A l \in Collector : l # k => snap'[l] = snap[l]
      BY <2>1 DEF TypeOK
    <3>2. snap'[k] = Append(snap[k], Clone(e))
      BY <2>1 DEF TypeOK
    <3>3. \A i \in DOMAIN snap'[k] : \/ i \in DOMAIN snap[k] /\ snap'[k][i] = snap[k][i]
                                     \/ snap'[k][i] = Clone(e)
      BY <2>2, <3>2
    <3>4. QED
      BY <3>1, <3>3 DEF Snapped
  <2>5. NoLeak'
    <3> HIDE DEF e
    <3>1. QED
      BY <2>1, <2>3, <2>4 DEF NoLeak, RedactInv
  <2>6. QED
    BY <2>1, <2>5, <1>a DEF RedactInv
<1>8. ASSUME NEW e \in Exchange, Push(e) PROVE RedactInv'
  <2>1. <<e, "request">> \in Message /\ stage[<<e, "request">>] = "unsent"
    BY <1>8, MessageOf DEF StageInv, Push, Pushed, Side
  <2>2. QED
    BY <1>2, <1>8, <2>1 DEF Push, Pushed
<1>9. ASSUME NEW e \in Exchange, NEW st \in Status, HandlerReturns(e, st) PROVE RedactInv'
  <2>1. <<e, "response">> \in Message /\ stage[<<e, "response">>] = "unsent"
    BY <1>9, MessageOf DEF StageInv, HandlerReturns, Side
  <2>2. QED
    BY <1>2, <1>9, <2>1 DEF HandlerReturns
<1>10. ASSUME NEW e \in Exchange,
              \/ HandlerLost(e) \/ DeclareLock(e) \/ DeclareFails(e) \/ DeclarePanics(e)
              \/ \E t \in Type : DeclareOk(e, t)
       PROVE  RedactInv'
  BY <1>b, <1>10 DEF HandlerLost, DeclareLock, DeclareFails, DeclarePanics, DeclareOk
<1>11. ASSUME NEW k \in Collector, CollectStart(k) \/ CollectEnd(k) \/ Emit(k)
       PROVE  RedactInv'
  BY <1>b, <1>11 DEF CollectStart, CollectEnd, Emit
<1>12. CASE UNCHANGED vars
  BY <1>b, <1>12 DEF vars
<1>13. QED
  BY <1>1, <1>3, <1>4, <1>5, <1>6, <1>7, <1>8, <1>9, <1>10, <1>11, <1>12 DEF Next, Quiet

LEMMA Redacts == Spec => []RedactInv
  BY RedactsInit, RedactsStep, RecorderTypes, Stages, PTL DEF Spec

(***************************************************************************)
(* For any interleaving of requests, configure() calls and collectors: a   *)
(* field redacted while a message was in flight shows its value nowhere in *)
(* the process (src/redact.rs, src/layer.rs).                              *)
(***************************************************************************)
THEOREM RedactionHolds == Spec => []NoLeak
  BY Redacts, PTL DEF RedactInv

(***************************************************************************)
(* And it never raises a high-entropy warning (src/redact.rs, scan after   *)
(* redact_value).                                                          *)
(***************************************************************************)
THEOREM NoAlarmForRedacted == Spec => []NoFalseAlarm
<1>1. RedactInv => NoFalseAlarm
  BY DEF RedactInv, NoFalseAlarm
<1>2. QED
  BY <1>1, Redacts, PTL

-----------------------------------------------------------------------------
(***************************************************************************)
(* Warnings: each is pushed, or still held by record_side, before the body *)
(* it is about can be cloned, and documents read them after the clones.    *)
(***************************************************************************)
LEMMA WarnsInit == Init => WarnInv
<1> SUFFICES ASSUME Init PROVE WarnInv
  OBVIOUS
<1>1. \A m \in Message : WarningsOf(m, NoBody) = {}
  BY DEF WarningsOf, NoBody
<1>2. \A m \in Message : body[m] = NoBody /\ pending[m] = NoPending
  BY DEF Init
<1>3. \A k \in Collector : DOMAIN snap[k] = {}
  BY DEF Init
<1>4. QED
  BY <1>1, <1>2, <1>3 DEF WarnInv, NoPending

LEMMA WarnsStep == TypeOK /\ WarnInv /\ [Next]_vars => WarnInv'
<1> SUFFICES ASSUME TypeOK, WarnInv, [Next]_vars
             PROVE  WarnInv'
  OBVIOUS
<1>a. ASSUME UNCHANGED <<pending, body, warnings, snap, docWarnings>>,
             \A k \in Collector : col'[k] = "emitted" => col[k] = "emitted"
      PROVE  WarnInv'
  BY <1>a DEF WarnInv, WarningsOf
<1>1. ASSUME NEW m \in Message, NEW p \in Payload, Record(m, p) PROVE WarnInv'
  <2>1. /\ pending'[m] = [body |-> Redact(m, p), warn |-> WarningsOf(m, Redact(m, p))]
        /\ \A n \in Message : n # m => pending'[n] = pending[n]
        /\ UNCHANGED <<body, warnings, snap, docWarnings, col>>
    BY <1>1 DEF Record, TypeOK
  <2>2. \A n \in Message :
          WarningsOf(n, pending'[n].body) \subseteq warnings' \cup pending'[n].warn
    <3> SUFFICES ASSUME NEW n \in Message
                 PROVE  WarningsOf(n, pending'[n].body) \subseteq warnings' \cup pending'[n].warn
      OBVIOUS
    <3>1. CASE n = m
      BY <2>1, <3>1
    <3>2. CASE n # m
      BY <2>1, <3>2 DEF WarnInv
    <3>3. QED
      BY <3>1, <3>2
  <2>3. QED
    BY <2>1, <2>2 DEF WarnInv, WarningsOf
<1>2. ASSUME NEW m \in Message, NEW w \in pending[m].warn, PushWarning(m, w) PROVE WarnInv'
  <2>1. /\ warnings' = warnings \cup {w}
        /\ UNCHANGED <<body, snap, docWarnings, col>>
        /\ \A n \in Message : /\ pending'[n].body = pending[n].body
                              /\ pending[n].warn \subseteq pending'[n].warn \cup {w}
    BY <1>2 DEF PushWarning, TypeOK
  <2>2. \A n \in Message :
          /\ WarningsOf(n, pending'[n].body) \subseteq warnings' \cup pending'[n].warn
          /\ WarningsOf(n, body'[n]) \subseteq warnings'
    BY <2>1 DEF WarnInv
  <2>3. \A k \in Collector : \A i \in DOMAIN snap'[k], s \in Side :
          LET v == WarningsOf(<<snap'[k][i].id, s>>, snap'[k][i].body[s])
          IN  v \subseteq warnings' /\ (col'[k] = "emitted" => v \subseteq docWarnings'[k])
    BY <2>1 DEF WarnInv
  <2>4. QED
    BY <2>2, <2>3 DEF WarnInv, WarningsOf
<1>3. ASSUME NEW m \in Message, StoreBody(m) PROVE WarnInv'
  <2>1. /\ body'[m] = pending[m].body /\ pending[m].warn = {}
        /\ \A n \in Message : n # m => body'[n] = body[n]
        /\ UNCHANGED <<pending, warnings, snap, docWarnings, col>>
    BY <1>3 DEF StoreBody, Warned, TypeOK
  <2>2. WarningsOf(m, pending[m].body) \subseteq warnings
    BY <2>1 DEF WarnInv
  <2>3. \A n \in Message : WarningsOf(n, body'[n]) \subseteq warnings'
    <3> SUFFICES ASSUME NEW n \in Message PROVE WarningsOf(n, body'[n]) \subseteq warnings'
      OBVIOUS
    <3>1. CASE n = m
      BY <2>1, <2>2, <3>1
    <3>2. CASE n # m
      BY <2>1, <3>2 DEF WarnInv
    <3>3. QED
      BY <3>1, <3>2
  <2>4. QED
    BY <2>1, <2>3 DEF WarnInv, WarningsOf
<1>4. ASSUME NEW k \in Collector, CloneOne(k) PROVE WarnInv'
  <2> DEFINE e == store[Len(snap[k]) + 1]
             WarnedOf(x) == \A s \in Side : WarningsOf(<<x.id, s>>, x.body[s]) \subseteq warnings
  <2>1. /\ UNCHANGED <<pending, body, warnings, docWarnings, col>>
        /\ snap' = [snap EXCEPT ![k] = Append(snap[k], Clone(e))]
        /\ col[k] = "collecting"
    BY <1>4 DEF CloneOne
  <2>2. e \in Exchange /\ snap[k] \in Seq(Entry)
    BY <1>4 DEF TypeOK, CloneOne
  <2>3. WarnedOf(Clone(e))
    BY <2>2, MessageOf DEF Clone, WarnInv
  <2>4. \A l \in Collector : l # k => snap'[l] = snap[l]
    BY <2>1 DEF TypeOK
  <2>5. snap'[k] = Append(snap[k], Clone(e))
    BY <2>1 DEF TypeOK
  <2>6. \A i \in DOMAIN snap'[k] : WarnedOf(snap'[k][i])
    <3>1. \A i \in DOMAIN snap[k] : WarnedOf(snap[k][i])
      BY DEF WarnInv
    <3> HIDE DEF e, WarnedOf
    <3>2. \A i \in DOMAIN snap'[k] : \/ i \in DOMAIN snap[k] /\ snap'[k][i] = snap[k][i]
                                     \/ snap'[k][i] = Clone(e)
      BY <2>2, <2>5
    <3>3. QED
      BY <2>3, <3>1, <3>2
  <2>7. \A n \in Message :
          /\ WarningsOf(n, pending'[n].body) \subseteq warnings' \cup pending'[n].warn
          /\ WarningsOf(n, body'[n]) \subseteq warnings'
    BY <2>1 DEF WarnInv
  <2>8. \A l \in Collector : \A i \in DOMAIN snap'[l], s \in Side :
          LET v == WarningsOf(<<snap'[l][i].id, s>>, snap'[l][i].body[s])
          IN  v \subseteq warnings' /\ (col'[l] = "emitted" => v \subseteq docWarnings'[l])
    <3> HIDE DEF e
    <3> SUFFICES ASSUME NEW l \in Collector, NEW i \in DOMAIN snap'[l], NEW s \in Side
                 PROVE  LET v == WarningsOf(<<snap'[l][i].id, s>>, snap'[l][i].body[s])
                        IN  v \subseteq warnings' /\ (col'[l] = "emitted" => v \subseteq docWarnings'[l])
      OBVIOUS
    <3>1. CASE l = k
      BY <2>1, <2>6, <3>1
    <3>2. CASE l # k
      BY <2>1, <2>4, <3>2 DEF WarnInv
    <3>3. QED
      BY <3>1, <3>2
  <2>9. QED
    BY <2>7, <2>8 DEF WarnInv, WarningsOf
<1>5. ASSUME NEW k \in Collector, Emit(k) PROVE WarnInv'
  <2>1. /\ UNCHANGED <<pending, body, warnings, snap>>
        /\ docWarnings'[k] = warnings
        /\ \A l \in Collector : l # k => col'[l] = col[l] /\ docWarnings'[l] = docWarnings[l]
    BY <1>5 DEF Emit, TypeOK
  <2>2. QED
    BY <2>1 DEF WarnInv, WarningsOf
<1>6. ASSUME NEW e \in Exchange,
             \/ Arrive(e) \/ Push(e) \/ HandlerLost(e)
             \/ DeclareLock(e) \/ DeclareFails(e) \/ DeclarePanics(e)
             \/ \E st \in Status : HandlerReturns(e, st)
             \/ \E t \in Type : DeclareOk(e, t)
      PROVE  WarnInv'
  BY <1>a, <1>6 DEF Arrive, Push, Pushed, HandlerLost, DeclareLock, DeclareFails, DeclarePanics,
                      HandlerReturns, DeclareOk
<1>7. ASSUME NEW k \in Collector, CollectStart(k) \/ CollectEnd(k) PROVE WarnInv'
  <2>1. \A l \in Collector : col'[l] = "emitted" => col[l] = "emitted"
    BY <1>7 DEF CollectStart, CollectEnd, TypeOK
  <2>2. QED
    BY <1>a, <1>7, <2>1 DEF CollectStart, CollectEnd
<1>8. ASSUME NEW c \in Config, Configure(c) PROVE WarnInv'
  BY <1>a, <1>8 DEF Configure
<1>9. CASE UNCHANGED vars
  BY <1>a, <1>9 DEF vars
<1>10. QED
  BY <1>1, <1>2, <1>3, <1>4, <1>5, <1>6, <1>7, <1>8, <1>9 DEF Next, Quiet

LEMMA Warns == Spec => []WarnInv
  BY WarnsInit, WarnsStep, RecorderTypes, PTL DEF Spec

(***************************************************************************)
(* For any number of requests and collectors: whatever a document is       *)
(* inferred from, its warnings are in that document, although exchanges    *)
(* and warnings are two mutexes read at two moments (src/layer.rs,         *)
(* record_side; src/lib.rs, write_openapi).                                *)
(***************************************************************************)
THEOREM WarningsPrecedeBodies == Spec => []WarnedBeforeVisible
<1>1. WarnInv => WarnedBeforeVisible
  <2> SUFFICES ASSUME WarnInv, NEW k \in Collector, col[k] = "emitted",
                      NEW x \in Documented(k), NEW s \in Side
               PROVE  WarningsOf(<<x.id, s>>, x.body[s]) \subseteq docWarnings[k]
    BY DEF WarnedBeforeVisible
  <2>1. PICK i \in DOMAIN snap[k] : x = snap[k][i]
    BY DEF Documented
  <2>2. QED
    BY <2>1 DEF WarnInv
<1>2. QED
  BY <1>1, Warns, PTL

(***************************************************************************)
(* The three parts of the recorder's invariant, for every instance.        *)
(***************************************************************************)
THEOREM RecorderInvariant == Spec => []RecorderInv
  BY Stages, Redacts, Warns, PTL DEF RecorderInv
=============================================================================
