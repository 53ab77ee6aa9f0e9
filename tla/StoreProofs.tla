----------------------------- MODULE StoreProofs ------------------------------
(***************************************************************************)
(* Proofs about Recorder's store for any number of requests, collectors    *)
(* and declarations: recording only adds, collected() misses nothing, any  *)
(* two of its results are ordered, and Recorder implements WriteOnce:      *)
(* src/store.rs is a write-once record with ordered reads.                 *)
(***************************************************************************)
EXTENDS RecorderProofs

USE DEF callVars, messageVars, redactVars, colVars

LEMMA NotNewerReflexive == \A x : NotNewer(x, x)
  BY DEF NotNewer

LEMMA NotNewerTransitive ==
  ASSUME NEW x, NEW y, NEW z, NotNewer(x, y), NotNewer(y, z)
  PROVE  NotNewer(x, z)
  BY DEF NotNewer

\* A clone taken now, field by field.
LEMMA CloneParts ==
  ASSUME NEW e
  PROVE  /\ Clone(e).id = e /\ Clone(e).status = status[e]
         /\ Clone(e).declared = declared[e]
         /\ \A s \in Side : Clone(e).body[s] = body[<<e, s>>]
  BY DEF Clone

LEMMA StorePositions ==
  ASSUME TypeOK
  PROVE  /\ Len(store) \in Nat /\ DOMAIN store = 1..Len(store)
         /\ \A i \in DOMAIN store : store[i] \in Exchange
         /\ \A k \in Collector : /\ Len(snap[k]) \in Nat
                                 /\ DOMAIN snap[k] = 1..Len(snap[k])
<1>1. store \in Seq(Exchange) /\ \A k \in Collector : snap[k] \in Seq(Entry)
  BY DEF TypeOK
<1>2. QED
  BY <1>1

-----------------------------------------------------------------------------
(* Recording only adds.                                                    *)

\* What StoreInv says of an exchange, and that nobody is ever on record early.
LEMMA AnsweredParts ==
  ASSUME StoreInv, NEW e \in Exchange, call[e] # "returned"
  PROVE  status[e] = None /\ ~declaring[e] /\ declared[e] = None
  BY DEF StoreInv

\* One step, one exchange: what is there stays.
Kept ==
  /\ \A e \in Exchange : /\ status[e] # None => status'[e] = status[e]
                         /\ declared[e] # None => declared'[e] # None
  /\ \A m \in Message : /\ stage[m] = "stored" => stage'[m] = "stored" /\ body'[m] = body[m]
                        /\ body[m] \in {NoBody, body'[m]}

LEMMA StepKeeps ==
  ASSUME TypeOK, StageInv, StoreInv, [Next]_vars
  PROVE  Kept
<1>1. ASSUME UNCHANGED <<status, declared, body>>,
             \A m \in Message : stage[m] = "stored" => stage'[m] = "stored"
      PROVE  Kept
  BY <1>1 DEF Kept
<1>2. ASSUME NEW e \in Exchange,
             \/ Arrive(e) \/ HandlerLost(e) \/ DeclareLock(e) \/ DeclareFails(e)
             \/ DeclarePanics(e)
      PROVE  Kept
  BY <1>1, <1>2 DEF Arrive, HandlerLost, DeclareLock, DeclareFails, DeclarePanics
<1>3. ASSUME NEW e \in Exchange, Push(e) PROVE Kept
  <2>1. stage[<<e, "request">>] = "unsent"
    BY <1>3 DEF StageInv, Push, Side
  <2>2. \A m \in Message : stage[m] = "stored" => stage'[m] = "stored"
    BY <1>3, <2>1 DEF Push, TypeOK
  <2>3. QED
    BY <1>1, <1>3, <2>2 DEF Push
<1>4. ASSUME NEW e \in Exchange, NEW st \in Status, HandlerReturns(e, st) PROVE Kept
  <2>1. stage[<<e, "response">>] = "unsent" /\ status[e] = None
    BY <1>4, AnsweredParts DEF StageInv, HandlerReturns
  <2>2. \A m \in Message : stage[m] = "stored" => stage'[m] = "stored"
    BY <1>4, <2>1 DEF HandlerReturns, TypeOK
  <2>3. \A f \in Exchange : status[f] # None => status'[f] = status[f]
    BY <1>4, <2>1 DEF HandlerReturns, TypeOK
  <2>4. QED
    BY <1>4, <2>2, <2>3 DEF Kept, HandlerReturns
<1>5. ASSUME NEW e \in Exchange, NEW t \in Type, DeclareOk(e, t) PROVE Kept
  <2>1. \A f \in Exchange : declared[f] # None => declared'[f] # None
    BY <1>5, RecorderAssumption DEF DeclareOk, TypeOK
  <2>2. QED
    BY <1>5, <2>1 DEF Kept, DeclareOk
<1>6. ASSUME NEW m \in Message, NEW p \in Payload, Record(m, p) PROVE Kept
  <2>1. \A n \in Message : stage[n] = "stored" => stage'[n] = "stored"
    BY <1>6 DEF Record, TypeOK
  <2>2. QED
    BY <1>1, <1>6, <2>1 DEF Record
<1>7. ASSUME NEW m \in Message, StoreBody(m) PROVE Kept
  <2>1. stage[m] = "recording" /\ body[m] = NoBody
    BY <1>7 DEF StoreBody, StageInv
  <2>2. \A n \in Message : n # m => stage'[n] = stage[n] /\ body'[n] = body[n]
    BY <1>7 DEF StoreBody, TypeOK
  <2>3. QED
    BY <1>7, <2>1, <2>2 DEF Kept, StoreBody
<1>8. ASSUME UNCHANGED <<status, declared, body, stage>> PROVE Kept
  BY <1>1, <1>8
<1>9. ASSUME NEW m \in Message, NEW w \in pending[m].warn, PushWarning(m, w) PROVE Kept
  BY <1>8, <1>9 DEF PushWarning
<1>10. ASSUME NEW c \in Config, Configure(c) PROVE Kept
  BY <1>8, <1>10 DEF Configure
<1>11. ASSUME NEW k \in Collector,
              CollectStart(k) \/ CloneOne(k) \/ CollectEnd(k) \/ Emit(k)
       PROVE  Kept
  BY <1>8, <1>11 DEF CollectStart, CloneOne, CollectEnd, Emit
<1>12. CASE UNCHANGED vars
  BY <1>8, <1>12 DEF vars
<1>13. QED
  BY <1>2, <1>3, <1>4, <1>5, <1>6, <1>7, <1>9, <1>10, <1>11, <1>12 DEF Next, Quiet

\* The store's beginning is never touched: only push changes the Vec.
LEMMA StoreGrows ==
  ASSUME TypeOK, [Next]_vars
  PROVE  /\ \/ store' = store
            \/ \E e \in Exchange : Push(e) /\ store' = Append(store, e)
         /\ Len(store) \in Nat /\ Len(store') \in Nat /\ Len(store) <= Len(store')
         /\ DOMAIN store \subseteq DOMAIN store'
         /\ \A i \in DOMAIN store : store'[i] = store[i]
         /\ store = SubSeq(store', 1, Len(store))
<1>1. \/ store' = store
      \/ \E e \in Exchange : Push(e) /\ store' = Append(store, e)
  BY DEF Next, vars, Arrive, Push, Pushed, HandlerLost, HandlerReturns, DeclareLock, DeclareOk,
         DeclareFails, DeclarePanics, Record, PushWarning, StoreBody, Configure,
         CollectStart, CloneOne, CollectEnd, Emit, Quiet
<1>2. store \in Seq(Exchange) /\ Len(store) \in Nat /\ DOMAIN store = 1..Len(store)
  BY StorePositions DEF TypeOK
<1>3. CASE store' = store
  <2>1. store = SubSeq(store, 1, Len(store))
    BY <1>2
  <2>2. QED
    BY <1>1, <1>2, <1>3, <2>1
<1>4. ASSUME NEW e \in Exchange, store' = Append(store, e)
      PROVE  /\ Len(store') \in Nat /\ Len(store) <= Len(store')
             /\ DOMAIN store \subseteq DOMAIN store'
             /\ \A i \in DOMAIN store : store'[i] = store[i]
             /\ store = SubSeq(store', 1, Len(store))
  <2>1. /\ store' \in Seq(Exchange) /\ Len(store') = Len(store) + 1
        /\ \A i \in 1..Len(store) : store'[i] = store[i]
    BY <1>2, <1>4, AppendProperties
  <2>2. DOMAIN store' = 1..(Len(store) + 1)
    BY <2>1
  <2>3. store = SubSeq(store', 1, Len(store))
    BY <1>2, <1>4
  <2>4. QED
    BY <1>2, <2>1, <2>2, <2>3
<1>5. QED
  BY <1>1, <1>2, <1>3, <1>4

\* An exchange is no newer than itself a step later.
LEMMA CloneKept ==
  ASSUME Kept, NEW e \in Exchange
  PROVE  NotNewer(Clone(e), Clone(e)')
<1>1. \A s \in Side : body[<<e, s>>] \in {NoBody, body'[<<e, s>>]}
  BY MessageOf DEF Kept
<1>2. /\ status[e] \in {None, status'[e]}
      /\ declared[e] # None => declared'[e] # None
  BY DEF Kept
<1>3. /\ Clone(e)'.id = e /\ Clone(e)'.status = status'[e]
      /\ Clone(e)'.declared = declared'[e]
      /\ \A s \in Side : Clone(e)'.body[s] = body'[<<e, s>>]
  BY DEF Clone
<1>4. QED
  BY <1>1, <1>2, <1>3, CloneParts DEF NotNewer

(***************************************************************************)
(* StoreInv is inductive, with the message stages of StageInv.             *)
(***************************************************************************)
LEMMA StoreInit == Init => StoreInv
<1> SUFFICES ASSUME Init PROVE StoreInv
  OBVIOUS
<1>1. DOMAIN store = {} /\ \A e \in Exchange : call[e] = "idle" /\ status[e] = None
                                               /\ ~declaring[e] /\ declared[e] = None
  BY DEF Init
<1>2. QED
  BY <1>1 DEF StoreInv

LEMMA StoreStep ==
  ASSUME TypeOK, StoreInv, [Next]_vars
  PROVE  StoreInv'
<1>1. ASSUME store' = store,
             \A e \in Exchange :
               /\ call[e] \in {"idle", "arriving"} <=> call'[e] \in {"idle", "arriving"}
               /\ status'[e] # None \/ declaring'[e] \/ declared'[e] # None
                    => call'[e] = "returned"
      PROVE  StoreInv'
  BY <1>1 DEF StoreInv
<1>2. ASSUME UNCHANGED <<store, call, status, declared, declaring>> PROVE StoreInv'
  BY <1>2 DEF StoreInv
<1>3. ASSUME NEW e \in Exchange, Arrive(e) PROVE StoreInv'
  <2>1. status[e] = None /\ ~declaring[e] /\ declared[e] = None
    BY <1>3, AnsweredParts DEF Arrive
  <2>2. \A f \in Exchange : f # e => call'[f] = call[f]
    BY <1>3 DEF Arrive, TypeOK
  <2>3. call[e] = "idle" /\ call'[e] = "arriving"
    BY <1>3 DEF Arrive, TypeOK
  <2>4. UNCHANGED <<store, status, declared, declaring>>
    BY <1>3 DEF Arrive
  <2>5. ASSUME NEW f \in Exchange
        PROVE  /\ call[f] \in {"idle", "arriving"} <=> call'[f] \in {"idle", "arriving"}
               /\ status'[f] # None \/ declaring'[f] \/ declared'[f] # None
                    => call'[f] = "returned"
    BY <2>1, <2>2, <2>3, <2>4 DEF StoreInv
  <2>6. QED
    BY <1>1, <2>4, <2>5
<1>4. ASSUME NEW e \in Exchange, Push(e) PROVE StoreInv'
  <2>1. status[e] = None /\ ~declaring[e] /\ declared[e] = None
    BY <1>4, AnsweredParts DEF Push
  <2>2. /\ call[e] = "arriving" /\ call'[e] = "running"
        /\ \A f \in Exchange : f # e => call'[f] = call[f]
    BY <1>4 DEF Push, TypeOK
  <2>3. UNCHANGED <<status, declared, declaring>>
    BY <1>4 DEF Push
  <2>4. /\ store \in Seq(Exchange) /\ Len(store) \in Nat /\ DOMAIN store = 1..Len(store)
        /\ store' = Append(store, e)
    BY <1>4, StorePositions DEF Push, Pushed, TypeOK
  <2>5. /\ store' \in Seq(Exchange) /\ Len(store') = Len(store) + 1
        /\ \A i \in 1..Len(store) : store'[i] = store[i]
        /\ store'[Len(store) + 1] = e
    BY <2>4, AppendProperties
  <2>6. DOMAIN store' = DOMAIN store \cup {Len(store) + 1}
    BY <2>4, <2>5
  <2>7. \A i \in DOMAIN store : store[i] # e
    BY <2>2 DEF StoreInv
  <2>8. \A f \in Exchange :
          (\E i \in DOMAIN store' : store'[i] = f)
            <=> (\E i \in DOMAIN store : store[i] = f) \/ f = e
    BY <2>4, <2>5, <2>6
  <2>9. \A f \in Exchange :
          /\ (\E i \in DOMAIN store' : store'[i] = f) <=> call'[f] \notin {"idle", "arriving"}
          /\ status'[f] # None \/ declaring'[f] \/ declared'[f] # None => call'[f] = "returned"
    BY <2>1, <2>2, <2>3, <2>8 DEF StoreInv
  <2>10. \A i, j \in DOMAIN store' : store'[i] = store'[j] => i = j
    BY <2>4, <2>5, <2>6, <2>7 DEF StoreInv
  <2>11. QED
    BY <2>9, <2>10 DEF StoreInv
<1>5. ASSUME NEW e \in Exchange, HandlerLost(e) \/ \E st \in Status : HandlerReturns(e, st)
      PROVE  StoreInv'
  <2>1. status[e] = None /\ ~declaring[e] /\ declared[e] = None
    BY <1>5, AnsweredParts DEF HandlerLost, HandlerReturns
  <2>2. /\ call[e] = "running" /\ call'[e] \in {"lost", "returned"}
        /\ \A f \in Exchange : f # e => call'[f] = call[f] /\ status'[f] = status[f]
    BY <1>5 DEF HandlerLost, HandlerReturns, TypeOK
  <2>3. UNCHANGED <<store, declared, declaring>>
    BY <1>5 DEF HandlerLost, HandlerReturns
  <2>4. status'[e] # None => call'[e] = "returned"
    BY <1>5, <2>1 DEF HandlerLost, HandlerReturns, TypeOK
  <2>5. ASSUME NEW f \in Exchange
        PROVE  /\ call[f] \in {"idle", "arriving"} <=> call'[f] \in {"idle", "arriving"}
               /\ status'[f] # None \/ declaring'[f] \/ declared'[f] # None
                    => call'[f] = "returned"
    BY <2>1, <2>2, <2>3, <2>4 DEF StoreInv
  <2>6. QED
    BY <1>1, <2>3, <2>5
<1>6. ASSUME NEW e \in Exchange,
             \/ DeclareLock(e) \/ DeclareFails(e) \/ DeclarePanics(e)
             \/ \E t \in Type : DeclareOk(e, t)
      PROVE  StoreInv'
  <2>1. UNCHANGED <<store, call, status>>
    BY <1>6 DEF DeclareLock, DeclareFails, DeclarePanics, DeclareOk
  <2>2. call[e] = "returned"
    BY <1>6 DEF DeclareLock, DeclareFails, DeclarePanics, DeclareOk, StoreInv
  <2>3. \A f \in Exchange : f # e => /\ (declaring'[f] <=> declaring[f])
                                     /\ declared'[f] = declared[f]
    BY <1>6 DEF DeclareLock, DeclareFails, DeclarePanics, DeclareOk, Unlock, TypeOK
  <2>4. ASSUME NEW f \in Exchange
        PROVE  /\ call[f] \in {"idle", "arriving"} <=> call'[f] \in {"idle", "arriving"}
               /\ status'[f] # None \/ declaring'[f] \/ declared'[f] # None
                    => call'[f] = "returned"
    BY <2>1, <2>2, <2>3 DEF StoreInv
  <2>5. QED
    BY <1>1, <2>1, <2>4
<1>7. ASSUME NEW m \in Message,
             \/ StoreBody(m) \/ \E p \in Payload : Record(m, p)
             \/ \E w \in pending[m].warn : PushWarning(m, w)
      PROVE  StoreInv'
  BY <1>2, <1>7 DEF StoreBody, Record, PushWarning
<1>8. ASSUME NEW k \in Collector, CollectStart(k) \/ CloneOne(k) \/ CollectEnd(k) \/ Emit(k)
      PROVE  StoreInv'
  BY <1>2, <1>8 DEF CollectStart, CloneOne, CollectEnd, Emit
<1>9. ASSUME NEW c \in Config, Configure(c) PROVE StoreInv'
  BY <1>2, <1>9 DEF Configure
<1>10. CASE UNCHANGED vars
  BY <1>2, <1>10 DEF vars
<1>11. QED
  BY <1>3, <1>4, <1>5, <1>6, <1>7, <1>8, <1>9, <1>10 DEF Next, Quiet

LEMMA Stores == Spec => []StoreInv
  BY StoreInit, StoreStep, RecorderTypes, PTL DEF Spec

(***************************************************************************)
(* Nothing stored is ever overwritten, withdrawn or reordered, however     *)
(* many requests, declarations and collectors interleave (src/store.rs     *)
(* push, src/layer.rs record_side, src/declare.rs).                        *)
(***************************************************************************)
THEOREM OnlyAdds == Spec => RecordingOnlyAdds
<1>1. TypeOK /\ StageInv /\ StoreInv /\ [Next]_vars =>
        [/\ \A e \in Exchange : NotNewer(Clone(e), Clone(e)')
         /\ Len(store) <= Len(store') /\ store = SubSeq(store', 1, Len(store))]_vars
  BY StepKeeps, StoreGrows, CloneKept
<1>2. QED
  BY <1>1, RecorderTypes, Stages, Stores, PTL DEF Spec, RecordingOnlyAdds

-----------------------------------------------------------------------------
(* Snapshots.  What CloneInv and BeforeInv say of one collector.           *)

ClonesOf(k) ==
  /\ col[k] = "idle" => snap[k] = <<>>
  /\ Len(snap[k]) <= Len(store)
  /\ \A i \in DOMAIN snap[k] : /\ snap[k][i].id = store[i]
                               /\ NotNewer(snap[k][i], Clone(store[i]))

BeforeOf(k) ==
  /\ \A m \in before[k].stored :
       /\ stage[m] = "stored"
       /\ \A i \in DOMAIN snap[k] : snap[k][i].id = m[1] => snap[k][i].body[m[2]] = body[m]
  /\ \A e \in before[k].answered :
       /\ status[e] # None
       /\ \A i \in DOMAIN snap[k] : snap[k][i].id = e => snap[k][i].status = status[e]
  /\ \A e \in before[k].declared :
       /\ declared[e] # None
       /\ \A i \in DOMAIN snap[k] : snap[k][i].id = e => snap[k][i].declared # None

LEMMA OfCollector ==
  /\ CloneInv <=> \A k \in Collector : ClonesOf(k)
  /\ BeforeInv <=> \A k \in Collector : BeforeOf(k)
  BY DEF CloneInv, BeforeInv, ClonesOf, BeforeOf

LEMMA BeforeTypes ==
  ASSUME TypeOK, NEW k \in Collector
  PROVE  /\ before[k].stored \subseteq Message
         /\ before[k].answered \subseteq Exchange /\ before[k].declared \subseteq Exchange
<1>1. before[k] \in [stored : SUBSET Message, answered : SUBSET Exchange,
                     declared : SUBSET Exchange]
  BY DEF TypeOK
<1>2. QED
  BY <1>1

\* The clones a collector has stay good when it makes none.
LEMMA ClonesStay ==
  ASSUME TypeOK, StageInv, StoreInv, [Next]_vars, NEW k \in Collector, ClonesOf(k),
         snap'[k] = snap[k], col'[k] = "idle" => col[k] = "idle"
  PROVE  ClonesOf(k)'
<1>1. /\ Len(snap[k]) \in Nat /\ DOMAIN snap[k] = 1..Len(snap[k])
      /\ Len(store) \in Nat /\ DOMAIN store = 1..Len(store)
      /\ \A i \in DOMAIN store : store[i] \in Exchange
  BY StorePositions
<1>2. /\ Len(store) <= Len(store') /\ Len(store') \in Nat
      /\ \A i \in DOMAIN store : store'[i] = store[i]
  BY StoreGrows
<1>3. Len(snap[k]) <= Len(store)
  BY DEF ClonesOf
<1>4. Len(snap'[k]) <= Len(store')
  BY <1>1, <1>2, <1>3
<1>5. ASSUME NEW i \in DOMAIN snap[k]
      PROVE  snap[k][i].id = store'[i] /\ NotNewer(snap[k][i], Clone(store[i])')
  <2>1. i \in DOMAIN store
    BY <1>1, <1>3
  <2>2. store'[i] = store[i] /\ store[i] \in Exchange
    BY <1>1, <1>2, <2>1
  <2>3. snap[k][i].id = store[i] /\ NotNewer(snap[k][i], Clone(store[i]))
    BY DEF ClonesOf
  <2>4. Kept
    BY StepKeeps
  <2>5. NotNewer(Clone(store[i]), Clone(store[i])')
    <3>1. PICK e \in Exchange : e = store[i]
      BY <2>2
    <3>2. NotNewer(Clone(e), Clone(e)')
      BY <2>4, CloneKept
    <3>3. Clone(store[i])' = Clone(e)'
      BY <2>2, <3>1 DEF Clone
    <3>4. QED
      BY <3>1, <3>2, <3>3
  <2>6. QED
    BY <2>2, <2>3, <2>5, NotNewerTransitive
<1>6. QED
  BY <1>4, <1>5 DEF ClonesOf

\* And so does what they show of what was there before.
LEMMA BeforeStays ==
  ASSUME Kept, TypeOK, NEW k \in Collector, BeforeOf(k),
         snap'[k] = snap[k], before'[k] = before[k]
  PROVE  BeforeOf(k)'
<1>1. \A m \in before[k].stored : stage[m] = "stored" /\ stage'[m] = "stored" /\ body'[m] = body[m]
  BY BeforeTypes DEF Kept, BeforeOf
<1>2. \A e \in before[k].answered : status[e] # None /\ status'[e] = status[e]
  BY BeforeTypes DEF Kept, BeforeOf
<1>3. \A e \in before[k].declared : declared[e] # None /\ declared'[e] # None
  BY BeforeTypes DEF Kept, BeforeOf
<1>4. QED
  BY <1>1, <1>2, <1>3 DEF BeforeOf

\* The four parts, together with what they rest on.
Snapshots == CloneInv /\ BeforeInv /\ DoneInv /\ SnapshotsFormChain

LEMMA SnapshotsInit == Init => Snapshots
<1> SUFFICES ASSUME Init PROVE Snapshots
  OBVIOUS
<1>1. \A k \in Collector : /\ col[k] = "idle" /\ snap[k] = <<>>
                           /\ before[k] = [stored |-> {}, answered |-> {}, declared |-> {}]
  BY DEF Init
<1>2. store = <<>>
  BY DEF Init
<1>3. \A k \in Collector : DOMAIN snap[k] = {} /\ Len(snap[k]) <= Len(store)
  BY <1>1, <1>2
<1>4. CloneInv
  BY <1>1, <1>3 DEF CloneInv
<1>5. BeforeInv
  BY <1>1 DEF BeforeInv
<1>6. DoneInv /\ SnapshotsFormChain
  BY <1>1 DEF DoneInv, Done, SnapshotsFormChain
<1>7. QED
  BY <1>4, <1>5, <1>6 DEF Snapshots

\* A step that neither clones nor begins nor ends a snapshot.
LEMMA FrozenStep ==
  ASSUME TypeOK, StageInv, StoreInv, Snapshots, [Next]_vars, UNCHANGED <<snap, before>>,
         \A k \in Collector : /\ col'[k] = "idle" <=> col[k] = "idle"
                              /\ col'[k] = "collecting" <=> col[k] = "collecting"
                              /\ Done(k)' <=> Done(k)
  PROVE  Snapshots'
<1>1. CloneInv'
  <2>1. ASSUME NEW k \in Collector PROVE ClonesOf(k)'
    BY ClonesStay, OfCollector DEF Snapshots
  <2>2. QED
    BY <2>1 DEF CloneInv, ClonesOf
<1>2. BeforeInv'
  <2>1. ASSUME NEW k \in Collector PROVE BeforeOf(k)'
    BY StepKeeps, BeforeStays, OfCollector DEF Snapshots
  <2>2. QED
    BY <2>1 DEF BeforeInv, BeforeOf
<1>3. \A k \in Collector : Found(k)' = Found(k)
  BY DEF Found
<1>4. DoneInv'
  BY <1>3 DEF Snapshots, DoneInv
<1>5. SnapshotsFormChain'
  BY DEF Snapshots, SnapshotsFormChain, SnapshotNotNewer, Done
<1>6. QED
  BY <1>1, <1>2, <1>4, <1>5 DEF Snapshots

LEMMA StartStep ==
  ASSUME TypeOK, StageInv, StoreInv, Snapshots, [Next]_vars,
         NEW k \in Collector, CollectStart(k)
  PROVE  Snapshots'
<1>1. /\ snap' = snap /\ stage' = stage /\ status' = status /\ declared' = declared
      /\ col[k] = "idle" /\ col'[k] = "collecting" /\ before'[k] = OnRecord
      /\ \A l \in Collector : l # k => col'[l] = col[l] /\ before'[l] = before[l]
  BY DEF CollectStart, TypeOK
<1>2. DOMAIN snap[k] = {}
  BY <1>1 DEF Snapshots, CloneInv
<1>3. CloneInv'
  <2>1. ASSUME NEW l \in Collector PROVE ClonesOf(l)'
    BY <1>1, ClonesStay, OfCollector DEF Snapshots
  <2>2. QED
    BY <2>1 DEF CloneInv, ClonesOf
<1>4. BeforeInv'
  <2>1. ASSUME NEW l \in Collector, l # k PROVE BeforeOf(l)'
    BY <1>1, <2>1, StepKeeps, BeforeStays, OfCollector DEF Snapshots
  <2>2. BeforeOf(k)'
    BY <1>1, <1>2 DEF BeforeOf, OnRecord
  <2>3. QED
    BY <2>1, <2>2 DEF BeforeInv, BeforeOf
<1>5. \A l \in Collector : Done(l)' => l # k /\ Done(l)
  BY <1>1 DEF Done
<1>6. DoneInv'
  <2>1. \A l \in Collector : Done(l)' =>
          \A e \in Found(l)' : \E i \in DOMAIN snap'[l] : snap'[l][i].id = e
    BY <1>1, <1>5 DEF Snapshots, DoneInv, Found
  <2>2. ASSUME NEW j \in Collector, NEW l \in Collector, Done(j)', col'[l] = "collecting",
               NEW i \in DOMAIN snap'[j] \cap DOMAIN snap'[l]
        PROVE  NotNewer(snap'[j][i], snap'[l][i])
    BY <1>1, <1>2, <1>5, <2>2 DEF Snapshots, DoneInv
  <2>3. QED
    BY <2>1, <2>2 DEF DoneInv
<1>7. SnapshotsFormChain'
  BY <1>1, <1>5 DEF Snapshots, SnapshotsFormChain, SnapshotNotNewer, Done
<1>8. QED
  BY <1>3, <1>4, <1>6, <1>7 DEF Snapshots

LEMMA CloneStep ==
  ASSUME TypeOK, Snapshots, NEW k \in Collector, CloneOne(k)
  PROVE  Snapshots'
<1>0. PICK n \in Nat : n = Len(snap[k]) + 1
  BY StorePositions
<1>1. /\ UNCHANGED <<store, status, declared, body, stage, col, before>>
      /\ col[k] = "collecting" /\ Len(snap[k]) < Len(store)
      /\ \A l \in Collector : l # k => snap'[l] = snap[l]
      /\ snap'[k] = Append(snap[k], Clone(store[n]))
  BY <1>0 DEF CloneOne, TypeOK
<1>2. /\ n \in DOMAIN store /\ store[n] \in Exchange /\ Clone(store[n]) \in Entry
      /\ n \in Nat /\ Len(store) \in Nat
  BY <1>0, <1>1, StorePositions, CloneType
<1>3. /\ DOMAIN snap'[k] = DOMAIN snap[k] \cup {n} /\ Len(snap'[k]) = n
      /\ snap'[k][n] = Clone(store[n])
      /\ \A i \in DOMAIN snap[k] : snap'[k][i] = snap[k][i]
  <2>1. snap[k] \in Seq(Entry) /\ Len(snap[k]) \in Nat /\ DOMAIN snap[k] = 1..Len(snap[k])
    BY StorePositions DEF TypeOK
  <2>2. /\ snap'[k] \in Seq(Entry) /\ Len(snap'[k]) = n
        /\ \A i \in 1..Len(snap[k]) : snap'[k][i] = snap[k][i]
        /\ snap'[k][n] = Clone(store[n])
    BY <1>0, <1>1, <1>2, <2>1, AppendProperties
  <2>3. DOMAIN snap'[k] = 1..n
    BY <2>2
  <2>4. QED
    BY <1>0, <2>1, <2>2, <2>3
<1>4. \A i : Clone(store[i])' = Clone(store[i])
  BY <1>1 DEF Clone
<1>5. ASSUME NEW l \in Collector
      PROVE  ClonesOf(l) /\ BeforeOf(l)
  BY OfCollector DEF Snapshots
<1>6. ASSUME NEW l \in Collector, l # k PROVE ClonesOf(l)' /\ BeforeOf(l)'
  BY <1>1, <1>4, <1>5, <1>6 DEF ClonesOf, BeforeOf
<1>7. ClonesOf(k)'
  <2>1. Len(snap'[k]) <= Len(store')
    BY <1>0, <1>1, <1>2, <1>3, StorePositions
  <2>2. \A i \in DOMAIN snap[k] : /\ snap'[k][i].id = store'[i]
                                  /\ NotNewer(snap'[k][i], Clone(store[i])')
    BY <1>1, <1>3, <1>4, <1>5 DEF ClonesOf
  <2>3. snap'[k][n].id = store'[n] /\ NotNewer(snap'[k][n], Clone(store[n])')
    BY <1>1, <1>3, <1>4, CloneParts, NotNewerReflexive
  <2>4. QED
    BY <1>1, <1>3, <2>1, <2>2, <2>3 DEF ClonesOf
<1>8. BeforeOf(k)'
  <2>1. ASSUME NEW m \in before[k].stored, NEW i \in DOMAIN snap'[k], snap'[k][i].id = m[1]
        PROVE  snap'[k][i].body[m[2]] = body[m]
    <3>1. m \in Message
      BY BeforeTypes
    <3>2. CASE i \in DOMAIN snap[k]
      BY <1>3, <1>5, <2>1, <3>2 DEF BeforeOf
    <3>3. CASE i = n
      <4>1. m[1] = store[n] /\ m[2] \in Side /\ m = <<store[n], m[2]>>
        BY <1>3, <2>1, <3>1, <3>3, CloneParts, MessageParts
      <4>2. QED
        BY <1>3, <3>3, <4>1, CloneParts
    <3>4. QED
      BY <1>3, <3>2, <3>3
  <2>2. ASSUME NEW e \in before[k].answered, NEW i \in DOMAIN snap'[k], snap'[k][i].id = e
        PROVE  snap'[k][i].status = status[e]
    <3>1. CASE i \in DOMAIN snap[k]
      BY <1>3, <1>5, <2>2, <3>1 DEF BeforeOf
    <3>2. CASE i = n
      BY <1>3, <2>2, <3>2, CloneParts
    <3>3. QED
      BY <1>3, <3>1, <3>2
  <2>3. ASSUME NEW e \in before[k].declared, NEW i \in DOMAIN snap'[k], snap'[k][i].id = e
        PROVE  snap'[k][i].declared # None
    <3>1. CASE i \in DOMAIN snap[k]
      BY <1>3, <1>5, <2>3, <3>1 DEF BeforeOf
    <3>2. CASE i = n
      <4>1. declared[e] # None
        BY <1>5 DEF BeforeOf
      <4>2. QED
        BY <1>3, <2>3, <3>2, <4>1, CloneParts
    <3>3. QED
      BY <1>3, <3>1, <3>2
  <2>4. QED
    BY <1>1, <1>5, <2>1, <2>2, <2>3 DEF BeforeOf
<1>9. CloneInv' /\ BeforeInv'
  <2>1. \A l \in Collector : ClonesOf(l)' /\ BeforeOf(l)'
    BY <1>6, <1>7, <1>8
  <2>2. QED
    BY <2>1 DEF CloneInv, BeforeInv, ClonesOf, BeforeOf
<1>10. \A l \in Collector : Done(l)' => l # k /\ Done(l) /\ snap'[l] = snap[l]
  BY <1>1 DEF Done
<1>11. DoneInv'
  <2>1. \A l \in Collector : Done(l)' =>
          \A e \in Found(l)' : \E i \in DOMAIN snap'[l] : snap'[l][i].id = e
    <3>1. \A l \in Collector : Found(l)' = Found(l)
      BY <1>1 DEF Found
    <3>2. QED
      BY <1>10, <3>1 DEF Snapshots, DoneInv
  <2>2. ASSUME NEW j \in Collector, NEW l \in Collector, Done(j)', col'[l] = "collecting",
               NEW i \in DOMAIN snap'[j] \cap DOMAIN snap'[l]
        PROVE  NotNewer(snap'[j][i], snap'[l][i])
    <3>1. j # k /\ Done(j) /\ snap'[j] = snap[j] /\ col[l] = "collecting"
      BY <1>1, <1>10, <2>2
    <3>2. CASE l = k /\ i = n
      <4>1. NotNewer(snap[j][i], Clone(store[i]))
        BY <1>5, <3>1 DEF ClonesOf
      <4>2. QED
        BY <1>3, <3>1, <3>2, <4>1
    <3>3. CASE i \in DOMAIN snap[l] /\ snap'[l][i] = snap[l][i]
      BY <3>1, <3>3 DEF Snapshots, DoneInv
    <3>4. QED
      BY <1>1, <1>3, <3>2, <3>3
  <2>3. QED
    BY <2>1, <2>2 DEF DoneInv
<1>12. SnapshotsFormChain'
  BY <1>10 DEF Snapshots, SnapshotsFormChain, SnapshotNotNewer, Done
<1>13. QED
  BY <1>9, <1>11, <1>12 DEF Snapshots

LEMMA EndStep ==
  ASSUME TypeOK, TypeOK', StageInv, StoreInv, Snapshots, [Next]_vars,
         NEW k \in Collector, CollectEnd(k)
  PROVE  Snapshots'
<1>1. /\ UNCHANGED <<snap, before>> /\ Len(snap[k]) = Len(store)
      /\ col[k] = "collecting" /\ col'[k] = "collected" /\ storeLock' = None
      /\ \A l \in Collector : l # k => col'[l] = col[l]
  BY DEF CollectEnd, AllCloned, TypeOK
<1>2. CloneInv'
  <2>1. ASSUME NEW l \in Collector PROVE ClonesOf(l)'
    BY <1>1, ClonesStay, OfCollector DEF Snapshots
  <2>2. QED
    BY <2>1 DEF CloneInv, ClonesOf
<1>3. BeforeInv'
  <2>1. ASSUME NEW l \in Collector PROVE BeforeOf(l)'
    BY <1>1, StepKeeps, BeforeStays, OfCollector DEF Snapshots
  <2>2. QED
    BY <2>1 DEF BeforeInv, BeforeOf
<1>4. \A l \in Collector : col'[l] # "collecting"
  BY <1>1, RecorderAssumption DEF TypeOK
<1>5. \A l \in Collector : Done(l)' => l = k \/ Done(l)
  BY <1>1 DEF Done
<1>6. DoneInv'
  <2>1. ASSUME NEW e \in Found(k) PROVE \E i \in DOMAIN snap[k] : snap[k][i].id = e
    <3>1. e \in Exchange /\ call[e] \notin {"idle", "arriving"}
      <4>1. CASE \E m \in before[k].stored : e = m[1]
        <5>1. PICK m \in before[k].stored : e = m[1]
          BY <4>1
        <5>2. stage[m] = "stored" /\ m \in Message
          BY BeforeTypes DEF Snapshots, BeforeInv
        <5>3. m[1] \in Exchange /\ m[2] \in Side /\ m = <<m[1], m[2]>>
          BY <5>2, MessageParts
        <5>4. QED
          BY <5>1, <5>2, <5>3 DEF StageInv
      <4>2. CASE e \in before[k].answered
        <5>1. e \in Exchange /\ status[e] # None
          BY <4>2, BeforeTypes DEF Snapshots, BeforeInv
        <5>2. QED
          BY <5>1, AnsweredParts
      <4>3. CASE e \in before[k].declared
        <5>1. e \in Exchange /\ declared[e] # None
          BY <4>3, BeforeTypes DEF Snapshots, BeforeInv
        <5>2. QED
          BY <5>1, AnsweredParts
      <4>4. QED
        BY <4>1, <4>2, <4>3 DEF Found
    <3>2. PICK i \in DOMAIN store : store[i] = e
      BY <3>1 DEF StoreInv
    <3>3. i \in DOMAIN snap[k]
      BY <1>1, StorePositions
    <3>4. QED
      BY <3>2, <3>3 DEF Snapshots, CloneInv
  <2>2. \A l \in Collector : Done(l)' =>
          \A e \in Found(l)' : \E i \in DOMAIN snap'[l] : snap'[l][i].id = e
    <3>1. \A l \in Collector : Found(l)' = Found(l)
      BY <1>1 DEF Found
    <3>2. QED
      BY <1>1, <1>5, <2>1, <3>1 DEF Snapshots, DoneInv
  <2>3. QED
    BY <1>4, <2>2 DEF DoneInv
<1>7. SnapshotsFormChain'
  <2>1. ASSUME NEW l \in Collector, Done(l) PROVE SnapshotNotNewer(l, k)
    <3>1. Len(snap[l]) <= Len(snap[k])
      BY <1>1 DEF Snapshots, CloneInv
    <3>2. DOMAIN snap[l] \subseteq DOMAIN snap[k]
      BY <3>1, StorePositions
    <3>3. \A i \in DOMAIN snap[l] : NotNewer(snap[l][i], snap[k][i])
      BY <1>1, <2>1, <3>2 DEF Snapshots, DoneInv
    <3>4. QED
      BY <3>1, <3>3 DEF SnapshotNotNewer
  <2>2. SnapshotNotNewer(k, k)
    BY StorePositions, NotNewerReflexive DEF SnapshotNotNewer
  <2>3. \A j, l \in Collector : SnapshotNotNewer(j, l)' <=> SnapshotNotNewer(j, l)
    BY <1>1 DEF SnapshotNotNewer
  <2>4. ASSUME NEW j \in Collector, NEW l \in Collector, Done(j)', Done(l)'
        PROVE  SnapshotNotNewer(j, l)' \/ SnapshotNotNewer(l, j)'
    <3>1. CASE Done(j) /\ Done(l)
      BY <2>3, <3>1 DEF Snapshots, SnapshotsFormChain, Done
    <3>2. CASE j = k \/ l = k
      BY <1>5, <2>1, <2>2, <2>3, <2>4, <3>2
    <3>3. QED
      BY <1>5, <2>4, <3>1, <3>2
  <2>5. QED
    BY <2>4 DEF SnapshotsFormChain, Done
<1>8. QED
  BY <1>2, <1>3, <1>6, <1>7 DEF Snapshots

LEMMA SnapshotsStep ==
  ASSUME TypeOK, TypeOK', StageInv, StoreInv, Snapshots, [Next]_vars
  PROVE  Snapshots'
<1>1. ASSUME UNCHANGED <<snap, before, col>> PROVE Snapshots'
  BY <1>1, FrozenStep DEF Done
<1>2. ASSUME NEW e \in Exchange,
             \/ Arrive(e) \/ Push(e) \/ HandlerLost(e)
             \/ DeclareLock(e) \/ DeclareFails(e) \/ DeclarePanics(e)
             \/ \E st \in Status : HandlerReturns(e, st)
             \/ \E t \in Type : DeclareOk(e, t)
      PROVE  Snapshots'
  BY <1>1, <1>2 DEF Arrive, Push, HandlerLost, DeclareLock, DeclareFails, DeclarePanics,
                    HandlerReturns, DeclareOk
<1>3. ASSUME NEW m \in Message,
             \/ StoreBody(m) \/ \E p \in Payload : Record(m, p)
             \/ \E w \in pending[m].warn : PushWarning(m, w)
      PROVE  Snapshots'
  BY <1>1, <1>3 DEF StoreBody, Record, PushWarning
<1>4. ASSUME NEW c \in Config, Configure(c) PROVE Snapshots'
  BY <1>1, <1>4 DEF Configure
<1>5. ASSUME NEW k \in Collector, Emit(k) PROVE Snapshots'
  <2>1. /\ UNCHANGED <<snap, before>> /\ col[k] = "collected" /\ col'[k] = "emitted"
        /\ \A l \in Collector : l # k => col'[l] = col[l]
    BY <1>5 DEF Emit, TypeOK
  <2>2. \A l \in Collector : /\ col'[l] = "idle" <=> col[l] = "idle"
                             /\ col'[l] = "collecting" <=> col[l] = "collecting"
                             /\ Done(l)' <=> Done(l)
    BY <2>1 DEF Done
  <2>3. QED
    BY <2>1, <2>2, FrozenStep
<1>6. CASE UNCHANGED vars
  BY <1>1, <1>6 DEF vars
<1>7. QED
  BY <1>2, <1>3, <1>4, <1>5, <1>6, StartStep, CloneStep, EndStep DEF Next, Quiet

(***************************************************************************)
(* The store and its snapshots, for any number of requests and collectors: *)
(* the inductive invariant behind the two theorems below (src/store.rs).   *)
(***************************************************************************)
THEOREM SnapshotsHold == Spec => []SnapshotInv
<1>1. Spec => []Snapshots
  BY SnapshotsInit, SnapshotsStep, RecorderTypes, Stages, Stores, PTL DEF Spec
<1>2. Snapshots /\ StoreInv => SnapshotInv
  BY DEF Snapshots, SnapshotInv
<1>3. QED
  BY <1>1, <1>2, Stores, PTL

(***************************************************************************)
(* Any two results of collected() are ordered, exchange by exchange        *)
(* (snapshot of src/store.rs, which keeps the Vec locked while it clones). *)
(***************************************************************************)
THEOREM SnapshotsOrdered == Spec => []SnapshotsFormChain
<1>1. SnapshotInv => SnapshotsFormChain
  BY DEF SnapshotInv
<1>2. QED
  BY <1>1, SnapshotsHold, PTL

(***************************************************************************)
(* collected() has everything that was on record when it began, and each   *)
(* exchange once, whatever is recorded meanwhile (snapshot of              *)
(* src/store.rs).                                                          *)
(***************************************************************************)
THEOREM NothingMissed == Spec => []CollectIsComplete
<1>1. TypeOK /\ SnapshotInv => CollectIsComplete
  <2> SUFFICES ASSUME TypeOK, SnapshotInv, NEW k \in Collector,
                      col[k] \in {"collected", "emitted"}
               PROVE  /\ \A m \in before[k].stored :
                           \E x \in Snapped(k) : x.id = m[1] /\ x.body[m[2]] = body[m]
                      /\ \A e \in before[k].answered :
                           \E x \in Snapped(k) : x.id = e /\ x.status = status[e]
                      /\ \A e \in before[k].declared :
                           \E x \in Snapped(k) : x.id = e /\ x.declared # None
                      /\ \A i, j \in DOMAIN snap[k] : snap[k][i].id = snap[k][j].id => i = j
    BY DEF CollectIsComplete
  <2>1. \A e \in Found(k) : \E i \in DOMAIN snap[k] : snap[k][i].id = e
    BY DEF SnapshotInv, DoneInv, Done
  <2>2. \A i \in DOMAIN snap[k] : snap[k][i] \in Snapped(k)
    BY DEF Snapped
  <2>3. BeforeOf(k)
    BY OfCollector DEF SnapshotInv
  <2>4. ASSUME NEW m \in before[k].stored
        PROVE  \E x \in Snapped(k) : x.id = m[1] /\ x.body[m[2]] = body[m]
    <3>1. PICK i \in DOMAIN snap[k] : snap[k][i].id = m[1]
      BY <2>1 DEF Found
    <3>2. QED
      BY <2>2, <2>3, <3>1 DEF BeforeOf
  <2>5. ASSUME NEW e \in before[k].answered
        PROVE  \E x \in Snapped(k) : x.id = e /\ x.status = status[e]
    <3>1. PICK i \in DOMAIN snap[k] : snap[k][i].id = e
      BY <2>1 DEF Found
    <3>2. QED
      BY <2>2, <2>3, <3>1 DEF BeforeOf
  <2>6. ASSUME NEW e \in before[k].declared
        PROVE  \E x \in Snapped(k) : x.id = e /\ x.declared # None
    <3>1. PICK i \in DOMAIN snap[k] : snap[k][i].id = e
      BY <2>1 DEF Found
    <3>2. QED
      BY <2>2, <2>3, <3>1 DEF BeforeOf
  <2>7. ASSUME NEW i \in DOMAIN snap[k], NEW j \in DOMAIN snap[k],
               snap[k][i].id = snap[k][j].id
        PROVE  i = j
    <3>1. i \in DOMAIN store /\ j \in DOMAIN store
      <4>1. Len(snap[k]) <= Len(store)
        BY DEF SnapshotInv, CloneInv
      <4>2. QED
        BY <4>1, StorePositions
    <3>2. store[i] = store[j]
      BY <2>7 DEF SnapshotInv, CloneInv
    <3>3. QED
      BY <3>1, <3>2 DEF SnapshotInv, StoreInv
  <2>8. QED
    BY <2>4, <2>5, <2>6, <2>7
<1>2. QED
  BY <1>1, RecorderTypes, SnapshotsHold, PTL

-----------------------------------------------------------------------------
(* The write-once record.                                                  *)

Point == {"status", "declared"} \cup Side

LEMMA KnownParts ==
  ASSUME NEW q \in Known
  PROVE  /\ q[1] \in Exchange /\ q[2] \in Point /\ q = <<q[1], q[2]>>
         /\ q[2] \notin {"status", "declared"} => q[2] \in Side /\ q \in Message
  BY DEF Known, Point, Message

\* What an entry says on each point.
LEMMA SaysParts ==
  ASSUME NEW x
  PROVE  /\ Says(x, "status") = x.status
         /\ Says(x, "declared") = IF x.declared = None THEN None ELSE "declared"
         /\ \A s \in Side : Says(x, s) = IF x.body[s] = NoBody THEN None ELSE x.body[s]
  BY DEF Says, Side

\* What the store knows on each point.
LEMMA KnowsParts ==
  /\ \A e \in Exchange : <<e, "status">> \in Known /\ StoreKnows[<<e, "status">>] = status[e]
  /\ \A e \in Exchange : /\ <<e, "declared">> \in Known
                         /\ StoreKnows[<<e, "declared">>]
                              = IF declared[e] = None THEN None ELSE "declared"
  /\ \A m \in Message : /\ m \in Known
                        /\ StoreKnows[m] = IF body[m] = NoBody THEN None ELSE body[m]
<1>1. ASSUME NEW q \in Known PROVE StoreKnows[q] = Says(Clone(q[1]), q[2])
  BY DEF StoreKnows
<1>2. ASSUME NEW e \in Exchange
      PROVE  /\ <<e, "status">> \in Known /\ <<e, "declared">> \in Known
             /\ StoreKnows[<<e, "status">>] = Says(Clone(e), "status")
             /\ StoreKnows[<<e, "declared">>] = Says(Clone(e), "declared")
  BY <1>1 DEF Known
<1>3. ASSUME NEW m \in Message
      PROVE  m \in Known /\ StoreKnows[m] = IF body[m] = NoBody THEN None ELSE body[m]
  <2>1. m[1] \in Exchange /\ m[2] \in Side /\ m = <<m[1], m[2]>>
    BY MessageParts
  <2>2. m \in Known
    BY <2>1 DEF Known
  <2>3. Clone(m[1]).body[m[2]] = body[m]
    BY <2>1, CloneParts
  <2>4. QED
    BY <1>1, <2>1, <2>2, <2>3, SaysParts
<1>4. ASSUME NEW e \in Exchange
      PROVE  /\ StoreKnows[<<e, "status">>] = status[e]
             /\ StoreKnows[<<e, "declared">>]
                  = IF declared[e] = None THEN None ELSE "declared"
  BY <1>2, CloneParts, SaysParts
<1>5. QED
  BY <1>2, <1>3, <1>4

\* The same, after a step.
LEMMA KnowsPartsNext ==
  /\ \A e \in Exchange : StoreKnows'[<<e, "status">>] = status'[e]
  /\ \A e \in Exchange : StoreKnows'[<<e, "declared">>]
                            = IF declared'[e] = None THEN None ELSE "declared"
  /\ \A m \in Message : StoreKnows'[m] = IF body'[m] = NoBody THEN None ELSE body'[m]
<1>1. ASSUME NEW e \in Exchange
      PROVE  /\ StoreKnows'[<<e, "status">>] = status'[e]
             /\ StoreKnows'[<<e, "declared">>]
                  = IF declared'[e] = None THEN None ELSE "declared"
  <2>1. <<e, "status">> \in Known /\ <<e, "declared">> \in Known
    BY DEF Known
  <2>2. /\ StoreKnows'[<<e, "status">>] = Says(Clone(e)', "status")
        /\ StoreKnows'[<<e, "declared">>] = Says(Clone(e)', "declared")
    BY <2>1 DEF StoreKnows, Clone
  <2>3. Clone(e)'.status = status'[e] /\ Clone(e)'.declared = declared'[e]
    BY DEF Clone
  <2>4. QED
    BY <2>2, <2>3, SaysParts
<1>2. ASSUME NEW m \in Message
      PROVE  StoreKnows'[m] = IF body'[m] = NoBody THEN None ELSE body'[m]
  <2>1. m[1] \in Exchange /\ m[2] \in Side /\ m = <<m[1], m[2]>>
    BY MessageParts
  <2>2. m \in Known
    BY <2>1 DEF Known
  <2>3. Clone(m[1])'.body[m[2]] = body'[m]
    BY <2>1 DEF Clone
  <2>4. StoreKnows'[m] = Says(Clone(m[1])', m[2])
    BY <2>2 DEF StoreKnows, Clone
  <2>5. QED
    BY <2>1, <2>3, <2>4, SaysParts
<1>3. QED
  BY <1>1, <1>2

\* The store knows what the exchanges' fields say, and no more.
LEMMA KnowsStays ==
  ASSUME UNCHANGED <<status, declared, body>>
  PROVE  UNCHANGED StoreKnows
  BY DEF StoreKnows, Clone

\* An entry whose field is the same says the same on its point.
LEMMA SameSaid ==
  ASSUME NEW p \in Known,
         p[2] = "status" => Clone(p[1])'.status = Clone(p[1]).status,
         p[2] = "declared" => Clone(p[1])'.declared = Clone(p[1]).declared,
         p[2] \notin {"status", "declared"} => Clone(p[1])'.body = Clone(p[1]).body
  PROVE  StoreKnows'[p] = StoreKnows[p]
<1>1. Says(Clone(p[1])', p[2]) = Says(Clone(p[1]), p[2])
  <2>1. CASE p[2] = "status"
    BY <2>1, SaysParts
  <2>2. CASE p[2] = "declared"
    BY <2>2, SaysParts
  <2>3. CASE p[2] \notin {"status", "declared"}
    BY <2>3, SaysParts, KnownParts
  <2>4. QED
    BY <2>1, <2>2, <2>3
<1>2. StoreKnows[p] = Says(Clone(p[1]), p[2]) /\ StoreKnows'[p] = Says(Clone(p[1])', p[2])
  BY DEF StoreKnows, Clone
<1>3. QED
  BY <1>1, <1>2

\* A later entry says all that an earlier one did.
LEMMA SaysMore ==
  ASSUME NEW x, NEW y, NotNewer(x, y), NEW p \in Point
  PROVE  Says(x, p) \in {None, Says(y, p)}
<1>1. CASE p = "status"
  BY <1>1, SaysParts DEF NotNewer
<1>2. CASE p = "declared"
  BY <1>2, SaysParts DEF NotNewer
<1>3. CASE p \in Side
  BY <1>3, SaysParts DEF NotNewer
<1>4. QED
  BY <1>1, <1>2, <1>3 DEF Point

-----------------------------------------------------------------------------
(* Snapshots.                                                              *)

\* An exchange is in a snapshot once.
LEMMA IdsUnique ==
  ASSUME TypeOK, StoreInv, CloneInv, NEW k \in Collector,
         NEW i \in DOMAIN snap[k], NEW j \in DOMAIN snap[k], snap[k][i].id = snap[k][j].id
  PROVE  i = j
<1>1. Len(snap[k]) <= Len(store)
  BY DEF CloneInv
<1>2. i \in DOMAIN store /\ j \in DOMAIN store
  BY <1>1, StorePositions
<1>3. store[i] = store[j]
  BY DEF CloneInv
<1>4. QED
  BY <1>2, <1>3 DEF StoreInv

LEMMA AnswerAt ==
  ASSUME TypeOK, StoreInv, CloneInv, NEW k \in Collector, NEW q,
         NEW i \in DOMAIN snap[k], snap[k][i].id = q[1]
  PROVE  Answer(snap[k], q) = Says(snap[k][i], q[2])
<1>1. /\ Position(snap[k], q[1]) \in DOMAIN snap[k]
      /\ snap[k][Position(snap[k], q[1])].id = q[1]
  BY DEF Position
<1>2. Position(snap[k], q[1]) = i
  BY <1>1, IdsUnique
<1>3. QED
  BY <1>2 DEF Answer

LEMMA AnswerOfNobody ==
  ASSUME NEW x, NEW q, \A i \in DOMAIN x : x[i].id # q[1]
  PROVE  Answer(x, q) = None
  BY DEF Answer

\* An ordered pair of snapshots answers in order.
LEMMA AnswersMore ==
  ASSUME TypeOK, StoreInv, CloneInv, NEW k \in Collector, NEW l \in Collector,
         SnapshotNotNewer(k, l), NEW q \in Known
  PROVE  Answer(snap[k], q) \in {None, Answer(snap[l], q)}
<1>1. CASE \A i \in DOMAIN snap[k] : snap[k][i].id # q[1]
  BY <1>1, AnswerOfNobody
<1>2. ASSUME NEW i \in DOMAIN snap[k], snap[k][i].id = q[1]
      PROVE  Answer(snap[k], q) \in {None, Answer(snap[l], q)}
  <2>1. i \in DOMAIN snap[l]
    BY StorePositions DEF SnapshotNotNewer
  <2>2. NotNewer(snap[k][i], snap[l][i])
    BY DEF SnapshotNotNewer
  <2>3. snap[l][i].id = q[1]
    BY <1>2, <2>2 DEF NotNewer
  <2>4. Answer(snap[k], q) = Says(snap[k][i], q[2])
    BY <1>2, AnswerAt
  <2>5. Answer(snap[l], q) = Says(snap[l][i], q[2])
    BY <2>1, <2>3, AnswerAt
  <2>6. q[2] \in Point
    BY KnownParts
  <2>7. QED
    BY <2>2, <2>4, <2>5, <2>6, SaysMore
<1>3. QED
  BY <1>1, <1>2

\* A snapshot says nothing that the store does not know.
LEMMA AnswersKnown ==
  ASSUME TypeOK, StoreInv, CloneInv, NEW k \in Collector, NEW q \in Known
  PROVE  Answer(snap[k], q) \in {None, StoreKnows[q]}
<1>1. CASE \A i \in DOMAIN snap[k] : snap[k][i].id # q[1]
  BY <1>1, AnswerOfNobody
<1>2. ASSUME NEW i \in DOMAIN snap[k], snap[k][i].id = q[1]
      PROVE  Answer(snap[k], q) \in {None, StoreKnows[q]}
  <2>1. NotNewer(snap[k][i], Clone(q[1]))
    BY <1>2 DEF CloneInv
  <2>2. Answer(snap[k], q) = Says(snap[k][i], q[2])
    BY <1>2, AnswerAt
  <2>3. StoreKnows[q] = Says(Clone(q[1]), q[2])
    BY DEF StoreKnows
  <2>4. q[2] \in Point
    BY KnownParts
  <2>5. QED
    BY <2>1, <2>2, <2>3, <2>4, SaysMore
<1>3. QED
  BY <1>1, <1>2

\* A finished snapshot has all that its collector began with.
LEMMA AnswersBegan ==
  ASSUME TypeOK, StoreInv, CloneInv, BeforeInv, NEW k \in Collector,
         \A e \in Found(k) : \E i \in DOMAIN snap[k] : snap[k][i].id = e,
         NEW q \in BeganWith(k)
  PROVE  Answer(snap[k], q) = StoreKnows[q]
<1>1. BeforeOf(k)
  BY OfCollector
<1>2. ASSUME NEW e \in before[k].answered, q = <<e, "status">>
      PROVE  Answer(snap[k], q) = StoreKnows[q]
  <2>1. PICK i \in DOMAIN snap[k] : snap[k][i].id = e
    BY DEF Found
  <2>2. snap[k][i].status = status[e]
    BY <1>1, <2>1 DEF BeforeOf
  <2>3. Answer(snap[k], q) = Says(snap[k][i], "status")
    BY <1>2, <2>1, AnswerAt
  <2>4. e \in Exchange
    BY BeforeTypes
  <2>5. QED
    BY <1>2, <2>2, <2>3, <2>4, SaysParts, KnowsParts
<1>3. ASSUME NEW e \in before[k].declared, q = <<e, "declared">>
      PROVE  Answer(snap[k], q) = StoreKnows[q]
  <2>1. PICK i \in DOMAIN snap[k] : snap[k][i].id = e
    BY DEF Found
  <2>2. snap[k][i].declared # None /\ declared[e] # None
    BY <1>1, <2>1 DEF BeforeOf
  <2>3. Answer(snap[k], q) = Says(snap[k][i], "declared")
    BY <1>3, <2>1, AnswerAt
  <2>4. e \in Exchange
    BY BeforeTypes
  <2>5. QED
    BY <1>3, <2>2, <2>3, <2>4, SaysParts, KnowsParts
<1>4. ASSUME q \in before[k].stored
      PROVE  Answer(snap[k], q) = StoreKnows[q]
  <2>1. q \in Message /\ q[1] \in Exchange /\ q[2] \in Side
    BY <1>4, BeforeTypes, MessageParts
  <2>2. PICK i \in DOMAIN snap[k] : snap[k][i].id = q[1]
    BY <1>4 DEF Found
  <2>3. snap[k][i].body[q[2]] = body[q]
    BY <1>1, <1>4, <2>2 DEF BeforeOf
  <2>4. Answer(snap[k], q) = Says(snap[k][i], q[2])
    BY <2>2, AnswerAt
  <2>5. QED
    BY <2>1, <2>3, <2>4, SaysParts, KnowsParts
<1>5. QED
  BY <1>2, <1>3, <1>4 DEF BeganWith

-----------------------------------------------------------------------------
(* What a step leaves alone.                                               *)

LEMMA ReturnedStays ==
  ASSUME \A k \in Collector : (Done(k)' <=> Done(k)) /\ (Done(k) => snap'[k] = snap[k])
  PROVE  UNCHANGED Returned
<1>1. ASSUME NEW k \in Collector, NEW q \in Known
      PROVE  (IF Done(k)' THEN Answer(snap'[k], q) ELSE None)
               = (IF Done(k) THEN Answer(snap[k], q) ELSE None)
  OBVIOUS
<1>2. \A x, q : Answer(x, q)' = Answer(x, q)
  BY DEF Answer, Says, Position
<1>3. QED
  BY <1>1, <1>2 DEF Returned

LEMMA BeganStays ==
  ASSUME TypeOK, BeforeInv, Kept, UNCHANGED before
  PROVE  UNCHANGED Began
<1>1. ASSUME NEW k \in Collector, NEW q \in BeganWith(k)
      PROVE  StoreKnows'[q] = StoreKnows[q]
  <2>1. BeforeOf(k)
    BY OfCollector
  <2>2. ASSUME NEW e \in before[k].answered, q = <<e, "status">>
        PROVE  StoreKnows'[q] = StoreKnows[q]
    <3>1. e \in Exchange /\ status'[e] = status[e]
      BY <2>1, BeforeTypes DEF BeforeOf, Kept
    <3>2. StoreKnows[q] = status[e] /\ StoreKnows'[q] = status'[e]
      BY <2>2, <3>1, KnowsParts, KnowsPartsNext
    <3>3. QED
      BY <3>1, <3>2
  <2>3. ASSUME NEW e \in before[k].declared, q = <<e, "declared">>
        PROVE  StoreKnows'[q] = StoreKnows[q]
    <3>1. e \in Exchange /\ declared[e] # None /\ declared'[e] # None
      BY <2>1, BeforeTypes DEF BeforeOf, Kept
    <3>2. StoreKnows[q] = "declared" /\ StoreKnows'[q] = "declared"
      BY <2>3, <3>1, KnowsParts, KnowsPartsNext
    <3>3. QED
      BY <3>2
  <2>4. ASSUME q \in before[k].stored
        PROVE  StoreKnows'[q] = StoreKnows[q]
    <3>1. q \in Message /\ body'[q] = body[q]
      BY <2>1, <2>4, BeforeTypes DEF BeforeOf, Kept
    <3>2. QED
      BY <3>1, KnowsParts, KnowsPartsNext
  <2>5. QED
    BY <2>2, <2>3, <2>4 DEF BeganWith
<1>2. \A k \in Collector : BeganWith(k)' = BeganWith(k)
  BY DEF BeganWith
<1>3. \A k \in Collector, q \in Known :
        (IF q \in BeganWith(k)' THEN StoreKnows'[q] ELSE None)
          = (IF q \in BeganWith(k) THEN StoreKnows[q] ELSE None)
  BY <1>1, <1>2
<1>4. QED
  BY <1>3 DEF Began

LEMMA ReadingStays ==
  ASSUME \A k \in Collector : /\ Done(k)' <=> Done(k)
                              /\ col'[k] = "collecting" <=> col[k] = "collecting"
  PROVE  UNCHANGED Reading
  BY DEF Reading

-----------------------------------------------------------------------------
(* Each step of Recorder is a step of WriteOnce, or none.                  *)

\* A step of the requests: at most one key is written.
LEMMA WriteStep ==
  ASSUME TypeOK, BeforeInv, Kept, UNCHANGED <<snap, col, before>>, NEW q \in Known,
         \A p \in Known : p # q => StoreKnows'[p] = StoreKnows[p],
         StoreKnows'[q] = StoreKnows[q] \/ (StoreKnows[q] = None /\ StoreKnows'[q] # None)
  PROVE  [Store!Next]_(Store!vars)
<1>1. UNCHANGED Returned
  BY ReturnedStays DEF Done
<1>2. UNCHANGED Reading
  BY ReadingStays DEF Done
<1>3. UNCHANGED Began
  BY BeganStays
<1>4. /\ StoreKnows = [p \in Known |-> StoreKnows[p]]
      /\ StoreKnows' = [p \in Known |-> StoreKnows'[p]]
  BY DEF StoreKnows
<1>5. CASE StoreKnows'[q] = StoreKnows[q]
  <2>1. \A p \in Known : StoreKnows'[p] = StoreKnows[p]
    BY <1>5
  <2>2. UNCHANGED StoreKnows
    BY <1>4, <2>1
  <2>3. QED
    BY <1>1, <1>2, <1>3, <2>2 DEF Store!vars
<1>6. CASE StoreKnows[q] = None /\ StoreKnows'[q] # None
  <2>1. StoreKnows' = [StoreKnows EXCEPT ![q] = StoreKnows'[q]]
    BY <1>4
  <2>2. Store!Write(q)
    BY <1>1, <1>2, <1>3, <1>6, <2>1 DEF Store!Write
  <2>3. QED
    BY <2>2 DEF Store!Next
<1>7. QED
  BY <1>5, <1>6

\* A step that writes nothing and neither begins nor ends a collection.
LEMMA SilentStep ==
  ASSUME TypeOK, BeforeInv, Kept, UNCHANGED <<status, declared, body, before>>,
         \A k \in Collector : /\ (Done(k)' <=> Done(k)) /\ (Done(k) => snap'[k] = snap[k])
                              /\ col'[k] = "collecting" <=> col[k] = "collecting"
  PROVE  UNCHANGED Store!vars
<1>1. UNCHANGED Returned
  BY ReturnedStays
<1>2. UNCHANGED Reading
  BY ReadingStays
<1>3. UNCHANGED Began /\ UNCHANGED StoreKnows
  BY BeganStays, KnowsStays
<1>4. QED
  BY <1>1, <1>2, <1>3 DEF Store!vars

LEMMA BeginStep ==
  ASSUME TypeOK, StageInv, BeforeInv, Kept, NEW k \in Collector, CollectStart(k)
  PROVE  Store!Begin(k)
<1>1. /\ UNCHANGED <<status, declared, body, stage, snap>>
      /\ col[k] = "idle" /\ col'[k] = "collecting" /\ before'[k] = OnRecord
      /\ \A l \in Collector : l # k => col'[l] = col[l] /\ before'[l] = before[l]
  BY DEF CollectStart, TypeOK
<1>2. UNCHANGED StoreKnows
  BY <1>1, KnowsStays
<1>3. UNCHANGED Returned
  <2>1. \A l \in Collector : (Done(l)' <=> Done(l)) /\ (Done(l) => snap'[l] = snap[l])
    BY <1>1 DEF Done
  <2>2. QED
    BY <2>1, ReturnedStays
<1>4. Reading[k] = "idle" /\ Reading' = [Reading EXCEPT ![k] = "reading"]
  <2>1. Reading[k] = "idle"
    BY <1>1 DEF Reading, Done
  <2>2. \A l \in Collector : Reading'[l] = IF l = k THEN "reading" ELSE Reading[l]
    BY <1>1 DEF Reading, Done
  <2>3. /\ Reading = [l \in Collector |-> Reading[l]]
        /\ Reading' = [l \in Collector |-> Reading'[l]]
    BY DEF Reading
  <2>4. QED
    BY <2>1, <2>2, <2>3
<1>5. ASSUME NEW q \in Known, q \notin BeganWith(k)'
      PROVE  StoreKnows[q] = None
  <2>1. BeganWith(k)' = (OnRecord.answered \X {"status"}) \cup (OnRecord.declared \X {"declared"})
                          \cup OnRecord.stored
    BY <1>1 DEF BeganWith
  <2>2. CASE q[2] = "status"
    <3>1. q = <<q[1], "status">> /\ q[1] \in Exchange
      BY <2>2, KnownParts
    <3>2. q[1] \notin OnRecord.answered
      BY <1>5, <2>1, <3>1
    <3>3. status[q[1]] = None
      BY <3>1, <3>2 DEF OnRecord
    <3>4. QED
      BY <3>1, <3>3, KnowsParts
  <2>3. CASE q[2] = "declared"
    <3>1. q = <<q[1], "declared">> /\ q[1] \in Exchange
      BY <2>3, KnownParts
    <3>2. q[1] \notin OnRecord.declared
      BY <1>5, <2>1, <3>1
    <3>3. declared[q[1]] = None
      BY <3>1, <3>2 DEF OnRecord
    <3>4. QED
      BY <3>1, <3>3, KnowsParts
  <2>4. CASE q[2] \notin {"status", "declared"}
    <3>1. q \in Message
      BY <2>4, KnownParts
    <3>2. stage[q] # "stored"
      BY <1>5, <2>1, <3>1 DEF OnRecord
    <3>3. body[q] = NoBody
      BY <3>1, <3>2 DEF StageInv
    <3>4. QED
      BY <3>1, <3>3, KnowsParts
  <2>5. QED
    BY <2>2, <2>3, <2>4
<1>6. Began' = [Began EXCEPT ![k] = StoreKnows]
  <2>1. ASSUME NEW q \in Known PROVE Began'[k][q] = StoreKnows[q]
    BY <1>2, <1>5 DEF Began
  <2>2. Began'[k] = [q \in Known |-> Began'[k][q]] /\ StoreKnows = [q \in Known |-> StoreKnows[q]]
    BY DEF Began, StoreKnows
  <2>3. Began'[k] = StoreKnows
    BY <2>1, <2>2
  <2>4. ASSUME NEW l \in Collector, l # k PROVE Began'[l] = Began[l]
    <3>1. BeganWith(l)' = BeganWith(l)
      BY <1>1, <2>4 DEF BeganWith
    <3>2. QED
      BY <1>2, <3>1 DEF Began
  <2>5. Began = [l \in Collector |-> Began[l]] /\ Began' = [l \in Collector |-> Began'[l]]
    BY DEF Began
  <2>6. QED
    BY <2>3, <2>4, <2>5
<1>7. QED
  BY <1>2, <1>3, <1>4, <1>6 DEF Store!Begin

LEMMA FinishStep ==
  ASSUME TypeOK, StoreInv, SnapshotInv, SnapshotInv', TypeOK', Kept, [Next]_vars,
         NEW k \in Collector, CollectEnd(k)
  PROVE  Store!Finish(k)
<1>1. /\ UNCHANGED <<status, declared, body, store, snap, before>>
      /\ col[k] = "collecting" /\ col'[k] = "collected"
      /\ \A l \in Collector : l # k => col'[l] = col[l]
  BY DEF CollectEnd, TypeOK
<1>2. UNCHANGED StoreKnows
  BY <1>1, KnowsStays
<1>3. UNCHANGED Began
  BY <1>1, BeganStays DEF SnapshotInv
<1>4. ~Done(k) /\ Done(k)' /\ \A l \in Collector : l # k => (Done(l)' <=> Done(l))
  BY <1>1 DEF Done
<1>5. Reading[k] = "reading" /\ Reading' = [Reading EXCEPT ![k] = "done"]
  <2>1. Reading[k] = "reading"
    BY <1>1, <1>4 DEF Reading
  <2>2. \A l \in Collector : Reading'[l] = IF l = k THEN "done" ELSE Reading[l]
    BY <1>1, <1>4 DEF Reading
  <2>3. /\ Reading = [l \in Collector |-> Reading[l]]
        /\ Reading' = [l \in Collector |-> Reading'[l]]
    BY DEF Reading
  <2>4. QED
    BY <2>1, <2>2, <2>3
<1>6. \A x, q : Answer(x, q)' = Answer(x, q)
  BY DEF Answer, Says, Position
<1>7. \A q \in Known : Returned'[k][q] = Answer(snap[k], q)
  BY <1>1, <1>4, <1>6 DEF Returned
<1>8. ASSUME NEW l \in Collector, l # k
      PROVE  Returned'[l] = Returned[l] /\ (Reading[l] = "done" <=> Done(l))
  <2>1. (Done(l)' <=> Done(l)) /\ snap'[l] = snap[l]
    BY <1>1, <1>4, <1>8
  <2>2. QED
    BY <1>6, <2>1 DEF Returned, Reading
<1>9. Returned' = [Returned EXCEPT ![k] = Returned'[k]]
  <2>1. /\ Returned = [l \in Collector |-> Returned[l]]
        /\ Returned' = [l \in Collector |-> Returned'[l]]
    BY DEF Returned
  <2>2. QED
    BY <1>8, <2>1
<1>10. Store!Below(Began[k], Returned'[k])
  <2>1. \A e \in Found(k) : \E i \in DOMAIN snap[k] : snap[k][i].id = e
    BY <1>1, <1>4 DEF SnapshotInv, DoneInv, Found
  <2>2. ASSUME NEW q \in BeganWith(k) PROVE Answer(snap[k], q) = StoreKnows[q]
    BY <2>1, AnswersBegan DEF SnapshotInv
  <2>3. \A q \in Known : Began[k][q] \in {None, Returned'[k][q]}
    BY <1>7, <2>2 DEF Began
  <2>4. QED
    BY <2>3 DEF Store!Below
<1>11. Store!Below(Returned'[k], StoreKnows)
  <2>1. \A q \in Known : Answer(snap[k], q) \in {None, StoreKnows[q]}
    BY AnswersKnown DEF SnapshotInv
  <2>2. QED
    BY <1>7, <2>1 DEF Store!Below
<1>12. ASSUME NEW l \in Collector, Reading[l] = "done"
       PROVE  Store!Below(Returned[l], Returned'[k])
  <2>1. l # k /\ Done(l)
    BY <1>5, <1>8, <1>12
  <2>2. Len(snap[l]) <= Len(snap[k])
    BY <1>1 DEF CollectEnd, AllCloned, SnapshotInv, CloneInv
  <2>3. \A i \in DOMAIN snap[l] : NotNewer(snap[l][i], snap[k][i])
    <3>1. DOMAIN snap[l] \subseteq DOMAIN snap[k]
      BY <2>2, StorePositions
    <3>2. QED
      BY <1>1, <2>1, <3>1 DEF SnapshotInv, DoneInv
  <2>4. SnapshotNotNewer(l, k)
    BY <2>2, <2>3 DEF SnapshotNotNewer
  <2>5. \A q \in Known : Answer(snap[l], q) \in {None, Answer(snap[k], q)}
    BY <2>4, AnswersMore DEF SnapshotInv
  <2>6. \A q \in Known : Returned[l][q] = Answer(snap[l], q)
    BY <2>1 DEF Returned
  <2>7. QED
    BY <1>7, <2>5, <2>6 DEF Store!Below
<1>13. QED
  BY <1>2, <1>3, <1>5, <1>9, <1>10, <1>11, <1>12 DEF Store!Finish

LEMMA StoreStarts == Init => Store!Init
<1> SUFFICES ASSUME Init PROVE Store!Init
  OBVIOUS
<1>1. /\ \A e \in Exchange : status[e] = None /\ declared[e] = None
      /\ \A m \in Message : body[m] = NoBody
      /\ \A k \in Collector : /\ col[k] = "idle"
                              /\ before[k] = [stored |-> {}, answered |-> {}, declared |-> {}]
  BY DEF Init
<1>2. ASSUME NEW q \in Known PROVE StoreKnows[q] = None
  <2>1. CASE q[2] = "status"
    <3>1. q = <<q[1], "status">> /\ q[1] \in Exchange
      BY <2>1, KnownParts
    <3>2. QED
      BY <1>1, <3>1, KnowsParts
  <2>2. CASE q[2] = "declared"
    <3>1. q = <<q[1], "declared">> /\ q[1] \in Exchange
      BY <2>2, KnownParts
    <3>2. QED
      BY <1>1, <3>1, KnowsParts
  <2>3. CASE q[2] \notin {"status", "declared"}
    BY <1>1, <2>3, KnownParts, KnowsParts
  <2>4. QED
    BY <2>1, <2>2, <2>3
<1>3. StoreKnows = [q \in Known |-> None]
  BY <1>2 DEF StoreKnows
<1>4. \A k \in Collector : BeganWith(k) = {}
  BY <1>1 DEF BeganWith
<1>5. Began = [k \in Collector |-> [q \in Known |-> None]]
  BY <1>4 DEF Began
<1>6. \A k \in Collector : ~Done(k)
  BY <1>1 DEF Done
<1>7. Returned = [k \in Collector |-> [q \in Known |-> None]]
  BY <1>6 DEF Returned
<1>8. Reading = [k \in Collector |-> "idle"]
  BY <1>1, <1>6 DEF Reading
<1>9. QED
  BY <1>3, <1>5, <1>7, <1>8 DEF Store!Init, Store!Nothing

LEMMA StoreSteps ==
  ASSUME TypeOK, TypeOK', StageInv, SnapshotInv, SnapshotInv', [Next]_vars
  PROVE  [Store!Next]_(Store!vars)
<1>0. StoreInv /\ CloneInv /\ BeforeInv /\ DoneInv
  BY DEF SnapshotInv
<1>1. Kept
  BY <1>0, StepKeeps
<1>2. ASSUME UNCHANGED <<status, declared, body, before, snap, col>> PROVE UNCHANGED Store!vars
  BY <1>0, <1>1, <1>2, SilentStep DEF Done
<1>3. ASSUME NEW e \in Exchange,
             \/ Arrive(e) \/ Push(e) \/ HandlerLost(e)
             \/ DeclareLock(e) \/ DeclareFails(e) \/ DeclarePanics(e)
      PROVE  UNCHANGED Store!vars
  BY <1>2, <1>3 DEF Arrive, Push, HandlerLost, DeclareLock, DeclareFails, DeclarePanics
<1>4. ASSUME NEW e \in Exchange, NEW st \in Status, HandlerReturns(e, st)
      PROVE  [Store!Next]_(Store!vars)
  <2>1. /\ UNCHANGED <<declared, body, snap, col, before>>
        /\ status[e] = None /\ status'[e] = st /\ st # None
        /\ \A f \in Exchange : f # e => status'[f] = status[f]
    <3>1. call[e] # "returned"
      BY <1>4 DEF HandlerReturns
    <3>2. status[e] = None
      BY <1>0, <3>1, AnsweredParts
    <3>3. QED
      BY <1>4, <3>2, RecorderAssumption DEF HandlerReturns, TypeOK
  <2>2. <<e, "status">> \in Known
    BY KnowsParts
  <2>3. StoreKnows[<<e, "status">>] = None /\ StoreKnows'[<<e, "status">>] # None
    BY <2>1, KnowsParts, KnowsPartsNext
  <2>4. ASSUME NEW p \in Known, p # <<e, "status">> PROVE StoreKnows'[p] = StoreKnows[p]
    <3>1. /\ Clone(p[1])'.declared = Clone(p[1]).declared
          /\ Clone(p[1])'.body = Clone(p[1]).body
      BY <2>1 DEF Clone
    <3>2. p[2] = "status" => Clone(p[1])'.status = Clone(p[1]).status
      <4>1. p[2] = "status" => p[1] # e /\ p[1] \in Exchange
        BY <2>4, KnownParts
      <4>2. QED
        BY <2>1, <4>1 DEF Clone
    <3>3. QED
      BY <3>1, <3>2, SameSaid
  <2>5. QED
    BY <1>0, <1>1, <2>1, <2>2, <2>3, <2>4, WriteStep
<1>5. ASSUME NEW e \in Exchange, NEW t \in Type, DeclareOk(e, t)
      PROVE  [Store!Next]_(Store!vars)
  <2>1. /\ UNCHANGED <<status, body, snap, col, before>>
        /\ declared'[e] = t /\ t # None
        /\ \A f \in Exchange : f # e => declared'[f] = declared[f]
    BY <1>5, RecorderAssumption DEF DeclareOk, TypeOK
  <2>2. <<e, "declared">> \in Known
    BY KnowsParts
  <2>3. \/ StoreKnows'[<<e, "declared">>] = StoreKnows[<<e, "declared">>]
        \/ StoreKnows[<<e, "declared">>] = None /\ StoreKnows'[<<e, "declared">>] # None
    <3>1. StoreKnows'[<<e, "declared">>] = "declared" /\ None # "declared"
      BY <2>1, KnowsPartsNext, RecorderAssumption
    <3>2. StoreKnows[<<e, "declared">>] = IF declared[e] = None THEN None ELSE "declared"
      BY KnowsParts
    <3>3. QED
      BY <3>1, <3>2
  <2>4. ASSUME NEW p \in Known, p # <<e, "declared">> PROVE StoreKnows'[p] = StoreKnows[p]
    <3>1. /\ Clone(p[1])'.status = Clone(p[1]).status
          /\ Clone(p[1])'.body = Clone(p[1]).body
      BY <2>1 DEF Clone
    <3>2. p[2] = "declared" => Clone(p[1])'.declared = Clone(p[1]).declared
      <4>1. p[2] = "declared" => p[1] # e /\ p[1] \in Exchange
        BY <2>4, KnownParts
      <4>2. QED
        BY <2>1, <4>1 DEF Clone
    <3>3. QED
      BY <3>1, <3>2, SameSaid
  <2>5. QED
    BY <1>0, <1>1, <2>1, <2>2, <2>3, <2>4, WriteStep
<1>6. ASSUME NEW m \in Message, StoreBody(m)
      PROVE  [Store!Next]_(Store!vars)
  <2>1. /\ UNCHANGED <<status, declared, snap, col, before>>
        /\ body[m] = NoBody /\ body'[m] \in Body
        /\ \A n \in Message : n # m => body'[n] = body[n]
    BY <1>6 DEF StoreBody, StageInv, TypeOK
  <2>2. m \in Known
    BY KnowsParts
  <2>3. \/ StoreKnows'[m] = StoreKnows[m]
        \/ StoreKnows[m] = None /\ StoreKnows'[m] # None
    <3>1. StoreKnows'[m] = IF body'[m] = NoBody THEN None ELSE body'[m]
      BY KnowsPartsNext
    <3>2. StoreKnows[m] = None
      BY <2>1, KnowsParts
    <3>3. body'[m] # None
      BY <2>1, RecorderAssumption
    <3>4. QED
      BY <3>1, <3>2, <3>3
  <2>4. ASSUME NEW p \in Known, p # m PROVE StoreKnows'[p] = StoreKnows[p]
    <3>1. CASE p[2] \in {"status", "declared"}
      <4>1. /\ Clone(p[1])'.status = Clone(p[1]).status
            /\ Clone(p[1])'.declared = Clone(p[1]).declared
        BY <2>1 DEF Clone
      <4>2. QED
        BY <3>1, <4>1, SameSaid
    <3>2. CASE p[2] \notin {"status", "declared"}
      <4>1. p \in Message
        BY <3>2, KnownParts
      <4>2. body'[p] = body[p]
        BY <2>1, <2>4, <4>1
      <4>3. QED
        BY <4>1, <4>2, KnowsParts, KnowsPartsNext
    <3>3. QED
      BY <3>1, <3>2
  <2>5. QED
    BY <1>0, <1>1, <2>1, <2>2, <2>3, <2>4, WriteStep
<1>7. ASSUME NEW m \in Message,
             (\E p \in Payload : Record(m, p)) \/ \E w \in pending[m].warn : PushWarning(m, w)
      PROVE  UNCHANGED Store!vars
  BY <1>2, <1>7 DEF Record, PushWarning
<1>8. ASSUME NEW c \in Config, Configure(c) PROVE UNCHANGED Store!vars
  BY <1>2, <1>8 DEF Configure
<1>9. ASSUME NEW k \in Collector, CollectStart(k) PROVE Store!Begin(k)
  BY <1>0, <1>1, <1>9, BeginStep
<1>10. ASSUME NEW k \in Collector, CollectEnd(k) PROVE Store!Finish(k)
  BY <1>0, <1>1, <1>10, FinishStep
<1>11. ASSUME NEW k \in Collector, CloneOne(k) \/ Emit(k) PROVE UNCHANGED Store!vars
  <2>1. /\ UNCHANGED <<status, declared, body, before>>
        /\ \A l \in Collector : l # k => col'[l] = col[l] /\ snap'[l] = snap[l]
    BY <1>11 DEF CloneOne, Emit, TypeOK
  <2>2. /\ Done(k)' <=> Done(k)
        /\ Done(k) => snap'[k] = snap[k]
        /\ col'[k] = "collecting" <=> col[k] = "collecting"
    <3>1. CASE CloneOne(k)
      BY <3>1 DEF CloneOne, Done
    <3>2. CASE Emit(k)
      BY <3>2 DEF Emit, Done, TypeOK
    <3>3. QED
      BY <1>11, <3>1, <3>2
  <2>3. \A l \in Collector :
          /\ (Done(l)' <=> Done(l)) /\ (Done(l) => snap'[l] = snap[l])
          /\ col'[l] = "collecting" <=> col[l] = "collecting"
    BY <2>1, <2>2 DEF Done
  <2>4. QED
    BY <1>0, <1>1, <2>1, <2>3, SilentStep
<1>12. CASE UNCHANGED vars
  BY <1>2, <1>12 DEF vars
<1>13. CASE Next
  BY <1>2, <1>3, <1>4, <1>5, <1>6, <1>7, <1>8, <1>9, <1>10, <1>11, <1>12, <1>13
     DEF Next, Quiet, Store!Next
<1>14. QED
  BY <1>12, <1>13

(***************************************************************************)
(* src/store.rs is a write-once record with ordered reads: for any number  *)
(* of requests, declarations and collectors, every initial state and every *)
(* step of Recorder maps to one of WriteOnce, or to none.                  *)
(***************************************************************************)
THEOREM RecorderImplementsStore == Spec => ImplementsStore
<1>1. Spec => [](TypeOK /\ StageInv /\ SnapshotInv)
  BY RecorderTypes, Stages, SnapshotsHold, PTL
<1>2. QED
  BY <1>1, StoreStarts, StoreSteps, PTL DEF Spec, Store!Spec, ImplementsStore
===============================================================================
