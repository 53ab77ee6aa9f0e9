------------------------------- MODULE Recorder -------------------------------
(***************************************************************************)
(* The recorder at run time: concurrent requests through RecordService     *)
(* (src/layer.rs), the process-global store (src/store.rs), declarations   *)
(* (src/declare.rs), the redaction configuration (src/redact.rs) and the   *)
(* collect-then-emit calls of src/lib.rs, interleaved between the points   *)
(* where the code takes or releases a mutex.                               *)
(*                                                                         *)
(* A body is what the later stages can tell of it: its kind and, for JSON, *)
(* the names of the fields that still show their value and of those that   *)
(* were masked.  How a body comes to be captured is BodyRecording's        *)
(* subject; here its payload is any member of Payload.                     *)
(***************************************************************************)
EXTENDS Integers, Sequences

CONSTANTS
  Exchange,       \* requests made by the tests of one process
  Collector,      \* calls of collected() followed by write_openapi()
  Status,         \* response status codes
  Type,           \* types a test may declare
  Field,          \* JSON field names
  Token,          \* the fields whose values look high-entropy
  Payload,        \* captured bodies: [kind, fields]
  Config,         \* field sets that configure() is called with
  None,           \* Option::None
  MaxConfigures,  \* bound: calls of configure()
  MaxDeclares     \* bound: calls of declare_response() per response

Side    == {"request", "response"}
Message == Exchange \X Side
Kind    == {"Empty", "Json", "Opaque", "Truncated"}
Body    == [kind : Kind, plain : SUBSET Field, masked : SUBSET Field]
Warning == [msg : Message, what : Token \cup {"truncated"}]

ASSUME RecorderAssumption ==
  /\ Token \subseteq Field
  /\ Payload \subseteq [kind : Kind, fields : SUBSET Field]
  /\ Config \subseteq SUBSET Field
  /\ None \notin Status \cup Type \cup Collector \cup Body \cup {"declared"}
  /\ "truncated" \notin Field
  /\ MaxConfigures \in Nat /\ MaxDeclares \in Nat

VARIABLES
  store,      \* the Vec of shared exchanges: their ids in push order
  storeLock,  \* who holds its mutex between two steps: a collector or None
  call,       \* RecordService::call per exchange
  status,     \* Exchange.response.status
  body,       \* Exchange.request.body and Exchange.response.body
  declared,   \* Exchange.declared_response_schema
  declaring,  \* declare_response holds the exchange's mutex
  declares,   \* how often declare_response has been called
  poisoned,   \* exchanges whose mutex a panic has poisoned
  stage,      \* how far record_side is with a message
  pending,    \* record_side's locals: the body, and the warnings to push
  warnings,   \* the global warnings Vec, as a set
  config,     \* the global Redactions
  configures, \* how often configure() has been called
  protected,  \* history: fields configured throughout a message's flight
  col,        \* where a collector is
  snap,       \* Collected.exchanges of a collector
  docWarnings,\* recording-time warnings in the document it emitted
  before      \* history: what was on record when a collector took the lock

callVars    == <<call, status, declared, declaring, declares, poisoned>>
messageVars == <<body, stage, pending>>
redactVars  == <<config, configures, protected>>
colVars     == <<storeLock, col, snap, docWarnings, before>>
vars == <<store, callVars, messageVars, warnings, redactVars, colVars>>

NoBody    == [kind |-> "Empty", plain |-> {}, masked |-> {}]
NoPending == [body |-> NoBody, warn |-> {}]
OnRecord  == [stored   |-> {m \in Message : stage[m] = "stored"},
              answered |-> {e \in Exchange : status[e] # None},
              declared |-> {e \in Exchange : declared[e] # None}]

Init ==
  /\ store = <<>> /\ storeLock = None
  /\ call = [e \in Exchange |-> "idle"]
  /\ status = [e \in Exchange |-> None]
  /\ declared = [e \in Exchange |-> None]
  /\ declaring = [e \in Exchange |-> FALSE]
  /\ declares = [e \in Exchange |-> 0]
  /\ poisoned = {}
  /\ body = [m \in Message |-> NoBody]
  /\ stage = [m \in Message |-> "unsent"]
  /\ pending = [m \in Message |-> NoPending]
  /\ warnings = {}
  /\ config = {} /\ configures = 0
  /\ protected = [m \in Message |-> {}]
  /\ col = [k \in Collector |-> "idle"]
  /\ snap = [k \in Collector |-> <<>>]
  /\ docWarnings = [k \in Collector |-> {}]
  /\ before = [k \in Collector |-> [stored |-> {}, answered |-> {}, declared |-> {}]]

-----------------------------------------------------------------------------
(* An exchange's mutex, held between two steps by declare_response alone.  *)

\* Mutated form: a lock() that gives up on a poisoned mutex.
NotPoisoned(e) == ~declaring[e] /\ e \notin poisoned

\* lock().unwrap_or_else(PoisonError::into_inner): poison is ignored.
CanLock(e) == ~declaring[e]

-----------------------------------------------------------------------------
(* A request through RecordService::call.                                  *)

Arrive(e) ==
  /\ call[e] = "idle"
  /\ call' = [call EXCEPT ![e] = "arriving"]
  /\ protected' = [m \in Message |-> IF m[1] = e THEN config ELSE protected[m]]
  /\ UNCHANGED <<store, status, declared, declaring, declares, poisoned, messageVars,
                 warnings, config, configures, colVars>>

\* Mutated form: the newest exchange goes to the front of the Vec.
PushedFirst(e) == <<e>> \o store
Pushed(e) == Append(store, e)

\* store::push waits for the store's mutex; then the request body is live.
Push(e) ==
  /\ call[e] = "arriving"
  /\ storeLock = None
  /\ store' = Pushed(e)
  /\ call' = [call EXCEPT ![e] = "running"]
  /\ stage' = [stage EXCEPT ![<<e, "request">>] = "open"]
  /\ UNCHANGED <<status, declared, declaring, declares, poisoned, body, pending,
                 warnings, redactVars, colVars>>

\* The handler answers: the status is stored before the body is read by anyone.
HandlerReturns(e, st) ==
  /\ call[e] = "running"
  /\ CanLock(e)
  /\ status' = [status EXCEPT ![e] = st]
  /\ call' = [call EXCEPT ![e] = "returned"]
  /\ stage' = [stage EXCEPT ![<<e, "response">>] = "open"]
  /\ UNCHANGED <<store, declared, declaring, declares, poisoned, body, pending,
                 warnings, redactVars, colVars>>

\* The handler panics, or the call is dropped: no response, no status, ever.
HandlerLost(e) ==
  /\ call[e] = "running"
  /\ call' = [call EXCEPT ![e] = "lost"]
  /\ UNCHANGED <<store, status, declared, declaring, declares, poisoned, messageVars,
                 warnings, redactVars, colVars>>

-----------------------------------------------------------------------------
(* record_side, run by whoever polls the body to its end.  A body that is  *)
(* never read to its end takes none of these steps.                        *)

\* Mutated forms: only responses redacted; the high-entropy scan run on the
\* body as it was before redaction; warnings left for after the body is stored.
RedactResponses(m, p) ==
  LET hide == IF m[2] = "response" THEN config ELSE {}
  IN  [kind |-> p.kind, plain |-> p.fields \ hide, masked |-> p.fields \cap hide]
ScanBeforeRedact(m, b) ==
  {[msg |-> m, what |-> f] : f \in (b.plain \cup b.masked) \cap Token} \cup
  {[msg |-> m, what |-> "truncated"] : x \in {b.kind} \cap {"Truncated"}}
WarnLater(m) == TRUE

\* redact_value, with one snapshot of the configuration for the whole body.
Redact(m, p) ==
  [kind |-> p.kind, plain |-> p.fields \ config, masked |-> p.fields \cap config]

\* warn_undeclared_high_entropy on the redacted body, and the truncation warning.
WarningsOf(m, b) ==
  {[msg |-> m, what |-> f] : f \in b.plain \cap Token} \cup
  {[msg |-> m, what |-> "truncated"] : x \in {b.kind} \cap {"Truncated"}}

Record(m, p) ==
  /\ stage[m] = "open"
  /\ stage' = [stage EXCEPT ![m] = "recording"]
  /\ pending' = [pending EXCEPT
                   ![m] = [body |-> Redact(m, p), warn |-> WarningsOf(m, Redact(m, p))]]
  /\ UNCHANGED <<store, callVars, body, warnings, redactVars, colVars>>

\* One store::warn: each message takes the warnings mutex for itself.
PushWarning(m, w) ==
  /\ w \in pending[m].warn
  /\ warnings' = warnings \cup {w}
  /\ pending' = [pending EXCEPT ![m].warn = @ \ {w}]
  /\ UNCHANGED <<store, callVars, body, stage, redactVars, colVars>>

\* All warnings are out before the body is stored.
Warned(m) == pending[m].warn = {}

StoreBody(m) ==
  /\ stage[m] = "recording"
  /\ Warned(m)
  /\ CanLock(m[1])
  /\ body' = [body EXCEPT ![m] = pending[m].body]
  /\ stage' = [stage EXCEPT ![m] = "stored"]
  /\ UNCHANGED <<store, callVars, pending, warnings, redactVars, colVars>>

-----------------------------------------------------------------------------
(* Receipt::declare_response, which holds the exchange's mutex while the   *)
(* declared type's own Deserialize runs.                                   *)

DeclareLock(e) ==
  /\ call[e] = "returned"
  /\ CanLock(e)
  /\ declares[e] < MaxDeclares
  /\ declaring' = [declaring EXCEPT ![e] = TRUE]
  /\ declares' = [declares EXCEPT ![e] = @ + 1]
  /\ UNCHANGED <<store, call, status, declared, poisoned, messageVars, warnings,
                 redactVars, colVars>>

Unlock(e) == declaring' = [declaring EXCEPT ![e] = FALSE]

DeclareOk(e, t) ==
  /\ declaring[e]
  /\ declared' = [declared EXCEPT ![e] = t]
  /\ Unlock(e)
  /\ UNCHANGED <<store, call, status, declares, poisoned, messageVars, warnings,
                 redactVars, colVars>>

\* The bytes do not deserialize: an error for the test, nothing recorded.
DeclareFails(e) ==
  /\ declaring[e]
  /\ Unlock(e)
  /\ UNCHANGED <<store, call, status, declared, declares, poisoned, messageVars,
                 warnings, redactVars, colVars>>

\* The type's own Deserialize or JsonSchema panics with the mutex held.
DeclarePanics(e) ==
  /\ declaring[e]
  /\ Unlock(e)
  /\ poisoned' = poisoned \cup {e}
  /\ UNCHANGED <<store, call, status, declared, declares, messageVars, warnings,
                 redactVars, colVars>>

-----------------------------------------------------------------------------
\* redact::configure replaces the configuration; it may race every request.
Configure(c) ==
  /\ configures < MaxConfigures
  /\ config' = c
  /\ configures' = configures + 1
  /\ protected' = [m \in Message |-> IF stage[m] \in {"unsent", "open"}
                                     THEN protected[m] \cap c ELSE protected[m]]
  /\ UNCHANGED <<store, callVars, messageVars, warnings, colVars>>

-----------------------------------------------------------------------------
(* collected(): store::snapshot holds the store's mutex while it clones    *)
(* the exchanges one after the other, each under its own mutex.            *)

\* Mutated form: the Vec's mutex released as soon as it has been read.
LockNothing(k) == storeLock' = storeLock

TakeLock(k) == storeLock' = k

CollectStart(k) ==
  /\ col[k] = "idle"
  /\ storeLock = None
  /\ TakeLock(k)
  /\ col' = [col EXCEPT ![k] = "collecting"]
  /\ before' = [before EXCEPT ![k] = OnRecord]
  /\ UNCHANGED <<store, callVars, messageVars, warnings, redactVars,
                 snap, docWarnings>>

Clone(e) == [id |-> e, status |-> status[e], declared |-> declared[e],
             body |-> [s \in Side |-> body[<<e, s>>]]]

CloneOne(k) ==
  /\ col[k] = "collecting"
  /\ Len(snap[k]) < Len(store)
  /\ LET e == store[Len(snap[k]) + 1]
     IN  /\ CanLock(e)
         /\ snap' = [snap EXCEPT ![k] = Append(@, Clone(e))]
  /\ UNCHANGED <<store, callVars, messageVars, warnings, redactVars,
                 storeLock, col, docWarnings, before>>

\* Mutated form: an iteration that stops one exchange early.
AllButOneCloned(k) == Len(snap[k]) + 1 >= Len(store)
AllCloned(k) == Len(snap[k]) = Len(store)

CollectEnd(k) ==
  /\ col[k] = "collecting"
  /\ AllCloned(k)
  /\ storeLock' = None
  /\ col' = [col EXCEPT ![k] = "collected"]
  /\ UNCHANGED <<store, callVars, messageVars, warnings, redactVars,
                 snap, docWarnings, before>>

\* write_openapi: the warnings of this moment, the exchanges of collected().
Emit(k) ==
  /\ col[k] = "collected"
  /\ docWarnings' = [docWarnings EXCEPT ![k] = warnings]
  /\ col' = [col EXCEPT ![k] = "emitted"]
  /\ UNCHANGED <<store, callVars, messageVars, warnings, redactVars,
                 storeLock, snap, before>>

\* The exchanges a document speaks of: build_document skips the statusless.
Documented(k) == {x \in {snap[k][i] : i \in DOMAIN snap[k]} : x.status # None}

-----------------------------------------------------------------------------
\* No thread is inside the recorder: the test process may pause or end here.
Quiet ==
  /\ \A e \in Exchange : call[e] # "arriving" /\ ~declaring[e]
  /\ \A m \in Message : stage[m] # "recording"
  /\ \A k \in Collector : col[k] # "collecting"
  /\ UNCHANGED vars

Next ==
  \/ \E e \in Exchange :
       \/ Arrive(e) \/ Push(e) \/ HandlerLost(e)
       \/ \E st \in Status : HandlerReturns(e, st)
       \/ DeclareLock(e) \/ DeclareFails(e) \/ DeclarePanics(e)
       \/ \E t \in Type : DeclareOk(e, t)
  \/ \E m \in Message :
       \/ \E p \in Payload : Record(m, p)
       \/ \E w \in pending[m].warn : PushWarning(m, w)
       \/ StoreBody(m)
  \/ \E c \in Config : Configure(c)
  \/ \E k \in Collector : CollectStart(k) \/ CloneOne(k) \/ CollectEnd(k) \/ Emit(k)
  \/ Quiet

Spec == Init /\ [][Next]_vars

(***************************************************************************)
(* What the scheduler owes: a thread inside push, record_side, collected() *)
(* or declare_response is eventually run, and a user's Deserialize returns *)
(* or panics.  Nothing obliges a handler to answer or a body to be read.   *)
(***************************************************************************)
Fairness ==
  /\ \A e \in Exchange :
       /\ WF_vars(Push(e))
       /\ WF_vars(DeclareFails(e) \/ DeclarePanics(e) \/ \E t \in Type : DeclareOk(e, t))
  /\ \A m \in Message :
       WF_vars(StoreBody(m) \/ \E w \in pending[m].warn : PushWarning(m, w))
  /\ \A k \in Collector : WF_vars(CloneOne(k) \/ CollectEnd(k))

FairSpec == Spec /\ Fairness

-----------------------------------------------------------------------------
Entry == [id : Exchange, status : Status \cup {None}, declared : Type \cup {None},
          body : [Side -> Body]]

\* The type invariant of the store, the locks and every thread's progress; a
\* collector between its first and last clone is the holder of the store's mutex.
TypeOK ==
  /\ store \in Seq(Exchange)
  /\ storeLock \in Collector \cup {None}
  /\ call \in [Exchange -> {"idle", "arriving", "running", "returned", "lost"}]
  /\ status \in [Exchange -> Status \cup {None}]
  /\ declared \in [Exchange -> Type \cup {None}]
  /\ declaring \in [Exchange -> BOOLEAN]
  /\ declares \in [Exchange -> 0..MaxDeclares]
  /\ poisoned \subseteq Exchange
  /\ body \in [Message -> Body]
  /\ stage \in [Message -> {"unsent", "open", "recording", "stored"}]
  /\ pending \in [Message -> [body : Body, warn : SUBSET Warning]]
  /\ warnings \subseteq Warning
  /\ config \subseteq Field
  /\ configures \in 0..MaxConfigures
  /\ protected \in [Message -> SUBSET Field]
  /\ col \in [Collector -> {"idle", "collecting", "collected", "emitted"}]
  /\ snap \in [Collector -> Seq(Entry)]
  /\ docWarnings \in [Collector -> SUBSET Warning]
  /\ before \in [Collector -> [stored : SUBSET Message, answered : SUBSET Exchange,
                               declared : SUBSET Exchange]]
  /\ \A k \in Collector : col[k] = "collecting" <=> storeLock = k

Snapped(k) == {snap[k][i] : i \in DOMAIN snap[k]}

(***************************************************************************)
(* A field that was declared redacted when its request arrived, and stayed *)
(* declared until its body was recorded, never shows its value: not in     *)
(* record_side's hands, not in the store, not in a snapshot, whatever      *)
(* configure() calls race the request (src/redact.rs, "replaced before     *)
(* they can reach storage or output").                                     *)
(***************************************************************************)
NoLeak ==
  /\ \A m \in Message : /\ pending[m].body.plain \cap protected[m] = {}
                         /\ body[m].plain \cap protected[m] = {}
  /\ \A k \in Collector : \A x \in Snapped(k), s \in Side :
       x.body[s].plain \cap protected[<<x.id, s>>] = {}

(***************************************************************************)
(* A field redacted throughout a message's flight raises no high-entropy   *)
(* warning: the scan sees the body after redaction (src/redact.rs, "or     *)
(* every correctly-redacted field reports itself as an undeclared one").   *)
(***************************************************************************)
NoFalseAlarm == \A w \in warnings : w.what \notin protected[w.msg]

(***************************************************************************)
(* Whatever a document is inferred from, it carries the warnings about it: *)
(* every high-entropy value left in a documented body, and every truncated *)
(* one, has its warning in that same document, although exchanges and      *)
(* warnings are read at two different moments (record_side of src/layer.rs *)
(* with snapshot and warnings_snapshot of src/store.rs).                   *)
(***************************************************************************)
WarnedBeforeVisible ==
  \A k \in Collector : col[k] = "emitted" =>
    \A x \in Documented(k), s \in Side :
      WarningsOf(<<x.id, s>>, x.body[s]) \subseteq docWarnings[k]

(***************************************************************************)
(* collected() misses nothing that was on record when it began: each body, *)
(* status and declaration stored by then is in its snapshot, and no        *)
(* exchange is in it twice (snapshot of src/store.rs).                     *)
(***************************************************************************)
CollectIsComplete ==
  \A k \in Collector : col[k] \in {"collected", "emitted"} =>
    /\ \A m \in before[k].stored :
         \E x \in Snapped(k) : x.id = m[1] /\ x.body[m[2]] = body[m]
    /\ \A e \in before[k].answered :
         \E x \in Snapped(k) : x.id = e /\ x.status = status[e]
    /\ \A e \in before[k].declared :
         \E x \in Snapped(k) : x.id = e /\ x.declared # None
    /\ \A i, j \in DOMAIN snap[k] : snap[k][i].id = snap[k][j].id => i = j

\* Entry y is entry x, or a later state of the same exchange.
NotNewer(x, y) ==
  /\ x.id = y.id
  /\ x.status \in {None, y.status}
  /\ x.declared # None => y.declared # None
  /\ \A s \in Side : x.body[s] \in {NoBody, y.body[s]}

SnapshotNotNewer(k, l) ==
  /\ Len(snap[k]) <= Len(snap[l])
  /\ \A i \in DOMAIN snap[k] : NotNewer(snap[k][i], snap[l][i])

(***************************************************************************)
(* Any two collected() results are ordered: one is an earlier version of   *)
(* the other in every exchange at once, never older in one and newer in    *)
(* another, because the Vec's mutex is held across all the clones          *)
(* (snapshot of src/store.rs).                                             *)
(***************************************************************************)
SnapshotsFormChain ==
  \A k, l \in Collector :
    col[k] \in {"collected", "emitted"} /\ col[l] \in {"collected", "emitted"}
      => SnapshotNotNewer(k, l) \/ SnapshotNotNewer(l, k)

(***************************************************************************)
(* Recording only adds: a stored status or body is never overwritten, a    *)
(* declaration never withdrawn, the store never reordered (record_side of  *)
(* src/layer.rs, push of src/store.rs).                                    *)
(***************************************************************************)
RecordingOnlyAdds ==
  [][/\ \A e \in Exchange : NotNewer(Clone(e), Clone(e)')
     /\ Len(store) <= Len(store') /\ store = SubSeq(store', 1, Len(store))]_vars

(***************************************************************************)
(* Nobody waits for ever on the store's mutex or an exchange's: arriving   *)
(* requests get in, collectors finish, and a body whose recording began is *)
(* stored (lock order store before exchange, src/store.rs; a poisoned      *)
(* mutex is entered all the same).                                         *)
(***************************************************************************)
LocksAreReleased ==
  /\ \A e \in Exchange : call[e] = "arriving" ~> call[e] = "running"
  /\ \A k \in Collector : col[k] = "collecting" ~> col[k] = "collected"
  /\ \A m \in Message : stage[m] = "recording" ~> stage[m] = "stored"

-----------------------------------------------------------------------------
(* The strengthening that makes NoLeak, NoFalseAlarm and                   *)
(* WarnedBeforeVisible inductive.                                          *)

Early == {"unsent", "open"}

\* Nothing is stored, held or snapshotted of a message before its time.
StageInv ==
  /\ \A e \in Exchange, s \in Side :
       call[e] \in {"idle", "arriving"} => stage[<<e, s>>] = "unsent"
  /\ \A e \in Exchange : call[e] # "returned" => stage[<<e, "response">>] = "unsent"
  /\ \A m \in Message : stage[m] # "stored" => body[m] = NoBody
  /\ \A m \in Message : stage[m] \in Early => pending[m] = NoPending
  /\ \A k \in Collector : \A i \in DOMAIN snap[k], s \in Side :
       stage[<<snap[k][i].id, s>>] # "stored" => snap[k][i].body[s] = NoBody

\* Until its body is recorded, what is protected of a message is configured;
\* from then on it is fixed, and neither shown nor warned about.
RedactInv ==
  /\ \A m \in Message : stage[m] \in Early => protected[m] \subseteq config
  /\ \A m \in Message : \A w \in pending[m].warn : w.msg = m /\ w.what \notin protected[m]
  /\ \A w \in warnings : stage[w.msg] \notin Early /\ w.what \notin protected[w.msg]
  /\ NoLeak

\* A warning is pushed, or about to be, before the body can be seen.
WarnInv ==
  /\ \A m \in Message : /\ WarningsOf(m, pending[m].body) \subseteq warnings \cup pending[m].warn
                         /\ WarningsOf(m, body[m]) \subseteq warnings
  /\ \A k \in Collector : \A i \in DOMAIN snap[k], s \in Side :
       LET w == WarningsOf(<<snap[k][i].id, s>>, snap[k][i].body[s])
       IN  w \subseteq warnings /\ (col[k] = "emitted" => w \subseteq docWarnings[k])

(***************************************************************************)
(* The three together: what record_side of src/layer.rs maintains at every *)
(* step of every interleaving, for redaction and warnings to be right.     *)
(***************************************************************************)
RecorderInv == StageInv /\ RedactInv /\ WarnInv

-----------------------------------------------------------------------------
(* The strengthening that makes RecordingOnlyAdds, CollectIsComplete and   *)
(* SnapshotsFormChain inductive.                                           *)

Done(k) == col[k] \in {"collected", "emitted"}

\* Each request that got in is in the store once; only answered ones have more.
StoreInv ==
  /\ \A e \in Exchange :
       /\ (\E i \in DOMAIN store : store[i] = e) <=> call[e] \notin {"idle", "arriving"}
       /\ status[e] # None \/ declaring[e] \/ declared[e] # None => call[e] = "returned"
  /\ \A i, j \in DOMAIN store : store[i] = store[j] => i = j

\* A snapshot is a beginning of the store, each clone no newer than its exchange.
CloneInv ==
  \A k \in Collector :
    /\ col[k] = "idle" => snap[k] = <<>>
    /\ Len(snap[k]) <= Len(store)
    /\ \A i \in DOMAIN snap[k] : /\ snap[k][i].id = store[i]
                                 /\ NotNewer(snap[k][i], Clone(store[i]))

\* What was on record when a collector began still is, and is in its clones.
BeforeInv ==
  \A k \in Collector :
    /\ \A m \in before[k].stored :
         /\ stage[m] = "stored"
         /\ \A i \in DOMAIN snap[k] : snap[k][i].id = m[1] => snap[k][i].body[m[2]] = body[m]
    /\ \A e \in before[k].answered :
         /\ status[e] # None
         /\ \A i \in DOMAIN snap[k] : snap[k][i].id = e => snap[k][i].status = status[e]
    /\ \A e \in before[k].declared :
         /\ declared[e] # None
         /\ \A i \in DOMAIN snap[k] : snap[k][i].id = e => snap[k][i].declared # None

\* The exchanges that a collector found something on record of.
Found(k) == {m[1] : m \in before[k].stored} \cup before[k].answered \cup before[k].declared

\* A finished snapshot has a clone of each, and is no newer than one under way.
DoneInv ==
  /\ \A k \in Collector : Done(k) =>
       \A e \in Found(k) : \E i \in DOMAIN snap[k] : snap[k][i].id = e
  /\ \A k, l \in Collector : Done(k) /\ col[l] = "collecting" =>
       \A i \in DOMAIN snap[k] \cap DOMAIN snap[l] : NotNewer(snap[k][i], snap[l][i])

(***************************************************************************)
(* What push and snapshot of src/store.rs maintain between the store, the  *)
(* clones taken so far and what was on record when each collector began.   *)
(***************************************************************************)
SnapshotInv == StoreInv /\ CloneInv /\ BeforeInv /\ DoneInv /\ SnapshotsFormChain

-----------------------------------------------------------------------------
(* Recorder implements WriteOnce: what the store knows of each exchange,   *)
(* and what a collector's snapshot says of it.                             *)

Known == Exchange \X ({"status", "declared"} \cup Side)

\* What entry x of an exchange says on one point, if anything.
Says(x, point) ==
  CASE point = "status"   -> x.status
    [] point = "declared" -> IF x.declared = None THEN None ELSE "declared"
    [] OTHER              -> IF x.body[point] = NoBody THEN None ELSE x.body[point]

\* The points that were on record when collector k began.
BeganWith(k) == (before[k].answered \X {"status"}) \cup (before[k].declared \X {"declared"})
                  \cup before[k].stored

StoreKnows == [q \in Known |-> Says(Clone(q[1]), q[2])]

Began == [k \in Collector |-> [q \in Known |-> IF q \in BeganWith(k) THEN StoreKnows[q] ELSE None]]

Position(x, e) == CHOOSE i \in DOMAIN x : x[i].id = e

\* What snapshot x says; nothing of an exchange that is not in it.
Answer(x, q) == IF \E i \in DOMAIN x : x[i].id = q[1]
                THEN Says(x[Position(x, q[1])], q[2]) ELSE None

Returned == [k \in Collector |-> [q \in Known |-> IF Done(k) THEN Answer(snap[k], q) ELSE None]]

Reading == [k \in Collector |-> IF Done(k) THEN "done"
                                ELSE IF col[k] = "collecting" THEN "reading" ELSE "idle"]

Store == INSTANCE WriteOnce WITH Key <- Known, Absent <- None, Reader <- Collector,
           known <- StoreKnows, floor <- Began, view <- Returned, reader <- Reading

(***************************************************************************)
(* collected() behaves like one read of a write-once record, although it   *)
(* clones the exchanges one after the other while they change: it holds    *)
(* all that was there before, and all that any finished collected() held   *)
(* (snapshot of src/store.rs).                                             *)
(***************************************************************************)
ImplementsStore == Store!Spec

-----------------------------------------------------------------------------
(***************************************************************************)
(* src/openapi.rs on skipping an exchange without a status: "Response      *)
(* never completed (e.g. the test never drained the body) -- nothing to    *)
(* say about it yet".  A documented response's body has been read.         *)
(***************************************************************************)
UndrainedIsSilent ==
  \A k \in Collector : col[k] = "emitted" =>
    \A x \in Documented(k) : stage[<<x.id, "response">>] # "open"
=============================================================================
