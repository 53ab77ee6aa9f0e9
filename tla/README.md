# cyanotype in TLA+

`cyanotype` records a service's axum integration tests and writes an OpenAPI 3.1
document of what they exercised. It is a library inside a test binary: many tests
run at once on many threads, all of them write into one process-global store, the
bodies they record arrive in pieces while user code reads them, and at some moment
one test snapshots the store and emits the document. These modules state what each
part promises, check it with TLC on small instances, and prove the central parts
with TLAPS for every instance.

## 1. The system

| Component | Source | State | Operations |
|---|---|---|---|
| Streaming tee | `src/body.rs` | the wrapped body, a side buffer capped at 64 KiB, the `truncated` flag, the callback if it has not run | `poll_frame` (data, trailers, error, end), `finish` |
| Body classification | `src/exchange.rs`, `content_type_of` of `src/layer.rs` | none | `BodyCapture::from_captured` |
| Recording service | `src/layer.rs` | per request: how far `call` and each `record_side` are | `call`, `record_side` |
| Global store | `src/store.rs` | `Mutex<Vec<Arc<Mutex<Exchange>>>>`, `Mutex<Vec<String>>` of warnings | `push`, `snapshot`, `warn`, `warnings_snapshot` |
| Declarations | `src/declare.rs`, `receipt` of `src/lib.rs` | `declared_response_schema` of an exchange | `Receipt::declare_response` |
| Redaction | `src/redact.rs` | `Mutex<Redactions>` | `configure`, `redact_value`, `warn_undeclared_high_entropy` |
| Document assembly | `src/openapi.rs` | accumulators per operation and status, component maps | `build_document`, `operation_object`, `below_threshold_notice` |
| Schema inference | `src/infer.rs` | none | `infer_schema` and helpers |
| Emission | `src/lib.rs` | none | `collected`, `write_openapi`, `Destination` |
| Headers and auth | `src/auth.rs` | none | `capture_headers` |
| Route templates | `src/layer.rs`, `src/openapi.rs` | none | `to_openapi_template`, `path_parameters` |
| Errors | `src/error.rs` | none | messages only |

**How they interact.** `record()` installs `RecordLayer`. For each request `call`
captures the headers, **pushes** an exchange into the store, wraps the request body in
a tee and calls the handler; when the handler answers it stores the **status**, wraps
the response body in a second tee and attaches a `Receipt`. Each tee is driven by
whoever polls the body (the handler, then the test), and its **callback** is
`record_side`: classify, redact with the configuration of that moment, scan for
high-entropy strings and push warnings, and only then lock the exchange and store the
body. A test may call `declare_response`, which holds the exchange's mutex while the
caller's `Deserialize` runs. `collected()` clones every exchange while holding the
store's mutex; `write_openapi` later reads the warnings, folds the clones in store
order, infers schemas from the JSON samples and writes the document.

**What is hard.**
- *Concurrency*: requests, `configure()`, declarations and collectors interleave at
  every mutex; a snapshot is taken while bodies, statuses and declarations are still
  arriving; two levels of mutex are nested, and one is held while user code runs.
- *Ordering*: warnings before bodies; redaction before the scan; status before body;
  exchanges before warnings in a document.
- *Failure*: a body that fails in mid-stream or is dropped, a handler that panics, a
  type whose `Deserialize` fails or panics and poisons a mutex.
- *Files*: `std::fs::write` empties the path before it writes, may stop half-way, and
  other tests or test binaries may write the same path.
- *Boundaries*: the cap, the end of a stream announced early or late, thresholds
  applied to different counts, schemas of no samples, several `Authorization` headers,
  routes that look alike once templated, `"-"` as a string and as a path.

`PROJECT.json` lists each of these hazards at its line with the properties about it.

**What makes each part correct.** The tee changes nothing for the caller and reports
exactly once a faithful prefix with an exact flag. Classification depends on the whole
body and never keeps a partial document. The recorder never shows a redacted value,
never shows anything without its warning, never loses what it stored nor overwrites a
status or a body, takes consistent snapshots and never blocks for ever. Assembly counts
the exchanges it was given and asserts only what they warrant, every answered request is
in the document and nothing else, and nothing in a document dangles. Redaction is exact
at any depth. Inference accepts its own samples, asserts nothing that was not observed,
and shows no high-entropy value that was not warned about. An operation names the
schemes its requests presented. An emission that returned `Ok` has delivered its whole
document to where it was asked to.

## 2. Modules

Line references below are to the repository's `src/` directory.

| Module | What it is |
|---|---|
| `BodyTap` | abstract specification: bytes go to the caller, one summary of them to the recorder |
| `TeeBody` | `src/body.rs`, one action per result of `poll_frame` |
| `BodyCapture` | the classification operators of `src/exchange.rs` and `content_type_of` |
| `BodyRecording` | composes the two: one body from the wire to the store |
| `Recorder` | `src/layer.rs`, `src/store.rs`, `src/declare.rs`, `configure` and the emission calls, interleaved |
| `WriteOnce` | abstract specification: a record written once per key and read as a whole, which `Recorder` implements |
| `Assembly` | the loop of `build_document` in `src/openapi.rs`, one step per exchange of the snapshot |
| `Requests` | `Assembly` fed by requests: the scheme of `src/auth.rs`, `to_openapi_template`, `path_parameters` |
| `Document` | the document made of the accumulators: path items, operations, responses |
| `OpenapiFile` | the path written by `std::fs::write`, and the emissions to it |
| `Emission` | composes `Document` and `OpenapiFile`: `Destination` and `write_openapi` of `src/lib.rs` |
| `Lists` | two loops over a `Vec`: a filter, which `Requests` and `Infer` share, and a concatenation |
| `JsonValue` | `serde_json::Value`: kinds, children, the values inside a value with their locations |
| `Redact` | `redact_with` and `scan` of `src/redact.rs` over nested values |
| `Infer` | `src/infer.rs`, recursive functions over a growing sequence of samples |
| `Sampling` | composes `Redact` and `Infer`: bodies on their way to a schema, with `configure` |
| `MC...` | small instances for TLC |
| `BodyRecordingProofs` | TLAPS proofs about `TeeBody` and `BodyRecording` |
| `RecorderProofs`, `StoreProofs` | about `Recorder`: redaction and warnings; snapshots and the refinement of `WriteOnce` |
| `AssemblyProofs`, `EmissionProofs` | about `Assembly`; about `Requests`, `Document`, `OpenapiFile` and `Emission` |
| `ListsProofs` | induction, the existence of recursive functions, and what the loops of `Lists` compute |
| `InferProofs` | about `JsonValue` and `Infer`: lemmas on values, samples and schemas |
| `SamplingProofs` | about `Redact`, and the theorems of `Sampling` |

**TeeBody.** `buf`, `truncated` and `onFinish` are the struct's fields; `inner` is
whether the wrapped body has more to give; `forwarded`, `result` and `captured` are
history: the bytes the caller got, what its last poll returned, what `on_finish` was
given. The wrapped body is external: it may return data or trailers, and with them
already answer `is_end_stream()`, or an error, or the end. A caller that drops a body
is a behaviour that simply has no further poll.

**BodyRecording** adds the message's `Content-Type`. A header is one of six classes,
which is what `content_type_of` and `from_captured` tell apart: absent, not readable as
a string, `application/json`, `+json`, the same suffix in another case (`ends_with` is
case-sensitive), anything else. JSON is a constant set of byte sequences. `WholeBody` is
the classification that DESIGN.md section 2 describes; the code departs from it for a
header that is not readable, which `ClassifiedAsWhole` excludes and
`ExplicitTypeIsTrusted` shows.

**Recorder.** A step lasts from one point where the code may wait for a mutex to the
next. `storeLock` is the store's mutex, which only a collector keeps across steps;
`declaring[e]` is the mutex of exchange `e`, which only `declare_response` keeps across
steps; other holders take and release within one step. A body is its kind plus the
names of the fields that show their value and of those that are masked; a field in
`Token` has a high-entropy value. `Payload` is what a tee may deliver, so every body of
`BodyRecording` is covered by one of its members. The history variable `protected[m]`
is the set of fields that were configured when the request arrived and ever since, up
to the moment the message was recorded; it is what a caller who follows the advice of
`configure` ("call it before the tests whose bodies need it run") may count on, and
the properties promise nothing about a field outside it. `before[k]` remembers what was
on record when collector `k` took the store's mutex. `poisoned` records panics under an
exchange's mutex; the code enters a poisoned mutex all the same, so no guard reads it,
and a mutant that does read it shows what would happen.

**Assembly.** `operations` and `byStatus` are the two accumulators (an entry created by
`or_default` is counted in the same iteration, so a zero count stands for an absent
entry). A schema is represented by where it came from: the samples given to
`infer_schema`, or the declared type. `Responses`, `ResponseSchema`,
`RequestRequired` and `Notice` read the document off the accumulators as
`operation_object` does. A declared type refers to named subschemas (`DefsOf`).

**WriteOnce** is what the store promises without mutexes, clones or an order: a key gets
its value once; a read returns all that was known when it began, nothing that is not
known when it ends, and all that any finished read returned. `Recorder!ImplementsStore`
maps the points of an exchange (its status, its declaration, each body) to keys, what a
collector's clones say to its view, and `before[k]` to the floor of its read.

**Requests.** A route is a sequence of segments, each of one of five forms: `:name`,
`*name`, `{name}`, a parameter behind a literal prefix (`x:`, as in `/user_:name`), and
plain. A template is what `to_openapi_template` leaves of it: `:name`, `*name` and
`{name}` are no longer distinguishable, and a prefixed parameter is literal text like a
plain segment. A header is a name and one of three classes of values: a bearer token,
other text, not text. The list of headers that `capture_headers` stores is not modelled:
it is written to the exchange, and nothing in `src/` reads it. `Lowercase` stands for
`to_ascii_lowercase` on methods. `ExchangeOf` is what `call` makes of a request, and
`Recorded` is one iteration of `Assembly` on it; `requests` is history.

**Document.** `OperationObject`, `PathItem` and `Paths` are `operation_object` and the
second loop of `build_document`; a response names its samples, so `DocumentIsEvidence`
can follow each request into the document and each entry back to a request.

**OpenapiFile.** A file is a sequence of pieces, each known by the emission that wrote
it, `Other` being an older file or a gap. `Open` truncates, `Write` writes any number of
pieces at the emission's own offset, which after another's truncation leaves a gap, and
`Fail` may end it at any point: an error, or the end of the process. `alone[w]` is
history: nobody else opened or wrote the path since `w` opened it. Properties promise
nothing of an emission that was not alone, since the code has no lock or rename.

**Emission.** `Folding` is `Requests`' step; then the document goes to stdout
(`println!` writes it under a lock, in one action, or panics when stdout cannot be
written) or to the path. What the test harness does with a test's stdout (libtest
captures and discards it, as the repository's README.md says) is not modelled. An
argument is its text and whether it came as a string or as a path, which is what the
`From` implementations of `Destination` tell apart. A document's length is one piece
plus one for each response in it.

**JsonValue.** A value is a record with its kind; `Children` are the values directly
inside it, by the key or index that leads to each, and `Parts` all values inside it with
their locations, a location being the sequence of those steps. A schema does not tell the
items of an array apart: `Place` is what it makes of a location. The set `Json` is a
constant, closed under taking children, and `Depth` says how deep each value is nested;
for TLC they are the finitely many values that occur in an instance, and they may
as well be all JSON values there are.

**Redact, Sampling.** `RedactWith` and `Scan` are the two walks. Which strings look
high-entropy is the constant `HighEntropy`, in which the marker is (the reason `scan`
excepts it). `Sampling` records one body per step under the configuration of that moment,
and `configure` may come between any two. `RedactionIsExact` and `Shown` are about
locations and places, not about the walks that the code makes.

**Infer.** A schema is the set of its subschemas, itself among them, each with its place:
the steps to it through `properties` and `items`. A subschema is the record of its
keywords, an absent keyword an absent field; a `type` is the set of its types,
`properties` the set of their names, `examples` the set of the values shown (their order
in the list is left out). `Keywords` is what one call of `infer_schema` says itself,
`SubSamples` which samples it calls itself with, below `properties` and `items`, and
`InferSchema` the two put together. `Validates` says what JSON Schema means by such a
schema, independently of how it was inferred.

Recursion is written with recursive functions throughout: over `0..Len(vs)` for a loop,
over `Json` for a walk, over `Seq(Json)` for `InferSchema`. `Lists` has its own `Select`
and `Concatenated` for `filter` and `extend`, because `SelectSeq` and `FlattenSeq` are
recursive operators, which cannot be reasoned about.

## 3. Runs

Passing runs:

| Run | Instance | What it shows |
|---|---|---|
| `body` | 2 byte values, frames of 0 to 3 bytes, cap 3, bodies up to 6 bytes | the tee implements `BodyTap`; its invariant; no further poll needed after a terminal result; what is stored is the class of the whole body, never a prefix, and stored once |
| `recorder` | 1 request with both bodies, 1 collector, 1 declaration that may fail or panic, 2 `configure` calls over all subsets of 2 fields, fairness | redaction, absence of false alarms, warnings before bodies, the inductive invariant of the proofs; snapshots are complete, declarations included; nobody waits for ever |
| `snapshots` | 2 requests, 2 collectors | snapshots are ordered and complete; recording only adds; the recorder implements `WriteOnce`; the inductive invariant of the proofs |
| `assembly` | up to 3 out of 51 kinds of request; 2 emissions to one path, 4 arguments of `write_openapi`, an older file | counts, `required`, the notice, declarations, references; security schemes; the document is the evidence; it arrives whole; the inductive invariant of the proofs |
| `inference` | up to 3 bodies out of 27 of every kind, `configure` at any moment | redaction is exact, declared fields show the marker, examples were warned about; samples validate; order, `required`, null and union/intersect rules |

Runs that end in a counterexample, each about a sentence of the repository:

| Run | What the code does | What the text says |
|---|---|---|
| `no_partial_sample` | a body whose stream failed is finished as if complete; if its prefix parses it is a sample | DESIGN.md section 2: "a partial JSON document is worse than none" |
| `undrained` | the status is stored before the body is read, so an undrained response is documented | comment in `build_document`: "e.g. the test never drained the body" |
| `withheld_notice` | the notice compares all responses, inference compares JSON samples | SPEC.md 4.3: shared constant "so the two cannot drift" |
| `references` | the first definition of a component name wins, whoever declared it | `exchange.rs`: subschemas "to be merged into `components.schemas`" |
| `every_sample` | a null among values of no common type gives `"type": ["null"]` | `infer_schema`: "describing every sample" |
| `explicit_type` | a Content-Type that is not visible ASCII is treated as absent and the body sniffed (`layer.rs:172`) | DESIGN.md section 2 and `exchange.rs:108`: an explicit non-JSON type "is never second-guessed" |
| `null_evidence` | an empty array gives its elements the type null (`infer.rs:29`) | SPEC.md 4.3: nullable "on positive evidence only — a `null` was observed" |

Where a passing property excepts what one of these runs shows, its comment says so:
`ClassifiedAsWhole` (`explicit_type`), `NullOnEvidenceOrEmpty` (`null_evidence`) and
`SamplesValidateUnlessMixed` (`every_sample`).

Differences seen while modelling that have no run: the fields of two elements of one
response's array are required, while the notice says of responses observed once that
"`required` is not asserted for these" (`infer.rs:83`, `openapi.rs:76`; in
`RequiredIsObserved` two elements are two objects); a type declared for one response documents every response of its status,
fitting or not, and `declare_response` is given bytes by the caller that are never
compared with the recorded body (against SPEC.md 4.2); a second type declared for the
same operation and status is silently ignored; `Opaque.len` is the captured length, not
the body's; examples depend on the order in which concurrent tests pushed; a document
may carry warnings about exchanges that are not in its snapshot; object keys are not
scanned for high entropy (`redact.rs:157`, against the README's "every undeclared
high-entropy string"; `WarnedWhereShown` is about values); methods that differ only in
case share an operation although HTTP methods are case-sensitive, and so do a parameter
and a literal segment in braces of its name, which is documented as a parameter; a
parameter behind a literal prefix (`/user_:name`), which axum's router captures, is
documented as literal text without a parameter (`layer.rs:185-190`); a declaration
overwrites an earlier one of the same response (`declare.rs:60`); the comment at
`layer.rs:178` refers to a passage on wildcards that README.md does not have.

**Bounds and why they are enough.** `MaxForwarded` is twice the cap, so a body can cross
it in one frame or in several, land on it exactly, and go on past it; the cap itself is
compared only with lengths. In `recorder` one request already has two messages recorded
concurrently, and the redaction and warning properties are about one message at a time;
two `configure` calls, from nothing configured, let a field become protected before or
after its request arrived, and be dropped again while its bodies are in flight. The
collector, the declaration and the recording of the bodies are the three parties that
meet at an exchange's mutex. `snapshots` has the two exchanges and two collectors that a
torn or reordered snapshot needs; there declarations are left out (`MaxDeclares = 0`)
and one plain body is the only payload, because the properties do not look into bodies.
`MaxExchanges = 3` covers zero, one, two and more exchanges of an operation, which is
all the threshold tells apart, and a first, a middle and a last declaration; the 51
kinds of request put every mix of status and bodies against one operation, two declared
types and repeated `Authorization` headers against two, and every form of segment
against every other. `MaxEmitted = 1` lets others write only beside documents of at most
one exchange: which exchanges a document holds does not matter to the file, only its
length, and `OtherLength` has a shorter and a longer one; the older file (`EarlierLength
= 3`) is longer than the document assembled here, so what is left of it would show.
Three samples cover the threshold of two and one beyond it; `MAX_EXAMPLES` is 2 so that
examples overflow. `Recorder`'s requests and collectors are symmetric where the run says
so; no liveness property is checked under symmetry.

**Deadlock** is checked in `body`, `recorder` and `snapshots`: in `Recorder` the action
`Quiet` stands for a process in which no thread is inside the recorder, the only
condition under which nothing need happen. It is also checked in `inference`, where a
caller may always configure. It is off in `assembly`, where loop and emissions end, and in
the runs of `MCAssembly` and `MCInfer`, whose loops end.

**Fairness** is used for one property, `Recorder!Fairness` for `LocksAreReleased`:
a thread inside `push`, `record_side`, `collected` or `declare_response` is eventually
scheduled, and a caller's `Deserialize` returns or panics. Weak fairness is enough
although `std::sync` mutexes are not fair, because every contender of an instance
takes a mutex a bounded number of times, as a finite test suite does. Nothing obliges
a handler to answer, a body to be read, or a test to declare or collect.

## 4. Proofs

Everything is proved for arbitrary constants, from the named assumptions in the modules,
which TLC also evaluates:

- `TeeAssumption`, `RecorderAssumption`, `AssemblyAssumption`, `RequestsAssumption`,
  `ExchangeAssumption`, `DocumentAssumption`, `FileAssumption`, `EmissionAssumption` and
  `InferAssumption` type the constants, say that `None` and `Other` are none of the values
  they stand beside, that `Input` has what `ExchangeOf` makes, and that at least one
  example is shown (`MAX_EXAMPLES` is 10 in the code).
- `JsonAssumption`: a value is of one of serde_json's kinds, an object or array is
  nothing but its fields or items, which are values too, and a value is nested less deep
  than what it is in. The last is what makes the walks of `src/redact.rs` and
  `src/infer.rs` end, as a `Value` is a finite tree.
- `RedactAssumption`: the marker is a JSON string and looks high-entropy, as the comment
  in `scan` says. `SamplingAssumption`: a redacted body is a JSON value. All three hold
  of the set of all JSON values.

The arguments:

- `BodyRecordingProofs`, the tee: `TypeCorrect`; `CaptureFaithful`, that `CaptureInv` is inductive;
  `TerminalReported`; `TeeImplementsTap`, the refinement. `ImplementsTap` alone is not
  inductive: a step's report can be compared with the bytes forwarded only if the
  buffer is known to be the kept prefix of them and the flag to be exact, and that the
  report is last needs the wrapped body to have ended. `CaptureInv` says both. The key
  lemma, `CopyKeepsPrefix`, is about `extend_from_slice` at the cap.
  The composed specification implements `TeeBody`'s, hence
  `SampleIsWhole`, `WholeIsClassified` (the classification of the report is the
  classification of the whole body, lemma `ClassOfSummary`, for every header but an
  unreadable one), `RecordsOnce`,
  `RecTypeCorrect`.
- `RecorderProofs`: `RecorderTypes` includes the lock discipline of the store's mutex.
  `RedactionHolds`, `NoAlarmForRedacted` and `WarningsPrecedeBodies` follow from
  `RecorderInv`, which has three parts. `StageInv`: nothing of a message is held,
  stored or cloned before it is recorded. `RedactInv`: until it is recorded, what is
  protected of a message is configured, and afterwards it is fixed and hidden; without
  the first half a `configure` call between arrival and recording would break the
  second. `WarnInv`: the warnings a body calls for are pushed, or still in
  `record_side`'s hands, so that by the time it is stored, and so before it can be
  cloned, all are pushed; a document reads them later still.
- `StoreProofs`, snapshots: `OnlyAdds` is about single steps, and needs of the reachable states
  that a body not yet stored is the default (`StageInv`) and that an exchange has no
  status before its handler answered (`StoreInv`). `NothingMissed` and
  `SnapshotsOrdered` follow from `SnapshotInv`. `CloneInv`: a snapshot's ids are a
  beginning of the store, and each clone is no newer than its exchange is now.
  `BeforeInv`: what was on record when a collector began still is, and shows in its
  clones. `DoneInv`: a finished snapshot is no newer, position by position, than the
  one being taken, which holds because a clone taken now is no older than any clone
  taken before; that the store's mutex is kept until the last clone is what makes the
  one being taken unique. When it ends it is as long as the store, so the order
  extends to all positions.
- `AssemblyProofs`: all of `Assembly`'s properties, from `AssemblyInv`, for snapshots of
  any length. Three of its parts go beyond the properties. `AllCarriedJson`: the code
  compares two counters, and that they are equal says that every single request
  carried JSON only because no list outgrows its count (in `TypeOK`).
  `FirstDeclared`: no declaration is kept only if no exchange has one, and the one
  kept is the earliest. `AllDefined`: what a kept declaration needs was defined when
  it was kept, and is never removed. `CountsAreEvidence` is inductive by itself; its
  lemmas are about appending to a sequence and to a set of positions. The two
  `build_document` steps are `Fold` and `Skip`; `Skip` changes no set of positions
  (`SamePositions`).
- `StoreProofs`, the refinement: `RecorderImplementsStore`. A step of `Recorder` writes a point of one
  exchange (`WriteStep`), begins or finishes a read, or shows nothing (`SilentStep`):
  that a clone is taken changes no answer before the last one, which is why a collector
  that clones one exchange after another is still a single read. `Finish` needs
  `SnapshotInv`: `BeforeInv` for the floor, `CloneInv` for what is known, and `DoneInv`
  with the order of snapshots for every earlier answer.
- `EmissionProofs`: `EmissionImplementsAssembly` first (the emission adds nothing to
  `Assembly`'s variables), so that `AssemblyInv` holds of what is emitted. `EmissionInv`
  adds three parts. `ReqInv` ties exchanges to requests and an operation's schemes to
  its exchanges. `FileInv`: an emission under way that is alone has written exactly the
  beginning of its document; `CleanEmissionIsWhole` is not inductive without it, as `Ok`
  compares lengths, not content. `Destined`: the document that is asked for is the one
  that is printed or begun, and cannot grow afterwards, because the loop is over.
  `SchemeOfLast` needs the last of a set of positions; `LastPosition` takes it from the
  well-foundedness of the natural numbers. `DocumentIsEvidence` goes through
  `AnsweredIffSeen` (a count is positive exactly if some exchange is behind it,
  `CountedIsIn`) and the order in which samples were appended (`KeptEvidence`).
- `ListsProofs`: a recursive function is a `CHOOSE`, of which nothing is known before some
  function is shown to satisfy its equation. `Recursion` shows it for any step that looks
  only at smaller arguments, has its values in a set given in advance, and depends on
  nothing else (`SolutionsAgree`, `SolutionsBelow`); `Loop` is the case of a loop over
  positions. The step is a constant function and the induction is over a set
  (`Induction`, `Least`), so neither needs an operator for a parameter. With them
  `SelectUnfolds` and `ConcatenatedUnfolds` give the equations of the loops, and
  `SelectSame` and `ConcatenatedSame` say that a permuted list is filtered and joined to
  a permuted one: `Same(f, xs, ys)` is that `f` renames the positions of `xs` into those
  of `ys`.
- `InferProofs`: values by induction on `Depth` (`JsonInduction`), samples by induction on
  a bound of it (`SamplesInduction`). `PartsUnfold` and `SchemaUnfolds` give the equations
  of `Parts` and `InferSchema`. `SeenBelow` is the heart: what the samples have at a
  place below a key or `items` is, up to renaming, what the samples of the recursive call
  have there. By induction `SchemaAtPlace` follows: each subschema has just the keywords
  of the values that are observed at its place, however deep. What is left are facts
  about the keywords of one list: they are satisfied by it unless it is mixed with a
  null (`SatisfiesUnlessMixed`, with `CommonTypeIsCommon`, that widening in a loop finds
  the least common type), do not depend on its order but for the examples
  (`KeywordsAgree`), and so on for `required` and null.
- `SamplingProofs`: the theorems about the schema need only that the samples are JSON,
  from `SampInv`, whose other parts say that each is its body redacted under the
  configuration of its moment, and that `warned` is what the scans found. `Recursion`
  does not give `RedactWith`, whose results are in no set known in advance;
  `RedactWithDefined` builds it level by level. `RedactionLeaves` describes the leaves of
  what it returns by locations, which is `RedactsExactly`; `RedactionMasks` says that
  nothing lies below a field that was declared, so that every value seen at the place of an
  always-declared field is the marker and `SchemaAtPlace` makes `MarkerIsShown` of it
  (`MaskedSchema`). `ScanFinds` says that `scan` reports exactly the locations of secrets,
  and `ShownIsObserved` that an example shows only what is at its place in some sample;
  `WarningsMatch` puts them together.

**Only model-checked**: the liveness property `LocksAreReleased`, as the prover has no
rule for fairness. Every other property of a passing run is stated
by a theorem. `SampInv` was checked by TLC on the instance of `inference` as well, though
it is in no run.

## 5. Not modelled, and why

- `poll_ready` and the swap of the service for its clone in `call` (`layer.rs:51-57`),
  and the fallback to the URI when there is no `MatchedPath` (`layer.rs:61-66`): both are
  the router's protocol, which `src/` only follows; no state of the recorder is in them.
- The arithmetic of `shannon_entropy_bits_per_char` (`redact.rs:104-129`): floating-point
  logarithms; which strings look high-entropy is a constant set. Its `MIN_LENGTH` counts
  bytes and the entropy counts characters.
- How a location is spelled in a warning (`redact.rs:157-167`): `Scan` keeps it as a
  sequence, so that a key with a dot in it, or an empty key, which the text makes
  ambiguous, is not.
- The list of headers that `capture_headers` stores, with its markers (`auth.rs:57-85`):
  it goes into the exchange and is read nowhere in `src/`; only the scheme derived from
  the headers reaches a document.
- Fixed text of the document, the wording of warnings, and `error.rs`, an enum of
  messages; an error is an outcome of the modules above. `CyanotypeError::Serialize` is
  left out: a `serde_json::Value` with string keys always serialises.
- A body that is dropped or never polled leaves the default `Empty`: `Recorder` allows
  it, and no property can tell it from an empty body (`CountsAreEvidence` holds of
  either; `UndrainedIsSilent` is the run about it).

## 6. Plan

What is left, in this order.

1. **Pipeline**: `Recorder`'s snapshots as `Requests`' input, for end-to-end properties
   (a protected value is in no sample of any document; counts of a later document are
   never smaller). `WriteOnce` is the interface: `Assembly` reads a finished view.
2. **Nested bodies in `Recorder`** through `Redact`: that a body's hidden names there are
   the declared fields of a nested value here, from `RedactionLeaves` and
   `RedactionMasks`.
3. **Progress of assembly**: that `Folding` ends after one step per exchange needs no
   fairness argument beyond a decreasing count, and could be stated as a bound.
