# Verification of DProvenanceKit (Python)

DProvenanceKit records what an AI agent did as typed events, stores them durably and without
blocking the caller, and compares, queries and replays the recorded runs. This directory holds
TLA+ models of its parts, the TLC configurations that check them on small instances, and proofs
of some of their properties that TLAPS checks for every instance.

## 1. The system

| part | state | operations | interacts with |
| --- | --- | --- | --- |
| recording (`kit.py`, `context.py`, `instrument.py`, `facade.py`) | per run a sequence counter under a lock; per task a stack of engines, the span and its parent (contextvars); the facade's implicit store and last run | `run`, `with_engine`, `with_span`, `record`, `link`; decorators for functions, coroutines and generators; `trace`, `save`, `diff`, `explain` | hands numbered events to a store |
| write buffer (`write_buffer.py`, `config.py`, `priority.py`) | four FIFO tiers with stamps, counters (rows, bytes, depth of each run), drop tally, retry queue, edge queues; one lock | `enqueue`, `enqueue_edge`, `drain`, `flush_all`, `drain_edges`, `requeue` | any thread enqueues, the writer drains and requeues |
| SQLite store and writer (`sqlite_store.py`, `drop_stats.py`) | the buffer, the run states (`_active_runs`), tables `trace_events`, `trace_edges`, `runs`; the writer lock | `record`, `link`, tick, `flush`, `close`, opening a file with its reconciliation; readers, each of which flushes first | drains the buffer in a transaction, then writes the runs table |
| in-memory store and live queries (`store.py`, `live_engine.py`, `anomaly.py`) | events by run, three inverted indices, edges, an unbounded queue to one consumer thread; subscriptions and their matching runs | `record`, `link`, readers, `close`; `register`, `process` | the consumer calls the engine, the engine calls subscribers |
| queries and rules (`query.py`, `rules.py`) | none | AST evaluation on objects, guaranteed constraints for the indices, compilation to SQL; anomalies of a run | used by both stores, live queries and the command line |
| lineage (`store.py`, `sqlite_store.py`, `graph.py`, `verification.py`) | none | ancestry and impact of an event up to a depth, validation of the graph | breadth-first in memory, recursive SQL in the file |
| integrations (`integrations/*.py`) | open spans by framework id, open runs | callbacks of LangChain, OpenAI Agents, CrewAI, LlamaIndex; wrapped GenAI and MCP calls | called concurrently, record into a run |
| OpenTelemetry ingest (`otel_ingest.py`, `cli.py`) | none of its own | decode, de-duplicate, build the span forest, emit runs with ids derived from trace ids | writes a store, skips runs it finds there |
| alignment (`alignment_*.py`, `verification.py`) | none | match two runs, interpret the differences, rate the risk, tell findings and a narrative, audit the evidence | fed with two runs |
| diff, gate and baselines (`diff.py`, `testing.py`, `pytest_plugin.py`, `raw_store.py`, `cli.py`) | the baseline file; in pytest the set of names claimed | structural diff, fingerprint, verdict; `dpk record`, `dpk gate`, the `golden_trace` fixture, the facade's golden file | read a store other processes write to |
| corpus and benchmark (`corpus.py`, `benchmark.py`) | none | labelled pairs of runs; score, timeline and diagnosis of a case | runs the aligner |
| replay (`replay.py`, `snapshot_diff.py`) | none | rebuild the span tree of a run at any point; compare two snapshots | fed with committed and quarantined events |
| attestation (`attestation.py`, `canonical.py`) | none | validate and sign a run, verify a document | |
| everything else (viewers, reports, CI scripts) | none | presentation or sequential glue | |

Two things are hard here. One is the path from `record` to the file: events of many threads are
numbered under one lock and enqueued under another, rows are shed by priority, batches fail and
come back, metadata is written behind the data, and the process may die anywhere. The other is
that almost everything is implemented more than once and must agree (objects, indices and SQL;
verdict, findings and narrative; a live subscription and a query), over inputs that arrive late,
twice or out of order: callbacks of frameworks, spans of collectors, snapshots of a growing run.
`PROJECT.json` lists the hazards one by one, at their lines.

What makes each part correct:

* recording: one number for each event of a run; the graph of spans is complete and says what
  happened; nothing of an operation that is over is kept or leaks into other code;
* write buffer: bounded memory, no row lost without being counted, cheap rows shed before dear
  ones, insertion order kept through eviction, partial drains and requeues;
* SQLite store: no silent loss, metadata never ahead of data, a flush makes earlier records
  readable, a reopened file is reconciled, a busy database only delays;
* live queries: a subscriber hears of a run once, when it starts to match, and close delivers
  what was recorded before it;
* queries, lineage, rules: the implementations agree, and with what they say of a run;
* ingest: the same trace, delivered in any way, gives the same run once;
* alignment, diff, gate: the verdict is about what differs, and whatever is said repeats it;
* baselines: what is pinned is one whole run, whenever it is read;
* replay: every event is accounted for; attestation: nothing changed verifies.

## 2. Modules

| module | models | state ↔ code |
| --- | --- | --- |
| `WriteBuffer` | `TraceWriteBuffer`, driven by recorders and by the writer's drain, insert, requeue cycle | `tiers`, `totalCount`, `totalBytes`, `enqueueCounter`, `dropped`, `depthByRun`, `retryQueue`, `edgeQueue`, `retryEdges` are the fields of the object; `op` is its lock and names the call that holds it; `stage`, `batch`, `batchEdges` are where the writer stands; `offered`, `handedOver`, `edgesOffered` are history |
| `LossyQueue` | what the buffer promises to the writer: a queue that counts its losses and delivers a prefix at a time | the target of the refinement `ImplementsQueue` |
| `WriteBufferProofs` | theorems about `WriteBuffer`: types and sums; order, refinement and the counters | |
| `RunRows` | `OfRun`: the rows of one run in a table or queue, in their order | shared by `SQLiteStore` and `OTelIngest` |
| `SequenceFacts` | lemmas that the proofs share: parts of a sequence, sequences that increase in a relation, what `OfRun` keeps, induction over the numbers | |
| `SQLiteStore` | `SQLiteTraceStore`, `SQLiteWriter`, the sequence counter of `ActiveTraceRun` and the drop tally, over several sessions on one file | `nextSeq` and `held` are the counter and a thread between its two locks; `retry`, `live`, `edges` the buffer as `LossyQueue` describes it; `tally` the drop statistics; `wpc` and `mode` the holder of the writer lock; `active` and `dirty` the run states; `events`, `edgeTable`, `runs` the tables |
| `SQLiteStoreProofs` | theorems about `SQLiteStore` | |
| `LiveStore` | `InMemoryTraceStore` and the live query engine, over a query language that is a parameter | `eventsByRun`, `index`, `edges`, `queue`, `subscribed`, `matching`, `impacted`, `globals` are the fields; `consumer` and `closing` the consumer thread and `close`; `last`, `fresh`, `reported`, `owed` are history |
| `LiveStoreProofs` | theorems about `LiveStore` | |
| `TraceQuery` | pure: the query AST on runs, the builder, the planner, the SQL as expressions over sets of rows, rules and their confirmations, the two lineage walks, the graph validators | no state |
| `RunLog` | the common log of the recording adapters: events and links of `ActiveTraceRun`, and what they say of spans | `log` and `edges` are what was recorded; `fw` is the framework, `mem` the adapter |
| `LangChain`, `OpenAIAgents`, `LlamaIndex`, `CrewAI` | one handler each, under every order of callbacks the framework may produce | `mem` is the handler's table of spans, runs, pending links or stack; `fw`, which is external, what is open in the framework |
| `RecorderProofs` | theorems about `LangChain`, `LlamaIndex`, `OpenAIAgents` and `CrewAI` | |
| `Instrumentation` | `traced`, traced coroutines and generators, the facade's block, the GenAI wrapper, an MCP point, run scopes, in two tasks | `mem` holds the context variables of each task, `fw` the frames of its call stack and the live generators |
| `InstrumentationProofs` | theorems about `Instrumentation` | |
| `OTelIngest` | classification, de-duplication, span forest and walk as operators; the ingest command, the writer behind it and its death as actions | `existing`, `todo`, `ingested` are the locals of the command, `buffer` what the writer has not committed, `rows` and `listed` the tables `trace_events` and `runs`; `asked` and `torn` are history |
| `OTelIngestProofs` | theorems about `OTelIngest` | |
| `Alignment` | pure: scores, greedy matcher, interpreter, risk, the gate's `check`, the run fingerprint | no state; an event is its place in the run |
| `Comparison` | two runs that are recorded and compared by the gate | `goldenRun` and `candidateRun` are the runs as they are stored |
| `TraceDiff` | pure: `difflib`'s matching blocks and the structural diff | no state |
| `Reports` | pure: findings, narrative, audit of the evidence, score, timeline and diagnosis of a benchmark case | no state |
| `Corpus` | pure: every case of the two corpora | no state |
| `Replay` | pure: the span tree with orphans and contamination, manifest, diff of two snapshots | no state |
| `Attestation` | pure: validation, canonical form, signing, the order of the checks of a verification | no state |
| `Signing` | a trace as `dpk attest` is given it, its document, and edits of both | `subject` is the `AttestableTrace` |
| `Baseline` | agents, `dpk record` and `dpk gate` as processes over the trace database and the baseline file | `db` and `baseline` are the two files; `record` and `gate` the processes with what they have loaded |
| `GoldenTrace` | the `golden_trace` fixture over several sessions | `files` the committed baselines, `claimed` the registry of names, `test` the block that runs |
| `FacadeGolden` | `save`, `diff` of the facade and the raw store it reads with | `store` and `last` are the implicit store and the last run, `sqlite` and `jsonl` the golden file, `saving` the call of `save` and its writer |
| `OfflineProofs` | theorems about `Comparison`, hence `Alignment`, `Baseline`, `GoldenTrace` and `Signing`, hence `Attestation` | |
| `MCWriteBuffer`, `MCSQLiteStore`, `MCLiveStore`, `MCRecorders`, `MCOTelIngest`, `MCOffline` | the instances; `MCRecorders` composes the adapters over `RunLog`, `MCOffline` everything that works on recorded runs | |

In `WriteBuffer` each iteration of a loop under the lock (an eviction, a row of the merge, a row
shed by the retry cap) is a step of its own, so the invariants are checked inside the calls as
well as between them. Rows are abstracted to run, priority and size. The limits are those of
`OfflineConfig` plus the cap per run; `DrainMax` holds the arguments of `drain`, and a large one
stands for `flush_all`. A config without any limit (`sys.maxsize`) is not instantiated.

`SQLiteStore` replaces the tiers by their promise: rows in the order of their stamps, retries
first, and some row shed, in any position, when an arrival finds the live part full. A signature
is the row it hashes, a fingerprint is the sequence of rows hashed. A batch transaction commits,
is busy, or fails for another reason, and each of these may happen at any attempt; after the
database is closed only the last one can. `CommitBatch` folds the batch into the run states in
the same step, since nothing can see them in between: the writer lock is held and a crash loses
both. The death of the process is `Crash`; the file keeps its committed transactions (a loss of
power that takes committed WAL pages with it, which `synchronous=NORMAL` permits, is left out).
A run belongs to one session, as `ActiveTraceRun` draws fresh ids.

`LiveStore` treats `record` as one critical section, as the store lock makes it: event, indices and
queue item. `Process` is one call of the engine: the subscriptions the event may affect are visited
in an arbitrary order (the code iterates over a set), any of those that match may raise, and the
rest is then not visited. `MCLiveStore` gives the language of `TraceQuery` to it.

An adapter is modelled callback by callback, one step each where the handler holds a lock. The
LangChain handler has none, so each of its callbacks is two steps: it records, then it touches its
table. Payloads, previews and token counts are left out; `owner` in an event is history, what the
event was really about.

`OTelIngest` takes one turn of the loop over the traces of a file at a time: `SkipTrace` or
`RecordTrace`, while the writer commits any number of recorded events (`Commit`) and now and then
lists the runs it has committed (`ListRuns`). A death keeps both tables as they are: `torn` remembers
the runs that had rows and were not listed then. A run id is derived from the bytes of a trace id,
which exporters spell differently (hexadecimal in either case, base64), so two spellings may have one
run; inside one file they do not, as `_decode_spans` counts on ("Casing is consistent within one
exporter's file") and `IngestAssumption` says. The events of a call are supposed to fit the buffer:
a run of more than `max_per_run_buffer` rows (5,000 by default) in one flush may be thinned by it,
while the command prints the whole count. No other program locks the database; `WriteBuffer` and
`SQLiteStore` tell what happens otherwise.

In the pure modules a step of a run is its type, value, priority, parent and engine; its number is
its place. Scores are integers in thousandths; the products the code computes in floating point are
exact there for the profiles it ships, and the thresholds are not at a rounding boundary. A digest
is what it digests, a signature the envelope and its key. An evaluator says how much two payloads
of a type resemble each other, which is all the aligner asks of it.

`Baseline` and `FacadeGolden` let the writer commit in batches cut anywhere, and every process die
between any two steps. The busy retries of the writer are those of `SQLiteStore` and not repeated.

## 3. Runs

| run | instance | shows |
| --- | --- | --- |
| `WriteBuffer` | five rows (each tier, one priority outside the tiers, two runs, two sizes), three configurations (count, bytes, event size and per-run caps that bind; both policies), two edges | `TypeOK`, `CountsAgree`, `WithinCapacity`, `Conservation`, `InsertionOrder`, `CheapestFirst`, `ImplementsQueue` |
| `SQLiteStore` | two recorders, two runs, three events, of which the second of each run has a priority outside the tiers, one edge, a buffer of one, two sessions | `TypeOK`, `NoSilentLoss`, `MetadataFollowsEvents`, `ThreadOrder`, `FlushBarrier`, `ReopenReconciles` |
| `SQLiteStoreLive` | one recorder, three events, some of no tier | `EventuallyWritten`, `EventuallyListed`, under fairness |
| `LiveStore` | two runs, three records out of sequence by one, one edge, three subscriptions: two whose callbacks raise, one registered late and again; 53 queries, five rules | `TypeOK`, `BackendsAgree`, `DetectorExact`, `MatchStateCurrent`, `ReportedOnce`, `CloseDrains`, `SnapshotsGrow`, and under fairness `EventuallyDelivered`, `CloseTerminates` |
| `Recorders` | nine instances, one per behaviour: three LangChain nodes; two OpenAI traces that share two span ids; three LlamaIndex operations with a stray end; two kickoffs of two crews, of one crew, one inside the other, and with `link_lifecycle` off; instrumented code in two tasks with nested runs, and three spans deep in one run | `EdgesJoinSpans`, `LineageComplete`, `MemoryIsCurrent`, `Attribution`, `OneCompletion` |
| `Offline` | nine parts, one per behaviour (below) | ingest: `NoDuplicateRows`, `WellNested`, `Canonical`, `PrintedIsStored`, `EveryTraceStored`; compare: `GateIsExact`; compare and benchmark: `VerdictExplained`; replay: `ReplayKeepsAll`; graph: `WalksAgree`; attest: `AttestedUnchanged`; pin, pytest, facade: `BaselineWhole` |
| `SQLiteStoreOrder`, `SQLiteStoreFingerprint`, `CrewAttribution`, `GateReorder`, `GateNoise`, `IngestTwice` | smallest that shows it (`CrewAttribution`: the instances of `Recorders`; `GateReorder`, `GateNoise`: the compare part of `Offline`, `IngestTwice` its ingest part) | a sentence of the documentation that the code does not keep |

The bounds of the core. Capacities of one to three rows are enough for every branch: an arrival
that fits, one that evicts in each tier, one that evicts several rows for its bytes, one that is
given up after evictions, a retry queue over its cap by more than one row, partial and full drains.
Five rows cover one of each tier and an integer that is no tier. In `SQLiteStore` the second event of
every run has such an integer (`OffTier`), so each run has a row the tally counts and one it ignores; three events are
what it takes to have one committed, one retried and one new, of one run or of two, by one thread
or by two; a buffer of one makes both the shed of an arrival and that of a queued row happen; two
sessions give one crash with a recovery. `MaxEvents`, `MaxEdges` and `MaxSessions` only stop the
model; the code has no such limits.

`LiveStore`. Three records make a run that matches, stops to match and matches again, two runs, and
a step that is numbered before another and arrives after it. The queries are ten leaves alone, negated, in a
conjunction after a negation, in a disjunction with a compound member and nested the other way, and
the empty ones. The reads depend on the store alone, so `BackendsAgree` and `DetectorExact` look at
the states in which the consumer has not run, among which every store occurs. `MatchStateCurrent`
holds for subscriptions whose queries are local, as those of the instance are (`LocalAt`: an event of
a type that a query does not mention leaves its truth alone; see the observations for queries that
are not), and `ReportedOnce` speaks of the subscriptions in `Monotone`, whose queries cannot become
false and whose rules confirm what they select (`MonotoneAt`). `InstanceAssumption` evaluates both
over every history of two events and the event after it.

`Recorders`. Three nodes, operations or spans make a parent with two children and a grandchild;
two traces, crews, runs or tasks make ids that come back and contexts that differ. `MaxRepeats`,
`MaxStray`, `MaxPoints`, `MaxSpans`, `MaxSteps` and `MaxRuns` bound the frameworks. Nodes, traces,
spans and operations are symmetric, and no liveness property is checked with symmetry.

`Offline`. *ingest*: every way to link three spans (roots, orphans, self-parents, cycles) in one
delivery, three of these trees in four deliveries over two files with unfinished and repeated
copies and a second trace, whose id the second file may spell otherwise, up to three calls, the process
dead at any step. *compare*: all pairs of
runs of up to three steps out of five that differ in one feature each, under both profiles of the
gate; three steps hold a swap, a duplicate and a removal with their neighbour. *benchmark*: every
base of the corpora against every candidate, so each case against its own and 12 others. *replay*:
logs of three events with all numbers up to three, two spans, cycles, gaps, a quarantined event
that was committed before; every point in time. *graph*: all graphs of three edges on four nodes,
one of which is not stored; every depth up to two and none. *attest*: two events and two edges, the
malformed ones included, and every edit of one of them or of the envelope. *pin*: two runs of up to
two steps, one edge. *pytest*: two names of which one reads like the file of the other. *facade*:
four events in up to two runs, saved in all batches to either kind of file.

`CHECK_DEADLOCK FALSE` stands in the configurations of `LiveStore`, `Recorders`, `CrewAttribution`,
`Offline`, `IngestTwice`, `GateNoise` and `GateReorder`, whose systems may stop: a live store that is closed and records no more, an adapter
whose framework has nothing open, an offline command that has ended.

Fairness (`FairSpec` of `SQLiteStore`). `_loop` calls `_tick` as long as the store is not shut down, and a thread
that is inside `_process_batch` proceeds: weak fairness of `BeginTick` and of the writer's steps.
Nothing in the code makes a database recover; that a lock is released at some time is an
assumption about its other users, stated as strong fairness of `CommitBatch` and `FlushRuns`: an
operation that is attempted again and again succeeds at some time. Recorders, flushes, close and
crashes have no fairness, and the two properties claim nothing once the store is being closed:
the last flush of `close` may leave rows in the retry queue.

`LiveStore`: the consumer thread loops until the sentinel (weak fairness of `Consume` and
`TakeSentinel`), and the join in `close` returns once the thread has ended (weak fairness of
`CloseReturns`). A callback that never returns would break the first; the code has no protection
against it, and the model assumes that callbacks return or raise. Nobody has to record, register
or close.

### Where documents and code part

Checked, each by the run that shows it:

* `CommitOrderIsSequenceOrder`: numbering and enqueueing are two critical sections, so the commit
  order of one run can differ from its sequence order, and with it the fingerprint.
* `FingerprintCoversRun`: reconciliation repairs the count of a run and not its fingerprint.
* `SkippedNotDuplicated`: `ingest` reads the runs to skip before it opens the store, and it is the
  opening that lists runs whose events were committed and whose row in `runs` was not written. A
  trace that a death left in that state is recorded a second time by the next call, beside its old
  rows; the call after that counts both.
* `NoiseIsIgnored`: the locality of a pair is the distance of raw sequence numbers, which filtered
  telemetry enlarges, so noise can fail the gate under the developer profile.
* `VerdictMatchesFindings`: the risk counts the crossings of all bound critical pairs, and the
  interpreter calls a pair below its threshold, or with a rival, ambiguous before it looks for
  crossings. A high risk for "reordered" steps then comes without a reorder finding, although
  `alignment_engine.py:108-110` says the two can never disagree; the narrative opens "fully stable"
  beside "regression risk: High".
* `NestedCrewsApart`: an event of a tool goes to the innermost kickoff that is open when the event is
  delivered, and the bus delivers out of order: the start of the tool that kicks off a sub-crew can
  join the run of the sub-crew, although `crewai.py:60-61` calls the attribution exact for nested crews.

Met while modelling, and outside what the properties claim:

* Loss. The retry cap pops the tail of the retry queue, the newest rows of the backlog
  (`write_buffer.py:286-287`); the comment above it, at 284-285, says that it sheds the oldest so that
  the most recent work survives. `Conservation` says that what is shed is counted. A row whose priority
  is none of the four tiers is counted by the buffer as telemetry and by `TraceDropTally` not at all
  (`drop_stats.py:82`), so when its payload does not encode, or its batch fails for good, it is lost
  in silence, although `sqlite_store.py:5-7` promises the count and `drop_stats.py:65-67` that nothing
  vanishes. `NoSilentLoss` and `EventuallyWritten` except such rows, and no others.
* Flush. When the database is locked, `flush` requeues the batch, logs, and returns normally
  (`sqlite_store.py:240`) with the rows in memory, although line 5 and `TRACE_SPEC_v1.md:195` call it
  a true barrier. `FlushBarrier` is about the flushes whose transactions succeeded.
* Write buffer. Critical rows displace older critical rows when nothing else is queued, and under
  `REJECT_NEW` are refused (`write_buffer.py:157`), although `priority.py:33` says "NEVER dropped".
  They are counted (`Conservation`), and nothing cheaper is left then (`CheapestFirst`).
* Live queries. A query over an engine and a type goes stale for events of other types, unless
  another subscription happens to mention them. A per-engine looping rule whose threshold is passed
  only after its query first matched is never reported live. A callback that registers a
  subscription waits for a lock its caller holds. Records behind the sentinel, and a second
  `close`, are not served. Equal sequence numbers in one run make the back ends differ.
* Ingest. A run cut short by a death is skipped by later calls. Of a trace split over two files
  only the first file's spans are kept. Two concurrent processes record a trace twice. Copies of a
  span that end at the same time and disagree on the error are decided by their order, so `Canonical`
  leaves those out.
* Recorders. With `link_lifecycle` off the LangChain handler never pops `_start_event`
  (`langchain.py:371`). A crew kicked off again before its completion is delivered shares the first
  run; an event of an operation that comes before any kickoff is dropped. A LlamaIndex operation whose parent has ended hangs under the ambient span. A
  generator finished in another run leaves its end there. The facade and the GenAI wrapper catch
  `Exception` only. OpenAI spans outside their trace are dropped.
* Comparison. `cli.py:274-277` says
  strict_audit reads a pure reorder as matching; it reports a reorder. The findings do not list
  removed or added steps below critical on which the strict gate fails. The gate ignores the
  engine. The benchmark never diagnoses `CANDIDATE_EVICTED`. Two snapshots that hold equal
  identities among their root events differ from themselves; orphans are not compared.
* Baselines. Opening a store to read reconciles the runs of a live writer, so `dpk record` may pin
  a run that is still written: a prefix of it, no shorter than what it printed. `dpk gate` without
  a new run compares the baseline with itself. `golden_trace` unlinks the baseline before it
  replaces it (`pytest_plugin.py:142`), so a death in between loses it, although lines 72-73 call
  the promotion atomic; an update session whose block records nothing leaves an empty baseline.
* Facade. `save`, `explain` and `diff` take the run of the block entered last, not of the one
  completed last, as `facade.py:38-41` has it. A block left by `KeyboardInterrupt`, `CancelledError` or
  `GeneratorExit` has a start and neither an end nor an error (`facade.py:81`), so the indentation of
  `explain` does not come back from it. A second save of a run into one `.sqlite` file loses
  every batch with an id that is already there: what the run grew by may be missing, or have a
  hole in front, and a save that was killed cannot be repeated.

## 4. Proofs

TLAPS checks the theorems below for every value of the constants, so for any number of threads,
runs, rows, sessions and subscriptions, any capacities and any query language. The only
assumptions are the named ones of the modules: `RowAssumption`, `ConfigAssumption` and
`BoundsAssumption` of `WriteBuffer` (a row has a run, an integer priority and a size, limits are
natural numbers, drains ask for at least one row), `StoreAssumption` of `SQLiteStore` (bounds are
natural numbers, runs are finitely many), `LiveAssumption` of `LiveStore` (sorts of the constants) and
`IngestAssumption` of `OTelIngest` (sorts, one spelling of a trace id in a file, see section 2, and that
`NoSpan`, the parent that is not there, is no span: spans without an id are not decoded);
the theorems about `LangChain` and `OpenAIAgents` suppose that `NoNode` is no node and `NoSpan` no span,
which in the code are `None` and never an id, and those about `CrewAI`
(`CrewSorts`) that links are switched on, that no parent and no key, `None` in the code as well, are
neither span nor crew, and that the operations the listener does not hear of are not among those it does. Those about the gate and
baselines suppose that the priority of a step is one of the four, and `BaselineSorts` also that runs, as
`ActiveTraceRun` makes them, are finitely many and none of them is `NoRun`. `SigningSorts` says that ids
and sequence numbers are integers, all that matters of them being that they are ordered, and that an edge
has one of the six types.
The bounds of a model (`MaxEvents`, `MaxRecords`, ...) are such constants, so a theorem holds with
each of them however large. Every inductive invariant named here was checked by TLC on the
instance of the run before it was proved.

| theorem | says | inductive invariant |
| --- | --- | --- |
| `WriteBufferProofs`: `TypeCorrect`, `Conserved`, `CapacityKept` | `TypeOK`, `Conservation`, `WithinCapacity` | `CountInv` |
| `WriteBufferProofs`: `LeavesInOrder`, `TakesCheapest`, `RefinesQueue` | `InsertionOrder`, `CheapestFirst`, `ImplementsQueue` | `FlowInv` |
| `WriteBufferProofs`: `CountersExact` | `CountsAgree` | `SizeInv` with `FlowInv` |
| `SQLiteStoreProofs`: `TypeCorrect`, `RecordingOrder`, `LossIsCounted` | `TypeOK`, `ThreadOrder`, `NoSilentLoss` | `TypeInv`, `LineInv`, `SessionInv` |
| `SQLiteStoreProofs`: `MetadataIsBehind`, `ReopenRepairs`, `FlushIsBarrier` | `MetadataFollowsEvents`, `ReopenReconciles`, `FlushBarrier` | these with `FoldInv`, `BarrierInv` |
| `LiveStoreProofs`: `TypeCorrect`, `SnapshotsInOrder`, `NothingLeftBehind` | `TypeOK`, `SnapshotsGrow`, `CloseDrains` | `ArriveInv`, `StopInv`, `EngineInv`, `IndexInv` |
| `LiveStoreProofs`: `SkippingIsSound`, `ReportedAsItMatches` | `MatchStateCurrent`, `ReportedOnce` | `ArriveInv`, `EngineInv`, `ReportInv` |
| `RecorderProofs`: `LangChainJoins`, `LangChainLineage` | `EdgesJoinSpans`; `Complete` and `Current` of `LangChain` | `ChainInv` |
| `RecorderProofs`: `LlamaIndexJoins`, `LlamaIndexCompletes`, `LlamaIndexLineage` | `EdgesJoinSpans`, `OneCompletion`; `Complete`, `Current` and `Attributed` of `LlamaIndex` | `LlamaInv` |
| `RecorderProofs`: `OpenAIAgentsJoin`, `OpenAIAgentsComplete`, `OpenAIAgentsLineage` | `EdgesJoinSpans` with `WithinRun`, `OneCompletion`; `Complete`, `Current` and `Attributed` of `OpenAIAgents` | `AgentInv` |
| `InstrumentationProofs`: `InstrumentationJoins`, `InstrumentationCompletes`, `InstrumentationLineage`, `InstrumentationCurrent` | `EdgesJoinSpans`, `OneCompletion`; `Complete` and `Attributed`, `Current` of `Instrumentation` | `CodeInv` |
| `RecorderProofs`: `CrewAIJoins`, `CrewAILineage` | `EdgesJoinSpans` with `WithinRun`; `Complete` and `Current` of `CrewAI` | `CrewInv` |
| `OTelIngestProofs`: `NoRowTwice`, `SummariesAreStored`, `NoTraceLost` | `NoDuplicateRows`, `PrintedIsStored`, `EveryTraceStored` | `IngestInv` |
| `OTelIngestProofs`: `WalkIsCanonical` | `Canonical` | `IngestTypes` |
| `OTelIngestProofs`: `WalkNests` | `WellNested` | `IngestTypes`; of the walk, `WalkInv` |
| `OfflineProofs`: `GateExact` | `GateIsExact` | that the runs are runs: `ExactForRuns` is about every pair |
| `OfflineProofs`: `PinnedIsWhole` | `PinnedWhole` and `GateExit` of `Baseline` | `PinInv` |
| `OfflineProofs`: `ReportsAreTrue` | `ReportsHold` of `GoldenTrace` | `GoldenInv` |
| `OfflineProofs`: `AttestationBinds` | `AttestedUnchanged` | that the trace is a trace: `DocumentBinds` is about every one |

**Write buffer.** `Conservation` says nothing of `totalCount`, on which a drain decides whether the
tiers are looked at, and `WithinCapacity` cannot bound a batch that a merge is still filling.
`CountInv` adds what is missing: the lock and the writer's stage belong together (`ControlInv`: a
merge is in progress exactly while a drain holds the lock, it starts with no retries left, nothing is
held outside a cycle), the counter is the occupancy (`CountIsOccupancy`), and what a merge has taken
plus what it can still take fits under twice `max_items` (`RoomInv`).

`InsertionOrder` speaks of what was handed over and what is on its way. That the next row keeps it
depends on where all the others are: `OrderInv` says that everything handed over was admitted before
everything in the batch, that before the retries, and those before the tiers, each part in order, the
tiers only each by itself, with no stamp used twice. The merge takes the least front of the four
tiers, and this makes it the least of all that is left (lemmas `FrontLeaves` and `MergeOrder`).
`EdgeInv` is the same for edges. The refinement maps the four tiers to the one queue that holds their
rows by stamp: every step of the buffer is a step of `LossyQueue` (an arrival, the loss of a row
anywhere in the live part, a drain of a prefix, a requeue, the loss of the newest retry) or leaves
the queue alone, as the iterations of a loop do that only move rows within it. `CheapestFirst` is an
action property and follows from `FlowInv` in one step.

`totalBytes` is a sum over a set (`MapThenSumSet`), which the library defines by a choice of the next
element. `SumExists` and `SumsAgree` show by induction on the size of the set that the choice does not
matter, `BytesAdd` and `BytesRemove` that one row adds or takes its own size; with them `SizeInv` is
inductive, also between the evictions of one `enqueue`.

**SQLite store.** All rows are in one line: table, batch, retries, live. `LineInv` keeps it in order
(`OrderInv`), keeps the batch empty outside a cycle (`CycleInv`), puts what a thread still holds
behind everything (`HeldInv`), keeps numbers in use below the counter of their run (`NumberInv`),
what was lost apart and counted (`LostInv`), and every number that was handed out for an event of a tier
somewhere (`PlaceInv`). None of these is inductive alone: that a shed row is not counted twice needs that it
occurs once in the line, which needs that a number which is recorded is new, which needs the held
events of the other threads. `SessionInv` says that memory holds rows of this session only, so a
crash takes no row of an earlier one. The order is that of one thread in one run, since two threads
may enqueue in the order opposite to their numbers; `CommitOrderIsSequenceOrder` below is refuted.

`FoldInv` says that the state of a run in memory is the run's rows in the table. With it
a write of the runs table copies a fold of committed rows, and a reconciliation counts them.
The rows of a run in a queue are a recursive function of the queue (`OfRun`); `SequenceFacts` shows
that it exists, that it is unique, and what it makes of an append and of a concatenation. `BarrierInv`
follows the rows that a flush found in the buffer through its drain, its transaction and its write
of the runs table.

**Live store.** `QueueInv` describes the queue to the consumer: of every run exactly the snapshots
that were not consumed yet, in the order of their events, and sentinels between them. `SeenInv` says
that the last snapshot consumed is the one after the `Seen(r)`-th arrival. `HeadIsNext` follows: the
consumer meets the snapshots of a run one after the other, each with one event more, although the
events inside a snapshot are sorted by numbers that may arrive out of order (`Sorted`: the sort keeps
exactly the events). `StopInv` adds that, from `close` on, the one sentinel is behind everything owed.
`EngineInv` says that subscriptions are where `_affected` looks for them and remember only runs that
were shown.

`SkippingIsSound` and `ReportedAsItMatches` have hypotheses on the queries, `LocalQuery` and
`MonotoneQuery`: `LocalAt` and `MonotoneAt` for every history. They are what the engine relies on when
it chooses the candidates of an event by its type and reports a run only when it begins to match; the
queries of the instance satisfy them, and the observations tell what happens to a query that does not.

**Recording adapters.** `EdgesJoinSpans` and `OneCompletion` speak of the log alone, but what is
linked next is decided by the handler's table, and what the framework may call next by the phases. The
invariants tie the three: which events of a span are in the log is what its phase says, one of each,
the table holds the place of the start of exactly the spans that wait for their end, and every pair
that is to be linked is, except for those whose callback has recorded and has not linked yet. In
`ChainInv` these are the nodes in phase `starting` or `finishing`, between the two steps of a callback,
and `ChainParents` says that a parent stays open as long as a child is starting: that is what lets the
second step find the parent's start in the table. In `LlamaInv` a span is the place of its start, so
an end either closes the span of an operation that ended or, when stray, has one of its own; whether a
parent was open when a child started is told by the ends that were before it in the log
(`LlamaParents`). `AgentInv` adds that a live trace has a run that no other trace ever had
(`AgentRuns`), without which equal span ids of two traces could be linked with each other.
`LinkAdded` and `LinkedOnce` serve all three: a link made for an event that is being recorded is new,
and one that is there is there once. `Complete` in the theorems is stronger than what a step shows:
links are counted (`Times`), so none is missing and none is made twice.

**CrewAI.** Nothing is known of the order in which events arrive, so there is no phase to lean on.
`CrewInv` says instead that what a run remembers is a function of what was recorded in it (`Tracks`):
the two places of a span are where its events are in the log, or nowhere; an edge is marked as made
exactly when both its ends are there; and those that wait for a parent are its children that started
before it (`Orphans`). An event on the bus is not in the log, so the field it is going to fill is
still empty (`NotYetThere`), and what `_resolve_edges` then makes of the state is what the longer log
says (`EndResolved`, `StartResolved`, `TracksEnded`, `TracksStarted`). The edges to the children that
waited are a set put in some order; `SetInSeq` and `FlatSingles` show that each comes once, whichever.
A kickoff ends only when everything before it was delivered (`CrewBus`), so its run is known then and
the fallback to the active run in the code is never taken for it. No two crews have the same run
(`CrewRuns`), which keeps the runs apart that equal spans could join.

**Instrumented code.** Here one step records and links, but what it links is read from the context of
the task, which the frames on its stack have set, and a generator takes its span from task to task.
`CodeInv` therefore says two things beside what the log holds. A span is open in one place, a frame of
one task or a paused generator (`CodeOpen`): that is why it ends once. And the frames of a task nest
(`Nested`): there is a context for every depth of the stack, the innermost is the one the task has,
each frame makes its context from the one below, has saved that one, and its step was started in the
log. A frame that is left puts back what it saved, unless it is a generator's, which restores nothing
because it never changed anything: `Current` says that this is enough, whatever was
resumed or closed in between. It is stated with `FoldLeft`, whose definition chooses a function on
sets of places; `FoldExists` and `FoldIsNested` show that there is one and that it computes the
contexts of `Nested`.

**Ingest.** What a call has recorded is in two places, the table and the buffer, and a commit only
moves it from one to the other: `Recorded` is the table followed by the buffer. `IngestInv` says of it
that the events of each run are numbered from zero (`NumbersInv`), that they end with the events of
the run's summary and are nothing else unless a death tore the run (`PrintedInv`), and that every run
in it was known when the call began, is one the call will print, or is torn (`KnownInv`). A trace is
recorded only if the call does not know its run, so its events are the first of that run; for this the
traces the loop has still to look at must be of different runs, and one that was recorded since the
last file must be among the known (`TodoInv`): here `IngestAssumption` enters. `CoveredInv` says that
every trace of a file that was read is known, or has nothing to record, or is still to come. A death
takes the buffer, and what is left of a run is a front of it (`SequencePrefix`); a run that is not
listed then is torn, and the theorems say what remains true of it.

The walk is a recursive function; `LoopRuns` and `EmitIsSequence` show that it exists and yields a
sequence for every tree, with cycles and orphans, `ScanExists` and `TracesAreListed` that `TracesOf`
lists each trace of a file once. The kept copy of a span is defined by a choice; `LatestExists` and
`KeptIsMostComplete` show that there is one and that it is most complete, so two files whose most
complete copies are the same, and agree on errors, lead to the same walk (`WalkIsCanonical`).

`WalkNests` follows the walk turn by turn. `WalkInv` says that a span lies on the stack open until it is
visited and closing until it ends, each at most once (`StackInv`); that whatever a visited span leads to
is visited or open, and was found under its one parent (`ReachInv`, `OneParent`), so that no turn finds a
span twice; that the events are those of the visited spans, and an end is missing exactly while its entry
is on the stack (`EventInv`); and that below every entry of a span lies the closing entry of the span it
is nested in (`NestInv`), also across spans that are left out (`NextBelowIs`). A turn visits or closes
(`TurnIs`), so the spans visited and those ended are one more after it (`TurnProgresses`), and after two
turns for each span the stack is empty (`AllDone`): this is also why the bound in `Emit` loses nothing. What
was visited is then closed under children and holds the roots, which makes it `Reachable`, the least
such set.

**Gate.** `GateIsExact` is about every pair of runs of any length. The matcher takes the best pair
left again and again; `AssignIsGreedy` shows that what it ends with is a matching in which no pair is
passed over for a worse one, `BestIsBest` that the best is unique. In one direction, runs with the
same steps score fully along a diagonal, no other pair precedes one of the diagonal whose step it
disputes, so the diagonal is what is bound (`DiagonalIsBound`, `DiagonalIsAll`) and nothing is
reported. In the other, a report without a finding leaves every step of both runs bound, to one with
its payload (`ScoreTellsPayload`), and no two bindings crossed: an increasing map of one run onto the
other, which is the identity (`PartnersIncrease`). Under the developer profile only the
critical steps have to be bound, and `TolerantPassKeeps` says what becomes of them.

`PinInv` follows a run from the database to the gate. What `dpk record` has loaded is a prefix of
the run in a database that only grows (`Grows`), the pruned copy holds that run and no other, the
baseline is such a copy as soon as it is there, and so is the file the gate has read; the exit code
is the verdict about them. `GoldenInv` ties what a test is reported as to the registry of names: who
recorded or passed has claimed its file, so no later test of the session writes to it, and between
the two steps of a promotion the file belongs to the test that promotes.

**Attestation.** `_validate_edges` goes through the edges round by round, each from the set of events and
the ends found so far, until a round finds nothing. `PassAnchors` shows that a pass takes every edge that touches what is anchored, and
nothing that is not connected with it; a round that is not the last has used up an edge, so as many
rounds as there are edges are enough. Hence `AnchoredIsClosure`: what ends up anchored is the least set
that holds the ids of the events and, of each edge, both ends or none, in whatever order the edges come.
`SoundInOrder` turns the comparison of each event with the one before into one of all pairs. The canonical
order puts in place k the edge with k - 1 edges before it (`EarlierIsRank`), so it is a function of the
set of the edges (`SortedIsCanonical`), and two traces have one digest exactly when they are the same
trace (`SameDigest`). What remains is to follow the checks of a verification in their order
(`VerifyIs`, `DocumentBinds`), and that an edited trace is a trace and an edited document a document.
Digests and signatures are taken to be injective, which is what cryptography is trusted for.

**Induction.** The theorems of induction in the library take an operator and cannot be applied here.
`SetInduction` of `SequenceFacts` is induction for a set of numbers, from the well-foundedness of `<`;
the proofs above define the set of places, or of sizes, for which a fact holds.

**Model-checked only.** Liveness (`EventuallyWritten`, `EventuallyListed`, `EventuallyDelivered`,
`CloseTerminates`), which needs `ENABLED`. `LineageComplete`, `MemoryIsCurrent` and `Attribution` of
`MCRecorders` are what the theorems say of each adapter, put together, and of their CrewAI part the
instance with links switched off is not proved. `OneCompletion` of LangChain and CrewAI, which follows
from what the framework does: neither handler looks for a second completion. Of `BaselineWhole` the part about the facade
(`FacadeGolden`), which compares with the diff of `TraceDiff`. `VerdictExplained` and what it reads
in `Reports` and `Corpus`. `BackendsAgree`, `DetectorExact`, `WalksAgree`
and `ReplayKeepsAll`: `TraceQuery`, `TraceDiff` and `Replay`, and what extends them, hold recursive
operators, which the provers cannot expand.

## 5. Not modelled

* `ui_server.py`, `viewmodel.py`, `visualizer.py`, `render_hints.py`, `demo.py`: presentation of
  what the modelled parts return.
* `action/`, `gitlab/`, `scripts/`, `conformance/`: each calls the command line, the library or a
  hosting service once. The comment scripts look for their comment on the first page of a list and
  then write, on a service whose behaviour the repository does not fix.
* Of alignment reporting: rendering, snapshots and fingerprints of an alignment (formatting and
  hashing). Of replay: the evaluator noise of `perturbation.py` (random numbers).
* Of the rules: `UnregisteredToolRule`, which compares names in payloads with a set, and
  `build_rules`, which parses a file.
* Of the integrations: the FastAPI middleware and the Jupyter magic, which open one run each.
* Of the command line: `init`, `export`, `sync`, `runs`, `anomalies`, `ui` beyond the library
  function they call. Of the benchmark: the totals of a dataset and the comparison of two reports.
* Decoding, previews, token counts, byte encodings and the formats of keys and digests.

## 6. Plan

What is left is to prove more of the offline part: once the recursive operators of `TraceDiff`,
`Replay` and `TraceQuery` are functions, that a save of the facade is never half a run, that a replay
accounts for every event (`ReplayKeepsAll`) and that the back ends agree (`BackendsAgree`).
