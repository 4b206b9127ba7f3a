------------------------------ MODULE OTelIngest ------------------------------
(***************************************************************************)
(* dprovenancekit/otel_ingest.py and the ingest subcommand of cli.py: the  *)
(* spans of exported files are deduplicated, arranged as a forest, walked  *)
(* depth first and recorded as one run per trace into a SQLite store,      *)
(* while its writer commits in the background and the process may die.     *)
(*                                                                         *)
(* Exporters deliver at least once: a file may hold several copies of a    *)
(* span, one of them cut short, in any order, and a trace may come in more *)
(* than one file.  Attributes are kept as far as the classification reads  *)
(* them; previews and other payload data are left out.  The events of a    *)
(* call fit the buffer of the writer, and no other program locks the       *)
(* database (WriteBuffer and SQLiteStore tell what happens then).          *)
(***************************************************************************)
EXTENDS Integers, Sequences, FiniteSets, SequencesExt, FiniteSetsExt, RunRows

CONSTANTS
  Span,         \* span ids, ordered as strings are: numbers
  TraceOf,      \* the trace of each span
  StartOf,      \* its start_ns
  RunIdOf,      \* run_id_for_trace
  Scenario,     \* what was exported: the parent and the attributes of each
                \* span, and the files its copies were written to
  Invocation,   \* the file lists the command may be called with
  MaxRuns       \* bound: calls of the command

NoSpan == 0   \* None; a span without an id is not decoded

Copy == [span : Span, end : Nat, error : BOOLEAN]

(* A run id stands for several spellings of a trace id (hexadecimal in     *)
(* either case, base64).  _decode_spans counts on one exporter's file to   *)
(* use one of them; files of two exporters may differ.                     *)
ASSUME IngestAssumption ==
  /\ Span \subseteq Nat \ {NoSpan}
  /\ StartOf \in [Span -> Nat]
  /\ DOMAIN TraceOf = Span /\ DOMAIN RunIdOf = {TraceOf[s] : s \in Span}
  /\ \A x \in Scenario : \A f \in DOMAIN x.files :
       /\ x.files[f] \in Seq(Copy)
       /\ \A i, j \in DOMAIN x.files[f] :
            LET t == TraceOf[x.files[f][i].span]
                u == TraceOf[x.files[f][j].span]
            IN  RunIdOf[t] = RunIdOf[u] => t = u
  /\ \A list \in Invocation : list \in Seq(Nat)
  /\ MaxRuns \in Nat

VARIABLES
  shape,    \* the spans' parents and attributes
  files,    \* the exported files
  pc,       \* the command: "idle", "file" (between files), "recording", "closed"
  calls,    \* how often it was called
  args,     \* the files it has still to ingest, the current one first
  existing, \* the run ids it skips
  todo,     \* the traces of the current file the loop has still to look at
  buffer,   \* events recorded and not yet committed by the writer
  ingested, \* the summaries it will print
  rows,     \* table trace_events
  listed,   \* table runs: the run ids in it
  asked,    \* history: the files this call has read
  torn      \* history: the runs that had rows and were not listed at a death

vars == <<shape, files, pc, calls, args, existing, todo, buffer, ingested, rows,
          listed, asked, torn>>

-----------------------------------------------------------------------------
(* Classification.  attrs maps a dialect's discriminating attribute to its *)
(* value: a step kind it names, or "unknown".                              *)

Kinds(dialect) ==
  CASE dialect = "openinference" -> {"llm_call", "tool_call", "agent_invocation",
         "chain", "retrieval", "embedding", "rerank", "guardrail"}
    [] dialect = "traceloop" -> {"tool_call", "agent_invocation", "chain"}
    [] dialect = "operation" -> {"llm_call", "embedding", "retrieval", "tool_call",
         "agent_invocation", "chain", "agent_creation"}
    [] dialect = "request_type" -> {"llm_call", "embedding", "rerank"}
    [] dialect = "vercel" -> {"tool_call", "embedding", "llm_call"}
    [] dialect = "sniffed" -> {"tool_call", "agent_invocation", "llm_call"}
    [] dialect = "name_prefix" -> {"tool_call", "agent_invocation",
         "agent_creation", "chain", "llm_call", "embedding", "retrieval"}

Precedence == <<"openinference", "traceloop", "operation", "request_type",
                "vercel", "sniffed", "name_prefix">>

(* A dialect decides when it names a kind; OpenInference and the official  *)
(* operation name decide whatever they hold.                               *)
Decides(attrs, dialect) ==
  /\ dialect \in DOMAIN attrs
  /\ dialect \in {"openinference", "operation"} \/ attrs[dialect] \in Kinds(dialect)

(* gen_ai.request.model, whatever else would be sniffed.                   *)
HasModel(attrs) == "request_model" \in DOMAIN attrs

Classify(attrs) ==
  LET deciding == SelectSeq(Precedence, LAMBDA d : Decides(attrs, d))
      d == Head(deciding)
  IN  CASE deciding = <<>> -> "none"
        [] deciding # <<>> /\ attrs[d] \in Kinds(d) -> attrs[d]
        [] OTHER -> IF d = "operation" /\ HasModel(attrs) THEN "llm_call" ELSE "chain"

StepOf(tree, s) == Classify(tree.attrs[s])

-----------------------------------------------------------------------------
(* A copy is [span, end, error].  The copy with the greatest end time is   *)
(* kept, the later one when they tie, at the place of the first.           *)

SpansOf(copies) == {copies[i].span : i \in DOMAIN copies}

BestCopy(copies, s) ==
  LET at == {i \in DOMAIN copies : copies[i].span = s}
  IN  copies[CHOOSE i \in at :
               \A j \in at : \/ copies[i].end > copies[j].end
                             \/ copies[i].end = copies[j].end /\ i >= j]

(* Mutant: the first copy that was delivered is kept.                      *)
FirstCopy(copies, s) ==
  copies[Min({i \in DOMAIN copies : copies[i].span = s})]

KeptCopy(copies, s) == BestCopy(copies, s)

StartsBefore(s, t) == \/ StartOf[s] < StartOf[t]
                      \/ StartOf[s] = StartOf[t] /\ s < t

(* The k-th has k - 1 before it.                                           *)
ByStart(S) ==
  [k \in 1 .. Cardinality(S) |->
     CHOOSE s \in S : Cardinality({t \in S : StartsBefore(t, s)}) = k - 1]

(* The forest over the spans S of one trace, in the tree of the export.    *)
ParentIn(tree, S, s) == IF tree.parent[s] \in S THEN tree.parent[s] ELSE NoSpan

Roots(tree, S) == ByStart({s \in S : ParentIn(tree, S, s) \in {NoSpan, s}})
Children(tree, S, s) == ByStart({c \in S \ {s} : ParentIn(tree, S, c) = s})

Entry(s, closing) == [span |-> s, closing |-> closing]

(* The first span of a list comes to lie on top of the stack.              *)
Visits(spans) == [k \in DOMAIN spans |-> Entry(Reverse(spans)[k], FALSE)]

(* Mutant: nothing below a span that is left out is visited.               *)
PushedWithSubtree(tree, S, s) ==
  IF StepOf(tree, s) # "none"
  THEN <<Entry(s, TRUE)>> \o Visits(Children(tree, S, s)) ELSE <<>>

(* What a visited span pushes: its own close under its children, the first *)
(* child on top.  A span that is left out pushes its children alone.       *)
Pushed(tree, S, s) ==
  (IF StepOf(tree, s) # "none" THEN <<Entry(s, TRUE)>> ELSE <<>>)
    \o Visits(Children(tree, S, s))

(* One turn of the loop over the stack.                                    *)
Turn(tree, S, failed, w) ==
  LET s == Last(w.stack).span
      rest == Front(w.stack)
      Emitted(suffix) ==
        Append(w.out, [span |-> s, step |-> StepOf(tree, s), part |-> suffix])
  IN  CASE w.stack = <<>> -> w
        [] w.stack # <<>> /\ Last(w.stack).closing ->
             [w EXCEPT !.stack = rest,
                       !.out = Emitted(IF s \in failed THEN "error" ELSE "end")]
        [] w.stack # <<>> /\ ~ Last(w.stack).closing /\ s \in w.visited ->
             [w EXCEPT !.stack = rest]
        [] OTHER -> [stack |-> rest \o Pushed(tree, S, s),
                     visited |-> w.visited \cup {s},
                     out |-> IF StepOf(tree, s) # "none" THEN Emitted("start") ELSE w.out]

(* The loop ends within two turns for each span: one that finds it, as a   *)
(* root or under its one parent, and one that closes it.                   *)
Emit(tree, S, failed) ==
  LET after[n \in 0 .. 2 * Cardinality(S)] ==
        IF n = 0 THEN [stack |-> Visits(Roots(tree, S)), visited |-> {}, out |-> <<>>]
        ELSE Turn(tree, S, failed, after[n - 1])
  IN  after[2 * Cardinality(S)].out

SpansIn(copies, t) == {s \in SpansOf(copies) : TraceOf[s] = t}
Failed(copies, t) == {s \in SpansIn(copies, t) : KeptCopy(copies, s).error}

TraceEvents(tree, copies, t) ==
  LET emitted == Emit(tree, SpansIn(copies, t), Failed(copies, t))
  IN  [i \in DOMAIN emitted |->
         [run |-> RunIdOf[t], seq |-> i - 1, span |-> emitted[i].span,
          step |-> emitted[i].step, part |-> emitted[i].part]]

(* The traces of a file in the order of their first span.                  *)
TracesOf(copies) ==
  LET seen[n \in 0 .. Len(copies)] ==
        IF n = 0 THEN <<>>
        ELSE IF TraceOf[copies[n].span] \in ToSet(seen[n - 1]) THEN seen[n - 1]
        ELSE Append(seen[n - 1], TraceOf[copies[n].span])
  IN  seen[Len(copies)]

-----------------------------------------------------------------------------
StoredRuns == {rows[i].run : i \in DOMAIN rows}

Init ==
  /\ \E x \in Scenario : shape = x.shape /\ files = x.files
  /\ pc = "idle" /\ calls = 0 /\ args = <<>> /\ existing = {}
  /\ todo = <<>> /\ buffer = <<>> /\ ingested = {} /\ rows = <<>> /\ asked = {}
  /\ listed = {} /\ torn = {}

(* Mutant: every file given is ingested anew.                              *)
StartForgetful(list) ==
  /\ pc = "idle" /\ calls < MaxRuns /\ calls' = calls + 1
  /\ ToSet(list) \subseteq DOMAIN files
  /\ args' = list /\ pc' = "file" /\ existing' = {} /\ listed' = StoredRuns
  /\ UNCHANGED <<shape, files, todo, buffer, ingested, rows, asked, torn>>

(* _run_ingest reads the runs that are listed, and only then opens the     *)
(* store, which lists those that a death left out.                         *)
Start(list) ==
  /\ pc = "idle" /\ calls < MaxRuns /\ calls' = calls + 1
  /\ ToSet(list) \subseteq DOMAIN files
  /\ args' = list /\ pc' = "file" /\ existing' = listed /\ listed' = StoredRuns
  /\ UNCHANGED <<shape, files, todo, buffer, ingested, rows, asked, torn>>

(* ingest_otlp up to its loop over the traces.                             *)
ReadFile ==
  /\ pc = "file" /\ args # <<>>
  /\ todo' = TracesOf(files[Head(args)])
  /\ pc' = "recording" /\ asked' = asked \cup {Head(args)}
  /\ UNCHANGED <<shape, files, calls, args, existing, buffer, ingested, rows, listed, torn>>

EventsOf(t) == TraceEvents(shape, files[Head(args)], t)

(* A trace whose run is present, or that yields no event, is left out.     *)
SkipTrace ==
  /\ pc = "recording" /\ todo # <<>>
  /\ RunIdOf[Head(todo)] \in existing \/ EventsOf(Head(todo)) = <<>>
  /\ todo' = Tail(todo)
  /\ UNCHANGED <<shape, files, pc, calls, args, existing, buffer, ingested, rows, listed,
                 asked, torn>>

(* The events of one trace are recorded, and its summary made.             *)
RecordTrace ==
  /\ pc = "recording" /\ todo # <<>>
  /\ RunIdOf[Head(todo)] \notin existing /\ EventsOf(Head(todo)) # <<>>
  /\ LET events == EventsOf(Head(todo))
     IN  /\ buffer' = buffer \o events
         /\ ingested' = ingested \cup {[run |-> RunIdOf[Head(todo)], count |-> Len(events),
                                        events |-> events]}
  /\ todo' = Tail(todo)
  /\ UNCHANGED <<shape, files, pc, calls, args, existing, rows, listed, asked, torn>>

(* The writer commits what was recorded first, in batches of its own size. *)
Commit(n) ==
  /\ pc = "recording" /\ n \in 1 .. Len(buffer)
  /\ rows' = rows \o SubSeq(buffer, 1, n)
  /\ buffer' = SubSeq(buffer, n + 1, Len(buffer))
  /\ UNCHANGED <<shape, files, pc, calls, args, existing, todo, ingested, listed, asked, torn>>

(* A tick of the writer lists the runs it committed, in a transaction of   *)
(* its own: about once a second, not with every batch.                     *)
ListRuns ==
  /\ pc = "recording" /\ listed # StoredRuns /\ listed' = StoredRuns
  /\ UNCHANGED <<shape, files, pc, calls, args, existing, todo, buffer, ingested, rows,
                 asked, torn>>

(* Mutant: a run of this call may be written again by its next file.       *)
FileDoneUnseen ==
  /\ pc = "recording" /\ todo = <<>> /\ pc' = "file" /\ args' = Tail(args)
  /\ rows' = rows \o buffer /\ buffer' = <<>> /\ listed' = StoredRuns'
  /\ UNCHANGED <<shape, files, calls, existing, todo, ingested, asked, torn>>

(* Mutant: the traces a file names count as present, recorded or not.      *)
FileDoneByName ==
  /\ pc = "recording" /\ todo = <<>> /\ pc' = "file" /\ args' = Tail(args)
  /\ rows' = rows \o buffer /\ buffer' = <<>> /\ listed' = StoredRuns'
  /\ existing' = existing \cup {RunIdOf[t] : t \in
                    UNION {ToSet(TracesOf(files[f])) : f \in asked}}
  /\ UNCHANGED <<shape, files, calls, todo, ingested, asked, torn>>

(* The flush at the end of ingest_otlp, which writes both tables (a death  *)
(* between them is one after Commit), and existing.update.                 *)
FileDone ==
  /\ pc = "recording" /\ todo = <<>> /\ pc' = "file" /\ args' = Tail(args)
  /\ rows' = rows \o buffer /\ buffer' = <<>> /\ listed' = StoredRuns'
  /\ existing' = existing \cup {x.run : x \in ingested}
  /\ UNCHANGED <<shape, files, calls, todo, ingested, asked, torn>>

Close ==
  /\ pc = "file" /\ args = <<>> /\ pc' = "closed"
  /\ UNCHANGED <<shape, files, calls, args, existing, todo, buffer, ingested, rows,
                 listed, asked, torn>>

(* The command is not running; nothing of it is left in memory.            *)
Ready == pc' = "idle" /\ existing' = {} /\ todo' = <<>> /\ buffer' = <<>>
         /\ ingested' = {} /\ args' = <<>> /\ asked' = {}

Exit ==
  /\ pc = "closed" /\ Ready /\ UNCHANGED <<shape, files, calls, rows, listed, torn>>

(* The process dies, and what was not committed is gone; or it gives up on *)
(* a file it cannot read, when nothing is left to commit.                  *)
Die ==
  /\ pc \in {"file", "recording"} /\ Ready
  /\ torn' = torn \cup (StoredRuns \ listed)
  /\ UNCHANGED <<shape, files, calls, rows, listed>>

Next == \/ \E list \in Invocation : Start(list)
        \/ ReadFile \/ SkipTrace \/ RecordTrace \/ ListRuns \/ FileDone \/ Close
        \/ Exit \/ Die
        \/ \E n \in 1 .. Len(buffer) : Commit(n)

Spec == Init /\ [][Next]_vars

-----------------------------------------------------------------------------
NumberedOnce(r) ==
  \A i \in DOMAIN OfRun(rows, r) : OfRun(rows, r)[i].seq = i - 1

(* However often, in whatever files and spellings a trace is delivered,    *)
(* and wherever a call died, no event of a run is stored twice and a       *)
(* stored run is a prefix of one walk: its sequence numbers have no gap.   *)
(* The exception are runs that a death left out of the runs table.         *)
NoDuplicateRows == \A r \in StoredRuns \ torn : NumberedOnce(r)

(* cli.py:723: "traces already in the database are detected up front and   *)
(* skipped instead of duplicated".                                         *)
SkippedNotDuplicated == \A r \in StoredRuns : NumberedOnce(r)

(* The spans that a root leads to: they are in every set that holds the    *)
(* roots and the children of what it holds.                                *)
Reachable(tree, S) ==
  {s \in S : \A X \in SUBSET S :
     /\ ToSet(Roots(tree, S)) \subseteq X
     /\ \A p \in X : ToSet(Children(tree, S, p)) \subseteq X
     => s \in X}

(* The spans below u with nothing between that emits.                      *)
NextBelow(tree, S, u) ==
  {s \in S : \A X \in SUBSET S :
     /\ ToSet(Children(tree, S, u)) \subseteq X
     /\ \A p \in X : StepOf(tree, p) = "none" => ToSet(Children(tree, S, p)) \subseteq X
     => s \in X}

(* The copies of a file that no other copy of their span outlasts.         *)
MostComplete(copies) ==
  {c \in ToSet(copies) : \A d \in ToSet(copies) : d.span = c.span => d.end <= c.end}

(* The walk of every trace of the file is a nesting: every GenAI span that *)
(* a root leads to starts once and closes once, inside the nearest GenAI   *)
(* span above it, also below spans that are left out, next to orphans and  *)
(* beside cycles; nothing else is emitted, and a closing event is an error *)
(* when the most complete copy says so.                                    *)
WellNested ==
  pc = "recording" => \A t \in ToSet(todo) :
    LET copies == files[Head(args)]
        S == SpansIn(copies, t)
        events == EventsOf(t)
        At(s, starting) == {i \in DOMAIN events :
          events[i].span = s /\ (events[i].part = "start") = starting}
        emitting == {s \in Reachable(shape, S) : StepOf(shape, s) # "none"}
    IN
    /\ \A i \in DOMAIN events : events[i].span \in emitting
    /\ \A s \in emitting : \E i, j \in DOMAIN events :
         /\ i < j /\ At(s, TRUE) = {i} /\ At(s, FALSE) = {j}
         /\ \E c \in MostComplete(copies) :
              c.span = s /\ (c.error <=> events[j].part = "error")
    /\ \A u \in emitting : \A s \in emitting \cap NextBelow(shape, S, u) :
         /\ \A i \in At(u, TRUE), j \in At(s, TRUE) : i < j
         /\ \A i \in At(s, FALSE), j \in At(u, FALSE) : i < j

(* The events of a trace do not depend on the order in which its spans     *)
(* were exported or on how often each was, as long as two copies of a span *)
(* that end last do not disagree on whether it failed.  This is about the  *)
(* export alone, which never changes: it is looked at before the first     *)
(* call.                                                                   *)
Unanimous(S) == \A c, d \in S : c.span = d.span => c.error = d.error

Canonical ==
  calls = 0 => \A f, g \in DOMAIN files :
    MostComplete(files[f]) = MostComplete(files[g]) /\ Unanimous(MostComplete(files[f])) =>
      \A t \in ToSet(TracesOf(files[f])) :
        TraceEvents(shape, files[f], t) = TraceEvents(shape, files[g], t)

(* What the command prints is in the file when it exits: every summary     *)
(* stands for a listed run with exactly its events, whole and in order; of *)
(* a torn run, whose rows the call did not know of, they are the last.     *)
PrintedIsStored ==
  pc = "closed" =>
    \A x \in ingested :
      LET stored == OfRun(rows, x.run)
          before == Len(stored) - x.count
      IN  /\ x.run \in listed
          /\ SubSeq(stored, before + 1, Len(stored)) = x.events
          /\ x.run \notin torn => before = 0

(* A call that ends has a run in the table that every reader begins with,  *)
(* for every trace it was given that has something to record: a trace is   *)
(* only ever skipped for a run that is there.                              *)
EveryTraceStored ==
  pc = "closed" =>
    \A f \in asked : \A t \in ToSet(TracesOf(files[f])) :
      TraceEvents(shape, files[f], t) # <<>> => RunIdOf[t] \in listed
=============================================================================
