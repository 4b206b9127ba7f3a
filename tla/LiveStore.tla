------------------------------ MODULE LiveStore ------------------------------
(***************************************************************************)
(* InMemoryTraceStore of dprovenancekit/store.py with the live query       *)
(* engine of live_engine.py behind it.  record commits an event, its       *)
(* indices and a snapshot of its run under one lock and puts the snapshot  *)
(* into a FIFO queue; one consumer thread evaluates the subscriptions that *)
(* the event may affect.  A callback may raise, a subscription may be      *)
(* registered again at any time, and close puts a sentinel and joins.      *)
(*                                                                         *)
(* The query language is a parameter: MCLiveStore gives it the meaning of  *)
(* TraceQuery.  Events of a run may be recorded out of sequence, as the    *)
(* threads of a run context number an event before they record it.         *)
(***************************************************************************)
EXTENDS Integers, Sequences, FiniteSets, SequencesExt, FiniteSetsExt

CONSTANTS
  Run, Type, Engine,
  Kind,              \* the pairs of type and engine that events carry
  Node,              \* the events edges are linked between
  ContextOf,         \* the context of each run
  Sub,               \* query_id of each subscription
  SubQuery,          \* the query of each subscription
  Raising,           \* subscriptions whose callbacks may raise
  Late,              \* subscriptions registered while events arrive
  Monotone,          \* subscriptions that a run never ceases to match
  Evaluates(_, _),   \* node.evaluate(run)
  Mentions(_),       \* extract_all_referenced_decision_types(node)
  Guarantees(_),     \* extract_guaranteed_constraints(node)
  Confirms(_, _),    \* rule.is_anomalous(run); TRUE for a plain subscription
  MaxRecords,        \* bound: events recorded
  MaxSkew,           \* bound: events of a run numbered and not yet recorded
  MaxLinks,          \* bound: edges linked
  MaxWork            \* bound: both together

ASSUME LiveAssumption ==
  /\ Kind \subseteq Type \X Engine
  /\ Raising \subseteq Sub /\ Late \subseteq Sub /\ Monotone \subseteq Sub
  /\ MaxRecords \in Nat /\ MaxSkew \in Nat
  /\ MaxLinks \in Nat /\ MaxWork \in Nat

VARIABLES
  eventsByRun,   \* _events_by_run, in order of arrival; <<>>: no entry
  index,         \* _run_by_context, _run_by_engine, _decision_type_events
  edges,         \* _edges, as a set
  queue,         \* _live_queue
  consumer,      \* the thread of _drain_live: "running" or "stopped"
  closing,       \* close: "open", "joining" (in it) or "closed" (returned)
  subscribed,    \* keys of _subscriptions
  matching,      \* matching_runs of each QueryState
  impacted,      \* _impacted_by_type, as pairs <<type, query_id>>
  globals,       \* _global_subscriptions
  last,          \* history: the last snapshot of each run that was consumed
  fresh,         \* history: <<s, r>>: s was evaluated on r since it was
                 \* registered and has not been skipped since
  reported,      \* history: on_match calls per subscription and run
  owed           \* history: events per run recorded when close was called

storeVars == <<eventsByRun, index, edges>>
engineVars == <<subscribed, matching, impacted, globals>>
seenVars == <<last, fresh, reported>>
vars == <<storeVars, queue, consumer, closing, engineVars, seenVars, owed>>

None == [run |-> "none"]
Sentinel == [type |-> "sentinel"]

-----------------------------------------------------------------------------
(* Snapshots and reads: _make_run_locked, query_runs.                      *)

(* The event at place k has k - 1 events before it; the sort is stable.    *)
SortedBySequence(events) ==
  LET Before(i) == {j \in DOMAIN events :
                      \/ events[j].seq < events[i].seq
                      \/ events[j].seq = events[i].seq /\ j < i}
  IN  [k \in DOMAIN events |->
         events[CHOOSE i \in DOMAIN events : Cardinality(Before(i)) = k - 1]]

MakeRun(r, events) ==
  [run |-> r, context |-> ContextOf[r], events |-> SortedBySequence(events)]

StoredRuns == {r \in Run : eventsByRun[r] # <<>>}

(* Mutant: the engine index is not kept.                                   *)
EntriesNoEngine(r, e) ==
  {[kind |-> "contextID", value |-> ContextOf[r], run |-> r],
   [kind |-> "decisionType", value |-> e.type, run |-> r]}

Entries(r, e) == {[kind |-> "contextID", value |-> ContextOf[r], run |-> r],
                  [kind |-> "engineName", value |-> e.engine, run |-> r],
                  [kind |-> "decisionType", value |-> e.type, run |-> r]}

Candidates(constraints) ==
  {r \in StoredRuns : \A c \in constraints :
      [kind |-> c.kind, value |-> c.value, run |-> r] \in index}

QueryRuns(q) ==
  {r \in Candidates(Guarantees(q)) : Evaluates(q, MakeRun(r, eventsByRun[r]))}

-----------------------------------------------------------------------------
Recorded == MapThenSumSet(LAMBDA r : Len(eventsByRun[r]), Run)

NoRuns == [r \in Run |-> 0]

Impact(S) == {p \in Type \X S : p[1] \in Mentions(SubQuery[p[2]])}
Global(S) == {s \in S : Mentions(SubQuery[s]) = {}}

Init ==
  /\ eventsByRun = [r \in Run |-> <<>>] /\ index = {} /\ edges = {}
  /\ queue = <<>> /\ consumer = "running" /\ closing = "open"
  /\ subscribed = Sub \ Late
  /\ matching = [s \in Sub |-> {}]
  /\ impacted = Impact(Sub \ Late) /\ globals = Global(Sub \ Late)
  /\ last = [r \in Run |-> None] /\ fresh = {}
  /\ reported = [s \in Sub |-> NoRuns] /\ owed = NoRuns

(* Mutant: the put happens after the store lock is released, so that a     *)
(* later record may overtake it.                                           *)
PutOvertaken(q, item) ==
  IF q = <<>> THEN <<item>> ELSE Front(q) \o <<item, Last(q)>>

Put(q, item) == Append(q, item)

(* record: the event, its indices and the item for the consumer are one    *)
(* critical section.                                                       *)
Record(r, seq, t, g) ==
  LET e == [run |-> r, seq |-> seq, type |-> t, engine |-> g]
      events == Append(eventsByRun[r], e)
  IN
  /\ Recorded < MaxRecords /\ Recorded + Cardinality(edges) < MaxWork
  /\ seq <= Len(eventsByRun[r]) + MaxSkew
  /\ seq \notin {eventsByRun[r][i].seq : i \in DOMAIN eventsByRun[r]}
  /\ eventsByRun' = [eventsByRun EXCEPT ![r] = events]
  /\ index' = index \cup Entries(r, e)
  /\ queue' = Put(queue, [type |-> t, run |-> MakeRun(r, events)])
  /\ UNCHANGED <<edges, consumer, closing, engineVars, seenVars, owed>>

Link(source, target, kind) ==
  /\ Cardinality(edges) < MaxLinks /\ Recorded + Cardinality(edges) < MaxWork
  /\ edges' = edges \cup {[source |-> source, target |-> target, type |-> kind]}
  /\ UNCHANGED <<eventsByRun, index, queue, consumer, closing, engineVars,
                 seenVars, owed>>

(* register: a subscription registered again starts from an empty state.   *)
Register(s) ==
  /\ subscribed' = subscribed \cup {s}
  /\ matching' = [matching EXCEPT ![s] = {}]
  /\ impacted' = impacted \cup Impact({s})
  /\ globals' = globals \cup Global({s})
  /\ fresh' = {p \in fresh : p[1] # s}
  /\ reported' = [reported EXCEPT ![s] = NoRuns]
  /\ UNCHANGED <<storeVars, queue, consumer, closing, last, owed>>

Affected(t) ==
  LET chosen == {s \in Sub : <<t, s>> \in impacted} \cup globals
  IN  IF chosen = {} THEN subscribed ELSE chosen

(* Mutant: the run is remembered only when its callback has returned.      *)
MatchingAfterCallback(s, run, raised) ==
  IF Evaluates(SubQuery[s], run)
  THEN IF raised THEN matching[s] ELSE matching[s] \cup {run.run}
  ELSE matching[s] \ {run.run}

(* Mutant: a run that stops to match is not discarded.                     *)
MatchingForever(s, run, raised) ==
  IF Evaluates(SubQuery[s], run) THEN matching[s] \cup {run.run} ELSE matching[s]

(* matching_runs after one evaluation; it is updated before the callback.  *)
MatchingAfter(s, run, raised) ==
  IF Evaluates(SubQuery[s], run) THEN matching[s] \cup {run.run}
                                 ELSE matching[s] \ {run.run}

(* on_match of LiveAnomalySubscription reports what its rule confirms.     *)
Reports(s, run) ==
  /\ Evaluates(SubQuery[s], run)
  /\ run.run \notin matching[s]
  /\ Confirms(s, run)

(* Mutant: an exception ends the thread.                                   *)
ConsumerDies(raised) == IF raised THEN "stopped" ELSE "running"

(* _drain_live logs the exception and goes on.                             *)
ConsumerAfter(raised) == "running"

(* process, under the engine's lock: the candidates are visited in an      *)
(* arbitrary order; a callback that raises leaves the rest unvisited.      *)
Process(done, raised) ==
  LET run == Head(queue).run
      affected == Affected(Head(queue).type)
  IN
  /\ consumer = "running" /\ queue # <<>> /\ Head(queue) # Sentinel
  /\ done \subseteq affected
  /\ IF raised THEN \E s \in done \cap Raising : Evaluates(SubQuery[s], run)
               ELSE done = affected
  /\ \E raiser \in IF raised
                   THEN {s \in done \cap Raising : Evaluates(SubQuery[s], run)}
                   ELSE {"nobody"} :
        matching' = [s \in Sub |-> IF s \in done
                                   THEN MatchingAfter(s, run, s = raiser)
                                   ELSE matching[s]]
  /\ reported' = [s \in Sub |-> IF s \in done /\ Reports(s, run)
                                THEN [reported[s] EXCEPT ![run.run] = @ + 1]
                                ELSE reported[s]]
  /\ fresh' = (fresh \cup (done \X {run.run})) \ ((affected \ done) \X {run.run})
  /\ last' = [last EXCEPT ![run.run] = run]
  /\ consumer' = ConsumerAfter(raised)
  /\ queue' = Tail(queue)
  /\ UNCHANGED <<storeVars, closing, subscribed, impacted, globals, owed>>

Consume == \E done \in SUBSET Sub, raised \in BOOLEAN : Process(done, raised)

TakeSentinel ==
  /\ consumer = "running" /\ queue # <<>> /\ Head(queue) = Sentinel
  /\ consumer' = "stopped" /\ queue' = Tail(queue)
  /\ UNCHANGED <<storeVars, closing, engineVars, seenVars, owed>>

(* Mutant: the consumer is joined and never told to stop.                  *)
CloseWithoutSentinel ==
  /\ closing = "open" /\ closing' = "joining"
  /\ owed' = [r \in Run |-> Len(eventsByRun[r])]
  /\ UNCHANGED <<storeVars, queue, consumer, engineVars, seenVars>>

Close ==
  /\ closing = "open"
  /\ queue' = Append(queue, Sentinel) /\ closing' = "joining"
  /\ owed' = [r \in Run |-> Len(eventsByRun[r])]
  /\ UNCHANGED <<storeVars, consumer, engineVars, seenVars>>

(* Mutant: close does not wait for the consumer.                           *)
CloseReturnsUnjoined ==
  /\ closing = "joining" /\ closing' = "closed"
  /\ UNCHANGED <<storeVars, queue, consumer, engineVars, seenVars, owed>>

CloseReturns ==
  /\ closing = "joining" /\ consumer = "stopped" /\ closing' = "closed"
  /\ UNCHANGED <<storeVars, queue, consumer, engineVars, seenVars, owed>>

Next ==
  \/ \E r \in Run, seq \in 0 .. MaxRecords + MaxSkew, k \in Kind :
        Record(r, seq, k[1], k[2])
  \/ \E source, target \in Node : Link(source, target, "INFORMED")
  \/ \E s \in Late : Register(s)
  \/ Consume \/ TakeSentinel
  \/ Close \/ CloseReturns

(* The consumer thread and the join of close are always scheduled again;   *)
(* nobody has to record, link, register or close.                          *)
Fairness == WF_vars(Consume \/ TakeSentinel) /\ WF_vars(CloseReturns)

Spec == Init /\ [][Next]_vars /\ Fairness

-----------------------------------------------------------------------------
TypeOK ==
  /\ \A r \in Run : \A i \in DOMAIN eventsByRun[r] :
        eventsByRun[r][i] \in
          [run : {r}, seq : 0 .. MaxRecords + MaxSkew, type : Type, engine : Engine]
  /\ \A r \in Run :
       LET Indexed(kind) == {n.value : n \in {m \in index : m.run = r /\ m.kind = kind}}
       IN  /\ Indexed("engineName") = {e.engine : e \in ToSet(eventsByRun[r])}
           /\ Indexed("decisionType") = {e.type : e \in ToSet(eventsByRun[r])}
  /\ consumer \in {"running", "stopped"} /\ closing \in {"open", "joining", "closed"}
  /\ subscribed \subseteq Sub /\ globals \subseteq subscribed
  /\ impacted \subseteq Type \X subscribed
  /\ matching \in [Sub -> SUBSET StoredRuns] /\ fresh \subseteq Sub \X StoredRuns
  /\ reported \in [Sub -> [Run -> Nat]] /\ owed \in [Run -> Nat]

(* What a subscription may expect of the language.  Its query is local:    *)
(* an event of a type that it does not mention leaves its truth alone.     *)
(* Its query never ceases to hold, and its rule confirms what it selects.  *)
LocalAt(s, r, events, e) ==
  LET mentioned == Mentions(SubQuery[s])
  IN  events # <<>> /\ mentioned # {} /\ e.type \notin mentioned =>
        (Evaluates(SubQuery[s], MakeRun(r, Append(events, e)))
           <=> Evaluates(SubQuery[s], MakeRun(r, events)))
MonotoneAt(s, r, events, e) ==
  events # <<>> /\ Evaluates(SubQuery[s], MakeRun(r, events)) =>
    /\ Confirms(s, MakeRun(r, events))
    /\ Evaluates(SubQuery[s], MakeRun(r, Append(events, e)))

(* The match state of a subscription is the truth about the latest         *)
(* snapshot that was consumed, in spite of events recorded out of          *)
(* sequence, of callbacks that raise and of candidates chosen by the type  *)
(* of the event alone: for queries that are local.                         *)
MatchStateCurrent ==
  \A p \in fresh :
     p[2] \in matching[p[1]] <=> Evaluates(SubQuery[p[1]], last[p[2]])

(* A run whose match can only come true is reported at most once to a      *)
(* subscription, however often a callback raises; when nothing was skipped *)
(* it is reported as soon as it matches.                                   *)
ReportedOnce ==
  \A s \in Monotone, r \in Run :
     /\ reported[s][r] <= 1
     /\ <<s, r>> \in fresh =>
          (reported[s][r] = 1 <=> Evaluates(SubQuery[s], last[r]))

(* When close has returned, every event whose record returned before close *)
(* was called has been evaluated, raising callbacks included.              *)
CloseDrains ==
  closing = "closed" =>
    \A r \in Run : owed[r] > 0 =>
      last[r] # None /\ Len(last[r].events) >= owed[r]

(* Snapshots of a run are consumed in the order in which they were taken:  *)
(* no subscription is ever shown a run that has lost an event.             *)
SnapshotsGrow ==
  [][\A r \in Run : last[r] # None =>
        ToSet(last[r].events) \subseteq ToSet(last'[r].events)]_vars

(* Whatever is recorded while the store is open is delivered, even when    *)
(* every callback before it raised.                                        *)
EventuallyDelivered ==
  \A r \in Run :
    (closing = "open" /\ eventsByRun[r] # <<>>) ~> (last[r] # None)

(* close returns.                                                          *)
CloseTerminates == closing = "joining" ~> closing = "closed"
=============================================================================
