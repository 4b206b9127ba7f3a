------------------------------ MODULE SQLiteStore ------------------------------
(***************************************************************************)
(* The durable store of dprovenancekit/sqlite_store.py (SQLiteTraceStore   *)
(* and its SQLiteWriter) behind TraceRunContext.record of kit.py: threads  *)
(* take a sequence number and then record, the background writer ticks,    *)
(* callers flush, the database may be busy or refuse a batch, the process  *)
(* may close the store or die, and a later session opens the same file.    *)
(*                                                                         *)
(* The write buffer is seen as its module WriteBuffer promises: rows in    *)
(* the order of their enqueue, retries before live rows, and a counted     *)
(* loss of some row when an arrival finds the live tiers full (which row   *)
(* depends on tiers and is left open here).  A signature is the row it is  *)
(* computed from, and a fingerprint the sequence of the rows hashed.       *)
(***************************************************************************)
EXTENDS Integers, Sequences, FiniteSets, SequencesExt, RunRows

CONSTANTS
  Recorder,     \* recording threads
  Run,          \* run identifiers; a run belongs to one session
  Capacity,     \* max_global_buffer
  TickBatch,    \* the batch sizes a tick may choose
  OffTier,      \* run and number of the events whose priority is not one of the
                \* four tiers
  MaxEvents,    \* bound: sequence numbers handed out over all sessions
  MaxEdges,     \* bound: edges linked
  MaxSessions   \* bound: how often the file is opened

ASSUME StoreAssumption ==
  /\ IsFiniteSet(Run)
  /\ Capacity \in Nat \ {0} /\ TickBatch \subseteq Nat \ {0}
  /\ OffTier \subseteq Run \X Nat
  /\ MaxEvents \in Nat /\ MaxEdges \in Nat /\ MaxSessions \in Nat \ {0}

None == [run |-> "none"]

VARIABLES
  session,     \* number of the process that has the file open
  phase,       \* "open", "closing" (shutdown was called), "flushed" (by it),
               \* "closed" (so is the database) or "down" (the process is gone)
  runSession,  \* the session a run was started in, 0 when it was not
  nextSeq,     \* _sequence_counter of each run's context
  held,        \* the event a thread has numbered and not yet recorded
  retry, live, \* the write buffer: its retry queue and its tiers, merged
  edges,       \* its edge queues; of edges only the number is kept
  tally,       \* drop_stats.total of this session's store
  wpc,         \* where the holder of the writer lock is
  mode,        \* what took the writer lock: "tick", "flush" or "close"
  batch,       \* the rows drained for the current transaction
  batchEdges,  \* the edges drained for it
  active,      \* _active_runs: the rows folded into each run's state
  dirty,       \* the runs whose state is newer than their runs row
  trouble,     \* history: a transaction of the current flush failed
  goal,        \* history: the rows the current flush found in the buffer
  lost,        \* history: the rows counted in tally
  events,      \* table trace_events, in commit order
  edgeTable,   \* table trace_edges
  runs         \* table runs: event_count (0: no row) and fingerprint

procVars == <<session, phase, runSession>>
bufVars  == <<retry, live, edges>>
lossVars == <<tally, lost>>
memVars  == <<active, dirty>>
flushVars == <<mode, trouble, goal>>
dbVars   == <<events, edgeTable, runs>>
vars == <<procVars, nextSeq, held, bufVars, lossVars, wpc, batch, batchEdges,
          memVars, flushVars, dbVars>>

Alive == phase # "down"

Least(a, b) == IF a <= b THEN a ELSE b

SessionRuns == {r \in Run : runSession[r] = session}

Init ==
  /\ session = 1 /\ phase = "open"
  /\ runSession = [r \in Run |-> 0]
  /\ nextSeq = [r \in Run |-> 0]
  /\ held = [t \in Recorder |-> None]
  /\ retry = <<>> /\ live = <<>> /\ edges = 0
  /\ tally = 0 /\ lost = {}
  /\ wpc = "idle" /\ mode = "tick" /\ batch = <<>> /\ batchEdges = 0
  /\ active = [r \in Run |-> <<>>] /\ dirty = {}
  /\ trouble = FALSE /\ goal = {}
  /\ events = <<>> /\ edgeTable = 0
  /\ runs = [r \in Run |-> [count |-> 0, fingerprint |-> <<>>]]

-----------------------------------------------------------------------------
(* TraceRunContext.record: the sequence lock is released before the event  *)
(* is handed to the store.                                                 *)

(* The pairs of run and sequence number handed out so far.                 *)
Numbered == {n \in Run \X (0 .. MaxEvents - 1) : n[2] < nextSeq[n[1]]}

TakeSequence(t, r) ==
  /\ Alive
  /\ held[t] = None
  /\ runSession[r] \in {0, session}
  /\ Cardinality(Numbered) < MaxEvents
  /\ held' = [held EXCEPT ![t] = [run |-> r, seq |-> nextSeq[r], by |-> t]]
  /\ nextSeq' = [nextSeq EXCEPT ![r] = @ + 1]
  /\ runSession' = [runSession EXCEPT ![r] = session]
  /\ UNCHANGED <<session, phase, bufVars, lossVars, wpc, batch, batchEdges,
                 memVars, flushVars, dbVars>>

(* A row shed by the buffer, which takes an unknown tier for the lowest.   *)
Lose(row) == tally' = tally + 1 /\ lost' = lost \cup {row}

InTier(row) == <<row.run, row.seq>> \notin OffTier

(* TraceDropTally.record of each of the rows: an unknown tier is ignored.  *)
TallyRecord(rows) ==
  /\ tally' = tally + Cardinality({i \in DOMAIN rows : InTier(rows[i])})
  /\ lost' = lost \cup {row \in Range(rows) : InTier(row)}

(* Mutant: the event is let go of before it is counted.                    *)
EncodeFailsEarly(t) ==
  /\ Alive /\ held[t] # None
  /\ held' = [held EXCEPT ![t] = None]
  /\ Lose(held'[t])
  /\ UNCHANGED <<procVars, nextSeq, bufVars, wpc, batch, batchEdges,
                 memVars, flushVars, dbVars>>

(* SQLiteTraceStore.record when the payload cannot be encoded.             *)
EncodeFails(t) ==
  /\ Alive
  /\ held[t] # None
  /\ TallyRecord(<<held[t]>>)
  /\ held' = [held EXCEPT ![t] = None]
  /\ UNCHANGED <<procVars, nextSeq, bufVars, wpc, batch, batchEdges,
                 memVars, flushVars, dbVars>>

(* ... and when it can: the row is enqueued, also into a closed store.  In *)
(* a full buffer either the arrival or a row in the tiers is shed.         *)
StoreRecord(t) ==
  /\ Alive
  /\ held[t] # None
  /\ \/ /\ Len(live) < Capacity
        /\ live' = Append(live, held[t])
        /\ UNCHANGED lossVars
     \/ /\ Len(live) >= Capacity
        /\ Lose(held[t])
        /\ UNCHANGED live
     \/ /\ Len(live) >= Capacity
        /\ \E i \in 1 .. Len(live) :
             Lose(live[i]) /\ live' = Append(RemoveAt(live, i), held[t])
  /\ held' = [held EXCEPT ![t] = None]
  /\ UNCHANGED <<procVars, nextSeq, retry, edges, wpc, batch, batchEdges,
                 memVars, flushVars, dbVars>>

Link ==
  /\ Alive
  /\ edges + batchEdges + edgeTable < MaxEdges
  /\ edges' = edges + 1
  /\ UNCHANGED <<procVars, nextSeq, held, retry, live, lossVars, wpc, batch,
                 batchEdges, memVars, flushVars, dbVars>>

-----------------------------------------------------------------------------
(* SQLiteWriter: _process_batch under the writer lock, then the runs table *)

(* Mutant: live rows are drained before the retries.                       *)
DrainLiveFirst(max) ==
  LET l == Least(max, Len(live))
      k == Least(max - l, Len(retry))
  IN  /\ batch' = SubSeq(live, 1, l) \o SubSeq(retry, 1, k)
      /\ retry' = SubSeq(retry, k + 1, Len(retry))
      /\ live' = SubSeq(live, l + 1, Len(live))

(* drain(max) and flush_all, retries first.                                *)
Drain(max) ==
  LET k == Least(max, Len(retry))
      l == Least(max - k, Len(live))
  IN  /\ batch' = SubSeq(retry, 1, k) \o SubSeq(live, 1, l)
      /\ retry' = SubSeq(retry, k + 1, Len(retry))
      /\ live' = SubSeq(live, l + 1, Len(live))

(* A tick that passed the loop's test may still run after shutdown began.  *)
BeginTick ==
  /\ phase \in {"open", "closing"}
  /\ wpc = "idle"
  /\ \E max \in TickBatch : Drain(max)
  /\ wpc' = "edges" /\ mode' = "tick"
  /\ trouble' = FALSE /\ goal' = {}
  /\ UNCHANGED <<procVars, nextSeq, held, edges, lossVars, batchEdges, memVars, dbVars>>

(* Mutant: flush drains as much as a tick does.                            *)
BeginFlushPartly ==
  /\ Alive /\ wpc = "idle"
  /\ \E max \in TickBatch : Drain(max)
  /\ wpc' = "edges" /\ trouble' = FALSE /\ goal' = Range(retry) \cup Range(live)
  /\ mode' \in {"flush"} \cup IF phase = "closing" THEN {"close"} ELSE {}
  /\ UNCHANGED <<procVars, nextSeq, held, edges, lossVars, batchEdges, memVars, dbVars>>

(* flush, called by a reader or a user of the store, or by shutdown.       *)
BeginFlush ==
  /\ Alive
  /\ wpc = "idle"
  /\ Drain(Len(retry) + Len(live))
  /\ wpc' = "edges"
  /\ mode' \in {"flush"} \cup IF phase = "closing" THEN {"close"} ELSE {}
  /\ trouble' = FALSE /\ goal' = Range(retry) \cup Range(live)
  /\ UNCHANGED <<procVars, nextSeq, held, edges, lossVars, batchEdges, memVars, dbVars>>

DrainEdges ==
  /\ wpc = "edges"
  /\ batchEdges' = edges
  /\ edges' = 0
  /\ wpc' = IF batch = <<>> /\ edges = 0 THEN "runs" ELSE "insert"
  /\ UNCHANGED <<procVars, nextSeq, held, retry, live, lossVars, batch, memVars,
                 flushVars, dbVars>>

(* The transaction commits, and the batch is folded into the run states.   *)
CommitBatch ==
  /\ wpc = "insert" /\ phase # "closed"
  /\ events' = events \o batch
  /\ edgeTable' = edgeTable + batchEdges
  /\ active' = [r \in Run |-> active[r] \o OfRun(batch, r)]
  /\ dirty' = dirty \cup {e.run : e \in Range(batch)}
  /\ batch' = <<>> /\ batchEdges' = 0
  /\ wpc' = "runs"
  /\ UNCHANGED <<procVars, nextSeq, held, bufVars, lossVars, flushVars, runs>>

(* Mutant: a busy batch is logged and forgotten.                           *)
BusyBatchForgets ==
  /\ wpc = "insert" /\ phase # "closed"
  /\ batch' = <<>> /\ batchEdges' = 0
  /\ trouble' = TRUE /\ wpc' = "runs"
  /\ UNCHANGED <<procVars, nextSeq, held, bufVars, lossVars, memVars, mode, goal, dbVars>>

(* "locked" or "busy": the batch goes back to the front of the line, and   *)
(* what exceeds the cap of the retry queue is shed from its tail.          *)
BusyBatch ==
  LET all  == batch \o retry
      shed == SubSeq(all, Capacity + 1, Len(all))
  IN  /\ wpc = "insert" /\ phase # "closed"
      /\ retry' = SubSeq(all, 1, Least(Capacity, Len(all)))
      /\ tally' = tally + Len(shed)
      /\ lost' = lost \cup Range(shed)
      /\ edges' = edges + Least(batchEdges, Capacity)
      /\ batch' = <<>> /\ batchEdges' = 0
      /\ trouble' = TRUE
      /\ wpc' = "runs"
      /\ UNCHANGED <<procVars, nextSeq, held, live, memVars, mode, goal, dbVars>>

(* Mutant: the rolled back rows are not counted.                           *)
FatalBatchUncounted ==
  /\ wpc = "insert"
  /\ batch' = <<>> /\ batchEdges' = 0
  /\ trouble' = TRUE /\ wpc' = "runs"
  /\ UNCHANGED <<procVars, nextSeq, held, bufVars, lossVars, memVars, mode, goal, dbVars>>

(* Mutant: the batch is folded into the run states although it failed.     *)
FatalBatchFolds ==
  /\ wpc = "insert"
  /\ TallyRecord(batch)
  /\ active' = [r \in Run |-> active[r] \o OfRun(batch, r)]
  /\ dirty' = dirty \cup {e.run : e \in Range(batch)}
  /\ batch' = <<>> /\ batchEdges' = 0
  /\ trouble' = TRUE /\ wpc' = "runs"
  /\ UNCHANGED <<procVars, nextSeq, held, bufVars, mode, goal, dbVars>>

(* Any other error, also that of a closed database: rolled back, the rows  *)
(* are tallied and the edges are not.                                      *)
FatalBatch ==
  /\ wpc = "insert"
  /\ TallyRecord(batch)
  /\ batch' = <<>> /\ batchEdges' = 0
  /\ trouble' = TRUE
  /\ wpc' = "runs"
  /\ UNCHANGED <<procVars, nextSeq, held, bufVars, memVars, mode, goal, dbVars>>

Staged == IF mode = "tick" THEN dirty ELSE {r \in Run : active[r] # <<>>}

EndCycle ==
  /\ wpc' = "idle"
  /\ phase' = IF mode = "close" THEN "flushed" ELSE phase
  /\ UNCHANGED <<session, runSession, nextSeq, held, bufVars, lossVars, batch,
                 batchEdges, active, mode, goal, events, edgeTable>>

(* _flush_runs_table and _mark_runs_clean.                                 *)
FlushRuns ==
  /\ wpc = "runs" /\ phase # "closed"
  /\ runs' = [r \in Run |->
                IF r \in Staged
                  THEN [count |-> Len(active[r]), fingerprint |-> active[r]]
                  ELSE runs[r]]
  /\ dirty' = dirty \ Staged
  /\ UNCHANGED trouble
  /\ EndCycle

(* Mutant: the runs are marked clean although their write failed.          *)
FlushRunsFailsClean ==
  /\ wpc = "runs"
  /\ trouble' = TRUE /\ dirty' = dirty \ Staged
  /\ UNCHANGED runs
  /\ EndCycle

(* The transaction on the runs table fails and is only logged.             *)
FlushRunsFails ==
  /\ wpc = "runs"
  /\ trouble' = TRUE
  /\ UNCHANGED <<runs, dirty>>
  /\ EndCycle

(* A tick writes the runs table only when a second has passed.             *)
SkipRuns ==
  /\ wpc = "runs" /\ mode = "tick"
  /\ UNCHANGED <<runs, dirty, trouble>>
  /\ EndCycle

Shutdown ==
  /\ phase = "open"
  /\ phase' = "closing"
  /\ UNCHANGED <<session, runSession, nextSeq, held, bufVars, lossVars, wpc,
                 batch, batchEdges, memVars, flushVars, dbVars>>

-----------------------------------------------------------------------------
(* close: the database goes after the flush of shutdown has returned, be   *)
(* there a flush of another thread between its drain and its insert or not. *)
CloseDatabase ==
  /\ phase = "flushed"
  /\ phase' = "closed"
  /\ UNCHANGED <<session, runSession, nextSeq, held, bufVars, lossVars, wpc,
                 batch, batchEdges, memVars, flushVars, dbVars>>

(* The process dies, in whatever step it is: its memory is gone.           *)
Crash ==
  /\ Alive
  /\ session < MaxSessions
  /\ phase' = "down"
  /\ held' = [t \in Recorder |-> None]
  /\ retry' = <<>> /\ live' = <<>> /\ edges' = 0
  /\ tally' = 0 /\ lost' = {}
  /\ wpc' = "idle" /\ mode' = "tick" /\ batch' = <<>> /\ batchEdges' = 0
  /\ active' = [r \in Run |-> <<>>] /\ dirty' = {}
  /\ trouble' = FALSE /\ goal' = {}
  /\ UNCHANGED <<session, runSession, nextSeq, dbVars>>

(* Mutant: only runs without a row are repaired.                           *)
ReconciledIfAbsent(r) ==
  IF runs[r].count = 0 THEN [runs[r] EXCEPT !.count = Len(OfRun(events, r))] ELSE runs[r]

(* _create_schema: a run with more durable events than its row says is     *)
(* reconciled; a row that exists keeps its fingerprint.                    *)
Reconciled(r) ==
  LET durable == Len(OfRun(events, r))
  IN  IF durable > runs[r].count THEN [runs[r] EXCEPT !.count = durable] ELSE runs[r]

Reopen ==
  /\ phase = "down"
  /\ phase' = "open"
  /\ session' = session + 1
  /\ runs' = [r \in Run |-> Reconciled(r)]
  /\ UNCHANGED <<runSession, nextSeq, held, bufVars, lossVars, wpc, batch,
                 batchEdges, memVars, flushVars, events, edgeTable>>

Record == \E t \in Recorder : EncodeFails(t) \/ StoreRecord(t)
                                \/ \E r \in Run : TakeSequence(t, r)

WriterStep == DrainEdges \/ CommitBatch \/ BusyBatch \/ FatalBatch
                \/ FlushRuns \/ FlushRunsFails \/ SkipRuns

Next == Record \/ Link \/ BeginTick \/ BeginFlush \/ WriterStep \/ Shutdown
          \/ CloseDatabase \/ Crash \/ Reopen

Spec == Init /\ [][Next]_vars

(* The writer thread keeps ticking and finishes what it begins; a database *)
(* that is busy or fails does not do so at every attempt for ever.         *)
Fairness ==
  /\ WF_vars(BeginTick)
  /\ WF_vars(WriterStep)
  /\ SF_vars(CommitBatch)
  /\ SF_vars(FlushRuns)

FairSpec == Spec /\ Fairness

-----------------------------------------------------------------------------
(* Properties *)

Event == [run : Run, seq : 0 .. MaxEvents - 1, by : Recorder]

(* Types of every variable.                                                *)
TypeOK ==
  /\ session \in 1 .. MaxSessions
  /\ phase \in {"open", "closing", "flushed", "closed", "down"}
  /\ runSession \in [Run -> 0 .. MaxSessions]
  /\ nextSeq \in [Run -> 0 .. MaxEvents]
  /\ held \in [Recorder -> Event \cup {None}]
  /\ retry \in Seq(Event) /\ live \in Seq(Event) /\ batch \in Seq(Event)
  /\ edges \in Nat /\ batchEdges \in Nat /\ edgeTable \in Nat
  /\ tally \in Nat /\ lost \subseteq Event
  /\ wpc \in {"idle", "edges", "insert", "runs"}
  /\ mode \in {"tick", "flush", "close"}
  /\ active \in [Run -> Seq(Event)] /\ dirty \subseteq Run
  /\ trouble \in BOOLEAN /\ goal \subseteq Event
  /\ events \in Seq(Event)
  /\ runs \in [Run -> [count : Nat, fingerprint : Seq(Event)]]

(* The events in hand, and the rows from the oldest durable one to the     *)
(* youngest in the buffer.                                                 *)
InHand == {held[t] : t \in Recorder} \ {None}
Line   == events \o batch \o retry \o live

Same(e, f) == e.run = f.run /\ e.seq = f.seq

Apart(S, T) == \A e \in S, f \in T : ~Same(e, f)

(* No silent loss: while the process lives, every event it numbered in one *)
(* of the four tiers is in exactly one place - with its recorder, in the   *)
(* buffer, in the writer's batch, durable, or counted once in drop_stats - *)
(* through busy retries, rolled back batches and payloads that do not      *)
(* encode.  An event of an unknown tier is in at most one of them: outside *)
(* the buffer its loss is not counted (drop_stats.py:82).                  *)
NoSilentLoss ==
  Alive =>
    /\ Cardinality(lost) = tally
    /\ \A r \in SessionRuns, k \in 0 .. MaxEvents - 1 :
         k < nextSeq[r] /\ <<r, k>> \notin OffTier =>
           \E e \in InHand \cup Range(Line) \cup lost : e.run = r /\ e.seq = k
    /\ Apart(InHand, lost) /\ Apart(InHand, Range(Line)) /\ Apart(lost, Range(Line))
    /\ \A i, j \in 1 .. Len(Line) : i # j => ~Same(Line[i], Line[j])
    /\ \A t, u \in Recorder :
         t # u /\ held[t] # None /\ held[u] # None => ~Same(held[t], held[u])

(* Run metadata never runs ahead of the data: event_count never exceeds    *)
(* the run's durable events, and the fingerprint is that of a prefix of    *)
(* them in commit order, whatever was rolled back, retried or recovered.   *)
MetadataFollowsEvents ==
  \A r \in Run :
    LET durable == OfRun(events, r)
    IN  /\ runs[r].count <= Len(durable)
        /\ Len(runs[r].fingerprint) <= runs[r].count
        /\ IsPrefix(runs[r].fingerprint, durable)

(* A thread's events of one run are committed in the order in which the    *)
(* thread recorded them, and none twice, also when batches are retried.    *)
ThreadOrder ==
  \A i, j \in 1 .. Len(events) :
    i < j /\ events[i].run = events[j].run /\ events[i].by = events[j].by
      => events[i].seq < events[j].seq

CycleEnds == wpc = "runs" /\ wpc' = "idle" /\ phase' # "down"

Readable(e) == e \in Range(events) /\ runs[e.run].count > 0

(* flush is a barrier when its transactions went through: every event that *)
(* was buffered when it took the writer lock is readable when it returns,  *)
(* which is what makes the readers of the store see their own writes.      *)
FlushBarrier ==
  [][CycleEnds /\ mode # "tick" /\ ~trouble' =>
       \A e \in goal : Readable(e)']_vars

(* Opening the file repairs the runs a dead process left behind: each run  *)
(* with durable events is listed with all of them counted.                 *)
ReopenReconciles ==
  [][phase = "down" /\ phase' = "open" =>
       \A r \in Run : runs'[r].count = Len(OfRun(events', r))]_vars

(* While the store stays open each buffered event reaches the database or  *)
(* the drop tally, however often the database is busy before it recovers;  *)
(* one of an unknown tier at least leaves the buffer and the batch.        *)
EventuallyWritten ==
  \A e \in Event :
    (phase = "open" /\ e \in Range(retry) \cup Range(live))
      ~> \/ phase # "open"
         \/ e \in Range(events) \cup lost
         \/ ~InTier(e) /\ e \notin Range(Line)

(* While the store stays open the runs table catches up with the events    *)
(* without anybody calling flush, also when a write of it failed.          *)
EventuallyListed ==
  \A r \in Run :
    (phase = "open" /\ runs[r].count < Len(OfRun(events, r)))
      ~> (runs[r].count = Len(OfRun(events, r)) \/ phase # "open")

-----------------------------------------------------------------------------
(* What the documentation says and the code does not do *)

(* TRACE_SPEC_v1.md:133: when nothing is lost, commit order is sequence    *)
(* order, which the fingerprint depends on.                                *)
CommitOrderIsSequenceOrder ==
  \A i, j \in 1 .. Len(events) :
    i < j /\ events[i].run = events[j].run => events[i].seq < events[j].seq

(* TRACE_SPEC_v1.md:130: the fingerprint of a listed run hashes the        *)
(* signatures of all the events that are counted for it.                   *)
FingerprintCoversRun ==
  \A r \in Run : Len(runs[r].fingerprint) = runs[r].count
=============================================================================
