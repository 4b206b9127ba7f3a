-------------------------------- MODULE Baseline --------------------------------
(***************************************************************************)
(* The quick workflow of the command line: agents write runs to the trace  *)
(* database, dpk record pins one of them in the baseline file, dpk gate    *)
(* compares the baseline with the newest run.  The three are processes of  *)
(* their own; record may fail or be killed between any two of its steps.   *)
(*                                                                         *)
(* A database is [rows, events, edges]: the run ids in its runs table, the *)
(* steps of every run in trace_events, and the edges between events        *)
(* <<run, n>>.  A greater run id started later.                            *)
(***************************************************************************)
EXTENDS Alignment

CONSTANTS
  Run,        \* run ids, naturals
  ContextOf,  \* the context id of every run
  StepKinds,  \* the steps an agent may record
  MaxSteps,   \* bound: steps of a run
  MaxEdges    \* bound: edges of the trace database

VARIABLES
  db,         \* the trace database
  baseline,   \* the baseline file, or NoFile
  record,     \* the dpk record process
  gate        \* the dpk gate process

baselineVars == <<db, baseline, record, gate>>

NoRun == 0
AnyContext == "any context"

Empty == [rows |-> {}, events |-> [r \in Run |-> <<>>], edges |-> {}]
NoFile == Empty
Idle == [pc |-> "idle", exit |-> 0, run |-> NoRun, loaded |-> 0, temp |-> NoFile]
GateIdle == [pc |-> "idle", exit |-> 0, context |-> AnyContext, file |-> NoFile,
             run |-> NoRun, golden |-> <<>>, candidate |-> <<>>]

BaselineInit ==
  /\ db = Empty
  /\ baseline = NoFile
  /\ record = Idle
  /\ gate = GateIdle

EventIds(d) == {e \in Run \X (1 .. MaxSteps) : e[2] <= Len(d.events[e[1]])}

-----------------------------------------------------------------------------
(* The agents: the writer commits steps, then the row of their run; an     *)
(* edge may be committed before the events it joins.                       *)

CommitStep(r, s) ==
  /\ Len(db.events[r]) < MaxSteps
  /\ db' = [db EXCEPT !.events[r] = Append(@, s)]
  /\ UNCHANGED <<baseline, record, gate>>

CommitRow(r) ==
  /\ db.events[r] # <<>> /\ r \notin db.rows
  /\ db' = [db EXCEPT !.rows = @ \cup {r}]
  /\ UNCHANGED <<baseline, record, gate>>

(* An edge from the last step of a run to its next one, or to a later run. *)
CommitEdge(r, q) ==
  LET from == <<r, Len(db.events[r])>>
      to == <<q, Len(db.events[q]) + 1>>
  IN  /\ db.events[r] # <<>> /\ r <= q /\ to[2] <= MaxSteps
      /\ <<from, to>> \notin db.edges /\ Cardinality(db.edges) < MaxEdges
      /\ db' = [db EXCEPT !.edges = @ \cup {<<from, to>>}]
      /\ UNCHANGED <<baseline, record, gate>>

(* Opening a store gives a row to every run that has events and none.      *)
Opened(d) == [d EXCEPT !.rows = @ \cup {r \in Run : d.events[r] # <<>>}]

-----------------------------------------------------------------------------
(* get_run finds nothing for a run without a row or without events.        *)
Readable(d, run) == run \in d.rows /\ d.events[run] # <<>>

(* _select_run_id: an explicit id, or the newest row of the context.       *)
Newest(d, context) ==
  LET matching == {r \in d.rows : context \in {AnyContext, ContextOf[r]}}
  IN  IF matching = {} THEN NoRun ELSE Max(matching)

RecordDone(exit) == [record EXCEPT !.pc = "done", !.exit = exit, !.temp = NoFile]

(* run is what --run says, NoRun without it.                               *)
RecordOpen(run, context) ==
  LET opened == Opened(db)
      selected == IF run # NoRun THEN run ELSE Newest(opened, context)
  IN  /\ record.pc = "idle"
      /\ run = NoRun \/ context = AnyContext
      /\ db' = opened
      /\ record' = IF selected = NoRun THEN RecordDone(2)
                   ELSE [record EXCEPT !.pc = "load", !.run = selected]
      /\ UNCHANGED <<baseline, gate>>

RecordLoad ==
  /\ record.pc = "load"
  /\ record' = IF Readable(db, record.run)
               THEN [record EXCEPT !.pc = "backup", !.loaded = Len(db.events[record.run])]
               ELSE RecordDone(2)
  /\ UNCHANGED <<db, baseline, gate>>

(* backup copies the database as it is now into a temporary file.          *)
RecordBackup ==
  /\ record.pc = "backup"
  /\ record' = [record EXCEPT !.pc = "prune", !.temp = db]
  /\ UNCHANGED <<db, baseline, gate>>

(* Mutant: edges into pruned runs, or ahead of their events, are kept.     *)
PrunedKeepingEdges(d, run) ==
  [rows |-> d.rows \cap {run},
   events |-> [r \in Run |-> IF r = run THEN d.events[r] ELSE <<>>],
   edges |-> d.edges]

Pruned(d, run) ==
  LET kept == [rows |-> d.rows \cap {run},
               events |-> [r \in Run |-> IF r = run THEN d.events[r] ELSE <<>>],
               edges |-> d.edges]
  IN  [kept EXCEPT !.edges = {e \in @ : e[1] \in EventIds(kept) /\ e[2] \in EventIds(kept)}]

RecordPrune ==
  /\ record.pc = "prune"
  /\ record' = [record EXCEPT !.pc = "unlink", !.temp = Pruned(@, record.run)]
  /\ UNCHANGED <<db, baseline, gate>>

(* The -wal and -shm files beside the old baseline are removed first.  A   *)
(* baseline is put there in one piece and opening it commits nothing, so   *)
(* they hold no page of it.                                                *)
RecordUnlink ==
  /\ record.pc = "unlink"
  /\ record' = [record EXCEPT !.pc = "replace"]
  /\ UNCHANGED <<db, baseline, gate>>

RecordReplace ==
  /\ record.pc = "replace"
  /\ baseline' = record.temp
  /\ record' = RecordDone(0)
  /\ UNCHANGED <<db, gate>>

(* An error of SQLite or of the file system; the temporary file goes.      *)
RecordFail ==
  /\ record.pc \in {"backup", "prune", "unlink", "replace"}
  /\ record' = RecordDone(2)
  /\ UNCHANGED <<db, baseline, gate>>

(* Killed, and its temporary file left behind; or ended.  A new process    *)
(* starts afresh.                                                          *)
RecordEnd ==
  /\ record.pc # "idle"
  /\ record' = Idle
  /\ UNCHANGED <<db, baseline, gate>>

-----------------------------------------------------------------------------
(* dpk gate and dpk compare: both files are opened, then a run is selected *)
(* in each, loaded and compared.  An open baseline stays the file it was   *)
(* when another takes its name.                                            *)

GateDone(exit) ==
  [gate EXCEPT !.pc = "done", !.exit = exit, !.file = NoFile, !.run = NoRun]

GateOpen(context) ==
  /\ gate.pc = "idle"
  /\ IF baseline = NoFile
     THEN gate' = GateDone(2) /\ UNCHANGED db
     ELSE /\ gate' = [gate EXCEPT !.pc = "select", !.context = context, !.file = baseline]
          /\ db' = Opened(db)
  /\ UNCHANGED <<baseline, record>>

Verdict(golden, candidate) ==
  IF Check(Align(StrictAudit, golden, candidate, Structural), StrictPolicy) THEN 0 ELSE 1

(* The candidate is selected here; it may grow until it is loaded.         *)
GateSelect ==
  LET selected == Newest(db, gate.context)
  IN  /\ gate.pc = "select"
      /\ gate' = IF NoRun \in {selected, Newest(gate.file, gate.context)} THEN GateDone(2)
                 ELSE [gate EXCEPT !.pc = "load", !.run = selected]
      /\ UNCHANGED <<db, baseline, record>>

GateJudge ==
  LET golden == gate.file.events[Newest(gate.file, gate.context)]
      candidate == db.events[gate.run]
  IN  /\ gate.pc = "load"
      /\ gate' = [GateDone(Verdict(golden, candidate)) EXCEPT
                    !.golden = golden, !.candidate = candidate]
      /\ UNCHANGED <<db, baseline, record>>

GateEnd ==
  /\ gate.pc = "done"
  /\ gate' = GateIdle
  /\ UNCHANGED <<db, baseline, record>>

BaselineNext ==
  \/ \E r \in Run, s \in StepKinds : CommitStep(r, s)
  \/ \E r \in Run : CommitRow(r)
  \/ \E r, q \in Run : CommitEdge(r, q)
  \/ \E run \in Run \cup {NoRun}, context \in {ContextOf[r] : r \in Run} \cup {AnyContext} :
       RecordOpen(run, context)
  \/ RecordLoad \/ RecordBackup \/ RecordPrune \/ RecordUnlink \/ RecordReplace
  \/ RecordFail \/ RecordEnd
  \/ \E context \in {ContextOf[r] : r \in Run} \cup {AnyContext} : GateOpen(context)
  \/ GateSelect \/ GateJudge \/ GateEnd

-----------------------------------------------------------------------------
(* The baseline is whole whenever another process may look at it: exactly  *)
(* one run with its row, a prefix of what that run recorded and no edge    *)
(* that leads out of it.  After a record that succeeded it is the run that *)
(* was selected, no shorter than the number of events printed.             *)
WholeFile(file) ==
  \E r \in Run :
    /\ file.rows = {r}
    /\ file.events[r] # <<>> /\ IsPrefix(file.events[r], db.events[r])
    /\ \A q \in Run \ {r} : file.events[q] = <<>>
    /\ \A e \in file.edges : e[1] \in EventIds(file) /\ e[2] \in EventIds(file)

PinnedWhole ==
  /\ baseline # NoFile => WholeFile(baseline)
  /\ gate.pc \in {"select", "load"} => WholeFile(gate.file)
  /\ record.pc = "done" /\ record.exit = 0 =>
       /\ baseline.rows = {record.run}
       /\ Len(baseline.events[record.run]) >= record.loaded

(* The gate exits 0 exactly when the run pinned when it started and the    *)
(* newest run take the same steps, and 1 when they differ, whatever record *)
(* and the agents do meanwhile.                                            *)
GateExit ==
  gate.pc = "done" /\ gate.golden # <<>> =>
    /\ gate.exit = 0 <=> SameSteps(gate.golden, gate.candidate, Structural)
    /\ gate.exit \in {0, 1}
=============================================================================
