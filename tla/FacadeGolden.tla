------------------------------ MODULE FacadeGolden ------------------------------
(***************************************************************************)
(* facade.py: a script records blocks into the implicit store, saves its   *)
(* last run to a .jsonl or .sqlite file, and another compares its own last *)
(* run with what it finds there.      The writer commits a save in        *)
(* batches cut anywhere; the script may be killed between any two steps.   *)
(*                                                                         *)
(* A run is a sequence of steps; its number orders the runs by time.  The  *)
(* files keep the ids <<run, n>> of the events they hold.                  *)
(***************************************************************************)
EXTENDS TraceDiff

CONSTANTS
  StepKinds,  \* the events code inside a block may record
  MaxRuns,    \* bound: top-level blocks
  MaxEvents   \* bound: events of all runs together

VARIABLES
  runs,      \* every run recorded, by this script and those before it
  store,     \* _default_store: the runs of the script that runs now
  depth,     \* blocks that are open
  path,      \* "jsonl" or "sqlite": the file the scripts agree on
  sqlite,    \* the .sqlite file: [events, rows]
  jsonl,     \* the .jsonl file: the ids of its lines, in order
  saving,    \* the call of save that runs
  entered    \* history: events of a run in its first save to .sqlite if that
             \* returned; NotSaved before it began, Cut when it did not

facadeVars == <<runs, store, depth, path, sqlite, jsonl, saving, entered>>

NoRun == 0
NotSaved == -1
Cut == 0
Newest(ids) == IF ids = {} THEN NoRun ELSE Max(ids)

last == Newest(store)   \* _last_run_id: the run entered last

NoSave == [on |-> FALSE, run |-> NoRun, next |-> 0, upto |-> 0, first |-> FALSE, stored |-> FALSE]

FacadeInit ==
  /\ runs = <<>> /\ store = {} /\ depth = 0
  /\ path \in {"jsonl", "sqlite"}
  /\ sqlite = [events |-> {}, rows |-> {}] /\ jsonl = <<>>
  /\ saving = NoSave
  /\ entered = [r \in 1 .. MaxRuns |-> NotSaved]

Block(type) == [type |-> type, value |-> 1, parent |-> NoParent, engine |-> "block",
                priority |-> IF type = "error" THEN Critical ELSE Structural]

-----------------------------------------------------------------------------
(* Blocks.  A top-level block starts a run and makes it the last one when  *)
(* it is entered, not when it is left; an exception leaves one block or    *)
(* all of them.                                                            *)

Recorded(e) == [runs EXCEPT ![last] = Append(@, e)]
EventsOf(rs) == FoldLeft(LAMBDA n, run : n + Len(run), 0, rs)
CanRecord == ~ saving.on /\ EventsOf(runs) < MaxEvents

Enter ==
  /\ CanRecord
  /\ IF depth = 0
     THEN /\ Len(runs) < MaxRuns /\ store' = store \cup {Len(runs) + 1}
          /\ runs' = Append(runs, <<Block("start")>>)
     ELSE runs' = Recorded(Block("start")) /\ UNCHANGED store
  /\ depth' = depth + 1
  /\ UNCHANGED <<sqlite, jsonl, saving, entered>>

Step(e) ==
  /\ CanRecord /\ depth > 0
  /\ runs' = Recorded(e)
  /\ UNCHANGED <<store, depth, sqlite, jsonl, saving, entered>>

Leave(type) ==
  /\ CanRecord /\ depth > 0
  /\ runs' = Recorded(Block(type)) /\ depth' = depth - 1
  /\ UNCHANGED <<store, sqlite, jsonl, saving, entered>>

(* Left by a KeyboardInterrupt, a CancelledError or a GeneratorExit, which *)
(* the handler of Exception lets through: neither an end nor an error is   *)
(* recorded, and the run of a top-level block is over all the same.        *)
Abandon ==
  /\ ~ saving.on /\ depth > 0
  /\ depth' = depth - 1
  /\ UNCHANGED <<runs, store, sqlite, jsonl, saving, entered>>

-----------------------------------------------------------------------------
(* save.  Opening the .jsonl file empties it; opening the .sqlite file     *)
(* gives a row to the runs that a killed save left without one.            *)

Save(r) ==
  /\ ~ saving.on /\ r \in store
  /\ saving' = [NoSave EXCEPT !.on = TRUE, !.run = r, !.upto = Len(runs[r]),
                              !.first = path = "sqlite" /\ entered[r] = NotSaved]
  /\ IF path = "jsonl"
     THEN jsonl' = <<>> /\ UNCHANGED sqlite
     ELSE sqlite' = [sqlite EXCEPT !.rows = {id[1] : id \in sqlite.events}] /\ UNCHANGED jsonl
  /\ entered' = IF saving'.first THEN [entered EXCEPT ![r] = Cut] ELSE entered
  /\ UNCHANGED <<runs, store, depth>>

WriteLine ==
  /\ saving.on /\ path = "jsonl" /\ saving.next < saving.upto
  /\ jsonl' = Append(jsonl, <<saving.run, saving.next + 1>>)
  /\ saving' = [saving EXCEPT !.next = @ + 1]
  /\ UNCHANGED <<runs, store, depth, sqlite, entered>>

(* A plain INSERT: one id that the file holds and the batch is rolled back *)
(* as a whole.                                                             *)
CommitBatch(upto) ==
  LET ids == {<<saving.run, n>> : n \in saving.next + 1 .. upto}
      fits == ids \cap sqlite.events = {}
  IN  /\ saving.on /\ path = "sqlite" /\ upto \in saving.next + 1 .. saving.upto
      /\ sqlite' = IF fits THEN [sqlite EXCEPT !.events = @ \cup ids] ELSE sqlite
      /\ saving' = [saving EXCEPT !.next = upto, !.stored = @ \/ fits]
      /\ UNCHANGED <<runs, store, depth, jsonl, entered>>

(* The runs table, on a tick of the writer or at the end of save.          *)
WithRow == IF saving.stored THEN [sqlite EXCEPT !.rows = @ \cup {saving.run}] ELSE sqlite

WriteRow ==
  /\ saving.on /\ path = "sqlite" /\ saving.stored
  /\ sqlite' = WithRow
  /\ UNCHANGED <<runs, store, depth, jsonl, saving, entered>>

SaveReturns ==
  /\ saving.on /\ saving.next = saving.upto
  /\ sqlite' = WithRow
  /\ entered' = IF saving.first THEN [entered EXCEPT ![saving.run] = saving.upto] ELSE entered
  /\ saving' = NoSave
  /\ UNCHANGED <<runs, store, depth, jsonl>>

-----------------------------------------------------------------------------
(* diff.  RawTraceStore reads the runs that have a row, newest first, and  *)
(* repairs nothing; each run in the order of its sequence numbers.         *)

LoadSqlite ==
  LET newest == Newest(sqlite.rows)
      numbers == {id[2] : id \in {x \in sqlite.events : x[1] = newest}}
  IN  [run |-> newest, numbers |-> SetToSortSeq(numbers, <)]

(* The lines of the run with the latest event of the file.                 *)
LoadJsonl ==
  LET newest == Newest({id[1] : id \in ToSet(jsonl)})
      lines == SelectSeq(jsonl, LAMBDA id : id[1] = newest)
  IN  [run |-> newest, numbers |-> [k \in DOMAIN lines |-> lines[k][2]]]

(* _load_run: the newest run of the file.                                  *)
Load == IF path = "sqlite" THEN LoadSqlite ELSE LoadJsonl

(* The lines of a diff: a block is reported once, by its name.             *)
Lines(changes) ==
  {<<c.kind, IF c.signature[1] \in {"start", "end", "error"} THEN c.signature[2]
                                                             ELSE c.signature[1]>> :
     c \in changes}

(* diff only reads: what it compares the last run with, and the changes.   *)
Loaded(golden) ==
  [k \in DOMAIN golden.numbers |-> runs[golden.run][golden.numbers[k]]]

Changes(golden) == Diff(Loaded(golden), runs[last], Structural)

(* Killed; the next script starts with an empty implicit store.            *)
Die ==
  /\ store' = {} /\ depth' = 0 /\ saving' = NoSave
  /\ UNCHANGED <<runs, sqlite, jsonl, entered>>

FacadeNext ==
  /\ UNCHANGED path
  /\ \/ Enter \/ \E e \in StepKinds : Step(e)
     \/ \E type \in {"end", "error"} : Leave(type)
     \/ Abandon
     \/ \E r \in store : Save(r)
     \/ WriteLine \/ \E upto \in 1 .. saving.upto : CommitBatch(upto)
     \/ WriteRow \/ SaveReturns \/ Die

-----------------------------------------------------------------------------
(* What the first save of a run wrote is never lost, whatever is saved     *)
(* later, killed half way or refused for an id that is there; and the last *)
(* run, saved and not grown since, is what diff finds, without a change.   *)
(* A diff prints a line exactly when the steps differ; a .jsonl file holds *)
(* a run from its start.                                                   *)
SavedStays ==
  \A r \in DOMAIN entered :
    \A n \in 1 .. entered[r] : <<r, n>> \in sqlite.events

GoldenFound ==
  ~ saving.on /\ last # NoRun =>
    LET golden == Load
        SignaturesOf(run) == [k \in DOMAIN run |-> Signature(run[k])]
        Relevant(run) == SignaturesOf(SelectSeq(run, LAMBDA e : e.priority >= Structural))
    IN  /\ entered[last] > 0 =>
             /\ golden.run = last
             /\ IsPrefix([n \in 1 .. entered[last] |-> n], golden.numbers)
             /\ entered[last] = Len(runs[last]) => Changes(golden) = {}
        /\ golden.run # NoRun =>
             (Lines(Changes(golden)) = {} <=> Relevant(Loaded(golden)) = Relevant(runs[last]))
        /\ \A k \in DOMAIN jsonl : jsonl[k] = <<golden.run, k>>
        /\ path = "jsonl" /\ golden.run = last /\ Len(jsonl) = Len(runs[last]) => Changes(golden) = {}
=============================================================================
