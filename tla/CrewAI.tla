-------------------------------- MODULE CrewAI --------------------------------
(***************************************************************************)
(* DProvenanceKitEventListener of integrations/crewai.py.  The event bus   *)
(* hands the events of a crew to a thread pool, so that handle sees them   *)
(* in any order; it runs under one lock.                                   *)
(*                                                                         *)
(* The framework is external: a kickoff emits its start, the starts and    *)
(* completions of its operations, and, when the bus has delivered all of   *)
(* these, its completion.  Another kickoff may begin at any time after the *)
(* first, beside it or while its completion is still under way; one with a *)
(* parent begins and ends inside it.                                       *)
(***************************************************************************)
EXTENDS RunLog

CONSTANTS
  Kickoff, Op,       \* Kickoff is a sequence, in the order of the starts
  CrewOf,            \* the crew of each kickoff: a crew may be reused
  KickoffOf,         \* the kickoff of each operation
  ParentOf,          \* the parent of those spans that have one: a kickoff, an
                     \* operation, or Internal
  Internal,          \* an operation of CrewAI that the listener does not hear of
  LinkLifecycle      \* link_lifecycle: whether edges are made

Root == ToSet(Kickoff)
Spans == Root \cup Op
NoSpan == "no span"
Crew == {CrewOf[k] : k \in Root}
HomeOf(s) == IF s \in Root THEN s ELSE KickoffOf[s]
Parent(s) == IF s \in DOMAIN ParentOf THEN ParentOf[s] ELSE NoSpan

NoRec == [start |-> NoId, end |-> NoId, parent |-> NoSpan,
          derived |-> FALSE, informed |-> FALSE]
NoState == [run |-> NoId]
NoKey == "no key"

(* fw: the events emitted and those under way, as pairs <<span, phase>>.   *)
(* mem: _runs, _open_keys, _last_key and the number of runs opened.        *)
Init ==
  /\ log = <<>> /\ edges = <<>> /\ fw = [emitted |-> {}, bus |-> {}]
  /\ mem = [runs |-> [c \in Crew |-> NoState], open |-> <<>>, last |-> NoKey, opened |-> 0]

Emitted(s, phase) == <<s, phase>> \in fw.emitted
Running(s) == Emitted(s, "start") /\ ~ Emitted(s, "end")

Begins(s) ==
  /\ ~ Emitted(s, "start")
  /\ Parent(s) \in Spans => Running(Parent(s))
  /\ s \in Op => Running(KickoffOf[s])
  /\ \A k \in 1..Len(Kickoff) : \A m \in 1 .. k - 1 :
       Kickoff[k] = s => Emitted(Kickoff[m], "start")

Within(c, s) == Parent(c) = s \/ (c \in Op /\ KickoffOf[c] = s)

Ends(s) ==
  /\ Running(s)
  /\ \A c \in Spans : Within(c, s) => ~ Running(c)
  /\ s \in Root => \A e \in fw.bus : HomeOf(e[1]) # s

Emit(s, phase) ==
  /\ IF phase = "start" THEN Begins(s) ELSE Ends(s)
  /\ fw' = [emitted |-> fw.emitted \cup {<<s, phase>>},
            bus |-> fw.bus \cup {<<s, phase>>}]
  /\ UNCHANGED <<log, edges, mem>>

-----------------------------------------------------------------------------
(* _resolve_edges after an event of span s; state is that of its run.      *)

(* Mutant: only the child looks for its parent.                            *)
WaitingForNobody(state, s) == {}

(* The children whose INFORMED edge waited for the start of s.             *)
Waiting(state, s) ==
  IF state.spans[s].start = NoId THEN {}
  ELSE {c \in state.pending[s] :
          state.spans[c].start # NoId /\ ~ state.spans[c].informed}

StartOf(state, s) == IF s \in Spans THEN state.spans[s].start ELSE NoId

Derivable(rec) == rec.start # NoId /\ rec.end # NoId /\ ~ rec.derived
Informable(rec) == rec.start # NoId /\ rec.parent # NoSpan /\ ~ rec.informed
IsInformed(state, rec) == Informable(rec) /\ StartOf(state, rec.parent) # NoId

NewEdges(state, s) ==
  IF ~ LinkLifecycle THEN <<>> ELSE
  LET rec == state.spans[s]
      waiting == SetToSeq(Waiting(state, s))
  IN  (IF Derivable(rec) THEN Edge(rec.start, rec.end, "DERIVED_FROM") ELSE <<>>)
      \o (IF IsInformed(state, rec)
          THEN Edge(StartOf(state, rec.parent), rec.start, "INFORMED") ELSE <<>>)
      \o FlattenSeq([k \in DOMAIN waiting |->
            Edge(rec.start, state.spans[waiting[k]].start, "INFORMED")])

Resolved(state, s) ==
  IF ~ LinkLifecycle THEN state ELSE
  LET rec == state.spans[s]
      marked == [c \in Spans |->
        [state.spans[c] EXCEPT
           !.derived = @ \/ (c = s /\ Derivable(rec)),
           !.informed = @ \/ (c = s /\ IsInformed(state, rec))
                          \/ c \in Waiting(state, s)]]
      waits == [p \in Spans \cup {Internal} |->
        CASE p = s /\ rec.start # NoId -> {}
          [] p = rec.parent /\ Informable(rec) /\ ~ IsInformed(state, rec) ->
               state.pending[p] \cup {s}
          [] OTHER -> state.pending[p]]
  IN  [state EXCEPT !.spans = marked, !.pending = waits]

-----------------------------------------------------------------------------
(* _record: the event, the bookkeeping of its span, the edges.             *)
Noted(state, s, phase) ==
  LET rec == state.spans[s] IN
  [state EXCEPT !.spans[s] =
     IF phase = "start"
     THEN [rec EXCEPT !.start = NextId,
                      !.parent = IF Parent(s) # NoSpan THEN Parent(s) ELSE @]
     ELSE [rec EXCEPT !.end = NextId,
                      !.parent = IF @ = NoSpan THEN Parent(s) ELSE @]]

(* The event goes to the run of key, whose state before it is given.       *)
RecordIn(key, state, s, phase, memory) ==
  LET noted == Noted(state, s, phase) IN
  /\ Record(Event(state.run, phase, s, Parent(s), HomeOf(s)))
  /\ edges' = edges \o NewEdges(noted, s)
  /\ mem' = [memory EXCEPT !.runs[key] = Resolved(noted, s)]

NewState == [run |-> mem.opened + 1, isOpen |-> TRUE,
             spans |-> [s \in Spans |-> NoRec],
             pending |-> [p \in Spans \cup {Internal} |-> {}]]

Known(key) == mem.runs[key] # NoState

(* _open_run and the record of a kickoff's start; a crew whose kickoff is  *)
(* open keeps its run.                                                     *)
OpenRun(key, s) ==
  IF Known(key) /\ mem.runs[key].isOpen
  THEN RecordIn(key, mem.runs[key], s, "start", mem)
  ELSE RecordIn(key, NewState, s, "start",
                [mem EXCEPT !.open = Append(@, key), !.last = key, !.opened = @ + 1])

(* _active_run, or NoKey.                                                  *)
ActiveKey == IF mem.open # <<>> THEN Last(mem.open) ELSE mem.last

(* The completion of a kickoff: its own run, else the active one, which is *)
(* then closed in its place.                                               *)
CloseRun(key, s) ==
  LET target == IF Known(key) THEN key ELSE ActiveKey IN
  IF target = NoKey THEN UNCHANGED <<log, edges, mem>>
  ELSE RecordIn(target, [mem.runs[target] EXCEPT !.isOpen = FALSE], s, "end",
                [mem EXCEPT !.open = RemoveFirst(@, key)])

Handle(s, phase) ==
  /\ <<s, phase>> \in fw.bus
  /\ fw' = [fw EXCEPT !.bus = @ \ {<<s, phase>>}]
  /\ IF s \in Root
     THEN IF phase = "start" THEN OpenRun(CrewOf[s], s) ELSE CloseRun(CrewOf[s], s)
     ELSE IF ActiveKey = NoKey THEN UNCHANGED <<log, edges, mem>>
     ELSE RecordIn(ActiveKey, mem.runs[ActiveKey], s, phase, mem)

Next == \E s \in Spans, phase \in {"start", "end"} : Emit(s, phase) \/ Handle(s, phase)

Spec == Init /\ [][Next]_logVars

-----------------------------------------------------------------------------
(* Every edge both of whose events are in the run is there, once, whatever *)
(* the order in which they arrived.                                        *)
Complete ==
  LinkLifecycle => \A i, j \in DOMAIN log : DerivedOnce(i, j) /\ InformedOnce(i, j)

(* The events of a kickoff and of its operations have a run, and no other  *)
(* kickoff's events are in it.                                             *)
Attributed ==
  \A i, j \in DOMAIN log : log[i].run = log[j].run <=> log[i].owner = log[j].owner

(* A child waits only for a parent whose start has not arrived, and the    *)
(* keys of open kickoffs are those of the runs that are open.              *)
Current ==
  /\ \A c \in Crew : Known(c) =>
       \A p \in Spans : mem.runs[c].pending[p] # {} => mem.runs[c].spans[p].start = NoId
  /\ \A c \in Crew : c \in ToSet(mem.open) <=> Known(c) /\ mem.runs[c].isOpen

=============================================================================
