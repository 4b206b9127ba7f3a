------------------------------- MODULE RunLog -------------------------------
(***************************************************************************)
(* What the recording adapters write: the events of ActiveTraceRun.record  *)
(* and the edges of ActiveTraceRun.link, in the order of the calls.  An    *)
(* event's id is its place in the log; part tells the start of a span from *)
(* its completion (end or error) and from a point inside it.  owner is not *)
(* recorded: it is what the event was really about.                        *)
(*                                                                         *)
(* fw is the state of the instrumented framework, which is external, and   *)
(* mem that of the adapter.                                                *)
(***************************************************************************)
EXTENDS Integers, Sequences, FiniteSets, SequencesExt, FiniteSetsExt

VARIABLES log, edges, fw, mem

NoId == 0
logVars == <<log, edges, fw, mem>>
NextId == Len(log) + 1

Event(run, part, span, parent, owner) ==
  [run |-> run, part |-> part, span |-> span, parent |-> parent, owner |-> owner]

Record(event) == log' = Append(log, event)

(* link and _link: nothing without both ends, nothing for a self-edge.     *)
Edge(source, target, type) ==
  IF NoId \in {source, target} \/ source = target THEN <<>>
  ELSE <<[source |-> source, target |-> target, type |-> type]>>

Times(source, target, type) ==
  Cardinality({k \in DOMAIN edges :
                 edges[k] = [source |-> source, target |-> target, type |-> type]})

(* The events of one part with a given span, in any run.                   *)
Of(part, span) == {i \in DOMAIN log : log[i].part = part /\ log[i].span = span}

Completed(span) == Of("end", span) # {}

-----------------------------------------------------------------------------
(* A derivation goes from the start to the completion of one span; an      *)
(* INFORMED edge from the start of a span to the start of a child of it.   *)
Derives(e) ==
  /\ log[e.source].part = "start" /\ log[e.target].part = "end"
  /\ log[e.source].span = log[e.target].span

Informs(e) ==
  /\ log[e.source].part = "start" /\ log[e.target].part = "start"
  /\ log[e.target].parent = log[e.source].span

JoinsSpans(e) == IF e.type = "DERIVED_FROM" THEN Derives(e) ELSE Informs(e)

(* No edge joins anything else, whatever was called in between.           *)
EdgesJoinSpans == \A e \in ToSet(edges) : JoinsSpans(e)

WithinRun(e) == log[e.source].run = log[e.target].run

(* The start and completion of a span of one run are linked exactly once.  *)
DerivedOnce(i, j) ==
  /\ log[i].part = "start" /\ log[j].part = "end"
  /\ log[i].run = log[j].run /\ log[i].span = log[j].span
  => Times(i, j, "DERIVED_FROM") = 1

IsChildOf(j, i) ==
  /\ log[i].part = "start" /\ log[j].part = "start"
  /\ log[i].run = log[j].run /\ log[j].parent = log[i].span

InformedOnce(i, j) == IsChildOf(j, i) => Times(i, j, "INFORMED") = 1

(* The parent had not been completed when the child was started.           *)
OpenAt(i, j) == \A k \in Of("end", log[i].span) : log[k].run = log[i].run => k > j

(* A span is completed at most once in a run, although ends repeat.        *)
(* LangChain and CrewAI have no check of their own: there it says that     *)
(* their frameworks finish a run or a node once, and no theorem claims it. *)
OneCompletion ==
  \A i, j \in DOMAIN log :
    /\ log[i].part = "end" /\ log[j].part = "end"
    /\ log[i].run = log[j].run /\ log[i].span = log[j].span
    => i = j
=============================================================================
