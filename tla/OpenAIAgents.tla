----------------------------- MODULE OpenAIAgents -----------------------------
(***************************************************************************)
(* DProvenanceTracingProcessor of integrations/openai_agents.py: one       *)
(* instance for all traces of all threads, each callback under its lock.   *)
(*                                                                         *)
(* The SDK is external: traces run side by side and use the same span ids; *)
(* a trace may be announced again while it is live, a span may end twice   *)
(* or after its trace, or start before the trace was announced.            *)
(***************************************************************************)
EXTENDS RunLog

CONSTANTS Trace, Span, NoSpan,
  MaxRepeats,        \* bound: callbacks that come a second time
  MaxSpans           \* bound: spans started, over all traces

NoState == [run |-> NoId]

(* fw: phases of traces and of their spans, repeated callbacks.            *)
(* mem: link_lifecycle, _traces, and the number of runs opened.            *)
Init ==
  /\ log = <<>> /\ edges = <<>>
  /\ fw = [trace |-> [t \in Trace |-> "idle"],
           span |-> [t \in Trace |-> [s \in Span |-> "idle"]],
           parent |-> [t \in Trace |-> [s \in Span |-> NoSpan]], repeats |-> 0]
  /\ \E link \in BOOLEAN :
        mem = [link |-> link, traces |-> [t \in Trace |-> NoState], runs |-> 0]

Live(t) == mem.traces[t] # NoState

NewState == [run |-> mem.runs + 1, starts |-> [s \in Span |-> NoId], ended |-> {}]

(* One of the bounded number of callbacks that come again.                 *)
Repeat == fw.repeats < MaxRepeats /\ fw' = [fw EXCEPT !.repeats = @ + 1]

(* A second announcement of a live trace keeps its run.                    *)
OnTraceStart(t) ==
  /\ \/ fw.trace[t] = "idle" /\ fw' = [fw EXCEPT !.trace[t] = "open"]
     \/ fw.trace[t] = "open" /\ Repeat
  /\ mem' = IF Live(t) THEN mem
            ELSE [mem EXCEPT !.traces[t] = NewState, !.runs = @ + 1]
  /\ UNCHANGED <<log, edges>>

OnTraceEnd(t) ==
  /\ fw.trace[t] = "open"
  /\ fw' = [fw EXCEPT !.trace[t] = "ended"]
  /\ mem' = [mem EXCEPT !.traces[t] = NoState]
  /\ UNCHANGED <<log, edges>>

SpansStarted ==
  Cardinality({p \in Trace \X Span : fw.span[p[1]][p[2]] # "idle"})

OnSpanStart(t, s, parent) ==
  LET state == mem.traces[t]
      starts == [state.starts EXCEPT ![s] = NextId]
  IN
  /\ fw.span[t][s] = "idle" /\ fw.trace[t] # "ended" /\ SpansStarted < MaxSpans
  /\ parent # NoSpan => fw.span[t][parent] = "open"
  /\ fw' = [fw EXCEPT !.span[t][s] = "open", !.parent[t][s] = parent]
  /\ IF ~ Live(t) THEN UNCHANGED <<log, edges, mem>>
     ELSE /\ Record(Event(state.run, "start", s, parent, t))
          /\ IF mem.link
             THEN /\ mem' = [mem EXCEPT !.traces[t].starts = starts]
                  /\ edges' = edges \o IF parent = NoSpan THEN <<>>
                                       ELSE Edge(starts[parent], NextId, "INFORMED")
             ELSE UNCHANGED <<edges, mem>>

(* Mutant: the set of ended spans is not consulted.                        *)
IsRepeatIgnored(state, s) == FALSE

IsRepeat(state, s) == s \in state.ended

OnSpanEnd(t, s) ==
  LET state == mem.traces[t] IN
  /\ \/ fw.span[t][s] = "open" /\ fw' = [fw EXCEPT !.span[t][s] = "ended"]
     \/ fw.span[t][s] = "ended" /\ Repeat
  /\ IF ~ Live(t) THEN UNCHANGED <<log, edges, mem>>
     ELSE IF IsRepeat(state, s) THEN UNCHANGED <<log, edges, mem>>
     ELSE /\ Record(Event(state.run, "end", s, fw.parent[t][s], t))
          /\ mem' = [mem EXCEPT !.traces[t] =
                       [state EXCEPT !.ended = @ \cup {s},
                                     !.starts = [@ EXCEPT ![s] = NoId]]]
          /\ edges' = edges \o IF mem.link
                      THEN Edge(state.starts[s], NextId, "DERIVED_FROM") ELSE <<>>

Next ==
  \/ \E t \in Trace : OnTraceStart(t) \/ OnTraceEnd(t)
  \/ \E t \in Trace, s \in Span, parent \in Span \cup {NoSpan} : OnSpanStart(t, s, parent)
  \/ \E t \in Trace, s \in Span : OnSpanEnd(t, s)

Spec == Init /\ [][Next]_logVars

-----------------------------------------------------------------------------
(* A span recorded in full is linked, a child is informed by its parent    *)
(* unless the parent had ended.                                            *)
Complete ==
  mem.link => \A i, j \in DOMAIN log :
    DerivedOnce(i, j) /\ (IsChildOf(j, i) /\ OpenAt(i, j) => InformedOnce(i, j))

(* State is kept for live traces only, and of their spans for those that   *)
(* are open.                                                               *)
Current ==
  \A t \in Trace :
    /\ Live(t) <=> fw.trace[t] = "open"
    /\ Live(t) => \A s \in Span :
         /\ mem.traces[t].starts[s] # NoId => mem.link /\ fw.span[t][s] = "open"
         /\ s \in mem.traces[t].ended => fw.span[t][s] = "ended"

(* The events of a trace share a run, those of two traces never do.        *)
Attributed ==
  \A i, j \in DOMAIN log : log[i].owner = log[j].owner <=> log[i].run = log[j].run
=============================================================================
