------------------------------ MODULE LlamaIndex ------------------------------
(***************************************************************************)
(* DProvenanceLlamaIndexCallbackHandler of integrations/llama_index.py,    *)
(* each callback under its lock.  A span gets a fresh id, here the id of   *)
(* its first event.                                                        *)
(*                                                                         *)
(* The framework is external: an operation names a parent that may be      *)
(* open, ended or unknown; an end may come twice or without its start; the *)
(* callback may run inside an instrumented step, the ambient span.         *)
(***************************************************************************)
EXTENDS RunLog

CONSTANTS Op, RootMarker,
  MaxStray           \* bound: ends without an open operation

NoSpan == 0
Ambient == -1        \* the span of the step around a callback

NoEvent == [span |-> NoSpan]

(* fw: phase and parent of each operation, stray ends so far.              *)
(* mem: link_lifecycle and _open_events.                                   *)
Init ==
  /\ log = <<>> /\ edges = <<>>
  /\ fw = [phase |-> [o \in Op |-> "idle"], parent |-> [o \in Op |-> RootMarker],
           stray |-> 0]
  /\ \E link \in BOOLEAN : mem = [link |-> link, open |-> [o \in Op |-> NoEvent]]

IsOpen(o) == o \in Op /\ mem.open[o] # NoEvent

(* Mutant: the caller's ambient span wins over the framework's parent.     *)
SpanOfParentAmbient(parent, ambient) ==
  IF ambient # NoSpan THEN ambient
  ELSE IF IsOpen(parent) THEN mem.open[parent].span ELSE NoSpan

SpanOfParent(parent, ambient) ==
  IF IsOpen(parent) THEN mem.open[parent].span ELSE ambient

OnEventStart(o, parent, ambient) ==
  LET above == SpanOfParent(parent, ambient) IN
  /\ fw.phase[o] = "idle" /\ parent # o
  /\ fw' = [fw EXCEPT !.phase[o] = "open", !.parent[o] = parent]
  /\ Record(Event("run", "start", NextId, above, o))
  /\ mem' = [mem EXCEPT !.open[o] =
               [span |-> NextId, parent |-> above, start |-> NextId]]
  /\ UNCHANGED edges

OnEventEnd(o, ambient) ==
  /\ IF fw.phase[o] = "open"
     THEN fw' = [fw EXCEPT !.phase[o] = "ended"]
     ELSE fw.stray < MaxStray /\ fw' = [fw EXCEPT !.stray = @ + 1]
  /\ IF IsOpen(o)
     THEN /\ Record(Event("run", "end", mem.open[o].span, mem.open[o].parent, o))
          /\ edges' = edges \o IF mem.link
               THEN Edge(mem.open[o].start, NextId, "DERIVED_FROM") ELSE <<>>
     ELSE /\ Record(Event("run", "end", NextId, ambient, o))
          /\ UNCHANGED edges
  /\ mem' = [mem EXCEPT !.open[o] = NoEvent]

Next ==
  \E o \in Op, ambient \in {NoSpan, Ambient} :
     \/ \E parent \in Op \cup {RootMarker} : OnEventStart(o, parent, ambient)
     \/ OnEventEnd(o, ambient)

Spec == Init /\ [][Next]_logVars

-----------------------------------------------------------------------------
Complete == mem.link => \A i, j \in DOMAIN log : DerivedOnce(i, j)

Current == \A o \in Op : IsOpen(o) <=> fw.phase[o] = "open"

(* A child started while its parent was open hangs under the parent's      *)
(* span, in whatever step the callback ran, otherwise under no operation;  *)
(* and an operation that ended was completed in its own span.              *)
Attributed ==
  \A j \in DOMAIN log : log[j].part = "start" =>
    LET o == log[j].owner
        parents == {i \in 1 .. j - 1 : /\ log[i].part = "start"
                                       /\ log[i].owner = fw.parent[o]}
    IN  /\ IF \E i \in parents : OpenAt(i, j)
           THEN \E i \in parents : log[j].parent = log[i].span
           ELSE log[j].parent \in {NoSpan, Ambient}
        /\ fw.phase[o] = "ended" => Completed(log[j].span)
=============================================================================
