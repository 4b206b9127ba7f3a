---------------------------- MODULE Instrumentation ----------------------------
(***************************************************************************)
(* Instrumented code: traced functions and generators (instrument.py), the *)
(* facade's blocks (facade.py), the Google GenAI wrapper                   *)
(* (integrations/google_genai.py) and run scopes (kit.py, traced_run, the  *)
(* FastAPI middleware), all of which keep their place in context           *)
(* variables.  A task is a thread or an asyncio task with a copy of the    *)
(* context it was created in; its open frames are a stack.                 *)
(*                                                                         *)
(* A generator is resumed in whatever task and step asks for its next      *)
(* item, so it sets no context variable across a yield.  A span gets a     *)
(* fresh id, here the id of its start event.                               *)
(***************************************************************************)
EXTENDS RunLog

CONSTANTS Task,
  First,             \* the task that exists at the start
  MaxSteps,          \* bound: spans started and points recorded
  MaxRuns            \* bound: runs opened

NoSpan == 0
NoRun == 0

(* current_run, current_span_id, parent_span_id and _enclosing_step.       *)
NoContext == [run |-> NoRun, span |-> NoSpan, parent |-> NoSpan, step |-> NoId]

(* fw: the frames of each task, the context it was created with, whether   *)
(* it exists, runs opened.  mem: its context, and the paused generators.   *)
Init ==
  /\ log = <<>> /\ edges = <<>>
  /\ fw = [stack |-> [t \in Task |-> <<>>], base |-> [t \in Task |-> NoContext],
           tasks |-> {First}, runs |-> 0]
  /\ mem = [ctx |-> [t \in Task |-> NoContext], paused |-> {}]

Ctx(t) == mem.ctx[t]
Top(t) == Last(fw.stack[t])
InFrame(t, kind) == fw.stack[t] # <<>> /\ Top(t).kind = kind

(* Steps are taken by a task that is not inside a call of the GenAI client.*)
Runs(t) == t \in fw.tasks /\ ~ InFrame(t, "genai")

MayStart == Cardinality({i \in DOMAIN log : log[i].part # "end"}) < MaxSteps

Pushed(t, frame) == [fw EXCEPT !.stack[t] = Append(@, frame)]
Popped(t) == [fw EXCEPT !.stack[t] = Front(@)]
SetCtx(t, context) == mem' = [mem EXCEPT !.ctx[t] = context]

(* with_span and _enclosing_step.set(start_id).                            *)
Inside(context, span) ==
  [context EXCEPT !.span = span, !.parent = context.span, !.step = span]

-----------------------------------------------------------------------------
(* kit.run, traced_run, DProvenanceMiddleware.dispatch.                    *)
EnterRun(t) ==
  /\ Runs(t) /\ fw.runs < MaxRuns
  /\ fw' = [Pushed(t, [kind |-> "run", run |-> fw.runs + 1, saved |-> Ctx(t)])
              EXCEPT !.runs = @ + 1]
  /\ SetCtx(t, [Ctx(t) EXCEPT !.run = fw.runs + 1])
  /\ UNCHANGED <<log, edges>>

LeaveRun(t) ==
  /\ InFrame(t, "run")
  /\ SetCtx(t, [Ctx(t) EXCEPT !.run = Top(t).saved.run])
  /\ fw' = Popped(t)
  /\ UNCHANGED <<log, edges>>

(* The wrappers of plain functions and of coroutines; outside a run they   *)
(* are transparent.                                                        *)
Call(t) ==
  /\ Runs(t) /\ MayStart /\ Ctx(t).run # NoRun
  /\ Record(Event(Ctx(t).run, "start", NextId, Ctx(t).span, "call"))
  /\ edges' = edges \o Edge(Ctx(t).step, NextId, "INFORMED")
  /\ fw' = Pushed(t, [kind |-> "call", span |-> NextId, saved |-> Ctx(t)])
  /\ SetCtx(t, Inside(Ctx(t), NextId))

(* Mutant: the enclosing step is not reset.                                *)
OutsideSameStep(t) == [Ctx(t) EXCEPT !.span = Top(t).saved.span,
                                     !.parent = Top(t).saved.parent]

(* The context as the exits of with_span and _enclosing_step reset it.     *)
Outside(t) == [Ctx(t) EXCEPT !.span = Top(t).saved.span,
                             !.parent = Top(t).saved.parent,
                             !.step = Top(t).saved.step]

(* The end, or the error of any exception.                                 *)
Return(t) ==
  /\ InFrame(t, "call")
  /\ Record(Event(Ctx(t).run, "end", Ctx(t).span, Ctx(t).parent, "call"))
  /\ edges' = edges \o Edge(Top(t).span, NextId, "DERIVED_FROM")
  /\ SetCtx(t, Outside(t))
  /\ fw' = Popped(t)

-----------------------------------------------------------------------------
(* Mutant: the generator enters its span and holds it across its yields.   *)
GenStartInside(t) ==
  /\ Runs(t) /\ MayStart /\ Ctx(t).run # NoRun
  /\ Record(Event(Ctx(t).run, "start", NextId, Ctx(t).span, "gen"))
  /\ edges' = edges \o Edge(Ctx(t).step, NextId, "INFORMED")
  /\ fw' = Pushed(t, [kind |-> "gen", span |-> NextId, parent |-> Ctx(t).span])
  /\ SetCtx(t, Inside(Ctx(t), NextId))

(* Generators.  The first item: the start, under transient context.        *)
GenStart(t) ==
  /\ Runs(t) /\ MayStart /\ Ctx(t).run # NoRun
  /\ Record(Event(Ctx(t).run, "start", NextId, Ctx(t).span, "gen"))
  /\ edges' = edges \o Edge(Ctx(t).step, NextId, "INFORMED")
  /\ fw' = Pushed(t, [kind |-> "gen", span |-> NextId, parent |-> Ctx(t).span])
  /\ UNCHANGED mem

Yield(t) ==
  /\ InFrame(t, "gen")
  /\ mem' = [mem EXCEPT !.paused = @ \cup {Top(t)}]
  /\ fw' = Popped(t)
  /\ UNCHANGED <<log, edges>>

Resume(t, g) ==
  /\ Runs(t) /\ g \in mem.paused
  /\ mem' = [mem EXCEPT !.paused = @ \ {g}]
  /\ fw' = Pushed(t, g)
  /\ UNCHANGED <<log, edges>>

(* _record_in_span and _link of a completion: into the run of the task     *)
(* that completes it, and nowhere when that is in no run.                  *)
RecordGenEnd(t, g) ==
  IF Ctx(t).run = NoRun THEN UNCHANGED <<log, edges>>
  ELSE /\ Record(Event(Ctx(t).run, "end", g.span, g.parent, "gen"))
       /\ edges' = edges \o Edge(g.span, NextId, "DERIVED_FROM")

(* The body returns or raises.                                             *)
GenEnd(t) ==
  /\ InFrame(t, "gen")
  /\ RecordGenEnd(t, Top(t))
  /\ fw' = Popped(t)
  /\ UNCHANGED mem

(* The consumer stops early: GeneratorExit at the yield.                   *)
GenClose(t, g) ==
  /\ Runs(t) /\ g \in mem.paused
  /\ RecordGenEnd(t, g)
  /\ mem' = [mem EXCEPT !.paused = @ \ {g}]
  /\ UNCHANGED fw

-----------------------------------------------------------------------------
(* The facade's block opens a run when there is none.                      *)
FacadeEnter(t) ==
  LET root == Ctx(t).run = NoRun
      run == IF root THEN fw.runs + 1 ELSE Ctx(t).run
  IN
  /\ Runs(t) /\ MayStart
  /\ root => fw.runs < MaxRuns
  /\ Record(Event(run, "start", NextId, Ctx(t).span, "facade"))
  /\ edges' = edges \o Edge(Ctx(t).step, NextId, "INFORMED")
  /\ fw' = [Pushed(t, [kind |-> "facade", span |-> NextId, run |-> run,
                       saved |-> Ctx(t)])
              EXCEPT !.runs = IF root THEN run ELSE @]
  /\ SetCtx(t, [Inside(Ctx(t), NextId) EXCEPT !.run = run])

(* An exception that is no Exception leaves the span without a completion. *)
FacadeExit(t, completes) ==
  /\ InFrame(t, "facade")
  /\ IF completes
     THEN /\ Record(Event(Ctx(t).run, "end", Top(t).span, Top(t).saved.span, "facade"))
          /\ edges' = edges \o Edge(Top(t).span, NextId, "DERIVED_FROM")
     ELSE UNCHANGED <<log, edges>>
  /\ SetCtx(t, [Outside(t) EXCEPT !.run = Top(t).saved.run])
  /\ fw' = Popped(t)

(* generate_content: into the run the wrapper was made for, whatever the   *)
(* current one is.                                                         *)
GenAIEnter(t, run) ==
  /\ Runs(t) /\ MayStart
  /\ Record(Event(run, "start", NextId, Ctx(t).span, "genai"))
  /\ fw' = Pushed(t, [kind |-> "genai", span |-> NextId, run |-> run, saved |-> Ctx(t)])
  /\ SetCtx(t, [Ctx(t) EXCEPT !.span = NextId, !.parent = Ctx(t).span])
  /\ UNCHANGED edges

GenAIExit(t, completes) ==
  /\ InFrame(t, "genai")
  /\ IF completes
     THEN /\ Record(Event(Top(t).run, "end", Ctx(t).span, Ctx(t).parent, "genai"))
          /\ edges' = edges \o Edge(Top(t).span, NextId, "DERIVED_FROM")
     ELSE UNCHANGED <<log, edges>>
  /\ SetCtx(t, Outside(t))
  /\ fw' = Popped(t)

-----------------------------------------------------------------------------
(* record_event and the MCP tool wrapper: kit.record in the current span.  *)
Point(t) ==
  /\ Runs(t) /\ MayStart /\ Ctx(t).run # NoRun
  /\ Record(Event(Ctx(t).run, "point", Ctx(t).span, Ctx(t).parent, "point"))
  /\ UNCHANGED <<edges, fw, mem>>

(* An asyncio task starts with a copy of the context.                      *)
Spawn(t, u) ==
  /\ Runs(t) /\ u \notin fw.tasks
  /\ fw' = [fw EXCEPT !.tasks = @ \cup {u}, !.base[u] = Ctx(t)]
  /\ SetCtx(u, Ctx(t))
  /\ UNCHANGED <<log, edges>>

Next ==
  \/ \E t \in Task : \/ EnterRun(t) \/ LeaveRun(t) \/ Call(t) \/ Return(t)
                     \/ GenStart(t) \/ Yield(t) \/ GenEnd(t)
                     \/ FacadeEnter(t) \/ Point(t)
  \/ \E t \in Task, g \in mem.paused : Resume(t, g) \/ GenClose(t, g)
  \/ \E t \in Task, completes \in BOOLEAN :
        FacadeExit(t, completes) \/ GenAIExit(t, completes)
  \/ \E t \in Task, run \in 1 .. fw.runs : GenAIEnter(t, run)
  \/ \E t, u \in Task : Spawn(t, u)

Spec == Init /\ [][Next]_logVars

-----------------------------------------------------------------------------
IsStep(i) == log[i].owner # "genai"

(* Every completion is linked to its start, also from another run, and     *)
(* every step to the step around it.                                       *)
Complete ==
  \A i, j \in DOMAIN log :
    /\ log[i].part = "start" /\ log[j].part = "end" /\ log[i].span = log[j].span
         => Times(i, j, "DERIVED_FROM") = 1
    /\ IsStep(i) /\ IsStep(j) => InformedOnce(i, j)

(* The context of a task is that of its creation inside the frames that    *)
(* are open in it, whatever generators were resumed, left or ended there.  *)
Within(context, frame) ==
  CASE frame.kind = "run" -> [context EXCEPT !.run = frame.run]
    [] frame.kind = "gen" -> context
    [] frame.kind = "call" -> Inside(context, frame.span)
    [] frame.kind = "facade" -> [Inside(context, frame.span) EXCEPT !.run = frame.run]
    [] frame.kind = "genai" ->
         [context EXCEPT !.span = frame.span, !.parent = context.span]

Current == \A t \in Task : Ctx(t) = FoldLeft(Within, fw.base[t], fw.stack[t])

(* Only a generator may be completed in another run than it was started.   *)
Attributed ==
  \A i, j \in DOMAIN log :
    log[i].span = log[j].span /\ log[i].part = "start" /\ log[j].part = "end"
      => log[i].owner = "gen" \/ log[i].run = log[j].run
=============================================================================
