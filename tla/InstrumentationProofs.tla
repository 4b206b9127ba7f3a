--------------------------- MODULE InstrumentationProofs ---------------------------
(***************************************************************************)
(* Proofs about Instrumentation, for every set of tasks and every order in *)
(* which they call, yield, resume, spawn and leave: the links and the runs *)
(* of what is recorded, and the context of every task.                     *)
(***************************************************************************)
EXTENDS RecorderProofs

CONSTANTS Task, First, MaxSteps, MaxRuns

CI == INSTANCE Instrumentation

-----------------------------------------------------------------------------
(* Instrumented code: the frames of every task nest, and generators move *)

CodeEvent == EventIn(Nat, Nat, Nat, {"call", "gen", "facade", "genai", "point"})

(* A context, and the frames by what opened them.                          *)
Place == [run : Nat, span : Nat, parent : Nat, step : Nat]
RunFrame == [kind : {"run"}, run : Nat, saved : Place]
CallFrame == [kind : {"call"}, span : Nat, saved : Place]
GenFrame == [kind : {"gen"}, span : Nat, parent : Nat]
BlockFrame == [kind : {"facade", "genai"}, span : Nat, run : Nat, saved : Place]
Frame == RunFrame \cup CallFrame \cup GenFrame \cup BlockFrame

Tasks ==
  [stack : [Task -> Seq(Frame)], base : [Task -> Place],
   tasks : SUBSET (Task \cup {First}), runs : Nat]
Places == [ctx : [Task -> Place], paused : SUBSET GenFrame]

CodeTypes ==
  log \in Seq(CodeEvent) /\ edges \in Seq(LogEdge) /\ fw \in Tasks /\ mem \in Places

(* A start names its own span and is linked from the step around it.       *)
StartsLinked ==
  \A i \in DOMAIN log : log[i].part = "start" =>
    /\ log[i].span = i
    /\ log[i].owner # "genai" /\ log[i].parent # 0 => Linked(log[i].parent, i, "INFORMED")

(* An end is the only one of its span, which it is linked to, in the run   *)
(* of the span unless a generator brought it elsewhere.                    *)
EndsLinked ==
  /\ \A j \in DOMAIN log : log[j].part = "end" =>
       /\ log[j].span \in DOMAIN log /\ log[log[j].span].part = "start"
       /\ Linked(log[j].span, j, "DERIVED_FROM")
       /\ log[log[j].span].owner = "gen" \/ log[log[j].span].run = log[j].run
  /\ \A i, j \in DOMAIN log :
       log[i].part = "end" /\ log[j].part = "end" /\ log[i].span = log[j].span => i = j

CodeLog == EndsLogged /\ IsInjective(edges) /\ StartsLinked /\ EndsLinked

IsStarted(i) == i \in DOMAIN log /\ log[i].part = "start"
HasEnded(i) == \E j \in DOMAIN log : log[j].part = "end" /\ log[j].span = i

(* The span of an open frame was started by what the frame says, in the    *)
(* run in which it will be completed, and has not ended.                   *)
FrameOpen(f) ==
  /\ IsStarted(f.span) /\ log[f.span].owner = f.kind /\ ~ HasEnded(f.span)
  /\ f.kind = "call" => log[f.span].run = f.saved.run
  /\ f.kind \in {"facade", "genai"} => log[f.span].run = f.run

(* A task has a span open in one of its frames.                            *)
Holds(t, k, f) == k \in DOMAIN fw.stack[t] /\ fw.stack[t][k] = f /\ f.kind # "run"

(* A span is open in one place: a frame of one task or a paused generator. *)
CodeOpen ==
  /\ \A g \in mem.paused : FrameOpen(g)
  /\ \A g, h \in mem.paused : g.span = h.span => g = h
  /\ \A t \in Task : \A k, f : Holds(t, k, f) =>
       FrameOpen(f) /\ \A g \in mem.paused : g.span # f.span
  /\ \A t, u \in Task : \A k, m, f, h :
       Holds(t, k, f) /\ Holds(u, m, h) /\ f.span = h.span => t = u /\ k = m

StepKnown(c) == c.step # 0 => IsStarted(c.step)

(* The contexts of a task: at[k] inside its first k frames.  Every frame   *)
(* that sets the context has saved the one around it, and the step of a    *)
(* context is its span but inside a call of the GenAI client, which holds  *)
(* no frames.                                                              *)
NestedBy(t, at) ==
  /\ at[0] = fw.base[t] /\ at[Len(fw.stack[t])] = CI!Ctx(t)
  /\ \A k \in 1 .. Len(fw.stack[t]) :
       /\ at[k] = CI!Within(at[k - 1], fw.stack[t][k])
       /\ fw.stack[t][k].kind # "gen" => fw.stack[t][k].saved = at[k - 1]
       /\ fw.stack[t][k].kind = "genai" => k = Len(fw.stack[t])
  /\ \A k \in 0 .. Len(fw.stack[t]) :
       /\ StepKnown(at[k])
       /\ at[k].span = at[k].step \/ (k # 0 /\ fw.stack[t][k].kind = "genai")

Nested(t) ==
  /\ \E at \in [Nat -> Place] : NestedBy(t, at)
  /\ t \notin fw.tasks => fw.stack[t] = <<>>

CodeInv ==
  CodeTypes /\ CodeLog /\ CodeOpen /\ \A t \in Task : Nested(t)

LEMMA CodeInitial == CI!Init => CodeInv
<1> SUFFICES ASSUME CI!Init PROVE CodeInv
  OBVIOUS
<1>1. /\ log = <<>> /\ edges = <<>> /\ DOMAIN log = {} /\ ToSet(edges) = {}
      /\ IsInjective(edges) /\ edges \in Seq(LogEdge) /\ log \in Seq(CodeEvent)
  BY NoEdges, EmptySeq DEF CI!Init
<1>2. CI!NoContext \in Place /\ CI!NoContext.step = 0 /\ CI!NoContext.span = 0
  BY DEF Place, CI!NoContext, CI!NoRun, CI!NoSpan, CI!NoId
<1>3. \A t \in Task : /\ fw.stack[t] = <<>> /\ fw.base[t] = CI!NoContext
                      /\ mem.ctx[t] = CI!NoContext
  BY DEF CI!Init
<1>4. CodeTypes
  <2>1. <<>> \in Seq(Frame)
    OBVIOUS
  <2>2. QED
    BY <1>1, <1>2, <2>1 DEF CodeTypes, Tasks, Places, CI!Init
<1>5. CodeLog
  BY <1>1 DEF CodeLog, EndsLogged, StartsLinked, EndsLinked
<1>6. CodeOpen
  <2>1. mem.paused = {} /\ \A t \in Task : DOMAIN fw.stack[t] = {}
    BY <1>3 DEF CI!Init
  <2>2. QED
    BY <2>1 DEF CodeOpen, Holds
<1>7. ASSUME NEW t \in Task PROVE Nested(t)
  <2> DEFINE at == [k \in Nat |-> CI!NoContext]
  <2>1. at \in [Nat -> Place] /\ at[0] = CI!NoContext
    BY <1>2
  <2>2. Len(fw.stack[t]) = 0 /\ fw.stack[t] = <<>>
    BY <1>3
  <2>3. StepKnown(at[0]) /\ at[0].span = at[0].step
    BY <1>2, <2>1 DEF StepKnown
  <2> HIDE DEF at
  <2>4. NestedBy(t, at)
    BY <1>3, <2>1, <2>2, <2>3 DEF NestedBy, CI!Ctx
  <2>5. QED
    BY <2>1, <2>2, <2>4 DEF Nested
<1>8. QED
  BY <1>4, <1>5, <1>6, <1>7 DEF CodeInv

-----------------------------------------------------------------------------
(* What the log keeps *)

LogGrows == \A i \in DOMAIN log : i \in DOMAIN log' /\ log'[i] = log[i]

LEMMA CodeEvents ==
  ASSUME CodeTypes, NEW i \in DOMAIN log
  PROVE  /\ i \in Nat /\ log[i] \in CodeEvent
         /\ log[i].run \in Nat /\ log[i].span \in Nat /\ log[i].parent \in Nat
         /\ log[i].part \in {"start", "end", "point"}
<1>1. log[i] \in CodeEvent /\ i \in Nat
  BY ElementOfSeq, LenProperties DEF CodeTypes
<1>2. \A e \in CodeEvent : /\ e.run \in Nat /\ e.span \in Nat /\ e.parent \in Nat
                           /\ e.part \in {"start", "end", "point"}
  BY DEF CodeEvent, EventIn
<1>3. QED
  BY <1>1, <1>2

(* Every event that is recorded: what was there stays, and is linked.      *)
LEMMA CodeGrows ==
  ASSUME CodeTypes, CodeLog, NEW e \in CodeEvent, Record(e), NEW n, n = NextId,
         ToSet(edges) \subseteq ToSet(edges'),
         e.part = "start" =>
           /\ e.span = n
           /\ e.owner # "genai" /\ e.parent # 0 => Linked(e.parent, n, "INFORMED")',
         e.part = "end" =>
           /\ IsStarted(e.span) /\ ~ HasEnded(e.span)
           /\ Linked(e.span, n, "DERIVED_FROM")'
           /\ log[e.span].owner = "gen" \/ log[e.span].run = e.run
  PROVE  StartsLinked' /\ EndsLinked' /\ LogGrows
<1>1. /\ NextId \in Nat \ {0} /\ DOMAIN log' = DOMAIN log \cup {NextId} /\ NextId \notin DOMAIN log
      /\ \A k \in DOMAIN log : log'[k] = log[k]
      /\ log'[NextId] = e
  BY Logged DEF CodeTypes
<1>3. /\ DOMAIN log' = DOMAIN log \cup {n} /\ n \notin DOMAIN log /\ log'[n] = e
      /\ \A k \in DOMAIN log : log'[k] = log[k]
      /\ e.part = "start" => e.span = n
  BY <1>1
<1>4. /\ e.part = "start" /\ e.owner # "genai" /\ e.parent # 0 =>
           [source |-> e.parent, target |-> n, type |-> "INFORMED"] \in ToSet(edges')
      /\ e.part = "end" =>
           [source |-> e.span, target |-> n, type |-> "DERIVED_FROM"] \in ToSet(edges')
  BY DEF Linked
<1>5. /\ \A i \in DOMAIN log : log[i].part = "start" =>
           /\ log[i].span = i
           /\ log[i].owner # "genai" /\ log[i].parent # 0 =>
                [source |-> log[i].parent, target |-> i, type |-> "INFORMED"] \in ToSet(edges')
      /\ \A j \in DOMAIN log : log[j].part = "end" =>
           /\ log[j].span \in DOMAIN log /\ log[log[j].span].part = "start"
           /\ [source |-> log[j].span, target |-> j, type |-> "DERIVED_FROM"] \in ToSet(edges')
           /\ log[log[j].span].owner = "gen" \/ log[log[j].span].run = log[j].run
      /\ \A i, j \in DOMAIN log :
           log[i].part = "end" /\ log[j].part = "end" /\ log[i].span = log[j].span => i = j
  BY DEF CodeLog, StartsLinked, EndsLinked, Linked
<1>6. StartsLinked'
  <2> SUFFICES ASSUME NEW i \in DOMAIN log', log'[i].part = "start"
               PROVE  /\ log'[i].span = i
                      /\ log'[i].owner # "genai" /\ log'[i].parent # 0 =>
                           [source |-> log'[i].parent, target |-> i, type |-> "INFORMED"] \in ToSet(edges')
    BY DEF StartsLinked, Linked
  <2>1. CASE i = n
    BY <1>3, <1>4, <2>1
  <2>2. CASE i \in DOMAIN log
    BY <1>3, <1>5, <2>2
  <2>3. QED
    BY <1>3, <2>1, <2>2
<1>7. EndsLinked'
  <2>1. ASSUME NEW j \in DOMAIN log', log'[j].part = "end"
        PROVE  /\ log'[j].span \in DOMAIN log' /\ log'[log'[j].span].part = "start"
               /\ [source |-> log'[j].span, target |-> j, type |-> "DERIVED_FROM"] \in ToSet(edges')
               /\ log'[log'[j].span].owner = "gen" \/ log'[log'[j].span].run = log'[j].run
    <3>1. CASE j = n
      BY <1>3, <1>4, <2>1, <3>1 DEF IsStarted
    <3>2. CASE j \in DOMAIN log
      BY <1>3, <1>5, <2>1, <3>2
    <3>3. QED
      BY <1>3, <3>1, <3>2
  <2>2. ASSUME NEW i \in DOMAIN log', NEW j \in DOMAIN log',
               log'[i].part = "end", log'[j].part = "end", log'[i].span = log'[j].span
        PROVE  i = j
    <3>1. CASE i \in DOMAIN log /\ j \in DOMAIN log
      BY <1>3, <1>5, <2>2, <3>1
    <3>2. CASE i = n /\ j \in DOMAIN log
      BY <1>3, <2>2, <3>2 DEF HasEnded
    <3>3. CASE j = n /\ i \in DOMAIN log
      BY <1>3, <2>2, <3>3 DEF HasEnded
    <3>4. QED
      BY <1>3, <3>1, <3>2, <3>3
  <2>3. QED
    BY <2>1, <2>2 DEF EndsLinked, Linked
<1>8. QED
  BY <1>3, <1>6, <1>7 DEF LogGrows

(* A step starts, linked from the step around it if there is one.          *)
LEMMA CodeStarts ==
  ASSUME CodeTypes, CodeLog, NEW e \in CodeEvent, Record(e),
         e.part = "start", e.span = NextId, e.parent # 0 => IsStarted(e.parent),
         edges' = edges \o Edge(e.parent, NextId, "INFORMED")
  PROVE  edges' \in Seq(LogEdge) /\ CodeLog' /\ LogGrows
<1>1. CASE e.parent = 0
  <2>1. edges' = edges
    BY <1>1 DEF CodeTypes, Edge, NoId
  <2>2. StartsLinked' /\ EndsLinked' /\ LogGrows
    <3>1. PICK n : n = NextId
      OBVIOUS
    <3>2. QED
      BY <1>1, <2>1, <3>1, CodeGrows
  <2>3. EndsLogged'
    BY <2>1, EndsStayLogged DEF CodeLog, CodeTypes, EndsLogged
  <2>4. QED
    BY <2>1, <2>2, <2>3 DEF CodeLog, CodeTypes
<1>2. CASE e.parent # 0
  <2>1. e.parent \in DOMAIN log /\ log[e.parent].part = "start" /\ log[e.parent].span = e.parent
    BY <1>2 DEF IsStarted, CodeLog, StartsLinked
  <2>2. /\ edges' \in Seq(LogEdge) /\ IsInjective(edges') /\ EndsLogged'
        /\ ToSet(edges') = ToSet(edges) \cup
             {[source |-> e.parent, target |-> NextId, type |-> "INFORMED"]}
    <3> DEFINE type == "INFORMED"
    <3>1. IF type = "DERIVED_FROM" THEN e.part = "end" /\ log[e.parent].span = e.span
                                   ELSE e.part = "start" /\ log[e.parent].span = e.parent
      BY <2>1
    <3>2. log \in Seq(CodeEvent) /\ edges \in Seq(LogEdge) /\ IsInjective(edges) /\ EndsLogged
      BY DEF CodeTypes, CodeLog
    <3>3. type \in {"DERIVED_FROM", "INFORMED"} /\ edges' = edges \o Edge(e.parent, NextId, type)
      OBVIOUS
    <3> HIDE DEF type
    <3>4. /\ edges' \in Seq(LogEdge) /\ IsInjective(edges') /\ EndsLogged'
          /\ ToSet(edges') = ToSet(edges) \cup
               {[source |-> e.parent, target |-> NextId, type |-> type]}
      BY <2>1, <3>1, <3>2, <3>3, LinkAdded, SMTT(30), ZenonT(30)
    <3>5. QED
      BY <3>4 DEF type
  <2>3. PICK n : n = NextId
    OBVIOUS
  <2>4. Linked(e.parent, n, "INFORMED")'
    BY <2>2, <2>3 DEF Linked
  <2>5. StartsLinked' /\ EndsLinked' /\ LogGrows
    BY <2>2, <2>3, <2>4, CodeGrows
  <2>6. QED
    BY <2>2, <2>5 DEF CodeLog
<1>3. QED
  BY <1>1, <1>2

(* An event that is linked to nothing: a point, or a start of the GenAI    *)
(* client.                                                                 *)
LEMMA CodeUnlinked ==
  ASSUME CodeTypes, CodeLog, NEW e \in CodeEvent, Record(e), edges' = edges,
         e.part = "point" \/ (e.part = "start" /\ e.span = NextId /\ e.owner = "genai")
  PROVE  CodeLog' /\ LogGrows
<1>1. PICK n : n = NextId
  OBVIOUS
<1>2. StartsLinked' /\ EndsLinked' /\ LogGrows
  BY <1>1, CodeGrows
<1>3. EndsLogged'
  BY EndsStayLogged DEF CodeLog, CodeTypes, Tasks, Places, EndsLogged
<1>4. QED
  BY <1>2, <1>3 DEF CodeLog

(* A span that is open is completed.                                       *)
LEMMA CodeEnds ==
  ASSUME CodeTypes, CodeLog, NEW e \in CodeEvent, Record(e),
         e.part = "end", IsStarted(e.span), ~ HasEnded(e.span),
         log[e.span].owner = "gen" \/ log[e.span].run = e.run,
         edges' = edges \o Edge(e.span, NextId, "DERIVED_FROM")
  PROVE  edges' \in Seq(LogEdge) /\ CodeLog' /\ LogGrows
<1> DEFINE type == "DERIVED_FROM"
<1>1. e.span \in DOMAIN log /\ log[e.span].part = "start" /\ log[e.span].span = e.span
  BY DEF IsStarted, CodeLog, StartsLinked
<1>2. IF type = "DERIVED_FROM" THEN e.part = "end" /\ log[e.span].span = e.span
                               ELSE e.part = "start" /\ log[e.span].span = e.parent
  BY <1>1
<1>3. log \in Seq(CodeEvent) /\ edges \in Seq(LogEdge) /\ IsInjective(edges) /\ EndsLogged
  BY DEF CodeTypes, Tasks, Places, CodeLog
<1>4. type \in {"DERIVED_FROM", "INFORMED"} /\ edges' = edges \o Edge(e.span, NextId, type)
  OBVIOUS
<1>5. /\ edges' \in Seq(LogEdge) /\ IsInjective(edges') /\ EndsLogged'
      /\ ToSet(edges') = ToSet(edges) \cup {[source |-> e.span, target |-> NextId, type |-> type]}
  <2> HIDE DEF type
  <2>1. QED
    BY <1>1, <1>2, <1>3, <1>4, LinkAdded, SMTT(30)
<1>6. PICK n : n = NextId
  OBVIOUS
<1>7. Linked(e.span, n, "DERIVED_FROM")'
  BY <1>5, <1>6 DEF Linked
<1>8. StartsLinked' /\ EndsLinked' /\ LogGrows
  <2>1. ToSet(edges) \subseteq ToSet(edges')
    BY <1>5
  <2> HIDE DEF type
  <2>2. QED
    BY <1>6, <1>7, <2>1, CodeGrows
<1>9. QED
  BY <1>5, <1>8 DEF CodeLog

(* A frame stays open unless the end of its span is recorded.              *)
LEMMA OpenKept ==
  ASSUME CodeTypes, NEW e \in CodeEvent, Record(e), NEW f, FrameOpen(f),
         e.part = "end" => e.span # f.span
  PROVE  FrameOpen(f)'
<1>1. /\ DOMAIN log' = DOMAIN log \cup {NextId} /\ NextId \notin DOMAIN log
      /\ \A k \in DOMAIN log : log'[k] = log[k]
      /\ log'[NextId] = e
  BY Logged DEF CodeTypes, Tasks, Places
<1>2. PICK n : n = NextId
  OBVIOUS
<1>3. ~ HasEnded(f.span)'
  BY <1>1, <1>2 DEF FrameOpen, HasEnded
<1>4. /\ f.span \in DOMAIN log' /\ log'[f.span] = log[f.span]
  BY <1>1 DEF FrameOpen, IsStarted
<1>5. QED
  BY <1>3, <1>4 DEF FrameOpen, IsStarted

(* A span is open when its start is recorded, and was not before.          *)
LEMMA OpenStarted ==
  ASSUME CodeTypes, CodeLog, NEW e \in CodeEvent, Record(e), e.part = "start",
         NEW f, f.span = NextId, f.kind = e.owner,
         f.kind = "call" => e.run = f.saved.run,
         f.kind \in {"facade", "genai"} => e.run = f.run
  PROVE  FrameOpen(f)' /\ \A g : FrameOpen(g) => g.span # f.span
<1>1. /\ DOMAIN log' = DOMAIN log \cup {NextId} /\ NextId \notin DOMAIN log
      /\ \A k \in DOMAIN log : log'[k] = log[k]
      /\ log'[NextId] = e
  BY Logged DEF CodeTypes, Tasks, Places
<1>2. f.span \in DOMAIN log' /\ log'[f.span] = e /\ f.span \notin DOMAIN log
  BY <1>1
<1>3. \A j \in DOMAIN log' : log'[j].part = "end" => log'[j].span # f.span
  BY <1>1, <1>2 DEF CodeLog, EndsLinked
<1>4. FrameOpen(f)'
  BY <1>2, <1>3 DEF FrameOpen, IsStarted, HasEnded
<1>5. QED
  BY <1>2, <1>4 DEF FrameOpen, IsStarted

-----------------------------------------------------------------------------
(* What the stacks do *)

LEMMA FramePushed ==
  ASSUME NEW s \in Seq(Frame), NEW f \in Frame
  PROVE  /\ Append(s, f) \in Seq(Frame) /\ Len(Append(s, f)) = Len(s) + 1 /\ Len(s) \in Nat
         /\ DOMAIN s = 1 .. Len(s) /\ DOMAIN Append(s, f) = 1 .. Len(s) + 1
         /\ \A k \in 1 .. Len(s) : Append(s, f)[k] = s[k]
         /\ Append(s, f)[Len(s) + 1] = f
<1>1. /\ Append(s, f) \in Seq(Frame) /\ Len(Append(s, f)) = Len(s) + 1
      /\ \A k \in 1 .. Len(s) : Append(s, f)[k] = s[k]
      /\ Append(s, f)[Len(s) + 1] = f
  BY AppendProperties
<1>2. QED
  BY <1>1, LenProperties

LEMMA FramePopped ==
  ASSUME NEW s \in Seq(Frame), s # <<>>
  PROVE  /\ CI!Front(s) \in Seq(Frame) /\ Len(CI!Front(s)) = Len(s) - 1 /\ Len(s) \in Nat \ {0}
         /\ DOMAIN s = 1 .. Len(s) /\ DOMAIN CI!Front(s) = 1 .. Len(s) - 1
         /\ \A k \in 1 .. Len(s) - 1 : CI!Front(s)[k] = s[k]
         /\ CI!Last(s) = s[Len(s)] /\ CI!Last(s) \in Frame
<1>1. Len(s) \in Nat \ {0} /\ DOMAIN s = 1 .. Len(s) /\ s[Len(s)] \in Frame
  BY LenProperties, EmptySeq, ElementOfSeq
<1>2. CI!Front(s) = Taken(s, Len(s) - 1) /\ CI!Last(s) = s[Len(s)]
  BY DEF CI!Front, CI!Last, Taken
<1>3. Len(s) - 1 \in 0 .. Len(s)
  BY <1>1
<1>4. /\ CI!Front(s) \in Seq(Frame) /\ Len(CI!Front(s)) = Len(s) - 1
      /\ \A k \in 1 .. Len(s) - 1 : CI!Front(s)[k] = s[k]
  <2>1. PICK m : m = Len(s) - 1
    OBVIOUS
  <2>2. /\ Taken(s, m) \in Seq(Frame) /\ Len(Taken(s, m)) = m
        /\ \A k \in 1 .. m : Taken(s, m)[k] = s[k]
    BY <1>3, <2>1, Split
  <2>3. QED
    BY <1>2, <2>1, <2>2
<1>5. DOMAIN CI!Front(s) = 1 .. Len(s) - 1
  BY <1>4, LenProperties
<1>6. QED
  BY <1>1, <1>2, <1>4, <1>5

(* A frame is entered: it is open, and no other has its span.              *)
LEMMA OpenPushed ==
  ASSUME CodeTypes, CodeOpen, NEW t \in Task, NEW f \in Frame,
         fw'.stack = [fw.stack EXCEPT ![t] = Append(fw.stack[t], f)],
         mem'.paused \subseteq mem.paused,
         \A g : FrameOpen(g) => FrameOpen(g)',
         f.kind # "run" =>
           /\ FrameOpen(f)'
           /\ \A g \in mem'.paused : g.span # f.span
           /\ \A u \in Task : \A k, g : Holds(u, k, g) => g.span # f.span
  PROVE  CodeOpen'
<1> DEFINE s == fw.stack[t]
<1>1. /\ s \in Seq(Frame) /\ fw'.stack[t] = Append(s, f)
      /\ \A u \in Task \ {t} : fw'.stack[u] = fw.stack[u]
  BY DEF CodeTypes, Tasks, Places
<1>2. PICK n : /\ DOMAIN fw'.stack[t] = DOMAIN s \cup {n} /\ n \notin DOMAIN s
               /\ \A k \in DOMAIN s : fw'.stack[t][k] = s[k]
               /\ fw'.stack[t][n] = f
  <2>1. /\ Len(s) \in Nat /\ DOMAIN s = 1 .. Len(s) /\ DOMAIN Append(s, f) = 1 .. Len(s) + 1
        /\ \A k \in 1 .. Len(s) : Append(s, f)[k] = s[k]
        /\ Append(s, f)[Len(s) + 1] = f
    BY <1>1, FramePushed
  <2> HIDE DEF s
  <2>2. QED
    BY <1>1, <2>1
<1>3. \A u \in Task : \A k, g : Holds(u, k, g)' =>
        Holds(u, k, g) \/ (u = t /\ k = n /\ g = f /\ f.kind # "run")
  BY <1>1, <1>2 DEF Holds
<1>4. ASSUME NEW u \in Task, NEW k, NEW g, Holds(u, k, g)'
      PROVE  FrameOpen(g)' /\ \A h \in mem'.paused : h.span # g.span
  BY <1>3, <1>4 DEF CodeOpen
<1>5. ASSUME NEW u \in Task, NEW v \in Task, NEW k, NEW m, NEW g, NEW h, Holds(u, k, g)',
             Holds(v, m, h)', g.span = h.span
      PROVE  u = v /\ k = m
  <2>1. CASE Holds(u, k, g) /\ Holds(v, m, h)
    BY <1>5, <2>1 DEF CodeOpen
  <2>2. QED
    BY <1>3, <1>5, <2>1
<1>6. \A g \in mem'.paused : FrameOpen(g)' /\ \A h \in mem'.paused : g.span = h.span => g = h
  BY DEF CodeOpen
<1>7. QED
  BY <1>4, <1>5, <1>6 DEF CodeOpen

(* A frame is left, or a generator in it is paused; only the span of that  *)
(* frame may have ended.                                                   *)
LEMMA OpenPopped ==
  ASSUME CodeTypes, CodeOpen, NEW t \in Task, fw.stack[t] # <<>>,
         fw'.stack = [fw.stack EXCEPT ![t] = CI!Front(fw.stack[t])],
         NEW f, f = CI!Last(fw.stack[t]),
         \A g : FrameOpen(g) /\ (f.kind = "run" \/ g.span # f.span) => FrameOpen(g)',
         \/ mem'.paused = mem.paused
         \/ f.kind = "gen" /\ FrameOpen(f)' /\ mem'.paused = mem.paused \cup {f}
  PROVE  CodeOpen'
<1> DEFINE s == fw.stack[t]
<1>1. /\ s \in Seq(Frame) /\ fw'.stack[t] = CI!Front(s) /\ s # <<>> /\ f = CI!Last(s)
      /\ \A u \in Task \ {t} : fw'.stack[u] = fw.stack[u]
  BY DEF CodeTypes, Tasks, Places
<1>2. PICK n : /\ DOMAIN s = DOMAIN fw'.stack[t] \cup {n} /\ n \notin DOMAIN fw'.stack[t]
               /\ \A k \in DOMAIN fw'.stack[t] : fw'.stack[t][k] = s[k]
               /\ s[n] = f
  <2>1. /\ Len(s) \in Nat \ {0} /\ DOMAIN s = 1 .. Len(s) /\ DOMAIN CI!Front(s) = 1 .. Len(s) - 1
        /\ \A k \in 1 .. Len(s) - 1 : CI!Front(s)[k] = s[k]
        /\ CI!Last(s) = s[Len(s)]
    BY <1>1, FramePopped
  <2> HIDE DEF s
  <2>2. QED
    BY <1>1, <2>1
<1>3. /\ \A u \in Task : \A k, g : Holds(u, k, g)' =>
           Holds(u, k, g) /\ (u # t \/ k # n)
      /\ f.kind # "run" => Holds(t, n, f)
  BY <1>1, <1>2 DEF Holds
<1>4. ASSUME NEW u \in Task, NEW k, NEW g, Holds(u, k, g)'
      PROVE  /\ FrameOpen(g) /\ (f.kind = "run" \/ g.span # f.span)
             /\ \A h \in mem.paused : h.span # g.span
  BY <1>3, <1>4 DEF CodeOpen
<1>5. \A g \in mem.paused : FrameOpen(g) /\ (f.kind = "run" \/ g.span # f.span)
  BY <1>3 DEF CodeOpen
<1>6. ASSUME NEW u \in Task, NEW k, NEW g, Holds(u, k, g)'
      PROVE  FrameOpen(g)' /\ \A h \in mem'.paused : h.span # g.span
  BY <1>4, <1>6
<1>7. ASSUME NEW u \in Task, NEW v \in Task, NEW k, NEW m, NEW g, NEW h, Holds(u, k, g)',
             Holds(v, m, h)', g.span = h.span
      PROVE  u = v /\ k = m
  BY <1>3, <1>7 DEF CodeOpen
<1>8. \A g \in mem'.paused : FrameOpen(g)'
  BY <1>5
<1>9. \A g, h \in mem'.paused : g.span = h.span => g = h
  BY <1>5 DEF CodeOpen
<1>10. QED
  BY <1>6, <1>7, <1>8, <1>9 DEF CodeOpen

(* A paused generator is closed: no frame and no other generator is that.  *)
LEMMA OpenClosed ==
  ASSUME CodeTypes, CodeOpen, fw'.stack = fw.stack, NEW f \in mem.paused,
         mem'.paused = mem.paused \ {f},
         \A g : FrameOpen(g) /\ g.span # f.span => FrameOpen(g)'
  PROVE  CodeOpen'
<1>1. \A u \in Task : \A k, g : Holds(u, k, g)' <=> Holds(u, k, g)
  BY DEF Holds
<1>2. \A u \in Task : \A k, g : Holds(u, k, g)' =>
        FrameOpen(g)' /\ \A h \in mem'.paused : h.span # g.span
  BY <1>1 DEF CodeOpen
<1>3. \A g \in mem'.paused : FrameOpen(g)' /\ \A h \in mem'.paused : g.span = h.span => g = h
  BY DEF CodeOpen
<1>4. \A u, v \in Task : \A k, m, g, h :
        Holds(u, k, g)' /\ Holds(v, m, h)' /\ g.span = h.span => u = v /\ k = m
  BY <1>1 DEF CodeOpen
<1>5. QED
  BY <1>2, <1>3, <1>4 DEF CodeOpen

-----------------------------------------------------------------------------
(* What the contexts do *)

LEMMA StepStaysKnown ==
  ASSUME LogGrows, NEW c, StepKnown(c)
  PROVE  StepKnown(c)'
  BY DEF LogGrows, StepKnown, IsStarted

LEMMA NestedKept ==
  ASSUME LogGrows, NEW t, Nested(t), fw'.stack[t] = fw.stack[t], fw'.base[t] = fw.base[t],
         fw.tasks \subseteq fw'.tasks, mem'.ctx[t] = mem.ctx[t]
  PROVE  Nested(t)'
<1>1. PICK at \in [Nat -> Place] : NestedBy(t, at)
  BY DEF Nested
<1>2. \A k \in 0 .. Len(fw.stack[t]) : StepKnown(at[k])'
  BY <1>1, StepStaysKnown DEF NestedBy
<1>3. NestedBy(t, at)'
  BY <1>1, <1>2 DEF NestedBy, CI!Ctx
<1>4. t \notin fw'.tasks => fw'.stack[t] = <<>>
  BY DEF Nested
<1>5. QED
  BY <1>3, <1>4 DEF Nested

(* The context that a task is in.                                          *)
LEMMA NestedNow ==
  ASSUME CodeTypes, NEW t \in Task, Nested(t)
  PROVE  /\ CI!Ctx(t) \in Place /\ StepKnown(CI!Ctx(t))
         /\ CI!InFrame(t, "genai") \/ CI!Ctx(t).span = CI!Ctx(t).step
<1>1. PICK at \in [Nat -> Place] : NestedBy(t, at)
  BY DEF Nested
<1>2. fw.stack[t] \in Seq(Frame) /\ Len(fw.stack[t]) \in Nat
  BY LenProperties DEF CodeTypes, Tasks, Places
<1>3. CASE fw.stack[t] = <<>>
  <2>1. Len(fw.stack[t]) = 0
    BY <1>3
  <2>2. QED
    BY <1>1, <2>1 DEF NestedBy
<1>4. CASE fw.stack[t] # <<>>
  <2>1. CI!Top(t) = fw.stack[t][Len(fw.stack[t])]
    BY <1>2, <1>4, FramePopped DEF CI!Top
  <2>2. QED
    BY <1>1, <1>2, <1>4, <2>1 DEF NestedBy, CI!InFrame
<1>5. QED
  BY <1>3, <1>4

(* A frame is entered: the context is the one inside it.                   *)
LEMMA NestedPushed ==
  ASSUME CodeTypes, LogGrows, NEW t \in Task, Nested(t), ~ CI!InFrame(t, "genai"), t \in fw'.tasks,
         NEW f \in Frame, f.kind # "gen" => f.saved = CI!Ctx(t),
         fw'.stack[t] = Append(fw.stack[t], f), fw'.base[t] = fw.base[t],
         NEW c \in Place, c = CI!Within(CI!Ctx(t), f), mem'.ctx[t] = c,
         StepKnown(c)', c.span = c.step \/ f.kind = "genai"
  PROVE  Nested(t)'
<1>1. PICK at \in [Nat -> Place] : NestedBy(t, at)
  BY DEF Nested
<1>2. PICK s \in Seq(Frame) : s = fw.stack[t]
  BY DEF CodeTypes, Tasks, Places
<1>3. /\ Len(s) \in Nat /\ Len(fw'.stack[t]) = Len(s) + 1
      /\ \A k \in 1 .. Len(s) : fw'.stack[t][k] = s[k]
      /\ fw'.stack[t][Len(s) + 1] = f
  BY <1>2, FramePushed
<1>4. PICK n \in Nat : n = Len(s)
  BY <1>3
<1> DEFINE new == [at EXCEPT ![n + 1] = c]
<1>5. /\ new \in [Nat -> Place] /\ new[n + 1] = c /\ \A k \in 0 .. n : new[k] = at[k]
  BY <1>4
<1> HIDE DEF new
<1>6. /\ at[0] = fw.base[t] /\ at[n] = CI!Ctx(t)
      /\ \A k \in 1 .. n : /\ at[k] = CI!Within(at[k - 1], s[k])
                           /\ s[k].kind # "gen" => s[k].saved = at[k - 1]
                           /\ s[k].kind = "genai" => k = n
      /\ \A k \in 0 .. n : /\ StepKnown(at[k])
                           /\ at[k].span = at[k].step \/ (k # 0 /\ s[k].kind = "genai")
  BY <1>1, <1>2, <1>4 DEF NestedBy
<1>7. \A k \in 1 .. n : s[k].kind # "genai"
  <2>1. n # 0 => s[n].kind # "genai"
    <3>1. n # 0 => s # <<>> /\ CI!Top(t) = s[n]
      BY <1>2, <1>4, FramePopped DEF CI!Top
    <3>2. QED
      BY <1>2, <3>1 DEF CI!InFrame
  <2>2. QED
    BY <1>6, <2>1
<1>8. /\ new[0] = fw'.base[t] /\ new[n + 1] = mem'.ctx[t]
      /\ \A k \in 1 .. n + 1 :
           /\ new[k] = CI!Within(new[k - 1], fw'.stack[t][k])
           /\ fw'.stack[t][k].kind # "gen" => fw'.stack[t][k].saved = new[k - 1]
           /\ fw'.stack[t][k].kind = "genai" => k = n + 1
      /\ \A k \in 0 .. n + 1 :
           new[k].span = new[k].step \/ (k # 0 /\ fw'.stack[t][k].kind = "genai")
  <2>1. new[0] = fw'.base[t] /\ new[n + 1] = mem'.ctx[t]
    BY <1>5, <1>6
  <2>2. ASSUME NEW k \in 1 .. n + 1
        PROVE  /\ new[k] = CI!Within(new[k - 1], fw'.stack[t][k])
               /\ fw'.stack[t][k].kind # "gen" => fw'.stack[t][k].saved = new[k - 1]
               /\ fw'.stack[t][k].kind = "genai" => k = n + 1
               /\ new[k].span = new[k].step \/ fw'.stack[t][k].kind = "genai"
    <3>1. CASE k = n + 1
      <4>1. fw'.stack[t][k] = f /\ new[k] = c /\ new[k - 1] = CI!Ctx(t)
        BY <1>3, <1>4, <1>5, <1>6, <3>1
      <4>2. QED
        BY <3>1, <4>1
    <3>2. CASE k \in 1 .. n
      <4>1. fw'.stack[t][k] = s[k] /\ new[k] = at[k] /\ new[k - 1] = at[k - 1]
        BY <1>3, <1>4, <1>5, <3>2
      <4>2. QED
        BY <1>6, <1>7, <3>2, <4>1
    <3>3. k = n + 1 \/ k \in 1 .. n
      OBVIOUS
    <3>4. QED
      BY <3>1, <3>2, <3>3
  <2>3. new[0].span = new[0].step
    BY <1>5, <1>6
  <2>4. \A k \in 0 .. n + 1 : k = 0 \/ (k # 0 /\ k \in 1 .. n + 1)
    OBVIOUS
  <2>5. \A k \in 0 .. n + 1 :
          new[k].span = new[k].step \/ (k # 0 /\ fw'.stack[t][k].kind = "genai")
    BY <2>2, <2>3, <2>4
  <2>6. QED
    BY <2>1, <2>2, <2>5
<1>9. ASSUME NEW k \in 0 .. n + 1 PROVE StepKnown(new[k])'
  <2>1. CASE k = n + 1
    <3>1. PICK d : d = new[k]
      OBVIOUS
    <3>2. StepKnown(d)'
      BY <1>5, <2>1, <3>1
    <3>3. QED
      BY <3>1, <3>2
  <2>2. CASE k \in 0 .. n
    BY <1>5, <1>6, <2>2, StepStaysKnown
  <2>3. QED
    BY <2>1, <2>2
<1>10. NestedBy(t, new)'
  BY <1>3, <1>4, <1>8, <1>9 DEF NestedBy, CI!Ctx
<1>11. QED
  BY <1>5, <1>10 DEF Nested

(* The innermost frame, the context around it, which it has saved if it    *)
(* sets one, and which is the context again when it is left.               *)
LEMMA NestedPopped ==
  ASSUME CodeTypes, NEW t \in Task, Nested(t), fw.stack[t] # <<>>
  PROVE  \E c \in Place :
           /\ CI!Top(t) \in Frame /\ CI!Ctx(t) = CI!Within(c, CI!Top(t))
           /\ CI!Top(t).kind # "gen" => CI!Top(t).saved = c
           /\ t \in fw.tasks
           /\ LogGrows /\ fw'.stack[t] = CI!Front(fw.stack[t]) /\ fw'.base[t] = fw.base[t]
                /\ fw.tasks \subseteq fw'.tasks /\ mem'.ctx[t] = c
                => Nested(t)'
<1>1. PICK at \in [Nat -> Place] : NestedBy(t, at)
  BY DEF Nested
<1>2. PICK s \in Seq(Frame) : s = fw.stack[t]
  BY DEF CodeTypes, Tasks, Places
<1>3. PICK n \in Nat : n = Len(s) - 1
  BY <1>2, FramePopped
<1>4. /\ Len(s) = n + 1 /\ CI!Top(t) = s[n + 1] /\ CI!Top(t) \in Frame
      /\ Len(CI!Front(s)) = n /\ \A k \in 1 .. n : CI!Front(s)[k] = s[k]
  <2>1. /\ Len(s) \in Nat /\ CI!Last(s) = s[Len(s)] /\ CI!Last(s) \in Frame
        /\ Len(CI!Front(s)) = Len(s) - 1 /\ \A k \in 1 .. Len(s) - 1 : CI!Front(s)[k] = s[k]
    BY <1>2, FramePopped
  <2>2. Len(s) = n + 1
    BY <1>3, <2>1
  <2>3. QED
    BY <1>2, <1>3, <2>1, <2>2 DEF CI!Top
<1>5. /\ at[0] = fw.base[t] /\ at[n + 1] = CI!Ctx(t)
      /\ \A k \in 1 .. n + 1 : /\ at[k] = CI!Within(at[k - 1], s[k])
                               /\ s[k].kind # "gen" => s[k].saved = at[k - 1]
                               /\ s[k].kind = "genai" => k = n + 1
      /\ \A k \in 0 .. n + 1 : /\ StepKnown(at[k])
                               /\ at[k].span = at[k].step \/ (k # 0 /\ s[k].kind = "genai")
  BY <1>1, <1>2, <1>4 DEF NestedBy
<1>6. /\ CI!Ctx(t) = CI!Within(at[n], CI!Top(t)) /\ at[n] \in Place
      /\ CI!Top(t).kind # "gen" => CI!Top(t).saved = at[n]
  <2>1. n + 1 \in 1 .. n + 1 /\ (n + 1) - 1 = n
    OBVIOUS
  <2>2. at[n + 1] = CI!Within(at[n], s[n + 1]) /\ (s[n + 1].kind # "gen" => s[n + 1].saved = at[n])
    BY <1>5, <2>1
  <2>3. QED
    BY <1>4, <1>5, <2>2
<1>7. t \in fw.tasks
  BY DEF Nested
<1>8. ASSUME LogGrows, fw'.stack[t] = CI!Front(fw.stack[t]), fw'.base[t] = fw.base[t],
             fw.tasks \subseteq fw'.tasks, mem'.ctx[t] = at[n]
      PROVE  Nested(t)'
  <2>1. Len(fw'.stack[t]) = n /\ \A k \in 1 .. n : fw'.stack[t][k] = s[k]
    BY <1>2, <1>4, <1>8
  <2>2. \A k \in 0 .. n : StepKnown(at[k])'
    BY <1>5, <1>8, StepStaysKnown, SMTT(30), ZenonT(30)
  <2>3. \A k \in 1 .. n : /\ at[k] = CI!Within(at[k - 1], fw'.stack[t][k])
                          /\ fw'.stack[t][k].kind # "gen" => fw'.stack[t][k].saved = at[k - 1]
                          /\ fw'.stack[t][k].kind # "genai"
    <3>1. ASSUME NEW k \in 1 .. n
          PROVE  /\ at[k] = CI!Within(at[k - 1], s[k])
                 /\ s[k].kind # "gen" => s[k].saved = at[k - 1]
                 /\ s[k].kind # "genai"
      <4>1. k \in 1 .. n + 1 /\ k # n + 1
        OBVIOUS
      <4>2. QED
        BY <1>5, <4>1
    <3>2. QED
      BY <2>1, <3>1
  <2>4. \A k \in 0 .. n : at[k].span = at[k].step
    <3>1. ASSUME NEW k \in 0 .. n, k # 0, s[k].kind = "genai" PROVE FALSE
      <4>1. k \in 1 .. n + 1 /\ k # n + 1
        BY <3>1
      <4>2. QED
        BY <1>5, <3>1, <4>1
    <3>2. QED
      BY <1>5, <3>1
  <2>5. NestedBy(t, at)'
    BY <1>5, <1>8, <2>1, <2>2, <2>3, <2>4 DEF NestedBy, CI!Ctx
  <2>6. t \in fw'.tasks
    BY <1>7, <1>8
  <2>7. QED
    BY <2>5, <2>6 DEF Nested
<1>9. QED
  BY <1>4, <1>6, <1>7, <1>8

(* A task starts in the context of another.                                *)
LEMMA NestedSpawned ==
  ASSUME NEW t, LogGrows, NEW c \in Place, StepKnown(c), c.span = c.step,
         fw'.stack[t] = <<>>, fw'.base[t] = c, mem'.ctx[t] = c
  PROVE  Nested(t)'
<1> DEFINE at == [k \in Nat |-> c]
<1>1. at \in [Nat -> Place] /\ at[0] = c
  OBVIOUS
<1>2. StepKnown(c)'
  BY StepStaysKnown
<1>3. Len(fw'.stack[t]) = 0
  OBVIOUS
<1> HIDE DEF at
<1>4. NestedBy(t, at)'
  BY <1>1, <1>2, <1>3 DEF NestedBy, CI!Ctx
<1>5. QED
  BY <1>1, <1>4 DEF Nested

(* What the operators of the model write.                                  *)
LEMMA CodeWrites ==
  /\ CI!NextId = NextId /\ CI!NoId = 0 /\ CI!NoRun = 0 /\ CI!NoSpan = 0
  /\ \A i, j, type : CI!Edge(i, j, type) = Edge(i, j, type)
  /\ \A run, part, span, parent, owner :
       CI!Event(run, part, span, parent, owner) =
         [run |-> run, part |-> part, span |-> span, parent |-> parent, owner |-> owner]
  BY DEF CI!NextId, NextId, CI!NoId, NoId, CI!NoRun, CI!NoSpan, CI!Edge, Edge, CI!Event

LEMMA CodeRecords ==
  ASSUME NEW e, CI!Record(e)
  PROVE  Record(e)
  BY DEF CI!Record, Record

-----------------------------------------------------------------------------
(* What every action that enters or leaves a frame owes *)

LEMMA CodeEntered ==
  ASSUME CodeInv, NEW t \in Task, CI!Runs(t),
         log' \in Seq(CodeEvent), edges' \in Seq(LogEdge), CodeLog', LogGrows,
         NEW f \in Frame, f.kind # "gen" => f.saved = CI!Ctx(t),
         fw' \in Tasks, fw'.stack = [fw.stack EXCEPT ![t] = Append(fw.stack[t], f)],
         fw'.base = fw.base, fw'.tasks = fw.tasks,
         NEW c \in Place, c = CI!Within(CI!Ctx(t), f), StepKnown(c)',
         c.span = c.step \/ f.kind = "genai",
         mem' \in Places, mem'.ctx = [mem.ctx EXCEPT ![t] = c],
         mem'.paused \subseteq mem.paused,
         \A g : FrameOpen(g) => FrameOpen(g)',
         f.kind # "run" =>
           /\ FrameOpen(f)'
           /\ \A g \in mem'.paused : g.span # f.span
           /\ \A u \in Task : \A k, g : Holds(u, k, g) => g.span # f.span
  PROVE  CodeInv'
<1>1. CodeTypes /\ CodeOpen /\ \A u \in Task : Nested(u)
  BY DEF CodeInv
<1>2. CodeTypes' /\ CodeOpen'
  BY <1>1, OpenPushed DEF CodeTypes
<1>3. /\ fw'.stack[t] = Append(fw.stack[t], f) /\ mem'.ctx[t] = c
      /\ \A u \in Task \ {t} : fw'.stack[u] = fw.stack[u] /\ mem'.ctx[u] = mem.ctx[u]
  BY <1>1 DEF CodeTypes, Tasks, Places
<1>4. Nested(t)'
  <2>1. ~ CI!InFrame(t, "genai") /\ t \in fw'.tasks /\ fw'.base[t] = fw.base[t]
    BY DEF CI!Runs
  <2>2. QED
    BY <1>1, <1>3, <2>1, NestedPushed
<1>5. ASSUME NEW u \in Task \ {t} PROVE Nested(u)'
  BY <1>1, <1>3, NestedKept
<1>6. QED
  BY <1>2, <1>4, <1>5 DEF CodeInv

(* A frame that starts a span: the event and, if any, its link.            *)
LEMMA CodeSpan ==
  ASSUME CodeInv, NEW t \in Task, CI!Runs(t),
         NEW e \in CodeEvent, Record(e), e.part = "start", e.span = NextId,
         e.parent = CI!Ctx(t).span,
         IF e.owner = "genai" THEN edges' = edges
         ELSE edges' = edges \o Edge(CI!Ctx(t).step, NextId, "INFORMED"),
         NEW f, f.span = NextId, f.kind = e.owner, f.kind # "run",
         f.kind = "call" => e.run = f.saved.run,
         f.kind \in {"facade", "genai"} => e.run = f.run
  PROVE  /\ log' \in Seq(CodeEvent) /\ edges' \in Seq(LogEdge) /\ CodeLog' /\ LogGrows
         /\ \A g : FrameOpen(g) => FrameOpen(g)'
         /\ FrameOpen(f)'
         /\ \A g \in mem.paused : g.span # f.span
         /\ \A u \in Task : \A k, g : Holds(u, k, g) => g.span # f.span
         /\ IsStarted(f.span)'
<1>1. CodeTypes /\ CodeLog /\ CodeOpen /\ Nested(t)
  BY DEF CodeInv
<1>2. CI!Ctx(t).span = CI!Ctx(t).step /\ StepKnown(CI!Ctx(t))
  BY <1>1, NestedNow DEF CI!Runs
<1>3. log' \in Seq(CodeEvent)
  BY <1>1, Logged DEF CodeTypes
<1>4. edges' \in Seq(LogEdge) /\ CodeLog' /\ LogGrows
  <2>1. CASE e.owner = "genai"
    <3>1. edges' = edges
      BY <2>1
    <3>2. QED
      BY <1>1, <2>1, <3>1, CodeUnlinked DEF CodeTypes
  <2>2. CASE e.owner # "genai"
    <3>1. edges' = edges \o Edge(e.parent, NextId, "INFORMED")
      BY <1>2, <2>2
    <3>2. e.parent # 0 => IsStarted(e.parent)
      BY <1>2 DEF StepKnown
    <3>3. QED
      BY <1>1, <3>1, <3>2, CodeStarts
  <2>3. QED
    BY <2>1, <2>2
<1>5. \A g : FrameOpen(g) => FrameOpen(g)'
  BY <1>1, OpenKept
<1>6. FrameOpen(f)' /\ \A g : FrameOpen(g) => g.span # f.span
  BY <1>1, OpenStarted
<1>7. /\ \A g \in mem.paused : g.span # f.span
      /\ \A u \in Task : \A k, g : Holds(u, k, g) => g.span # f.span
  BY <1>1, <1>6 DEF CodeOpen
<1>8. IsStarted(f.span)'
  BY <1>6 DEF FrameOpen
<1>9. QED
  BY <1>3, <1>4, <1>5, <1>6, <1>7, <1>8

(* A frame is left: into the context around it, its span ended or not.     *)
LEMMA CodeLeft ==
  ASSUME CodeInv, NEW t \in Task, fw.stack[t] # <<>>,
         log' \in Seq(CodeEvent), edges' \in Seq(LogEdge), CodeLog', LogGrows,
         fw' \in Tasks, fw'.stack = [fw.stack EXCEPT ![t] = CI!Front(fw.stack[t])],
         fw'.base = fw.base, fw'.tasks = fw.tasks,
         mem' \in Places, \A u \in Task \ {t} : mem'.ctx[u] = mem.ctx[u],
         \A c \in Place : /\ CI!Ctx(t) = CI!Within(c, CI!Top(t))
                          /\ CI!Top(t).kind # "gen" => CI!Top(t).saved = c
                          => mem'.ctx[t] = c,
         NEW f, f = CI!Top(t),
         \A g : FrameOpen(g) /\ (f.kind = "run" \/ g.span # f.span) => FrameOpen(g)',
         \/ mem'.paused = mem.paused
         \/ f.kind = "gen" /\ FrameOpen(f)' /\ mem'.paused = mem.paused \cup {f}
  PROVE  CodeInv'
<1>1. CodeTypes /\ CodeOpen /\ \A u \in Task : Nested(u)
  BY DEF CodeInv
<1>2. CodeTypes' /\ CodeOpen'
  <2>1. f = CI!Last(fw.stack[t])
    BY DEF CI!Top
  <2>2. QED
    BY <1>1, <2>1, OpenPopped DEF CodeTypes
<1>3. /\ fw'.stack[t] = CI!Front(fw.stack[t])
      /\ \A u \in Task \ {t} : fw'.stack[u] = fw.stack[u]
  BY <1>1 DEF CodeTypes, Tasks
<1>4. Nested(t)'
  <2>1. PICK c \in Place :
           /\ CI!Top(t) \in Frame /\ CI!Ctx(t) = CI!Within(c, CI!Top(t))
           /\ CI!Top(t).kind # "gen" => CI!Top(t).saved = c
           /\ t \in fw.tasks
           /\ LogGrows /\ fw'.stack[t] = CI!Front(fw.stack[t]) /\ fw'.base[t] = fw.base[t]
                /\ fw.tasks \subseteq fw'.tasks /\ mem'.ctx[t] = c
                => Nested(t)'
    BY <1>1, NestedPopped
  <2>2. mem'.ctx[t] = c
    BY <2>1
  <2>3. QED
    BY <1>3, <2>1, <2>2
<1>5. ASSUME NEW u \in Task \ {t} PROVE Nested(u)'
  BY <1>1, <1>3, NestedKept
<1>6. QED
  BY <1>2, <1>4, <1>5 DEF CodeInv

-----------------------------------------------------------------------------
(* The actions *)

LEMMA FrameKinds ==
  ASSUME NEW f \in Frame
  PROVE  /\ f.kind \in {"run", "call", "gen", "facade", "genai"}
         /\ f.kind = "run" => f \in RunFrame /\ f.run \in Nat
         /\ f.kind = "call" => f \in CallFrame /\ f.span \in Nat
         /\ f.kind = "gen" => f \in GenFrame /\ f.span \in Nat /\ f.parent \in Nat
         /\ f.kind \in {"facade", "genai"} => f \in BlockFrame /\ f.span \in Nat /\ f.run \in Nat
         /\ f.kind # "gen" => f.saved \in Place
  BY DEF Frame, RunFrame, CallFrame, GenFrame, BlockFrame

LEMMA PlaceFields ==
  ASSUME NEW c \in Place
  PROVE  /\ c.run \in Nat /\ c.span \in Nat /\ c.parent \in Nat /\ c.step \in Nat
         /\ c = [run |-> c.run, span |-> c.span, parent |-> c.parent, step |-> c.step]
  BY DEF Place

(* The context inside a frame, by kind.                                    *)
LEMMA WithinFrame ==
  ASSUME NEW c \in Place, NEW f \in Frame
  PROVE  /\ f.kind = "run" => CI!Within(c, f) =
              [run |-> f.run, span |-> c.span, parent |-> c.parent, step |-> c.step]
         /\ f.kind = "gen" => CI!Within(c, f) = c
         /\ f.kind = "call" => CI!Within(c, f) =
              [run |-> c.run, span |-> f.span, parent |-> c.span, step |-> f.span]
         /\ f.kind = "facade" => CI!Within(c, f) =
              [run |-> f.run, span |-> f.span, parent |-> c.span, step |-> f.span]
         /\ f.kind = "genai" => CI!Within(c, f) =
              [run |-> c.run, span |-> f.span, parent |-> c.span, step |-> c.step]
         /\ CI!Within(c, f) \in Place
<1>1. c.run \in Nat /\ c.span \in Nat /\ c.parent \in Nat /\ c.step \in Nat
  BY DEF Place
<1>2. CASE f.kind = "run"
  <2>1. CI!Within(c, f) = [c EXCEPT !.run = f.run] /\ f.run \in Nat
    BY <1>2, FrameKinds DEF CI!Within
  <2>2. QED
    BY <1>1, <1>2, <2>1 DEF Place
<1>3. CASE f.kind = "gen"
  <2>1. CI!Within(c, f) = c
    BY <1>3 DEF CI!Within
  <2>2. QED
    BY <1>3, <2>1
<1>4. CASE f.kind = "call"
  <2>1. CI!Within(c, f) = CI!Inside(c, f.span) /\ f.span \in Nat
    BY <1>4, FrameKinds DEF CI!Within
  <2>2. QED
    BY <1>1, <1>4, <2>1 DEF Place, CI!Inside
<1>5. CASE f.kind = "facade"
  <2>1. /\ CI!Within(c, f) = [CI!Inside(c, f.span) EXCEPT !.run = f.run]
        /\ f.span \in Nat /\ f.run \in Nat
    BY <1>5, FrameKinds DEF CI!Within
  <2>2. QED
    BY <1>1, <1>5, <2>1 DEF Place, CI!Inside
<1>6. CASE f.kind = "genai"
  <2>1. /\ CI!Within(c, f) = [c EXCEPT !.span = f.span, !.parent = c.span] /\ f.span \in Nat
    BY <1>6, FrameKinds DEF CI!Within
  <2>2. QED
    BY <1>1, <1>6, <2>1 DEF Place
<1>7. QED
  BY <1>2, <1>3, <1>4, <1>5, <1>6, FrameKinds

(* Nothing recorded.                                                       *)
LEMMA CodeSilent ==
  ASSUME CodeInv, UNCHANGED <<log, edges>>
  PROVE  /\ log' \in Seq(CodeEvent) /\ edges' \in Seq(LogEdge) /\ CodeLog' /\ LogGrows
         /\ \A g : FrameOpen(g) => FrameOpen(g)'
<1>1. CodeTypes /\ CodeLog
  BY DEF CodeInv
<1>2. CodeLog'
  BY <1>1 DEF CodeLog, EndsLogged, JoinsSpans, Derives, Informs, StartsLinked, EndsLinked, Linked
<1>3. QED
  BY <1>1, <1>2 DEF CodeTypes, LogGrows, FrameOpen, IsStarted, HasEnded

LEMMA CodeEnterRun ==
  ASSUME CodeInv, NEW t \in Task, CI!EnterRun(t)
  PROVE  CodeInv'
<1>1. CodeTypes /\ Nested(t)
  BY DEF CodeInv
<1>2. CI!Runs(t) /\ UNCHANGED <<log, edges>>
  BY DEF CI!EnterRun
<1>3. /\ CI!Ctx(t) \in Place /\ StepKnown(CI!Ctx(t)) /\ CI!Ctx(t).span = CI!Ctx(t).step
  BY <1>1, <1>2, NestedNow DEF CI!Runs
<1>4. PICK f : f = [kind |-> "run", run |-> fw.runs + 1, saved |-> CI!Ctx(t)]
  OBVIOUS
<1>5. f \in Frame /\ f.kind = "run" /\ f.saved = CI!Ctx(t) /\ f.run = fw.runs + 1
  BY <1>1, <1>3, <1>4 DEF Frame, RunFrame, CodeTypes, Tasks
<1>6. PICK c \in Place : c = CI!Within(CI!Ctx(t), f)
  BY <1>3, <1>5, WithinFrame
<1>7. c.step = CI!Ctx(t).step /\ c.span = CI!Ctx(t).span
  BY <1>3, <1>5, <1>6, WithinFrame
<1>8. StepKnown(c)'
  BY <1>2, <1>3, <1>7 DEF StepKnown, IsStarted
<1>9. /\ fw' \in Tasks /\ fw'.stack = [fw.stack EXCEPT ![t] = Append(fw.stack[t], f)]
      /\ fw'.base = fw.base /\ fw'.tasks = fw.tasks
  <2>1. fw' = [[fw EXCEPT !.stack[t] = Append(fw.stack[t], f)] EXCEPT !.runs = fw.runs + 1]
    BY <1>1, <1>4 DEF CI!EnterRun, CI!Pushed, CodeTypes, Tasks
  <2>2. Append(fw.stack[t], f) \in Seq(Frame) /\ fw.runs + 1 \in Nat
    BY <1>1, <1>5, FramePushed DEF CodeTypes, Tasks
  <2>3. QED
    BY <1>1, <2>1, <2>2 DEF CodeTypes, Tasks
<1>10. mem' \in Places /\ mem'.ctx = [mem.ctx EXCEPT ![t] = c] /\ mem'.paused = mem.paused
  <2>1. c = [CI!Ctx(t) EXCEPT !.run = fw.runs + 1]
    BY <1>5, <1>6 DEF CI!Within
  <2>2. mem' = [mem EXCEPT !.ctx[t] = c]
    BY <2>1 DEF CI!EnterRun, CI!SetCtx
  <2>3. QED
    BY <1>1, <2>2 DEF CodeTypes, Places
<1>11. QED
  BY <1>2, <1>3, <1>5, <1>6, <1>7, <1>8, <1>9, <1>10, CodeSilent, CodeEntered, SMTT(30), ZenonT(30)

LEMMA CodeCall ==
  ASSUME CodeInv, NEW t \in Task, CI!Call(t)
  PROVE  CodeInv'
<1>1. CodeTypes /\ Nested(t)
  BY DEF CodeInv
<1>2. CI!Runs(t)
  BY DEF CI!Call
<1>3. CI!Ctx(t) \in Place
  BY <1>1, NestedNow
<1>4. PICK n \in Nat : n = NextId
  BY <1>1, LenProperties DEF CodeTypes, NextId
<1>5. PICK e : e = [run |-> CI!Ctx(t).run, part |-> "start", span |-> n,
                    parent |-> CI!Ctx(t).span, owner |-> "call"]
  OBVIOUS
<1>6. /\ e \in CodeEvent /\ e.part = "start" /\ e.span = NextId /\ e.owner = "call"
      /\ e.parent = CI!Ctx(t).span /\ e.run = CI!Ctx(t).run
  BY <1>3, <1>4, <1>5, PlaceFields DEF CodeEvent, EventIn
<1>7. Record(e) /\ edges' = edges \o Edge(CI!Ctx(t).step, NextId, "INFORMED")
  BY <1>4, <1>5, CodeWrites, CodeRecords DEF CI!Call
<1>8. PICK f : f = [kind |-> "call", span |-> n, saved |-> CI!Ctx(t)]
  OBVIOUS
<1>9. f \in Frame /\ f.kind = "call" /\ f.saved = CI!Ctx(t) /\ f.span = NextId /\ f.span = n
  BY <1>3, <1>4, <1>8 DEF Frame, CallFrame
<1>10. /\ log' \in Seq(CodeEvent) /\ edges' \in Seq(LogEdge) /\ CodeLog' /\ LogGrows
       /\ \A g : FrameOpen(g) => FrameOpen(g)'
       /\ FrameOpen(f)'
       /\ \A g \in mem.paused : g.span # f.span
       /\ \A u \in Task : \A k, g : Holds(u, k, g) => g.span # f.span
       /\ IsStarted(f.span)'
  BY <1>2, <1>6, <1>7, <1>9, CodeSpan
<1>11. PICK c \in Place : c = CI!Within(CI!Ctx(t), f)
  BY <1>3, <1>9, WithinFrame
<1>12. c.step = f.span /\ c.span = f.span
  BY <1>3, <1>9, <1>11, WithinFrame
<1>13. StepKnown(c)'
  BY <1>10, <1>12 DEF StepKnown
<1>14. /\ fw' \in Tasks /\ fw'.stack = [fw.stack EXCEPT ![t] = Append(fw.stack[t], f)]
       /\ fw'.base = fw.base /\ fw'.tasks = fw.tasks
  <2>1. fw' = [fw EXCEPT !.stack[t] = Append(fw.stack[t], f)]
    BY <1>4, <1>8, CodeWrites DEF CI!Call, CI!Pushed
  <2>2. Append(fw.stack[t], f) \in Seq(Frame)
    BY <1>1, <1>9, FramePushed DEF CodeTypes, Tasks
  <2>3. QED
    BY <1>1, <2>1, <2>2 DEF CodeTypes, Tasks
<1>15. mem' \in Places /\ mem'.ctx = [mem.ctx EXCEPT ![t] = c] /\ mem'.paused = mem.paused
  <2>1. c = CI!Inside(CI!Ctx(t), n)
    BY <1>9, <1>11 DEF CI!Within
  <2>2. mem' = [mem EXCEPT !.ctx[t] = c]
    BY <1>4, <2>1, CodeWrites DEF CI!Call, CI!SetCtx
  <2>3. QED
    BY <1>1, <2>2 DEF CodeTypes, Places
<1>16. QED
  BY <1>2, <1>9, <1>10, <1>11, <1>12, <1>13, <1>14, <1>15, CodeEntered, SMTT(30), ZenonT(30)

LEMMA CodeGenStart ==
  ASSUME CodeInv, NEW t \in Task, CI!GenStart(t)
  PROVE  CodeInv'
<1>1. CodeTypes /\ Nested(t)
  BY DEF CodeInv
<1>2. CI!Runs(t) /\ mem' = mem
  BY DEF CI!GenStart
<1>3. CI!Ctx(t) \in Place /\ StepKnown(CI!Ctx(t)) /\ CI!Ctx(t).span = CI!Ctx(t).step
  BY <1>1, <1>2, NestedNow DEF CI!Runs
<1>4. PICK n \in Nat : n = NextId
  BY <1>1, LenProperties DEF CodeTypes, NextId
<1>5. PICK e : e = [run |-> CI!Ctx(t).run, part |-> "start", span |-> n,
                    parent |-> CI!Ctx(t).span, owner |-> "gen"]
  OBVIOUS
<1>6. /\ e \in CodeEvent /\ e.part = "start" /\ e.span = NextId /\ e.owner = "gen"
      /\ e.parent = CI!Ctx(t).span
  BY <1>3, <1>4, <1>5, PlaceFields DEF CodeEvent, EventIn
<1>7. Record(e) /\ edges' = edges \o Edge(CI!Ctx(t).step, NextId, "INFORMED")
  BY <1>4, <1>5, CodeWrites, CodeRecords DEF CI!GenStart
<1>8. PICK f : f = [kind |-> "gen", span |-> n, parent |-> CI!Ctx(t).span]
  OBVIOUS
<1>9. f \in Frame /\ f.kind = "gen" /\ f.span = NextId
  BY <1>3, <1>4, <1>8, PlaceFields DEF Frame, GenFrame
<1>10. /\ log' \in Seq(CodeEvent) /\ edges' \in Seq(LogEdge) /\ CodeLog' /\ LogGrows
       /\ \A g : FrameOpen(g) => FrameOpen(g)'
       /\ FrameOpen(f)'
       /\ \A g \in mem.paused : g.span # f.span
       /\ \A u \in Task : \A k, g : Holds(u, k, g) => g.span # f.span
  BY <1>2, <1>6, <1>7, <1>9, CodeSpan
<1>11. PICK c \in Place : c = CI!Ctx(t) /\ c = CI!Within(CI!Ctx(t), f)
  BY <1>3, <1>9, WithinFrame
<1>12. StepKnown(c)' /\ c.span = c.step
  BY <1>3, <1>10, <1>11, StepStaysKnown
<1>13. /\ fw' \in Tasks /\ fw'.stack = [fw.stack EXCEPT ![t] = Append(fw.stack[t], f)]
       /\ fw'.base = fw.base /\ fw'.tasks = fw.tasks
  <2>1. fw' = [fw EXCEPT !.stack[t] = Append(fw.stack[t], f)]
    BY <1>4, <1>8, CodeWrites DEF CI!GenStart, CI!Pushed
  <2>2. Append(fw.stack[t], f) \in Seq(Frame)
    BY <1>1, <1>9, FramePushed DEF CodeTypes, Tasks
  <2>3. QED
    BY <1>1, <2>1, <2>2 DEF CodeTypes, Tasks
<1>14. mem' \in Places /\ mem'.ctx = [mem.ctx EXCEPT ![t] = c] /\ mem'.paused = mem.paused
  BY <1>1, <1>2, <1>11 DEF CodeTypes, Places, CI!Ctx
<1>15. QED
  BY <1>2, <1>9, <1>10, <1>11, <1>12, <1>13, <1>14, CodeEntered, SMTT(30), ZenonT(30)

LEMMA CodeResume ==
  ASSUME CodeInv, NEW t \in Task, NEW f \in mem.paused, CI!Resume(t, f)
  PROVE  CodeInv'
<1>1. CodeTypes /\ Nested(t) /\ CodeOpen
  BY DEF CodeInv
<1>2. CI!Runs(t) /\ UNCHANGED <<log, edges>>
  BY DEF CI!Resume
<1>3. CI!Ctx(t) \in Place /\ StepKnown(CI!Ctx(t)) /\ CI!Ctx(t).span = CI!Ctx(t).step
  BY <1>1, <1>2, NestedNow DEF CI!Runs
<1>4. f \in GenFrame /\ f \in Frame /\ f.kind = "gen"
  BY <1>1 DEF CodeTypes, Places, Frame, GenFrame
<1>5. /\ FrameOpen(f)
      /\ \A g \in mem.paused \ {f} : g.span # f.span
      /\ \A u \in Task : \A k, g : Holds(u, k, g) => g.span # f.span
  BY <1>1 DEF CodeOpen
<1>6. PICK c \in Place : c = CI!Ctx(t) /\ c = CI!Within(CI!Ctx(t), f)
  BY <1>3, <1>4, WithinFrame
<1>7. StepKnown(c)' /\ c.span = c.step
  BY <1>2, <1>3, <1>6 DEF StepKnown, IsStarted
<1>8. /\ fw' \in Tasks /\ fw'.stack = [fw.stack EXCEPT ![t] = Append(fw.stack[t], f)]
      /\ fw'.base = fw.base /\ fw'.tasks = fw.tasks
  <2>1. fw' = [fw EXCEPT !.stack[t] = Append(fw.stack[t], f)]
    BY DEF CI!Resume, CI!Pushed
  <2>2. Append(fw.stack[t], f) \in Seq(Frame)
    BY <1>1, <1>4, FramePushed DEF CodeTypes, Tasks
  <2>3. QED
    BY <1>1, <2>1, <2>2 DEF CodeTypes, Tasks
<1>9. /\ mem' \in Places /\ mem'.ctx = [mem.ctx EXCEPT ![t] = c]
      /\ mem'.paused = mem.paused \ {f}
  <2>1. mem' = [mem EXCEPT !.paused = mem.paused \ {f}]
    BY DEF CI!Resume
  <2>2. QED
    BY <1>1, <1>6, <2>1 DEF CodeTypes, Places, CI!Ctx
<1>10. mem'.paused \subseteq mem.paused /\ \A g \in mem'.paused : g.span # f.span
  BY <1>5, <1>9
<1>11. /\ log' \in Seq(CodeEvent) /\ edges' \in Seq(LogEdge) /\ CodeLog' /\ LogGrows
       /\ \A g : FrameOpen(g) => FrameOpen(g)'
  BY <1>2, CodeSilent
<1>12. FrameOpen(f)'
  BY <1>5, <1>11
<1>13. QED
  BY <1>2, <1>4, <1>5, <1>6, <1>7, <1>8, <1>9, <1>10, <1>11, <1>12, CodeEntered, SMTT(30), ZenonT(30)

LEMMA CodeFacadeEnter ==
  ASSUME CodeInv, NEW t \in Task, CI!FacadeEnter(t)
  PROVE  CodeInv'
<1>1. CodeTypes /\ Nested(t)
  BY DEF CodeInv
<1>2. CI!Runs(t)
  BY DEF CI!FacadeEnter
<1>3. CI!Ctx(t) \in Place /\ CI!Ctx(t).run \in Nat
  BY <1>1, NestedNow, PlaceFields
<1>4. PICK n \in Nat : n = NextId
  BY <1>1, LenProperties DEF CodeTypes, NextId
<1>5. PICK run \in Nat : run = IF CI!Ctx(t).run = CI!NoRun THEN fw.runs + 1 ELSE CI!Ctx(t).run
  BY <1>1, <1>3 DEF CodeTypes, Tasks
<1>6. PICK e : e = [run |-> run, part |-> "start", span |-> n,
                    parent |-> CI!Ctx(t).span, owner |-> "facade"]
  OBVIOUS
<1>7. /\ e \in CodeEvent /\ e.part = "start" /\ e.span = NextId /\ e.owner = "facade"
      /\ e.parent = CI!Ctx(t).span /\ e.run = run
  BY <1>3, <1>4, <1>6, PlaceFields DEF CodeEvent, EventIn
<1>8. Record(e) /\ edges' = edges \o Edge(CI!Ctx(t).step, NextId, "INFORMED")
  BY <1>4, <1>5, <1>6, CodeWrites, CodeRecords DEF CI!FacadeEnter
<1>9. PICK f : f = [kind |-> "facade", span |-> n, run |-> run, saved |-> CI!Ctx(t)]
  OBVIOUS
<1>10. /\ f \in Frame /\ f.kind = "facade" /\ f.saved = CI!Ctx(t) /\ f.span = NextId
       /\ f.span = n /\ f.run = run
  BY <1>3, <1>4, <1>9 DEF Frame, BlockFrame
<1>11. /\ log' \in Seq(CodeEvent) /\ edges' \in Seq(LogEdge) /\ CodeLog' /\ LogGrows
       /\ \A g : FrameOpen(g) => FrameOpen(g)'
       /\ FrameOpen(f)'
       /\ \A g \in mem.paused : g.span # f.span
       /\ \A u \in Task : \A k, g : Holds(u, k, g) => g.span # f.span
       /\ IsStarted(f.span)'
  BY <1>2, <1>7, <1>8, <1>10, CodeSpan
<1>12. PICK c \in Place : c = CI!Within(CI!Ctx(t), f)
  BY <1>3, <1>10, WithinFrame
<1>13. c.step = f.span /\ c.span = f.span
  BY <1>3, <1>10, <1>12, WithinFrame
<1>14. StepKnown(c)'
  BY <1>11, <1>13 DEF StepKnown
<1>15. /\ fw' \in Tasks /\ fw'.stack = [fw.stack EXCEPT ![t] = Append(fw.stack[t], f)]
       /\ fw'.base = fw.base /\ fw'.tasks = fw.tasks
  <2>1. PICK runs \in Nat : fw' = [[fw EXCEPT !.stack[t] = Append(fw.stack[t], f)] EXCEPT !.runs = runs]
    <3>1. fw' = [[fw EXCEPT !.stack[t] = Append(fw.stack[t], f)]
                   EXCEPT !.runs = IF CI!Ctx(t).run = CI!NoRun THEN run ELSE fw.runs]
      BY <1>1, <1>4, <1>5, <1>9, CodeWrites DEF CI!FacadeEnter, CI!Pushed, CodeTypes, Tasks
    <3>2. fw.runs \in Nat
      BY <1>1 DEF CodeTypes, Tasks
    <3>3. QED
      BY <3>1, <3>2
  <2>2. Append(fw.stack[t], f) \in Seq(Frame)
    BY <1>1, <1>10, FramePushed DEF CodeTypes, Tasks
  <2>3. QED
    BY <1>1, <2>1, <2>2 DEF CodeTypes, Tasks
<1>16. mem' \in Places /\ mem'.ctx = [mem.ctx EXCEPT ![t] = c] /\ mem'.paused = mem.paused
  <2>1. c = [CI!Inside(CI!Ctx(t), n) EXCEPT !.run = run]
    BY <1>10, <1>12 DEF CI!Within
  <2>2. mem' = [mem EXCEPT !.ctx[t] = c]
    BY <1>4, <1>5, <2>1, CodeWrites DEF CI!FacadeEnter, CI!SetCtx
  <2>3. QED
    BY <1>1, <2>2 DEF CodeTypes, Places
<1>17. QED
  BY <1>2, <1>10, <1>11, <1>12, <1>13, <1>14, <1>15, <1>16, CodeEntered, SMTT(30), ZenonT(30)

LEMMA CodeGenAIEnter ==
  ASSUME CodeInv, NEW t \in Task, NEW run \in Nat, CI!GenAIEnter(t, run)
  PROVE  CodeInv'
<1>1. CodeTypes /\ Nested(t)
  BY DEF CodeInv
<1>2. CI!Runs(t) /\ edges' = edges
  BY DEF CI!GenAIEnter
<1>3. CI!Ctx(t) \in Place /\ StepKnown(CI!Ctx(t))
  BY <1>1, NestedNow
<1>4. PICK n \in Nat : n = NextId
  BY <1>1, LenProperties DEF CodeTypes, NextId
<1>5. PICK e : e = [run |-> run, part |-> "start", span |-> n,
                    parent |-> CI!Ctx(t).span, owner |-> "genai"]
  OBVIOUS
<1>6. /\ e \in CodeEvent /\ e.part = "start" /\ e.span = NextId /\ e.owner = "genai"
      /\ e.parent = CI!Ctx(t).span /\ e.run = run
  BY <1>3, <1>4, <1>5, PlaceFields DEF CodeEvent, EventIn
<1>7. Record(e)
  BY <1>4, <1>5, CodeWrites, CodeRecords DEF CI!GenAIEnter
<1>8. PICK f : f = [kind |-> "genai", span |-> n, run |-> run, saved |-> CI!Ctx(t)]
  OBVIOUS
<1>9. /\ f \in Frame /\ f.kind = "genai" /\ f.saved = CI!Ctx(t) /\ f.span = NextId
      /\ f.span = n /\ f.run = run
  BY <1>3, <1>4, <1>8 DEF Frame, BlockFrame
<1>10. /\ log' \in Seq(CodeEvent) /\ edges' \in Seq(LogEdge) /\ CodeLog' /\ LogGrows
       /\ \A g : FrameOpen(g) => FrameOpen(g)'
       /\ FrameOpen(f)'
       /\ \A g \in mem.paused : g.span # f.span
       /\ \A u \in Task : \A k, g : Holds(u, k, g) => g.span # f.span
  BY <1>2, <1>6, <1>7, <1>9, CodeSpan
<1>11. PICK c \in Place : c = CI!Within(CI!Ctx(t), f)
  BY <1>3, <1>9, WithinFrame
<1>12. c.step = CI!Ctx(t).step
  BY <1>3, <1>9, <1>11, WithinFrame
<1>13. StepKnown(c)'
  BY <1>3, <1>10, <1>12 DEF StepKnown, IsStarted, LogGrows
<1>14. /\ fw' \in Tasks /\ fw'.stack = [fw.stack EXCEPT ![t] = Append(fw.stack[t], f)]
       /\ fw'.base = fw.base /\ fw'.tasks = fw.tasks
  <2>1. fw' = [fw EXCEPT !.stack[t] = Append(fw.stack[t], f)]
    BY <1>4, <1>8, CodeWrites DEF CI!GenAIEnter, CI!Pushed
  <2>2. Append(fw.stack[t], f) \in Seq(Frame)
    BY <1>1, <1>9, FramePushed DEF CodeTypes, Tasks
  <2>3. QED
    BY <1>1, <2>1, <2>2 DEF CodeTypes, Tasks
<1>15. mem' \in Places /\ mem'.ctx = [mem.ctx EXCEPT ![t] = c] /\ mem'.paused = mem.paused
  <2>1. c = [CI!Ctx(t) EXCEPT !.span = n, !.parent = CI!Ctx(t).span]
    BY <1>9, <1>11 DEF CI!Within
  <2>2. mem' = [mem EXCEPT !.ctx[t] = c]
    BY <1>4, <2>1, CodeWrites DEF CI!GenAIEnter, CI!SetCtx
  <2>3. QED
    BY <1>1, <2>2 DEF CodeTypes, Places
<1>16. QED
  BY <1>2, <1>9, <1>10, <1>11, <1>13, <1>14, <1>15, CodeEntered, SMTT(30), ZenonT(30)

(* The end of the span that an open frame holds: no other frame's.         *)
LEMMA CodeSpanEnds ==
  ASSUME CodeInv, NEW f, FrameOpen(f),
         NEW e \in CodeEvent, Record(e), e.part = "end", e.span = f.span,
         f.kind = "gen" \/ log[f.span].run = e.run,
         edges' = edges \o Edge(f.span, NextId, "DERIVED_FROM")
  PROVE  /\ log' \in Seq(CodeEvent) /\ edges' \in Seq(LogEdge) /\ CodeLog' /\ LogGrows
         /\ \A g : FrameOpen(g) /\ g.span # f.span => FrameOpen(g)'
<1>1. CodeTypes /\ CodeLog
  BY DEF CodeInv
<1>2. /\ IsStarted(e.span) /\ ~ HasEnded(e.span)
      /\ log[e.span].owner = "gen" \/ log[e.span].run = e.run
      /\ edges' = edges \o Edge(e.span, NextId, "DERIVED_FROM")
  BY DEF FrameOpen
<1>3. edges' \in Seq(LogEdge) /\ CodeLog' /\ LogGrows
  BY <1>1, <1>2, CodeEnds
<1>4. log' \in Seq(CodeEvent)
  BY <1>1, Logged DEF CodeTypes
<1>5. \A g : FrameOpen(g) /\ g.span # f.span => FrameOpen(g)'
  BY <1>1, OpenKept
<1>6. QED
  BY <1>3, <1>4, <1>5

(* The frame that a task is about to leave.                                *)
LEMMA CodeTop ==
  ASSUME CodeInv, NEW t \in Task, fw.stack[t] # <<>>
  PROVE  /\ CI!Top(t) \in Frame /\ CI!Ctx(t) \in Place
         /\ CI!Top(t).kind # "run" => FrameOpen(CI!Top(t))
         /\ \E c \in Place : /\ CI!Ctx(t) = CI!Within(c, CI!Top(t))
                             /\ CI!Top(t).kind # "gen" => CI!Top(t).saved = c
<1>1. CodeTypes /\ CodeOpen /\ Nested(t)
  BY DEF CodeInv
<1>2. PICK f : f = CI!Top(t)
  OBVIOUS
<1>3. f.kind # "run" => Holds(t, Len(fw.stack[t]), f)
  <2>1. fw.stack[t] \in Seq(Frame)
    BY <1>1 DEF CodeTypes, Tasks
  <2>2. Len(fw.stack[t]) \in DOMAIN fw.stack[t] /\ f = fw.stack[t][Len(fw.stack[t])]
    BY <1>2, <2>1, FramePopped DEF CI!Top
  <2>3. QED
    BY <2>2 DEF Holds
<1>4. f.kind # "run" => FrameOpen(f)
  BY <1>1, <1>3 DEF CodeOpen
<1>5. f.kind # "run" => FrameOpen(CI!Top(t))
  BY <1>2, <1>4
<1>6. CI!Ctx(t) \in Place
  BY <1>1 DEF CodeTypes, Places, CI!Ctx
<1>7. QED
  BY <1>1, <1>2, <1>5, <1>6, NestedPopped

LEMMA PlaceReset ==
  ASSUME NEW r, NEW p, NEW q, NEW x, NEW d, d = [run |-> r, span |-> p, parent |-> q, step |-> x],
         NEW a, NEW b, NEW z
  PROVE  [d EXCEPT !.span = a, !.parent = b, !.step = z] =
           [run |-> r, span |-> a, parent |-> b, step |-> z]
<1> DEFINE one == [run |-> r, span |-> a, parent |-> q, step |-> x]
           two == [run |-> r, span |-> a, parent |-> b, step |-> x]
<1>1. [d EXCEPT !.span = a] = one
  OBVIOUS
<1>2. [one EXCEPT !.parent = b] = two
  OBVIOUS
<1>3. [two EXCEPT !.step = z] = [run |-> r, span |-> a, parent |-> b, step |-> z]
  OBVIOUS
<1>4. [d EXCEPT !.span = a, !.parent = b, !.step = z] =
        [[[d EXCEPT !.span = a] EXCEPT !.parent = b] EXCEPT !.step = z]
  BY <1>1
<1> HIDE DEF one, two
<1>5. QED
  BY <1>1, <1>2, <1>3, <1>4

(* The contexts that the exits set.                                        *)
LEMMA OutsideFrame ==
  ASSUME NEW t, NEW c \in Place, NEW f \in Frame, f = CI!Top(t), CI!Ctx(t) = CI!Within(c, f),
         f.kind # "gen" => f.saved = c
  PROVE  /\ f.kind = "run" => [CI!Ctx(t) EXCEPT !.run = CI!Top(t).saved.run] = c
         /\ f.kind \in {"call", "genai"} => CI!Outside(t) = c
         /\ f.kind = "facade" => [CI!Outside(t) EXCEPT !.run = CI!Top(t).saved.run] = c
<1>1. c = [run |-> c.run, span |-> c.span, parent |-> c.parent, step |-> c.step]
  BY PlaceFields
<1>2. CASE f.kind = "run"
  <2>1. /\ CI!Ctx(t) = [run |-> f.run, span |-> c.span, parent |-> c.parent, step |-> c.step]
        /\ CI!Top(t).saved = c
    BY <1>2, WithinFrame
  <2>2. [CI!Ctx(t) EXCEPT !.run = CI!Top(t).saved.run] =
          [run |-> c.run, span |-> c.span, parent |-> c.parent, step |-> c.step]
    BY <2>1
  <2>3. QED
    BY <1>1, <1>2, <2>2
<1>3. CASE f.kind = "call" \/ f.kind = "genai"
  <2>1. /\ CI!Top(t).saved = c
        /\ \/ CI!Ctx(t) = [run |-> c.run, span |-> f.span, parent |-> c.span, step |-> f.span]
           \/ CI!Ctx(t) = [run |-> c.run, span |-> f.span, parent |-> c.span, step |-> c.step]
    BY <1>3, WithinFrame
  <2>2. CI!Outside(t) = [run |-> c.run, span |-> c.span, parent |-> c.parent, step |-> c.step]
    <3>1. PICK d : d = CI!Ctx(t)
      OBVIOUS
    <3>2. CI!Outside(t) = [d EXCEPT !.span = c.span, !.parent = c.parent, !.step = c.step]
      BY <2>1, <3>1 DEF CI!Outside
    <3>3. PICK p, q, x : d = [run |-> c.run, span |-> p, parent |-> q, step |-> x]
      BY <2>1, <3>1
    <3>4. QED
      BY <3>2, <3>3, PlaceReset
  <2>3. QED
    BY <1>1, <1>3, <2>2
<1>4. CASE f.kind = "facade"
  <2>1. /\ CI!Top(t).saved = c
        /\ CI!Ctx(t) = [run |-> f.run, span |-> f.span, parent |-> c.span, step |-> f.span]
    BY <1>4, WithinFrame
  <2>2. CI!Outside(t) = [run |-> f.run, span |-> c.span, parent |-> c.parent, step |-> c.step]
    <3>1. PICK d : d = CI!Ctx(t)
      OBVIOUS
    <3>2. CI!Outside(t) = [d EXCEPT !.span = c.span, !.parent = c.parent, !.step = c.step]
      BY <2>1, <3>1 DEF CI!Outside
    <3>3. PICK p, q, x : d = [run |-> f.run, span |-> p, parent |-> q, step |-> x]
      BY <2>1, <3>1
    <3>4. QED
      BY <3>2, <3>3, PlaceReset
  <2>3. [CI!Outside(t) EXCEPT !.run = CI!Top(t).saved.run] =
          [run |-> c.run, span |-> c.span, parent |-> c.parent, step |-> c.step]
    BY <2>1, <2>2
  <2>4. QED
    BY <1>1, <1>4, <2>3
<1>5. CASE f.kind = "gen"
  BY <1>5
<1>6. QED
  BY <1>2, <1>3, <1>4, <1>5, FrameKinds

LEMMA CodePop ==
  ASSUME CodeTypes, NEW t \in Task, fw.stack[t] # <<>>, fw' = CI!Popped(t)
  PROVE  /\ fw' \in Tasks /\ fw'.stack = [fw.stack EXCEPT ![t] = CI!Front(fw.stack[t])]
         /\ fw'.base = fw.base /\ fw'.tasks = fw.tasks
<1>1. CI!Front(fw.stack[t]) \in Seq(Frame)
  BY FramePopped DEF CodeTypes, Tasks
<1>2. QED
  BY <1>1 DEF CodeTypes, Tasks, CI!Popped

LEMMA CodeSetCtx ==
  ASSUME CodeTypes, NEW t \in Task, NEW c \in Place, mem' = [mem EXCEPT !.ctx[t] = c]
  PROVE  /\ mem' \in Places /\ mem'.ctx[t] = c /\ mem'.paused = mem.paused
         /\ \A u \in Task \ {t} : mem'.ctx[u] = mem.ctx[u]
  BY DEF CodeTypes, Places

LEMMA CodeLeaveRun ==
  ASSUME CodeInv, NEW t \in Task, CI!LeaveRun(t)
  PROVE  CodeInv'
<1>1. CodeTypes /\ fw.stack[t] # <<>> /\ UNCHANGED <<log, edges>> /\ fw' = CI!Popped(t)
  BY DEF CodeInv, CI!LeaveRun, CI!InFrame
<1>2. PICK f \in Frame : f = CI!Top(t)
  BY <1>1, CodeTop
<1>3. f.kind = "run"
  BY <1>2 DEF CI!LeaveRun, CI!InFrame
<1>4. PICK c \in Place : CI!Ctx(t) = CI!Within(c, f) /\ f.saved = c
  BY <1>1, <1>2, <1>3, CodeTop
<1>5. mem' = [mem EXCEPT !.ctx[t] = c]
  BY <1>2, <1>3, <1>4, OutsideFrame DEF CI!LeaveRun, CI!SetCtx
<1>6. \A d \in Place : CI!Top(t).saved = d => mem'.ctx[t] = d
  BY <1>1, <1>2, <1>4, <1>5, CodeSetCtx
<1>7. /\ fw' \in Tasks /\ fw'.stack = [fw.stack EXCEPT ![t] = CI!Front(fw.stack[t])]
      /\ fw'.base = fw.base /\ fw'.tasks = fw.tasks
  BY <1>1, CodePop
<1>8. /\ mem' \in Places /\ mem'.paused = mem.paused
      /\ \A u \in Task \ {t} : mem'.ctx[u] = mem.ctx[u]
  BY <1>1, <1>5, CodeSetCtx
<1>9. QED
  BY <1>1, <1>2, <1>3, <1>5, <1>6, CodeSilent, <1>7, <1>8, CodeSilent, CodeLeft, SMTT(30), ZenonT(30)

LEMMA CodeReturn ==
  ASSUME CodeInv, NEW t \in Task, CI!Return(t)
  PROVE  CodeInv'
<1>1. CodeTypes /\ fw.stack[t] # <<>> /\ fw' = CI!Popped(t)
  BY DEF CodeInv, CI!Return, CI!InFrame
<1>2. PICK f \in Frame : f = CI!Top(t)
  BY <1>1, CodeTop
<1>3. f.kind = "call" /\ FrameOpen(f)
  BY <1>1, <1>2, CodeTop DEF CI!Return, CI!InFrame
<1>4. PICK c \in Place : CI!Ctx(t) = CI!Within(c, f) /\ f.saved = c
  BY <1>1, <1>2, <1>3, CodeTop
<1>5. /\ CI!Ctx(t) = [run |-> c.run, span |-> f.span, parent |-> c.span, step |-> f.span]
      /\ c.run \in Nat /\ c.span \in Nat /\ f.span \in Nat
  BY <1>3, <1>4, WithinFrame, PlaceFields, FrameKinds
<1>6. PICK e : e = [run |-> c.run, part |-> "end", span |-> f.span, parent |-> c.span,
                    owner |-> "call"]
  OBVIOUS
<1>7. e \in CodeEvent /\ e.part = "end" /\ e.span = f.span /\ e.run = c.run
  BY <1>5, <1>6 DEF CodeEvent, EventIn
<1>8. Record(e) /\ edges' = edges \o Edge(f.span, NextId, "DERIVED_FROM")
  BY <1>2, <1>5, <1>6, CodeWrites, CodeRecords DEF CI!Return
<1>9. log[f.span].run = e.run
  BY <1>3, <1>4, <1>7 DEF FrameOpen
<1>10. /\ log' \in Seq(CodeEvent) /\ edges' \in Seq(LogEdge) /\ CodeLog' /\ LogGrows
       /\ \A g : FrameOpen(g) /\ g.span # f.span => FrameOpen(g)'
  BY <1>3, <1>7, <1>8, <1>9, CodeSpanEnds
<1>11. mem' = [mem EXCEPT !.ctx[t] = c]
  BY <1>2, <1>3, <1>4, OutsideFrame DEF CI!Return, CI!SetCtx
<1>12. \A d \in Place : CI!Top(t).saved = d => mem'.ctx[t] = d
  BY <1>1, <1>2, <1>4, <1>11, CodeSetCtx
<1>13. /\ fw' \in Tasks /\ fw'.stack = [fw.stack EXCEPT ![t] = CI!Front(fw.stack[t])]
      /\ fw'.base = fw.base /\ fw'.tasks = fw.tasks
  BY <1>1, CodePop
<1>14. /\ mem' \in Places /\ mem'.paused = mem.paused
      /\ \A u \in Task \ {t} : mem'.ctx[u] = mem.ctx[u]
  BY <1>1, <1>11, CodeSetCtx
<1>15. QED
  BY <1>1, <1>2, <1>3, <1>10, <1>11, <1>12, <1>13, <1>14, CodeLeft, SMTT(30), ZenonT(30)

(* A generator stays open while it is paused, and its task is where it was.*)
LEMMA CodeYield ==
  ASSUME CodeInv, NEW t \in Task, CI!Yield(t)
  PROVE  CodeInv'
<1>1. CodeTypes /\ fw.stack[t] # <<>> /\ UNCHANGED <<log, edges>> /\ fw' = CI!Popped(t)
  BY DEF CodeInv, CI!Yield, CI!InFrame
<1>2. PICK f \in Frame : f = CI!Top(t)
  BY <1>1, CodeTop
<1>3. f.kind = "gen" /\ FrameOpen(f) /\ f \in GenFrame
  BY <1>1, <1>2, CodeTop, FrameKinds DEF CI!Yield, CI!InFrame
<1>4. /\ log' \in Seq(CodeEvent) /\ edges' \in Seq(LogEdge) /\ CodeLog' /\ LogGrows
      /\ \A g : FrameOpen(g) => FrameOpen(g)'
  BY <1>1, CodeSilent
<1>5. FrameOpen(f)'
  BY <1>3, <1>4
<1>6. mem' \in Places /\ mem'.ctx = mem.ctx /\ mem'.paused = mem.paused \cup {f}
  <2>1. mem' = [mem EXCEPT !.paused = mem.paused \cup {f}]
    BY <1>2 DEF CI!Yield
  <2>2. QED
    BY <1>1, <1>3, <2>1 DEF CodeTypes, Places
<1>7. \A c \in Place : CI!Ctx(t) = CI!Within(c, CI!Top(t)) => mem'.ctx[t] = c
  BY <1>2, <1>3, <1>6, WithinFrame DEF CI!Ctx
<1>8. QED
  BY <1>1, <1>2, <1>3, <1>4, <1>5, <1>6, <1>7, CodePop, CodeLeft, SMTT(30), ZenonT(30)

(* The completion of a generator, recorded by whatever task completes it.  *)
LEMMA CodeGenEnds ==
  ASSUME CodeInv, NEW t \in Task, NEW f \in GenFrame, FrameOpen(f), CI!RecordGenEnd(t, f)
  PROVE  /\ log' \in Seq(CodeEvent) /\ edges' \in Seq(LogEdge) /\ CodeLog' /\ LogGrows
         /\ \A g : FrameOpen(g) /\ g.span # f.span => FrameOpen(g)'
<1>1. CASE CI!Ctx(t).run = CI!NoRun
  BY <1>1, CodeSilent DEF CI!RecordGenEnd
<1>2. CASE CI!Ctx(t).run # CI!NoRun
  <2>1. CI!Ctx(t).run \in Nat
    BY PlaceFields DEF CodeInv, CodeTypes, Places, CI!Ctx
  <2>2. f.kind = "gen" /\ f.span \in Nat /\ f.parent \in Nat
    BY DEF GenFrame
  <2>3. PICK e : e = [run |-> CI!Ctx(t).run, part |-> "end", span |-> f.span,
                      parent |-> f.parent, owner |-> "gen"]
    OBVIOUS
  <2>4. e \in CodeEvent /\ e.part = "end" /\ e.span = f.span
    BY <2>1, <2>2, <2>3 DEF CodeEvent, EventIn
  <2>5. Record(e) /\ edges' = edges \o Edge(f.span, NextId, "DERIVED_FROM")
    BY <1>2, <2>3, CodeWrites, CodeRecords DEF CI!RecordGenEnd
  <2>6. QED
    BY <2>2, <2>4, <2>5, CodeSpanEnds
<1>3. QED
  BY <1>1, <1>2

LEMMA CodeGenEnd ==
  ASSUME CodeInv, NEW t \in Task, CI!GenEnd(t)
  PROVE  CodeInv'
<1>1. CodeTypes /\ fw.stack[t] # <<>> /\ fw' = CI!Popped(t) /\ mem' = mem
  BY DEF CodeInv, CI!GenEnd, CI!InFrame
<1>2. PICK f \in Frame : f = CI!Top(t)
  BY <1>1, CodeTop
<1>3. f.kind = "gen" /\ FrameOpen(f) /\ f \in GenFrame
  BY <1>1, <1>2, CodeTop, FrameKinds DEF CI!GenEnd, CI!InFrame
<1>4. CI!RecordGenEnd(t, f)
  BY <1>2 DEF CI!GenEnd
<1>5. /\ log' \in Seq(CodeEvent) /\ edges' \in Seq(LogEdge) /\ CodeLog' /\ LogGrows
      /\ \A g : FrameOpen(g) /\ g.span # f.span => FrameOpen(g)'
  BY <1>3, <1>4, CodeGenEnds
<1>6. \A c \in Place : CI!Ctx(t) = CI!Within(c, CI!Top(t)) => mem'.ctx[t] = c
  BY <1>1, <1>2, <1>3, WithinFrame DEF CI!Ctx
<1>7. mem' \in Places
  BY <1>1 DEF CodeTypes
<1>8. QED
  BY <1>1, <1>2, <1>3, <1>5, <1>6, <1>7, CodePop, CodeLeft, SMTT(30), ZenonT(30)

LEMMA CodeGenClose ==
  ASSUME CodeInv, NEW t \in Task, NEW f \in mem.paused, CI!GenClose(t, f)
  PROVE  CodeInv'
<1>1. CodeTypes /\ CodeOpen /\ fw' = fw /\ \A u \in Task : Nested(u)
  BY DEF CodeInv, CI!GenClose
<1>2. f \in GenFrame /\ FrameOpen(f)
  BY <1>1 DEF CodeTypes, Places, CodeOpen
<1>3. CI!RecordGenEnd(t, f)
  BY DEF CI!GenClose
<1>4. /\ log' \in Seq(CodeEvent) /\ edges' \in Seq(LogEdge) /\ CodeLog' /\ LogGrows
      /\ \A g : FrameOpen(g) /\ g.span # f.span => FrameOpen(g)'
  BY <1>2, <1>3, CodeGenEnds
<1>5. mem' \in Places /\ mem'.ctx = mem.ctx /\ mem'.paused = mem.paused \ {f}
  <2>1. mem' = [mem EXCEPT !.paused = mem.paused \ {f}]
    BY DEF CI!GenClose
  <2>2. QED
    BY <1>1, <2>1 DEF CodeTypes, Places
<1>6. CodeTypes'
  BY <1>1, <1>4, <1>5 DEF CodeTypes
<1>7. CodeOpen'
  BY <1>1, <1>4, <1>5, OpenClosed
<1>8. \A u \in Task : Nested(u)'
  BY <1>1, <1>4, <1>5, NestedKept
<1>9. QED
  BY <1>4, <1>6, <1>7, <1>8 DEF CodeInv

LEMMA CodeFacadeExit ==
  ASSUME CodeInv, NEW t \in Task, NEW completes \in BOOLEAN, CI!FacadeExit(t, completes)
  PROVE  CodeInv'
<1>1. CodeTypes /\ fw.stack[t] # <<>> /\ fw' = CI!Popped(t)
  BY DEF CodeInv, CI!FacadeExit, CI!InFrame
<1>2. PICK f \in Frame : f = CI!Top(t)
  BY <1>1, CodeTop
<1>3. f.kind = "facade" /\ FrameOpen(f)
  BY <1>1, <1>2, CodeTop DEF CI!FacadeExit, CI!InFrame
<1>4. PICK c \in Place : CI!Ctx(t) = CI!Within(c, f) /\ f.saved = c
  BY <1>1, <1>2, <1>3, CodeTop
<1>5. CI!Ctx(t).run = f.run /\ c.span \in Nat /\ f.span \in Nat /\ f.run \in Nat
  BY <1>3, <1>4, WithinFrame, PlaceFields, FrameKinds
<1>6. /\ log' \in Seq(CodeEvent) /\ edges' \in Seq(LogEdge) /\ CodeLog' /\ LogGrows
      /\ \A g : FrameOpen(g) /\ g.span # f.span => FrameOpen(g)'
  <2>1. CASE ~ completes
    BY <2>1, CodeSilent DEF CI!FacadeExit
  <2>2. CASE completes
    <3>1. PICK e : e = [run |-> f.run, part |-> "end", span |-> f.span, parent |-> c.span,
                        owner |-> "facade"]
      OBVIOUS
    <3>2. e \in CodeEvent /\ e.part = "end" /\ e.span = f.span /\ e.run = f.run
      BY <1>5, <3>1 DEF CodeEvent, EventIn
    <3>3. Record(e) /\ edges' = edges \o Edge(f.span, NextId, "DERIVED_FROM")
      BY <1>2, <1>4, <1>5, <2>2, <3>1, CodeWrites, CodeRecords DEF CI!FacadeExit
    <3>4. log[f.span].run = e.run
      BY <1>3, <3>2 DEF FrameOpen
    <3>5. QED
      BY <1>3, <3>2, <3>3, <3>4, CodeSpanEnds
  <2>3. QED
    BY <2>1, <2>2
<1>7. mem' = [mem EXCEPT !.ctx[t] = c]
  BY <1>2, <1>3, <1>4, OutsideFrame DEF CI!FacadeExit, CI!SetCtx
<1>8. \A d \in Place : CI!Top(t).saved = d => mem'.ctx[t] = d
  BY <1>1, <1>2, <1>4, <1>7, CodeSetCtx
<1>9. /\ fw' \in Tasks /\ fw'.stack = [fw.stack EXCEPT ![t] = CI!Front(fw.stack[t])]
      /\ fw'.base = fw.base /\ fw'.tasks = fw.tasks
  BY <1>1, CodePop
<1>10. /\ mem' \in Places /\ mem'.paused = mem.paused
      /\ \A u \in Task \ {t} : mem'.ctx[u] = mem.ctx[u]
  BY <1>1, <1>7, CodeSetCtx
<1>11. QED
  BY <1>1, <1>2, <1>3, <1>6, <1>7, <1>8, <1>9, <1>10, CodeLeft, SMTT(30), ZenonT(30)

LEMMA CodeGenAIExit ==
  ASSUME CodeInv, NEW t \in Task, NEW completes \in BOOLEAN, CI!GenAIExit(t, completes)
  PROVE  CodeInv'
<1>1. CodeTypes /\ fw.stack[t] # <<>> /\ fw' = CI!Popped(t)
  BY DEF CodeInv, CI!GenAIExit, CI!InFrame
<1>2. PICK f \in Frame : f = CI!Top(t)
  BY <1>1, CodeTop
<1>3. f.kind = "genai" /\ FrameOpen(f)
  BY <1>1, <1>2, CodeTop DEF CI!GenAIExit, CI!InFrame
<1>4. PICK c \in Place : CI!Ctx(t) = CI!Within(c, f) /\ f.saved = c
  BY <1>1, <1>2, <1>3, CodeTop
<1>5. /\ CI!Ctx(t).span = f.span /\ CI!Ctx(t).parent = c.span
      /\ c.span \in Nat /\ f.span \in Nat /\ f.run \in Nat
  BY <1>3, <1>4, WithinFrame, PlaceFields, FrameKinds
<1>6. /\ log' \in Seq(CodeEvent) /\ edges' \in Seq(LogEdge) /\ CodeLog' /\ LogGrows
      /\ \A g : FrameOpen(g) /\ g.span # f.span => FrameOpen(g)'
  <2>1. CASE ~ completes
    BY <2>1, CodeSilent DEF CI!GenAIExit
  <2>2. CASE completes
    <3>1. PICK e : e = [run |-> f.run, part |-> "end", span |-> f.span, parent |-> c.span,
                        owner |-> "genai"]
      OBVIOUS
    <3>2. e \in CodeEvent /\ e.part = "end" /\ e.span = f.span /\ e.run = f.run
      BY <1>5, <3>1 DEF CodeEvent, EventIn
    <3>3. Record(e) /\ edges' = edges \o Edge(f.span, NextId, "DERIVED_FROM")
      BY <1>2, <1>5, <2>2, <3>1, CodeWrites, CodeRecords DEF CI!GenAIExit
    <3>4. log[f.span].run = e.run
      BY <1>3, <3>2 DEF FrameOpen
    <3>5. QED
      BY <1>3, <3>2, <3>3, <3>4, CodeSpanEnds
  <2>3. QED
    BY <2>1, <2>2
<1>7. mem' = [mem EXCEPT !.ctx[t] = c]
  BY <1>2, <1>3, <1>4, OutsideFrame DEF CI!GenAIExit, CI!SetCtx
<1>8. \A d \in Place : CI!Top(t).saved = d => mem'.ctx[t] = d
  BY <1>1, <1>2, <1>4, <1>7, CodeSetCtx
<1>9. /\ fw' \in Tasks /\ fw'.stack = [fw.stack EXCEPT ![t] = CI!Front(fw.stack[t])]
      /\ fw'.base = fw.base /\ fw'.tasks = fw.tasks
  BY <1>1, CodePop
<1>10. /\ mem' \in Places /\ mem'.paused = mem.paused
      /\ \A u \in Task \ {t} : mem'.ctx[u] = mem.ctx[u]
  BY <1>1, <1>7, CodeSetCtx
<1>11. QED
  BY <1>1, <1>2, <1>3, <1>6, <1>7, <1>8, <1>9, <1>10, CodeLeft, SMTT(30), ZenonT(30)

LEMMA CodePoint ==
  ASSUME CodeInv, NEW t \in Task, CI!Point(t)
  PROVE  CodeInv'
<1>1. /\ CodeTypes /\ CodeLog /\ CodeOpen /\ \A u \in Task : Nested(u)
      /\ UNCHANGED <<edges, fw, mem>>
  BY DEF CodeInv, CI!Point
<1>2. PICK e : e = [run |-> CI!Ctx(t).run, part |-> "point", span |-> CI!Ctx(t).span,
                    parent |-> CI!Ctx(t).parent, owner |-> "point"]
  OBVIOUS
<1>3. e \in CodeEvent /\ e.part = "point"
  BY <1>1, <1>2, NestedNow, PlaceFields DEF CodeEvent, EventIn
<1>4. Record(e)
  BY <1>2, CodeWrites, CodeRecords DEF CI!Point
<1>5. CodeLog' /\ LogGrows /\ log' \in Seq(CodeEvent)
  BY <1>1, <1>3, <1>4, CodeUnlinked, Logged DEF CodeTypes
<1>6. \A g : FrameOpen(g) => FrameOpen(g)'
  BY <1>1, <1>3, <1>4, OpenKept
<1>7. CodeOpen'
  <2>1. \A u \in Task : \A k, g : Holds(u, k, g)' <=> Holds(u, k, g)
    BY <1>1 DEF Holds
  <2>2. QED
    BY <1>1, <1>6, <2>1 DEF CodeOpen
<1>8. \A u \in Task : Nested(u)'
  BY <1>1, <1>5, NestedKept
<1>9. QED
  BY <1>1, <1>5, <1>7, <1>8 DEF CodeInv, CodeTypes

LEMMA CodeSpawn ==
  ASSUME CodeInv, NEW t \in Task, NEW u \in Task, CI!Spawn(t, u)
  PROVE  CodeInv'
<1>1. /\ CodeTypes /\ CodeOpen /\ \A v \in Task : Nested(v)
      /\ UNCHANGED <<log, edges>> /\ CI!Runs(t) /\ u \notin fw.tasks
  BY DEF CodeInv, CI!Spawn
<1>2. PICK c \in Place : c = CI!Ctx(t) /\ StepKnown(c) /\ c.span = c.step
  BY <1>1, NestedNow DEF CI!Runs
<1>3. /\ log' \in Seq(CodeEvent) /\ edges' \in Seq(LogEdge) /\ CodeLog' /\ LogGrows
      /\ \A g : FrameOpen(g) => FrameOpen(g)'
  BY <1>1, CodeSilent
<1>4. /\ fw' \in Tasks /\ fw'.stack = fw.stack /\ fw'.base[u] = c
      /\ fw'.tasks = fw.tasks \cup {u}
      /\ \A v \in Task \ {u} : fw'.base[v] = fw.base[v]
  <2>1. fw' = [[fw EXCEPT !.tasks = fw.tasks \cup {u}] EXCEPT !.base[u] = c]
    BY <1>2 DEF CI!Spawn
  <2>2. QED
    BY <1>1, <2>1 DEF CodeTypes, Tasks
<1>5. /\ mem' \in Places /\ mem'.ctx[u] = c /\ mem'.paused = mem.paused
      /\ \A v \in Task \ {u} : mem'.ctx[v] = mem.ctx[v]
  <2>1. mem' = [mem EXCEPT !.ctx[u] = c]
    BY <1>2 DEF CI!Spawn, CI!SetCtx
  <2>2. QED
    BY <1>1, <2>1, CodeSetCtx
<1>6. CodeTypes'
  BY <1>3, <1>4, <1>5 DEF CodeTypes
<1>7. CodeOpen'
  <2>1. \A v \in Task : \A k, g : Holds(v, k, g)' <=> Holds(v, k, g)
    BY <1>4 DEF Holds
  <2>2. QED
    BY <1>1, <1>3, <1>5, <2>1 DEF CodeOpen
<1>8. Nested(u)'
  <2>1. fw'.stack[u] = <<>>
    BY <1>1, <1>4 DEF Nested
  <2>2. QED
    BY <1>2, <1>3, <1>4, <1>5, <2>1, NestedSpawned
<1>9. ASSUME NEW v \in Task \ {u} PROVE Nested(v)'
  BY <1>1, <1>3, <1>4, <1>5, NestedKept
<1>10. QED
  BY <1>3, <1>6, <1>7, <1>8, <1>9 DEF CodeInv

LEMMA CodeAlways == CI!Spec => []CodeInv
<1>1. CodeInv /\ [CI!Next]_(CI!logVars) => CodeInv'
  <2> SUFFICES ASSUME CodeInv, [CI!Next]_logVars PROVE CodeInv'
    BY DEF CI!logVars, logVars
  <2>1. CASE UNCHANGED logVars
    <3>1. UNCHANGED <<log, edges, fw, mem>>
      BY <2>1 DEF logVars
    <3>2. /\ CodeTypes /\ CodeOpen /\ \A u \in Task : Nested(u)
      BY DEF CodeInv
    <3>3. /\ log' \in Seq(CodeEvent) /\ edges' \in Seq(LogEdge) /\ CodeLog' /\ LogGrows
          /\ \A g : FrameOpen(g) => FrameOpen(g)'
      BY <3>1, CodeSilent
    <3>4. CodeOpen'
      <4>1. \A v \in Task : \A k, g : Holds(v, k, g)' <=> Holds(v, k, g)
        BY <3>1 DEF Holds
      <4>2. QED
        BY <3>1, <3>2, <3>3, <4>1 DEF CodeOpen
    <3>5. \A v \in Task : Nested(v)'
      BY <3>1, <3>2, <3>3, NestedKept
    <3>6. QED
      BY <3>1, <3>2, <3>3, <3>4, <3>5 DEF CodeInv, CodeTypes
  <2>2. ASSUME NEW t \in Task,
               CI!EnterRun(t) \/ CI!LeaveRun(t) \/ CI!Call(t) \/ CI!Return(t) \/ CI!Point(t)
        PROVE  CodeInv'
    BY <2>2, CodeEnterRun, CodeLeaveRun, CodeCall, CodeReturn, CodePoint
  <2>3. ASSUME NEW t \in Task, CI!GenStart(t) \/ CI!Yield(t) \/ CI!GenEnd(t) \/ CI!FacadeEnter(t)
        PROVE  CodeInv'
    BY <2>3, CodeGenStart, CodeYield, CodeGenEnd, CodeFacadeEnter
  <2>4. ASSUME NEW t \in Task, NEW g \in mem.paused, CI!Resume(t, g) \/ CI!GenClose(t, g)
        PROVE  CodeInv'
    BY <2>4, CodeResume, CodeGenClose
  <2>5. ASSUME NEW t \in Task, NEW completes \in BOOLEAN,
               CI!FacadeExit(t, completes) \/ CI!GenAIExit(t, completes)
        PROVE  CodeInv'
    BY <2>5, CodeFacadeExit, CodeGenAIExit
  <2>6. ASSUME NEW t \in Task, NEW run \in 1 .. fw.runs, CI!GenAIEnter(t, run)
        PROVE  CodeInv'
    <3>1. run \in Nat
      BY DEF CodeInv, CodeTypes, Tasks
    <3>2. QED
      BY <2>6, <3>1, CodeGenAIEnter
  <2>7. ASSUME NEW t \in Task, NEW u \in Task, CI!Spawn(t, u) PROVE CodeInv'
    BY <2>7, CodeSpawn
  <2>8. QED
    BY <2>1, <2>2, <2>3, <2>4, <2>5, <2>6, <2>7 DEF CI!Next
<1>2. QED
  BY <1>1, CodeInitial, PTL DEF CI!Spec

(* No edge joins anything but a span's own start and end, or a step and    *)
(* one inside it, whatever task a generator was resumed in.                *)
THEOREM InstrumentationJoins == CI!Spec => []EdgesJoinSpans
<1>1. CodeInv => EdgesJoinSpans
  BY DEF CodeInv, CodeLog, EndsLogged, EdgesJoinSpans
<1>2. QED
  BY <1>1, CodeAlways, PTL

(* A generator that is resumed, ended or closed by several tasks, and an   *)
(* exit that follows an exception, complete a span at most once.           *)
THEOREM InstrumentationCompletes == CI!Spec => []OneCompletion
<1>1. CodeInv => OneCompletion
  BY DEF CodeInv, CodeLog, EndsLinked, OneCompletion
<1>2. QED
  BY <1>1, CodeAlways, PTL

(* A completion is linked to its start, once, also from another run, and a *)
(* step to the step around it; and only a generator is ever completed in   *)
(* another run than the one it was started in.                             *)
THEOREM InstrumentationLineage == CI!Spec => [](CI!Complete /\ CI!Attributed)
<1>1. ASSUME CodeInv PROVE CI!Complete
  <2> SUFFICES ASSUME NEW i \in DOMAIN log, NEW j \in DOMAIN log
               PROVE  /\ log[i].part = "start" /\ log[j].part = "end" /\ log[i].span = log[j].span
                           => CI!Times(i, j, "DERIVED_FROM") = 1
                      /\ CI!IsStep(i) /\ CI!IsStep(j) => CI!InformedOnce(i, j)
    BY DEF CI!Complete
  <2>1. edges \in Seq(LogEdge) /\ IsInjective(edges) /\ StartsLinked /\ EndsLinked
    BY <1>1 DEF CodeInv, CodeTypes, CodeLog
  <2>2. i \in Nat \ {0}
    BY <1>1, LenProperties DEF CodeInv, CodeTypes
  <2>3. ASSUME log[i].part = "start", log[j].part = "end", log[i].span = log[j].span
        PROVE  Times(i, j, "DERIVED_FROM") = 1
    <3>1. Linked(i, j, "DERIVED_FROM")
      BY <2>1, <2>3 DEF StartsLinked, EndsLinked
    <3>2. QED
      BY <2>1, <3>1, LinkedOnce
  <2>4. ASSUME CI!IsStep(i), CI!IsStep(j), IsChildOf(j, i)
        PROVE  Times(i, j, "INFORMED") = 1
    <3>1. log[i].span = i /\ log[j].parent = i /\ log[j].owner # "genai" /\ log[j].part = "start"
      BY <2>1, <2>4 DEF StartsLinked, IsChildOf, CI!IsStep
    <3>2. Linked(i, j, "INFORMED")
      BY <2>1, <2>2, <3>1 DEF StartsLinked
    <3>3. QED
      BY <2>1, <3>2, LinkedOnce
  <2>5. \A S : CI!Cardinality(S) = Cardinality(S)
    BY DEF CI!Cardinality, Cardinality
  <2>6. QED
    BY <2>3, <2>4, <2>5 DEF CI!InformedOnce, CI!IsChildOf, IsChildOf, CI!Times, Times
<1>2. ASSUME CodeInv PROVE CI!Attributed
  <2> SUFFICES ASSUME NEW i \in DOMAIN log, NEW j \in DOMAIN log, log[i].span = log[j].span,
                      log[i].part = "start", log[j].part = "end"
               PROVE  log[i].owner = "gen" \/ log[i].run = log[j].run
    BY DEF CI!Attributed
  <2>1. StartsLinked /\ EndsLinked
    BY <1>2 DEF CodeInv, CodeLog
  <2>2. log[j].span = i
    BY <2>1 DEF StartsLinked
  <2>3. QED
    BY <2>1, <2>2 DEF EndsLinked
<1>3. CodeInv => CI!Complete /\ CI!Attributed
  BY <1>1, <1>2
<1>4. QED
  BY <1>3, CodeAlways, PTL

-----------------------------------------------------------------------------
(* A fold over a stack is what the contexts of its frames are *)

(* One step of the fold: the last frame, inside the fold of the others.    *)
Wrap(fold, b, s, S) ==
  IF S = {} THEN b ELSE CI!Within(fold[S \ {CI!Max(S)}], s[CI!Max(S)])

Wraps(b, s) ==
  {fold \in [SUBSET (DOMAIN s) -> Place] : \A S \in SUBSET (DOMAIN s) : fold[S] = Wrap(fold, b, s, S)}

LEMMA LastOf ==
  ASSUME NEW n \in Nat, NEW S \in SUBSET (1 .. n), S # {}
  PROVE  CI!Max(S) \in S /\ \A x \in S : CI!Max(S) >= x
<1> DEFINE U == {m \in Nat : \A T \in SUBSET (1 .. m) : T # {} => \E x \in T : \A y \in T : x >= y}
<1>1. 0 \in U
  <2>1. 1 .. 0 = {}
    OBVIOUS
  <2>2. QED
    BY <2>1
<1>2. ASSUME NEW m \in U PROVE m + 1 \in U
  <2> SUFFICES ASSUME NEW T \in SUBSET (1 .. m + 1), T # {}
               PROVE  \E x \in T : \A y \in T : x >= y
    OBVIOUS
  <2>1. CASE m + 1 \in T
    BY <2>1
  <2>2. CASE m + 1 \notin T
    <3>1. T \in SUBSET (1 .. m)
      BY <2>2
    <3>2. QED
      BY <3>1
  <2>3. QED
    BY <2>1, <2>2
<1>3. U = Nat
  <2> HIDE DEF U
  <2>1. U \in SUBSET Nat
    BY DEF U
  <2>2. QED
    BY <1>1, <1>2, <2>1, SetInduction
<1>4. \E x \in S : \A y \in S : x >= y
  BY <1>3
<1>5. QED
  BY <1>4 DEF CI!Max

LEMMA FoldExists ==
  ASSUME NEW b \in Place, NEW s \in Seq(Frame)
  PROVE  Wraps(b, s) # {}
<1> DEFINE D == DOMAIN s
           Good(n) == \E fold \in [SUBSET D -> Place] :
                        \A S \in SUBSET D : Cardinality(S) <= n => fold[S] = Wrap(fold, b, s, S)
           U == {n \in Nat : Good(n)}
<1>1. D = 1 .. Len(s) /\ Len(s) \in Nat /\ IsFiniteSet(D) /\ \A k \in D : s[k] \in Frame
  BY LenProperties, ElementOfSeq, FS_Interval
<1>2. \A S \in SUBSET D : IsFiniteSet(S) /\ Cardinality(S) \in Nat /\ Cardinality(S) <= Cardinality(D)
  BY <1>1, FS_Subset, FS_CardinalityType
<1>3. ASSUME NEW S \in SUBSET D, S # {}
      PROVE  /\ CI!Max(S) \in S /\ S \ {CI!Max(S)} \in SUBSET D
             /\ Cardinality(S \ {CI!Max(S)}) = Cardinality(S) - 1
  <2>1. CI!Max(S) \in S
    BY <1>1, <1>3, LastOf
  <2>2. QED
    BY <1>2, <2>1, FS_RemoveElement
<1>4. 0 \in U
  <2> DEFINE one == [S \in SUBSET D |-> b]
  <2>1. one \in [SUBSET D -> Place]
    OBVIOUS
  <2>2. \A S \in SUBSET D : Cardinality(S) <= 0 => S = {}
    BY <1>2, FS_EmptySet
  <2>3. \A S \in SUBSET D : Cardinality(S) <= 0 => one[S] = Wrap(one, b, s, S)
    BY <2>2 DEF Wrap
  <2>4. QED
    BY <2>1, <2>3
<1>5. ASSUME NEW n \in U PROVE n + 1 \in U
  <2>1. PICK fold \in [SUBSET D -> Place] :
          \A S \in SUBSET D : Cardinality(S) <= n => fold[S] = Wrap(fold, b, s, S)
    OBVIOUS
  <2>2. ASSUME NEW S \in SUBSET D PROVE Wrap(fold, b, s, S) \in Place
    <3>1. CASE S = {}
      BY <3>1 DEF Wrap
    <3>2. CASE S # {}
      <4>1. fold[S \ {CI!Max(S)}] \in Place /\ s[CI!Max(S)] \in Frame
        BY <1>1, <1>3, <3>2
      <4>2. QED
        BY <3>2, <4>1, WithinFrame DEF Wrap
    <3>3. QED
      BY <3>1, <3>2
  <2> DEFINE new == [S \in SUBSET D |-> IF Cardinality(S) <= n THEN fold[S] ELSE Wrap(fold, b, s, S)]
  <2>3. new \in [SUBSET D -> Place]
    BY <2>2
  <2>4. ASSUME NEW S \in SUBSET D, Cardinality(S) <= n + 1 PROVE new[S] = Wrap(new, b, s, S)
    <3>1. new[S] = Wrap(fold, b, s, S)
      BY <2>1
    <3>2. CASE S = {}
      BY <3>1, <3>2 DEF Wrap
    <3>3. CASE S # {}
      <4>1. PICK R \in SUBSET D : R = S \ {CI!Max(S)} /\ Cardinality(R) = Cardinality(S) - 1
        BY <1>3, <3>3
      <4>2. Cardinality(R) <= n
        BY <1>2, <2>4, <4>1
      <4>3. new[R] = fold[R]
        BY <4>2
      <4> HIDE DEF new
      <4>4. Wrap(new, b, s, S) = CI!Within(new[R], s[CI!Max(S)])
            /\ Wrap(fold, b, s, S) = CI!Within(fold[R], s[CI!Max(S)])
        BY <3>3, <4>1 DEF Wrap
      <4>5. QED
        BY <3>1, <4>3, <4>4
    <3>4. QED
      BY <3>2, <3>3
  <2> HIDE DEF new
  <2>5. QED
    BY <2>3, <2>4
<1>6. U = Nat
  <2> HIDE DEF U
  <2>1. U \in SUBSET Nat
    BY DEF U
  <2>2. QED
    BY <1>4, <1>5, <2>1, SetInduction
<1>7. Cardinality(D) \in Nat
  BY <1>1, FS_CardinalityType
<1>8. Good(Cardinality(D))
  BY <1>6, <1>7
<1>9. QED
  BY <1>2, <1>8 DEF Wraps

(* The fold of the community modules is such a fold.                       *)
LEMMA FoldIsWrapped ==
  ASSUME NEW b \in Place, NEW s \in Seq(Frame)
  PROVE  \E fold : /\ \A S \in SUBSET (DOMAIN s) : fold[S] = Wrap(fold, b, s, S)
                   /\ CI!FoldLeft(CI!Within, b, s) = fold[DOMAIN s]
<1> DEFINE Solves(k) ==
             k = [S \in SUBSET (DOMAIN s) |->
                    IF S = {} THEN b ELSE CI!Within(k[S \ {CI!Max(S)}], s[CI!Max(S)])]
           chosen == CHOOSE k : Solves(k)
<1>1. CI!FoldLeft(CI!Within, b, s) = chosen[DOMAIN s]
  BY DEF CI!FoldLeft, CI!MapThenFoldSet
<1>2. PICK fold \in Wraps(b, s) : TRUE
  BY FoldExists
<1>3. Solves(fold)
  BY <1>2 DEF Wraps, Wrap
<1>4. Solves(chosen)
  BY <1>3
<1>5. \A S \in SUBSET (DOMAIN s) : chosen[S] = Wrap(chosen, b, s, S)
  BY <1>4, ZenonT(60) DEF Wrap
<1> HIDE DEF chosen
<1>6. QED
  BY <1>1, <1>5

(* The fold over the whole stack is the context inside its last frame.     *)
LEMMA FoldIsNested ==
  ASSUME NEW b \in Place, NEW s \in Seq(Frame), NEW fold,
         \A S \in SUBSET (DOMAIN s) : fold[S] = Wrap(fold, b, s, S),
         NEW at, at[0] = b, \A k \in 1 .. Len(s) : at[k] = CI!Within(at[k - 1], s[k])
  PROVE  fold[DOMAIN s] = at[Len(s)]
<1> DEFINE U == {k \in Nat : k <= Len(s) => fold[1 .. k] = at[k]}
<1>1. DOMAIN s = 1 .. Len(s) /\ Len(s) \in Nat
  BY LenProperties
<1>2. 0 \in U
  <2>1. 1 .. 0 = {} /\ {} \in SUBSET (DOMAIN s)
    OBVIOUS
  <2>2. fold[{}] = b
    BY <2>1 DEF Wrap
  <2>3. QED
    BY <2>1, <2>2
<1>3. ASSUME NEW k \in U PROVE k + 1 \in U
  <2> SUFFICES ASSUME k + 1 <= Len(s) PROVE fold[1 .. k + 1] = at[k + 1]
    OBVIOUS
  <2>1. PICK S : S = 1 .. k + 1
    OBVIOUS
  <2>2. S \in SUBSET (1 .. Len(s)) /\ k + 1 \in S /\ S # {}
    <3>1. k \in Nat /\ Len(s) \in Nat
      BY <1>1
    <3> HIDE DEF U
    <3>2. \A x \in 1 .. k + 1 : x \in 1 .. Len(s)
      BY <3>1
    <3>3. k + 1 \in 1 .. k + 1
      BY <3>1
    <3>4. QED
      BY <2>1, <3>2, <3>3
  <2>3. CI!Max(S) \in S /\ CI!Max(S) >= k + 1
    BY <1>1, <2>2, LastOf
  <2>4. CI!Max(S) = k + 1
    BY <2>1, <2>3
  <2>5. S \ {k + 1} = 1 .. k
    BY <2>1
  <2>6. fold[S] = CI!Within(fold[1 .. k], s[k + 1])
    BY <1>1, <2>2, <2>4, <2>5 DEF Wrap
  <2>7. fold[1 .. k] = at[k]
    BY <1>1
  <2>8. at[k + 1] = CI!Within(at[k], s[k + 1])
    <3>1. k + 1 \in 1 .. Len(s) /\ (k + 1) - 1 = k
      BY <1>1
    <3>2. QED
      BY <3>1
  <2>9. QED
    BY <2>1, <2>6, <2>7, <2>8
<1>4. U = Nat
  <2> HIDE DEF U
  <2>1. U \in SUBSET Nat
    BY DEF U
  <2>2. QED
    BY <1>2, <1>3, <2>1, SetInduction
<1>5. QED
  BY <1>1, <1>4

(* Whatever generators were resumed, left or ended in a task, and whatever *)
(* runs, calls and blocks were left, its context is that of its creation   *)
(* inside the frames that are still open.                                  *)
THEOREM InstrumentationCurrent == CI!Spec => []CI!Current
<1>1. ASSUME CodeInv PROVE CI!Current
  <2> SUFFICES ASSUME NEW t \in Task
               PROVE  CI!Ctx(t) = CI!FoldLeft(CI!Within, fw.base[t], fw.stack[t])
    BY DEF CI!Current
  <2>1. PICK at \in [Nat -> Place] : NestedBy(t, at)
    BY <1>1 DEF CodeInv, Nested
  <2>2. PICK b \in Place, s \in Seq(Frame) : b = fw.base[t] /\ s = fw.stack[t]
    BY <1>1 DEF CodeInv, CodeTypes, Tasks
  <2>3. /\ at[0] = b /\ at[Len(s)] = CI!Ctx(t)
        /\ \A k \in 1 .. Len(s) : at[k] = CI!Within(at[k - 1], s[k])
    BY <2>1, <2>2 DEF NestedBy
  <2>4. CI!FoldLeft(CI!Within, b, s) = at[Len(s)]
    <3>1. PICK fold : /\ \A S \in SUBSET (DOMAIN s) : fold[S] = Wrap(fold, b, s, S)
                      /\ CI!FoldLeft(CI!Within, b, s) = fold[DOMAIN s]
      BY FoldIsWrapped
    <3>2. fold[DOMAIN s] = at[Len(s)]
      BY <2>3, <3>1, FoldIsNested
    <3>3. QED
      BY <3>1, <3>2
  <2>5. QED
    BY <2>2, <2>3, <2>4
<1>2. QED
  BY <1>1, CodeAlways, PTL
=============================================================================
