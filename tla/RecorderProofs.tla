---------------------------- MODULE RecorderProofs ----------------------------
(***************************************************************************)
(* Proofs about the recording adapters, each for every set of nodes,       *)
(* traces, spans, operations or kickoffs and every order of the callbacks  *)
(* its framework may make.  What an adapter owes: an edge joins what it    *)
(* says (EdgesJoinSpans), the links are there, none of them twice, and,    *)
(* where the adapter has to see to it, a span is completed once            *)
(* (OneCompletion).                                                        *)
(***************************************************************************)
EXTENDS RunLog, SequenceFacts, FiniteSetTheorems

CONSTANTS Node, NoNode, MaxPoints

LC == INSTANCE LangChain

CONSTANTS Op, RootMarker, MaxStray

LI == INSTANCE LlamaIndex

CONSTANTS Trace, Span, NoSpan, MaxRepeats, MaxSpans

OA == INSTANCE OpenAIAgents

-----------------------------------------------------------------------------
(* What a log and its edges do when they grow *)

LogEdge == [source : Nat, target : Nat, type : {"DERIVED_FROM", "INFORMED"}]

EventIn(R, S, P, O) ==
  [run : R, part : {"start", "end", "point"}, span : S, parent : P, owner : O]

(* The two ends of every edge were recorded before it, and it joins them.  *)
EndsLogged ==
  \A e \in ToSet(edges) : e.source \in DOMAIN log /\ e.target \in DOMAIN log /\ JoinsSpans(e)

Linked(i, j, type) == [source |-> i, target |-> j, type |-> type] \in ToSet(edges)

LEMMA Logged ==
  ASSUME NEW S, log \in Seq(S), NEW e \in S, Record(e)
  PROVE  /\ log' \in Seq(S) /\ NextId \in Nat \ {0}
         /\ DOMAIN log = 1 .. Len(log) /\ Len(log) \in Nat
         /\ DOMAIN log' = DOMAIN log \cup {NextId} /\ NextId \notin DOMAIN log
         /\ \A i \in DOMAIN log : i < NextId /\ log'[i] = log[i]
         /\ log'[NextId] = e
<1>1. /\ log' \in Seq(S) /\ Len(log') = Len(log) + 1
      /\ \A i \in 1 .. Len(log) : log'[i] = log[i]
      /\ log'[Len(log) + 1] = e
  BY AppendProperties DEF Record
<1>2. /\ Len(log) \in Nat /\ DOMAIN log = 1 .. Len(log)
      /\ DOMAIN log' = 1 .. Len(log')
  BY <1>1, LenProperties
<1>3. QED
  BY <1>1, <1>2 DEF NextId

LEMMA EdgeFacts ==
  ASSUME NEW i \in Nat, NEW j \in Nat, NEW type \in {"DERIVED_FROM", "INFORMED"}
  PROVE  /\ Edge(i, j, type) \in Seq(LogEdge) /\ IsInjective(Edge(i, j, type))
         /\ ToSet(Edge(i, j, type)) =
              IF i = 0 \/ j = 0 \/ i = j THEN {}
              ELSE {[source |-> i, target |-> j, type |-> type]}
<1> DEFINE e == [source |-> i, target |-> j, type |-> type]
<1>1. e \in LogEdge
  BY DEF LogEdge
<1>2. /\ <<e>> \in Seq(LogEdge) /\ IsInjective(<<e>>) /\ ToSet(<<e>>) = {e}
      /\ <<>> \in Seq(LogEdge) /\ IsInjective(<<>>) /\ ToSet(<<>>) = {}
  <2> HIDE DEF e
  <2>1. QED
    BY <1>1 DEF IsInjective, ToSet
<1>3. Edge(i, j, type) = IF i = 0 \/ j = 0 \/ i = j THEN <<>> ELSE <<e>>
  BY DEF Edge, NoId
<1>4. QED
  BY <1>2, <1>3

LEMMA NoEdges == <<>> \in Seq(LogEdge) /\ IsInjective(<<>>) /\ ToSet(<<>>) = {}
  BY DEF IsInjective, ToSet

(* New edges join at the end, each once and none that was there.           *)
LEMMA EdgesJoin ==
  ASSUME NEW s \in Seq(LogEdge), IsInjective(s), NEW t \in Seq(LogEdge), IsInjective(t),
         ToSet(s) \cap ToSet(t) = {}
  PROVE  /\ s \o t \in Seq(LogEdge) /\ IsInjective(s \o t)
         /\ ToSet(s \o t) = ToSet(s) \cup ToSet(t)
<1> DEFINE st == s \o t
<1>1. /\ st \in Seq(LogEdge) /\ Len(st) = Len(s) + Len(t)
      /\ \A i \in 1 .. Len(s) + Len(t) : st[i] = IF i <= Len(s) THEN s[i] ELSE t[i - Len(s)]
      /\ Len(s) \in Nat /\ Len(t) \in Nat
      /\ DOMAIN s = 1 .. Len(s) /\ DOMAIN t = 1 .. Len(t) /\ DOMAIN st = 1 .. Len(st)
  <2>1. /\ st \in Seq(LogEdge) /\ Len(st) = Len(s) + Len(t)
        /\ \A i \in 1 .. Len(s) + Len(t) : st[i] = IF i <= Len(s) THEN s[i] ELSE t[i - Len(s)]
    BY ConcatProperties
  <2> HIDE DEF st
  <2>2. QED
    BY <2>1, LenProperties
<1>2. Range(st) = Range(s) \cup Range(t)
  BY RangeConcatenation
<1>3. ToSet(st) = Range(st) /\ ToSet(s) = Range(s) /\ ToSet(t) = Range(t)
  <2> HIDE DEF st
  <2>1. QED
    BY DEF ToSet, Range
<1> HIDE DEF st
<1>4. /\ \A i \in 1 .. Len(s) : s[i] \in ToSet(s)
      /\ \A i \in 1 .. Len(t) : t[i] \in ToSet(t)
  BY <1>1 DEF ToSet
<1>5. ASSUME NEW i \in DOMAIN st, NEW j \in DOMAIN st, st[i] = st[j]
      PROVE  i = j
  <2>1. CASE i <= Len(s) /\ j <= Len(s)
    <3>1. i \in 1 .. Len(s) /\ j \in 1 .. Len(s) /\ s[i] = s[j]
      BY <1>1, <1>5, <2>1
    <3>2. QED
      BY <1>1, <3>1 DEF IsInjective
  <2>2. CASE i > Len(s) /\ j > Len(s)
    <3>1. /\ i - Len(s) \in 1 .. Len(t) /\ j - Len(s) \in 1 .. Len(t)
          /\ t[i - Len(s)] = t[j - Len(s)]
      BY <1>1, <1>5, <2>2
    <3>2. i - Len(s) = j - Len(s)
      BY <1>1, <3>1 DEF IsInjective
    <3>3. i \in Int /\ j \in Int /\ Len(s) \in Int
      BY <1>1
    <3>4. QED
      BY <3>2, <3>3
  <2>3. CASE i <= Len(s) /\ j > Len(s)
    <3>1. i \in 1 .. Len(s) /\ j - Len(s) \in 1 .. Len(t) /\ s[i] = t[j - Len(s)]
      BY <1>1, <1>5, <2>3
    <3>2. QED
      BY <1>4, <3>1
  <2>4. CASE i > Len(s) /\ j <= Len(s)
    <3>1. j \in 1 .. Len(s) /\ i - Len(s) \in 1 .. Len(t) /\ s[j] = t[i - Len(s)]
      BY <1>1, <1>5, <2>4
    <3>2. QED
      BY <1>4, <3>1
  <2>5. i \in Int /\ j \in Int /\ Len(s) \in Int
    BY <1>1
  <2>6. QED
    BY <2>1, <2>2, <2>3, <2>4, <2>5
<1>6. QED
  BY <1>1, <1>2, <1>3, <1>5 DEF st, IsInjective

(* An edge that is there is there once.                                    *)
LEMMA LinkedOnce ==
  ASSUME edges \in Seq(LogEdge), IsInjective(edges), NEW i, NEW j, NEW type,
         Linked(i, j, type)
  PROVE  Times(i, j, type) = 1
<1> DEFINE e == [source |-> i, target |-> j, type |-> type]
<1>1. PICK k \in DOMAIN edges : edges[k] = e
  BY DEF Linked, ToSet
<1> HIDE DEF e
<1>2. {m \in DOMAIN edges : edges[m] = e} = {k}
  BY <1>1 DEF IsInjective
<1>3. QED
  BY <1>2, FS_Singleton DEF Times, e

(* Recording disturbs no edge that was made before.                        *)
LEMMA EndsStayLogged ==
  ASSUME NEW S, log \in Seq(S), NEW e \in S, Record(e), EndsLogged,
         NEW x \in ToSet(edges)
  PROVE  x.source \in DOMAIN log' /\ x.target \in DOMAIN log' /\ JoinsSpans(x)'
<1>1. x.source \in DOMAIN log /\ x.target \in DOMAIN log /\ JoinsSpans(x)
  BY DEF EndsLogged
<1>2. /\ DOMAIN log' = DOMAIN log \cup {NextId}
      /\ \A i \in DOMAIN log : log'[i] = log[i]
  BY Logged
<1>3. log'[x.source] = log[x.source] /\ log'[x.target] = log[x.target]
  BY <1>1, <1>2
<1>4. QED
  BY <1>1, <1>2, <1>3 DEF JoinsSpans, Derives, Informs

(* An event that is recorded may join with one edge from an earlier start: *)
(* no edge did so yet.                                                     *)
LEMMA LinkAdded ==
  ASSUME NEW S, log \in Seq(S), NEW e \in S, Record(e),
         EndsLogged, edges \in Seq(LogEdge), IsInjective(edges),
         NEW i \in DOMAIN log, log[i].part = "start",
         NEW type \in {"DERIVED_FROM", "INFORMED"},
         IF type = "DERIVED_FROM" THEN e.part = "end" /\ log[i].span = e.span
                                  ELSE e.part = "start" /\ log[i].span = e.parent,
         edges' = edges \o Edge(i, NextId, type)
  PROVE  /\ edges' \in Seq(LogEdge) /\ IsInjective(edges') /\ EndsLogged'
         /\ ToSet(edges') = ToSet(edges) \cup
              {[source |-> i, target |-> NextId, type |-> type]}
<1> DEFINE x == [source |-> i, target |-> NextId, type |-> type]
<1>1. /\ NextId \in Nat \ {0} /\ DOMAIN log = 1 .. Len(log) /\ Len(log) \in Nat
      /\ DOMAIN log' = DOMAIN log \cup {NextId} /\ NextId \notin DOMAIN log
      /\ \A k \in DOMAIN log : k < NextId /\ log'[k] = log[k]
      /\ log'[NextId] = e
  BY Logged
<1>2. i \in Nat \ {0} /\ i # NextId
  BY <1>1
<1>3. /\ Edge(i, NextId, type) \in Seq(LogEdge)
      /\ IsInjective(Edge(i, NextId, type))
      /\ ToSet(Edge(i, NextId, type)) = {x}
  BY <1>1, <1>2, EdgeFacts
<1>4. x \notin ToSet(edges)
  <2>1. x.target = NextId
    OBVIOUS
  <2>2. QED
    BY <1>1, <2>1 DEF EndsLogged
<1>5. /\ edges' \in Seq(LogEdge) /\ IsInjective(edges')
      /\ ToSet(edges') = ToSet(edges) \cup {x}
  BY <1>3, <1>4, EdgesJoin
<1>6. EndsLogged'
  <2> SUFFICES ASSUME NEW y \in ToSet(edges')
               PROVE  y.source \in DOMAIN log' /\ y.target \in DOMAIN log' /\ JoinsSpans(y)'
    BY DEF EndsLogged
  <2>1. CASE y \in ToSet(edges)
    BY <2>1, EndsStayLogged
  <2>2. CASE y = x
    <3>1. y.source = i /\ y.target = NextId /\ y.type = type
      BY <2>2
    <3>2. log'[i] = log[i] /\ log'[NextId] = e /\ i \in DOMAIN log' /\ NextId \in DOMAIN log'
      BY <1>1
    <3>3. log'[y.source] = log[i] /\ log'[y.target] = e
      BY <3>1, <3>2
    <3>4. JoinsSpans(y)'
      BY <3>1, <3>3 DEF JoinsSpans, Derives, Informs
    <3>5. QED
      BY <3>1, <3>2, <3>4
  <2>3. QED
    BY <1>5, <2>1, <2>2
<1>7. QED
  BY <1>5, <1>6

-----------------------------------------------------------------------------
(* LangChain: callbacks of several nodes come in between each other *)

ChainPhase == {"idle", "starting", "open", "finishing", "done"}

ChainEvent == EventIn({"run"}, Node, Node \cup {NoNode}, Node)

ChainTypes ==
  /\ log \in Seq(ChainEvent) /\ edges \in Seq(LogEdge)
  /\ fw \in [phase : [Node -> ChainPhase], parent : [Node -> Node \cup {NoNode}],
             chain : [Node -> BOOLEAN], points : Int]
  /\ mem \in [link : BOOLEAN, chains : BOOLEAN, startEvent : [Node -> Nat]]

IsStart(i, n) == i \in DOMAIN log /\ log[i].part = "start" /\ log[i].span = n
IsEnd(i, n) == i \in DOMAIN log /\ log[i].part = "end" /\ log[i].span = n
OfOneNode(n) == LC!Recorded(fw.chain[n])

(* A node has the events that its phase says, one of each.                 *)
StartsOf(n) ==
  /\ \A i \in DOMAIN log : IsStart(i, n) =>
       fw.phase[n] # "idle" /\ OfOneNode(n) /\ log[i].parent = fw.parent[n]
  /\ \A i, j \in DOMAIN log : IsStart(i, n) /\ IsStart(j, n) => i = j
  /\ fw.phase[n] # "idle" /\ OfOneNode(n) => \E i \in DOMAIN log : IsStart(i, n)
  /\ fw.phase[n] \in {"starting", "finishing"} => OfOneNode(n)

EndsOf(n) ==
  /\ \A i \in DOMAIN log : IsEnd(i, n) =>
       fw.phase[n] \in {"finishing", "done"} /\ OfOneNode(n)
  /\ \A i, j \in DOMAIN log : IsEnd(i, n) /\ IsEnd(j, n) => i = j
  /\ fw.phase[n] \in {"finishing", "done"} /\ OfOneNode(n) =>
       \E i \in DOMAIN log : IsEnd(i, n)

(* The table holds the start of what is open.                              *)
TableOf(n) ==
  /\ mem.startEvent[n] # NoId => IsStart(mem.startEvent[n], n)
  /\ fw.phase[n] \in {"open", "finishing"} /\ OfOneNode(n) => mem.startEvent[n] # NoId
  /\ mem.startEvent[n] # NoId =>
       fw.phase[n] \in {"open", "finishing"} \/ (fw.phase[n] = "done" /\ ~ mem.link)

ChainNode(n) == StartsOf(n) /\ EndsOf(n) /\ TableOf(n)

(* A parent is open while the start of its child is under way, and was     *)
(* started in any case.                                                    *)
ChainParents ==
  \A n \in Node :
    fw.phase[n] # "idle" /\ fw.parent[n] # NoNode =>
      /\ fw.parent[n] # n
      /\ fw.phase[fw.parent[n]] \notin {"idle", "starting"}
      /\ fw.phase[n] = "starting" => fw.phase[fw.parent[n]] = "open"

(* An edge is there when both its callbacks have returned, and not before. *)
ChainEdges ==
  /\ EndsLogged /\ IsInjective(edges)
  /\ edges # <<>> => mem.link
  /\ \A e \in ToSet(edges) :
       IF e.type = "DERIVED_FROM" THEN fw.phase[log[e.target].span] = "done"
       ELSE fw.phase[log[e.target].span] # "starting"
  /\ mem.link => \A i, j \in DOMAIN log :
       /\ \A n \in Node : IsStart(i, n) /\ IsEnd(j, n) /\ fw.phase[n] = "done"
            => Linked(i, j, "DERIVED_FROM")
       /\ IsChildOf(j, i) /\ fw.phase[log[j].span] # "starting"
            => Linked(i, j, "INFORMED")

ChainInv ==
  ChainTypes /\ (\A n \in Node : ChainNode(n)) /\ ChainParents /\ ChainEdges


LEMMA ChainInitial == LC!Init => ChainInv
<1> SUFFICES ASSUME LC!Init PROVE ChainInv
  OBVIOUS
<1>1. /\ log = <<>> /\ edges = <<>> /\ DOMAIN log = {} /\ ToSet(edges) = {}
      /\ IsInjective(edges) /\ edges \in Seq(LogEdge) /\ log \in Seq(ChainEvent)
  BY NoEdges, EmptySeq DEF LC!Init
<1>2. ChainTypes
  BY <1>1 DEF ChainTypes, LC!Init, ChainPhase, LC!NoId
<1>3. \A n \in Node : fw.phase[n] = "idle" /\ mem.startEvent[n] = NoId
  BY DEF LC!Init, LC!NoId, NoId
<1>4. \A n \in Node : ChainNode(n)
  BY <1>1, <1>3 DEF ChainNode, StartsOf, EndsOf, TableOf
<1>5. ChainParents
  BY <1>3 DEF ChainParents
<1>6. ChainEdges
  BY <1>1 DEF ChainEdges, EndsLogged
<1>7. QED
  BY <1>2, <1>4, <1>5, <1>6 DEF ChainInv

LEMMA ChainEvents ==
  ASSUME ChainTypes, NEW i \in DOMAIN log
  PROVE  /\ log[i] \in ChainEvent /\ log[i].span \in Node
         /\ log[i].part = "start" => IsStart(i, log[i].span)
         /\ log[i].part = "end" => IsEnd(i, log[i].span)
<1>1. log[i] \in ChainEvent
  BY ElementOfSeq, LenProperties DEF ChainTypes
<1>2. \A e \in ChainEvent : e.span \in Node
  BY DEF ChainEvent, EventIn
<1>3. QED
  BY <1>1, <1>2 DEF IsStart, IsEnd

(* A callback that records touches no edge, nor what made the edges: the   *)
(* phase of a node moves between those that say the same of its edges.     *)
LEMMA ChainEdgesKept ==
  ASSUME ChainTypes, ChainEdges, UNCHANGED <<edges, mem>>,
         NEW e \in ChainEvent, Record(e) \/ UNCHANGED log,
         \A i \in DOMAIN log, m \in Node : IsStart(i, m) \/ IsEnd(i, m) =>
           /\ (fw.phase[m] = "done") <=> (fw'.phase[m] = "done")
           /\ (fw.phase[m] = "starting") <=> (fw'.phase[m] = "starting"),
         Record(e) /\ e.part = "start" =>
           /\ fw'.phase[e.span] = "starting"
           /\ \A j \in DOMAIN log : log[j].part = "start" => log[j].parent # e.span,
         Record(e) /\ e.part = "end" => fw'.phase[e.span] # "done"
  PROVE  ChainEdges'
<1>1. ASSUME NEW i \in DOMAIN log
      PROVE  log[i] \in ChainEvent /\ log[i].span \in Node
  BY ChainEvents
<1>2. /\ DOMAIN log \subseteq DOMAIN log' /\ \A i \in DOMAIN log : log'[i] = log[i]
      /\ \A i \in DOMAIN log' \ DOMAIN log : Record(e) /\ log'[i] = e
  <2>1. CASE Record(e)
    BY <2>1, Logged DEF ChainTypes
  <2>2. CASE UNCHANGED log
    BY <2>2
  <2>3. QED
    BY <2>1, <2>2
<1>3. EndsLogged'
  <2> SUFFICES ASSUME NEW x \in ToSet(edges)
               PROVE  x.source \in DOMAIN log' /\ x.target \in DOMAIN log' /\ JoinsSpans(x)'
    BY DEF EndsLogged
  <2>1. x.source \in DOMAIN log /\ x.target \in DOMAIN log /\ JoinsSpans(x)
    BY DEF ChainEdges, EndsLogged
  <2>2. log'[x.source] = log[x.source] /\ log'[x.target] = log[x.target]
    BY <1>2, <2>1
  <2>3. QED
    BY <1>2, <2>1, <2>2 DEF JoinsSpans, Derives, Informs
<1>4. ASSUME NEW x \in ToSet(edges)
      PROVE  IF x.type = "DERIVED_FROM" THEN fw'.phase[log'[x.target].span] = "done"
             ELSE fw'.phase[log'[x.target].span] # "starting"
  <2>1. x.target \in DOMAIN log /\ log'[x.target] = log[x.target]
        /\ log[x.target].part \in {"start", "end"}
    BY <1>2 DEF ChainEdges, EndsLogged, JoinsSpans, Derives, Informs
  <2>2. PICK m \in Node : m = log[x.target].span
    BY <1>1, <2>1
  <2>3. IsStart(x.target, m) \/ IsEnd(x.target, m)
    BY <2>1, <2>2 DEF IsStart, IsEnd
  <2>4. IF x.type = "DERIVED_FROM" THEN fw.phase[m] = "done" ELSE fw.phase[m] # "starting"
    BY <2>2 DEF ChainEdges
  <2>5. QED
    BY <2>1, <2>2, <2>3, <2>4
<1>5. ASSUME mem.link, NEW i \in DOMAIN log', NEW j \in DOMAIN log', NEW m \in Node,
             IsStart(i, m)', IsEnd(j, m)', fw'.phase[m] = "done"
      PROVE  Linked(i, j, "DERIVED_FROM")
  <2>1. j \in DOMAIN log /\ i \in DOMAIN log
    BY <1>2, <1>5 DEF IsStart, IsEnd
  <2>2. IsStart(i, m) /\ IsEnd(j, m)
    BY <1>2, <1>5, <2>1 DEF IsStart, IsEnd
  <2>3. fw.phase[m] = "done"
    BY <1>5, <2>1, <2>2
  <2>4. QED
    BY <1>5, <2>1, <2>2, <2>3 DEF ChainEdges
<1>6. ASSUME mem.link, NEW i \in DOMAIN log', NEW j \in DOMAIN log',
             IsChildOf(j, i)', fw'.phase[log'[j].span] # "starting"
      PROVE  Linked(i, j, "INFORMED")
  <2>1. j \in DOMAIN log
    BY <1>2, <1>6 DEF IsChildOf
  <2>2. i \in DOMAIN log
    BY <1>2, <1>6, <2>1 DEF IsChildOf
  <2>3. IsChildOf(j, i) /\ log'[j] = log[j]
    BY <1>2, <1>6, <2>1, <2>2 DEF IsChildOf
  <2>4. PICK m \in Node : m = log[j].span
    BY <1>1, <2>1
  <2>5. IsStart(j, m)
    BY <2>1, <2>3, <2>4 DEF IsStart, IsChildOf
  <2>6. fw.phase[m] # "starting"
    BY <1>6, <2>1, <2>3, <2>4, <2>5
  <2>7. QED
    BY <1>6, <2>1, <2>2, <2>3, <2>4, <2>6 DEF ChainEdges
<1>7. \A i, j, type : Linked(i, j, type)' <=> Linked(i, j, type)
  BY DEF Linked
<1>8. IsInjective(edges') /\ (edges' # <<>> => mem'.link) /\ mem' = mem /\ edges' = edges
  BY DEF ChainEdges
<1>9. QED
  BY <1>3, <1>4, <1>5, <1>6, <1>7, <1>8 DEF ChainEdges

(* The nodes that a step is not about keep what holds of them.             *)
LEMMA ChainNodeKept ==
  ASSUME NEW n, ChainNode(n), DOMAIN log \subseteq DOMAIN log',
         \A i \in DOMAIN log : log'[i] = log[i],
         \A i \in DOMAIN log' \ DOMAIN log :
           log'[i].span # n \/ log'[i].part \notin {"start", "end"},
         fw'.phase[n] = fw.phase[n], fw'.parent[n] = fw.parent[n],
         OfOneNode(n)' = OfOneNode(n), mem'.startEvent[n] = mem.startEvent[n],
         mem'.link = mem.link
  PROVE  ChainNode(n)'
<1>1. /\ \A i : IsStart(i, n)' <=> IsStart(i, n)
      /\ \A i : IsEnd(i, n)' <=> IsEnd(i, n)
      /\ \A i : IsStart(i, n) \/ IsEnd(i, n) => i \in DOMAIN log
  BY DEF IsStart, IsEnd
<1>2. StartsOf(n)'
  BY <1>1 DEF ChainNode, StartsOf
<1>3. EndsOf(n)'
  BY <1>1 DEF ChainNode, EndsOf
<1>4. TableOf(n)'
  BY <1>1 DEF ChainNode, TableOf
<1>5. QED
  BY <1>2, <1>3, <1>4 DEF ChainNode

LEMMA ChainOnStart ==
  ASSUME NoNode \notin Node, ChainInv,
         NEW n \in Node, NEW parent \in Node \cup {NoNode}, NEW chain \in BOOLEAN,
         LC!OnStart(n, parent, chain)
  PROVE  ChainInv'
<1> DEFINE e == Event("run", "start", n, parent, n)
           rec == LC!Recorded(chain)
<1>i. ChainTypes /\ (\A m \in Node : ChainNode(m)) /\ ChainParents /\ ChainEdges
  BY DEF ChainInv
<1>1. /\ fw.phase[n] = "idle" /\ parent # n
      /\ parent # NoNode => parent \in Node /\ fw.phase[parent] = "open"
      /\ edges' = edges /\ mem' = mem
  BY DEF LC!OnStart
<1>2. /\ fw' \in [phase : [Node -> ChainPhase], parent : [Node -> Node \cup {NoNode}],
                  chain : [Node -> BOOLEAN], points : Int]
      /\ \A m \in Node \ {n} : /\ fw'.phase[m] = fw.phase[m]
                               /\ fw'.parent[m] = fw.parent[m]
                               /\ fw'.chain[m] = fw.chain[m]
      /\ fw'.phase[n] = IF rec THEN "starting" ELSE "open"
      /\ fw'.parent[n] = parent /\ fw'.chain[n] = chain
  BY <1>i DEF LC!OnStart, ChainTypes, ChainPhase
<1>3. OfOneNode(n)' = rec /\ \A m \in Node \ {n} : OfOneNode(m)' = OfOneNode(m)
  BY <1>1, <1>2 DEF OfOneNode, LC!Recorded
<1>4. e \in ChainEvent /\ e.part = "start" /\ e.span = n /\ e.parent = parent
  BY DEF ChainEvent, EventIn, Event
<1>5. \A i : ~ IsStart(i, n) /\ ~ IsEnd(i, n)
  BY <1>i, <1>1 DEF ChainNode, StartsOf, EndsOf, IsStart, IsEnd
<1>6. IF rec THEN Record(e) ELSE UNCHANGED log
  BY DEF LC!OnStart, LC!Record, Record, LC!Event, Event
<1> HIDE DEF e, rec
<1>7. /\ log' \in Seq(ChainEvent) /\ DOMAIN log \subseteq DOMAIN log'
      /\ \A i \in DOMAIN log : log'[i] = log[i]
      /\ rec => /\ DOMAIN log' = DOMAIN log \cup {NextId} /\ NextId \notin DOMAIN log
                /\ log'[NextId] = e
      /\ ~ rec => UNCHANGED log /\ ~ Record(e)
  BY <1>i, <1>4, <1>6, Logged DEF ChainTypes
<1>8. ASSUME NEW m \in Node \ {n} PROVE ChainNode(m)'
  BY <1>i, <1>1, <1>2, <1>3, <1>4, <1>7, ChainNodeKept
<1>9. ChainNode(n)'
  <2>1. CASE rec
    <3>1. /\ \A i : IsStart(i, n)' <=> i = NextId
          /\ \A i : ~ IsEnd(i, n)'
      BY <1>4, <1>5, <1>7, <2>1 DEF IsStart, IsEnd
    <3>2. mem'.startEvent[n] = NoId
      BY <1>i, <1>1 DEF ChainNode, TableOf
    <3>3. QED
      BY <1>2, <1>3, <1>4, <1>7, <2>1, <3>1, <3>2 DEF ChainNode, StartsOf, EndsOf, TableOf
  <2>2. CASE ~ rec
    <3>1. \A i : ~ IsStart(i, n)' /\ ~ IsEnd(i, n)'
      BY <1>5, <1>7, <2>2 DEF IsStart, IsEnd
    <3>2. mem'.startEvent[n] = NoId
      BY <1>i, <1>1 DEF ChainNode, TableOf
    <3>3. QED
      BY <1>2, <1>3, <2>2, <3>1, <3>2 DEF ChainNode, StartsOf, EndsOf, TableOf
  <2>3. QED
    BY <2>1, <2>2
<1>10. ChainParents'
  <2> SUFFICES ASSUME NEW m \in Node, fw'.phase[m] # "idle", fw'.parent[m] # NoNode
               PROVE  /\ fw'.parent[m] # m
                      /\ fw'.phase[fw'.parent[m]] \notin {"idle", "starting"}
                      /\ fw'.phase[m] = "starting" => fw'.phase[fw'.parent[m]] = "open"
    BY DEF ChainParents
  <2>1. CASE m = n
    BY <1>1, <1>2, <2>1
  <2>2. CASE m # n
    <3>1. /\ fw.phase[m] # "idle" /\ fw.parent[m] # NoNode /\ fw.parent[m] \in Node
          /\ fw'.phase[m] = fw.phase[m] /\ fw'.parent[m] = fw.parent[m]
      BY <1>i, <1>2, <2>2 DEF ChainTypes
    <3>2. /\ fw.parent[m] # m /\ fw.phase[fw.parent[m]] \notin {"idle", "starting"}
          /\ fw.phase[m] = "starting" => fw.phase[fw.parent[m]] = "open"
      BY <1>i, <3>1 DEF ChainParents
    <3>3. fw'.phase[fw.parent[m]] = fw.phase[fw.parent[m]]
      BY <1>1, <1>2, <3>1, <3>2
    <3>4. QED
      BY <3>1, <3>2, <3>3
  <2>3. QED
    BY <2>1, <2>2
<1>11. ChainEdges'
  <2>1. ASSUME NEW j \in DOMAIN log, log[j].part = "start", log[j].parent = n
        PROVE  FALSE
    <3>1. PICK c \in Node : IsStart(j, c)
      BY <1>i, <2>1, ChainEvents
    <3>2. fw.phase[c] # "idle" /\ fw.parent[c] = n
      BY <1>i, <2>1, <3>1 DEF ChainNode, StartsOf
    <3>3. n # NoNode /\ fw.phase[n] # "idle"
      BY <1>i, <3>2 DEF ChainParents
    <3>4. QED
      BY <1>1, <3>3
  <2>2. ASSUME NEW m \in Node, NEW i \in DOMAIN log, IsStart(i, m) \/ IsEnd(i, m)
        PROVE  fw'.phase[m] = fw.phase[m]
    BY <1>2, <1>5, <2>2
  <2>3. rec <=> Record(e)
    BY <1>6, <1>7
  <2>4. QED
    BY <1>i, <1>1, <1>2, <1>4, <1>6, <2>1, <2>2, <2>3, ChainEdgesKept
<1>12. ChainTypes'
  BY <1>i, <1>1, <1>2, <1>7 DEF ChainTypes
<1>13. QED
  BY <1>8, <1>9, <1>10, <1>11, <1>12 DEF ChainInv


(* The rest of a start: the table, and the edge from a parent that is open *)
(* and recorded, whose own start is then in the table.                     *)
LEMMA ChainStarted ==
  ASSUME NoNode \notin Node, ChainInv, NEW n \in Node, LC!Started(n)
  PROVE  ChainInv'
<1> DEFINE parent == fw.parent[n]
           id == LC!Max(LC!Of("start", n))
<1>i. ChainTypes /\ (\A m \in Node : ChainNode(m)) /\ ChainParents /\ ChainEdges
  BY DEF ChainInv
<1>1. fw.phase[n] = "starting" /\ log' = log
  BY DEF LC!Started
<1>2. OfOneNode(n)
  BY <1>i, <1>1 DEF ChainNode, StartsOf
<1> DEFINE table == [mem.startEvent EXCEPT ![n] = id]
           new == IF mem.link /\ parent # NoNode
                  THEN LC!Edge(table[parent], id, "INFORMED") ELSE <<>>
<1>6. /\ fw' = [fw EXCEPT !.phase[n] = "open"]
      /\ mem' = [mem EXCEPT !.startEvent = table] /\ edges' = edges \o new
  BY DEF LC!Started
<1>3. /\ id \in Nat \ {0} /\ id \in DOMAIN log /\ IsStart(id, n)
      /\ \A i : IsStart(i, n) <=> i = id
  <2>1. PICK k \in DOMAIN log : IsStart(k, n)
    BY <1>i, <1>1, <1>2 DEF ChainNode, StartsOf
  <2>2. k \in Nat \ {0}
    BY <1>i, LenProperties DEF ChainTypes
  <2>3. \A i : IsStart(i, n) <=> i = k
    BY <1>i, <2>1 DEF ChainNode, StartsOf, IsStart
  <2>4. LC!Of("start", n) = {k}
    BY <2>3 DEF LC!Of, IsStart
  <2>5. id = k
    BY <2>2, <2>4 DEF LC!Max
  <2>6. QED
    BY <2>1, <2>2, <2>3, <2>5
<1>4. \A i : IsStart(i, n) <=> i = id
  BY <1>3
<1> HIDE DEF new, id
<1>7. /\ fw' \in [phase : [Node -> ChainPhase], parent : [Node -> Node \cup {NoNode}],
                  chain : [Node -> BOOLEAN], points : Int]
      /\ \A m \in Node : fw'.parent[m] = fw.parent[m] /\ fw'.chain[m] = fw.chain[m]
      /\ \A m \in Node \ {n} : fw'.phase[m] = fw.phase[m]
      /\ fw'.phase[n] = "open"
  BY <1>i, <1>6 DEF ChainTypes, ChainPhase
<1>8. /\ mem' \in [link : BOOLEAN, chains : BOOLEAN, startEvent : [Node -> Nat]]
      /\ mem'.link = mem.link /\ mem'.chains = mem.chains
      /\ \A m \in Node \ {n} : mem'.startEvent[m] = mem.startEvent[m]
      /\ mem'.startEvent[n] = id
  BY <1>i, <1>3, <1>6 DEF ChainTypes
<1>9. \A m \in Node : OfOneNode(m)' = OfOneNode(m)
  BY <1>7, <1>8 DEF OfOneNode, LC!Recorded
<1>10. ASSUME NEW m \in Node \ {n} PROVE ChainNode(m)'
  BY <1>i, <1>1, <1>7, <1>8, <1>9, ChainNodeKept
<1>11. ChainNode(n)'
  <2>1. \A i : IsStart(i, n)' <=> i = id
    BY <1>1, <1>4 DEF IsStart
  <2>2. \A i : ~ IsEnd(i, n)'
    BY <1>i, <1>1 DEF ChainNode, EndsOf, IsEnd
  <2>3. log'[id].parent = fw'.parent[n]
    BY <1>i, <1>1, <1>3, <1>7 DEF ChainNode, StartsOf
  <2>4. QED
    BY <1>1, <1>2, <1>3, <1>7, <1>8, <1>9, <2>1, <2>2, <2>3
    DEF ChainNode, StartsOf, EndsOf, TableOf, NoId
<1>12. ChainParents'
  <2> SUFFICES ASSUME NEW m \in Node, fw'.phase[m] # "idle", fw'.parent[m] # NoNode
               PROVE  /\ fw'.parent[m] # m
                      /\ fw'.phase[fw'.parent[m]] \notin {"idle", "starting"}
                      /\ fw'.phase[m] = "starting" => fw'.phase[fw'.parent[m]] = "open"
    BY DEF ChainParents
  <2>1. fw.parent[m] \in Node /\ fw.parent[m] = fw'.parent[m] /\ fw.phase[m] # "idle"
    BY <1>i, <1>1, <1>7 DEF ChainTypes
  <2>2. /\ fw.parent[m] # m /\ fw.phase[fw.parent[m]] \notin {"idle", "starting"}
        /\ fw.phase[m] = "starting" => fw.phase[fw.parent[m]] = "open"
    BY <1>i, <2>1 DEF ChainParents
  <2>3. fw.parent[m] # n
    BY <1>1, <2>2
  <2>4. QED
    BY <1>7, <2>1, <2>2, <2>3
(* The edge from the parent.                                               *)
<1>13. ASSUME parent # NoNode
       PROVE  /\ parent \in Node \ {n} /\ fw.phase[parent] = "open"
              /\ table[parent] = mem.startEvent[parent] /\ table[parent] \in Nat
              /\ \A i \in DOMAIN log : IsStart(i, parent) <=> i = table[parent] /\ i # 0
  <2>1. parent \in Node \ {n} /\ fw.phase[parent] = "open"
    BY <1>i, <1>1, <1>13 DEF ChainParents, ChainTypes
  <2>2. table[parent] = mem.startEvent[parent] /\ table[parent] \in Nat
    BY <1>i, <2>1 DEF ChainTypes
  <2>3. ASSUME NEW i \in DOMAIN log, IsStart(i, parent) PROVE i = table[parent] /\ i # 0
    BY <1>i, <2>1, <2>2, <2>3 DEF ChainNode, StartsOf, TableOf, NoId, IsStart
  <2>4. table[parent] # 0 => IsStart(table[parent], parent)
    BY <1>i, <2>1, <2>2 DEF ChainNode, TableOf, NoId
  <2>5. QED
    BY <2>1, <2>2, <2>3, <2>4
<1> DEFINE source == table[parent]
           e == [source |-> source, target |-> id, type |-> "INFORMED"]
<1>14. /\ new \in Seq(LogEdge) /\ IsInjective(new)
       /\ ToSet(new) = IF mem.link /\ parent # NoNode /\ source # 0 THEN {e} ELSE {}
  <2>1. CASE mem.link /\ parent # NoNode
    <3>1. source # id
      BY <1>3, <1>13, <2>1 DEF IsStart
    <3>2. new = Edge(source, id, "INFORMED")
      BY <2>1 DEF new, LC!Edge, Edge, LC!NoId, NoId
    <3>3. source \in Nat /\ id \in Nat /\ id # 0
      BY <1>3, <1>13, <2>1
    <3> HIDE DEF source, e
    <3>4. /\ new \in Seq(LogEdge) /\ IsInjective(new)
          /\ ToSet(new) = IF source = 0 \/ id = 0 \/ source = id THEN {}
                          ELSE {[source |-> source, target |-> id, type |-> "INFORMED"]}
      BY <3>2, <3>3, EdgeFacts
    <3>5. QED
      BY <2>1, <3>1, <3>3, <3>4 DEF e
  <2>2. CASE ~ (mem.link /\ parent # NoNode)
    BY <2>2, NoEdges DEF new
  <2>3. QED
    BY <2>1, <2>2
<1>15. ASSUME e \in ToSet(edges) PROVE FALSE
  <2>1. fw.phase[log[id].span] # "starting"
    <3>1. e.target = id /\ e.type = "INFORMED"
      OBVIOUS
    <3>2. QED
      BY <1>i, <1>15, <3>1 DEF ChainEdges
  <2>2. QED
    BY <1>1, <1>3, <2>1 DEF IsStart
<1>16. /\ edges' \in Seq(LogEdge) /\ IsInjective(edges')
       /\ ToSet(edges') = ToSet(edges) \cup ToSet(new)
  <2>1. edges \in Seq(LogEdge) /\ IsInjective(edges)
    BY <1>i DEF ChainTypes, ChainEdges
  <2>2. ToSet(edges) \cap ToSet(new) = {}
    BY <1>14, <1>15
  <2>3. QED
    BY <1>6, <1>14, <2>1, <2>2, EdgesJoin
<1>17. ASSUME NEW x \in ToSet(new)
       PROVE  /\ mem.link /\ parent # NoNode /\ source # 0 /\ x = e
              /\ source \in DOMAIN log /\ IsStart(source, parent)
  <2>1. mem.link /\ parent # NoNode /\ source # 0 /\ x = e
    BY <1>14
  <2>2. IsStart(source, parent)
    BY <1>i, <1>13, <2>1 DEF ChainNode, TableOf, NoId
  <2>3. QED
    BY <2>1, <2>2 DEF IsStart
<1> HIDE DEF table
<1>18. ChainEdges'
  <2>1. EndsLogged'
    <3>1. ASSUME NEW x \in ToSet(edges)
          PROVE  x.source \in DOMAIN log' /\ x.target \in DOMAIN log' /\ JoinsSpans(x)'
      <4>1. x.source \in DOMAIN log /\ x.target \in DOMAIN log /\ JoinsSpans(x)
        BY <1>i DEF ChainEdges, EndsLogged
      <4>2. QED
        BY <1>1, <4>1 DEF JoinsSpans, Derives, Informs
    <3>2. ASSUME NEW x \in ToSet(new)
          PROVE  x.source \in DOMAIN log' /\ x.target \in DOMAIN log' /\ JoinsSpans(x)'
      <4>1. x.source = source /\ x.target = id /\ x.type = "INFORMED"
        BY <1>17
      <4>2. source \in DOMAIN log /\ IsStart(source, parent)
        BY <1>17
      <4>3. log[id].parent = parent
        BY <1>i, <1>3 DEF ChainNode, StartsOf
      <4>4. Informs(x)'
        BY <1>1, <1>3, <4>1, <4>2, <4>3 DEF Informs, IsStart
      <4>5. QED
        BY <1>1, <1>3, <4>1, <4>2, <4>4 DEF JoinsSpans
    <3>3. QED
      BY <1>16, <3>1, <3>2 DEF EndsLogged
  <2>2. edges' # <<>> => mem'.link
    <3>1. CASE mem.link
      BY <1>8, <3>1
    <3>2. CASE ~ mem.link
      <4>1. edges = <<>> /\ new = <<>>
        BY <1>i, <3>2 DEF ChainEdges, new
      <4>2. QED
        BY <1>6, <4>1
    <3>3. QED
      BY <3>1, <3>2
  <2>3. ASSUME NEW x \in ToSet(edges')
        PROVE  IF x.type = "DERIVED_FROM" THEN fw'.phase[log'[x.target].span] = "done"
               ELSE fw'.phase[log'[x.target].span] # "starting"
    <3>1. CASE x \in ToSet(edges)
      <4>1. x.target \in DOMAIN log /\ log[x.target].span \in Node
        BY <1>i, <3>1, ChainEvents DEF ChainEdges, EndsLogged
      <4>2. IF x.type = "DERIVED_FROM" THEN fw.phase[log[x.target].span] = "done"
            ELSE fw.phase[log[x.target].span] # "starting"
        BY <1>i, <3>1 DEF ChainEdges
      <4>3. QED
        BY <1>1, <1>7, <4>1, <4>2
    <3>2. CASE x \in ToSet(new)
      <4>1. x.target = id /\ x.type = "INFORMED"
        BY <1>17, <3>2
      <4>2. QED
        BY <1>1, <1>3, <1>7, <4>1 DEF IsStart
    <3>3. QED
      BY <1>16, <3>1, <3>2
  <2>4. ASSUME mem.link, NEW i \in DOMAIN log, NEW j \in DOMAIN log, NEW m \in Node,
               IsStart(i, m), IsEnd(j, m), fw'.phase[m] = "done"
        PROVE  Linked(i, j, "DERIVED_FROM")'
    <3>1. fw.phase[m] = "done"
      BY <1>7, <2>4
    <3>2. Linked(i, j, "DERIVED_FROM")
      BY <1>i, <2>4, <3>1 DEF ChainEdges
    <3>3. QED
      BY <1>16, <3>2 DEF Linked
  <2>5. ASSUME mem.link, NEW i \in DOMAIN log, NEW j \in DOMAIN log,
               IsChildOf(j, i), fw'.phase[log[j].span] # "starting"
        PROVE  Linked(i, j, "INFORMED")'
    <3>1. log[j].span \in Node
      BY <1>i, ChainEvents
    <3>2. CASE log[j].span # n
      <4>1. Linked(i, j, "INFORMED")
        BY <1>i, <1>7, <2>5, <3>1, <3>2 DEF ChainEdges
      <4>2. QED
        BY <1>16, <4>1 DEF Linked
    <3>3. CASE log[j].span = n
      <4>1. j = id
        BY <1>4, <2>5, <3>3 DEF IsStart, IsChildOf
      <4>2. log[j].parent = parent
        BY <1>i, <1>3, <4>1 DEF ChainNode, StartsOf
      <4>3. log[i].span = parent /\ log[i].span \in Node /\ IsStart(i, parent)
        BY <1>i, <2>5, <4>2, ChainEvents DEF IsChildOf, IsStart
      <4>4. parent # NoNode
        BY <4>3
      <4>5. i = source /\ source # 0
        BY <1>13, <4>3, <4>4
      <4>6. e \in ToSet(edges')
        BY <1>14, <1>16, <2>5, <4>4, <4>5
      <4>7. QED
        BY <4>1, <4>5, <4>6 DEF Linked
    <3>4. QED
      BY <3>2, <3>3
  <2>6. /\ DOMAIN log' = DOMAIN log /\ mem'.link = mem.link
        /\ \A i, j : IsChildOf(j, i)' <=> IsChildOf(j, i)
        /\ \A i, m : IsStart(i, m)' <=> IsStart(i, m)
        /\ \A i, m : IsEnd(i, m)' <=> IsEnd(i, m)
        /\ \A i : log'[i] = log[i]
    BY <1>1, <1>8 DEF IsChildOf, IsStart, IsEnd
  <2>7. QED
    BY <1>16, <2>1, <2>2, <2>3, <2>4, <2>5, <2>6 DEF ChainEdges
<1>19. ChainTypes'
  BY <1>i, <1>1, <1>7, <1>8, <1>16 DEF ChainTypes
<1>20. QED
  BY <1>10, <1>11, <1>12, <1>18, <1>19 DEF ChainInv


(* The rest of a finish: the edge from the start in the table, whose entry *)
(* goes; without link nothing but the phase moves.                         *)
LEMMA ChainFinished ==
  ASSUME ChainInv, NEW n \in Node, LC!Finished(n)
  PROVE  ChainInv'
<1> DEFINE id == LC!Max(LC!Of("end", n))
           source == mem.startEvent[n]
           e == [source |-> source, target |-> id, type |-> "DERIVED_FROM"]
           new == IF mem.link THEN LC!Edge(source, id, "DERIVED_FROM") ELSE <<>>
<1>i. ChainTypes /\ (\A m \in Node : ChainNode(m)) /\ ChainParents /\ ChainEdges
  BY DEF ChainInv
<1>1. /\ fw.phase[n] = "finishing" /\ log' = log
      /\ fw' = [fw EXCEPT !.phase[n] = "done"]
      /\ mem' = IF mem.link THEN [mem EXCEPT !.startEvent[n] = NoId] ELSE mem
  BY DEF LC!Finished, LC!NoId, NoId
<1>2. edges' = edges \o new
  <2>1. CASE mem.link
    BY <2>1 DEF LC!Finished
  <2>2. CASE ~ mem.link
    BY <1>i, <2>2, ConcatEmptySeq DEF LC!Finished, ChainTypes
  <2>3. QED
    BY <2>1, <2>2
<1>3. OfOneNode(n) /\ source \in Nat /\ source # 0 /\ IsStart(source, n)
  BY <1>i, <1>1 DEF ChainNode, StartsOf, TableOf, ChainTypes, NoId
<1>4. /\ id \in Nat \ {0} /\ id \in DOMAIN log /\ IsEnd(id, n)
      /\ \A i : IsEnd(i, n) <=> i = id
      /\ \A i : IsStart(i, n) <=> i = source
  <2>1. PICK k \in DOMAIN log : IsEnd(k, n)
    BY <1>i, <1>1, <1>3 DEF ChainNode, EndsOf
  <2>2. k \in Nat \ {0}
    BY <1>i, LenProperties DEF ChainTypes
  <2>3. \A i : IsEnd(i, n) <=> i = k
    BY <1>i, <2>1 DEF ChainNode, EndsOf, IsEnd
  <2>4. LC!Of("end", n) = {k}
    BY <2>3 DEF LC!Of, IsEnd
  <2>5. id = k
    BY <2>2, <2>4 DEF LC!Max
  <2>6. \A i : IsStart(i, n) <=> i = source
    BY <1>i, <1>3 DEF ChainNode, StartsOf, IsStart
  <2>7. QED
    BY <2>1, <2>2, <2>3, <2>5, <2>6
<1> HIDE DEF id, source
<1>5. /\ new \in Seq(LogEdge) /\ IsInjective(new)
      /\ ToSet(new) = IF mem.link THEN {e} ELSE {}
  <2>1. CASE mem.link
    <3>1. source # id
      BY <1>3, <1>4 DEF IsStart, IsEnd
    <3>2. new = Edge(source, id, "DERIVED_FROM")
      BY <2>1 DEF LC!Edge, Edge, LC!NoId, NoId
    <3> HIDE DEF new
    <3>3. QED
      BY <1>3, <1>4, <2>1, <3>1, <3>2, EdgeFacts
  <2>2. CASE ~ mem.link
    BY <2>2, NoEdges
  <2>3. QED
    BY <2>1, <2>2
<1> HIDE DEF new
<1>6. ASSUME e \in ToSet(edges) PROVE FALSE
  <2>1. e.target = id /\ e.type = "DERIVED_FROM"
    OBVIOUS
  <2>2. fw.phase[log[id].span] = "done"
    BY <1>i, <1>6, <2>1 DEF ChainEdges
  <2>3. QED
    BY <1>1, <1>4, <2>2 DEF IsEnd
<1>7. /\ edges' \in Seq(LogEdge) /\ IsInjective(edges')
      /\ ToSet(edges') = ToSet(edges) \cup ToSet(new)
  <2>1. edges \in Seq(LogEdge) /\ IsInjective(edges)
    BY <1>i DEF ChainTypes, ChainEdges
  <2>2. ToSet(edges) \cap ToSet(new) = {}
    BY <1>5, <1>6
  <2>3. QED
    BY <1>2, <1>5, <2>1, <2>2, EdgesJoin
<1>8. /\ fw' \in [phase : [Node -> ChainPhase], parent : [Node -> Node \cup {NoNode}],
                  chain : [Node -> BOOLEAN], points : Int]
      /\ \A m \in Node : fw'.parent[m] = fw.parent[m] /\ fw'.chain[m] = fw.chain[m]
      /\ \A m \in Node \ {n} : fw'.phase[m] = fw.phase[m]
      /\ fw'.phase[n] = "done"
  BY <1>i, <1>1 DEF ChainTypes, ChainPhase
<1>9. /\ mem' \in [link : BOOLEAN, chains : BOOLEAN, startEvent : [Node -> Nat]]
      /\ mem'.link = mem.link /\ mem'.chains = mem.chains
      /\ \A m \in Node \ {n} : mem'.startEvent[m] = mem.startEvent[m]
      /\ mem'.startEvent[n] = IF mem.link THEN NoId ELSE source
  BY <1>i, <1>1 DEF ChainTypes, NoId, source
<1>10. \A m \in Node : OfOneNode(m)' = OfOneNode(m)
  BY <1>8, <1>9 DEF OfOneNode, LC!Recorded
<1>11. ASSUME NEW m \in Node \ {n} PROVE ChainNode(m)'
  BY <1>i, <1>1, <1>8, <1>9, <1>10, ChainNodeKept
<1>12. ChainNode(n)'
  <2>1. /\ \A i : IsStart(i, n)' <=> i = source
        /\ \A i : IsEnd(i, n)' <=> i = id
    BY <1>1, <1>4 DEF IsStart, IsEnd
  <2>2. log'[source].parent = fw'.parent[n] /\ source \in DOMAIN log'
    BY <1>i, <1>1, <1>3, <1>8 DEF ChainNode, StartsOf, IsStart
  <2>3. QED
    BY <1>1, <1>3, <1>4, <1>8, <1>9, <1>10, <2>1, <2>2
    DEF ChainNode, StartsOf, EndsOf, TableOf, NoId
<1>13. ChainParents'
  <2> SUFFICES ASSUME NEW m \in Node, fw'.phase[m] # "idle", fw'.parent[m] # NoNode
               PROVE  /\ fw'.parent[m] # m
                      /\ fw'.phase[fw'.parent[m]] \notin {"idle", "starting"}
                      /\ fw'.phase[m] = "starting" => fw'.phase[fw'.parent[m]] = "open"
    BY DEF ChainParents
  <2>1. fw.parent[m] \in Node /\ fw.parent[m] = fw'.parent[m] /\ fw.phase[m] # "idle"
    BY <1>i, <1>1, <1>8 DEF ChainTypes
  <2>2. /\ fw.parent[m] # m /\ fw.phase[fw.parent[m]] \notin {"idle", "starting"}
        /\ fw.phase[m] = "starting" => fw.phase[fw.parent[m]] = "open"
    BY <1>i, <2>1 DEF ChainParents
  <2>3. QED
    BY <1>1, <1>8, <2>1, <2>2
<1>14. ChainEdges'
  <2>1. EndsLogged'
    <3>1. ASSUME NEW x \in ToSet(edges)
          PROVE  x.source \in DOMAIN log' /\ x.target \in DOMAIN log' /\ JoinsSpans(x)'
      <4>1. x.source \in DOMAIN log /\ x.target \in DOMAIN log /\ JoinsSpans(x)
        BY <1>i DEF ChainEdges, EndsLogged
      <4>2. QED
        BY <1>1, <4>1 DEF JoinsSpans, Derives, Informs
    <3>2. ASSUME NEW x \in ToSet(new)
          PROVE  x.source \in DOMAIN log' /\ x.target \in DOMAIN log' /\ JoinsSpans(x)'
      <4>1. x.source = source /\ x.target = id /\ x.type = "DERIVED_FROM"
        BY <1>5
      <4>2. Derives(x)'
        BY <1>1, <1>3, <1>4, <4>1 DEF Derives, IsStart, IsEnd
      <4>3. QED
        BY <1>1, <1>3, <1>4, <4>1, <4>2 DEF JoinsSpans, IsStart
    <3>3. QED
      BY <1>7, <3>1, <3>2 DEF EndsLogged
  <2>2. edges' # <<>> => mem'.link
    <3>1. CASE mem.link
      BY <1>9, <3>1
    <3>2. CASE ~ mem.link
      <4>1. edges = <<>> /\ new = <<>>
        BY <1>i, <3>2 DEF ChainEdges, new
      <4>2. QED
        BY <1>2, <4>1
    <3>3. QED
      BY <3>1, <3>2
  <2>3. ASSUME NEW x \in ToSet(edges')
        PROVE  IF x.type = "DERIVED_FROM" THEN fw'.phase[log'[x.target].span] = "done"
               ELSE fw'.phase[log'[x.target].span] # "starting"
    <3>1. CASE x \in ToSet(edges)
      <4>1. x.target \in DOMAIN log /\ log[x.target].span \in Node
        BY <1>i, <3>1, ChainEvents DEF ChainEdges, EndsLogged
      <4>2. IF x.type = "DERIVED_FROM" THEN fw.phase[log[x.target].span] = "done"
            ELSE fw.phase[log[x.target].span] # "starting"
        BY <1>i, <3>1 DEF ChainEdges
      <4>3. QED
        BY <1>1, <1>8, <4>1, <4>2
    <3>2. CASE x \in ToSet(new)
      <4>1. x.target = id /\ x.type = "DERIVED_FROM"
        BY <1>5, <3>2
      <4>2. QED
        BY <1>1, <1>4, <1>8, <4>1 DEF IsEnd
    <3>3. QED
      BY <1>7, <3>1, <3>2
  <2>4. ASSUME mem.link, NEW i \in DOMAIN log, NEW j \in DOMAIN log, NEW m \in Node,
               IsStart(i, m), IsEnd(j, m), fw'.phase[m] = "done"
        PROVE  Linked(i, j, "DERIVED_FROM")'
    <3>1. CASE m = n
      <4>1. i = source /\ j = id
        BY <1>4, <2>4, <3>1
      <4>2. e \in ToSet(edges')
        BY <1>5, <1>7, <2>4
      <4>3. QED
        BY <4>1, <4>2 DEF Linked
    <3>2. CASE m # n
      <4>1. Linked(i, j, "DERIVED_FROM")
        BY <1>i, <1>8, <2>4, <3>2 DEF ChainEdges
      <4>2. QED
        BY <1>7, <4>1 DEF Linked
    <3>3. QED
      BY <3>1, <3>2
  <2>5. ASSUME mem.link, NEW i \in DOMAIN log, NEW j \in DOMAIN log,
               IsChildOf(j, i), fw'.phase[log[j].span] # "starting"
        PROVE  Linked(i, j, "INFORMED")'
    <3>1. fw.phase[log[j].span] # "starting"
      BY <1>i, <1>1, <1>8, <2>5, ChainEvents
    <3>2. Linked(i, j, "INFORMED")
      BY <1>i, <2>5, <3>1 DEF ChainEdges
    <3>3. QED
      BY <1>7, <3>2 DEF Linked
  <2>6. /\ DOMAIN log' = DOMAIN log /\ mem'.link = mem.link
        /\ \A i, j : IsChildOf(j, i)' <=> IsChildOf(j, i)
        /\ \A i, m : IsStart(i, m)' <=> IsStart(i, m)
        /\ \A i, m : IsEnd(i, m)' <=> IsEnd(i, m)
        /\ \A i : log'[i] = log[i]
    BY <1>1, <1>9 DEF IsChildOf, IsStart, IsEnd
  <2>7. QED
    BY <1>7, <2>1, <2>2, <2>3, <2>4, <2>5, <2>6 DEF ChainEdges
<1>15. ChainTypes'
  BY <1>i, <1>1, <1>7, <1>8, <1>9 DEF ChainTypes
<1>16. QED
  BY <1>11, <1>12, <1>13, <1>14, <1>15 DEF ChainInv

(* A finish: the end is recorded, no child is in the middle of its start.  *)
LEMMA ChainOnFinish ==
  ASSUME ChainInv, NEW n \in Node, LC!OnFinish(n)
  PROVE  ChainInv'
<1> DEFINE e == Event("run", "end", n, fw.parent[n], n)
           rec == OfOneNode(n)
<1>i. ChainTypes /\ (\A m \in Node : ChainNode(m)) /\ ChainParents /\ ChainEdges
  BY DEF ChainInv
<1>1. /\ fw.phase[n] = "open" /\ edges' = edges /\ mem' = mem
      /\ \A c \in Node : fw.parent[c] = n => fw.phase[c] # "starting"
  BY DEF LC!OnFinish
<1>2. /\ fw' \in [phase : [Node -> ChainPhase], parent : [Node -> Node \cup {NoNode}],
                  chain : [Node -> BOOLEAN], points : Int]
      /\ \A m \in Node : fw'.parent[m] = fw.parent[m] /\ fw'.chain[m] = fw.chain[m]
      /\ \A m \in Node \ {n} : fw'.phase[m] = fw.phase[m]
      /\ fw'.phase[n] = IF rec THEN "finishing" ELSE "done"
  BY <1>i DEF LC!OnFinish, ChainTypes, ChainPhase, OfOneNode
<1>3. \A m \in Node : OfOneNode(m)' = OfOneNode(m)
  BY <1>1, <1>2 DEF OfOneNode, LC!Recorded
<1>4. e \in ChainEvent /\ e.part = "end" /\ e.span = n
  BY <1>i DEF ChainEvent, EventIn, Event, ChainTypes
<1>5. IF rec THEN Record(e) ELSE UNCHANGED log
  BY DEF LC!OnFinish, LC!Record, Record, LC!Event, Event, OfOneNode
<1> HIDE DEF e
<1>6. /\ log' \in Seq(ChainEvent) /\ DOMAIN log \subseteq DOMAIN log'
      /\ \A i \in DOMAIN log : log'[i] = log[i]
      /\ rec => /\ DOMAIN log' = DOMAIN log \cup {NextId} /\ NextId \notin DOMAIN log
                /\ log'[NextId] = e
      /\ ~ rec => UNCHANGED log /\ ~ Record(e)
  BY <1>i, <1>4, <1>5, Logged DEF ChainTypes
<1>7. ASSUME NEW m \in Node \ {n} PROVE ChainNode(m)'
  BY <1>i, <1>1, <1>2, <1>3, <1>4, <1>6, ChainNodeKept
<1>8. \A i : ~ IsEnd(i, n)
  BY <1>i, <1>1 DEF ChainNode, EndsOf, IsEnd
<1>9. /\ \A i : IsStart(i, n)' <=> IsStart(i, n)
      /\ \A i : IsEnd(i, n)' <=> rec /\ i = NextId
  BY <1>4, <1>6, <1>8 DEF IsStart, IsEnd
<1>10. ChainNode(n)'
  <2>1. rec' = rec
    BY <1>3
  <2>2. StartsOf(n)'
    BY <1>i, <1>1, <1>2, <1>6, <1>9, <2>1 DEF ChainNode, StartsOf, IsStart
  <2>3. EndsOf(n)'
    BY <1>2, <1>6, <1>9, <2>1 DEF EndsOf
  <2>4. TableOf(n)'
    BY <1>i, <1>1, <1>2, <1>9, <2>1 DEF ChainNode, TableOf, StartsOf, IsStart
  <2>5. QED
    BY <2>2, <2>3, <2>4 DEF ChainNode
<1>11. ChainParents'
  <2> SUFFICES ASSUME NEW m \in Node, fw'.phase[m] # "idle", fw'.parent[m] # NoNode
               PROVE  /\ fw'.parent[m] # m
                      /\ fw'.phase[fw'.parent[m]] \notin {"idle", "starting"}
                      /\ fw'.phase[m] = "starting" => fw'.phase[fw'.parent[m]] = "open"
    BY DEF ChainParents
  <2>1. fw.parent[m] \in Node /\ fw.parent[m] = fw'.parent[m] /\ fw.phase[m] # "idle"
    BY <1>i, <1>1, <1>2 DEF ChainTypes
  <2>2. /\ fw.parent[m] # m /\ fw.phase[fw.parent[m]] \notin {"idle", "starting"}
        /\ fw.phase[m] = "starting" => fw.phase[fw.parent[m]] = "open"
    BY <1>i, <2>1 DEF ChainParents
  <2>3. QED
    BY <1>1, <1>2, <2>1, <2>2
<1>12. ChainEdges'
  <2>1. ASSUME NEW m \in Node, NEW i \in DOMAIN log, IsStart(i, m) \/ IsEnd(i, m)
        PROVE  /\ (fw.phase[m] = "done") <=> (fw'.phase[m] = "done")
               /\ (fw.phase[m] = "starting") <=> (fw'.phase[m] = "starting")
    <3>1. CASE m = n
      <4>1. rec
        BY <1>i, <1>8, <2>1, <3>1 DEF ChainNode, StartsOf
      <4>2. QED
        BY <1>1, <1>2, <3>1, <4>1
    <3>2. CASE m # n
      BY <1>2, <3>2
    <3>3. QED
      BY <3>1, <3>2
  <2>2. Record(e) => fw'.phase[n] # "done"
    BY <1>2, <1>6
  <2>3. QED
    BY <1>i, <1>1, <1>4, <1>5, <2>1, <2>2, ChainEdgesKept
<1>13. ChainTypes'
  BY <1>i, <1>1, <1>2, <1>6 DEF ChainTypes
<1>14. QED
  BY <1>7, <1>10, <1>11, <1>12, <1>13 DEF ChainInv

LEMMA ChainOnAgent ==
  ASSUME ChainInv, NEW n \in Node, LC!OnAgent(n)
  PROVE  ChainInv'
<1> DEFINE e == Event("run", "point", n, fw.parent[n], n)
<1>i. ChainTypes /\ (\A m \in Node : ChainNode(m)) /\ ChainParents /\ ChainEdges
  BY DEF ChainInv
<1>1. edges' = edges /\ mem' = mem
  BY DEF LC!OnAgent
<1>2. /\ fw' \in [phase : [Node -> ChainPhase], parent : [Node -> Node \cup {NoNode}],
                  chain : [Node -> BOOLEAN], points : Int]
      /\ fw'.phase = fw.phase /\ fw'.parent = fw.parent /\ fw'.chain = fw.chain
  <2>1. fw' = [fw EXCEPT !.points = fw.points + 1] /\ fw.points + 1 \in Int
    BY <1>i DEF LC!OnAgent, ChainTypes
  <2>2. QED
    BY <1>i, <2>1 DEF ChainTypes
<1>3. e \in ChainEvent /\ e.part = "point"
  BY <1>i DEF ChainEvent, EventIn, Event, ChainTypes
<1>4. Record(e)
  BY DEF LC!OnAgent, LC!Record, Record, LC!Event, Event
<1> HIDE DEF e
<1>5. /\ log' \in Seq(ChainEvent)
      /\ DOMAIN log' = DOMAIN log \cup {NextId} /\ NextId \notin DOMAIN log
      /\ \A i \in DOMAIN log : log'[i] = log[i]
      /\ log'[NextId] = e
  BY <1>i, <1>3, <1>4, Logged DEF ChainTypes
<1>6. ASSUME NEW m \in Node PROVE ChainNode(m)'
  <2>1. OfOneNode(m)' = OfOneNode(m)
    BY <1>1, <1>2 DEF OfOneNode, LC!Recorded
  <2>2. QED
    BY <1>i, <1>1, <1>2, <1>3, <1>5, <2>1, ChainNodeKept
<1>7. ChainParents'
  BY <1>i, <1>2 DEF ChainParents
<1>8. ChainEdges'
  BY <1>i, <1>1, <1>2, <1>3, <1>4, ChainEdgesKept
<1>9. ChainTypes'
  BY <1>i, <1>1, <1>2, <1>5 DEF ChainTypes
<1>10. QED
  BY <1>6, <1>7, <1>8, <1>9 DEF ChainInv


LEMMA ChainStep ==
  ASSUME NoNode \notin Node, ChainInv, [LC!Next]_logVars
  PROVE  ChainInv'
<1>1. ASSUME NEW n \in Node, NEW parent \in Node \cup {NoNode}, NEW chain \in BOOLEAN,
             LC!OnStart(n, parent, chain)
      PROVE  ChainInv'
  BY <1>1, ChainOnStart
<1>2. ASSUME NEW n \in Node, LC!Started(n) PROVE ChainInv'
  BY <1>2, ChainStarted
<1>3. ASSUME NEW n \in Node, LC!OnFinish(n) PROVE ChainInv'
  BY <1>3, ChainOnFinish
<1>4. ASSUME NEW n \in Node, LC!Finished(n) PROVE ChainInv'
  BY <1>4, ChainFinished
<1>5. ASSUME NEW n \in Node, LC!OnAgent(n) PROVE ChainInv'
  BY <1>5, ChainOnAgent
<1>6. CASE UNCHANGED logVars
  <2>1. log' = log /\ edges' = edges /\ fw' = fw /\ mem' = mem
    BY <1>6 DEF logVars
  <2>2. ASSUME NEW m \in Node PROVE ChainNode(m)'
    BY <2>1 DEF ChainInv, ChainNode, StartsOf, EndsOf, TableOf, IsStart, IsEnd,
                OfOneNode, LC!Recorded
  <2>3. ChainEdges'
    BY <2>1 DEF ChainInv, ChainEdges, EndsLogged, JoinsSpans, Derives, Informs,
                IsStart, IsEnd, IsChildOf, Linked
  <2>4. ChainTypes' /\ ChainParents'
    BY <2>1 DEF ChainInv, ChainTypes, ChainParents
  <2>5. QED
    BY <2>2, <2>3, <2>4 DEF ChainInv
<1>7. QED
  BY <1>1, <1>2, <1>3, <1>4, <1>5, <1>6 DEF LC!Next

LEMMA ChainAlways ==
  ASSUME NoNode \notin Node
  PROVE  LC!Spec => []ChainInv
<1>1. LC!Init => ChainInv
  BY ChainInitial
<1>2. ChainInv /\ [LC!Next]_(LC!logVars) => ChainInv'
  BY ChainStep DEF LC!logVars, logVars
<1>3. QED
  BY <1>1, <1>2, PTL DEF LC!Spec

(* Between callbacks of any number of nodes that interleave in any way, an *)
(* edge joins a start with the end of its node or with the start of a      *)
(* child of it, whatever the table held in between.                        *)
THEOREM LangChainJoins ==
  ASSUME NoNode \notin Node
  PROVE  LC!Spec => []EdgesJoinSpans
<1>1. ChainInv => EdgesJoinSpans
  BY DEF ChainInv, ChainEdges, EndsLogged, EdgesJoinSpans
<1>2. QED
  BY <1>1, ChainAlways, PTL

(* Every completed node is linked to its start, and every child to a       *)
(* parent that was open, once both callbacks returned, none of them twice; *)
(* and the table holds the recorded nodes that are open and no others.     *)
THEOREM LangChainLineage ==
  ASSUME NoNode \notin Node
  PROVE  LC!Spec => [](LC!Complete /\ LC!Current)
<1>1. ASSUME ChainInv PROVE LC!Complete
  <2>i. ChainTypes /\ (\A m \in Node : ChainNode(m)) /\ ChainParents /\ ChainEdges
    BY <1>1 DEF ChainInv
  <2>1. edges \in Seq(LogEdge) /\ IsInjective(edges)
    BY <2>i DEF ChainTypes, ChainEdges
  <2>2. ASSUME mem.link, NEW i \in DOMAIN log, NEW j \in DOMAIN log,
               LC!Settled(i), LC!Settled(j)
        PROVE  DerivedOnce(i, j) /\ InformedOnce(i, j)
    <3>1. ASSUME log[i].part = "start", log[j].part = "end", log[i].span = log[j].span
          PROVE  Times(i, j, "DERIVED_FROM") = 1
      <4>1. PICK n \in Node : n = log[j].span /\ IsStart(i, n) /\ IsEnd(j, n)
        BY <2>i, <3>1, ChainEvents
      <4>2. fw.phase[n] = "done"
        BY <2>i, <2>2, <4>1 DEF ChainNode, EndsOf, LC!Settled
      <4>3. Linked(i, j, "DERIVED_FROM")
        BY <2>i, <2>2, <4>1, <4>2 DEF ChainEdges
      <4>4. QED
        BY <2>1, <4>3, LinkedOnce
    <3>2. ASSUME IsChildOf(j, i) PROVE Times(i, j, "INFORMED") = 1
      <4>1. Linked(i, j, "INFORMED")
        BY <2>i, <2>2, <3>2 DEF ChainEdges, LC!Settled
      <4>2. QED
        BY <2>1, <4>1, LinkedOnce
    <3>3. QED
      BY <3>1, <3>2 DEF DerivedOnce, InformedOnce
  <2>3. \A S : LC!Cardinality(S) = Cardinality(S)
    BY DEF LC!Cardinality, Cardinality
  <2>4. /\ \A i, j : LC!DerivedOnce(i, j) <=> DerivedOnce(i, j)
        /\ \A i, j : LC!InformedOnce(i, j) <=> InformedOnce(i, j)
    BY <2>3 DEF LC!DerivedOnce, DerivedOnce, LC!InformedOnce, InformedOnce, LC!IsChildOf,
           IsChildOf, LC!Times, Times
  <2>5. QED
    BY <2>2, <2>4 DEF LC!Complete
<1>2. ASSUME ChainInv PROVE LC!Current
  <2> SUFFICES ASSUME mem.link, NEW n \in Node
               PROVE  mem.startEvent[n] # NoId <=>
                        fw.phase[n] \in {"open", "finishing"} /\ OfOneNode(n)
    BY DEF LC!Current, LC!NoId, NoId, OfOneNode
  <2>1. ChainNode(n)
    BY <1>2 DEF ChainInv
  <2>2. IsStart(mem.startEvent[n], n) => OfOneNode(n)
    BY <2>1 DEF ChainNode, StartsOf, IsStart
  <2>3. QED
    BY <2>1, <2>2 DEF ChainNode, TableOf
<1>3. ChainInv => LC!Complete /\ LC!Current
  BY <1>1, <1>2
<1>4. QED
  BY <1>3, ChainAlways, PTL

-----------------------------------------------------------------------------
(* LlamaIndex: ends that come twice, or for no operation that is open *)

Above == {LI!NoSpan, LI!Ambient}

LlamaEvent == EventIn({"run"}, Nat \ {0}, Nat \cup Above, Op)
OpenEvent == [span : Nat \ {0}, parent : Nat \cup Above, start : Nat \ {0}]

LlamaTypes ==
  /\ log \in Seq(LlamaEvent) /\ edges \in Seq(LogEdge)
  /\ fw \in [phase : [Op -> {"idle", "open", "ended"}], parent : [Op -> Op \cup {RootMarker}],
             stray : Int]
  /\ mem \in [link : BOOLEAN, open : [Op -> OpenEvent \cup {LI!NoEvent}]]

IsStartOf(i, o) == i \in DOMAIN log /\ log[i].part = "start" /\ log[i].owner = o

(* The span of a start is the start itself; an end closes the span of an   *)
(* operation that has ended, or has a span of its own.  No two ends share  *)
(* one.                                                                    *)
LlamaSpans ==
  /\ \A i \in DOMAIN log : log[i].part = "start" => log[i].span = i
  /\ \A j \in DOMAIN log : log[j].part = "end" =>
       \/ log[j].span = j
       \/ /\ log[j].span < j
          /\ \E o \in Op : IsStartOf(log[j].span, o) /\ fw.phase[o] = "ended"
  /\ \A i, j \in DOMAIN log :
       log[i].part = "end" /\ log[j].part = "end" /\ log[i].span = log[j].span => i = j

(* What the handler keeps of an operation is its start, while it is open.  *)
LlamaOp(o) ==
  /\ \A i, j : IsStartOf(i, o) /\ IsStartOf(j, o) => i = j
  /\ (\E i : IsStartOf(i, o)) <=> fw.phase[o] # "idle"
  /\ (mem.open[o] # LI!NoEvent) <=> (fw.phase[o] = "open")
  /\ fw.phase[o] = "open" =>
       IsStartOf(mem.open[o].start, o) /\ mem.open[o].span = mem.open[o].start
  /\ fw.phase[o] = "ended" =>
       \A i : IsStartOf(i, o) =>
         \E j \in DOMAIN log : log[j].part = "end" /\ log[j].span = i

(* A start hangs under its parent when that was open, else under none.     *)
ClosedBy(i, j) == \E k \in DOMAIN log : k < j /\ log[k].part = "end" /\ log[k].span = i

LlamaParents ==
  \A j \in DOMAIN log : log[j].part = "start" =>
    LET p == fw.parent[log[j].owner]
        earlier == {i \in DOMAIN log : i < j /\ log[i].part = "start" /\ log[i].owner = p}
    IN  /\ \A i \in earlier : ~ ClosedBy(i, j) => log[j].parent = i
        /\ (\A i \in earlier : ClosedBy(i, j)) => log[j].parent \in Above

LlamaEdges ==
  /\ EndsLogged /\ IsInjective(edges)
  /\ mem.link => \A i, j \in DOMAIN log :
       log[i].part = "start" /\ log[j].part = "end" /\ log[j].span = i
         => Linked(i, j, "DERIVED_FROM")

LlamaInv ==
  /\ LlamaTypes /\ LlamaSpans /\ (\A o \in Op : LlamaOp(o)) /\ LlamaParents /\ LlamaEdges


LEMMA LlamaEvents ==
  ASSUME LlamaTypes, NEW i \in DOMAIN log
  PROVE  /\ i \in Nat \ {0} /\ log[i] \in LlamaEvent
         /\ log[i].run = "run" /\ log[i].owner \in Op /\ log[i].span \in Nat \ {0}
         /\ log[i].part = "start" => IsStartOf(i, log[i].owner)
<1>1. i \in Nat \ {0} /\ log[i] \in LlamaEvent
  BY ElementOfSeq, LenProperties DEF LlamaTypes
<1>2. \A e \in LlamaEvent : e.run = "run" /\ e.owner \in Op /\ e.span \in Nat \ {0}
  BY DEF LlamaEvent, EventIn
<1>3. QED
  BY <1>1, <1>2 DEF IsStartOf

LEMMA LlamaInitial == LI!Init => LlamaInv
<1> SUFFICES ASSUME LI!Init PROVE LlamaInv
  OBVIOUS
<1>1. /\ log = <<>> /\ edges = <<>> /\ DOMAIN log = {} /\ ToSet(edges) = {}
      /\ IsInjective(edges) /\ edges \in Seq(LogEdge) /\ log \in Seq(LlamaEvent)
  BY NoEdges, EmptySeq DEF LI!Init
<1>2. LlamaTypes
  BY <1>1 DEF LlamaTypes, LI!Init
<1>3. \A o \in Op : fw.phase[o] = "idle" /\ mem.open[o] = LI!NoEvent
  BY DEF LI!Init
<1>4. \A o \in Op : LlamaOp(o)
  BY <1>1, <1>3 DEF LlamaOp, IsStartOf
<1>5. LlamaSpans /\ LlamaParents /\ LlamaEdges
  BY <1>1 DEF LlamaSpans, LlamaParents, LlamaEdges, EndsLogged
<1>6. QED
  BY <1>2, <1>4, <1>5 DEF LlamaInv

(* A start that joins the log closes nothing and is closed by nothing.     *)
LEMMA LlamaOnStart ==
  ASSUME LlamaInv, NEW o \in Op, NEW parent \in Op \cup {RootMarker}, NEW ambient \in Above,
         LI!OnEventStart(o, parent, ambient)
  PROVE  LlamaInv'
<1> DEFINE above == LI!SpanOfParent(parent, ambient)
           e == Event("run", "start", NextId, above, o)
           kept == [span |-> NextId, parent |-> above, start |-> NextId]
<1>i. /\ LlamaTypes /\ LlamaSpans /\ LlamaParents /\ LlamaEdges
      /\ \A p \in Op : LlamaOp(p)
  BY DEF LlamaInv
<1>n. NextId \in Nat \ {0}
  BY <1>i, LenProperties DEF LlamaTypes, NextId
<1>1. /\ fw.phase[o] = "idle" /\ parent # o /\ edges' = edges
      /\ fw' = [fw EXCEPT !.phase[o] = "open", !.parent[o] = parent]
      /\ mem' = [mem EXCEPT !.open[o] = kept] /\ Record(e)
  BY DEF LI!OnEventStart, LI!Record, Record, LI!Event, Event, LI!NextId, NextId
<1>2. /\ above \in Nat \cup Above
      /\ (parent \in Op /\ fw.phase[parent] = "open") =>
           above = mem.open[parent].start /\ IsStartOf(mem.open[parent].start, parent)
      /\ ~ (parent \in Op /\ fw.phase[parent] = "open") => above \in Above
  <2>1. CASE parent \in Op /\ fw.phase[parent] = "open"
    <3>1. LI!IsOpen(parent) /\ mem.open[parent] \in OpenEvent
      BY <1>i, <2>1 DEF LI!IsOpen, LlamaOp, LlamaTypes
    <3>2. above = mem.open[parent].span /\ above = mem.open[parent].start
          /\ IsStartOf(mem.open[parent].start, parent)
      BY <1>i, <2>1, <3>1 DEF LI!SpanOfParent, LlamaOp
    <3>3. \A x \in OpenEvent : x.span \in Nat
      BY DEF OpenEvent
    <3>4. QED
      BY <2>1, <3>1, <3>2, <3>3
  <2>2. CASE ~ (parent \in Op /\ fw.phase[parent] = "open")
    <3>1. ~ LI!IsOpen(parent)
      BY <1>i, <2>2 DEF LI!IsOpen, LlamaOp
    <3>2. QED
      BY <2>2, <3>1 DEF LI!SpanOfParent
  <2>3. QED
    BY <2>1, <2>2
<1> HIDE DEF above
<1>3. /\ e \in LlamaEvent /\ e.part = "start" /\ e.span = NextId /\ e.parent = above
      /\ e.owner = o
  BY <1>n, <1>2 DEF Event, LlamaEvent, EventIn
<1>4. kept \in OpenEvent /\ kept.start = NextId /\ kept.span = NextId /\ kept # LI!NoEvent
  <2>1. kept.span # 0 /\ LI!NoEvent.span = 0
    BY <1>n DEF LI!NoEvent, LI!NoSpan
  <2>2. QED
    BY <1>n, <1>2, <2>1 DEF OpenEvent
<1> HIDE DEF e, kept
<1>5. /\ log' \in Seq(LlamaEvent)
      /\ DOMAIN log' = DOMAIN log \cup {NextId} /\ NextId \notin DOMAIN log
      /\ \A i \in DOMAIN log : i < NextId /\ log'[i] = log[i]
      /\ log'[NextId] = e
  BY <1>i, <1>1, <1>3, Logged DEF LlamaTypes
<1>6. /\ fw' \in [phase : [Op -> {"idle", "open", "ended"}],
                  parent : [Op -> Op \cup {RootMarker}], stray : Int]
      /\ fw'.phase[o] = "open" /\ fw'.parent[o] = parent
      /\ \A p \in Op \ {o} : fw'.phase[p] = fw.phase[p] /\ fw'.parent[p] = fw.parent[p]
  BY <1>i, <1>1 DEF LlamaTypes
<1>7. /\ mem' \in [link : BOOLEAN, open : [Op -> OpenEvent \cup {LI!NoEvent}]]
      /\ mem'.link = mem.link /\ mem'.open[o] = kept
      /\ \A p \in Op \ {o} : mem'.open[p] = mem.open[p]
  BY <1>i, <1>1, <1>4 DEF LlamaTypes
<1>8. /\ \A i : ~ IsStartOf(i, o)
      /\ \A i : IsStartOf(i, o)' <=> i = NextId
      /\ \A i : \A p \in Op \ {o} : IsStartOf(i, p)' <=> IsStartOf(i, p)
  <2>1. \A i : ~ IsStartOf(i, o)
    BY <1>i, <1>1 DEF LlamaOp
  <2>2. QED
    BY <1>3, <1>5, <2>1 DEF IsStartOf
<1>9. \A j \in DOMAIN log' : log'[j].part = "end" => j \in DOMAIN log /\ log[j].part = "end"
                                                     /\ log'[j] = log[j]
  BY <1>3, <1>5
<1>10. LlamaSpans'
  <2>1. \A i \in DOMAIN log' : log'[i].part = "start" => log'[i].span = i
    BY <1>i, <1>3, <1>5 DEF LlamaSpans
  <2>2. ASSUME NEW j \in DOMAIN log', log'[j].part = "end"
        PROVE  \/ log'[j].span = j
               \/ /\ log'[j].span < j
                  /\ \E p \in Op : IsStartOf(log[j].span, p)' /\ fw'.phase[p] = "ended"
    <3>1. CASE log[j].span = j
      BY <1>9, <2>2, <3>1
    <3>2. CASE log[j].span # j
      <4>1. PICK p \in Op : IsStartOf(log[j].span, p) /\ fw.phase[p] = "ended" /\ log[j].span < j
        BY <1>i, <1>9, <2>2, <3>2 DEF LlamaSpans
      <4>2. p # o
        BY <1>1, <4>1
      <4>3. IsStartOf(log[j].span, p)'
        BY <1>5, <1>9, <2>2, <4>1 DEF IsStartOf
      <4>4. QED
        BY <1>6, <1>9, <2>2, <4>1, <4>2, <4>3
    <3>3. QED
      BY <3>1, <3>2
  <2>3. \A i, j \in DOMAIN log' : log'[i].part = "end" /\ log'[j].part = "end"
                                  /\ log'[i].span = log'[j].span => i = j
    BY <1>i, <1>9 DEF LlamaSpans
  <2>4. QED
    BY <2>1, <2>2, <2>3 DEF LlamaSpans
<1>11. ASSUME NEW p \in Op PROVE LlamaOp(p)'
  <2>1. CASE p = o
    BY <1>4, <1>6, <1>7, <1>8, <2>1 DEF LlamaOp
  <2>2. CASE p # o
    <3>1. LlamaOp(p)
      BY <1>i
    <3>2. /\ fw'.phase[p] = fw.phase[p] /\ mem'.open[p] = mem.open[p]
          /\ \A i : IsStartOf(i, p)' <=> IsStartOf(i, p)
      BY <1>6, <1>7, <1>8, <2>2
    <3>3. \A i : (\E j \in DOMAIN log : log[j].part = "end" /\ log[j].span = i)
                 => \E j \in DOMAIN log' : log'[j].part = "end" /\ log'[j].span = i
      BY <1>5
    <3>4. QED
      BY <3>1, <3>2, <3>3 DEF LlamaOp
  <2>3. QED
    BY <2>1, <2>2
<1>12. \A i : \A j \in DOMAIN log : ClosedBy(i, j)' <=> ClosedBy(i, j)
  BY <1>3, <1>5 DEF ClosedBy
<1>13. LlamaParents'
  <2> DEFINE Earlier(j, p) ==
        {i \in DOMAIN log : i < j /\ log[i].part = "start" /\ log[i].owner = p}
  <2> SUFFICES ASSUME NEW j \in DOMAIN log', log'[j].part = "start"
               PROVE  LET p == fw'.parent[log'[j].owner]
                          earlier == {i \in DOMAIN log' : i < j /\ log'[i].part = "start"
                                                                /\ log'[i].owner = p}
                      IN  /\ \A i \in earlier : ~ ClosedBy(i, j)' => log'[j].parent = i
                          /\ (\A i \in earlier : ClosedBy(i, j)') => log'[j].parent \in Above
    BY DEF LlamaParents
  <2>1. CASE j \in DOMAIN log
    <3>1. log[j].owner \in Op \ {o}
      BY <1>i, <1>5, <1>8, <2>1, LlamaEvents
    <3>2. fw'.parent[log'[j].owner] = fw.parent[log[j].owner]
      BY <1>5, <1>6, <2>1, <3>1
    <3>3. \A p : {i \in DOMAIN log' : i < j /\ log'[i].part = "start" /\ log'[i].owner = p}
                 = Earlier(j, p)
      <4>1. j \in Nat /\ NextId \in Nat /\ j < NextId /\ \A i \in DOMAIN log : i \in Nat
        BY <1>i, <1>n, <1>5, <2>1, LlamaEvents
      <4>2. ~ (NextId < j)
        BY <4>1
      <4>3. QED
        BY <1>5, <4>2
    <3>4. log'[j] = log[j]
      BY <1>5, <2>1
    <3>5. QED
      BY <1>i, <1>12, <2>1, <3>2, <3>3, <3>4 DEF LlamaParents
  <2>2. CASE j = NextId
    <3>1. log'[j].owner = o /\ fw'.parent[o] = parent /\ log'[j].parent = above
      BY <1>3, <1>5, <1>6, <2>2
    <3> DEFINE earlier == {i \in DOMAIN log' : i < j /\ log'[i].part = "start"
                                                     /\ log'[i].owner = parent}
    <3>2. \A i : i \in earlier <=> IsStartOf(i, parent)
      <4>1. ~ (NextId < NextId) /\ parent # o
        BY <1>n, <1>1
      <4>2. QED
        BY <1>3, <1>5, <2>2, <4>1 DEF IsStartOf
    <3>3. ASSUME NEW i, IsStartOf(i, parent) PROVE parent \in Op
      BY <1>i, <3>3, LlamaEvents DEF IsStartOf
    <3>4. \A i : ClosedBy(i, j)' <=> \E k \in DOMAIN log : log[k].part = "end" /\ log[k].span = i
      <4>1. ~ (NextId < NextId)
        BY <1>n
      <4>2. QED
        BY <1>3, <1>5, <2>2, <4>1 DEF ClosedBy
    <3> HIDE DEF earlier
    <3>5. CASE parent \in Op /\ fw.phase[parent] = "open"
      <4>1. IsStartOf(above, parent) /\ \A i : IsStartOf(i, parent) => i = above
        BY <1>i, <1>2, <3>5 DEF LlamaOp
      <4>2. ASSUME NEW up, up = above, ClosedBy(up, j)' PROVE FALSE
        <5>1. PICK k \in DOMAIN log : log[k].part = "end" /\ log[k].span = above
          BY <3>4, <4>2
        <5>2. log[k].part # "start" /\ above # k
          BY <4>1, <5>1 DEF IsStartOf
        <5>3. PICK q \in Op : IsStartOf(above, q) /\ fw.phase[q] = "ended"
          BY <1>i, <5>1, <5>2 DEF LlamaSpans
        <5>4. q = parent
          BY <4>1, <5>3 DEF IsStartOf
        <5>5. QED
          BY <3>5, <5>3, <5>4
      <4>3. PICK up : up = above
        OBVIOUS
      <4>4. up \in earlier /\ ~ ClosedBy(up, j)' /\ \A i \in earlier : i = up
        BY <3>2, <4>1, <4>2, <4>3
      <4>5. QED
        BY <3>1, <4>3, <4>4 DEF earlier
    <3>6. CASE ~ (parent \in Op /\ fw.phase[parent] = "open")
      <4>1. ASSUME NEW i \in earlier PROVE ClosedBy(i, j)'
        <5>1. IsStartOf(i, parent) /\ parent \in Op
          BY <3>2, <3>3
        <5>2. fw.phase[parent] = "ended"
          BY <1>i, <3>6, <5>1 DEF LlamaOp, LlamaTypes
        <5>3. QED
          BY <1>i, <3>4, <5>1, <5>2 DEF LlamaOp
      <4>2. above \in Above
        BY <1>2, <3>6
      <4>3. QED
        BY <3>1, <4>1, <4>2 DEF earlier
    <3>7. QED
      BY <3>5, <3>6
  <2>3. QED
    BY <1>5, <2>1, <2>2
<1>14. LlamaEdges'
  <2>1. EndsLogged'
    BY <1>i, <1>1, <1>3, EndsStayLogged DEF LlamaEdges, EndsLogged, LlamaTypes
  <2>2. ASSUME mem.link, NEW i \in DOMAIN log', NEW j \in DOMAIN log',
               log'[i].part = "start", log'[j].part = "end", log'[j].span = i
        PROVE  Linked(i, j, "DERIVED_FROM")
    <3>1. j \in DOMAIN log /\ log[j].part = "end" /\ log[j].span = i
      BY <1>9, <2>2
    <3>2. i # NextId
      <4>1. i = j \/ IsStartOf(i, log[i].owner)
        BY <1>i, <3>1 DEF LlamaSpans, IsStartOf
      <4>2. QED
        BY <1>5, <3>1, <4>1 DEF IsStartOf
    <3>3. i \in DOMAIN log /\ log[i].part = "start"
      BY <1>5, <2>2, <3>2
    <3>4. QED
      BY <1>i, <2>2, <3>1, <3>3 DEF LlamaEdges
  <2>3. \A i, j, type : Linked(i, j, type)' <=> Linked(i, j, type)
    BY <1>1 DEF Linked
  <2>4. IsInjective(edges') /\ mem'.link = mem.link
    BY <1>i, <1>1, <1>7 DEF LlamaEdges
  <2>5. QED
    BY <2>1, <2>2, <2>3, <2>4 DEF LlamaEdges
<1>15. LlamaTypes'
  BY <1>i, <1>1, <1>5, <1>6, <1>7 DEF LlamaTypes
<1>16. QED
  BY <1>10, <1>11, <1>13, <1>14, <1>15 DEF LlamaInv

(* An end that joins the log is no start, and closes nothing before it.    *)
LEMMA LlamaEnds ==
  ASSUME LlamaInv, NEW e \in LlamaEvent, e.part = "end", Record(e), fw'.parent = fw.parent
  PROVE  /\ log' \in Seq(LlamaEvent) /\ NextId \in Nat \ {0}
         /\ DOMAIN log' = DOMAIN log \cup {NextId} /\ NextId \notin DOMAIN log
         /\ \A i \in DOMAIN log : i < NextId /\ log'[i] = log[i]
         /\ log'[NextId] = e
         /\ \A i, p : IsStartOf(i, p)' <=> IsStartOf(i, p)
         /\ LlamaParents'
<1>i. LlamaTypes /\ LlamaParents
  BY DEF LlamaInv
<1>1. /\ log' \in Seq(LlamaEvent) /\ NextId \in Nat \ {0}
      /\ DOMAIN log' = DOMAIN log \cup {NextId} /\ NextId \notin DOMAIN log
      /\ \A i \in DOMAIN log : i < NextId /\ log'[i] = log[i]
      /\ log'[NextId] = e
  BY <1>i, Logged DEF LlamaTypes
<1>2. \A i, p : IsStartOf(i, p)' <=> IsStartOf(i, p)
  BY <1>1 DEF IsStartOf
<1>3. LlamaParents'
  <2> DEFINE Earlier(j, p) ==
        {i \in DOMAIN log : i < j /\ log[i].part = "start" /\ log[i].owner = p}
  <2> SUFFICES ASSUME NEW j \in DOMAIN log', log'[j].part = "start"
               PROVE  LET p == fw'.parent[log'[j].owner]
                          earlier == {i \in DOMAIN log' : i < j /\ log'[i].part = "start"
                                                                /\ log'[i].owner = p}
                      IN  /\ \A i \in earlier : ~ ClosedBy(i, j)' => log'[j].parent = i
                          /\ (\A i \in earlier : ClosedBy(i, j)') => log'[j].parent \in Above
    BY DEF LlamaParents
  <2>1. j \in DOMAIN log /\ log'[j] = log[j]
    BY <1>1
  <2>2. \A p : {i \in DOMAIN log' : i < j /\ log'[i].part = "start" /\ log'[i].owner = p}
               = Earlier(j, p)
    BY <1>1
  <2>3. \A i : ClosedBy(i, j)' <=> ClosedBy(i, j)
    <3>1. ~ (NextId < j)
      <4>1. j < NextId /\ j \in Nat /\ NextId \in Nat
        BY <1>i, <1>1, <2>1, LlamaEvents
      <4>2. QED
        BY <4>1
    <3>2. QED
      BY <1>1, <3>1 DEF ClosedBy
  <2>4. QED
    BY <1>i, <2>1, <2>2, <2>3 DEF LlamaParents
<1>4. QED
  BY <1>1, <1>2, <1>3

(* The end of an open operation closes it, linked to its start.            *)
LEMMA LlamaOnEnd ==
  ASSUME LlamaInv, NEW o \in Op, NEW ambient \in Above, fw.phase[o] = "open",
         LI!OnEventEnd(o, ambient)
  PROVE  LlamaInv'
<1> DEFINE s == mem.open[o].start
           e == Event("run", "end", mem.open[o].span, mem.open[o].parent, o)
<1>i. /\ LlamaTypes /\ LlamaSpans /\ LlamaParents /\ LlamaEdges
      /\ \A p \in Op : LlamaOp(p)
  BY DEF LlamaInv
<1>1. /\ LI!IsOpen(o) /\ mem.open[o] \in OpenEvent /\ IsStartOf(s, o) /\ mem.open[o].span = s
      /\ s \in DOMAIN log /\ log[s].part = "start" /\ log[s].owner = o /\ log[s].span = s
  BY <1>i DEF LlamaTypes, LlamaOp, LI!IsOpen, IsStartOf, LlamaSpans
<1>2. \A x \in OpenEvent : x.span \in Nat \ {0} /\ x.parent \in Nat \cup Above
  BY DEF OpenEvent
<1>3. e \in LlamaEvent /\ e.part = "end" /\ e.span = s /\ e.owner = o
  BY <1>1, <1>2 DEF Event, LlamaEvent, EventIn
<1>4. /\ fw' = [fw EXCEPT !.phase[o] = "ended"]
      /\ mem' = [mem EXCEPT !.open[o] = LI!NoEvent]
      /\ Record(e)
      /\ edges' = edges \o IF mem.link THEN Edge(s, NextId, "DERIVED_FROM") ELSE <<>>
  BY <1>1 DEF LI!OnEventEnd, LI!Record, Record, LI!Event, Event, LI!NextId, NextId, LI!Edge,
              Edge, LI!NoId, NoId
<1>5. /\ fw' \in [phase : [Op -> {"idle", "open", "ended"}],
                  parent : [Op -> Op \cup {RootMarker}], stray : Int]
      /\ fw'.phase[o] = "ended" /\ fw'.parent = fw.parent
      /\ \A p \in Op \ {o} : fw'.phase[p] = fw.phase[p]
  BY <1>i, <1>4 DEF LlamaTypes
<1>6. /\ mem' \in [link : BOOLEAN, open : [Op -> OpenEvent \cup {LI!NoEvent}]]
      /\ mem'.link = mem.link /\ mem'.open[o] = LI!NoEvent
      /\ \A p \in Op \ {o} : mem'.open[p] = mem.open[p]
  BY <1>i, <1>4 DEF LlamaTypes
<1> HIDE DEF e
<1>7. /\ log' \in Seq(LlamaEvent) /\ NextId \in Nat \ {0}
      /\ DOMAIN log' = DOMAIN log \cup {NextId} /\ NextId \notin DOMAIN log
      /\ \A i \in DOMAIN log : i < NextId /\ log'[i] = log[i]
      /\ log'[NextId] = e
      /\ \A i, p : IsStartOf(i, p)' <=> IsStartOf(i, p)
      /\ LlamaParents'
  BY <1>3, <1>4, <1>5, LlamaEnds
<1> HIDE DEF s
<1>8. \A i \in DOMAIN log : ~ (log[i].part = "end" /\ log[i].span = s)
  <2> SUFFICES ASSUME NEW i \in DOMAIN log, log[i].part = "end", log[i].span = s PROVE FALSE
    OBVIOUS
  <2>1. log[i].span # i
    BY <1>1
  <2>2. PICK q \in Op : IsStartOf(s, q) /\ fw.phase[q] = "ended"
    BY <1>i, <2>1 DEF LlamaSpans
  <2>3. q = o
    BY <1>1, <2>2 DEF IsStartOf
  <2>4. QED
    BY <2>2, <2>3
<1>9. LlamaSpans'
  <2>1. \A i \in DOMAIN log' : log'[i].part = "start" => log'[i].span = i
    BY <1>i, <1>3, <1>7 DEF LlamaSpans
  <2>2. ASSUME NEW j \in DOMAIN log', log'[j].part = "end"
        PROVE  \/ log'[j].span = j
               \/ /\ log'[j].span < j
                  /\ \E p \in Op : IsStartOf(log[j].span, p)' /\ fw'.phase[p] = "ended"
    <3>1. CASE j = NextId
      <4>1. log'[j].span = s /\ s < j
        BY <1>1, <1>3, <1>7, <3>1
      <4>2. IsStartOf(log[j].span, o)'
        BY <1>1, <1>7, <4>1 DEF IsStartOf
      <4>3. QED
        BY <1>5, <4>1, <4>2
    <3>2. CASE j \in DOMAIN log /\ log[j].span = j
      BY <1>7, <3>2
    <3>3. CASE j \in DOMAIN log /\ log[j].span # j
      <4>1. PICK p \in Op : IsStartOf(log[j].span, p) /\ fw.phase[p] = "ended" /\ log[j].span < j
        BY <1>i, <1>7, <2>2, <3>3 DEF LlamaSpans
      <4>2. IsStartOf(log[j].span, p)' /\ log'[j] = log[j]
        BY <1>7, <3>3, <4>1 DEF IsStartOf
      <4>3. fw'.phase[p] = "ended"
        BY <1>5, <4>1
      <4>4. QED
        BY <4>1, <4>2, <4>3
    <3>4. QED
      BY <1>7, <3>1, <3>2, <3>3
  <2>3. \A i, j \in DOMAIN log' : log'[i].part = "end" /\ log'[j].part = "end"
                                  /\ log'[i].span = log'[j].span => i = j
    BY <1>i, <1>3, <1>7, <1>8 DEF LlamaSpans
  <2>4. QED
    BY <2>1, <2>2, <2>3 DEF LlamaSpans
<1>10. ASSUME NEW p \in Op PROVE LlamaOp(p)'
  <2>1. LlamaOp(p) /\ \A i : IsStartOf(i, p)' <=> IsStartOf(i, p)
    BY <1>i, <1>7
  <2>2. CASE p = o
    <3>1. \A i : IsStartOf(i, o) => i = s
      BY <1>1, <2>1, <2>2 DEF LlamaOp
    <3>2. NextId \in DOMAIN log' /\ log'[NextId].part = "end" /\ log'[NextId].span = s
      BY <1>3, <1>7
    <3>3. QED
      BY <1>5, <1>6, <2>1, <2>2, <3>1, <3>2, <1>1 DEF LlamaOp
  <2>3. CASE p # o
    <3>1. fw'.phase[p] = fw.phase[p] /\ mem'.open[p] = mem.open[p]
      BY <1>5, <1>6, <2>3
    <3>2. \A i : (\E j \in DOMAIN log : log[j].part = "end" /\ log[j].span = i)
                 => \E j \in DOMAIN log' : log'[j].part = "end" /\ log'[j].span = i
      BY <1>7
    <3>3. QED
      BY <2>1, <3>1, <3>2 DEF LlamaOp
  <2>4. QED
    BY <2>2, <2>3
<1>11. edges' \in Seq(LogEdge) /\ LlamaEdges'
  <2>1. EndsLogged /\ IsInjective(edges) /\ edges \in Seq(LogEdge) /\ log \in Seq(LlamaEvent)
    BY <1>i DEF LlamaEdges, LlamaTypes
  <2>2. \A i, j \in DOMAIN log' : log'[i].part = "start" /\ log'[j].part = "end"
                                  /\ log'[j].span = i
          => \/ j = NextId /\ i = s
             \/ mem.link => Linked(i, j, "DERIVED_FROM")
    <3> SUFFICES ASSUME NEW i \in DOMAIN log', NEW j \in DOMAIN log', log'[i].part = "start",
                        log'[j].part = "end", log'[j].span = i, j # NextId, mem.link
                 PROVE  Linked(i, j, "DERIVED_FROM")
      BY <1>3, <1>7
    <3>1. i \in DOMAIN log /\ log[i].part = "start"
      BY <1>3, <1>7
    <3>2. j \in DOMAIN log /\ log[j].part = "end" /\ log[j].span = i
      BY <1>7
    <3>3. QED
      BY <1>i, <3>1, <3>2 DEF LlamaEdges
  <2>3. CASE mem.link
    <3>j. edges' = edges \o Edge(s, NextId, "DERIVED_FROM")
      BY <1>4, <2>3
    <3>s. s \in DOMAIN log /\ log[s].part = "start" /\ log[s].span = e.span
      BY <1>1, <1>3
    <3>1. /\ edges' \in Seq(LogEdge) /\ IsInjective(edges') /\ EndsLogged'
          /\ ToSet(edges') = ToSet(edges) \cup
               {[source |-> s, target |-> NextId, type |-> "DERIVED_FROM"]}
      <4>1. "DERIVED_FROM" \in {"DERIVED_FROM", "INFORMED"}
            /\ IF "DERIVED_FROM" = "DERIVED_FROM" THEN e.part = "end" /\ log[s].span = e.span
                ELSE e.part = "start" /\ log[s].span = e.parent
        BY <1>3, <3>s
      <4>2. e \in LlamaEvent /\ Record(e)
        BY <1>3, <1>4
      <4>3. QED
        BY <2>1, <3>j, <3>s, <4>1, <4>2, LinkAdded, SMTT(60), ZenonT(60)
    <3>2. /\ \A i, j, type : Linked(i, j, type) => Linked(i, j, type)'
          /\ [source |-> s, target |-> NextId, type |-> "DERIVED_FROM"] \in ToSet(edges')
      BY <3>1 DEF Linked
    <3>3. \A i, j \in DOMAIN log' : log'[i].part = "start" /\ log'[j].part = "end"
                                    /\ log'[j].span = i => Linked(i, j, "DERIVED_FROM")'
      BY <2>2, <2>3, <3>2 DEF Linked
    <3>4. QED
      BY <3>1, <3>3 DEF LlamaEdges
  <2>4. CASE ~ mem.link
    <3>1. edges' = edges
      BY <1>4, <2>1, <2>4, ConcatEmptySeq
    <3>2. EndsLogged'
      BY <1>3, <1>4, <2>1, <3>1, EndsStayLogged DEF EndsLogged
    <3>3. QED
      BY <1>6, <2>1, <2>4, <3>1, <3>2 DEF LlamaEdges
  <2>5. QED
    BY <1>i, <2>3, <2>4 DEF LlamaTypes
<1>12. LlamaTypes'
  BY <1>5, <1>6, <1>7, <1>11 DEF LlamaTypes
<1>13. QED
  BY <1>7, <1>9, <1>10, <1>11, <1>12 DEF LlamaInv

(* An end for no operation that is open has a span of its own.             *)
LEMMA LlamaOnStrayEnd ==
  ASSUME LlamaInv, NEW o \in Op, NEW ambient \in Above, fw.phase[o] # "open",
         LI!OnEventEnd(o, ambient)
  PROVE  LlamaInv'
<1> DEFINE e == Event("run", "end", NextId, ambient, o)
<1>i. /\ LlamaTypes /\ LlamaSpans /\ LlamaParents /\ LlamaEdges
      /\ \A p \in Op : LlamaOp(p)
  BY DEF LlamaInv
<1>n. NextId \in Nat \ {0}
  BY <1>i, LenProperties DEF LlamaTypes, NextId
<1>1. ~ LI!IsOpen(o) /\ mem.open[o] = LI!NoEvent
  BY <1>i DEF LlamaOp, LI!IsOpen
<1>2. e \in LlamaEvent /\ e.part = "end" /\ e.span = NextId
  BY <1>n DEF Event, LlamaEvent, EventIn
<1>3. /\ fw' = [fw EXCEPT !.stray = @ + 1] /\ mem' = [mem EXCEPT !.open[o] = LI!NoEvent]
      /\ Record(e) /\ edges' = edges
  BY <1>1 DEF LI!OnEventEnd, LI!Record, Record, LI!Event, Event, LI!NextId, NextId
<1>4. /\ fw' \in [phase : [Op -> {"idle", "open", "ended"}],
                  parent : [Op -> Op \cup {RootMarker}], stray : Int]
      /\ fw'.phase = fw.phase /\ fw'.parent = fw.parent
  <2>1. fw' = [fw EXCEPT !.stray = fw.stray + 1] /\ fw.stray + 1 \in Int
    BY <1>i, <1>3 DEF LlamaTypes
  <2>2. QED
    BY <1>i, <2>1 DEF LlamaTypes
<1>5. /\ mem' \in [link : BOOLEAN, open : [Op -> OpenEvent \cup {LI!NoEvent}]]
      /\ mem'.link = mem.link /\ \A p \in Op : mem'.open[p] = mem.open[p]
  BY <1>i, <1>1, <1>3 DEF LlamaTypes
<1> HIDE DEF e
<1>6. /\ log' \in Seq(LlamaEvent)
      /\ DOMAIN log' = DOMAIN log \cup {NextId} /\ NextId \notin DOMAIN log
      /\ \A i \in DOMAIN log : i < NextId /\ log'[i] = log[i]
      /\ log'[NextId] = e
      /\ \A i, p : IsStartOf(i, p)' <=> IsStartOf(i, p)
      /\ LlamaParents'
  BY <1>2, <1>3, <1>4, LlamaEnds
<1>7. \A i \in DOMAIN log : log[i].part = "end" => log[i].span # NextId
  <2> SUFFICES ASSUME NEW i \in DOMAIN log, log[i].part = "end", log[i].span = NextId
               PROVE  FALSE
    OBVIOUS
  <2>1. log[i].span = i \/ log[i].span \in DOMAIN log
    BY <1>i DEF LlamaSpans, IsStartOf
  <2>2. QED
    BY <1>6, <2>1
<1>8. LlamaSpans'
  <2>1. \A i \in DOMAIN log' : log'[i].part = "start" => log'[i].span = i
    BY <1>i, <1>2, <1>6 DEF LlamaSpans
  <2>2. ASSUME NEW j \in DOMAIN log', log'[j].part = "end"
        PROVE  \/ log'[j].span = j
               \/ /\ log'[j].span < j
                  /\ \E p \in Op : IsStartOf(log[j].span, p)' /\ fw'.phase[p] = "ended"
    <3>1. CASE j = NextId
      BY <1>2, <1>6, <3>1
    <3>2. CASE j \in DOMAIN log /\ log[j].span = j
      BY <1>6, <3>2
    <3>3. CASE j \in DOMAIN log /\ log[j].span # j
      <4>1. PICK p \in Op : IsStartOf(log[j].span, p) /\ fw.phase[p] = "ended" /\ log[j].span < j
        BY <1>i, <1>6, <2>2, <3>3 DEF LlamaSpans
      <4>2. IsStartOf(log[j].span, p)' /\ log'[j] = log[j]
        BY <1>6, <3>3, <4>1 DEF IsStartOf
      <4>3. QED
        BY <1>4, <4>1, <4>2
    <3>4. QED
      BY <1>6, <3>1, <3>2, <3>3
  <2>3. \A i, j \in DOMAIN log' : log'[i].part = "end" /\ log'[j].part = "end"
                                  /\ log'[i].span = log'[j].span => i = j
    BY <1>i, <1>2, <1>6, <1>7 DEF LlamaSpans
  <2>4. QED
    BY <2>1, <2>2, <2>3 DEF LlamaSpans
<1>9. ASSUME NEW p \in Op PROVE LlamaOp(p)'
  <2>1. LlamaOp(p) /\ \A i : IsStartOf(i, p)' <=> IsStartOf(i, p)
    BY <1>i, <1>6
  <2>2. fw'.phase[p] = fw.phase[p] /\ mem'.open[p] = mem.open[p]
    BY <1>4, <1>5
  <2>3. \A i : (\E j \in DOMAIN log : log[j].part = "end" /\ log[j].span = i)
               => \E j \in DOMAIN log' : log'[j].part = "end" /\ log'[j].span = i
    BY <1>6
  <2>4. QED
    BY <2>1, <2>2, <2>3 DEF LlamaOp
<1>10. LlamaEdges'
  <2>1. EndsLogged'
    BY <1>i, <1>2, <1>3, EndsStayLogged DEF LlamaEdges, EndsLogged, LlamaTypes
  <2>2. ASSUME mem.link, NEW i \in DOMAIN log', NEW j \in DOMAIN log',
               log'[i].part = "start", log'[j].part = "end", log'[j].span = i
        PROVE  Linked(i, j, "DERIVED_FROM")
    <3>1. i \in DOMAIN log /\ log[i].part = "start"
      BY <1>2, <1>6, <2>2
    <3>2. j \in DOMAIN log /\ log[j].part = "end" /\ log[j].span = i
      BY <1>2, <1>6, <2>2, <3>1
    <3>3. QED
      BY <1>i, <2>2, <3>1, <3>2 DEF LlamaEdges
  <2>3. \A i, j, type : Linked(i, j, type)' <=> Linked(i, j, type)
    BY <1>3 DEF Linked
  <2>4. IsInjective(edges') /\ mem'.link = mem.link
    BY <1>i, <1>3, <1>5 DEF LlamaEdges
  <2>5. QED
    BY <2>1, <2>2, <2>3, <2>4 DEF LlamaEdges
<1>11. LlamaTypes'
  BY <1>i, <1>3, <1>4, <1>5, <1>6 DEF LlamaTypes
<1>12. QED
  BY <1>6, <1>8, <1>9, <1>10, <1>11 DEF LlamaInv

LEMMA LlamaAlways == LI!Spec => []LlamaInv
<1>1. LlamaInv /\ [LI!Next]_(LI!logVars) => LlamaInv'
  <2> SUFFICES ASSUME LlamaInv, [LI!Next]_logVars PROVE LlamaInv'
    BY DEF LI!logVars, logVars
  <2>1. CASE UNCHANGED logVars
    BY <2>1 DEF logVars, LlamaInv, LlamaTypes, LlamaSpans, LlamaOp, LlamaParents, LlamaEdges,
                EndsLogged, Linked, IsStartOf, ClosedBy, JoinsSpans, Derives, Informs
  <2>2. ASSUME NEW o \in Op, NEW ambient \in Above, NEW parent \in Op \cup {RootMarker},
               LI!OnEventStart(o, parent, ambient)
        PROVE  LlamaInv'
    BY <2>2, LlamaOnStart
  <2>3. ASSUME NEW o \in Op, NEW ambient \in Above, LI!OnEventEnd(o, ambient)
        PROVE  LlamaInv'
    BY <2>3, LlamaOnEnd, LlamaOnStrayEnd
  <2>4. QED
    BY <2>1, <2>2, <2>3 DEF LI!Next, Above
<1>2. QED
  BY <1>1, LlamaInitial, PTL DEF LI!Spec

(* An edge joins the start of an operation with its own end, however often *)
(* an end came and whatever came in between.                               *)
THEOREM LlamaIndexJoins == LI!Spec => []EdgesJoinSpans
<1>1. LlamaInv => EdgesJoinSpans
  BY DEF LlamaInv, LlamaEdges, EndsLogged, EdgesJoinSpans
<1>2. QED
  BY <1>1, LlamaAlways, PTL

(* An operation that is ended twice is completed once.                     *)
THEOREM LlamaIndexCompletes == LI!Spec => []OneCompletion
<1>1. LlamaInv => OneCompletion
  BY DEF LlamaInv, LlamaSpans, OneCompletion
<1>2. QED
  BY <1>1, LlamaAlways, PTL

(* Every operation that ended is linked once; what the handler keeps is    *)
(* what is open; and a start hangs under the span of its parent if that    *)
(* was open, in whatever step the callback ran, and else under none.       *)
THEOREM LlamaIndexLineage == LI!Spec => [](LI!Complete /\ LI!Current /\ LI!Attributed)
<1>1. ASSUME LlamaInv, mem.link, NEW i \in DOMAIN log, NEW j \in DOMAIN log
      PROVE  DerivedOnce(i, j)
  <2>1. /\ edges \in Seq(LogEdge) /\ IsInjective(edges) /\ LlamaSpans
        /\ log[i].part = "start" /\ log[j].part = "end" /\ log[j].span = i
             => Linked(i, j, "DERIVED_FROM")
    BY <1>1 DEF LlamaInv, LlamaTypes, LlamaEdges
  <2>2. ASSUME log[i].part = "start", log[j].part = "end", log[i].span = log[j].span
        PROVE  Times(i, j, "DERIVED_FROM") = 1
    BY <2>1, <2>2, LinkedOnce DEF LlamaSpans
  <2>3. QED
    BY <2>2 DEF DerivedOnce
<1>2. ASSUME LlamaInv PROVE LI!Complete
  <2>1. \A S : LI!Cardinality(S) = Cardinality(S)
    BY DEF LI!Cardinality, Cardinality
  <2>2. \A i, j : LI!DerivedOnce(i, j) <=> DerivedOnce(i, j)
    BY <2>1 DEF LI!DerivedOnce, DerivedOnce, LI!Times, Times
  <2>3. QED
    BY <1>1, <1>2, <2>2 DEF LI!Complete
<1>3. LlamaInv => LI!Current
  BY DEF LlamaInv, LlamaOp, LI!Current, LI!IsOpen
<1>4. ASSUME LlamaInv, NEW j \in DOMAIN log, log[j].part = "start",
             NEW parents, parents = {i \in 1 .. j - 1 : /\ log[i].part = "start"
                                                        /\ log[i].owner = fw.parent[log[j].owner]}
      PROVE  /\ IF \E i \in parents : OpenAt(i, j)
                THEN \E i \in parents : log[j].parent = log[i].span
                ELSE log[j].parent \in Above
             /\ fw.phase[log[j].owner] = "ended" => Completed(log[j].span)
  <2>i. /\ LlamaTypes /\ LlamaSpans /\ LlamaParents /\ (\A o \in Op : LlamaOp(o))
        /\ DOMAIN log = 1 .. Len(log) /\ Len(log) \in Nat /\ j \in Nat
        /\ IsStartOf(j, log[j].owner) /\ log[j].owner \in Op
        /\ \A k \in DOMAIN log : log[k].run = "run"
    BY <1>4, LlamaEvents, LenProperties DEF LlamaInv, LlamaTypes
  <2>1. /\ parents = {i \in DOMAIN log : i < j /\ log[i].part = "start"
                                               /\ log[i].owner = fw.parent[log[j].owner]}
        /\ \A i \in parents : i \in DOMAIN log /\ log[i].span = i
    BY <1>4, <2>i DEF LlamaSpans
  <2>2. \A i \in parents : OpenAt(i, j) <=> ~ ClosedBy(i, j)
    BY <1>4, <2>i, <2>1 DEF OpenAt, Of, ClosedBy
  <2>3. /\ \A i \in parents : ~ ClosedBy(i, j) => log[j].parent = i
        /\ (\A i \in parents : ClosedBy(i, j)) => log[j].parent \in Above
    BY <1>4, <2>i, <2>1 DEF LlamaParents
  <2>4. fw.phase[log[j].owner] = "ended" => Completed(log[j].span)
    BY <1>4, <2>i DEF LlamaOp, LlamaSpans, Completed, Of
  <2>5. QED
    BY <2>1, <2>2, <2>3, <2>4
<1>5. LlamaInv => LI!Attributed
  BY <1>4 DEF LI!Attributed, LI!OpenAt, OpenAt, LI!Of, Of, LI!Completed, Completed, Above
<1>6. LlamaInv => LI!Complete /\ LI!Current /\ LI!Attributed
  BY <1>2, <1>3, <1>5
<1>7. QED
  BY <1>6, LlamaAlways, PTL

-----------------------------------------------------------------------------
(* OpenAI Agents: traces side by side, with the same span ids in each *)

AgentEvent == EventIn(Nat \ {0}, Span, Span \cup {NoSpan}, Trace)
TraceState == [run : Nat \ {0}, starts : [Span -> Nat], ended : SUBSET Span]

Progress == {"idle", "open", "ended"}

AgentTypes ==
  /\ log \in Seq(AgentEvent) /\ edges \in Seq(LogEdge)
  /\ fw \in [trace : [Trace -> Progress], span : [Trace -> [Span -> Progress]],
             parent : [Trace -> [Span -> Span \cup {NoSpan}]], repeats : Int]
  /\ mem \in [link : BOOLEAN, traces : [Trace -> TraceState \cup {OA!NoState}], runs : Nat]

HasEvent(i, part, t, s) ==
  i \in DOMAIN log /\ log[i].part = part /\ log[i].owner = t /\ log[i].span = s

(* A trace is given a run no event has yet, and never a second one.        *)
AgentRuns ==
  /\ \A t \in Trace : OA!Live(t) <=> fw.trace[t] = "open"
  /\ \A t \in Trace : OA!Live(t) => mem.traces[t].run <= mem.runs
  /\ \A t, u \in Trace :
       OA!Live(t) /\ OA!Live(u) /\ mem.traces[t].run = mem.traces[u].run => t = u
  /\ \A i \in DOMAIN log : log[i].run <= mem.runs /\ fw.trace[log[i].owner] # "idle"
  /\ \A i \in DOMAIN log : \A t \in Trace :
       OA!Live(t) => (log[i].run = mem.traces[t].run <=> log[i].owner = t)
  /\ OA!Attributed

(* The events of a span are those its phase allows, one of each.           *)
AgentSpan(t, s) ==
  /\ \A i : HasEvent(i, "start", t, s) =>
       fw.span[t][s] # "idle" /\ log[i].parent = fw.parent[t][s]
  /\ \A i, j : HasEvent(i, "start", t, s) /\ HasEvent(j, "start", t, s) => i = j
  /\ \A i : HasEvent(i, "end", t, s) => fw.span[t][s] = "ended"
  /\ \A i, j : HasEvent(i, "end", t, s) /\ HasEvent(j, "end", t, s) => i = j
  /\ fw.span[t][s] # "idle" /\ fw.parent[t][s] # NoSpan =>
       fw.span[t][fw.parent[t][s]] # "idle"

(* The state of a live trace tells which spans wait for their end, at      *)
(* which start, and which have had it.                                     *)
AgentState(t, s) ==
  LET state == mem.traces[t] IN
  OA!Live(t) =>
    /\ s \in state.ended <=> \E i : HasEvent(i, "end", t, s)
    /\ \A i : state.starts[s] = i /\ i # NoId =>
         mem.link /\ fw.span[t][s] = "open" /\ HasEvent(i, "start", t, s)
    /\ \A i : HasEvent(i, "start", t, s) =>
         /\ mem.link /\ fw.span[t][s] = "open" => state.starts[s] = i
         /\ fw.span[t][s] = "ended" => s \in state.ended

IsDerived(i, j) ==
  /\ log[i].part = "start" /\ log[j].part = "end"
  /\ log[i].run = log[j].run /\ log[i].span = log[j].span

AgentEdges ==
  /\ EndsLogged /\ IsInjective(edges) /\ \A e \in ToSet(edges) : WithinRun(e)
  /\ mem.link => \A i, j \in DOMAIN log :
       /\ IsDerived(i, j) => Linked(i, j, "DERIVED_FROM")
       /\ IsChildOf(j, i) => Linked(i, j, "INFORMED")

AgentInv ==
  /\ AgentTypes /\ AgentRuns /\ AgentEdges
  /\ \A t \in Trace, s \in Span : AgentSpan(t, s) /\ AgentState(t, s)

LEMMA AgentEvents ==
  ASSUME AgentTypes, NEW i \in DOMAIN log
  PROVE  /\ i \in Nat \ {0} /\ log[i].run \in Nat \ {0} /\ log[i].owner \in Trace
         /\ log[i].span \in Span /\ log[i].parent \in Span \cup {NoSpan}
<1>1. i \in Nat \ {0} /\ log[i] \in AgentEvent
  BY ElementOfSeq, LenProperties DEF AgentTypes
<1>2. \A e \in AgentEvent : /\ e.run \in Nat \ {0} /\ e.owner \in Trace
                            /\ e.span \in Span /\ e.parent \in Span \cup {NoSpan}
  BY DEF AgentEvent, EventIn
<1>3. QED
  BY <1>1, <1>2

LEMMA AgentStates ==
  ASSUME AgentTypes, NEW t \in Trace
  PROVE  /\ OA!Live(t) => /\ mem.traces[t] \in TraceState
                          /\ mem.traces[t].run \in Nat \ {0}
                          /\ mem.traces[t].starts \in [Span -> Nat]
                          /\ mem.traces[t].ended \in SUBSET Span
         /\ mem.runs \in Nat /\ mem.link \in BOOLEAN
         /\ \A x \in TraceState : x # OA!NoState
<1>1. \A x \in TraceState : /\ x.run \in Nat \ {0} /\ x.starts \in [Span -> Nat]
                            /\ x.ended \in SUBSET Span
  BY DEF TraceState
<1>2. OA!NoState.run = 0
  BY DEF OA!NoState, OA!NoId
<1>3. mem.traces[t] \in TraceState \cup {OA!NoState} /\ mem.runs \in Nat /\ mem.link \in BOOLEAN
  BY DEF AgentTypes
<1>4. \A x \in TraceState : x # OA!NoState
  BY <1>1, <1>2
<1>5. QED
  BY <1>1, <1>3, <1>4 DEF OA!Live

LEMMA AgentInitial == OA!Init => AgentInv
<1> SUFFICES ASSUME OA!Init PROVE AgentInv
  OBVIOUS
<1>1. /\ log = <<>> /\ edges = <<>> /\ DOMAIN log = {} /\ ToSet(edges) = {}
      /\ IsInjective(edges) /\ edges \in Seq(LogEdge) /\ log \in Seq(AgentEvent)
  BY NoEdges, EmptySeq DEF OA!Init
<1>2. AgentTypes
  BY <1>1 DEF AgentTypes, OA!Init, Progress
<1>3. \A t \in Trace : fw.trace[t] = "idle" /\ ~ OA!Live(t)
  BY DEF OA!Init, OA!Live
<1>4. \A t \in Trace : \A s \in Span : fw.span[t][s] = "idle"
  BY DEF OA!Init
<1>5. \A t \in Trace, s \in Span : AgentSpan(t, s) /\ AgentState(t, s)
  BY <1>1, <1>3, <1>4 DEF AgentSpan, AgentState, HasEvent
<1>6. AgentRuns
  BY <1>1, <1>3 DEF AgentRuns, OA!Attributed
<1>7. AgentEdges
  BY <1>1 DEF AgentEdges, EndsLogged
<1>8. QED
  BY <1>2, <1>5, <1>6, <1>7 DEF AgentInv

(* The spans that a step is not about keep what holds of them.             *)
LEMMA AgentKept ==
  ASSUME NEW t \in Trace, NEW s \in Span, AgentSpan(t, s), AgentState(t, s),
         \A i, part : part \in {"start", "end"} =>
           (HasEvent(i, part, t, s)' <=> HasEvent(i, part, t, s)),
         \A i \in DOMAIN log : log'[i] = log[i],
         fw'.span[t][s] = fw.span[t][s], fw'.parent[t][s] = fw.parent[t][s],
         \A r : fw.span[t][r] # "idle" => fw'.span[t][r] # "idle",
         mem'.link = mem.link,
         OA!Live(t)' => /\ OA!Live(t)
                        /\ s \in mem'.traces[t].ended <=> s \in mem.traces[t].ended
                        /\ mem'.traces[t].starts[s] = mem.traces[t].starts[s]
  PROVE  AgentSpan(t, s)' /\ AgentState(t, s)'
<1>1. /\ \A i : HasEvent(i, "start", t, s)' <=> HasEvent(i, "start", t, s)
      /\ \A i : HasEvent(i, "end", t, s)' <=> HasEvent(i, "end", t, s)
      /\ \A i : HasEvent(i, "start", t, s) => log'[i] = log[i]
  BY DEF HasEvent
<1>2. AgentSpan(t, s)'
  BY <1>1 DEF AgentSpan
<1>3. AgentState(t, s)'
  BY <1>1 DEF AgentState
<1>4. QED
  BY <1>2, <1>3

(* A callback that records nothing leaves the edges what they were.        *)
LEMMA AgentSilent ==
  ASSUME AgentEdges, UNCHANGED <<log, edges>>, mem'.link = mem.link
  PROVE  AgentEdges' /\ \A i, part, t, s : HasEvent(i, part, t, s)' <=> HasEvent(i, part, t, s)
  BY DEF AgentEdges, EndsLogged, WithinRun, JoinsSpans, Derives, Informs, IsDerived, IsChildOf,
         Linked, HasEvent

(* A trace that is announced gets a run of its own; one that is live keeps *)
(* its run.                                                                *)
LEMMA AgentOnTraceStart ==
  ASSUME AgentInv, NEW t \in Trace, OA!OnTraceStart(t)
  PROVE  AgentInv'
<1>i. /\ AgentTypes /\ AgentRuns /\ AgentEdges
      /\ \A u \in Trace, s \in Span : AgentSpan(u, s) /\ AgentState(u, s)
  BY DEF AgentInv
<1>1. log' = log /\ edges' = edges
  BY DEF OA!OnTraceStart
<1>2. CASE fw.trace[t] = "open"
  <2>1. OA!Live(t) /\ mem' = mem
    BY <1>i, <1>2 DEF AgentRuns, OA!OnTraceStart
  <2>2. fw' = [fw EXCEPT !.repeats = fw.repeats + 1] /\ fw.repeats + 1 \in Int
    BY <1>i, <1>2 DEF OA!OnTraceStart, OA!Repeat, AgentTypes
  <2>3. /\ fw' \in [trace : [Trace -> Progress], span : [Trace -> [Span -> Progress]],
                    parent : [Trace -> [Span -> Span \cup {NoSpan}]], repeats : Int]
        /\ fw'.trace = fw.trace /\ fw'.span = fw.span /\ fw'.parent = fw.parent
    BY <1>i, <2>2 DEF AgentTypes
  <2>4. AgentTypes' /\ AgentRuns'
    BY <1>i, <1>1, <2>1, <2>3 DEF AgentTypes, AgentRuns, OA!Live, OA!Attributed
  <2>5. AgentEdges' /\ \A i, part, u, s : HasEvent(i, part, u, s)' <=> HasEvent(i, part, u, s)
    BY <1>i, <1>1, <2>1, AgentSilent
  <2>6. ASSUME NEW u \in Trace, NEW s \in Span PROVE AgentSpan(u, s)' /\ AgentState(u, s)'
    <3>1. OA!Live(u)' <=> OA!Live(u)
      BY <2>1 DEF OA!Live
    <3>2. QED
      BY <1>i, <1>1, <2>1, <2>3, <2>5, <3>1, AgentKept
  <2>7. QED
    BY <2>4, <2>5, <2>6 DEF AgentInv
<1>3. CASE fw.trace[t] = "idle"
  <2>1. ~ OA!Live(t)
    BY <1>i, <1>3 DEF AgentRuns
  <2>2. /\ fw' = [fw EXCEPT !.trace[t] = "open"]
        /\ mem' = [mem EXCEPT !.traces[t] = OA!NewState, !.runs = mem.runs + 1]
    BY <1>3, <2>1 DEF OA!OnTraceStart
  <2>3. /\ OA!NewState \in TraceState /\ OA!NewState.run = mem.runs + 1
        /\ OA!NewState.ended = {} /\ (\A s \in Span : OA!NewState.starts[s] = NoId)
        /\ OA!NewState # OA!NoState /\ mem.runs + 1 \in Nat \ {0} /\ mem.runs \in Nat
    <3>1. mem.runs \in Nat /\ mem.runs + 1 \in Nat \ {0}
      BY <1>i DEF AgentTypes
    <3>2. OA!NewState \in TraceState
      BY <3>1 DEF OA!NewState, TraceState, OA!NoId
    <3>3. QED
      BY <1>i, <3>1, <3>2, AgentStates DEF OA!NewState, OA!NoId, NoId
  <2>4. /\ fw' \in [trace : [Trace -> Progress], span : [Trace -> [Span -> Progress]],
                    parent : [Trace -> [Span -> Span \cup {NoSpan}]], repeats : Int]
        /\ fw'.trace[t] = "open" /\ \A u \in Trace \ {t} : fw'.trace[u] = fw.trace[u]
        /\ fw'.span = fw.span /\ fw'.parent = fw.parent
    BY <1>i, <2>2 DEF AgentTypes, Progress
  <2>5. /\ mem' \in [link : BOOLEAN, traces : [Trace -> TraceState \cup {OA!NoState}], runs : Nat]
        /\ mem'.link = mem.link /\ mem'.runs = mem.runs + 1
        /\ mem'.traces[t] = OA!NewState
        /\ \A u \in Trace \ {t} : mem'.traces[u] = mem.traces[u]
    BY <1>i, <2>2, <2>3 DEF AgentTypes
  <2>6. AgentTypes'
    BY <1>i, <1>1, <2>4, <2>5 DEF AgentTypes
  <2>7. OA!Live(t)' /\ \A u \in Trace \ {t} : OA!Live(u)' <=> OA!Live(u)
    BY <2>3, <2>5 DEF OA!Live
  <2>8. \A i \in DOMAIN log : log[i].owner \in Trace \ {t} /\ log[i].run \in Nat
    BY <1>i, <1>3, AgentEvents DEF AgentRuns
  <2>9. \A u \in Trace \ {t} : OA!Live(u) => mem.traces[u].run \in Nat
    BY <1>i, AgentStates
  <2>10. AgentRuns'
    <3>1. ASSUME NEW u \in Trace
          PROVE  /\ OA!Live(u)' <=> fw'.trace[u] = "open"
                 /\ OA!Live(u)' => mem'.traces[u].run <= mem'.runs
      <4>1. CASE u = t
        BY <2>3, <2>4, <2>5, <2>7, <4>1
      <4>2. CASE u # t
        <5>1. /\ OA!Live(u) <=> fw.trace[u] = "open"
              /\ OA!Live(u) => mem.traces[u].run <= mem.runs
          BY <1>i DEF AgentRuns
        <5>2. OA!Live(u) => mem.traces[u].run <= mem.runs + 1
          BY <2>3, <2>9, <4>2, <5>1
        <5>3. QED
          BY <2>4, <2>5, <2>7, <4>2, <5>1, <5>2
      <4>3. QED
        BY <4>1, <4>2
    <3>2. \A u \in Trace \ {t} : OA!Live(u)' =>
            mem'.traces[u].run = mem.traces[u].run /\ mem.traces[u].run < mem'.traces[t].run
      BY <1>i, <2>3, <2>5, <2>7, <2>9 DEF AgentRuns
    <3>3. \A u, v \in Trace :
            OA!Live(u)' /\ OA!Live(v)' /\ mem'.traces[u].run = mem'.traces[v].run => u = v
      <4> SUFFICES ASSUME NEW u \in Trace, NEW v \in Trace, OA!Live(u)', OA!Live(v)',
                          mem'.traces[u].run = mem'.traces[v].run
                   PROVE  u = v
        OBVIOUS
      <4>1. u = t <=> v = t
        BY <2>3, <2>5, <2>9, <3>2, <2>7
      <4>2. QED
        BY <1>i, <2>7, <3>2, <4>1 DEF AgentRuns
    <3>4. \A i \in DOMAIN log' : log'[i].run <= mem'.runs /\ fw'.trace[log'[i].owner] # "idle"
      BY <1>i, <1>1, <2>3, <2>4, <2>5, <2>8 DEF AgentRuns
    <3>5. \A i \in DOMAIN log' : \A u \in Trace :
            OA!Live(u)' => (log'[i].run = mem'.traces[u].run <=> log'[i].owner = u)
      <4> SUFFICES ASSUME NEW i \in DOMAIN log, NEW u \in Trace, OA!Live(u)'
                   PROVE  log[i].run = mem'.traces[u].run <=> log[i].owner = u
        BY <1>1
      <4>1. CASE u = t
        <5>1. log[i].run <= mem.runs /\ mem'.traces[u].run = mem.runs + 1
          BY <1>i, <2>3, <2>5, <4>1 DEF AgentRuns
        <5>2. log[i].run # mem'.traces[u].run
          BY <2>3, <2>8, <5>1
        <5>3. QED
          BY <2>8, <4>1, <5>2
      <4>2. CASE u # t
        BY <1>i, <2>7, <3>2, <4>2 DEF AgentRuns
      <4>3. QED
        BY <4>1, <4>2
    <3>6. OA!Attributed'
      BY <1>i, <1>1 DEF AgentRuns, OA!Attributed
    <3>7. QED
      BY <3>1, <3>3, <3>4, <3>5, <3>6 DEF AgentRuns
  <2>11. AgentEdges' /\ \A i, part, u, s : HasEvent(i, part, u, s)' <=> HasEvent(i, part, u, s)
    BY <1>i, <1>1, <2>5, AgentSilent
  <2>12. ASSUME NEW u \in Trace \ {t}, NEW s \in Span PROVE AgentSpan(u, s)' /\ AgentState(u, s)'
    BY <1>i, <1>1, <2>4, <2>5, <2>7, <2>11, AgentKept
  <2>13. ASSUME NEW s \in Span PROVE AgentSpan(t, s)' /\ AgentState(t, s)'
    <3>1. \A i, part : ~ HasEvent(i, part, t, s) /\ ~ HasEvent(i, part, t, s)'
      BY <2>8, <2>11, SMTT(60), ZenonT(60) DEF HasEvent
    <3>2. AgentSpan(t, s)'
      BY <1>i, <2>4, <3>1 DEF AgentSpan
    <3>3. s \notin mem'.traces[t].ended /\ mem'.traces[t].starts[s] = NoId
      BY <2>3, <2>5
    <3>4. QED
      BY <3>1, <3>2, <3>3 DEF AgentState
  <2>14. QED
    BY <2>6, <2>10, <2>11, <2>12, <2>13 DEF AgentInv
<1>4. QED
  BY <1>2, <1>3 DEF OA!OnTraceStart

(* After its end nothing is kept of a trace, and it never comes back.      *)
LEMMA AgentOnTraceEnd ==
  ASSUME AgentInv, NEW t \in Trace, OA!OnTraceEnd(t)
  PROVE  AgentInv'
<1>i. /\ AgentTypes /\ AgentRuns /\ AgentEdges
      /\ \A u \in Trace, s \in Span : AgentSpan(u, s) /\ AgentState(u, s)
  BY DEF AgentInv
<1>1. /\ log' = log /\ edges' = edges /\ fw.trace[t] = "open"
      /\ fw' = [fw EXCEPT !.trace[t] = "ended"]
      /\ mem' = [mem EXCEPT !.traces[t] = OA!NoState]
  BY DEF OA!OnTraceEnd
<1>2. /\ fw' \in [trace : [Trace -> Progress], span : [Trace -> [Span -> Progress]],
                  parent : [Trace -> [Span -> Span \cup {NoSpan}]], repeats : Int]
      /\ fw'.trace[t] = "ended" /\ \A u \in Trace \ {t} : fw'.trace[u] = fw.trace[u]
      /\ fw'.span = fw.span /\ fw'.parent = fw.parent
  BY <1>i, <1>1 DEF AgentTypes, Progress
<1>3. /\ mem' \in [link : BOOLEAN, traces : [Trace -> TraceState \cup {OA!NoState}], runs : Nat]
      /\ mem'.link = mem.link /\ mem'.runs = mem.runs /\ mem'.traces[t] = OA!NoState
      /\ \A u \in Trace \ {t} : mem'.traces[u] = mem.traces[u]
  BY <1>i, <1>1 DEF AgentTypes
<1>4. ~ OA!Live(t)' /\ \A u \in Trace \ {t} : OA!Live(u)' <=> OA!Live(u)
  BY <1>3 DEF OA!Live
<1>5. AgentTypes'
  BY <1>i, <1>1, <1>2, <1>3 DEF AgentTypes
<1>6. AgentRuns'
  <2>1. ASSUME NEW u \in Trace
        PROVE  /\ OA!Live(u)' <=> fw'.trace[u] = "open"
               /\ OA!Live(u)' => /\ OA!Live(u) /\ mem'.traces[u].run = mem.traces[u].run
                                 /\ mem'.traces[u].run <= mem'.runs
    <3>1. CASE u = t
      BY <1>2, <1>4, <3>1
    <3>2. CASE u # t
      <4>1. OA!Live(u)' <=> OA!Live(u)
        BY <1>4, <3>2
      <4>2. fw'.trace[u] = fw.trace[u] /\ mem'.traces[u] = mem.traces[u] /\ mem'.runs = mem.runs
        BY <1>2, <1>3, <3>2
      <4>3. QED
        BY <1>i, <4>1, <4>2 DEF AgentRuns
    <3>3. QED
      BY <3>1, <3>2
  <2>r. \A u, v \in Trace :
          OA!Live(u)' /\ OA!Live(v)' /\ mem'.traces[u].run = mem'.traces[v].run => u = v
    BY <1>i, <2>1 DEF AgentRuns
  <2>2. \A i \in DOMAIN log' : log'[i].run <= mem'.runs /\ fw'.trace[log'[i].owner] # "idle"
    BY <1>i, <1>1, <1>2, <1>3, AgentEvents DEF AgentRuns
  <2>3. \A i \in DOMAIN log' : \A u \in Trace :
          OA!Live(u)' => (log'[i].run = mem'.traces[u].run <=> log'[i].owner = u)
    BY <1>i, <1>1, <1>3, <1>4 DEF AgentRuns
  <2>4. OA!Attributed'
    BY <1>i, <1>1 DEF AgentRuns, OA!Attributed
  <2>5. QED
    BY <2>1, <2>r, <2>2, <2>3, <2>4 DEF AgentRuns
<1>7. AgentEdges' /\ \A i, part, u, s : HasEvent(i, part, u, s)' <=> HasEvent(i, part, u, s)
  BY <1>i, <1>1, <1>3, AgentSilent
<1>8. ASSUME NEW u \in Trace, NEW s \in Span PROVE AgentSpan(u, s)' /\ AgentState(u, s)'
  <2>1. CASE u = t
    BY <1>i, <1>1, <1>2, <1>3, <1>4, <1>7, <2>1, AgentKept
  <2>2. CASE u # t
    BY <1>i, <1>1, <1>2, <1>3, <1>4, <1>7, <2>2, AgentKept
  <2>3. QED
    BY <2>1, <2>2
<1>9. QED
  BY <1>5, <1>6, <1>7, <1>8 DEF AgentInv

(* An event recorded for a live trace goes to the run of that trace.       *)
LEMMA AgentRecords ==
  ASSUME AgentTypes, AgentRuns, NEW t \in Trace, OA!Live(t),
         NEW e \in AgentEvent, e.run = mem.traces[t].run, e.owner = t, Record(e),
         fw'.trace = fw.trace, mem'.runs = mem.runs,
         \A u \in Trace : /\ OA!Live(u)' <=> OA!Live(u)
                          /\ mem'.traces[u].run = mem.traces[u].run
  PROVE  /\ log' \in Seq(AgentEvent) /\ NextId \in Nat \ {0}
         /\ DOMAIN log' = DOMAIN log \cup {NextId} /\ NextId \notin DOMAIN log
         /\ \A i \in DOMAIN log : log'[i] = log[i]
         /\ log'[NextId] = e /\ AgentRuns'
<1>1. /\ log' \in Seq(AgentEvent) /\ NextId \in Nat \ {0}
      /\ DOMAIN log' = DOMAIN log \cup {NextId} /\ NextId \notin DOMAIN log
      /\ \A i \in DOMAIN log : log'[i] = log[i]
      /\ log'[NextId] = e
  BY Logged DEF AgentTypes
<1>2. /\ \A u \in Trace : OA!Live(u)' <=> fw'.trace[u] = "open"
      /\ \A u \in Trace : OA!Live(u)' => mem'.traces[u].run <= mem'.runs
      /\ \A u, v \in Trace :
           OA!Live(u)' /\ OA!Live(v)' /\ mem'.traces[u].run = mem'.traces[v].run => u = v
  BY DEF AgentRuns
<1>3. e.run <= mem.runs /\ fw.trace[e.owner] # "idle"
  BY DEF AgentRuns
<1>4. \A i \in DOMAIN log' : log'[i].run <= mem'.runs /\ fw'.trace[log'[i].owner] # "idle"
  BY <1>1, <1>3 DEF AgentRuns
<1>5. \A i \in DOMAIN log' : \A u \in Trace :
        OA!Live(u)' => (log'[i].run = mem'.traces[u].run <=> log'[i].owner = u)
  <2> SUFFICES ASSUME NEW i \in DOMAIN log', NEW u \in Trace, OA!Live(u)
               PROVE  log'[i].run = mem.traces[u].run <=> log'[i].owner = u
    OBVIOUS
  <2>1. CASE i \in DOMAIN log
    BY <1>1, <2>1 DEF AgentRuns
  <2>2. CASE i = NextId
    BY <1>1, <2>2 DEF AgentRuns
  <2>3. QED
    BY <1>1, <2>1, <2>2
<1>6. \A i \in DOMAIN log : log[i].owner = e.owner <=> log[i].run = e.run
  BY DEF AgentRuns
<1>7. OA!Attributed'
  BY <1>1, <1>6 DEF AgentRuns, OA!Attributed
<1>8. QED
  BY <1>1, <1>2, <1>4, <1>5, <1>7 DEF AgentRuns

(* A span that starts under an open parent of a live trace is linked to    *)
(* the start of that parent, if it was recorded.                           *)
LEMMA AgentOnSpanStart ==
  ASSUME NoSpan \notin Span, AgentInv, NEW t \in Trace, NEW s \in Span,
         NEW parent \in Span \cup {NoSpan}, OA!OnSpanStart(t, s, parent)
  PROVE  AgentInv'
<1> DEFINE state == mem.traces[t]
           starts == [state.starts EXCEPT ![s] = NextId]
           e == Event(state.run, "start", s, parent, t)
<1>i. /\ AgentTypes /\ AgentRuns /\ AgentEdges
      /\ \A u \in Trace, r \in Span : AgentSpan(u, r) /\ AgentState(u, r)
  BY DEF AgentInv
<1>1. /\ fw.span[t][s] = "idle" /\ fw.trace[t] # "ended"
      /\ parent # NoSpan => parent \in Span /\ parent # s /\ fw.span[t][parent] = "open"
      /\ fw' = [fw EXCEPT !.span[t][s] = "open", !.parent[t][s] = parent]
  BY DEF OA!OnSpanStart
<1>2. /\ fw' \in [trace : [Trace -> Progress], span : [Trace -> [Span -> Progress]],
                  parent : [Trace -> [Span -> Span \cup {NoSpan}]], repeats : Int]
      /\ fw'.trace = fw.trace /\ fw'.span[t][s] = "open" /\ fw'.parent[t][s] = parent
      /\ \A u \in Trace, r \in Span : u # t \/ r # s =>
           fw'.span[u][r] = fw.span[u][r] /\ fw'.parent[u][r] = fw.parent[u][r]
  BY <1>i, <1>1 DEF AgentTypes, Progress
<1>3. \A i : ~ HasEvent(i, "start", t, s) /\ ~ HasEvent(i, "end", t, s)
  BY <1>i, <1>1 DEF AgentSpan
<1>4. ASSUME NEW u \in Trace, NEW r, fw.span[u][r] # "idle"
      PROVE  fw'.span[u][r] # "idle"
  <2>1. CASE r \in Span
    BY <1>1, <1>2, <1>4, <2>1
  <2>2. CASE r \notin Span
    <3>1. fw.span[u] \in [Span -> Progress] /\ fw'.span[u] \in [Span -> Progress]
      BY <1>i, <1>2 DEF AgentTypes
    <3>2. fw'.span[u] = IF u = t THEN [fw.span[t] EXCEPT ![s] = "open"] ELSE fw.span[u]
      BY <1>i, <1>1 DEF AgentTypes
    <3>3. QED
      BY <1>4, <2>2, <3>1, <3>2
  <2>3. QED
    BY <2>1, <2>2
<1>5. CASE ~ OA!Live(t)
  <2>1. log' = log /\ edges' = edges /\ mem' = mem
    BY <1>5 DEF OA!OnSpanStart
  <2>2. AgentTypes' /\ AgentRuns'
    BY <1>i, <1>2, <2>1 DEF AgentTypes, AgentRuns, OA!Live, OA!Attributed
  <2>3. AgentEdges' /\ \A i, part, u, r : HasEvent(i, part, u, r)' <=> HasEvent(i, part, u, r)
    BY <1>i, <2>1, AgentSilent
  <2>4. \A u \in Trace : OA!Live(u)' <=> OA!Live(u)
    BY <2>1 DEF OA!Live
  <2>5. ASSUME NEW u \in Trace, NEW r \in Span PROVE AgentSpan(u, r)' /\ AgentState(u, r)'
    <3>1. CASE u = t /\ r = s
      <4>1. AgentState(t, s)'
        BY <1>5, <2>4 DEF AgentState
      <4>2. AgentSpan(t, s)'
        <5>1. parent # NoSpan => fw'.span[t][parent] # "idle"
          BY <1>1, <1>4
        <5>2. QED
          BY <1>2, <1>3, <2>3, <5>1 DEF AgentSpan
      <4>3. QED
        BY <3>1, <4>1, <4>2
    <3>2. CASE u # t \/ r # s
      BY <1>i, <1>2, <1>4, <2>1, <2>3, <2>4, <3>2, AgentKept, SMTT(60), ZenonT(60)
    <3>3. QED
      BY <3>1, <3>2
  <2>6. QED
    BY <2>2, <2>3, <2>5 DEF AgentInv
<1>6. CASE OA!Live(t)
  <2>1. /\ state \in TraceState /\ state.run \in Nat \ {0} /\ state.starts \in [Span -> Nat]
        /\ mem.link \in BOOLEAN /\ \A x \in TraceState : x # OA!NoState
    BY <1>i, <1>6, AgentStates
  <2>2. e \in AgentEvent /\ e.part = "start" /\ e.span = s /\ e.parent = parent /\ e.owner = t
        /\ e.run = state.run
    BY <2>1 DEF Event, AgentEvent, EventIn
  <2>3. /\ Record(e)
        /\ mem.link => /\ mem' = [mem EXCEPT !.traces[t].starts = starts]
                       /\ edges' = edges \o IF parent = NoSpan THEN <<>>
                                            ELSE Edge(starts[parent], NextId, "INFORMED")
        /\ ~ mem.link => mem' = mem /\ edges' = edges
    BY <1>6 DEF OA!OnSpanStart, OA!Record, Record, OA!Event, Event, OA!NextId, NextId,
                OA!Edge, Edge, OA!NoId, NoId
  <2> HIDE DEF e
  <2>n. NextId \in Nat \ {0}
    BY <1>i, LenProperties DEF AgentTypes, NextId
  <2>4. /\ mem' \in [link : BOOLEAN, traces : [Trace -> TraceState \cup {OA!NoState}], runs : Nat]
        /\ mem'.link = mem.link /\ mem'.runs = mem.runs
        /\ \A u \in Trace \ {t} : mem'.traces[u] = mem.traces[u]
        /\ mem'.traces[t].run = state.run /\ mem'.traces[t].ended = state.ended
        /\ mem'.traces[t].starts = IF mem.link THEN starts ELSE state.starts
        /\ mem'.traces[t] \in TraceState
    <3>1. CASE ~ mem.link
      <4>1. mem' = mem
        BY <2>3, <3>1
      <4>2. QED
        BY <1>i, <2>1, <3>1, <4>1 DEF AgentTypes
    <3>2. CASE mem.link
      <4> DEFINE new == [state EXCEPT !.starts = starts]
      <4>1. starts \in [Span -> Nat]
        BY <2>n, <2>1
      <4>2. new \in TraceState /\ new.run = state.run /\ new.ended = state.ended
            /\ new.starts = starts
        <5> HIDE DEF starts
        <5>1. QED
          BY <2>1, <4>1 DEF TraceState
      <4>3. mem' = [mem EXCEPT !.traces[t] = new]
        BY <2>3, <3>2
      <4> HIDE DEF new, starts
      <4>4. /\ mem' \in [link : BOOLEAN, traces : [Trace -> TraceState \cup {OA!NoState}],
                         runs : Nat]
            /\ mem'.link = mem.link /\ mem'.runs = mem.runs /\ mem'.traces[t] = new
            /\ \A u \in Trace \ {t} : mem'.traces[u] = mem.traces[u]
        BY <1>i, <4>2, <4>3 DEF AgentTypes
      <4>5. QED
        BY <3>2, <4>2, <4>4
    <3>3. QED
      BY <3>1, <3>2
  <2>5. \A u \in Trace : /\ OA!Live(u)' <=> OA!Live(u)
                         /\ mem'.traces[u].run = mem.traces[u].run
    BY <1>6, <2>1, <2>4 DEF OA!Live
  <2>6. /\ log' \in Seq(AgentEvent)
        /\ DOMAIN log' = DOMAIN log \cup {NextId} /\ NextId \notin DOMAIN log
        /\ \A i \in DOMAIN log : log'[i] = log[i]
        /\ log'[NextId] = e /\ AgentRuns'
    <3>1. e.run = mem.traces[t].run /\ e.owner = t /\ e \in AgentEvent /\ Record(e)
      BY <2>2, <2>3
    <3>2. fw'.trace = fw.trace /\ mem'.runs = mem.runs
      BY <1>2, <2>4
    <3>3. QED
      BY <1>i, <1>6, <2>5, <3>1, <3>2, AgentRecords
  <2>7. /\ \A i : HasEvent(i, "start", t, s)' <=> i = NextId
        /\ \A i : ~ HasEvent(i, "end", t, s)'
        /\ \A i, part, u, r : part \in {"start", "end"} /\ (u # t \/ r # s) =>
             (HasEvent(i, part, u, r)' <=> HasEvent(i, part, u, r))
    BY <1>3, <2>2, <2>6 DEF HasEvent
  <2>8. ASSUME NEW u \in Trace, NEW r \in Span PROVE AgentSpan(u, r)' /\ AgentState(u, r)'
    <3>1. CASE u = t /\ r = s
      <4>1. parent # NoSpan => fw'.span[t][parent] # "idle"
        BY <1>1, <1>4
      <4>2. AgentSpan(t, s)'
        BY <1>2, <2>2, <2>6, <2>7, <4>1 DEF AgentSpan
      <4>3. s \notin state.ended /\ state.starts[s] = NoId
        BY <1>i, <1>1, <1>3, <1>6, <2>1 DEF AgentState, NoId
      <4>4. mem'.link => mem'.traces[t].starts[s] = NextId
        BY <2>1, <2>4
      <4>5. ~ mem'.link => mem'.traces[t].starts[s] = NoId
        BY <2>4, <4>3
      <4>6. AgentState(t, s)'
        BY <1>2, <2>4, <2>7, <4>3, <4>4, <4>5 DEF AgentState, NoId
      <4>7. QED
        BY <3>1, <4>2, <4>6
    <3>2. CASE u # t \/ r # s
      <4>1. /\ r \in mem'.traces[u].ended <=> r \in mem.traces[u].ended
            /\ mem'.traces[u].starts[r] = mem.traces[u].starts[r]
        BY <2>1, <2>4, <3>2
      <4>2. \A i, part : part \in {"start", "end"} =>
              (HasEvent(i, part, u, r)' <=> HasEvent(i, part, u, r))
        BY <2>7, <3>2
      <4>3. /\ fw'.span[u][r] = fw.span[u][r] /\ fw'.parent[u][r] = fw.parent[u][r]
            /\ \A p : fw.span[u][p] # "idle" => fw'.span[u][p] # "idle"
        BY <1>2, <1>4, <3>2
      <4>4. /\ AgentSpan(u, r) /\ AgentState(u, r) /\ mem'.link = mem.link
            /\ OA!Live(u)' <=> OA!Live(u)
            /\ \A i \in DOMAIN log : log'[i] = log[i]
        BY <1>i, <2>4, <2>5, <2>6
      <4>5. QED
        BY <4>1, <4>2, <4>3, <4>4, AgentKept
    <3>3. QED
      BY <3>1, <3>2
  <2>9. edges' \in Seq(LogEdge) /\ AgentEdges'
    <3> DEFINE q == state.starts[parent]
    <3>i. /\ EndsLogged /\ IsInjective(edges) /\ edges \in Seq(LogEdge)
          /\ log \in Seq(AgentEvent) /\ \A x \in ToSet(edges) : WithinRun(x)
      BY <1>i DEF AgentEdges, AgentTypes
    <3>t. \A i \in DOMAIN log : log[i].run = state.run <=> log[i].owner = t
      BY <1>i, <1>6 DEF AgentRuns
    <3>1. ASSUME mem.link, NEW i \in DOMAIN log', NEW j \in DOMAIN log', IsDerived(i, j)'
          PROVE  Linked(i, j, "DERIVED_FROM")
      <4>1. j \in DOMAIN log /\ log'[j] = log[j] /\ log[j].part = "end"
        BY <2>2, <2>6, <3>1 DEF IsDerived
      <4>2. i # NextId
        <5> SUFFICES ASSUME i = NextId PROVE FALSE
          OBVIOUS
        <5>1. log[j].run = state.run /\ log[j].span = s
          BY <2>2, <2>6, <3>1, <4>1 DEF IsDerived
        <5>2. HasEvent(j, "end", t, s)
          BY <3>t, <4>1, <5>1 DEF HasEvent
        <5>3. QED
          BY <1>3, <5>2
      <4>3. i \in DOMAIN log /\ IsDerived(i, j)
        BY <2>6, <3>1, <4>1, <4>2 DEF IsDerived
      <4>4. QED
        BY <1>i, <3>1, <4>1, <4>3 DEF AgentEdges
    <3>2. ASSUME mem.link, NEW i \in DOMAIN log', NEW j \in DOMAIN log', IsChildOf(j, i)'
          PROVE  \/ Linked(i, j, "INFORMED")
                 \/ i \in DOMAIN log /\ j = NextId /\ parent \in Span /\ i = q
      <4>1. CASE i = NextId
        <5>1. log'[j].run = state.run /\ log'[j].parent = s /\ log'[j].part = "start"
          BY <2>2, <2>6, <3>2, <4>1 DEF IsChildOf
        <5>2. j \in DOMAIN log /\ log'[j] = log[j]
          BY <1>1, <2>2, <2>6, <5>1
        <5>3. log[j].owner = t /\ log[j].span \in Span
          BY <1>i, <3>t, <5>1, <5>2, AgentEvents
        <5>4. PICK c \in Span : HasEvent(j, "start", t, c)
          BY <5>1, <5>2, <5>3 DEF HasEvent
        <5>5. fw.span[t][c] # "idle" /\ fw.parent[t][c] = s /\ s # NoSpan
          BY <1>i, <5>1, <5>2, <5>4 DEF AgentSpan
        <5>6. fw.span[t][s] # "idle"
          BY <1>i, <5>5 DEF AgentSpan
        <5>7. QED
          BY <1>1, <5>6
      <4>2. CASE i \in DOMAIN log /\ j \in DOMAIN log
        <5>1. IsChildOf(j, i)
          BY <2>6, <3>2, <4>2 DEF IsChildOf
        <5>2. QED
          BY <1>i, <3>2, <4>2, <5>1 DEF AgentEdges
      <4>3. CASE i \in DOMAIN log /\ j = NextId
        <5>1. log[i].run = state.run /\ log[i].span = parent /\ log[i].part = "start"
          BY <2>2, <2>6, <3>2, <4>3 DEF IsChildOf
        <5>2. parent \in Span /\ HasEvent(i, "start", t, parent)
          BY <1>i, <3>t, <4>3, <5>1, AgentEvents DEF HasEvent
        <5>3. fw.span[t][parent] = "open" /\ AgentState(t, parent)
          BY <1>i, <1>1, <5>2
        <5>4. q = i
          BY <1>6, <3>2, <5>2, <5>3 DEF AgentState
        <5>5. QED
          BY <4>3, <5>2, <5>4
      <4>4. QED
        BY <2>6, <4>1, <4>2, <4>3
    <3> DEFINE x == [source |-> q, target |-> NextId, type |-> "INFORMED"]
    <3>3. CASE mem.link /\ parent \in Span /\ q # NoId
      <4>1. HasEvent(q, "start", t, parent)
        BY <1>i, <1>6, <3>3 DEF AgentState
      <4>2. q \in DOMAIN log /\ log[q].part = "start" /\ log[q].span = parent
            /\ log[q].owner = t /\ log[q].run = state.run
        BY <3>t, <4>1 DEF HasEvent
      <4>3. starts[parent] = q
        BY <1>1, <2>1, <3>3
      <4>4. edges' = edges \o Edge(q, NextId, "INFORMED")
        BY <2>3, <3>3, <4>3
      <4>5. "INFORMED" \in {"DERIVED_FROM", "INFORMED"}
            /\ IF "INFORMED" = "DERIVED_FROM" THEN e.part = "end" /\ log[q].span = e.span
                ELSE e.part = "start" /\ log[q].span = e.parent
        BY <2>2, <4>2
      <4> HIDE DEF q
      <4>6. /\ edges' \in Seq(LogEdge) /\ IsInjective(edges') /\ EndsLogged'
            /\ ToSet(edges') = ToSet(edges) \cup {x}
        BY <2>2, <2>3, <3>i, <4>2, <4>4, <4>5, LinkAdded
      <4>7. ASSUME NEW y \in ToSet(edges') PROVE WithinRun(y)'
        <5>1. CASE y \in ToSet(edges)
          <6>1. WithinRun(y) /\ y.source \in DOMAIN log /\ y.target \in DOMAIN log
            BY <3>i, <5>1 DEF EndsLogged
          <6>2. QED
            BY <2>6, <6>1 DEF WithinRun
        <5>2. CASE y = x
          <6>1. y.source = q /\ y.target = NextId
            BY <5>2
          <6>2. log'[y.source] = log[q] /\ log'[y.target] = e
            BY <2>6, <4>2, <6>1
          <6>3. QED
            BY <2>2, <4>2, <6>2 DEF WithinRun
        <5>3. QED
          BY <4>6, <5>1, <5>2
      <4>8. \A i, j, type : Linked(i, j, type) \/ (i = q /\ j = NextId /\ type = "INFORMED")
                            => Linked(i, j, type)'
        BY <4>6 DEF Linked
      <4>9. \A i, j \in DOMAIN log' : /\ IsDerived(i, j)' => Linked(i, j, "DERIVED_FROM")'
                                      /\ IsChildOf(j, i)' => Linked(i, j, "INFORMED")'
        BY <3>1, <3>2, <3>3, <4>8
      <4>10. edges' \in Seq(LogEdge) /\ IsInjective(edges') /\ EndsLogged'
        BY <4>6
      <4>11. \A y \in ToSet(edges') : WithinRun(y)'
        BY <4>7
      <4>12. QED
        BY <4>9, <4>10, <4>11 DEF AgentEdges
    <3>4. CASE ~ (mem.link /\ parent \in Span /\ q # NoId)
      <4>1. edges' = edges
        <5>1. CASE ~ mem.link
          BY <2>3, <5>1
        <5>2. CASE mem.link /\ parent = NoSpan
          BY <2>3, <3>i, <5>2, ConcatEmptySeq
        <5>3. CASE mem.link /\ parent # NoSpan /\ q = NoId
          <6>1. starts[parent] = NoId
            BY <1>1, <2>1, <5>3
          <6>2. edges' = edges \o <<>>
            BY <2>3, <5>3, <6>1 DEF Edge, NoId
          <6>3. QED
            BY <3>i, <6>2, ConcatEmptySeq
        <5>4. QED
          BY <3>4, <5>1, <5>2, <5>3
      <4>2. ASSUME NEW y \in ToSet(edges') PROVE WithinRun(y)'
        <5>1. WithinRun(y) /\ y.source \in DOMAIN log /\ y.target \in DOMAIN log
          BY <3>i, <4>1 DEF EndsLogged
        <5>2. QED
          BY <2>6, <5>1 DEF WithinRun
      <4>3. EndsLogged'
        BY <2>2, <2>3, <3>i, <4>1, EndsStayLogged DEF EndsLogged
      <4>4. \A i, j, type : Linked(i, j, type)' <=> Linked(i, j, type)
        BY <4>1 DEF Linked
      <4>5. mem.link => \A i \in DOMAIN log : ~ (parent \in Span /\ i = q)
        BY <1>i, <3>4, AgentEvents DEF NoId
      <4>6. mem.link => \A i, j \in DOMAIN log' :
                          /\ IsDerived(i, j)' => Linked(i, j, "DERIVED_FROM")'
                          /\ IsChildOf(j, i)' => Linked(i, j, "INFORMED")'
        BY <3>1, <3>2, <4>4, <4>5
      <4>7. QED
        BY <2>4, <3>i, <4>1, <4>2, <4>3, <4>6 DEF AgentEdges
    <3>5. QED
      BY <3>3, <3>4
  <2>10. AgentTypes'
    BY <1>2, <2>4, <2>6, <2>9 DEF AgentTypes
  <2>11. QED
    BY <2>6, <2>8, <2>9, <2>10 DEF AgentInv
<1>7. QED
  BY <1>5, <1>6

(* A span that ends is completed once while its trace is live, and linked  *)
(* to its start if that was recorded.                                      *)
LEMMA AgentOnSpanEnd ==
  ASSUME AgentInv, NEW t \in Trace, NEW s \in Span, OA!OnSpanEnd(t, s)
  PROVE  AgentInv'
<1> DEFINE state == mem.traces[t]
           e == Event(state.run, "end", s, fw.parent[t][s], t)
<1>i. /\ AgentTypes /\ AgentRuns /\ AgentEdges
      /\ \A u \in Trace, r \in Span : AgentSpan(u, r) /\ AgentState(u, r)
  BY DEF AgentInv
<1>1. /\ fw' \in [trace : [Trace -> Progress], span : [Trace -> [Span -> Progress]],
                  parent : [Trace -> [Span -> Span \cup {NoSpan}]], repeats : Int]
      /\ fw'.trace = fw.trace /\ fw'.parent = fw.parent
      /\ fw.span[t][s] \in {"open", "ended"} /\ fw'.span[t][s] = "ended"
      /\ fw'.span = [fw.span EXCEPT ![t][s] = "ended"]
  <2>1. CASE fw.span[t][s] = "open"
    <3>1. fw' = [fw EXCEPT !.span[t][s] = "ended"]
      BY <2>1 DEF OA!OnSpanEnd
    <3>2. QED
      BY <1>i, <2>1, <3>1 DEF AgentTypes, Progress
  <2>2. CASE fw.span[t][s] = "ended"
    <3>1. fw' = [fw EXCEPT !.repeats = fw.repeats + 1] /\ fw.repeats + 1 \in Int
      BY <1>i, <2>2 DEF OA!OnSpanEnd, OA!Repeat, AgentTypes
    <3>2. fw.span = [fw.span EXCEPT ![t][s] = "ended"]
      BY <1>i, <2>2 DEF AgentTypes
    <3>3. QED
      BY <1>i, <2>2, <3>1, <3>2 DEF AgentTypes
  <2>3. QED
    BY <2>1, <2>2 DEF OA!OnSpanEnd
<1>2. /\ \A u \in Trace, r \in Span : u # t \/ r # s => fw'.span[u][r] = fw.span[u][r]
      /\ \A u \in Trace : \A r : fw.span[u][r] # "idle" => fw'.span[u][r] # "idle"
  <2>1. \A u \in Trace : fw.span[u] \in [Span -> Progress]
    BY <1>i DEF AgentTypes
  <2>2. \A u \in Trace :
          fw'.span[u] = IF u = t THEN [fw.span[t] EXCEPT ![s] = "ended"] ELSE fw.span[u]
    BY <1>i, <1>1 DEF AgentTypes
  <2>3. \A r : [fw.span[t] EXCEPT ![s] = "ended"][r]
               = IF r = s THEN "ended" ELSE fw.span[t][r]
    BY <2>1
  <2>4. ASSUME NEW u \in Trace, NEW r
        PROVE  fw'.span[u][r] = IF u = t /\ r = s THEN "ended" ELSE fw.span[u][r]
    <3>1. CASE u = t
      BY <2>2, <2>3, <3>1
    <3>2. CASE u # t
      BY <2>2, <3>2
    <3>3. QED
      BY <3>1, <3>2
  <2>5. QED
    BY <2>4
<1>3. CASE ~ OA!Live(t) \/ s \in state.ended
  <2>1. log' = log /\ edges' = edges /\ mem' = mem
    BY <1>3 DEF OA!OnSpanEnd, OA!IsRepeat
  <2>2. AgentTypes' /\ AgentRuns'
    BY <1>i, <1>1, <2>1 DEF AgentTypes, AgentRuns, OA!Live, OA!Attributed
  <2>3. AgentEdges' /\ \A i, part, u, r : HasEvent(i, part, u, r)' <=> HasEvent(i, part, u, r)
    BY <1>i, <2>1, AgentSilent
  <2>4. \A u \in Trace : OA!Live(u)' <=> OA!Live(u)
    BY <2>1 DEF OA!Live
  <2>5. ASSUME NEW u \in Trace, NEW r \in Span PROVE AgentSpan(u, r)' /\ AgentState(u, r)'
    <3>1. CASE u = t /\ r = s
      <4>1. AgentSpan(t, s)'
        BY <1>i, <1>1, <1>2, <2>1, <2>3 DEF AgentSpan
      <4>2. OA!Live(t) => /\ s \in state.ended /\ \E i : HasEvent(i, "end", t, s)
                          /\ fw.span[t][s] = "ended"
        BY <1>i, <1>3 DEF AgentState, AgentSpan
      <4>3. OA!Live(t) => state.starts[s] = NoId
        BY <1>i, <4>2 DEF AgentState
      <4>4. AgentState(t, s)'
        BY <1>1, <2>1, <2>3, <2>4, <4>2, <4>3 DEF AgentState
      <4>5. QED
        BY <3>1, <4>1, <4>4
    <3>2. CASE u # t \/ r # s
      BY <1>i, <1>1, <1>2, <2>1, <2>3, <2>4, <3>2, AgentKept
    <3>3. QED
      BY <3>1, <3>2
  <2>6. QED
    BY <2>2, <2>3, <2>5 DEF AgentInv
<1>4. CASE OA!Live(t) /\ s \notin state.ended
  <2> DEFINE q == state.starts[s]
  <2>1. /\ state \in TraceState /\ state.run \in Nat \ {0} /\ state.starts \in [Span -> Nat]
        /\ state.ended \in SUBSET Span
        /\ mem.link \in BOOLEAN /\ \A x \in TraceState : x # OA!NoState
    BY <1>i, <1>4, AgentStates
  <2>2. e \in AgentEvent /\ e.part = "end" /\ e.span = s /\ e.owner = t /\ e.run = state.run
    BY <1>i, <2>1 DEF Event, AgentEvent, EventIn, AgentTypes
  <2>3. /\ Record(e)
        /\ mem' = [mem EXCEPT !.traces[t] =
                     [state EXCEPT !.ended = state.ended \cup {s},
                                   !.starts = [state.starts EXCEPT ![s] = NoId]]]
        /\ edges' = edges \o IF mem.link THEN Edge(q, NextId, "DERIVED_FROM") ELSE <<>>
    BY <1>i, <1>4 DEF OA!OnSpanEnd, OA!IsRepeat, OA!Record, Record, OA!Event, Event, OA!NextId,
                      NextId, OA!Edge, Edge, OA!NoId, NoId, AgentTypes
  <2> HIDE DEF e
  <2>4. /\ mem' \in [link : BOOLEAN, traces : [Trace -> TraceState \cup {OA!NoState}], runs : Nat]
        /\ mem'.link = mem.link /\ mem'.runs = mem.runs
        /\ \A u \in Trace \ {t} : mem'.traces[u] = mem.traces[u]
        /\ mem'.traces[t].run = state.run /\ mem'.traces[t].ended = state.ended \cup {s}
        /\ mem'.traces[t].starts = [state.starts EXCEPT ![s] = NoId]
        /\ mem'.traces[t] \in TraceState
    <3> DEFINE ended == state.ended \cup {s}
               starts == [state.starts EXCEPT ![s] = NoId]
               new == [state EXCEPT !.ended = ended, !.starts = starts]
    <3>1. ended \in SUBSET Span /\ starts \in [Span -> Nat]
      BY <2>1 DEF NoId
    <3>2. new \in TraceState /\ new.run = state.run /\ new.ended = ended /\ new.starts = starts
      <4> HIDE DEF ended, starts
      <4>1. QED
        BY <2>1, <3>1 DEF TraceState
    <3>3. mem' = [mem EXCEPT !.traces[t] = new]
      BY <2>3
    <3> HIDE DEF new
    <3>4. /\ mem' \in [link : BOOLEAN, traces : [Trace -> TraceState \cup {OA!NoState}], runs : Nat]
          /\ mem'.link = mem.link /\ mem'.runs = mem.runs /\ mem'.traces[t] = new
          /\ \A u \in Trace \ {t} : mem'.traces[u] = mem.traces[u]
      BY <1>i, <3>2, <3>3 DEF AgentTypes
    <3>5. QED
      BY <3>2, <3>4
  <2>5. \A u \in Trace : /\ OA!Live(u)' <=> OA!Live(u)
                         /\ mem'.traces[u].run = mem.traces[u].run
    BY <1>4, <2>1, <2>4 DEF OA!Live
  <2>6. /\ log' \in Seq(AgentEvent) /\ NextId \in Nat \ {0}
        /\ DOMAIN log' = DOMAIN log \cup {NextId} /\ NextId \notin DOMAIN log
        /\ \A i \in DOMAIN log : log'[i] = log[i]
        /\ log'[NextId] = e /\ AgentRuns'
    <3>1. e.run = mem.traces[t].run /\ e.owner = t /\ e \in AgentEvent /\ Record(e)
      BY <2>2, <2>3
    <3>2. fw'.trace = fw.trace /\ mem'.runs = mem.runs
      BY <1>1, <2>4
    <3>3. QED
      BY <1>i, <1>4, <2>5, <3>1, <3>2, AgentRecords
  <2>7. /\ \A i : ~ HasEvent(i, "end", t, s)
        /\ \A i : HasEvent(i, "start", t, s) => fw.span[t][s] = "open"
    BY <1>i, <1>1, <1>4 DEF AgentState
  <2>8. /\ \A i : HasEvent(i, "end", t, s)' <=> i = NextId
        /\ \A i : HasEvent(i, "start", t, s)' <=> HasEvent(i, "start", t, s)
        /\ \A i, part, u, r : part \in {"start", "end"} /\ (u # t \/ r # s) =>
             (HasEvent(i, part, u, r)' <=> HasEvent(i, part, u, r))
    BY <2>2, <2>6, <2>7 DEF HasEvent
  <2>9. ASSUME NEW u \in Trace, NEW r \in Span PROVE AgentSpan(u, r)' /\ AgentState(u, r)'
    <3>1. CASE u = t /\ r = s
      <4>1. \A i : HasEvent(i, "start", t, s) => log'[i] = log[i]
        BY <2>6 DEF HasEvent
      <4>2. AgentSpan(t, s)'
        <5>1. fw'.parent[t][s] = fw.parent[t][s] /\ fw.span[t][s] # "idle"
              /\ fw'.span[t][s] = "ended"
          BY <1>1
        <5>2. fw.parent[t][s] # NoSpan => fw'.span[t][fw.parent[t][s]] # "idle"
          BY <1>i, <1>2, <5>1 DEF AgentSpan
        <5>3. /\ \A i : HasEvent(i, "start", t, s) => log[i].parent = fw.parent[t][s]
              /\ \A i, j : HasEvent(i, "start", t, s) /\ HasEvent(j, "start", t, s) => i = j
          BY <1>i DEF AgentSpan
        <5>4. QED
          BY <2>8, <4>1, <5>1, <5>2, <5>3 DEF AgentSpan
      <4>3. s \in mem'.traces[t].ended /\ mem'.traces[t].starts[s] = NoId
        BY <2>1, <2>4
      <4>4. AgentState(t, s)'
        BY <1>1, <2>8, <4>3 DEF AgentState
      <4>5. QED
        BY <3>1, <4>2, <4>4
    <3>2. CASE u # t \/ r # s
      <4>1. /\ r \in mem'.traces[u].ended <=> r \in mem.traces[u].ended
            /\ mem'.traces[u].starts[r] = mem.traces[u].starts[r]
        BY <2>1, <2>4, <3>2
      <4>2. \A i, part : part \in {"start", "end"} =>
              (HasEvent(i, part, u, r)' <=> HasEvent(i, part, u, r))
        BY <2>8, <3>2
      <4>3. /\ fw'.span[u][r] = fw.span[u][r] /\ fw'.parent[u][r] = fw.parent[u][r]
            /\ \A p : fw.span[u][p] # "idle" => fw'.span[u][p] # "idle"
        BY <1>1, <1>2, <3>2
      <4>4. /\ AgentSpan(u, r) /\ AgentState(u, r) /\ mem'.link = mem.link
            /\ OA!Live(u)' <=> OA!Live(u)
            /\ \A i \in DOMAIN log : log'[i] = log[i]
        BY <1>i, <2>4, <2>5, <2>6
      <4>5. QED
        BY <4>1, <4>2, <4>3, <4>4, AgentKept
    <3>3. QED
      BY <3>1, <3>2
  <2>10. edges' \in Seq(LogEdge) /\ AgentEdges'
    <3>i. /\ EndsLogged /\ IsInjective(edges) /\ edges \in Seq(LogEdge)
          /\ log \in Seq(AgentEvent) /\ \A x \in ToSet(edges) : WithinRun(x)
      BY <1>i DEF AgentEdges, AgentTypes
    <3>t. \A i \in DOMAIN log : log[i].run = state.run <=> log[i].owner = t
      BY <1>i, <1>4 DEF AgentRuns
    <3>1. ASSUME mem.link, NEW i \in DOMAIN log', NEW j \in DOMAIN log', IsDerived(i, j)'
          PROVE  \/ Linked(i, j, "DERIVED_FROM")
                 \/ i \in DOMAIN log /\ j = NextId /\ i = q
      <4>1. i \in DOMAIN log /\ log[i].part = "start"
        BY <2>2, <2>6, <3>1 DEF IsDerived
      <4>2. CASE j \in DOMAIN log
        <5>1. IsDerived(i, j)
          BY <2>6, <3>1, <4>1, <4>2 DEF IsDerived
        <5>2. QED
          BY <1>i, <3>1, <4>1, <4>2, <5>1 DEF AgentEdges
      <4>3. CASE j = NextId
        <5>1. log[i].run = state.run /\ log[i].span = s
          BY <2>2, <2>6, <3>1, <4>1, <4>3 DEF IsDerived
        <5>2. HasEvent(i, "start", t, s)
          BY <3>t, <4>1, <5>1 DEF HasEvent
        <5>3. q = i
          BY <1>i, <1>4, <2>7, <3>1, <5>2 DEF AgentState
        <5>4. QED
          BY <4>1, <4>3, <5>3
      <4>4. QED
        BY <2>6, <4>2, <4>3
    <3>2. ASSUME mem.link, NEW i \in DOMAIN log', NEW j \in DOMAIN log', IsChildOf(j, i)'
          PROVE  Linked(i, j, "INFORMED")
      <4>1. i \in DOMAIN log /\ j \in DOMAIN log
        BY <2>2, <2>6, <3>2 DEF IsChildOf
      <4>2. IsChildOf(j, i)
        BY <2>6, <3>2, <4>1 DEF IsChildOf
      <4>3. QED
        BY <1>i, <3>2, <4>1, <4>2 DEF AgentEdges
    <3> DEFINE x == [source |-> q, target |-> NextId, type |-> "DERIVED_FROM"]
    <3>3. CASE mem.link /\ q # NoId
      <4>1. HasEvent(q, "start", t, s)
        BY <1>i, <1>4, <3>3 DEF AgentState
      <4>2. q \in DOMAIN log /\ log[q].part = "start" /\ log[q].span = s
            /\ log[q].owner = t /\ log[q].run = state.run
        BY <3>t, <4>1 DEF HasEvent
      <4>3. edges' = edges \o Edge(q, NextId, "DERIVED_FROM")
        BY <2>3, <3>3
      <4>4. "DERIVED_FROM" \in {"DERIVED_FROM", "INFORMED"}
            /\ IF "DERIVED_FROM" = "DERIVED_FROM" THEN e.part = "end" /\ log[q].span = e.span
                ELSE e.part = "start" /\ log[q].span = e.parent
        BY <2>2, <4>2
      <4> HIDE DEF q
      <4>5. /\ edges' \in Seq(LogEdge) /\ IsInjective(edges') /\ EndsLogged'
            /\ ToSet(edges') = ToSet(edges) \cup {x}
        BY <2>2, <2>3, <3>i, <4>2, <4>3, <4>4, LinkAdded, SMTT(60), ZenonT(60)
      <4>6. ASSUME NEW y \in ToSet(edges') PROVE WithinRun(y)'
        <5>1. CASE y \in ToSet(edges)
          <6>1. WithinRun(y) /\ y.source \in DOMAIN log /\ y.target \in DOMAIN log
            BY <3>i, <5>1 DEF EndsLogged
          <6>2. QED
            BY <2>6, <6>1 DEF WithinRun
        <5>2. CASE y = x
          <6>1. y.source = q /\ y.target = NextId
            BY <5>2
          <6>2. log'[y.source] = log[q] /\ log'[y.target] = e
            BY <2>6, <4>2, <6>1
          <6>3. QED
            BY <2>2, <4>2, <6>2 DEF WithinRun
        <5>3. QED
          BY <4>5, <5>1, <5>2
      <4>7. \A i, j, type : Linked(i, j, type) \/ (i = q /\ j = NextId /\ type = "DERIVED_FROM")
                            => Linked(i, j, type)'
        BY <4>5 DEF Linked
      <4>8. \A i, j \in DOMAIN log' : /\ IsDerived(i, j)' => Linked(i, j, "DERIVED_FROM")'
                                      /\ IsChildOf(j, i)' => Linked(i, j, "INFORMED")'
        BY <3>1, <3>2, <3>3, <4>7
      <4>9. edges' \in Seq(LogEdge) /\ IsInjective(edges') /\ EndsLogged'
        BY <4>5
      <4>10. QED
        BY <4>6, <4>8, <4>9 DEF AgentEdges
    <3>4. CASE ~ (mem.link /\ q # NoId)
      <4>1. edges' = edges
        <5>1. edges' = edges \o <<>>
          BY <2>3, <3>4 DEF Edge, NoId
        <5>2. QED
          BY <3>i, <5>1, ConcatEmptySeq
      <4>2. ASSUME NEW y \in ToSet(edges') PROVE WithinRun(y)'
        <5>1. WithinRun(y) /\ y.source \in DOMAIN log /\ y.target \in DOMAIN log
          BY <3>i, <4>1 DEF EndsLogged
        <5>2. QED
          BY <2>6, <5>1 DEF WithinRun
      <4>3. EndsLogged'
        BY <2>2, <2>3, <3>i, <4>1, EndsStayLogged DEF EndsLogged
      <4>4. \A i, j, type : Linked(i, j, type)' <=> Linked(i, j, type)
        BY <4>1 DEF Linked
      <4>5. mem.link => \A i \in DOMAIN log : i # q
        BY <1>i, <3>4, AgentEvents DEF NoId
      <4>6. mem.link => \A i, j \in DOMAIN log' :
                          /\ IsDerived(i, j)' => Linked(i, j, "DERIVED_FROM")'
                          /\ IsChildOf(j, i)' => Linked(i, j, "INFORMED")'
        BY <3>1, <3>2, <4>4, <4>5
      <4>7. QED
        BY <2>4, <3>i, <4>1, <4>2, <4>3, <4>6 DEF AgentEdges
    <3>5. QED
      BY <3>3, <3>4
  <2>11. AgentTypes'
    BY <1>1, <2>4, <2>6, <2>10 DEF AgentTypes
  <2>12. QED
    BY <2>6, <2>9, <2>10, <2>11 DEF AgentInv
<1>5. QED
  BY <1>3, <1>4

LEMMA AgentAlways ==
  ASSUME NoSpan \notin Span
  PROVE  OA!Spec => []AgentInv
<1>1. AgentInv /\ [OA!Next]_(OA!logVars) => AgentInv'
  <2> SUFFICES ASSUME AgentInv, [OA!Next]_logVars PROVE AgentInv'
    BY DEF OA!logVars, logVars
  <2>1. CASE UNCHANGED logVars
    BY <2>1, SMTT(60), ZenonT(30) DEF logVars, AgentInv, AgentTypes, AgentRuns, AgentSpan, AgentState, AgentEdges,
                OA!Live, OA!Attributed, EndsLogged, Linked, HasEvent, WithinRun, JoinsSpans,
                Derives, Informs, IsDerived, IsChildOf
  <2>2. ASSUME NEW t \in Trace, OA!OnTraceStart(t) \/ OA!OnTraceEnd(t)
        PROVE  AgentInv'
    BY <2>2, AgentOnTraceStart, AgentOnTraceEnd
  <2>3. ASSUME NEW t \in Trace, NEW s \in Span, NEW parent \in Span \cup {NoSpan},
               OA!OnSpanStart(t, s, parent)
        PROVE  AgentInv'
    BY <2>3, AgentOnSpanStart
  <2>4. ASSUME NEW t \in Trace, NEW s \in Span, OA!OnSpanEnd(t, s)
        PROVE  AgentInv'
    BY <2>4, AgentOnSpanEnd
  <2>5. QED
    BY <2>1, <2>2, <2>3, <2>4 DEF OA!Next
<1>2. QED
  BY <1>1, AgentInitial, PTL DEF OA!Spec

(* No edge joins two traces, though both use the same span ids, nor two    *)
(* spans that are not a parent and its child.                              *)
THEOREM OpenAIAgentsJoin ==
  ASSUME NoSpan \notin Span
  PROVE  OA!Spec => [](EdgesJoinSpans /\ \A e \in ToSet(edges) : WithinRun(e))
<1>1. AgentInv => EdgesJoinSpans /\ \A e \in ToSet(edges) : WithinRun(e)
  BY DEF AgentInv, AgentEdges, EndsLogged, EdgesJoinSpans
<1>2. QED
  BY <1>1, AgentAlways, PTL

(* A span whose end is reported twice, before, during or after its trace,  *)
(* is completed at most once.                                              *)
THEOREM OpenAIAgentsComplete ==
  ASSUME NoSpan \notin Span
  PROVE  OA!Spec => []OneCompletion
<1>1. ASSUME AgentInv PROVE OneCompletion
  <2> SUFFICES ASSUME NEW i \in DOMAIN log, NEW j \in DOMAIN log, log[i].part = "end",
                      log[j].part = "end", log[i].run = log[j].run, log[i].span = log[j].span
               PROVE  i = j
    BY DEF OneCompletion
  <2>1. AgentTypes /\ OA!Attributed /\ \A t \in Trace, s \in Span : AgentSpan(t, s)
    BY <1>1 DEF AgentInv, AgentRuns
  <2>2. log[i].owner = log[j].owner /\ log[i].owner \in Trace /\ log[i].span \in Span
    BY <2>1, AgentEvents DEF OA!Attributed
  <2>3. PICK t \in Trace, s \in Span : HasEvent(i, "end", t, s) /\ HasEvent(j, "end", t, s)
    BY <2>2 DEF HasEvent
  <2>4. QED
    BY <2>1, <2>3 DEF AgentSpan
<1>2. QED
  BY <1>1, AgentAlways, PTL

(* A span recorded in full is linked, and a child to the start of its      *)
(* parent; the processor keeps state of live traces and open spans only;   *)
(* and the events of a trace share a run that no other trace has.          *)
THEOREM OpenAIAgentsLineage ==
  ASSUME NoSpan \notin Span
  PROVE  OA!Spec => [](OA!Complete /\ OA!Current /\ OA!Attributed)
<1>1. ASSUME AgentInv PROVE OA!Complete
  <2> SUFFICES ASSUME mem.link, NEW i \in DOMAIN log, NEW j \in DOMAIN log
               PROVE  OA!DerivedOnce(i, j) /\ OA!InformedOnce(i, j)
    BY DEF OA!Complete
  <2>1. /\ edges \in Seq(LogEdge) /\ IsInjective(edges)
        /\ IsDerived(i, j) => Linked(i, j, "DERIVED_FROM")
        /\ IsChildOf(j, i) => Linked(i, j, "INFORMED")
    BY <1>1 DEF AgentInv, AgentTypes, AgentEdges
  <2>2. DerivedOnce(i, j) /\ InformedOnce(i, j)
    BY <2>1, LinkedOnce DEF DerivedOnce, InformedOnce, IsDerived
  <2>3. \A S : OA!Cardinality(S) = Cardinality(S)
    BY DEF OA!Cardinality, Cardinality
  <2>4. QED
    BY <2>2, <2>3 DEF OA!DerivedOnce, DerivedOnce, OA!InformedOnce, InformedOnce, OA!IsChildOf,
                      IsChildOf, OA!Times, Times
<1>2. ASSUME AgentInv PROVE OA!Current
  <2> SUFFICES ASSUME NEW t \in Trace
               PROVE  /\ OA!Live(t) <=> fw.trace[t] = "open"
                      /\ OA!Live(t) => \A s \in Span :
                           /\ mem.traces[t].starts[s] # NoId =>
                                mem.link /\ fw.span[t][s] = "open"
                           /\ s \in mem.traces[t].ended => fw.span[t][s] = "ended"
    BY DEF OA!Current, OA!NoId, NoId
  <2>1. AgentRuns /\ \A s \in Span : AgentSpan(t, s) /\ AgentState(t, s)
    BY <1>2 DEF AgentInv
  <2>2. QED
    BY <2>1 DEF AgentRuns, AgentSpan, AgentState
<1>3. AgentInv => OA!Attributed
  BY DEF AgentInv, AgentRuns
<1>4. AgentInv => OA!Complete /\ OA!Current /\ OA!Attributed
  BY <1>1, <1>2, <1>3
<1>5. QED
  BY <1>4, AgentAlways, PTL

-----------------------------------------------------------------------------
(* CrewAI, for every number of kickoffs and operations, crews that are     *)
(* reused, and every order in which the bus delivers the events: the links *)
(* of what is recorded, and what is remembered of each run.                *)

CONSTANTS Kickoff, CrewOf, KickoffOf, ParentOf, Internal, LinkLifecycle

CW == INSTANCE CrewAI

-----------------------------------------------------------------------------
(* Kickoffs and operations whose events come in any order *)

(* The listener makes links.  The absence of a parent or of a key is None  *)
(* in the code, which no span, id or crew is; and what the listener does   *)
(* not hear of is no span.                                                 *)
CrewSorts ==
  /\ LinkLifecycle
  /\ CW!NoSpan \notin CW!Spans \cup {Internal} /\ Internal \notin CW!Spans
  /\ CW!NoKey \notin CW!Crew

Parents == {CW!Parent(s) : s \in CW!Spans} \cup {CW!NoSpan}
Homes == {CW!HomeOf(s) : s \in CW!Spans}
CrewEvent == EventIn(Nat \ {0}, CW!Spans, Parents, Homes)

SpanRec == [start : Nat, end : Nat, parent : Parents, derived : BOOLEAN, informed : BOOLEAN]
RunState ==
  [run : Nat \ {0}, isOpen : BOOLEAN, spans : [CW!Spans -> SpanRec],
   pending : [CW!Spans \cup {Internal} -> SUBSET CW!Spans]]

Phases == {"start", "end"}

CrewTypes ==
  /\ log \in Seq(CrewEvent) /\ edges \in Seq(LogEdge)
  /\ fw \in [emitted : SUBSET (CW!Spans \X Phases), bus : SUBSET (CW!Spans \X Phases)]
  /\ mem \in [runs : [CW!Crew -> RunState \cup {CW!NoState}], open : Seq(CW!Crew),
              last : CW!Crew \cup {CW!NoKey}, opened : Nat]

(* An event is emitted once; a kickoff ends when all before was delivered. *)
CrewBus ==
  /\ fw.bus \subseteq fw.emitted
  /\ \A s \in CW!Spans : CW!Emitted(s, "start") => CW!Parent(s) # s
  /\ \A s \in CW!Spans : CW!Emitted(s, "end") => CW!Emitted(s, "start")
  /\ \A s \in CW!Root : CW!Emitted(s, "end") => <<s, "start">> \notin fw.bus
  /\ \A s \in CW!Root : CW!Emitted(s, "start") /\ <<s, "start">> \notin fw.bus => CW!Known(CrewOf[s])

(* What was recorded is what was delivered, each event once.               *)
CrewEvents ==
  /\ \A i \in DOMAIN log :
       /\ log[i].part \in Phases /\ log[i].parent = CW!Parent(log[i].span)
       /\ <<log[i].span, log[i].part>> \in fw.emitted \ fw.bus
       /\ log[i].run <= mem.opened
  /\ \A i, j \in DOMAIN log :
       log[i].span = log[j].span /\ log[i].part = log[j].part => i = j

(* The edges are those of the pairs that belong together, each once.       *)
CrewEdges ==
  /\ EndsLogged /\ IsInjective(edges) /\ \A e \in ToSet(edges) : WithinRun(e)
  /\ \A i, j \in DOMAIN log :
       /\ IsDerived(i, j) => Linked(i, j, "DERIVED_FROM")
       /\ IsChildOf(j, i) => Linked(i, j, "INFORMED")

IsAt(i, run, s, part) ==
  i \in DOMAIN log /\ log[i].run = run /\ log[i].span = s /\ log[i].part = part

(* Where a state says that an event of span s is, or nowhere, is where it  *)
(* is in the log of the run.                                               *)
Locates(i, run, s, part) ==
  /\ i # 0 => IsAt(i, run, s, part)
  /\ \A j \in DOMAIN log : IsAt(j, run, s, part) => i = j

(* What is remembered of a span: where its events are, its parent once     *)
(* there is one, and which of its edges were made.                         *)
TracksSpan(state, s) ==
  LET rec == state.spans[s] IN
  /\ Locates(rec.start, state.run, s, "start") /\ Locates(rec.end, state.run, s, "end")
  /\ rec.parent = IF rec.start = 0 /\ rec.end = 0 THEN CW!NoSpan ELSE CW!Parent(s)
  /\ rec.derived <=> rec.start # 0 /\ rec.end # 0
  /\ rec.informed <=> rec.start # 0 /\ CW!StartOf(state, CW!Parent(s)) # 0

(* Those that wait for a parent are its children that started before it.   *)
Orphans(state, p) ==
  {c \in CW!Spans : state.spans[c].start # 0 /\ CW!Parent(c) = p /\ CW!StartOf(state, p) = 0}

Tracks(state) ==
  /\ \A s \in CW!Spans : TracksSpan(state, s)
  /\ \A p \in CW!Spans \cup {Internal} :
       state.pending[p] = Orphans(state, p) /\ IsFiniteSet(state.pending[p])

(* No two crews have the same run.                                         *)
CrewRuns ==
  /\ \A c \in CW!Crew : CW!Known(c) => mem.runs[c].run <= mem.opened /\ Tracks(mem.runs[c])
  /\ \A c, d \in CW!Crew :
       CW!Known(c) /\ CW!Known(d) /\ mem.runs[c].run = mem.runs[d].run => c = d

(* The crews that are open, each once; one that was ever opened is known.  *)
Apart == {pair \in CW!Crew \X CW!Crew : pair[1] # pair[2]}

CrewOpen ==
  /\ Increasing(mem.open, Apart)
  /\ \A c \in CW!Crew : c \in Range(mem.open) <=> CW!Known(c) /\ mem.runs[c].isOpen
  /\ mem.last # CW!NoKey => CW!Known(mem.last)

CrewInv ==
  CrewTypes /\ CrewBus /\ CrewEvents /\ CrewEdges /\ CrewRuns /\ CrewOpen

-----------------------------------------------------------------------------
(* The edges to those that wait *)

(* A finite set in the order of some sequence.                             *)
LEMMA SetInSeq ==
  ASSUME NEW W, IsFiniteSet(W)
  PROVE  /\ CW!SetToSeq(W) \in Seq(W) /\ IsInjective(CW!SetToSeq(W))
         /\ \A c \in W : \E k \in DOMAIN CW!SetToSeq(W) : CW!SetToSeq(W)[k] = c
<1> DEFINE m == Cardinality(W)
           Choice(f) == f \in [1 .. m -> W] /\ IsInjective(f)
<1>1. m \in Nat /\ ExistsBijection(1 .. m, W)
  BY FS_CardinalityType
<1>2. \E f : Choice(f)
  <2>1. PICK f : f \in Bijection(1 .. m, W)
    BY <1>1 DEF ExistsBijection
  <2>2. f \in [1 .. m -> W] /\ \A i, j \in 1 .. m : f[i] = f[j] => i = j
    BY <2>1 DEF Bijection, Injection, IsInjective
  <2>3. QED
    BY <2>2 DEF IsInjective
<1>3. CW!SetToSeq(W) = CHOOSE f \in [1 .. m -> W] : IsInjective(f)
  <2>1. CW!Cardinality(W) = m
    BY DEF CW!Cardinality, Cardinality
  <2>2. \A f : CW!IsInjective(f) <=> IsInjective(f)
    BY DEF CW!IsInjective, IsInjective
  <2> HIDE DEF m
  <2>3. QED
    BY <2>1, <2>2 DEF CW!SetToSeq
<1>4. PICK w : w = CW!SetToSeq(W) /\ Choice(w)
  BY <1>2, <1>3
<1>5. w \in Injection(1 .. m, W)
  BY <1>4 DEF Injection, IsInjective
<1>6. IsFiniteSet(1 .. m) /\ Cardinality(1 .. m) = m
  BY <1>1, FS_Interval
<1>7. w \in Surjection(1 .. m, W)
  BY <1>5, <1>6, FS_Injection
<1>8. \A c \in W : \E k \in 1 .. m : w[k] = c
  BY <1>7 DEF Surjection
<1>9. w \in Seq(W) /\ DOMAIN w = 1 .. m
  BY <1>1, <1>4, SeqDef
<1>10. QED
  BY <1>4, <1>8, <1>9

(* One after the other, sequences of one element are a sequence.           *)
LEMMA FlatSingles ==
  ASSUME NEW S, NEW x \in Seq(S), NEW seqs, seqs = [k \in DOMAIN x |-> <<x[k]>>]
  PROVE  CW!FlattenSeq(seqs) = x
<1> DEFINE m == Len(x)
           Flat(f) == f = [i \in 1 .. m |-> IF i = 1 THEN seqs[i] ELSE f[i - 1] \o seqs[i]]
           Begins == [i \in 1 .. m |-> SubSeq(x, 1, i)]
<1>1. m \in Nat /\ DOMAIN x = 1 .. m /\ DOMAIN seqs = 1 .. m
      /\ \A k \in 1 .. m : seqs[k] = <<x[k]>> /\ x[k] \in S
  BY LenProperties, ElementOfSeq
<1>2. seqs \in Seq(Seq(S)) /\ Len(seqs) = m
  <2>1. \A k \in 1 .. m : seqs[k] \in Seq(S)
    BY <1>1
  <2>2. seqs \in [1 .. m -> Seq(S)]
    BY <1>1, <2>1
  <2>3. QED
    BY <1>1, <2>2
<1>3. CASE m = 0
  <2>1. seqs = <<>> /\ x = <<>>
    BY <1>1, <1>2, <1>3, EmptySeq
  <2>2. QED
    BY <1>2, <1>3, <2>1 DEF CW!FlattenSeq
<1>4. CASE m # 0
  <2>1. CW!FlattenSeq(seqs) = (CHOOSE f : Flat(f))[m]
    BY <1>2, <1>4 DEF CW!FlattenSeq
  <2>2. \A i \in 1 .. m : SubSeq(x, 1, i) = IF i = 1 THEN seqs[i] ELSE SubSeq(x, 1, i - 1) \o seqs[i]
    <3> SUFFICES ASSUME NEW i \in 1 .. m
                 PROVE  SubSeq(x, 1, i) = IF i = 1 THEN seqs[i] ELSE SubSeq(x, 1, i - 1) \o seqs[i]
      OBVIOUS
    <3>1. SubSeq(x, 1, i) = SubSeq(x, 1, i - 1) \o <<x[i]>>
      BY <1>1, SubSeqRecursiveSecond
    <3>2. i = 1 => SubSeq(x, 1, i - 1) = <<>>
      BY SubSeqEmpty
    <3>3. <<x[i]>> \in Seq(S) /\ <<>> \o <<x[i]>> = <<x[i]>>
      BY <1>1, ConcatEmptySeq
    <3>4. QED
      BY <1>1, <3>1, <3>2, <3>3
  <2>3. Flat(Begins)
    <3>1. \A i \in 1 .. m : i # 1 => i - 1 \in 1 .. m
      BY <1>1
    <3>2. QED
      BY <2>2, <3>1
  <2>4. ASSUME NEW f, Flat(f) PROVE f[m] = x
    <3> DEFINE T == {i \in Nat : i + 1 <= m => f[i + 1] = SubSeq(x, 1, i + 1)}
    <3>1. \A i \in 1 .. m : f[i] = IF i = 1 THEN seqs[i] ELSE f[i - 1] \o seqs[i]
      BY <2>4
    <3>2. 0 \in T
      <4>1. 1 \in 1 .. m
        BY <1>1, <1>4
      <4>2. f[1] = SubSeq(x, 1, 1)
        BY <2>2, <3>1, <4>1
      <4>3. QED
        BY <4>2
    <3>3. ASSUME NEW i \in T PROVE i + 1 \in T
      <4> SUFFICES ASSUME i + 1 + 1 <= m PROVE f[i + 1 + 1] = SubSeq(x, 1, i + 1 + 1)
        BY <3>3
      <4>1. /\ i + 1 + 1 \in 1 .. m /\ i + 1 + 1 # 1 /\ i + 1 + 1 - 1 = i + 1 /\ i + 1 <= m
        BY <1>1, <3>3
      <4>2. f[i + 1] = SubSeq(x, 1, i + 1)
        BY <3>3, <4>1
      <4>3. PICK k \in 1 .. m : k = i + 1 + 1 /\ k # 1 /\ k - 1 = i + 1
        BY <4>1
      <4> HIDE DEF T, m
      <4>4. f[k] = f[k - 1] \o seqs[k] /\ SubSeq(x, 1, k) = SubSeq(x, 1, k - 1) \o seqs[k]
        BY <2>2, <3>1, <4>3
      <4>5. f[k] = SubSeq(x, 1, k)
        BY <4>2, <4>3, <4>4
      <4>6. QED
        BY <4>3, <4>5
    <3>4. T = Nat
      <4> HIDE DEF T
      <4>1. T \subseteq Nat
        BY DEF T
      <4>2. QED
        BY <3>2, <3>3, <4>1, SetInduction
    <3>5. m - 1 \in Nat /\ m - 1 + 1 = m
      BY <1>1, <1>4
    <3>6. f[m] = SubSeq(x, 1, m)
      <4>1. m - 1 + 1 <= m => f[m - 1 + 1] = SubSeq(x, 1, m - 1 + 1)
        <5>1. m - 1 \in T
          <6> HIDE DEF T
          <6>1. QED
            BY <3>4, <3>5
        <5> HIDE DEF m
        <5>2. QED
          BY <5>1
      <4>2. QED
        BY <1>1, <3>5, <4>1
    <3>7. QED
      BY <3>6, SubSeqFull
  <2>5. Flat(CHOOSE f : Flat(f))
    <3> HIDE DEF Flat
    <3>1. QED
      BY <2>3
  <2>6. QED
    BY <2>1, <2>4, <2>5
<1>5. QED
  BY <1>3, <1>4

(* The edges from one start to those that waited for it, each once.        *)
LEMMA EdgesToWaiting ==
  ASSUME NEW W, IsFiniteSet(W), NEW n \in Nat \ {0}, NEW f, \A c \in W : f[c] \in Nat \ {0, n},
         \A c, d \in W : f[c] = f[d] => c = d,
         NEW w, w = CW!SetToSeq(W),
         NEW s, s = CW!FlattenSeq([k \in DOMAIN w |-> CW!Edge(n, f[w[k]], "INFORMED")])
  PROVE  /\ s \in Seq(LogEdge) /\ IsInjective(s)
         /\ ToSet(s) = {[source |-> n, target |-> f[c], type |-> "INFORMED"] : c \in W}
<1> DEFINE E(c) == [source |-> n, target |-> f[c], type |-> "INFORMED"]
<1>1. /\ w \in Seq(W) /\ IsInjective(w) /\ \A c \in W : \E k \in DOMAIN w : w[k] = c
  BY SetInSeq
<1>2. Len(w) \in Nat /\ DOMAIN w = 1 .. Len(w) /\ \A k \in DOMAIN w : w[k] \in W
  BY <1>1, LenProperties, ElementOfSeq
<1>3. PICK x : x = [k \in 1 .. Len(w) |-> E(w[k])]
  OBVIOUS
<1>4. \A k \in 1 .. Len(w) : E(w[k]) \in LogEdge
  BY <1>2 DEF LogEdge
<1>5. x \in Seq(LogEdge) /\ DOMAIN x = 1 .. Len(w) /\ \A k \in 1 .. Len(w) : x[k] = E(w[k])
  <2>1. x \in [1 .. Len(w) -> LogEdge]
    BY <1>3, <1>4
  <2> HIDE DEF E
  <2>2. QED
    BY <1>2, <1>3, <2>1
<1>6. \A c \in W : CW!Edge(n, f[c], "INFORMED") = <<E(c)>>
  BY DEF CW!Edge, CW!NoId
<1>7. [k \in DOMAIN w |-> CW!Edge(n, f[w[k]], "INFORMED")] = [k \in DOMAIN x |-> <<x[k]>>]
  <2>1. \A k \in DOMAIN w : CW!Edge(n, f[w[k]], "INFORMED") = <<x[k]>>
    <3> HIDE DEF E
    <3>1. QED
      BY <1>2, <1>5, <1>6
  <2>2. QED
    BY <1>2, <1>5, <2>1
<1>8. s = x
  BY <1>5, <1>7, FlatSingles
<1>9. IsInjective(x)
  <2> SUFFICES ASSUME NEW i \in 1 .. Len(w), NEW j \in 1 .. Len(w), x[i] = x[j] PROVE i = j
    BY <1>5 DEF IsInjective
  <2>1. f[w[i]] = f[w[j]]
    BY <1>5
  <2>2. w[i] = w[j]
    BY <1>2, <2>1
  <2>3. QED
    BY <1>1, <1>2, <2>2 DEF IsInjective
<1>10. ToSet(x) = {E(c) : c \in W}
  <2> HIDE DEF E
  <2>1. ToSet(x) = {x[k] : k \in 1 .. Len(w)}
    BY <1>5 DEF ToSet
  <2>2. QED
    BY <1>1, <1>2, <1>5, <2>1
<1>11. QED
  BY <1>5, <1>8, <1>9, <1>10

-----------------------------------------------------------------------------
(* What is remembered of a run after one more event *)

LEMMA StateTypes ==
  ASSUME NEW state \in RunState
  PROVE  /\ state.run \in Nat \ {0} /\ state.isOpen \in BOOLEAN
         /\ state.spans \in [CW!Spans -> SpanRec]
         /\ state.pending \in [CW!Spans \cup {Internal} -> SUBSET CW!Spans]
         /\ \A c \in CW!Spans :
              /\ state.spans[c] \in SpanRec /\ state.spans[c].parent \in Parents
              /\ state.spans[c].start \in Nat /\ state.spans[c].end \in Nat
              /\ state.spans[c].derived \in BOOLEAN /\ state.spans[c].informed \in BOOLEAN
         /\ \A p : CW!StartOf(state, p) \in Nat
<1>1. /\ state.run \in Nat \ {0} /\ state.isOpen \in BOOLEAN
      /\ state.spans \in [CW!Spans -> SpanRec]
      /\ state.pending \in [CW!Spans \cup {Internal} -> SUBSET CW!Spans]
  BY DEF RunState
<1>2. \A rec \in SpanRec : /\ rec.parent \in Parents /\ rec.start \in Nat /\ rec.end \in Nat
                           /\ rec.derived \in BOOLEAN /\ rec.informed \in BOOLEAN
  BY DEF SpanRec
<1>3. \A c \in CW!Spans : state.spans[c] \in SpanRec
  BY <1>1
<1>4. \A p : CW!StartOf(state, p) \in Nat
  BY <1>2, <1>3 DEF CW!StartOf, CW!NoId
<1>5. QED
  BY <1>1, <1>2, <1>3, <1>4

(* What _resolve_edges makes of a state in which an event of s was noted.  *)
ResolvedTo(noted, s, next) ==
  LET rec == noted.spans[s] IN
  /\ next \in RunState /\ next.run = noted.run /\ next.isOpen = noted.isOpen
  /\ \A c \in CW!Spans :
       /\ next.spans[c].start = noted.spans[c].start
       /\ next.spans[c].end = noted.spans[c].end
       /\ next.spans[c].parent = noted.spans[c].parent
       /\ next.spans[c].derived <=>
            noted.spans[c].derived \/ (c = s /\ CW!Derivable(rec))
       /\ next.spans[c].informed <=>
            \/ noted.spans[c].informed \/ (c = s /\ CW!IsInformed(noted, rec))
            \/ c \in CW!Waiting(noted, s)
  /\ \A p \in CW!Spans \cup {Internal} : next.pending[p] =
       IF p = s /\ rec.start # 0 THEN {}
       ELSE IF p = rec.parent /\ CW!Informable(rec) /\ ~ CW!IsInformed(noted, rec)
            THEN noted.pending[p] \cup {s} ELSE noted.pending[p]

LEMMA ResolvedState ==
  ASSUME LinkLifecycle, NEW noted \in RunState, NEW s \in CW!Spans,
         NEW rec, rec = noted.spans[s], rec.parent # s, NEW next, next = CW!Resolved(noted, s)
  PROVE  ResolvedTo(noted, s, next)
<1> DEFINE derived(c) == noted.spans[c].derived \/ (c = s /\ CW!Derivable(rec))
           informed(c) == \/ noted.spans[c].informed \/ (c = s /\ CW!IsInformed(noted, rec))
                          \/ c \in CW!Waiting(noted, s)
           spans == [c \in CW!Spans |->
             [noted.spans[c] EXCEPT !.derived = derived(c), !.informed = informed(c)]]
           waits(p) ==
             IF p = s /\ rec.start # 0 THEN {}
             ELSE IF p = rec.parent /\ CW!Informable(rec) /\ ~ CW!IsInformed(noted, rec)
                  THEN noted.pending[p] \cup {s} ELSE noted.pending[p]
           pending == [p \in CW!Spans \cup {Internal} |-> waits(p)]
<1>1. next = [noted EXCEPT !.spans = spans, !.pending = pending]
  <2> DEFINE marked == [c \in CW!Spans |->
               [noted.spans[c] EXCEPT
                  !.derived = @ \/ (c = s /\ CW!Derivable(rec)),
                  !.informed = @ \/ (c = s /\ CW!IsInformed(noted, rec))
                                 \/ c \in CW!Waiting(noted, s)]]
             queued == [p \in CW!Spans \cup {Internal} |->
               CASE p = s /\ rec.start # CW!NoId -> {}
                 [] p = rec.parent /\ CW!Informable(rec) /\ ~ CW!IsInformed(noted, rec) ->
                      noted.pending[p] \cup {s}
                 [] OTHER -> noted.pending[p]]
  <2>1. next = [noted EXCEPT !.spans = marked, !.pending = queued]
    BY DEF CW!Resolved
  <2>2. marked = spans
    OBVIOUS
  <2>4. \A p \in CW!Spans \cup {Internal} : queued[p] = waits(p)
    BY DEF CW!NoId
  <2>5. queued = pending
    <3>1. queued = [p \in CW!Spans \cup {Internal} |-> queued[p]]
      OBVIOUS
    <3> HIDE DEF queued, waits
    <3>2. QED
      BY <2>4, <3>1
  <2> HIDE DEF marked, queued, spans, pending
  <2>6. QED
    BY <2>1, <2>2, <2>5
<1>2. \A c \in CW!Spans : noted.spans[c] \in SpanRec
  BY StateTypes
<1>3. \A c \in CW!Spans : derived(c) \in BOOLEAN /\ informed(c) \in BOOLEAN
  OBVIOUS
<1>4. \A c \in CW!Spans :
        /\ spans[c] \in SpanRec
        /\ spans[c].start = noted.spans[c].start /\ spans[c].end = noted.spans[c].end
        /\ spans[c].parent = noted.spans[c].parent
        /\ spans[c].derived = derived(c) /\ spans[c].informed = informed(c)
  <2> HIDE DEF derived, informed
  <2>1. QED
    BY <1>2, <1>3 DEF SpanRec
<1>5. pending \in [CW!Spans \cup {Internal} -> SUBSET CW!Spans]
  <2>1. \A p \in CW!Spans \cup {Internal} : noted.pending[p] \in SUBSET CW!Spans
    BY StateTypes
  <2>2. QED
    BY <2>1
<1>6. \A p \in CW!Spans \cup {Internal} : pending[p] = waits(p)
  OBVIOUS
<1>7. spans \in [CW!Spans -> SpanRec]
  <2> HIDE DEF derived, informed
  <2>1. QED
    BY <1>4
<1> HIDE DEF spans, pending
<1>8. /\ next \in RunState /\ next.run = noted.run /\ next.isOpen = noted.isOpen
      /\ next.spans = spans /\ next.pending = pending
  BY <1>1, <1>5, <1>7 DEF RunState
<1>9. QED
  BY <1>4, <1>6, <1>8 DEF ResolvedTo

(* The end of s at place n.                                                *)
Ended(state, next, s, n) ==
  /\ next \in RunState /\ next.run = state.run /\ next.isOpen = state.isOpen
  /\ \A p \in CW!Spans \cup {Internal} : next.pending[p] = state.pending[p]
  /\ \A c \in CW!Spans :
       /\ next.spans[c].start = state.spans[c].start
       /\ next.spans[c].end = IF c = s THEN n ELSE state.spans[c].end
       /\ next.spans[c].parent = IF c = s THEN CW!Parent(s) ELSE state.spans[c].parent
       /\ next.spans[c].derived <=>
            IF c = s THEN state.spans[c].start # 0 ELSE state.spans[c].derived
       /\ next.spans[c].informed <=> state.spans[c].informed

LEMMA EndResolved ==
  ASSUME CrewSorts, NEW state \in RunState, Tracks(state), NEW s \in CW!Spans,
         CW!Parent(s) # s, state.spans[s].end = 0, NEW n \in Nat \ {0}, n = CW!NextId,
         NEW noted, noted = CW!Noted(state, s, "end")
  PROVE  /\ CW!NewEdges(noted, s) = CW!Edge(state.spans[s].start, n, "DERIVED_FROM")
         /\ Ended(state, CW!Resolved(noted, s), s, n)
<1> DEFINE old == state.spans[s]
           rec == noted.spans[s]
<1>1. /\ state.spans \in [CW!Spans -> SpanRec] /\ old \in SpanRec /\ TracksSpan(state, s)
      /\ CW!Parent(s) \in Parents
      /\ \A c \in CW!Spans : state.spans[c].start \in Nat /\ state.spans[c].informed \in BOOLEAN
  BY StateTypes DEF Tracks, Parents
<1>2. /\ noted.run = state.run /\ noted.isOpen = state.isOpen /\ noted.pending = state.pending
      /\ \A c \in CW!Spans : c # s => noted.spans[c] = state.spans[c]
      /\ rec = [old EXCEPT !.end = n,
                           !.parent = IF @ = CW!NoSpan THEN CW!Parent(s) ELSE @]
      /\ noted.spans \in [CW!Spans -> SpanRec] /\ noted \in RunState
  <2>1. noted = [state EXCEPT !.spans[s] = [old EXCEPT !.end = n,
                                !.parent = IF @ = CW!NoSpan THEN CW!Parent(s) ELSE @]]
    BY DEF CW!Noted
  <2>2. [old EXCEPT !.end = n, !.parent = IF @ = CW!NoSpan THEN CW!Parent(s) ELSE @] \in SpanRec
    BY <1>1 DEF SpanRec
  <2> HIDE DEF old
  <2>3. QED
    BY <1>1, <2>1, <2>2 DEF RunState
<1>3. /\ rec.start = old.start /\ rec.end = n /\ rec.derived = old.derived
      /\ rec.informed = old.informed /\ rec.parent = CW!Parent(s)
      /\ rec \in SpanRec
  <2>1. old.parent \in {CW!NoSpan, CW!Parent(s)}
    BY <1>1 DEF TracksSpan
  <2> HIDE DEF rec
  <2>2. QED
    BY <1>1, <1>2, <2>1 DEF SpanRec
<1>4. CW!Derivable(rec) <=> old.start # 0
  BY <1>1, <1>3 DEF TracksSpan, CW!Derivable, CW!NoId
<1>5. \A p : CW!StartOf(noted, p) = CW!StartOf(state, p)
  BY <1>2, <1>3 DEF CW!StartOf
<1>6. ~ CW!IsInformed(noted, rec)
  BY <1>1, <1>3, <1>5 DEF CW!IsInformed, CW!Informable, TracksSpan, CW!NoId
<1>7. CW!Waiting(noted, s) = {}
  <2>1. noted.pending[s] = Orphans(state, s)
    BY <1>2 DEF Tracks
  <2>2. rec.start # 0 => Orphans(state, s) = {}
    BY <1>3 DEF Orphans, CW!StartOf
  <2>3. QED
    BY <2>1, <2>2 DEF CW!Waiting, CW!NoId
<1>8. CW!NewEdges(noted, s) = CW!Edge(old.start, n, "DERIVED_FROM")
  <2> DEFINE w == CW!SetToSeq({})
  <2>1. w = <<>>
    <3>1. w \in Seq({})
      BY SetInSeq, FS_EmptySet
    <3>2. Len(w) = 0
      BY <3>1, LenProperties, ElementOfSeq
    <3>3. QED
      BY <3>1, <3>2, EmptySeq
  <2>2. [k \in DOMAIN w |-> CW!Edge(rec.start, noted.spans[w[k]].start, "INFORMED")] = <<>>
    BY <2>1
  <2>3. CW!FlattenSeq(<<>>) = <<>>
    BY DEF CW!FlattenSeq
  <2>4. old.start = 0 => CW!Edge(old.start, n, "DERIVED_FROM") = <<>>
    BY DEF CW!Edge, CW!NoId
  <2>5. CW!Edge(old.start, n, "DERIVED_FROM") \in Seq(LogEdge)
    BY <1>1, EdgeFacts DEF CW!Edge, Edge, CW!NoId, NoId
  <2> HIDE DEF w, rec, old
  <2>6. CW!NewEdges(noted, s) =
          (IF CW!Derivable(rec) THEN CW!Edge(rec.start, rec.end, "DERIVED_FROM") ELSE <<>>)
          \o <<>> \o CW!FlattenSeq(<<>>)
    BY <1>6, <1>7, <2>2 DEF CW!NewEdges, CrewSorts, w, rec
  <2>7. QED
    BY <1>3, <1>4, <2>3, <2>4, <2>5, <2>6, ConcatEmptySeq
<1>9. Ended(state, CW!Resolved(noted, s), s, n)
  <2>1. PICK next : next = CW!Resolved(noted, s)
    OBVIOUS
  <2>2. ~ (rec.parent \in CW!Spans \cup {Internal} /\ CW!Informable(rec)
             /\ s \notin noted.pending[rec.parent])
    <3>1. \A p \in CW!Spans \cup {Internal} : noted.pending[p] = Orphans(state, p)
      BY <1>2 DEF Tracks
    <3>2. CW!Informable(rec) => old.start # 0 /\ CW!StartOf(state, CW!Parent(s)) = 0
      BY <1>1, <1>3, <1>5, <1>6 DEF CW!Informable, CW!IsInformed, CW!NoId
    <3>3. QED
      BY <1>3, <3>1, <3>2 DEF Orphans
  <2>3. rec.start # 0 => noted.pending[s] = {}
    BY <1>2, <1>3 DEF Tracks, Orphans, CW!StartOf
  <2>4. \A p \in CW!Spans \cup {Internal} : next.pending[p] = state.pending[p]
    <3>1. ResolvedTo(noted, s, next)
      BY <1>2, <1>3, <2>1, ResolvedState DEF CrewSorts
    <3> SUFFICES ASSUME NEW p \in CW!Spans \cup {Internal}
                 PROVE  next.pending[p] = state.pending[p]
      OBVIOUS
    <3>2. next.pending[p] =
            IF p = s /\ rec.start # 0 THEN {}
            ELSE IF p = rec.parent /\ CW!Informable(rec) /\ ~ CW!IsInformed(noted, rec)
                 THEN noted.pending[p] \cup {s} ELSE noted.pending[p]
      BY <3>1 DEF ResolvedTo
    <3>3. p = s /\ rec.start # 0 => noted.pending[p] = {}
      BY <2>3
    <3>4. p = rec.parent /\ CW!Informable(rec) => s \in noted.pending[p]
      BY <2>2
    <3>5. noted.pending[p] = state.pending[p]
      BY <1>2
    <3> HIDE DEF rec
    <3>6. QED
      BY <3>2, <3>3, <3>4, <3>5
  <2>5. /\ next \in RunState /\ next.run = noted.run /\ next.isOpen = noted.isOpen
        /\ \A c \in CW!Spans :
             /\ next.spans[c].start = noted.spans[c].start
             /\ next.spans[c].end = noted.spans[c].end
             /\ next.spans[c].parent = noted.spans[c].parent
             /\ next.spans[c].derived <=>
                  noted.spans[c].derived \/ (c = s /\ CW!Derivable(rec))
             /\ next.spans[c].informed <=> noted.spans[c].informed
    <3>1. ResolvedTo(noted, s, next)
      BY <1>2, <1>3, <2>1, ResolvedState DEF CrewSorts
    <3>2. QED
      BY <1>6, <1>7, <3>1 DEF ResolvedTo
  <2>6. old.derived <=> FALSE
    BY <1>1 DEF TracksSpan
  <2> HIDE DEF rec, old
  <2>7. \A c \in CW!Spans : c = s \/ c # s
    OBVIOUS
  <2>8. /\ next.spans[s].start = old.start /\ next.spans[s].end = n
        /\ next.spans[s].parent = CW!Parent(s) /\ (next.spans[s].derived <=> old.start # 0)
        /\ (next.spans[s].informed <=> old.informed)
    BY <1>3, <1>4, <2>5, <2>6 DEF rec, old
  <2>9. \A c \in CW!Spans : c # s =>
          /\ next.spans[c].start = state.spans[c].start
          /\ next.spans[c].end = state.spans[c].end
          /\ next.spans[c].parent = state.spans[c].parent
          /\ next.spans[c].derived <=> state.spans[c].derived
          /\ next.spans[c].informed <=> state.spans[c].informed
    BY <1>2, <2>5
  <2>10. QED
    BY <1>2, <2>1, <2>4, <2>5, <2>8, <2>9 DEF Ended, old
<1>10. QED
  BY <1>8, <1>9

Children(state, s) == {c \in CW!Spans : state.spans[c].start # 0 /\ CW!Parent(c) = s}

(* The start of s at place n: the children that waited are informed, and s *)
(* waits when its parent did not start yet.                                *)
Started(state, next, s, n) ==
  /\ next \in RunState /\ next.run = state.run /\ next.isOpen = state.isOpen
  /\ \A p \in CW!Spans \cup {Internal} : next.pending[p] =
       IF p = s THEN {}
       ELSE IF p = CW!Parent(s) /\ CW!StartOf(state, p) = 0 THEN state.pending[p] \cup {s}
            ELSE state.pending[p]
  /\ \A c \in CW!Spans :
       /\ next.spans[c].start = IF c = s THEN n ELSE state.spans[c].start
       /\ next.spans[c].end = state.spans[c].end
       /\ next.spans[c].parent = IF c = s THEN CW!Parent(s) ELSE state.spans[c].parent
       /\ next.spans[c].derived <=>
            IF c = s THEN state.spans[s].end # 0 ELSE state.spans[c].derived
       /\ next.spans[c].informed <=>
            IF c = s THEN CW!StartOf(state, CW!Parent(s)) # 0
            ELSE state.spans[c].informed \/ c \in Children(state, s)

(* The edges of a start: to its completion, from its parent, and to the    *)
(* children that waited for it.                                            *)
StartEdges(state, s, n, new) ==
  \E x \in Seq(LogEdge) :
    /\ IsInjective(x)
    /\ ToSet(x) = {[source |-> n, target |-> state.spans[c].start,
                    type |-> "INFORMED"] : c \in Children(state, s)}
    /\ new = CW!Edge(n, state.spans[s].end, "DERIVED_FROM")
                \o CW!Edge(CW!StartOf(state, CW!Parent(s)), n, "INFORMED") \o x

(* The places of the starts are in the log, and different.                 *)
LEMMA PlacesOfStarts ==
  ASSUME CrewTypes, NEW state \in RunState, Tracks(state), NEW n, n = CW!NextId
  PROVE  /\ n \in Nat \ {0} /\ n \notin DOMAIN log /\ DOMAIN log \subseteq Nat \ {0}
         /\ \A c \in CW!Spans :
              /\ state.spans[c].start # 0 =>
                   /\ state.spans[c].start \in DOMAIN log
                   /\ log[state.spans[c].start].span = c
              /\ state.spans[c].end # 0 =>
                   /\ state.spans[c].end \in DOMAIN log
                   /\ log[state.spans[c].end].span = c
<1>1. Len(log) \in Nat /\ DOMAIN log = 1 .. Len(log)
  BY LenProperties DEF CrewTypes
<1>2. n = Len(log) + 1
  BY DEF CW!NextId
<1>3. QED
  BY <1>1, <1>2 DEF Tracks, TracksSpan, Locates, IsAt

LEMMA StartResolved ==
  ASSUME CrewSorts, CrewTypes, NEW state \in RunState, Tracks(state), NEW s \in CW!Spans,
         CW!Parent(s) # s, state.spans[s].start = 0, NEW n, n = CW!NextId,
         NEW noted, noted = CW!Noted(state, s, "start")
  PROVE  /\ StartEdges(state, s, n, CW!NewEdges(noted, s))
         /\ Started(state, CW!Resolved(noted, s), s, n)
<1> DEFINE old == state.spans[s]
           rec == noted.spans[s]
           parent == CW!StartOf(state, CW!Parent(s))
<1>0. /\ n \in Nat \ {0} /\ n \notin DOMAIN log /\ DOMAIN log \subseteq Nat \ {0}
      /\ \A c \in CW!Spans : state.spans[c].start # 0 =>
           /\ state.spans[c].start \in DOMAIN log
           /\ log[state.spans[c].start].span = c
  BY PlacesOfStarts
<1>1. /\ state.spans \in [CW!Spans -> SpanRec] /\ old \in SpanRec /\ TracksSpan(state, s)
      /\ CW!Parent(s) \in Parents /\ parent \in Nat
      /\ \A c \in CW!Spans : state.spans[c].start \in Nat /\ state.spans[c].informed \in BOOLEAN
  BY StateTypes DEF Tracks, Parents
<1>2. /\ noted.run = state.run /\ noted.isOpen = state.isOpen /\ noted.pending = state.pending
      /\ \A c \in CW!Spans : c # s => noted.spans[c] = state.spans[c]
      /\ rec = [old EXCEPT !.start = n,
                  !.parent = IF CW!Parent(s) # CW!NoSpan THEN CW!Parent(s) ELSE @]
      /\ noted.spans \in [CW!Spans -> SpanRec] /\ noted \in RunState
  <2>1. noted = [state EXCEPT !.spans[s] = [old EXCEPT !.start = n,
                    !.parent = IF CW!Parent(s) # CW!NoSpan THEN CW!Parent(s) ELSE @]]
    BY DEF CW!Noted
  <2>2. [old EXCEPT !.start = n,
           !.parent = IF CW!Parent(s) # CW!NoSpan THEN CW!Parent(s) ELSE @] \in SpanRec
    BY <1>0, <1>1 DEF SpanRec
  <2> HIDE DEF old
  <2>3. QED
    BY <1>1, <2>1, <2>2 DEF RunState
<1>3. /\ rec.start = n /\ rec.end = old.end /\ rec.derived = old.derived
      /\ rec.informed = old.informed /\ rec.parent = CW!Parent(s)
      /\ rec \in SpanRec
  <2>1. old.parent \in {CW!NoSpan, CW!Parent(s)}
    BY <1>1 DEF TracksSpan
  <2>2. rec \in SpanRec
    BY <1>2
  <2>3. /\ rec = [old EXCEPT !.start = n,
                    !.parent = IF CW!Parent(s) # CW!NoSpan THEN CW!Parent(s) ELSE @]
        /\ old \in SpanRec
    BY <1>1, <1>2
  <2> HIDE DEF rec, old
  <2>4. /\ rec.start = n /\ rec.end = old.end /\ rec.derived = old.derived
        /\ rec.informed = old.informed
        /\ rec.parent = IF CW!Parent(s) # CW!NoSpan THEN CW!Parent(s) ELSE old.parent
    BY <2>3 DEF SpanRec
  <2>5. QED
    BY <2>1, <2>2, <2>4
<1>4. ~ old.derived /\ ~ old.informed /\ (CW!Derivable(rec) <=> old.end # 0)
  BY <1>0, <1>1, <1>3 DEF TracksSpan, CW!Derivable, CW!NoId
<1>5. \A p : p # s => CW!StartOf(noted, p) = CW!StartOf(state, p)
  BY <1>2 DEF CW!StartOf
<1>6. CW!Parent(s) = CW!NoSpan => parent = 0
  BY DEF CrewSorts, CW!StartOf, CW!NoId
<1>7. /\ CW!Informable(rec) <=> CW!Parent(s) # CW!NoSpan
      /\ CW!IsInformed(noted, rec) <=> parent # 0
  BY <1>0, <1>3, <1>4, <1>5, <1>6 DEF CW!IsInformed, CW!Informable, CW!NoId
<1>8. CW!Waiting(noted, s) = Children(state, s) /\ s \notin Children(state, s)
  <2>1. noted.pending[s] = Orphans(state, s)
    BY <1>2 DEF Tracks
  <2>2. CW!StartOf(state, s) = 0
    BY DEF CW!StartOf, CW!NoId
  <2>3. Orphans(state, s) = Children(state, s) /\ s \notin Children(state, s)
    BY <2>2 DEF Orphans, Children
  <2>4. \A c \in Children(state, s) :
          noted.spans[c].start # 0 /\ ~ noted.spans[c].informed
    BY <1>2, <2>2, <2>3 DEF Tracks, TracksSpan, Children
  <2>5. QED
    BY <1>0, <1>3, <2>1, <2>3, <2>4 DEF CW!Waiting, CW!NoId
<1>9. IsFiniteSet(Children(state, s))
  <2>1. state.pending[s] = Orphans(state, s) /\ IsFiniteSet(state.pending[s])
    BY DEF Tracks
  <2>2. CW!StartOf(state, s) = 0
    BY DEF CW!StartOf
  <2>3. Orphans(state, s) = Children(state, s)
    BY <2>2 DEF Orphans, Children
  <2>4. QED
    BY <2>1, <2>3
<1>10. \E x \in Seq(LogEdge) :
         /\ IsInjective(x)
         /\ ToSet(x) = {[source |-> n, target |-> state.spans[c].start,
                         type |-> "INFORMED"] : c \in Children(state, s)}
         /\ CW!NewEdges(noted, s) =
              CW!Edge(n, old.end, "DERIVED_FROM") \o CW!Edge(parent, n, "INFORMED") \o x
  <2> DEFINE W == Children(state, s)
             f == [c \in CW!Spans |-> state.spans[c].start]
             w == CW!SetToSeq(W)
             x == CW!FlattenSeq([k \in DOMAIN w |-> CW!Edge(n, f[w[k]], "INFORMED")])
  <2>1. W \subseteq CW!Spans /\ s \notin W /\ \A c \in W : f[c] \in Nat \ {0, n}
    BY <1>0, <1>8 DEF Children
  <2>2. \A c, d \in W : f[c] = f[d] => c = d
    BY <1>0 DEF Children
  <2>3. \A c \in W : f[c] = state.spans[c].start /\ f[c] = noted.spans[c].start
    BY <1>2, <2>1
  <2>4. w \in Seq(W) /\ \A k \in DOMAIN w : w[k] \in W
    BY <1>9, SetInSeq, LenProperties, ElementOfSeq
  <2> HIDE DEF f, W
  <2>5. /\ x \in Seq(LogEdge) /\ IsInjective(x)
        /\ ToSet(x) = {[source |-> n, target |-> f[c], type |-> "INFORMED"] : c \in W}
    <3>1. IsFiniteSet(W) /\ n \in Nat \ {0}
      BY <1>0, <1>9 DEF W
    <3>2. PICK v : v = w
      OBVIOUS
    <3>3. PICK y : y = x
      OBVIOUS
    <3>4. y = CW!FlattenSeq([k \in DOMAIN v |-> CW!Edge(n, f[v[k]], "INFORMED")])
      BY <3>2, <3>3
    <3>5. /\ y \in Seq(LogEdge) /\ IsInjective(y)
          /\ ToSet(y) = {[source |-> n, target |-> f[c], type |-> "INFORMED"] : c \in W}
      BY <2>1, <2>2, <3>1, <3>2, <3>4, EdgesToWaiting
    <3> HIDE DEF x
    <3>6. QED
      BY <3>3, <3>5
  <2>6. [k \in DOMAIN w |-> CW!Edge(n, f[w[k]], "INFORMED")] =
          [k \in DOMAIN w |-> CW!Edge(rec.start, noted.spans[w[k]].start, "INFORMED")]
    <3> HIDE DEF w, rec
    <3>1. \A k \in DOMAIN w : f[w[k]] = noted.spans[w[k]].start
      BY <2>3, <2>4
    <3>2. QED
      BY <1>3, <3>1
  <2>7. CW!NewEdges(noted, s) =
          (IF CW!Derivable(rec) THEN CW!Edge(rec.start, rec.end, "DERIVED_FROM") ELSE <<>>)
          \o (IF CW!IsInformed(noted, rec)
              THEN CW!Edge(CW!StartOf(noted, rec.parent), rec.start, "INFORMED") ELSE <<>>)
          \o x
    <3>1. CW!SetToSeq(CW!Waiting(noted, s)) = w
      BY <1>8 DEF W
    <3> HIDE DEF w
    <3>2. QED
      BY <2>6, <3>1 DEF CW!NewEdges, CrewSorts
  <2>8. /\ old.end = 0 => CW!Edge(n, old.end, "DERIVED_FROM") = <<>>
        /\ parent = 0 => CW!Edge(parent, n, "INFORMED") = <<>>
    BY DEF CW!Edge, CW!NoId
  <2>9. CW!StartOf(noted, rec.parent) = parent
    BY <1>3, <1>5
  <2>10. CW!NewEdges(noted, s) =
           CW!Edge(n, old.end, "DERIVED_FROM") \o CW!Edge(parent, n, "INFORMED") \o x
    <3> HIDE DEF rec, old, parent, x
    <3>1. QED
      BY <1>3, <1>4, <1>7, <2>7, <2>8, <2>9
  <2>11. ToSet(x) = {[source |-> n, target |-> state.spans[c].start,
                      type |-> "INFORMED"] : c \in Children(state, s)}
    <3> HIDE DEF x
    <3>1. QED
      BY <2>3, <2>5 DEF W
  <2>12. QED
    BY <2>5, <2>10, <2>11
<1>11. Started(state, CW!Resolved(noted, s), s, n)
  <2>1. PICK next : next = CW!Resolved(noted, s)
    OBVIOUS
  <2>2. ResolvedTo(noted, s, next)
    BY <1>2, <1>3, <2>1, ResolvedState DEF CrewSorts
  <2>3. ASSUME NEW p \in CW!Spans \cup {Internal}
        PROVE  next.pending[p] =
                 IF p = s THEN {}
                 ELSE IF p = CW!Parent(s) /\ CW!StartOf(state, p) = 0 THEN state.pending[p] \cup {s}
                      ELSE state.pending[p]
    <3>1. next.pending[p] =
            IF p = s /\ rec.start # 0 THEN {}
            ELSE IF p = rec.parent /\ CW!Informable(rec) /\ ~ CW!IsInformed(noted, rec)
                 THEN noted.pending[p] \cup {s} ELSE noted.pending[p]
      BY <2>2 DEF ResolvedTo
    <3>2. noted.pending[p] = state.pending[p] /\ rec.start # 0 /\ rec.parent = CW!Parent(s)
      BY <1>0, <1>2, <1>3
    <3>3. p # CW!NoSpan
      BY DEF CrewSorts
    <3>4. p = CW!Parent(s) => (parent # 0 <=> CW!StartOf(state, p) # 0)
      OBVIOUS
    <3> HIDE DEF rec, parent
    <3>5. QED
      BY <1>7, <3>1, <3>2, <3>3, <3>4
  <2>4. /\ next \in RunState /\ next.run = noted.run /\ next.isOpen = noted.isOpen
        /\ \A c \in CW!Spans :
             /\ next.spans[c].start = noted.spans[c].start
             /\ next.spans[c].end = noted.spans[c].end
             /\ next.spans[c].parent = noted.spans[c].parent
             /\ next.spans[c].derived <=>
                  noted.spans[c].derived \/ (c = s /\ CW!Derivable(rec))
             /\ next.spans[c].informed <=>
                  \/ noted.spans[c].informed \/ (c = s /\ CW!IsInformed(noted, rec))
                  \/ c \in Children(state, s)
    BY <1>8, <2>2 DEF ResolvedTo
  <2> HIDE DEF rec, old, parent
  <2>5. /\ next.spans[s].start = n /\ next.spans[s].end = old.end
        /\ next.spans[s].parent = CW!Parent(s) /\ (next.spans[s].derived <=> old.end # 0)
        /\ (next.spans[s].informed <=> parent # 0)
    BY <1>3, <1>4, <1>7, <1>8, <2>4 DEF rec, old
  <2>6. \A c \in CW!Spans : c # s =>
          /\ next.spans[c].start = state.spans[c].start
          /\ next.spans[c].end = state.spans[c].end
          /\ next.spans[c].parent = state.spans[c].parent
          /\ next.spans[c].derived <=> state.spans[c].derived
          /\ next.spans[c].informed <=> state.spans[c].informed \/ c \in Children(state, s)
    BY <1>2, <2>4
  <2>7. QED
    BY <1>2, <2>1, <2>3, <2>4, <2>5, <2>6 DEF Started, old, parent
<1>12. QED
  BY <1>10, <1>11 DEF StartEdges

-----------------------------------------------------------------------------
(* What is remembered stays what the log says *)

LEMMA AtGrows ==
  ASSUME CrewTypes, NEW e \in CrewEvent, Record(e), NEW n, n = NextId
  PROVE  /\ n \in Nat \ {0} /\ n \notin DOMAIN log /\ DOMAIN log' = DOMAIN log \cup {n}
         /\ \A i, run, s, part : IsAt(i, run, s, part)' <=>
              \/ IsAt(i, run, s, part)
              \/ i = n /\ e.run = run /\ e.span = s /\ e.part = part
<1>1. /\ NextId \in Nat \ {0} /\ DOMAIN log' = DOMAIN log \cup {NextId} /\ NextId \notin DOMAIN log
      /\ \A i \in DOMAIN log : log'[i] = log[i]
      /\ log'[NextId] = e
  BY Logged DEF CrewTypes
<1>2. n \in Nat \ {0} /\ DOMAIN log' = DOMAIN log \cup {n} /\ n \notin DOMAIN log /\ log'[n] = e
  BY <1>1
<1>3. QED
  BY <1>1, <1>2 DEF IsAt

LEMMA LocatesKept ==
  ASSUME CrewTypes, NEW e \in CrewEvent, Record(e), NEW i, NEW run, NEW s, NEW part,
         Locates(i, run, s, part), ~ (e.run = run /\ e.span = s /\ e.part = part)
  PROVE  Locates(i, run, s, part)'
<1>1. PICK n : n = NextId
  OBVIOUS
<1>2. /\ DOMAIN log' = DOMAIN log \cup {n}
      /\ \A j : IsAt(j, run, s, part)' <=> IsAt(j, run, s, part)
  BY <1>1, AtGrows
<1>3. \A j : IsAt(j, run, s, part) => j \in DOMAIN log
  BY DEF IsAt
<1>4. QED
  BY <1>2, <1>3 DEF Locates

LEMMA LocatesNew ==
  ASSUME CrewTypes, NEW e \in CrewEvent, Record(e), NEW n, n = NextId,
         NEW run, NEW s, NEW part,
         Locates(0, run, s, part), e.run = run /\ e.span = s /\ e.part = part
  PROVE  Locates(n, run, s, part)'
<1>1. /\ n \notin DOMAIN log /\ DOMAIN log' = DOMAIN log \cup {n} /\ n # 0
      /\ \A j : IsAt(j, run, s, part)' <=> IsAt(j, run, s, part) \/ j = n
  BY AtGrows
<1>2. \A j : IsAt(j, run, s, part) => j \in DOMAIN log /\ j # 0
  BY LenProperties DEF IsAt, CrewTypes
<1>3. QED
  BY <1>1, <1>2 DEF Locates

(* The other runs are not touched.                                         *)
LEMMA TracksOther ==
  ASSUME CrewTypes, NEW e \in CrewEvent, Record(e), NEW state, Tracks(state), state.run # e.run
  PROVE  Tracks(state)'
<1>1. ASSUME NEW s \in CW!Spans PROVE TracksSpan(state, s)'
  <2>1. TracksSpan(state, s)
    BY DEF Tracks
  <2>2. /\ Locates(state.spans[s].start, state.run, s, "start")'
        /\ Locates(state.spans[s].end, state.run, s, "end")'
    BY <2>1, LocatesKept DEF TracksSpan
  <2>3. QED
    BY <2>1, <2>2 DEF TracksSpan
<1>2. QED
  BY <1>1 DEF Tracks

LEMMA TracksEnded ==
  ASSUME CrewTypes, NEW e \in CrewEvent, Record(e), NEW n, n = NextId,
         NEW state \in RunState, Tracks(state), NEW s \in CW!Spans, state.spans[s].end = 0,
         e.run = state.run, e.span = s, e.part = "end",
         NEW next, Ended(state, next, s, n)
  PROVE  Tracks(next)'
<1>1. n # 0 /\ next.run = state.run
  BY AtGrows DEF Ended
<1>2. \A p : CW!StartOf(next, p) = CW!StartOf(state, p)
  BY DEF Ended, CW!StartOf
<1>3. ASSUME NEW c \in CW!Spans PROVE TracksSpan(next, c)'
  <2>1. TracksSpan(state, c)
    BY DEF Tracks
  <2>2. Locates(next.spans[c].start, next.run, c, "start")'
    BY <1>1, <2>1, LocatesKept DEF TracksSpan, Ended
  <2>3. Locates(next.spans[c].end, next.run, c, "end")'
    <3>1. CASE c = s
      <4>1. Locates(0, state.run, s, "end")
        BY <2>1, <3>1 DEF TracksSpan
      <4>2. Locates(n, state.run, s, "end")'
        BY <4>1, LocatesNew
      <4>3. next.spans[c].end = n
        BY <3>1 DEF Ended
      <4>4. QED
        BY <1>1, <3>1, <4>2, <4>3
    <3>2. CASE c # s
      <4>1. next.spans[c].end = state.spans[c].end
        BY <3>2 DEF Ended
      <4>2. QED
        BY <1>1, <2>1, <3>2, <4>1, LocatesKept DEF TracksSpan
    <3>3. QED
      BY <3>1, <3>2
  <2>4. /\ next.spans[c].parent = IF next.spans[c].start = 0 /\ next.spans[c].end = 0
                                   THEN CW!NoSpan ELSE CW!Parent(c)
        /\ next.spans[c].derived <=> next.spans[c].start # 0 /\ next.spans[c].end # 0
        /\ next.spans[c].informed <=>
             next.spans[c].start # 0 /\ CW!StartOf(next, CW!Parent(c)) # 0
    BY <1>1, <1>2, <2>1 DEF TracksSpan, Ended
  <2>5. QED
    BY <2>2, <2>3, <2>4 DEF TracksSpan
<1>4. ASSUME NEW p \in CW!Spans \cup {Internal}
      PROVE  next.pending[p] = Orphans(next, p) /\ IsFiniteSet(next.pending[p])
  <2>1. next.pending[p] = state.pending[p] /\ state.pending[p] = Orphans(state, p)
        /\ IsFiniteSet(state.pending[p])
    BY DEF Ended, Tracks
  <2>2. Orphans(next, p) = Orphans(state, p)
    BY <1>2 DEF Orphans, Ended
  <2>3. QED
    BY <2>1, <2>2
<1>5. QED
  BY <1>3, <1>4 DEF Tracks, Orphans, CW!StartOf

LEMMA TracksStarted ==
  ASSUME CrewSorts, CrewTypes, NEW e \in CrewEvent, Record(e), NEW n, n = NextId,
         NEW state \in RunState, Tracks(state), NEW s \in CW!Spans, CW!Parent(s) # s,
         state.spans[s].start = 0, e.run = state.run, e.span = s, e.part = "start",
         NEW next, Started(state, next, s, n)
  PROVE  Tracks(next)'
<1>1. n # 0 /\ next.run = state.run
  BY AtGrows DEF Started
<1>2. /\ \A p : p # s => CW!StartOf(next, p) = CW!StartOf(state, p)
      /\ CW!StartOf(next, s) = n /\ CW!StartOf(state, s) = 0
  BY DEF Started, CW!StartOf
<1>3. ASSUME NEW c \in CW!Spans PROVE TracksSpan(next, c)'
  <2>1. TracksSpan(state, c)
    BY DEF Tracks
  <2>2. Locates(next.spans[c].end, next.run, c, "end")'
    BY <1>1, <2>1, LocatesKept DEF TracksSpan, Started
  <2>3. Locates(next.spans[c].start, next.run, c, "start")'
    <3>1. CASE c = s
      <4>1. Locates(0, state.run, s, "start")
        BY <2>1, <3>1 DEF TracksSpan
      <4>2. Locates(n, state.run, s, "start")'
        BY <4>1, LocatesNew
      <4>3. next.spans[c].start = n
        BY <3>1 DEF Started
      <4>4. QED
        BY <1>1, <3>1, <4>2, <4>3
    <3>2. CASE c # s
      <4>1. next.spans[c].start = state.spans[c].start
        BY <3>2 DEF Started
      <4>2. QED
        BY <1>1, <2>1, <3>2, <4>1, LocatesKept DEF TracksSpan
    <3>3. QED
      BY <3>1, <3>2
  <2>4. /\ next.spans[c].parent = IF next.spans[c].start = 0 /\ next.spans[c].end = 0
                                   THEN CW!NoSpan ELSE CW!Parent(c)
        /\ next.spans[c].derived <=> next.spans[c].start # 0 /\ next.spans[c].end # 0
    BY <1>1, <2>1 DEF TracksSpan, Started
  <2>5. next.spans[c].informed <=>
          next.spans[c].start # 0 /\ CW!StartOf(next, CW!Parent(c)) # 0
    <3>1. CASE c = s
      BY <1>1, <1>2, <3>1 DEF Started
    <3>2. CASE c # s /\ CW!Parent(c) = s
      BY <1>1, <1>2, <2>1, <3>2 DEF Started, Children, TracksSpan
    <3>3. CASE c # s /\ CW!Parent(c) # s
      BY <1>2, <2>1, <3>3 DEF Started, Children, TracksSpan
    <3>4. QED
      BY <3>1, <3>2, <3>3
  <2>6. QED
    BY <2>2, <2>3, <2>4, <2>5 DEF TracksSpan
<1>4. ASSUME NEW p \in CW!Spans \cup {Internal}
      PROVE  next.pending[p] = Orphans(next, p) /\ IsFiniteSet(next.pending[p])
  <2>1. state.pending[p] = Orphans(state, p) /\ IsFiniteSet(state.pending[p])
    BY DEF Tracks
  <2>2. \A c \in CW!Spans :
          next.spans[c].start # 0 <=> c = s \/ state.spans[c].start # 0
    BY <1>1 DEF Started
  <2>3. CASE p = s
    <3>1. next.pending[p] = {}
      BY <2>3 DEF Started
    <3>2. Orphans(next, p) = {}
      BY <1>1, <1>2, <2>3 DEF Orphans
    <3>3. QED
      BY <3>1, <3>2, FS_EmptySet
  <2>4. CASE p # s /\ p = CW!Parent(s) /\ CW!StartOf(state, p) = 0
    <3>1. next.pending[p] = state.pending[p] \cup {s}
      BY <2>4 DEF Started
    <3>2. Orphans(next, p) = Orphans(state, p) \cup {s}
      BY <1>2, <2>2, <2>4 DEF Orphans
    <3>3. QED
      BY <2>1, <3>1, <3>2, FS_AddElement
  <2>5. CASE p # s /\ ~ (p = CW!Parent(s) /\ CW!StartOf(state, p) = 0)
    <3>1. next.pending[p] = state.pending[p]
      BY <2>5 DEF Started
    <3>2. Orphans(next, p) = Orphans(state, p)
      BY <1>2, <2>2, <2>5 DEF Orphans
    <3>3. QED
      BY <2>1, <3>1, <3>2
  <2>6. QED
    BY <2>3, <2>4, <2>5
<1>5. QED
  BY <1>3, <1>4 DEF Tracks, Orphans, CW!StartOf

-----------------------------------------------------------------------------
(* The edges of an event that is recorded *)

(* Edges that all touch the new event, each once, and all that it needs.   *)
LEMMA EdgesAdded ==
  ASSUME CrewTypes, CrewEdges, NEW e \in CrewEvent, Record(e), NEW n, n = NextId,
         NEW new \in Seq(LogEdge), IsInjective(new), edges' = edges \o new,
         \A x \in ToSet(new) :
           /\ n \in {x.source, x.target} /\ x.source \in DOMAIN log' /\ x.target \in DOMAIN log'
           /\ JoinsSpans(x)' /\ WithinRun(x)',
         \A i, j \in DOMAIN log' : n \in {i, j} =>
           /\ IsDerived(i, j)' =>
                [source |-> i, target |-> j, type |-> "DERIVED_FROM"] \in ToSet(new)
           /\ IsChildOf(j, i)' =>
                [source |-> i, target |-> j, type |-> "INFORMED"] \in ToSet(new)
  PROVE  edges' \in Seq(LogEdge) /\ CrewEdges'
<1>1. /\ n \in Nat \ {0} /\ n \notin DOMAIN log /\ DOMAIN log' = DOMAIN log \cup {n}
      /\ \A i \in DOMAIN log : log'[i] = log[i]
      /\ log \in Seq(CrewEvent) /\ edges \in Seq(LogEdge)
  BY Logged DEF CrewTypes
<1>2. /\ IsInjective(edges) /\ EndsLogged /\ \A x \in ToSet(edges) : WithinRun(x)
      /\ \A i, j \in DOMAIN log :
           /\ IsDerived(i, j) => Linked(i, j, "DERIVED_FROM")
           /\ IsChildOf(j, i) => Linked(i, j, "INFORMED")
  BY DEF CrewEdges
<1>3. ToSet(edges) \cap ToSet(new) = {}
  <2> SUFFICES ASSUME NEW x \in ToSet(edges), x \in ToSet(new) PROVE FALSE
    OBVIOUS
  <2>1. x.source \in DOMAIN log /\ x.target \in DOMAIN log
    BY <1>2 DEF EndsLogged
  <2>2. n \in {x.source, x.target}
    OBVIOUS
  <2>3. QED
    BY <1>1, <2>1, <2>2
<1>4. /\ edges' \in Seq(LogEdge) /\ IsInjective(edges')
      /\ ToSet(edges') = ToSet(edges) \cup ToSet(new)
  BY <1>1, <1>2, <1>3, EdgesJoin
<1>5. ASSUME NEW x \in ToSet(edges')
      PROVE  /\ x.source \in DOMAIN log' /\ x.target \in DOMAIN log'
             /\ JoinsSpans(x)' /\ WithinRun(x)'
  <2>1. CASE x \in ToSet(edges)
    <3>1. x.source \in DOMAIN log' /\ x.target \in DOMAIN log' /\ JoinsSpans(x)'
      BY <1>1, <1>2, <2>1, EndsStayLogged
    <3>2. x.source \in DOMAIN log /\ x.target \in DOMAIN log /\ WithinRun(x)
      BY <1>2, <2>1 DEF EndsLogged
    <3>3. WithinRun(x)'
      BY <1>1, <3>2 DEF WithinRun
    <3>4. QED
      BY <3>1, <3>3
  <2>2. CASE x \in ToSet(new)
    BY <2>2
  <2>3. QED
    BY <1>4, <2>1, <2>2
<1>6. ASSUME NEW i \in DOMAIN log', NEW j \in DOMAIN log'
      PROVE  /\ IsDerived(i, j)' => Linked(i, j, "DERIVED_FROM")'
             /\ IsChildOf(j, i)' => Linked(i, j, "INFORMED")'
  <2>1. CASE n \in {i, j}
    BY <1>4, <2>1 DEF Linked
  <2>2. CASE n \notin {i, j}
    <3>1. i \in DOMAIN log /\ j \in DOMAIN log /\ log'[i] = log[i] /\ log'[j] = log[j]
      BY <1>1, <2>2
    <3>2. (IsDerived(i, j)' <=> IsDerived(i, j)) /\ (IsChildOf(j, i)' <=> IsChildOf(j, i))
      BY <3>1 DEF IsDerived, IsChildOf
    <3>3. QED
      BY <1>2, <1>4, <3>1, <3>2 DEF Linked
  <2>3. QED
    BY <2>1, <2>2
<1>7. QED
  BY <1>4, <1>5, <1>6 DEF CrewEdges, EndsLogged

(* An event and a state of its run.                                        *)
NewEvent(e, state, s, part) ==
  /\ e.run = state.run /\ e.span = s /\ e.part = part /\ e.parent = CW!Parent(s)

LEMMA EdgesEnded ==
  ASSUME CrewTypes, CrewEdges, NEW e \in CrewEvent, Record(e), NEW n, n = NextId,
         NEW state \in RunState, Tracks(state), NEW s \in CW!Spans, state.spans[s].end = 0,
         NewEvent(e, state, s, "end"),
         edges' = edges \o CW!Edge(state.spans[s].start, n, "DERIVED_FROM")
  PROVE  edges' \in Seq(LogEdge) /\ CrewEdges'
<1> DEFINE new == CW!Edge(state.spans[s].start, n, "DERIVED_FROM")
<1>1. PICK i : i = state.spans[s].start
  OBVIOUS
<1>2. i \in Nat /\ Locates(i, state.run, s, "start") /\ n \in Nat \ {0}
      /\ DOMAIN log' = DOMAIN log \cup {n} /\ n \notin DOMAIN log /\ log'[n] = e
      /\ \A k \in DOMAIN log : log'[k] = log[k]
  BY <1>1, StateTypes, Logged, SMTT(30), ZenonT(30) DEF Tracks, TracksSpan, CrewTypes
<1>3. i # 0 => i \in DOMAIN log /\ log[i].run = e.run /\ log[i].span = s /\ log[i].part = "start"
  BY <1>2 DEF Locates, IsAt, NewEvent
<1>4. /\ new \in Seq(LogEdge) /\ IsInjective(new)
      /\ ToSet(new) = IF i = 0 THEN {}
                      ELSE {[source |-> i, target |-> n, type |-> "DERIVED_FROM"]}
  <2>1. new = Edge(i, n, "DERIVED_FROM")
    BY <1>1 DEF CW!Edge, Edge, CW!NoId, NoId
  <2>2. i # n /\ n # 0
    BY <1>2, <1>3
  <2> HIDE DEF new
  <2>3. QED
    BY <1>2, <2>1, <2>2, EdgeFacts
<1> HIDE DEF new
<1>5. ASSUME NEW x \in ToSet(new)
      PROVE  /\ n \in {x.source, x.target} /\ x.source \in DOMAIN log' /\ x.target \in DOMAIN log'
             /\ JoinsSpans(x)' /\ WithinRun(x)'
  <2>1. i # 0 /\ x.source = i /\ x.target = n /\ x.type = "DERIVED_FROM"
    BY <1>4
  <2>2. log'[x.source] = log[i] /\ log'[x.target] = e
    BY <1>2, <1>3, <2>1
  <2>3. QED
    BY <1>2, <1>3, <2>1, <2>2 DEF JoinsSpans, Derives, WithinRun, NewEvent
<1>6. ASSUME NEW k \in DOMAIN log', NEW j \in DOMAIN log', n \in {k, j}
      PROVE  /\ IsDerived(k, j)' =>
                  [source |-> k, target |-> j, type |-> "DERIVED_FROM"] \in ToSet(new)
             /\ IsChildOf(j, k)' =>
                  [source |-> k, target |-> j, type |-> "INFORMED"] \in ToSet(new)
  <2>1. ~ IsChildOf(j, k)'
    BY <1>2, <1>6 DEF IsChildOf, NewEvent
  <2>2. ASSUME IsDerived(k, j)' PROVE k = i /\ j = n /\ i # 0
    <3>1. j = n /\ k # n
      BY <1>2, <1>6, <2>2 DEF IsDerived, NewEvent
    <3>2. k \in DOMAIN log /\ log[k].part = "start" /\ log[k].run = state.run /\ log[k].span = s
      BY <1>2, <2>2, <3>1 DEF IsDerived, NewEvent
    <3>3. k = i
      BY <1>2, <3>2 DEF Locates, IsAt
    <3>4. k # 0
      BY <3>2, LenProperties DEF CrewTypes
    <3>5. QED
      BY <3>1, <3>3, <3>4
  <2>3. QED
    BY <1>4, <2>1, <2>2
<1>7. QED
  BY <1>4, <1>5, <1>6, EdgesAdded DEF new

LEMMA EdgesStarted ==
  ASSUME CrewTypes, CrewEvents, CrewEdges, NEW e \in CrewEvent, Record(e), NEW n, n = NextId,
         NEW state \in RunState, Tracks(state), NEW s \in CW!Spans, state.spans[s].start = 0,
         CW!Parent(s) # s, NewEvent(e, state, s, "start"),
         NEW added, StartEdges(state, s, n, added), edges' = edges \o added
  PROVE  edges' \in Seq(LogEdge) /\ CrewEdges'
<1>0. PICK x \in Seq(LogEdge) :
        /\ IsInjective(x)
        /\ ToSet(x) = {[source |-> n, target |-> state.spans[c].start,
                        type |-> "INFORMED"] : c \in Children(state, s)}
        /\ added = CW!Edge(n, state.spans[s].end, "DERIVED_FROM")
                    \o CW!Edge(CW!StartOf(state, CW!Parent(s)), n, "INFORMED") \o x
  BY DEF StartEdges
<1>1. PICK f, d, p : /\ f = [c \in CW!Spans |-> state.spans[c].start]
                     /\ d = state.spans[s].end /\ p = CW!StartOf(state, CW!Parent(s))
  OBVIOUS
<1>2. /\ d \in Nat /\ p \in Nat /\ n \in Nat \ {0}
      /\ DOMAIN log' = DOMAIN log \cup {n} /\ n \notin DOMAIN log /\ log'[n] = e
      /\ \A k \in DOMAIN log : log'[k] = log[k]
      /\ 0 \notin DOMAIN log
  <2>1. d \in Nat /\ p \in Nat
    BY <1>1, StateTypes
  <2>2. log \in Seq(CrewEvent)
    BY DEF CrewTypes
  <2>3. /\ NextId \in Nat \ {0} /\ DOMAIN log = 1 .. Len(log) /\ Len(log) \in Nat
        /\ DOMAIN log' = DOMAIN log \cup {NextId} /\ NextId \notin DOMAIN log
        /\ \A k \in DOMAIN log : log'[k] = log[k]
        /\ log'[NextId] = e
    BY <2>2, Logged
  <2>4. QED
    BY <2>1, <2>3
<1>3. /\ Locates(d, state.run, s, "end")
      /\ \A c \in CW!Spans : Locates(f[c], state.run, c, "start")
      /\ CW!Parent(s) \in CW!Spans => p = f[CW!Parent(s)]
      /\ CW!Parent(s) \notin CW!Spans => p = 0
      /\ \A c \in CW!Spans : f[c] \in Nat
  BY <1>1, StateTypes DEF Tracks, TracksSpan, CW!StartOf, CW!NoId
<1>4. /\ d # 0 => d \in DOMAIN log /\ log[d].run = e.run /\ log[d].span = s /\ log[d].part = "end"
      /\ p # 0 => /\ p \in DOMAIN log /\ log[p].run = e.run /\ log[p].part = "start"
                  /\ log[p].span = CW!Parent(s) /\ log[p].span # s
  BY <1>3 DEF Locates, IsAt, NewEvent
<1>5. \A c \in Children(state, s) :
        /\ c \in CW!Spans /\ f[c] \in DOMAIN log /\ log[f[c]].run = e.run
        /\ log[f[c]].part = "start" /\ log[f[c]].span = c /\ log[f[c]].parent = s
  <2> SUFFICES ASSUME NEW c \in Children(state, s)
               PROVE  /\ c \in CW!Spans /\ f[c] \in DOMAIN log /\ log[f[c]].run = e.run
                      /\ log[f[c]].part = "start" /\ log[f[c]].span = c /\ log[f[c]].parent = s
    OBVIOUS
  <2>1. c \in CW!Spans /\ f[c] # 0 /\ CW!Parent(c) = s
    BY <1>1 DEF Children
  <2>2. PICK k : k = f[c]
    OBVIOUS
  <2>3. IsAt(k, state.run, c, "start")
    BY <1>3, <2>1, <2>2 DEF Locates
  <2>4. k \in DOMAIN log /\ log[k].run = state.run /\ log[k].span = c /\ log[k].part = "start"
    BY <2>3 DEF IsAt
  <2>5. log[k].parent = s
    BY <2>1, <2>4 DEF CrewEvents
  <2>6. QED
    BY <2>1, <2>2, <2>4, <2>5 DEF NewEvent
<1> DEFINE derived == CW!Edge(n, d, "DERIVED_FROM")
           informed == CW!Edge(p, n, "INFORMED")
           new == derived \o informed \o x
<1>6. /\ derived \in Seq(LogEdge) /\ IsInjective(derived)
      /\ ToSet(derived) = IF d = 0 THEN {}
                          ELSE {[source |-> n, target |-> d, type |-> "DERIVED_FROM"]}
      /\ informed \in Seq(LogEdge) /\ IsInjective(informed)
      /\ ToSet(informed) = IF p = 0 THEN {}
                           ELSE {[source |-> p, target |-> n, type |-> "INFORMED"]}
  <2>1. derived = Edge(n, d, "DERIVED_FROM") /\ informed = Edge(p, n, "INFORMED")
    BY DEF CW!Edge, Edge, CW!NoId, NoId
  <2>2. d # n /\ p # n /\ n # 0
    BY <1>2, <1>4
  <2> HIDE DEF derived, informed
  <2>3. QED
    BY <1>2, <2>1, <2>2, EdgeFacts
<1>7. ToSet(x) = {[source |-> n, target |-> f[c], type |-> "INFORMED"] : c \in Children(state, s)}
  BY <1>0, <1>1 DEF Children
<1> HIDE DEF derived, informed
<1>8. /\ new \in Seq(LogEdge) /\ IsInjective(new)
      /\ ToSet(new) = ToSet(derived) \cup ToSet(informed) \cup ToSet(x)
  <2>1. ToSet(derived) \cap ToSet(informed) = {}
    <3>1. \A y \in ToSet(derived) : y.type = "DERIVED_FROM"
      BY <1>6
    <3>2. \A y \in ToSet(informed) : y.type = "INFORMED"
      BY <1>6
    <3>3. QED
      BY <3>1, <3>2
  <2>2. PICK di : di = derived \o informed
    OBVIOUS
  <2>3. /\ di \in Seq(LogEdge) /\ IsInjective(di) /\ ToSet(di) = ToSet(derived) \cup ToSet(informed)
    BY <1>6, <2>1, <2>2, EdgesJoin
  <2>4. ToSet(di) \cap ToSet(x) = {}
    <3>1. \A y \in ToSet(derived) : y.type = "DERIVED_FROM"
      BY <1>6
    <3>2. \A y \in ToSet(informed) : y.source # n
      BY <1>2, <1>4, <1>6
    <3>3. \A y \in ToSet(x) : y.source = n /\ y.type = "INFORMED"
      BY <1>7
    <3>4. QED
      BY <2>3, <3>1, <3>2, <3>3
  <2>5. new = di \o x
    BY <2>2
  <2> HIDE DEF new
  <2>6. QED
    BY <1>0, <2>3, <2>4, <2>5, EdgesJoin
<1>9. edges' = edges \o new
  BY <1>0, <1>1 DEF derived, informed
<1> HIDE DEF new
<1>10. ASSUME NEW y \in ToSet(new)
       PROVE  /\ n \in {y.source, y.target} /\ y.source \in DOMAIN log' /\ y.target \in DOMAIN log'
              /\ JoinsSpans(y)' /\ WithinRun(y)'
  <2>1. CASE y \in ToSet(derived)
    <3>1. d # 0 /\ y.source = n /\ y.target = d /\ y.type = "DERIVED_FROM"
      BY <1>6, <2>1
    <3>2. log'[y.source] = e /\ log'[y.target] = log[d]
      BY <1>2, <1>4, <3>1
    <3>3. QED
      BY <1>2, <1>4, <3>1, <3>2 DEF JoinsSpans, Derives, WithinRun, NewEvent
  <2>2. CASE y \in ToSet(informed)
    <3>1. p # 0 /\ y.source = p /\ y.target = n /\ y.type = "INFORMED"
      BY <1>6, <2>2
    <3>2. log'[y.source] = log[p] /\ log'[y.target] = e
      BY <1>2, <1>4, <3>1
    <3>3. QED
      BY <1>2, <1>4, <3>1, <3>2 DEF JoinsSpans, Informs, WithinRun, NewEvent
  <2>3. CASE y \in ToSet(x)
    <3>1. PICK c \in Children(state, s) : y.source = n /\ y.target = f[c] /\ y.type = "INFORMED"
      BY <1>7, <2>3
    <3>2. log'[y.source] = e /\ log'[y.target] = log[f[c]]
      BY <1>2, <1>5, <3>1
    <3>3. QED
      BY <1>2, <1>5, <3>1, <3>2 DEF JoinsSpans, Informs, WithinRun, NewEvent
  <2>4. QED
    BY <1>8, <2>1, <2>2, <2>3
<1>11. ASSUME NEW k \in DOMAIN log', NEW j \in DOMAIN log', n \in {k, j}
       PROVE  /\ IsDerived(k, j)' =>
                   [source |-> k, target |-> j, type |-> "DERIVED_FROM"] \in ToSet(new)
              /\ IsChildOf(j, k)' =>
                   [source |-> k, target |-> j, type |-> "INFORMED"] \in ToSet(new)
  <2>1. ASSUME IsDerived(k, j)' PROVE k = n /\ j = d /\ d # 0
    <3>1. k = n /\ j # n
      BY <1>2, <1>11, <2>1 DEF IsDerived, NewEvent
    <3>2. j \in DOMAIN log /\ log[j].part = "end" /\ log[j].run = state.run /\ log[j].span = s
      BY <1>2, <2>1, <3>1 DEF IsDerived, NewEvent
    <3>3. j = d
      BY <1>3, <3>2 DEF Locates, IsAt
    <3>4. QED
      BY <1>2, <3>1, <3>2, <3>3
  <2>2. ASSUME IsChildOf(j, k)', j = n PROVE k = p /\ p # 0
    <3>1. log'[j] = e /\ log'[k].span = CW!Parent(s) /\ log'[k].part = "start" /\ log'[k].run = state.run
      BY <1>2, <2>2 DEF IsChildOf, NewEvent
    <3>2. k # n /\ k \in DOMAIN log /\ log'[k] = log[k]
      BY <1>2, <3>1 DEF NewEvent
    <3>3. log[k] \in CrewEvent
      BY <3>2, LenProperties, ElementOfSeq DEF CrewTypes
    <3>4. log[k].span \in CW!Spans
      BY <3>3 DEF CrewEvent, EventIn
    <3>5. CW!Parent(s) \in CW!Spans /\ IsAt(k, state.run, CW!Parent(s), "start")
      BY <3>1, <3>2, <3>4 DEF IsAt
    <3>6. k = p
      BY <1>3, <3>2, <3>5 DEF Locates
    <3>7. QED
      BY <1>2, <3>2, <3>6
  <2>3. ASSUME IsChildOf(j, k)', j # n
        PROVE  k = n /\ \E c \in Children(state, s) : j = f[c]
    <3>1. k = n /\ j \in DOMAIN log /\ log'[j] = log[j] /\ log'[k] = e
      BY <1>2, <1>11, <2>3
    <3>2. log[j].part = "start" /\ log[j].parent = s /\ log[j].run = state.run
      BY <2>3, <3>1 DEF IsChildOf, NewEvent
    <3>3. log[j] \in CrewEvent
      BY <3>1, LenProperties, ElementOfSeq DEF CrewTypes
    <3>4. PICK c \in CW!Spans : c = log[j].span
      BY <3>3 DEF CrewEvent, EventIn
    <3>5. CW!Parent(c) = s
      BY <3>1, <3>2, <3>4 DEF CrewEvents
    <3>6. j = f[c] /\ j # 0
      BY <1>2, <1>3, <3>1, <3>2, <3>4 DEF Locates, IsAt
    <3>7. c \in Children(state, s)
      BY <1>1, <3>5, <3>6 DEF Children
    <3>8. QED
      BY <3>1, <3>6, <3>7
  <2>4. IsDerived(k, j)' => [source |-> k, target |-> j, type |-> "DERIVED_FROM"] \in ToSet(new)
    BY <1>6, <1>8, <2>1
  <2>5. IsChildOf(j, k)' => [source |-> k, target |-> j, type |-> "INFORMED"] \in ToSet(new)
    BY <1>6, <1>7, <1>8, <2>2, <2>3
  <2>6. QED
    BY <2>4, <2>5
<1>12. QED
  BY <1>8, <1>9, <1>10, <1>11, EdgesAdded

-----------------------------------------------------------------------------
(* An event goes to the run of a crew *)

LEMMA CrewWrites ==
  /\ CW!NextId = NextId /\ CW!NoId = 0
  /\ \A run, part, span, parent, owner :
       CW!Event(run, part, span, parent, owner) =
         [run |-> run, part |-> part, span |-> span, parent |-> parent, owner |-> owner]
  /\ \A e : CW!Record(e) <=> Record(e)
  BY DEF CW!NextId, NextId, CW!NoId, CW!Event, CW!Record, Record

Memory ==
  [runs : [CW!Crew -> RunState \cup {CW!NoState}], open : Seq(CW!Crew),
   last : CW!Crew \cup {CW!NoKey}, opened : Nat]

EventOf(run, s, phase) ==
  [run |-> run, part |-> phase, span |-> s, parent |-> CW!Parent(s), owner |-> CW!HomeOf(s)]

(* What is remembered of a span on the bus does not hold its event.        *)
LEMMA NotYetThere ==
  ASSUME CrewEvents, NEW state, Tracks(state), NEW s \in CW!Spans,
         NEW phase, <<s, phase>> \in fw.bus
  PROVE  /\ phase = "start" => state.spans[s].start = 0
         /\ phase = "end" => state.spans[s].end = 0
         /\ \A i \in DOMAIN log : ~ (log[i].span = s /\ log[i].part = phase)
<1>1. \A i \in DOMAIN log : <<log[i].span, log[i].part>> \notin fw.bus
  BY DEF CrewEvents
<1>2. \A i \in DOMAIN log : ~ (log[i].span = s /\ log[i].part = phase)
  BY <1>1
<1>3. QED
  BY <1>2 DEF Tracks, TracksSpan, Locates, IsAt

(* The event and its edges are recorded, and the state tracks the longer   *)
(* log.                                                                    *)
LEMMA EventRecorded ==
  ASSUME CrewSorts, CrewInv, NEW s \in CW!Spans, NEW phase \in Phases,
         <<s, phase>> \in fw.bus, NEW state \in RunState, Tracks(state),
         NEW key, NEW memory, CW!RecordIn(key, state, s, phase, memory)
  PROVE  /\ log' \in Seq(CrewEvent) /\ edges' \in Seq(LogEdge) /\ CrewEdges'
         /\ Record(EventOf(state.run, s, phase)) /\ EventOf(state.run, s, phase) \in CrewEvent
         /\ \E next \in RunState :
              /\ next.run = state.run /\ next.isOpen = state.isOpen /\ Tracks(next)'
              /\ mem' = [memory EXCEPT !.runs[key] = next]
<1>1. CrewTypes /\ CrewBus /\ CrewEvents /\ CrewEdges
  BY DEF CrewInv
<1>2. PICK e : e = EventOf(state.run, s, phase)
  OBVIOUS
<1>3. e \in CrewEvent /\ NewEvent(e, state, s, phase)
  <2>1. state.run \in Nat \ {0} /\ CW!Parent(s) \in Parents /\ CW!HomeOf(s) \in Homes
        /\ phase \in {"start", "end", "point"}
    BY StateTypes DEF Parents, Homes, Phases
  <2>2. QED
    BY <1>2, <2>1 DEF EventOf, CrewEvent, EventIn, NewEvent
<1>4. PICK noted : noted = CW!Noted(state, s, phase)
  OBVIOUS
<1>5. /\ Record(e) /\ edges' = edges \o CW!NewEdges(noted, s)
      /\ mem' = [memory EXCEPT !.runs[key] = CW!Resolved(noted, s)]
  <2>1. CW!Event(state.run, phase, s, CW!Parent(s), CW!HomeOf(s)) = e
    BY <1>2, CrewWrites DEF EventOf
  <2>2. QED
    BY <1>4, <2>1, CrewWrites DEF CW!RecordIn
<1>6. PICK n : n = NextId
  OBVIOUS
<1>7. n = CW!NextId /\ n \in Nat \ {0}
  BY <1>1, <1>3, <1>5, <1>6, AtGrows, CrewWrites
<1>8. CW!Parent(s) # s
  <2>1. CW!Emitted(s, "start")
    BY <1>1 DEF CrewBus, CW!Emitted, Phases
  <2>2. QED
    BY <1>1, <2>1 DEF CrewBus
<1>9. PICK next : next = CW!Resolved(noted, s)
  OBVIOUS
<1>10. CASE phase = "end"
  <2>1. state.spans[s].end = 0
    BY <1>1, <1>10, NotYetThere
  <2>2. /\ CW!NewEdges(noted, s) = CW!Edge(state.spans[s].start, n, "DERIVED_FROM")
        /\ Ended(state, next, s, n)
    BY <1>4, <1>7, <1>8, <1>9, <1>10, <2>1, EndResolved
  <2>3. Tracks(next)'
    BY <1>1, <1>3, <1>5, <1>6, <1>10, <2>1, <2>2, TracksEnded DEF NewEvent
  <2>4. edges' \in Seq(LogEdge) /\ CrewEdges'
    <3>1. edges' = edges \o CW!Edge(state.spans[s].start, n, "DERIVED_FROM")
      BY <1>5, <2>2
    <3>2. NewEvent(e, state, s, "end")
      BY <1>3, <1>10
    <3>3. QED
      BY <1>1, <1>3, <1>5, <1>6, <2>1, <3>1, <3>2, EdgesEnded
  <2>5. next \in RunState /\ next.run = state.run /\ next.isOpen = state.isOpen
    BY <2>2 DEF Ended
  <2>6. log' \in Seq(CrewEvent)
    BY <1>1, <1>3, <1>5, Logged DEF CrewTypes
  <2>7. QED
    BY <1>2, <1>3, <1>5, <1>9, <2>3, <2>4, <2>5, <2>6
<1>11. CASE phase = "start"
  <2>1. state.spans[s].start = 0
    BY <1>1, <1>11, NotYetThere
  <2>2. /\ StartEdges(state, s, n, CW!NewEdges(noted, s))
        /\ Started(state, next, s, n)
    BY <1>1, <1>4, <1>7, <1>8, <1>9, <1>11, <2>1, StartResolved
  <2>3. Tracks(next)'
    BY <1>1, <1>3, <1>5, <1>6, <1>8, <1>11, <2>1, <2>2, TracksStarted DEF NewEvent
  <2>4. edges' \in Seq(LogEdge) /\ CrewEdges'
    <3>1. PICK added : added = CW!NewEdges(noted, s)
      OBVIOUS
    <3>2. StartEdges(state, s, n, added) /\ edges' = edges \o added
      BY <1>5, <2>2, <3>1
    <3>3. NewEvent(e, state, s, "start")
      BY <1>3, <1>11
    <3>4. QED
      BY <1>1, <1>3, <1>5, <1>6, <1>8, <2>1, <3>2, <3>3, EdgesStarted
  <2>5. next \in RunState /\ next.run = state.run /\ next.isOpen = state.isOpen
    BY <2>2 DEF Started
  <2>6. log' \in Seq(CrewEvent)
    BY <1>1, <1>3, <1>5, Logged DEF CrewTypes
  <2>7. QED
    BY <1>2, <1>3, <1>5, <1>9, <2>3, <2>4, <2>5, <2>6
<1>12. QED
  BY <1>10, <1>11 DEF Phases

(* The event is taken from the bus.                                        *)
Taking(s, phase) ==
  /\ <<s, phase>> \in fw.bus
  /\ fw' = [fw EXCEPT !.bus = fw.bus \ {<<s, phase>>}]

LEMMA TakenOff ==
  ASSUME CrewTypes, NEW s, NEW phase, Taking(s, phase)
  PROVE  /\ fw' \in [emitted : SUBSET (CW!Spans \X Phases), bus : SUBSET (CW!Spans \X Phases)]
         /\ fw'.emitted = fw.emitted /\ fw'.bus = fw.bus \ {<<s, phase>>}
  BY DEF CrewTypes, Taking

(* The key of the run that was recorded in now has the next state.         *)
KeyMoved(key, next, memory) ==
  /\ mem' = [memory EXCEPT !.runs[key] = next]
  /\ \A c \in CW!Crew : mem'.runs[c] = IF c = key THEN next ELSE mem.runs[c]
  /\ mem'.open = memory.open /\ mem'.last = memory.last /\ mem'.opened = memory.opened
  /\ \A c \in CW!Crew : CW!Known(c)' <=> c = key \/ CW!Known(c)

LEMMA CrewMoved ==
  ASSUME CrewTypes, NEW key \in CW!Crew, NEW next \in RunState,
         NEW memory \in Memory, memory.runs = mem.runs,
         mem' = [memory EXCEPT !.runs[key] = next]
  PROVE  mem' \in Memory /\ KeyMoved(key, next, memory)
<1>1. /\ mem.runs \in [CW!Crew -> RunState \cup {CW!NoState}]
  BY DEF CrewTypes
<1>2. /\ mem' \in Memory
      /\ \A c \in CW!Crew : mem'.runs[c] = IF c = key THEN next ELSE mem.runs[c]
      /\ mem'.open = memory.open /\ mem'.last = memory.last /\ mem'.opened = memory.opened
  BY <1>1 DEF Memory
<1>3. next # CW!NoState
  <2>1. next.run # 0
    BY StateTypes
  <2>2. CW!NoState.run = 0
    BY DEF CW!NoState, CW!NoId
  <2>3. QED
    BY <2>1, <2>2
<1>4. CW!NoState' = CW!NoState
  BY DEF CW!NoState, CW!NoId
<1>5. QED
  BY <1>2, <1>3, <1>4 DEF KeyMoved, CW!Known

(* What a recorded event leaves behind, but for the list of the open.      *)
LEMMA CrewRecorded ==
  ASSUME CrewSorts, CrewInv, NEW s \in CW!Spans, NEW phase \in Phases, Taking(s, phase),
         NEW key \in CW!Crew, s \in CW!Root /\ phase = "start" => key = CrewOf[s],
         NEW state \in RunState, Tracks(state),
         NEW memory \in Memory, memory.runs = mem.runs,
         state.run <= memory.opened, mem.opened <= memory.opened,
         \A d \in CW!Crew : CW!Known(d) /\ d # key => mem.runs[d].run # state.run,
         CW!RecordIn(key, state, s, phase, memory)
  PROVE  /\ CrewTypes' /\ CrewBus' /\ CrewEvents' /\ CrewEdges' /\ CrewRuns'
         /\ \E next \in RunState : next.isOpen = state.isOpen /\ KeyMoved(key, next, memory)
<1>1. CrewTypes /\ CrewBus /\ CrewEvents /\ CrewEdges /\ CrewRuns
  BY DEF CrewInv
<1>2. PICK e : e = EventOf(state.run, s, phase)
  OBVIOUS
<1>3. /\ log' \in Seq(CrewEvent) /\ edges' \in Seq(LogEdge) /\ CrewEdges'
      /\ Record(e) /\ e \in CrewEvent
      /\ \E next \in RunState :
           /\ next.run = state.run /\ next.isOpen = state.isOpen /\ Tracks(next)'
           /\ mem' = [memory EXCEPT !.runs[key] = next]
  BY <1>2, EventRecorded DEF Taking
<1>4. PICK next \in RunState :
        /\ next.run = state.run /\ next.isOpen = state.isOpen /\ Tracks(next)'
        /\ mem' = [memory EXCEPT !.runs[key] = next]
  BY <1>3
<1>5. mem' \in Memory /\ KeyMoved(key, next, memory)
  BY <1>1, <1>4, CrewMoved
<1>6. /\ fw' \in [emitted : SUBSET (CW!Spans \X Phases), bus : SUBSET (CW!Spans \X Phases)]
      /\ fw'.emitted = fw.emitted /\ fw'.bus = fw.bus \ {<<s, phase>>}
  BY <1>1, TakenOff
<1>7. CrewTypes'
  <2>1. /\ CW!Crew' = CW!Crew /\ CW!Spans' = CW!Spans /\ CW!NoState' = CW!NoState
        /\ CW!NoKey' = CW!NoKey /\ RunState' = RunState /\ CrewEvent' = CrewEvent
    BY DEF CW!Crew, CW!Spans, CW!Root, CW!ToSet, CW!NoState, CW!NoId, CW!NoKey, RunState,
           SpanRec, Parents, CW!Parent, CW!NoSpan, CrewEvent, EventIn, Homes, CW!HomeOf
  <2>2. QED
    BY <1>3, <1>5, <1>6, <2>1 DEF CrewTypes, Memory
<1>8. CrewBus'
  <2>1. /\ \A r, part : CW!Emitted(r, part)' <=> CW!Emitted(r, part)
        /\ \A r, part : <<r, part>> \in fw'.bus => <<r, part>> \in fw.bus
    BY <1>6 DEF CW!Emitted
  <2>2. fw'.bus \subseteq fw'.emitted
    BY <1>1, <1>6 DEF CrewBus
  <2>3. ASSUME NEW r \in CW!Root, CW!Emitted(r, "start"), <<r, "start">> \notin fw'.bus
        PROVE  CW!Known(CrewOf[r])'
    <3>1. CrewOf[r] \in CW!Crew
      BY DEF CW!Crew
    <3>2. CASE <<r, "start">> \in fw.bus
      <4>1. r = s /\ phase = "start"
        BY <1>6, <2>3, <3>2
      <4>2. QED
        BY <1>5, <3>1, <4>1 DEF KeyMoved
    <3>3. CASE <<r, "start">> \notin fw.bus
      BY <1>1, <1>5, <2>3, <3>1, <3>3 DEF CrewBus, KeyMoved
    <3>4. QED
      BY <3>2, <3>3
  <2>4. \A r \in CW!Root : CW!Emitted(r, "end") => <<r, "start">> \notin fw'.bus
    BY <1>1, <2>1 DEF CrewBus
  <2>5. \A r \in CW!Spans : /\ CW!Emitted(r, "start") => CW!Parent(r) # r
                            /\ CW!Emitted(r, "end") => CW!Emitted(r, "start")
    BY <1>1 DEF CrewBus
  <2>6. QED
    BY <2>1, <2>2, <2>3, <2>4, <2>5 DEF CrewBus
<1>9. PICK n : n = NextId
  OBVIOUS
<1>10. /\ n \notin DOMAIN log /\ DOMAIN log' = DOMAIN log \cup {n} /\ log'[n] = e
       /\ \A i \in DOMAIN log : log'[i] = log[i]
  BY <1>1, <1>3, <1>9, Logged DEF CrewTypes
<1>11. e.run = state.run /\ e.span = s /\ e.part = phase /\ e.parent = CW!Parent(s)
  BY <1>2 DEF EventOf
<1>12. mem'.opened = memory.opened
  BY <1>5 DEF KeyMoved
<1>13. CrewEvents'
  <2>1. ASSUME NEW i \in DOMAIN log'
        PROVE  /\ log'[i].part \in Phases /\ log'[i].parent = CW!Parent(log'[i].span)
               /\ <<log'[i].span, log'[i].part>> \in fw'.emitted \ fw'.bus
               /\ log'[i].run <= mem'.opened
    <3>1. CASE i = n
      <4>1. <<s, phase>> \in fw.emitted
        BY <1>1 DEF CrewBus, Taking
      <4>2. QED
        BY <1>6, <1>10, <1>11, <1>12, <3>1, <4>1
    <3>2. CASE i # n
      <4>1. i \in DOMAIN log /\ log'[i] = log[i]
        BY <1>10, <3>2
      <4>2. log[i].run \in Nat
        <5>1. log[i] \in CrewEvent
          BY <1>1, <4>1, ElementOfSeq, LenProperties DEF CrewTypes
        <5>2. QED
          BY <5>1 DEF CrewEvent, EventIn
      <4>3. mem.opened \in Nat /\ memory.opened \in Nat
        BY <1>1 DEF CrewTypes, Memory
      <4>4. log[i].run <= mem'.opened
        <5>1. log[i].run <= mem.opened
          BY <1>1, <4>1 DEF CrewEvents
        <5>2. QED
          BY <1>12, <4>2, <4>3, <5>1
      <4>5. QED
        BY <1>1, <1>6, <4>1, <4>4 DEF CrewEvents
    <3>3. QED
      BY <3>1, <3>2
  <2>2. ASSUME NEW i \in DOMAIN log', NEW j \in DOMAIN log',
               log'[i].span = log'[j].span, log'[i].part = log'[j].part
        PROVE  i = j
    <3>1. \A k \in DOMAIN log : ~ (log[k].span = s /\ log[k].part = phase)
      BY <1>1, NotYetThere DEF Taking
    <3>2. CASE n \in {i, j}
      BY <1>10, <1>11, <2>2, <3>1, <3>2
    <3>3. CASE n \notin {i, j}
      BY <1>1, <1>10, <2>2, <3>3 DEF CrewEvents
    <3>4. QED
      BY <3>2, <3>3
  <2>3. QED
    BY <2>1, <2>2 DEF CrewEvents, CW!Parent, CW!Root, CW!ToSet, CW!NoSpan, Phases
<1>14. CrewRuns'
  <2>1. ASSUME NEW c \in CW!Crew, CW!Known(c)'
        PROVE  mem'.runs[c].run <= mem'.opened /\ Tracks(mem.runs[c])'
    <3>1. CASE c = key
      <4>1. mem'.runs[c] = next
        BY <1>5, <3>1 DEF KeyMoved
      <4>2. QED
        BY <1>4, <1>12, <4>1
    <3>2. CASE c # key
      <4>1. PICK other : other = mem.runs[c]
        OBVIOUS
      <4>2. CW!Known(c) /\ mem'.runs[c] = other
        BY <1>5, <2>1, <3>2, <4>1 DEF KeyMoved
      <4>3. Tracks(other) /\ other.run <= mem.opened /\ other.run # state.run
        BY <1>1, <3>2, <4>1, <4>2 DEF CrewRuns
      <4>4. Tracks(other)'
        BY <1>1, <1>3, <1>11, <4>3, TracksOther
      <4>5. other.run \in Nat /\ mem.opened \in Nat /\ memory.opened \in Nat
        <5>1. other \in RunState
          BY <1>1, <4>1, <4>2 DEF CrewTypes, CW!Known
        <5>2. QED
          BY <1>1, <5>1, StateTypes DEF CrewTypes, Memory
      <4>6. other.run <= mem'.opened
        BY <1>12, <4>3, <4>5
      <4>7. QED
        BY <4>2, <4>4, <4>6
    <3>3. QED
      BY <3>1, <3>2
  <2>2. ASSUME NEW c \in CW!Crew, NEW d \in CW!Crew, CW!Known(c)', CW!Known(d)',
               mem'.runs[c].run = mem'.runs[d].run
        PROVE  c = d
    <3>1. /\ mem'.runs[c] = IF c = key THEN next ELSE mem.runs[c]
          /\ mem'.runs[d] = IF d = key THEN next ELSE mem.runs[d]
          /\ c = key \/ CW!Known(c)
          /\ d = key \/ CW!Known(d)
      BY <1>5, <2>2 DEF KeyMoved
    <3>2. QED
      BY <1>1, <1>4, <2>2, <3>1 DEF CrewRuns
  <2>3. QED
    BY <2>1, <2>2 DEF CrewRuns, CW!Crew, CW!Root, CW!ToSet
<1>15. QED
  BY <1>3, <1>4, <1>5, <1>7, <1>8, <1>13, <1>14

-----------------------------------------------------------------------------
(* What the listener does with an event *)

(* An event for a run that is known, and no run opened or closed.          *)
LEMMA CrewStays ==
  ASSUME CrewSorts, CrewInv, NEW s \in CW!Spans, NEW phase \in Phases, Taking(s, phase),
         NEW key \in CW!Crew, s \in CW!Root /\ phase = "start" => key = CrewOf[s],
         CW!Known(key), CW!RecordIn(key, mem.runs[key], s, phase, mem)
  PROVE  CrewInv'
<1>1. CrewTypes /\ CrewRuns /\ CrewOpen
  BY DEF CrewInv
<1>2. PICK state, memory : state = mem.runs[key] /\ memory = mem
  OBVIOUS
<1>3. /\ state \in RunState /\ Tracks(state) /\ state.run <= memory.opened
      /\ memory \in Memory /\ memory.runs = mem.runs /\ memory.opened \in Nat
  BY <1>1, <1>2 DEF CrewTypes, CrewRuns, CW!Known, Memory
<1>4. \A d \in CW!Crew : CW!Known(d) /\ d # key => mem.runs[d].run # state.run
  BY <1>1, <1>2 DEF CrewRuns
<1>5. mem.opened <= memory.opened /\ CW!RecordIn(key, state, s, phase, memory)
  BY <1>2, <1>3
<1>6. /\ CrewTypes' /\ CrewBus' /\ CrewEvents' /\ CrewEdges' /\ CrewRuns'
      /\ \E next \in RunState : next.isOpen = state.isOpen /\ KeyMoved(key, next, memory)
  BY <1>3, <1>4, <1>5, CrewRecorded
<1>7. PICK next \in RunState : next.isOpen = state.isOpen /\ KeyMoved(key, next, memory)
  BY <1>6
<1>8. CrewOpen'
  <2>1. mem'.open = mem.open /\ mem'.last = mem.last
    BY <1>2, <1>7 DEF KeyMoved
  <2>2. \A c \in CW!Crew : /\ CW!Known(c)' <=> CW!Known(c)
                           /\ CW!Known(c) => mem'.runs[c].isOpen = mem.runs[c].isOpen
    BY <1>2, <1>7 DEF KeyMoved
  <2>3. mem.last # CW!NoKey => mem.last \in CW!Crew
    BY <1>1 DEF CrewTypes
  <2>4. Increasing(mem'.open, Apart)
    BY <1>1, <2>1 DEF CrewOpen
  <2>5. ASSUME NEW c \in CW!Crew
        PROVE  c \in Range(mem'.open) <=> CW!Known(c)' /\ mem'.runs[c].isOpen
    BY <1>1, <2>1, <2>2 DEF CrewOpen
  <2>6. mem'.last # CW!NoKey => CW!Known(mem.last)'
    BY <1>1, <2>1, <2>2, <2>3 DEF CrewOpen
  <2>7. QED
    BY <2>4, <2>5, <2>6 DEF CrewOpen, Apart, CW!Crew, CW!Root, CW!ToSet, Increasing, Range,
         CW!NoKey
<1>9. QED
  BY <1>6, <1>8 DEF CrewInv

(* Nothing was recorded yet in the run that is opened next.                *)
LEMMA NewTracks ==
  ASSUME CrewSorts, CrewInv
  PROVE  /\ CW!NewState \in RunState /\ Tracks(CW!NewState)
         /\ CW!NewState.run = mem.opened + 1 /\ CW!NewState.isOpen = TRUE
         /\ mem.opened \in Nat
<1>1. PICK state : state = CW!NewState
  OBVIOUS
<1>2. mem.opened \in Nat
  BY DEF CrewInv, CrewTypes
<1>3. /\ state.run = mem.opened + 1 /\ state.isOpen = TRUE
      /\ state.spans = [s \in CW!Spans |-> CW!NoRec]
      /\ state.pending = [p \in CW!Spans \cup {Internal} |-> {}]
  BY <1>1 DEF CW!NewState
<1>4. CW!NoRec \in SpanRec
  BY DEF CW!NoRec, SpanRec, CW!NoId, Parents
<1>5. state \in RunState
  <2>1. state.spans \in [CW!Spans -> SpanRec]
    BY <1>3, <1>4
  <2>2. state.pending \in [CW!Spans \cup {Internal} -> SUBSET CW!Spans]
    BY <1>3
  <2>3. state = [run |-> state.run, isOpen |-> state.isOpen, spans |-> state.spans,
                 pending |-> state.pending]
    BY <1>1 DEF CW!NewState
  <2>4. state.run \in Nat \ {0} /\ state.isOpen \in BOOLEAN
    <3>1. mem.opened + 1 \in Nat \ {0}
      BY <1>2
    <3>2. QED
      BY <1>3, <3>1
  <2>5. QED
    BY <2>1, <2>2, <2>3, <2>4 DEF RunState
<1>6. \A s \in CW!Spans :
        /\ state.spans[s].start = 0 /\ state.spans[s].end = 0
        /\ state.spans[s].parent = CW!NoSpan
        /\ state.spans[s].derived = FALSE /\ state.spans[s].informed = FALSE
  BY <1>3 DEF CW!NoRec, CW!NoId
<1>7. \A j, s, part : ~ IsAt(j, state.run, s, part)
  <2> SUFFICES ASSUME NEW j \in DOMAIN log, log[j].run = state.run PROVE FALSE
    BY DEF IsAt
  <2>1. log[j].run <= mem.opened
    BY DEF CrewInv, CrewEvents
  <2>2. QED
    BY <1>2, <1>3, <2>1
<1>8. Tracks(state)
  <2>1. \A s \in CW!Spans : TracksSpan(state, s)
    BY <1>6, <1>7 DEF TracksSpan, Locates
  <2>2. \A p \in CW!Spans \cup {Internal} : Orphans(state, p) = {} /\ state.pending[p] = {}
    BY <1>3, <1>6 DEF Orphans
  <2>3. QED
    BY <2>1, <2>2, FS_EmptySet DEF Tracks
<1>9. QED
  BY <1>1, <1>2, <1>3, <1>5, <1>8

(* A kickoff starts.                                                       *)
LEMMA CrewOpened ==
  ASSUME CrewSorts, CrewInv, NEW s \in CW!Root, Taking(s, "start"), CW!OpenRun(CrewOf[s], s)
  PROVE  CrewInv'
<1>1. CrewTypes /\ CrewRuns /\ CrewOpen
  BY DEF CrewInv
<1>2. PICK key \in CW!Crew : key = CrewOf[s]
  BY DEF CW!Crew
<1>3. s \in CW!Spans /\ "start" \in Phases
  BY DEF CW!Spans, Phases
<1>4. CASE CW!Known(key) /\ mem.runs[key].isOpen
  <2>1. CW!RecordIn(key, mem.runs[key], s, "start", mem)
    BY <1>2, <1>4 DEF CW!OpenRun
  <2>2. QED
    BY <1>2, <1>3, <1>4, <2>1, CrewStays
<1>5. CASE ~ (CW!Known(key) /\ mem.runs[key].isOpen)
  <2>1. PICK state, memory :
          /\ state = CW!NewState
          /\ memory = [mem EXCEPT !.open = Append(@, key), !.last = key, !.opened = @ + 1]
    OBVIOUS
  <2>2. CW!RecordIn(key, state, s, "start", memory)
    BY <1>2, <1>5, <2>1 DEF CW!OpenRun
  <2>3. /\ memory.runs = mem.runs /\ memory.open = Append(mem.open, key)
        /\ memory.last = key /\ memory.opened = mem.opened + 1 /\ memory \in Memory
        /\ mem.open \in Seq(CW!Crew)
    <3>1. Append(mem.open, key) \in Seq(CW!Crew)
      BY <1>1, AppendProperties DEF CrewTypes
    <3>2. PICK longer, more : longer = Append(mem.open, key) /\ more = mem.opened + 1
      OBVIOUS
    <3>3. longer \in Seq(CW!Crew) /\ more \in Nat
      BY <1>1, <3>1, <3>2 DEF CrewTypes
    <3>4. memory = [mem EXCEPT !.open = longer, !.last = key, !.opened = more]
      BY <2>1, <3>2
    <3>5. /\ memory.runs = mem.runs /\ memory.open = longer
          /\ memory.last = key /\ memory.opened = more /\ memory \in Memory
          /\ mem.open \in Seq(CW!Crew)
      BY <1>1, <3>3, <3>4 DEF CrewTypes, Memory
    <3>6. QED
      BY <3>2, <3>5
  <2>4. /\ state \in RunState /\ Tracks(state) /\ state.run = mem.opened + 1
        /\ state.isOpen = TRUE /\ mem.opened \in Nat
    BY <2>1, NewTracks
  <2>5. \A d \in CW!Crew : CW!Known(d) /\ d # key => mem.runs[d].run # state.run
    <3> SUFFICES ASSUME NEW d \in CW!Crew, CW!Known(d) PROVE mem.runs[d].run # mem.opened + 1
      BY <2>4
    <3>1. mem.runs[d] \in RunState /\ mem.runs[d].run <= mem.opened
      BY <1>1 DEF CrewTypes, CrewRuns, CW!Known
    <3>2. mem.runs[d].run \in Nat
      BY <3>1, StateTypes
    <3>3. QED
      BY <2>4, <3>1, <3>2
  <2>6. state.run <= memory.opened /\ mem.opened <= memory.opened
    BY <2>3, <2>4
  <2>7. /\ CrewTypes' /\ CrewBus' /\ CrewEvents' /\ CrewEdges' /\ CrewRuns'
        /\ \E next \in RunState : next.isOpen = state.isOpen /\ KeyMoved(key, next, memory)
    BY <1>2, <1>3, <2>2, <2>3, <2>4, <2>5, <2>6, CrewRecorded
  <2>8. PICK next \in RunState : next.isOpen = TRUE /\ KeyMoved(key, next, memory)
    BY <2>4, <2>7
  <2>9. CrewOpen'
    <3>1. key \notin Range(mem.open)
      BY <1>1, <1>5 DEF CrewOpen
    <3>2. /\ mem'.open = Append(mem.open, key) /\ mem'.last = key
          /\ Range(mem'.open) = Range(mem.open) \cup {key}
      <4>1. mem'.open = Append(mem.open, key) /\ mem'.last = key
        BY <2>3, <2>8 DEF KeyMoved
      <4>2. Range(Append(mem.open, key)) = Range(mem.open) \cup {key}
        BY <2>3, RangeAppend
      <4>3. QED
        BY <4>1, <4>2
    <3>3. Increasing(mem'.open, Apart)
      <4>1. \A x \in Range(mem.open) : <<x, key>> \in Apart
        <5>1. Range(mem.open) \subseteq CW!Crew
          BY <2>3, RangeOfSeq
        <5>2. QED
          BY <3>1, <5>1 DEF Apart
      <4>2. QED
        BY <1>1, <2>3, <3>2, <4>1, IncreasingAppend DEF CrewOpen
    <3>4. ASSUME NEW c \in CW!Crew
          PROVE  c \in Range(mem'.open) <=> CW!Known(c)' /\ mem'.runs[c].isOpen
      <4>1. CASE c = key
        BY <2>8, <3>2, <4>1 DEF KeyMoved
      <4>2. CASE c # key
        BY <1>1, <2>8, <3>2, <4>2 DEF KeyMoved, CrewOpen
      <4>3. QED
        BY <4>1, <4>2
    <3>5. CW!Known(mem.last)'
      BY <2>8, <3>2 DEF KeyMoved, CW!Known
    <3>6. QED
      BY <3>3, <3>4, <3>5 DEF CrewOpen, Apart, CW!Crew, CW!Root, CW!ToSet, Increasing, Range,
           CW!NoKey
  <2>10. QED
    BY <2>7, <2>9 DEF CrewInv
<1>6. QED
  BY <1>4, <1>5

(* The one place of a key goes.                                            *)
LEMMA FirstRemoved ==
  ASSUME NEW open \in Seq(CW!Crew), Increasing(open, Apart), NEW key \in CW!Crew
  PROVE  LET rest == CW!RemoveFirst(open, key) IN
         /\ rest \in Seq(CW!Crew) /\ Increasing(rest, Apart)
         /\ Range(rest) = Range(open) \ {key}
<1>1. Len(open) \in Nat /\ DOMAIN open = 1 .. Len(open) /\ Range(open) = {open[i] : i \in 1 .. Len(open)}
  BY LenProperties DEF Range
<1>2. CASE ~ \E i \in 1 .. Len(open) : open[i] = key
  <2>1. CW!RemoveFirst(open, key) = open
    BY <1>2 DEF CW!RemoveFirst
  <2>2. key \notin Range(open)
    BY <1>1, <1>2
  <2>3. QED
    BY <2>1, <2>2
<1>3. CASE \E i \in 1 .. Len(open) : open[i] = key
  <2> DEFINE I == {i \in 1 .. Len(open) : open[i] = key}
  <2>1. PICK i \in 1 .. Len(open) : open[i] = key
    BY <1>3
  <2>2. \A j \in I : j = i
    <3> SUFFICES ASSUME NEW j \in I, j # i PROVE FALSE
      OBVIOUS
    <3>1. j \in Nat /\ i \in Nat /\ j \in 1 .. Len(open)
      BY <1>1
    <3>2. (i < j \/ j < i) => <<key, key>> \in Apart
      BY <2>1, <3>1 DEF Increasing
    <3>3. QED
      BY <3>1, <3>2 DEF Apart
  <2>3. I = {i}
    BY <2>1, <2>2
  <2>4. CW!Min(I) = i
    <3>1. i <= i
      BY <1>1
    <3>2. QED
      BY <2>3, <3>1 DEF CW!Min
  <2>5. CW!RemoveFirst(open, key) = CW!RemoveAt(open, CW!Min(I))
    <3>1. CW!SelectInSeq(open, LAMBDA v : v = key) = CW!Min(I)
      BY <2>3 DEF CW!SelectInSeq
    <3>2. QED
      BY <1>3, <3>1 DEF CW!RemoveFirst
  <2>6. PICK rest : rest = RemoveAt(open, i)
    OBVIOUS
  <2>7. CW!RemoveFirst(open, key) = rest
    BY <2>4, <2>5, <2>6 DEF CW!RemoveAt, RemoveAt
  <2>8. /\ rest \in Seq(CW!Crew) /\ Increasing(rest, Apart)
        /\ Range(open) = Range(rest) \cup {key}
        /\ \A x \in Range(rest) : <<x, key>> \in Apart \/ <<key, x>> \in Apart
    BY <2>1, <2>6, Removed
  <2>9. key \notin Range(rest)
    BY <2>8 DEF Apart
  <2>10. QED
    BY <2>7, <2>8, <2>9
<1>4. QED
  BY <1>2, <1>3

(* A kickoff is completed: its own run is known and is closed.             *)
LEMMA CrewClosed ==
  ASSUME CrewSorts, CrewInv, NEW s \in CW!Root, Taking(s, "end"), CW!CloseRun(CrewOf[s], s)
  PROVE  CrewInv'
<1>1. CrewTypes /\ CrewBus /\ CrewRuns /\ CrewOpen
  BY DEF CrewInv
<1>2. PICK key \in CW!Crew : key = CrewOf[s]
  BY DEF CW!Crew
<1>3. s \in CW!Spans /\ "end" \in Phases
  BY DEF CW!Spans, Phases
<1>4. CW!Known(key)
  <2>1. CW!Emitted(s, "end")
    BY <1>1 DEF CrewBus, Taking, CW!Emitted
  <2>2. CW!Emitted(s, "start") /\ <<s, "start">> \notin fw.bus
    BY <1>1, <1>3, <2>1 DEF CrewBus
  <2>3. QED
    BY <1>1, <1>2, <2>2 DEF CrewBus
<1>5. PICK state, memory, rest :
        /\ state = [mem.runs[key] EXCEPT !.isOpen = FALSE]
        /\ rest = CW!RemoveFirst(mem.open, key) /\ memory = [mem EXCEPT !.open = rest]
  OBVIOUS
<1>6. CW!RecordIn(key, state, s, "end", memory)
  <2>1. key # CW!NoKey
    BY DEF CrewSorts
  <2>2. QED
    BY <1>2, <1>4, <1>5, <2>1 DEF CW!CloseRun
<1>7. PICK before : before = mem.runs[key]
  OBVIOUS
<1>8. /\ before \in RunState /\ Tracks(before) /\ before.run <= mem.opened /\ mem.opened \in Nat
      /\ mem.open \in Seq(CW!Crew)
  BY <1>1, <1>4, <1>7 DEF CrewTypes, CrewRuns, CW!Known
<1>9. /\ state \in RunState /\ state.run = before.run /\ state.isOpen = FALSE
      /\ state.spans = before.spans /\ state.pending = before.pending
  BY <1>5, <1>7, <1>8 DEF RunState
<1>10. Tracks(state)
  BY <1>8, <1>9 DEF Tracks, TracksSpan, Orphans, CW!StartOf
<1>11. /\ rest \in Seq(CW!Crew) /\ Increasing(rest, Apart)
       /\ Range(rest) = Range(mem.open) \ {key}
  BY <1>1, <1>5, <1>8, FirstRemoved DEF CrewOpen
<1>12. /\ memory \in Memory /\ memory.runs = mem.runs /\ memory.open = rest
       /\ memory.last = mem.last /\ memory.opened = mem.opened
  BY <1>1, <1>5, <1>11 DEF CrewTypes, Memory
<1>13. \A d \in CW!Crew : CW!Known(d) /\ d # key => mem.runs[d].run # state.run
  BY <1>1, <1>4, <1>7, <1>9 DEF CrewRuns
<1>14. state.run <= memory.opened /\ mem.opened <= memory.opened
  BY <1>8, <1>9, <1>12
<1>15. /\ CrewTypes' /\ CrewBus' /\ CrewEvents' /\ CrewEdges' /\ CrewRuns'
       /\ \E next \in RunState : next.isOpen = state.isOpen /\ KeyMoved(key, next, memory)
  BY <1>3, <1>6, <1>9, <1>10, <1>12, <1>13, <1>14, CrewRecorded
<1>16. PICK next \in RunState : next.isOpen = FALSE /\ KeyMoved(key, next, memory)
  BY <1>9, <1>15
<1>17. CrewOpen'
  <2>1. mem'.open = rest /\ mem'.last = mem.last
    BY <1>12, <1>16 DEF KeyMoved
  <2>2. \A c \in CW!Crew :
          /\ CW!Known(c)' <=> CW!Known(c)
          /\ c # key => mem'.runs[c] = mem.runs[c]
          /\ c = key => mem'.runs[c] = next
    BY <1>4, <1>16 DEF KeyMoved
  <2>3. ASSUME NEW c \in CW!Crew
        PROVE  c \in Range(mem'.open) <=> CW!Known(c)' /\ mem'.runs[c].isOpen
    <3>1. CASE c = key
      BY <1>11, <1>16, <2>1, <2>2, <3>1
    <3>2. CASE c # key
      <4>1. c \in Range(mem'.open) <=> c \in Range(mem.open)
        BY <1>11, <2>1, <3>2
      <4>2. QED
        BY <1>1, <2>2, <3>2, <4>1 DEF CrewOpen
    <3>3. QED
      BY <3>1, <3>2
  <2>4. mem'.last # CW!NoKey => CW!Known(mem.last)'
    <3>1. mem.last # CW!NoKey => mem.last \in CW!Crew /\ CW!Known(mem.last)
      BY <1>1 DEF CrewTypes, CrewOpen
    <3>2. QED
      BY <2>1, <2>2, <3>1
  <2>5. QED
    BY <1>11, <2>1, <2>3, <2>4 DEF CrewOpen, Apart, CW!Crew, CW!Root, CW!ToSet, Increasing,
         Range, CW!NoKey
<1>18. QED
  BY <1>15, <1>17 DEF CrewInv

(* What the framework does alone: what was recorded is still delivered,    *)
(* and what was remembered is still so.                                    *)
LEMMA CrewKept ==
  ASSUME CrewInv, UNCHANGED <<log, edges, mem>>,
         fw' \in [emitted : SUBSET (CW!Spans \X Phases), bus : SUBSET (CW!Spans \X Phases)],
         CrewBus',
         \A i \in DOMAIN log : <<log[i].span, log[i].part>> \in fw'.emitted \ fw'.bus
  PROVE  CrewInv'
<1>1. CrewTypes'
  BY DEF CrewInv, CrewTypes, CrewEvent, EventIn, LogEdge, Parents, Homes, CW!HomeOf, RunState,
     SpanRec, CW!Crew, CW!Spans, CW!Root, CW!ToSet, CW!NoState, CW!NoId, CW!NoKey, CW!Parent,
     CW!NoSpan
<1>2. CrewEvents'
  BY DEF CrewInv, CrewEvents, Phases, CW!Parent, CW!Root, CW!ToSet, CW!NoSpan
<1>3. CrewEdges'
  BY DEF CrewInv, CrewEdges, EndsLogged, JoinsSpans, Derives, Informs, WithinRun, IsDerived,
     IsChildOf, Linked
<1>4. \A state : Tracks(state)' <=> Tracks(state)
  BY DEF Tracks, TracksSpan, Locates, IsAt, Orphans, CW!StartOf, CW!Spans, CW!Root, CW!ToSet,
     CW!Parent, CW!NoSpan, CW!NoId
<1>5. \A c : CW!Known(c)' <=> CW!Known(c)
  BY DEF CW!Known, CW!NoState, CW!NoId
<1>6. CrewRuns'
  BY <1>4, <1>5 DEF CrewInv, CrewRuns, CW!Crew, CW!Root, CW!ToSet
<1>7. CrewOpen'
  <2>1. CrewOpen
    BY DEF CrewInv
  <2>2. Increasing(mem'.open, Apart)
    BY <2>1 DEF CrewOpen
  <2>3. \A c \in CW!Crew : c \in Range(mem'.open) <=> CW!Known(c)' /\ mem'.runs[c].isOpen
    BY <1>5, <2>1 DEF CrewOpen
  <2>4. mem'.last # CW!NoKey => CW!Known(mem.last)'
    BY <1>5, <2>1 DEF CrewOpen
  <2>5. QED
    BY <2>2, <2>3, <2>4 DEF CrewOpen, Apart, CW!Crew, CW!Root, CW!ToSet, Increasing, Range,
         CW!NoKey
<1>8. QED
  BY <1>1, <1>2, <1>3, <1>6, <1>7 DEF CrewInv

(* An event that no run takes.                                             *)
LEMMA CrewDropped ==
  ASSUME CrewInv, UNCHANGED <<log, edges, mem>>, NEW s \in CW!Spans, s \notin CW!Root,
         NEW phase \in Phases,
         fw' \in [emitted : SUBSET (CW!Spans \X Phases), bus : SUBSET (CW!Spans \X Phases)],
         fw'.emitted = fw.emitted, fw'.bus = fw.bus \ {<<s, phase>>}
  PROVE  CrewInv'
<1>1. CrewBus'
  BY DEF CrewInv, CrewBus, CW!Emitted, CW!Known, CW!NoState, CW!NoId, CW!Spans, CW!Root,
     CW!ToSet, CW!Parent, CW!NoSpan
<1>2. \A i \in DOMAIN log : <<log[i].span, log[i].part>> \in fw'.emitted \ fw'.bus
  BY DEF CrewInv, CrewEvents
<1>3. QED
  BY <1>1, <1>2, CrewKept


(* An operation's event goes to the active run, or nowhere.                *)
LEMMA CrewHeard ==
  ASSUME CrewSorts, CrewInv, NEW s \in Op, s \notin CW!Root, NEW phase \in Phases,
         Taking(s, phase),
         IF CW!ActiveKey = CW!NoKey THEN UNCHANGED <<log, edges, mem>>
         ELSE CW!RecordIn(CW!ActiveKey, mem.runs[CW!ActiveKey], s, phase, mem)
  PROVE  CrewInv'
<1>1. CrewTypes /\ CrewOpen
  BY DEF CrewInv
<1>2. s \in CW!Spans
  BY DEF CW!Spans
<1>3. PICK key : key = CW!ActiveKey
  OBVIOUS
<1>4. CASE key = CW!NoKey
  <2>1. UNCHANGED <<log, edges, mem>>
    BY <1>3, <1>4
  <2>2. /\ fw' \in [emitted : SUBSET (CW!Spans \X Phases), bus : SUBSET (CW!Spans \X Phases)]
        /\ fw'.emitted = fw.emitted /\ fw'.bus = fw.bus \ {<<s, phase>>}
    BY <1>1, TakenOff
  <2>3. QED
    BY <1>2, <2>1, <2>2, CrewDropped
<1>5. CASE key # CW!NoKey
  <2>1. key \in CW!Crew /\ CW!Known(key)
    <3>1. CASE mem.open # <<>>
      <4>1. /\ Len(mem.open) \in 1 .. Len(mem.open) /\ mem.open[Len(mem.open)] \in CW!Crew
            /\ mem.open[Len(mem.open)] \in Range(mem.open)
        <5>1. mem.open \in Seq(CW!Crew)
          BY <1>1 DEF CrewTypes
        <5>2. Len(mem.open) \in Nat /\ Len(mem.open) # 0 /\ DOMAIN mem.open = 1 .. Len(mem.open)
          BY <3>1, <5>1, LenProperties, EmptySeq
        <5>3. QED
          BY <5>1, <5>2, ElementOfSeq DEF Range
      <4>2. key = mem.open[Len(mem.open)]
        BY <1>3, <3>1 DEF CW!ActiveKey, CW!Last
      <4>3. QED
        BY <1>1, <4>1, <4>2 DEF CrewOpen
    <3>2. CASE mem.open = <<>>
      <4>1. key = mem.last
        BY <1>3, <3>2 DEF CW!ActiveKey
      <4>2. QED
        BY <1>1, <1>5, <4>1 DEF CrewOpen, CrewTypes
    <3>3. QED
      BY <3>1, <3>2
  <2>2. CW!RecordIn(key, mem.runs[key], s, phase, mem)
    BY <1>3, <1>5
  <2>3. QED
    BY <1>2, <2>1, <2>2, CrewStays
<1>6. QED
  BY <1>4, <1>5

(* The framework emits an event: neither it nor a later one of its span    *)
(* was delivered yet.                                                      *)
LEMMA CrewEmits ==
  ASSUME CrewSorts, CrewInv, NEW s \in CW!Spans, NEW phase \in Phases, CW!Emit(s, phase)
  PROVE  CrewInv'
<1>1. CrewTypes /\ CrewBus /\ CrewEvents
  BY DEF CrewInv
<1>2. /\ UNCHANGED <<log, edges, mem>>
      /\ fw' = [emitted |-> fw.emitted \cup {<<s, phase>>}, bus |-> fw.bus \cup {<<s, phase>>}]
  BY DEF CW!Emit
<1>3. ~ CW!Emitted(s, phase)
  <2>1. CASE phase = "start"
    BY <2>1 DEF CW!Emit, CW!Begins
  <2>2. CASE phase = "end"
    BY <2>2 DEF CW!Emit, CW!Ends, CW!Running
  <2>3. QED
    BY <2>1, <2>2 DEF Phases
<1>4. /\ fw' \in [emitted : SUBSET (CW!Spans \X Phases), bus : SUBSET (CW!Spans \X Phases)]
      /\ fw'.emitted = fw.emitted \cup {<<s, phase>>} /\ fw'.bus = fw.bus \cup {<<s, phase>>}
  BY <1>1, <1>2 DEF CrewTypes
<1>5. /\ \A r, part : CW!Emitted(r, part)' <=> CW!Emitted(r, part) \/ (r = s /\ part = phase)
      /\ \A r, part : <<r, part>> \in fw'.bus <=> <<r, part>> \in fw.bus \/ (r = s /\ part = phase)
  BY <1>4 DEF CW!Emitted
<1>6. phase = "start" => CW!Parent(s) # s
  <2> SUFFICES ASSUME phase = "start" PROVE CW!Parent(s) # s
    OBVIOUS
  <2>1. CASE CW!Parent(s) \in CW!Spans
    <3>1. CW!Emitted(CW!Parent(s), "start")
      BY <2>1 DEF CW!Emit, CW!Begins, CW!Running
    <3>2. QED
      BY <1>3, <3>1
  <2>2. QED
    BY <2>1
<1>7. phase = "end" => /\ CW!Emitted(s, "start")
                       /\ s \in CW!Root => <<s, "start">> \notin fw.bus
  <2> SUFFICES ASSUME phase = "end"
               PROVE  /\ CW!Emitted(s, "start")
                      /\ s \in CW!Root => <<s, "start">> \notin fw.bus
    OBVIOUS
  <2>1. CW!Ends(s)
    BY DEF CW!Emit
  <2>2. CW!Emitted(s, "start")
    BY <2>1 DEF CW!Ends, CW!Running
  <2>3. ASSUME s \in CW!Root, <<s, "start">> \in fw.bus PROVE FALSE
    <3>1. CW!HomeOf(<<s, "start">>[1]) # s
      BY <2>1, <2>3 DEF CW!Ends
    <3>2. QED
      BY <2>3, <3>1 DEF CW!HomeOf
  <2>4. QED
    BY <2>2, <2>3
<1>8. \A c : CW!Known(c)' <=> CW!Known(c)
  BY <1>2 DEF CW!Known, CW!NoState, CW!NoId
<1>9. CrewBus'
  <2>1. fw'.bus \subseteq fw'.emitted
    BY <1>1, <1>4 DEF CrewBus
  <2>2. ASSUME NEW r \in CW!Spans
        PROVE  /\ CW!Emitted(r, "start")' => CW!Parent(r) # r
               /\ CW!Emitted(r, "end")' => CW!Emitted(r, "start")'
    BY <1>1, <1>5, <1>6, <1>7 DEF CrewBus
  <2>3. ASSUME NEW r \in CW!Root
        PROVE  /\ CW!Emitted(r, "end")' => <<r, "start">> \notin fw'.bus
               /\ CW!Emitted(r, "start")' /\ <<r, "start">> \notin fw'.bus
                    => CW!Known(CrewOf[r])'
    <3>1. r \in CW!Spans
      BY DEF CW!Spans
    <3>2. /\ CW!Emitted(r, "end") => CW!Emitted(r, "start") /\ <<r, "start">> \notin fw.bus
          /\ CW!Emitted(r, "start") /\ <<r, "start">> \notin fw.bus => CW!Known(CrewOf[r])
      BY <1>1, <3>1 DEF CrewBus
    <3>3. QED
      BY <1>3, <1>5, <1>7, <1>8, <3>2
  <2>4. QED
    BY <2>1, <2>2, <2>3 DEF CrewBus, CW!Spans, CW!Root, CW!ToSet, CW!Parent, CW!NoSpan
<1>10. ASSUME NEW i \in DOMAIN log
       PROVE  <<log[i].span, log[i].part>> \in fw'.emitted \ fw'.bus
  <2>1. <<log[i].span, log[i].part>> \in fw.emitted \ fw.bus
    BY <1>1 DEF CrewEvents
  <2>2. <<log[i].span, log[i].part>> # <<s, phase>>
    BY <1>3, <2>1 DEF CW!Emitted
  <2>3. QED
    BY <1>4, <2>1, <2>2
<1>11. QED
  BY <1>2, <1>4, <1>9, <1>10, CrewKept

-----------------------------------------------------------------------------
(* The invariant, and what it says of the links *)

LEMMA CrewInitial == CrewSorts /\ CW!Init => CrewInv
<1> SUFFICES ASSUME CrewSorts, CW!Init PROVE CrewInv
  OBVIOUS
<1>1. /\ log = <<>> /\ edges = <<>> /\ DOMAIN log = {} /\ ToSet(edges) = {}
      /\ IsInjective(edges) /\ edges \in Seq(LogEdge) /\ log \in Seq(CrewEvent)
  BY NoEdges, EmptySeq DEF CW!Init
<1>2. /\ fw = [emitted |-> {}, bus |-> {}]
      /\ mem = [runs |-> [c \in CW!Crew |-> CW!NoState], open |-> <<>>,
                last |-> CW!NoKey, opened |-> 0]
  BY DEF CW!Init
<1>3. \A c \in CW!Crew : ~ CW!Known(c)
  BY <1>2 DEF CW!Known
<1>4. CrewTypes
  BY <1>1, <1>2, EmptySeq DEF CrewTypes
<1>5. CrewBus
  BY <1>2 DEF CrewBus, CW!Emitted
<1>6. CrewEvents /\ CrewEdges
  BY <1>1 DEF CrewEvents, CrewEdges, EndsLogged
<1>7. CrewRuns
  BY <1>3 DEF CrewRuns
<1>8. CrewOpen
  BY <1>2, <1>3, IncreasingEmpty DEF CrewOpen
<1>9. QED
  BY <1>4, <1>5, <1>6, <1>7, <1>8 DEF CrewInv

LEMMA CrewStep ==
  ASSUME CrewSorts, CrewInv, [CW!Next]_(CW!logVars)
  PROVE  CrewInv'
<1>1. ASSUME NEW s \in CW!Spans, NEW phase \in Phases, CW!Emit(s, phase) PROVE CrewInv'
  BY <1>1, CrewEmits
<1>2. ASSUME NEW s \in CW!Spans, NEW phase \in Phases, CW!Handle(s, phase) PROVE CrewInv'
  <2>1. Taking(s, phase)
    BY <1>2 DEF CW!Handle, Taking
  <2>2. CASE s \in CW!Root /\ phase = "start"
    BY <1>2, <2>1, <2>2, CrewOpened DEF CW!Handle
  <2>3. CASE s \in CW!Root /\ phase = "end"
    BY <1>2, <2>1, <2>3, CrewClosed DEF CW!Handle
  <2>4. CASE s \notin CW!Root
    <3>1. s \in Op
      BY <2>4 DEF CW!Spans
    <3>2. QED
      BY <1>2, <2>1, <2>4, <3>1, CrewHeard DEF CW!Handle
  <2>5. QED
    BY <2>2, <2>3, <2>4 DEF Phases
<1>3. CASE UNCHANGED CW!logVars
  <2>1. UNCHANGED <<log, edges, fw, mem>>
    BY <1>3 DEF CW!logVars
  <2>2. CrewBus'
    BY <2>1 DEF CrewInv, CrewBus, CW!Emitted, CW!Known, CW!NoState, CW!NoId, CW!Spans,
       CW!Root, CW!ToSet, CW!Parent, CW!NoSpan
  <2>3. \A i \in DOMAIN log : <<log[i].span, log[i].part>> \in fw'.emitted \ fw'.bus
    BY <2>1 DEF CrewInv, CrewEvents
  <2>4. fw' \in [emitted : SUBSET (CW!Spans \X Phases), bus : SUBSET (CW!Spans \X Phases)]
    BY <2>1 DEF CrewInv, CrewTypes
  <2>5. QED
    BY <2>1, <2>2, <2>3, <2>4, CrewKept
<1>4. QED
  BY <1>1, <1>2, <1>3 DEF CW!Next, Phases

LEMMA CrewAlways ==
  ASSUME CrewSorts
  PROVE  CW!Spec => []CrewInv
<1>1. CrewInv /\ [CW!Next]_(CW!logVars) => CrewInv'
  BY CrewStep
<1>2. CW!Init => CrewInv
  BY CrewInitial
<1>3. QED
  BY <1>1, <1>2, PTL DEF CW!Spec

(* In whatever order the bus delivers the events of whatever kickoffs, an  *)
(* edge joins a span's own start and completion, or the starts of a parent *)
(* and its child, and both in one run.                                     *)
THEOREM CrewAIJoins ==
  ASSUME CrewSorts
  PROVE  CW!Spec => [](EdgesJoinSpans /\ \A e \in ToSet(edges) : WithinRun(e))
<1>1. CrewInv => EdgesJoinSpans /\ \A e \in ToSet(edges) : WithinRun(e)
  BY DEF CrewInv, CrewEdges, EndsLogged, EdgesJoinSpans
<1>2. QED
  BY <1>1, CrewAlways, PTL

(* Both events of an edge being in the run, the edge is there, once, also  *)
(* when the child or the completion came first; a child waits only for a   *)
(* parent that did not start; and the list of the open kickoffs is that of *)
(* the runs that are open.                                                 *)
THEOREM CrewAILineage ==
  ASSUME CrewSorts
  PROVE  CW!Spec => [](CW!Complete /\ CW!Current)
<1>1. ASSUME CrewInv PROVE CW!Complete
  <2> SUFFICES ASSUME NEW i \in DOMAIN log, NEW j \in DOMAIN log
               PROVE  CW!DerivedOnce(i, j) /\ CW!InformedOnce(i, j)
    BY DEF CW!Complete
  <2>1. edges \in Seq(LogEdge) /\ IsInjective(edges) /\ CrewEdges
    BY <1>1 DEF CrewInv, CrewTypes, CrewEdges
  <2>2. IsDerived(i, j) => Times(i, j, "DERIVED_FROM") = 1
    BY <2>1, LinkedOnce DEF CrewEdges
  <2>3. IsChildOf(j, i) => Times(i, j, "INFORMED") = 1
    BY <2>1, LinkedOnce DEF CrewEdges
  <2>4. \A type : CW!Times(i, j, type) = Times(i, j, type)
    BY DEF CW!Times, Times, CW!Cardinality, Cardinality
  <2>5. QED
    BY <2>2, <2>3, <2>4 DEF CW!DerivedOnce, CW!InformedOnce, CW!IsChildOf, IsDerived, IsChildOf
<1>2. ASSUME CrewInv PROVE CW!Current
  <2>1. ASSUME NEW c \in CW!Crew, CW!Known(c), NEW p \in CW!Spans,
               mem.runs[c].pending[p] # {}
        PROVE  mem.runs[c].spans[p].start = CW!NoId
    <3>1. mem.runs[c].pending[p] = Orphans(mem.runs[c], p)
      BY <1>2, <2>1 DEF CrewInv, CrewRuns, Tracks
    <3>2. QED
      BY <2>1, <3>1 DEF Orphans, CW!StartOf, CW!NoId
  <2>2. CW!ToSet(mem.open) = Range(mem.open)
    BY DEF CW!ToSet, Range
  <2>3. \A c \in CW!Crew : c \in CW!ToSet(mem.open) <=> CW!Known(c) /\ mem.runs[c].isOpen
    BY <1>2, <2>2 DEF CrewInv, CrewOpen
  <2>4. QED
    BY <2>1, <2>3 DEF CW!Current
<1>3. CrewInv => CW!Complete /\ CW!Current
  BY <1>1, <1>2
<1>4. QED
  BY <1>3, CrewAlways, PTL
=============================================================================
