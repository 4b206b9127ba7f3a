------------------------------ MODULE TraceQuery ------------------------------
(***************************************************************************)
(* The query language of dprovenancekit/query.py and its two evaluations:  *)
(* over a run in memory (TraceQueryNode.evaluate) and as a compound SELECT *)
(* over the tables of the SQLite store (TraceQueryCompiler).  With it, the *)
(* rules of rules.py, each a query and a confirmation in memory, and the   *)
(* graph walks of store.py and of the recursive SELECTs of                 *)
(* sqlite_store.py.                                                        *)
(*                                                                         *)
(* An event is a record [run, seq, type, engine]; a node of a query is a   *)
(* record with its operator in op.  A compiled SELECT is the sequence of   *)
(* its members, each the set of run ids it selects and the operator before *)
(* it: SQLite evaluates them from left to right with equal precedence.     *)
(***************************************************************************)
EXTENDS Integers, Sequences, FiniteSets, SequencesExt, FiniteSetsExt

AnyEngine == "any engine"

(***************************************************************************)
(* TraceRun: events in ascending sequence; ties keep the given order.      *)
(***************************************************************************)
InSequence(events) ==
  LET order == SetToSortSeq(DOMAIN events,
                 LAMBDA i, j : \/ events[i].seq < events[j].seq
                               \/ events[i].seq = events[j].seq /\ i < j)
  IN  [k \in DOMAIN events |-> events[order[k]]]

TraceRun(run, context, events) ==
  [run |-> run, context |-> context, events |-> InSequence(events)]

StepsOf(run) == [i \in DOMAIN run.events |-> run.events[i].type]

(***************************************************************************)
(* AST nodes and the fluent builder.                                       *)
(***************************************************************************)
AndNode(nodes)         == [op |-> "and", nodes |-> nodes]
OrNode(nodes)          == [op |-> "or", nodes |-> nodes]
NotNode(node)          == [op |-> "not", node |-> node]
ContextIDEquals(c)     == [op |-> "context", context |-> c]
EngineNameEquals(g)    == [op |-> "engine", engine |-> g]
ContainsStep(s)        == [op |-> "contains", step |-> s]
MissingStep(s)         == [op |-> "missing", step |-> s]
CountStep(s, n, g)     == [op |-> "count", step |-> s, min |-> n, engine |-> g]
SequenceNode(steps)    == [op |-> "sequence", steps |-> steps]
AfterNode(s, follower) == [op |-> "after", step |-> s, other |-> follower]
BeforeNode(s, earlier) == [op |-> "before", step |-> s, other |-> earlier]

AppendToAnd(root, node) ==
  IF root.op = "and" THEN AndNode(Append(root.nodes, node))
                     ELSE AndNode(<<root, node>>)

EmptyQuery == AndNode(<<>>)
OrElse(a, b) == OrNode(<<a, b>>)

Matching(run, s, g) ==
  {i \in DOMAIN run.events : /\ run.events[i].type = s
                             /\ g = AnyEngine \/ run.events[i].engine = g}

FirstIndex(run, s) == Min(Matching(run, s, AnyEngine))

(***************************************************************************)
(* SequenceNode.evaluate: one pass, current counts the steps matched.      *)
(***************************************************************************)
StepsMatched(types, steps) ==
  FoldLeft(LAMBDA current, t :
             IF current < Len(steps) /\ t = steps[current + 1]
             THEN current + 1 ELSE current,
           0, types)

RECURSIVE Evaluate(_, _)
Evaluate(q, run) ==
  CASE q.op = "and" -> \A k \in DOMAIN q.nodes : Evaluate(q.nodes[k], run)
    [] q.op = "or" -> \/ q.nodes = <<>>
                      \/ \E k \in DOMAIN q.nodes : Evaluate(q.nodes[k], run)
    [] q.op = "not" -> ~ Evaluate(q.node, run)
    [] q.op = "context" -> run.context = q.context
    [] q.op = "engine" -> \E i \in DOMAIN run.events :
                             run.events[i].engine = q.engine
    [] q.op = "contains" -> Matching(run, q.step, AnyEngine) # {}
    [] q.op = "missing" -> Matching(run, q.step, AnyEngine) = {}
    [] q.op = "count" -> Cardinality(Matching(run, q.step, q.engine)) >= q.min
    [] q.op = "sequence" -> StepsMatched(StepsOf(run), q.steps) = Len(q.steps)
    [] q.op = "after" ->
         /\ Matching(run, q.step, AnyEngine) # {}
         /\ \E i \in Matching(run, q.other, AnyEngine) :
               i >= FirstIndex(run, q.step)
    [] q.op = "before" ->
         /\ Matching(run, q.step, AnyEngine) # {}
         /\ \E i \in Matching(run, q.other, AnyEngine) :
               i < FirstIndex(run, q.step)

(***************************************************************************)
(* TraceQueryPlanner.                                                      *)
(***************************************************************************)
StepConstraints(steps) == {[kind |-> "decisionType", value |-> s] : s \in steps}
EngineConstraint(g) == [kind |-> "engineName", value |-> g]

(* What every member of a disjunction guarantees.                          *)
SharedByAll(members) ==
  {c \in UNION members : \A M \in members : c \in M}

RECURSIVE GuaranteedConstraints(_)
GuaranteedConstraints(q) ==
  CASE q.op = "and" -> UNION {GuaranteedConstraints(n) : n \in ToSet(q.nodes)}
    [] q.op = "or" -> SharedByAll({GuaranteedConstraints(n) : n \in ToSet(q.nodes)})
    [] q.op = "context" -> {[kind |-> "contextID", value |-> q.context]}
    [] q.op = "engine" -> {EngineConstraint(q.engine)}
    [] q.op = "contains" -> StepConstraints({q.step})
    [] q.op = "count" -> StepConstraints({q.step}) \cup
         IF q.engine = AnyEngine THEN {} ELSE {EngineConstraint(q.engine)}
    [] q.op = "sequence" -> StepConstraints(ToSet(q.steps))
    [] q.op \in {"after", "before"} -> StepConstraints({q.step, q.other})
    [] q.op \in {"not", "missing"} -> {}

RECURSIVE ReferencedTypes(_)
ReferencedTypes(q) ==
  CASE q.op \in {"and", "or"} -> UNION {ReferencedTypes(n) : n \in ToSet(q.nodes)}
    [] q.op = "not" -> ReferencedTypes(q.node)
    [] q.op \in {"contains", "missing", "count"} -> {q.step}
    [] q.op = "sequence" -> ToSet(q.steps)
    [] q.op \in {"after", "before"} -> {q.step, q.other}
    [] q.op \in {"context", "engine"} -> {}

-----------------------------------------------------------------------------
(* TraceQueryCompiler over the tables of a database db: the rows of        *)
(* trace_events (id is the rowid) and the context of each row of runs.     *)

Select(S) == <<[by |-> "first", ids |-> S]>>

Rows(select) ==
  FoldLeft(LAMBDA S, member :
             CASE member.by = "first"     -> member.ids
               [] member.by = "union"     -> S \cup member.ids
               [] member.by = "intersect" -> S \cap member.ids
               [] member.by = "except"    -> S \ member.ids,
           {}, select)

(* Mutant: a compound member is spliced into its parent as it is.          *)
Spliced(select) == select

(* _isolate: SELECT run_id FROM (member).                                  *)
Isolate(select) == Select(Rows(select))

Joined(by, selects) ==
  FoldLeft(LAMBDA sql, member :
             sql \o <<[Head(member) EXCEPT !.by = IF sql = <<>> THEN "first" ELSE by]>>
                 \o Tail(member),
           <<>>, selects)

RunIds(db) == DOMAIN db.runs

RunsWith(db, rows) == {r \in RunIds(db) : \E e \in rows : e.run = r}

(* MIN(sequence) over the rows of a step, joined to the rows of another.   *)
Anchored(db, s, other, after) ==
  {r \in RunIds(db) :
     LET anchors == {e.seq : e \in {x \in db.events : x.run = r /\ x.type = s}}
     IN  /\ anchors # {}
         /\ \E e \in db.events :
               e.run = r /\ e.type = other /\ (e.seq >= Min(anchors) <=> after)}

(* Self-joins: rows chained on strictly ascending sequence.                *)
Chained(db, steps) ==
  LET ends[k \in 1..Len(steps)] ==
        {e \in db.events :
           /\ e.type = steps[k]
           /\ k > 1 => \E p \in ends[k - 1] : p.run = e.run /\ p.seq < e.seq}
  IN  {e.run : e \in ends[Len(steps)]}

RECURSIVE Compile(_, _)
Compile(q, db) ==
  LET Members(by) == Joined(by, [k \in DOMAIN q.nodes |->
                                   Isolate(Compile(q.nodes[k], db))])
      AllRuns == Select(RunIds(db))
      AllRunsExcept(S) == Append(AllRuns, [by |-> "except", ids |-> S])
  IN
  CASE q.op \in {"and", "or"} /\ q.nodes = <<>> -> AllRuns
    [] q.op = "and" /\ q.nodes # <<>> -> Members("intersect")
    [] q.op = "or" /\ q.nodes # <<>> -> Members("union")
    [] q.op = "not" -> AllRunsExcept(Rows(Isolate(Compile(q.node, db))))
    [] q.op = "context" -> Select({r \in RunIds(db) : db.runs[r] = q.context})
    [] q.op = "engine" -> Select(RunsWith(db, {e \in db.events : e.engine = q.engine}))
    [] q.op = "contains" -> Select(RunsWith(db, {e \in db.events : e.type = q.step}))
    [] q.op = "missing" -> AllRunsExcept(RunsWith(db, {e \in db.events : e.type = q.step}))
    [] q.op = "count" -> Select({r \in RunIds(db) :
         Cardinality({e \in db.events : /\ e.run = r /\ e.type = q.step
                                        /\ q.engine \in {AnyEngine, e.engine}})
           >= q.min})
    [] q.op = "after" -> Select(Anchored(db, q.step, q.other, TRUE))
    [] q.op = "before" -> Select(Anchored(db, q.step, q.other, FALSE))
    [] q.op = "sequence" -> IF q.steps = <<>> THEN AllRuns
                            ELSE Select(Chained(db, q.steps))

(* SQLiteTraceStore.query_runs: a run without events is not returned.      *)
SqlQueryRuns(q, db) == Rows(Compile(q, db)) \cap RunsWith(db, db.events)

-----------------------------------------------------------------------------
(* rules.py: [kind, step, ...] with the query a rule lowers to and the     *)
(* confirmation each back end and the live subscription apply to a match.  *)

ToolDropRule(step) == [kind |-> "tool_drop", step |-> step]
LoopingRule(step, max, engine, perEngine) ==
  [kind |-> "looping", step |-> step, max |-> max, engine |-> engine,
   perEngine |-> perEngine]
UnusedToolResultRule(step, followup) ==
  [kind |-> "unused", step |-> step, followup |-> followup]

AnomalyQuery(rule) ==
  AppendToAnd(EmptyQuery,
    CASE rule.kind = "tool_drop" -> MissingStep(rule.step)
      [] rule.kind = "looping"   -> CountStep(rule.step, rule.max + 1, rule.engine)
      [] rule.kind = "unused"    -> ContainsStep(rule.step))

CountsByEngine(rule, run) ==
  [g \in {run.events[i].engine : i \in Matching(run, rule.step, AnyEngine)} |->
     Cardinality(Matching(run, rule.step, g))]

(* Mutant: a follow-up consumes one result.                                *)
OutstandingOneByOne(rule, run) ==
  FoldLeft(LAMBDA n, t : CASE t = rule.step               -> n + 1
                           [] t = rule.followup /\ n > 0  -> n - 1
                           [] OTHER                       -> n,
           0, StepsOf(run))

(* A follow-up consumes every result outstanding at that point.            *)
Outstanding(rule, run) ==
  FoldLeft(LAMBDA n, t : CASE t = rule.step     -> n + 1
                           [] t = rule.followup -> 0
                           [] OTHER             -> n,
           0, StepsOf(run))

IsAnomalous(rule, run) ==
  CASE rule.kind = "looping" /\ rule.perEngine ->
         LET counts == CountsByEngine(rule, run)
         IN  \E g \in DOMAIN counts : counts[g] > rule.max
    [] rule.kind = "unused" -> Outstanding(rule, run) > 0
    [] OTHER -> TRUE

(* dpk anomalies --run: the rules that the run matches and confirms.       *)
AnomaliesOf(rules, run) ==
  {rule \in rules : Evaluate(AnomalyQuery(rule), run) /\ IsAnomalous(rule, run)}

-----------------------------------------------------------------------------
(* Lineage and impact.  An edge is [source, target, type].                 *)

Unbounded == -1
Within(depth, max) == max = Unbounded \/ depth < max

(* Breadth first: queue holds <<node, depth>>; a node is expanded once, at *)
(* its least depth.                                                        *)
RECURSIVE Walk(_, _, _, _, _)
Walk(edges, queue, visited, found, max) ==
  IF queue = <<>> THEN found
  ELSE LET node == Head(queue)[1]
           depth == Head(queue)[2]
           incoming == {e \in edges : e.target = node}
       IN  IF node \in visited
           THEN Walk(edges, Tail(queue), visited, found, max)
           ELSE IF ~ Within(depth, max)
           THEN Walk(edges, Tail(queue), visited \cup {node}, found, max)
           ELSE Walk(edges,
                     Tail(queue) \o SetToSeq({<<e.source, depth + 1>> : e \in incoming}),
                     visited \cup {node}, found \cup incoming, max)

LineageEdges(edges, id, max) == Walk(edges, <<<<id, 0>>>>, {}, {}, max)

Reversed(edges) ==
  {[e EXCEPT !.source = e.target, !.target = e.source] : e \in edges}

ImpactEdges(edges, id, max) == Reversed(LineageEdges(Reversed(edges), id, max))

(* The recursive SELECTs: rows <<edge, depth>>, and edges alone when no    *)
(* depth is carried; UNION keeps a row once, which is what ends a cycle.   *)
RECURSIVE Cte(_, _, _, _)
Cte(edges, rows, new, max) ==
  IF new = {} THEN {r[1] : r \in rows}
  ELSE LET next == {<<e, IF max = Unbounded THEN 0 ELSE r[2] + 1>> :
                      <<e, r>> \in {x \in edges \X new :
                                      /\ x[1].target = x[2][1].source
                                      /\ Within(x[2][2], max)}}
       IN  Cte(edges, rows \cup next, next \ rows, max)

SqlLineageEdges(edges, id, max) ==
  IF max = 0 THEN {}
  ELSE LET start == {<<e, IF max = Unbounded THEN 0 ELSE 1>> :
                       e \in {x \in edges : x.target = id}}
       IN  Cte(edges, start, start, max)

SqlImpactEdges(edges, id, max) ==
  Reversed(SqlLineageEdges(Reversed(edges), id, max))

(* explain: the direct parents whose event is stored, by kind of edge.     *)
Explain(edges, stored, id) ==
  LET parents(kind) == {e.source : e \in {x \in LineageEdges(edges, id, 1) :
                          x.target = id /\ x.type = kind /\ x.source \in stored}}
  IN  [informed_by |-> parents("INFORMED"), derived_from |-> parents("DERIVED_FROM")]
-----------------------------------------------------------------------------
(* TraceGraphValidator: an edge from a node to itself, then a depth first  *)
(* search for a cycle of derivation edges; the edges of other types are    *)
(* not causal.                                                             *)

SelfReferential(edges) == \E e \in edges : e.source = e.target

CausalEdges(edges) == {e \in edges : e.type \in {"DERIVED_FROM", "GENERATED_FROM"}}

(* Mutant: a node seen before is taken for one on the path, so that two    *)
(* paths to one node read as a cycle.                                      *)
ClosesCycleSeen(node, path, visited) == node \in ToSet(path) \cup visited

ClosesCycle(node, path, visited) == node \in ToSet(path)

(* path is the stack; a node leaves it, explored, when no neighbour of its *)
(* own is left to visit.  The answer is [cycle, visited].                  *)
RECURSIVE Search(_, _, _)
Search(edges, path, visited) ==
  IF path = <<>> THEN [cycle |-> FALSE, visited |-> visited]
  ELSE LET neighbours == {e.target : e \in {x \in edges : x.source = Last(path)}}
           closing == {n \in neighbours : ClosesCycle(n, path, visited)}
           unseen == neighbours \ visited
       IN  IF closing # {} THEN [cycle |-> TRUE, visited |-> visited]
           ELSE IF unseen # {}
           THEN Search(edges, Append(path, CHOOSE n \in unseen : TRUE), visited)
           ELSE Search(edges, Front(path), visited \cup {Last(path)})

HasCycle(edges) ==
  LET causal == CausalEdges(edges)
      seeds == {e.source : e \in causal} \cup {e.target : e \in causal}
  IN  FoldSet(LAMBDA n, s : IF s.cycle \/ n \in s.visited THEN s
                            ELSE Search(causal, <<n>>, s.visited),
              [cycle |-> FALSE, visited |-> {}], seeds).cycle

(* TraceGraphProvenanceValidator: sections nothing leads to, facts that    *)
(* lead nowhere; the nodes are given by their type.                        *)
OrphanSections(edges, typeOf, sectionType) ==
  {n \in DOMAIN typeOf : /\ typeOf[n] = sectionType
                         /\ \A e \in edges : e.target # n}

UnusedFacts(edges, typeOf, factType) ==
  {n \in DOMAIN typeOf : /\ typeOf[n] = factType
                         /\ \A e \in edges : e.source # n}
=============================================================================
