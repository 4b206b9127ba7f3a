----------------------------- MODULE MCLiveStore -----------------------------
(* A small instance of LiveStore over the query language of TraceQuery,    *)
(* and the reads of the in-memory store against those of the SQLite store. *)
EXTENDS LiveStore, TraceQuery

MCContextOf == [r \in Run |-> IF r = "a" THEN "c1" ELSE "c2"]

MCKind == {<<"A", "x">>, <<"A", "y">>, <<"B", "x">>}
MCNode == {<<"a", 0>>, <<"b", 0>>}

RepeatRule == LoopingRule("A", 1, AnyEngine, FALSE)
PerEngineRule == LoopingRule("A", 1, AnyEngine, TRUE)
DropRule == ToolDropRule("B")
UnusedRule == UnusedToolResultRule("A", "B")
Rules == {RepeatRule, PerEngineRule, DropRule, UnusedRule,
          LoopingRule("A", 1, "x", FALSE)}

MCSubQuery == [repeat |-> AnomalyQuery(RepeatRule),
               before |-> AppendToAnd(EmptyQuery, BeforeNode("B", "A")),
               engine |-> AppendToAnd(EmptyQuery, EngineNameEquals("y"))]
MCConfirms(s, run) == s # "repeat" \/ IsAnomalous(RepeatRule, run)

(* The queries of the instance are what the two properties of the engine   *)
(* ask of them, over every history of two events.                          *)
History ==
  LET Event == [seq : 0 .. MaxRecords + MaxSkew, type : Type, engine : Engine]
  IN  BoundedSeq(Event, 2) \X Event

ASSUME InstanceAssumption ==
  \A r \in Run, h \in History :
    /\ \A s \in Sub : LocalAt(s, r, h[1], h[2])
    /\ \A s \in Monotone : MonotoneAt(s, r, h[1], h[2])

(* Each query alone, negated, and under every pair of connectives.         *)
Leaves == {ContextIDEquals("c1"), EngineNameEquals("y"), ContainsStep("A"),
           MissingStep("B"), CountStep("A", 2, AnyEngine), CountStep("A", 2, "x"),
           SequenceNode(<<"A", "A">>), SequenceNode(<<"A", "B">>),
           AfterNode("A", "B"), BeforeNode("B", "A")}
Queries ==
  Leaves \cup {EmptyQuery, OrNode(<<>>), SequenceNode(<<>>)}
  \cup {NotNode(n) : n \in Leaves}
  \cup {AppendToAnd(NotNode(n), MissingStep("B")) : n \in Leaves}
  \cup {OrElse(AndNode(<<ContainsStep("A")>>),
               AppendToAnd(AndNode(<<n>>), EngineNameEquals("y"))) : n \in Leaves}
  \cup {AndNode(<<OrElse(EngineNameEquals("x"), n), ContainsStep("B")>>) : n \in Leaves}

(* The tables of a SQLite store that holds the same events.                *)
Db == [runs |-> [r \in StoredRuns |-> ContextOf[r]],
       events |-> UNION {ToSet(eventsByRun[r]) : r \in Run}]

(* The reads depend on the store alone, and every state of the store is    *)
(* reached before the consumer first runs: they are looked at there.       *)
Untouched == closing = "open" /\ \A r \in Run : last[r] = None

(* The two back ends select the same runs for every query, and the indices *)
(* of the in-memory store never exclude a run that matches.                *)
BackendsAgree ==
  Untouched =>
    LET db == Db
        run == [r \in StoredRuns |-> MakeRun(r, eventsByRun[r])]
    IN  \A q \in Queries :
          LET matches == {r \in StoredRuns : Evaluate(q, run[r])}
          IN  QueryRuns(q) = matches /\ SqlQueryRuns(q, db) = matches

(* What each rule template promises, said of the run alone: its query      *)
(* never hides a run that its confirmation would flag.                     *)
Flagged(rule, run) ==
  LET Occurs(t, g) == {i \in DOMAIN run.events :
                         run.events[i].type = t /\ run.events[i].engine \in g}
  IN
  CASE rule = DropRule -> Occurs("B", Engine) = {}
    [] rule = UnusedRule -> \E i \in Occurs("A", Engine) :
                               \A j \in Occurs("B", Engine) : j < i
    [] rule = PerEngineRule -> \E g \in Engine : Cardinality(Occurs("A", {g})) > 1
    [] rule = RepeatRule -> Cardinality(Occurs("A", Engine)) > 1
    [] OTHER -> Cardinality(Occurs("A", {"x"})) > 1

(* AnomalyDetector.detect_anomalies, as pairs <<rule, run>>.               *)
DetectAnomalies(rules) ==
  UNION {{<<rule, r>> : r \in {q \in QueryRuns(AnomalyQuery(rule)) :
                                IsAnomalous(rule, MakeRun(q, eventsByRun[q]))}} :
           rule \in rules}

(* The detector, over all runs or run by run as dpk anomalies --run does,  *)
(* reports exactly the runs that a rule describes.                         *)
DetectorExact ==
  Untouched =>
    LET found == DetectAnomalies(Rules)
    IN  \A r \in StoredRuns :
          LET run == MakeRun(r, eventsByRun[r])
              flagged == {rule \in Rules : Flagged(rule, run)}
          IN  /\ {p[1] : p \in {x \in found : x[2] = r}} = flagged
              /\ AnomaliesOf(Rules, run) = flagged
=============================================================================
