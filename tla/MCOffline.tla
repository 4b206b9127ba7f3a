------------------------------- MODULE MCOffline -------------------------------
(***************************************************************************)
(* The commands that work on recorded runs, one part of them in every      *)
(* behaviour: the ingestion of MCOTelIngest, the comparison of two runs,   *)
(* the scoring of the corpus, replay, the walks over a graph, attestation, *)
(* and the three ways to keep a baseline.                                  *)
(***************************************************************************)
EXTENDS MCOTelIngest, Comparison, Signing

CONSTANT Parts   \* the parts that are explored

VARIABLES
  part,
  log,                                      \* "replay"
  edges,                                    \* "graph"
  db, baseline, record, gate,               \* "pin"
  goldens, claimed, updating, test, reported, \* "pytest"
  runs, store, depth, path, sqlite, jsonl, saving, entered  \* "facade"

otherVars == <<goldenRun, candidateRun, log, edges, subject>>
pinVars == <<db, baseline, record, gate>>
pytestVars == <<goldens, claimed, updating, test, reported>>
scriptVars == <<runs, store, depth, path, sqlite, jsonl, saving, entered>>
offlineVars == <<part, vars, otherVars, pinVars, pytestVars, scriptVars>>

Corpora == INSTANCE Corpus
Diffs == INSTANCE TraceDiff
Graph == INSTANCE TraceQuery
Replays == INSTANCE Replay

Critical1 == [type |-> "decision", value |-> 1, priority |-> 3, parent |-> "s", engine |-> "e1"]
Critical2 == [Critical1 EXCEPT !.value = 2, !.parent = Corpora!NoParent]
Tool1 == [type |-> "tool", value |-> 1, priority |-> 2, parent |-> "s", engine |-> "e1"]
Tool2 == [Tool1 EXCEPT !.value = 2, !.parent = Corpora!NoParent, !.engine = "e2"]
Note == [type |-> "note", value |-> 1, priority |-> 0, parent |-> Corpora!NoParent,
         engine |-> "e1"]

MCRecordable == {Critical1, Critical2, Tool1, Tool2, Note}

(* Events and edges of the trace to be signed, the malformed ones included.*)
MCEvent == [id : 1 .. 2, run : {"r", "other"}, context : {"c"}, seq : 1 .. 2,
            data : {"d", BadPayload}]
MCEdge == [source : 1 .. 3, target : 1 .. 3, type : {"DERIVED_FROM", "INFORMED"}]

Pin == INSTANCE Baseline WITH
  Run <- {1, 2}, ContextOf <- <<"c1", "c2">>, StepKinds <- {Critical1},
  MaxSteps <- 2, MaxEdges <- 1

(* A block named like the file that the other one is sanitized to.         *)
Pytest == INSTANCE GoldenTrace WITH
  Name <- {"b c", "b-c-47d8a4a8"},
  PathOf <- [n \in {"b c", "b-c-47d8a4a8"} |-> "b-c-47d8a4a8.sqlite"],
  BlockSteps <- {Critical1, Tool1}, MaxBlock <- 1, files <- goldens

Facade == INSTANCE FacadeGolden WITH
  StepKinds <- {Tool1, Note}, MaxRuns <- 2, MaxEvents <- 4

-----------------------------------------------------------------------------
OfflineInit ==
  /\ part \in Parts
  /\ Init /\ (part # "ingest" => <<shape, files>> = CHOOSE x \in {<<s.shape, s.files>> : s \in Scenario} : TRUE)
  /\ IF part = "benchmark"
     THEN \E m, n \in DOMAIN Corpora!Cases :
            goldenRun = Corpora!Cases[m].base /\ candidateRun = Corpora!Cases[n].comparison
     ELSE goldenRun = <<>> /\ candidateRun = <<>>
  /\ log = <<>> /\ edges = {}
  /\ SigningInit
  /\ Pin!BaselineInit
  /\ Pytest!GoldenInit /\ (part # "pytest" => ~ updating)
  /\ Facade!FacadeInit /\ (part # "facade" => path = "jsonl")

Grow ==
  \/ part = "compare" /\ CompareNext /\ UNCHANGED <<log, edges, subject>>
  \/ /\ part = "replay" /\ Len(log) < 3
     /\ \E n \in 0 .. 3, span \in {"a", "b"}, up \in {Replays!NoSpan, "a", "b"} :
          log' = Append(log, [id |-> Len(log), seq |-> n, span |-> span, parent |-> up,
                              source |-> Replays!Committed, type |-> "t", engine |-> "e1",
                             value |-> 1])
     /\ UNCHANGED <<goldenRun, candidateRun, edges, subject>>
  \/ /\ part = "replay" /\ Len(log) < 3
     /\ \E n \in {Len(log), Len(log) + 1}, s \in {Replays!Committed, Replays!Quarantined} :
          log' = Append(log, [id |-> Len(log), seq |-> n, parent |-> Replays!NoSpan, source |-> s,
                              span |-> IF s = Replays!Committed THEN Replays!NoSpan ELSE "a",
                              type |-> "t", engine |-> "e1", value |-> 1])
     /\ UNCHANGED <<goldenRun, candidateRun, edges, subject>>
  \/ /\ part = "replay" /\ Len(log) < 3   \* quarantined although it was committed
     /\ \E i \in DOMAIN log :
          /\ log[i].source = Replays!Committed
          /\ log' = Append(log, [log[i] EXCEPT !.source = Replays!Quarantined])
     /\ UNCHANGED <<goldenRun, candidateRun, edges, subject>>
  \/ /\ part = "graph" /\ Cardinality(edges) < 3
     /\ \E a, b \in 1 .. 4, t \in {"DERIVED_FROM", "INFORMED"} :
          edges' = edges \cup {[source |-> a, target |-> b, type |-> t]}
     /\ UNCHANGED <<goldenRun, candidateRun, log, subject>>
  \/ part = "attest" /\ SigningNext /\ UNCHANGED <<goldenRun, candidateRun, log, edges>>

OfflineNext ==
  /\ UNCHANGED part
  /\ \/ part = "ingest" /\ Next /\ UNCHANGED <<otherVars, pinVars, pytestVars, scriptVars>>
     \/ Grow /\ UNCHANGED <<vars, pinVars, pytestVars, scriptVars>>
     \/ part = "pin" /\ Pin!BaselineNext /\ UNCHANGED <<vars, otherVars, pytestVars, scriptVars>>
     \/ part = "pytest" /\ Pytest!GoldenNext /\ UNCHANGED <<vars, otherVars, pinVars, scriptVars>>
     \/ part = "facade" /\ Facade!FacadeNext /\ UNCHANGED <<vars, otherVars, pinVars, pytestVars>>

OfflineSpec == OfflineInit /\ [][OfflineNext]_offlineVars

-----------------------------------------------------------------------------
(* The comparison of two runs.                                             *)

Filtered(run, minimum) == SelectSeq(run, LAMBDA e : e.priority >= minimum)
SignaturesOf(run, minimum) ==
  LET steps == Filtered(run, minimum)
  IN  [n \in DOMAIN steps |-> Diffs!Signature(steps[n])]

Aligned(profile, minimum) == Corpora!Align(profile, goldenRun, candidateRun, minimum)

(* What is said of an alignment follows from it: the narrative repeats the *)
(* risk, a removed or a changed critical step has a finding, a run is      *)
(* called fully stable and without risk only when its critical steps are   *)
(* those of the golden run, and every match is grounded in a binding, was  *)
(* evaluated, and supported unless it is called ambiguous.  The findings   *)
(* of a reordered risk are the subject of VerdictMatchesFindings.          *)
Explained(profile, minimum) ==
  LET result == Aligned(profile, minimum)
      findings == Corpora!Findings(goldenRun, candidateRun, result)
      narrative == Corpora!Narrative(findings)
      kinds == {findings[n].kind : n \in DOMAIN findings}
  IN  /\ narrative.risk = result.risk.level
      /\ result.risk.reason = "removed" => "criticalStepRemoved" \in kinds
      /\ result.risk.reason = "changed" => "ambiguityDetected" \in kinds
      /\ narrative = [opening |-> "fully stable", risk |-> "none"] =>
           Corpora!SameSteps(goldenRun, candidateRun, 3)
      /\ Corpora!Ungrounded(result) = {}
      /\ Corpora!Unevaluated(profile, result) = {}
      /\ Corpora!Unsupported(profile, result) = {}

(* The structural diff turns the golden run into the candidate: what is    *)
(* left of both without the changes is equal, and there is no change       *)
(* exactly when the steps are equal, as equal fingerprints say too.        *)
DiffExplains ==
  LET changes == Diffs!Diff(goldenRun, candidateRun, 2)
      Without(run, kind) ==
        LET out == {c.seq : c \in {x \in changes : x.kind = kind}}
            kept == SelectSeq([n \in DOMAIN run |-> n],
                              LAMBDA n : run[n].priority >= 2 /\ n \notin out)
        IN  [n \in DOMAIN kept |-> Diffs!Signature(run[kept[n]])]
  IN  /\ Without(goldenRun, "removed") = Without(candidateRun, "added")
      /\ changes = {} <=> SignaturesOf(goldenRun, 2) = SignaturesOf(candidateRun, 2)
      /\ Corpora!RunFingerprint(goldenRun) = Corpora!RunFingerprint(candidateRun) => changes = {}

(* The benchmark counts every finding once: an expectation is met as often *)
(* as it is found, every corpus case passes against its own candidate, and *)
(* an unexpected step that moved or evolved is traced to a pair that was   *)
(* evaluated.                                                              *)
Scored(expected) ==
  LET result == Aligned(Corpora!BenchmarkProfile, 1)
      actual == Corpora!Findings(goldenRun, candidateRun, result)
      score == Corpora!ScoreCase(expected, actual)
      timeline == Corpora!Timeline(Corpora!BenchmarkProfile, result)
      Times(s, key) == Cardinality({n \in DOMAIN s : Corpora!MatchKey(s[n]) = key})
  IN  /\ \A f \in ToSet(expected) :
           Times(score.tp, Corpora!MatchKey(f)) =
             Min({Times(expected, Corpora!MatchKey(f)), Times(actual, Corpora!MatchKey(f))})
      /\ Len(score.tp) + Len(score.fn) = Len(expected)
      /\ Len(score.tp) + Len(score.available) = Len(actual)
      /\ \A f \in ToSet(Corpora!FalsePositives(score)) :
           f.kind \in {"semanticEvolution", "reorderedExecution"} =>
             Corpora!DiagnoseUnexpected(candidateRun, result, timeline, f).confidence >= 700
      /\ \A f \in ToSet(score.fn) :
           Corpora!DiagnoseMissed(goldenRun, candidateRun, result, timeline, f).category
             = "insufficient candidates" =>
               \A b \in result.bindings : candidateRun[b.comp].type # f.comp

VerdictExplained ==
  /\ part = "compare" =>
       /\ Explained(Corpora!StrictAudit, 2) /\ Explained(Corpora!DeveloperDebug, 2)
       /\ DiffExplains
  /\ part = "benchmark" =>
       /\ Explained(Corpora!BenchmarkProfile, 1)
       /\ DiffExplains
       /\ \A n \in DOMAIN Corpora!Cases :
            LET case == Corpora!Cases[n]
            IN  case.base = goldenRun =>
                  /\ Scored(case.expected)
                  /\ case.comparison = candidateRun =>
                       LET result == Aligned(Corpora!BenchmarkProfile, 1)
                           actual == Corpora!Findings(goldenRun, candidateRun, result)
                           score == Corpora!ScoreCase(case.expected, actual)
                       IN  /\ Corpora!CasePassed(score)
                           /\ Corpora!Faithful(Corpora!BenchmarkProfile, result, actual, score)

(* What the gate's documentation says of noise: telemetry added to a run   *)
(* or taken from it never changes the verdict, whatever the profile.       *)
NoiseIsIgnored ==
  part = "compare" =>
    \A profile \in {Corpora!StrictAudit, Corpora!DeveloperDebug} :
      LET Passes(g, c) ==
            Corpora!Check(Corpora!Align(profile, g, c, 2), Corpora!StrictPolicy)
      IN  Passes(goldenRun, candidateRun) <=> Passes(goldenRun, Filtered(candidateRun, 1))

(* What alignment_engine.py says of the risk: on the same basis as the     *)
(* reorder findings, it never disagrees with them.  A run that is a high   *)
(* risk because critical steps were reordered has a reorder finding.       *)
VerdictMatchesFindings ==
  part = "compare" =>
    \A profile \in {Corpora!StrictAudit, Corpora!DeveloperDebug} :
      LET result == Aligned(profile, 2)
          findings == Corpora!Findings(goldenRun, candidateRun, result)
      IN  result.risk.reason = "reordered" =>
            \E n \in DOMAIN findings : findings[n].kind = "reorderedExecution"

-----------------------------------------------------------------------------
(* Replay.                                                                 *)

Ancestor(events, s) ==
  [n \in 0 .. 3 |->
     LET up[k \in 0 .. n] ==
           IF k = 0 THEN s
           ELSE IF up[k - 1] \in Replays!SpansOf(events)
                THEN Replays!ParentIn(events, up[k - 1]) ELSE up[k - 1]
     IN  up[n]]

(* A replay up to any point loses no event: each is rooted, in the tree or *)
(* orphaned, once, and orphaned exactly when no chain of parents leads to  *)
(* the root; the gaps are the numbers that are missing; a span is          *)
(* contaminated exactly when a quarantined event is below it.              *)
ReplayComplete(at) ==
  LET snap == Replays!Snapshot(log, at)
      events == Replays!ValidEvents(log, at)
      inTree == UNION {ToSet(snap.spans[s].events) : s \in DOMAIN snap.spans}
      numbers == Replays!SeqsOf(events)
      Above(s) == {Ancestor(events, s)[n] : n \in 0 .. 3}
  IN  /\ ToSet(events) = ToSet(snap.rooted) \cup inTree \cup ToSet(snap.orphaned)
      /\ Len(events) = Len(snap.rooted) + Len(snap.orphaned) + Cardinality(inTree)
      /\ \A e \in ToSet(events) : e.span # Replays!NoSpan =>
           (e \in ToSet(snap.orphaned) <=> Replays!NoSpan \notin Above(e.span))
      /\ UNION {g[1] .. g[2] : g \in snap.manifest.gaps}
           = (0 .. Max({-1} \cup numbers)) \ numbers
      /\ \A s \in DOMAIN snap.spans :
           snap.spans[s].contaminated <=>
             \E e \in ToSet(events) : /\ e.source = Replays!Quarantined
                                      /\ e.span # Replays!NoSpan /\ s \in Above(e.span)

(* Going forward in time only adds: without duplicate numbers the diff of  *)
(* an earlier snapshot with a later one shows no divergence, lists as      *)
(* added exactly the events that came into the tree, and a span at most    *)
(* becomes contaminated.                                                   *)
TimeTravelGrows(at) ==
  LET earlier == Replays!Snapshot(log, at)
      later == Replays!Snapshot(log, Replays!NoLimit)
      Shown(snap) == ToSet(snap.rooted)
                       \cup UNION {ToSet(snap.spans[s].events) : s \in DOMAIN snap.spans}
      diff == Replays!SnapshotDiff(earlier, later)
      Pairs(S) == {<<e.id, e.source>> : e \in S}
  IN  /\ diff.divergences = {}
      /\ \A c \in diff.events : c.kind = "added"
      /\ Pairs({c.event : c \in diff.events}) = Pairs(Shown(later)) \ Pairs(Shown(earlier))
      /\ \A c \in diff.spans : c.kind \in {"added", "contaminationChanged"}

ReplayKeepsAll ==
  part = "replay" =>
    \A at \in {Replays!NoLimit} \cup 0 .. 3 :
      /\ ReplayComplete(at)
      /\ (at # Replays!NoLimit /\ Cardinality(Replays!SeqsOf(log)) = Len(log)) =>
           TimeTravelGrows(at)

-----------------------------------------------------------------------------
(* Lineage and impact are the same graph on both back ends, at every depth *)
(* and on cyclic edges, and hold every edge within that many hops; the     *)
(* parents that explain lists are the stored events with an edge into the  *)
(* node.  The validators read the same graph: a cycle is reported exactly  *)
(* when a node is in its own lineage of derivations, a section is an       *)
(* orphan when nothing is behind it, a fact unused when it is behind none. *)
Stored == {1, 2, 3}

WalksAgree ==
  part = "graph" =>
    /\ \A id \in 1 .. 4, max \in {Graph!Unbounded, 0, 1, 2} :
         LET lineage == Graph!LineageEdges(edges, id, max)
         IN  /\ lineage = Graph!SqlLineageEdges(edges, id, max)
             /\ Graph!ImpactEdges(edges, id, max) = Graph!SqlImpactEdges(edges, id, max)
             /\ max = Graph!Unbounded => \A e \in edges :
                  e \in lineage <=> (e.target = id \/ \E f \in lineage : f.source = e.target)
    /\ \A id \in Stored, n \in Stored :
         LET explained == Graph!Explain(edges, Stored, id)
         IN  /\ n \in explained.informed_by
                  <=> [source |-> n, target |-> id, type |-> "INFORMED"] \in edges
             /\ n \in explained.derived_from
                  <=> [source |-> n, target |-> id, type |-> "DERIVED_FROM"] \in edges
    /\ LET Behind(es, id) ==
             {e.source : e \in Graph!LineageEdges(es, id, Graph!Unbounded)}
           causal == {e \in edges : e.type = "DERIVED_FROM"}
           typeOf == [n \in Stored |-> IF n = 1 THEN "fact" ELSE "section"]
       IN  /\ Graph!HasCycle(edges) <=> \E id \in 1 .. 4 : id \in Behind(causal, id)
           /\ Graph!SelfReferential(edges) =>
                \E id \in Stored \cup {4} : id \in Behind(edges, id)
           /\ Graph!OrphanSections(edges, typeOf, "section")
                = {n \in {2, 3} : Behind(edges, n) = {}}
           /\ Graph!UnusedFacts(edges, typeOf, "fact")
                = {n \in {1} : \A id \in 1 .. 4 : n \notin Behind(edges, id)}

-----------------------------------------------------------------------------
(* Whatever a baseline file holds when it is read is one whole run: the    *)
(* one dpk record selected, cut out of the trace database without a loose  *)
(* end, the clean block of the golden_trace that reported it, or the run   *)
(* that the facade saved first under its id; and the gate's exit code is   *)
(* about the run that was pinned when it started.                          *)
BaselineWhole ==
  /\ part = "pin" => Pin!PinnedWhole /\ Pin!GateExit
  /\ part = "pytest" => Pytest!ReportsHold
  /\ part = "facade" => Facade!SavedStays /\ Facade!GoldenFound
=============================================================================
