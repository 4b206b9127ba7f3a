-------------------------------- MODULE Reports --------------------------------
(***************************************************************************)
(* What is made of an alignment: the findings, the narrative, the audit of *)
(* verification.py, and the score of a benchmark case.  result is what     *)
(* Align returns for the runs golden and candidate.                        *)
(***************************************************************************)
EXTENDS Alignment

(* Alignments in the order of the contract: by the number of the golden    *)
(* event, or of an added one; an id decides a tie, here the golden event's. *)
Ordered(alignments) ==
  LET last == Max({0} \cup {a.base : a \in alignments} \cup {a.comp : a \in alignments})
      At(k) == IF k % 2 = 0 THEN {a \in alignments : a.base = k \div 2}
               ELSE {a \in alignments : a.base = None /\ a.comp = k \div 2}
      slots == SelectSeq([n \in 1 .. 2 * last |-> At(n + 1)], LAMBDA S : S # {})
  IN  [n \in DOMAIN slots |-> CHOOSE a \in slots[n] : TRUE]

(* AlignmentFindingsExtractor: at most one finding for an alignment.       *)
FindingFor(golden, candidate, a) ==
  CASE a.state = "removed" /\ golden[a.base].priority = Critical ->
         <<[kind |-> "criticalStepRemoved", base |-> golden[a.base].type]>>
    [] a.state = "added" /\ candidate[a.comp].priority = Critical ->
         <<[kind |-> "criticalStepAdded", comp |-> candidate[a.comp].type]>>
    [] a.state = "reordered" ->
         <<[kind |-> "reorderedExecution", base |-> golden[a.base].type,
            from |-> a.base, to |-> a.comp]>>
    [] a.state = "semanticMatch" ->
         <<[kind |-> "semanticEvolution", base |-> golden[a.base].type,
            comp |-> candidate[a.comp].type]>>
    [] a.state = "ambiguous" ->
         <<[kind |-> "ambiguityDetected", base |-> golden[a.base].type,
            options |-> a.options]>>
    [] OTHER -> <<>>

Findings(golden, candidate, result) ==
  (IF result.risk.level = "none" THEN <<>>
   ELSE <<[kind |-> "regressionRisk", level |-> result.risk.level,
           strength |-> result.risk.reason, reasoning |-> result.risk.steps]>>)
    \o FlattenSeq([n \in DOMAIN Ordered(result.alignments) |->
                     FindingFor(golden, candidate, Ordered(result.alignments)[n])])

OfKind(findings, kinds) == SelectSeq(findings, LAMBDA f : f.kind \in kinds)

Opening(findings) ==
  IF OfKind(findings, {"criticalStepRemoved", "criticalStepAdded"}) # <<>>
  THEN "significant changes"
  ELSE IF OfKind(findings, {"semanticEvolution", "reorderedExecution"}) # <<>>
  THEN "largely stable" ELSE "fully stable"

(* AlignmentNarrativeCompiler.compile: its first and its last sentence.    *)
Narrative(findings) ==
  LET risks == OfKind(findings, {"regressionRisk"})
  IN  [opening |-> Opening(findings),
       risk |-> IF risks = <<>> THEN "none" ELSE Last(risks).level]

-----------------------------------------------------------------------------
(* The evidence of an alignment and the four invariants of the auditor,    *)
(* each as the matches that lower its score; a score of 1 is none.         *)

(* The pairs that were judged: a bound golden event with every candidate   *)
(* event that no earlier golden event is bound to.                         *)
Decisions(c, result) ==
  {[pair |-> <<b.base, j>>, equivalent |-> result.scores[b.base][j] >= c.threshold] :
     <<b, j>> \in {p \in result.bindings \X UNION {DOMAIN result.scores[i] :
                                                    i \in DOMAIN result.scores} :
                     \A x \in result.bindings : x.base < p[1].base => x.comp # p[2]}}

MatchedSteps(result) == {a \in result.alignments : a.base # None /\ a.comp # None}

Ungrounded(result) ==
  {a \in MatchedSteps(result) :
     ~ \E b \in result.bindings : b.base = a.base /\ b.comp = a.comp}

Unevaluated(c, result) ==
  {a \in MatchedSteps(result) :
     <<a.base, a.comp>> \notin {d.pair : d \in Decisions(c, result)}}

Unreported(result) ==
  {a \in MatchedSteps(result) :
     /\ a.state # "reordered"
     /\ \E x \in MatchedSteps(result) : Inverted(a, x) \/ Inverted(x, a)}

Unsupported(c, result) ==
  {a \in MatchedSteps(result) :
     /\ a.state # "ambiguous"
     /\ [pair |-> <<a.base, a.comp>>, equivalent |-> TRUE] \notin Decisions(c, result)}

-----------------------------------------------------------------------------
(* BenchmarkRunner.run for one case.                                       *)

(* _match_key: the prose of a risk is not part of its identity.            *)
MatchKey(f) == IF f.kind = "regressionRisk" THEN [f EXCEPT !.reasoning = {}] ELSE f

Consume(available, f) ==
  RemoveFirstMatch(available, LAMBDA a : MatchKey(a) = MatchKey(f))

ScoreCase(expected, actual) ==
  FoldLeft(LAMBDA s, f :
             IF \E i \in DOMAIN s.available : MatchKey(s.available[i]) = MatchKey(f)
             THEN [s EXCEPT !.available = Consume(@, f), !.tp = Append(@, f)]
             ELSE [s EXCEPT !.fn = Append(@, f)],
           [available |-> actual, tp |-> <<>>, fn |-> <<>>], expected)

FalsePositives(score) == score.available
CasePassed(score) == score.available = <<>> /\ score.fn = <<>>

(* The fidelity of a case with no finding is not audited.                  *)
Faithful(c, result, actual, score) ==
  IF actual = <<>> THEN score.fn = <<>>
  ELSE Ungrounded(result) \cup Unevaluated(c, result) \cup Unreported(result)
         \cup Unsupported(c, result) = {}

-----------------------------------------------------------------------------
(* BenchmarkFailureDiagnoser.  The timeline holds what the interpreter     *)
(* reports as it goes: the pairs it bound and the rivals it found; the     *)
(* strength of a score is rejected below a half.                           *)

Rejected(score) == score < 500

Timeline(c, result) ==
  {[kind |-> "evaluatedPair", comp |-> b.comp, rejected |-> Rejected(b.score)] :
     b \in result.bindings}
  \cup UNION {{[kind |-> "ambiguityThresholdMet", comp |-> j,
                rejected |-> Rejected(result.scores[b.base][j])] :
                 j \in Rivals(c, result.scores, result.bindings, b)} : b \in result.bindings}

(* The candidate steps of a type that the alignment mentions.              *)
OfType(candidate, result, type) ==
  {a.comp : a \in {x \in result.alignments : x.comp # None /\ candidate[x.comp].type = type}}

Cause(category, confidence, evidence) ==
  [category |-> category, confidence |-> confidence, evidence |-> evidence]

(* An expected finding that was not reported.                              *)
DiagnoseMissed(golden, candidate, result, timeline, f) ==
  LET about == {e \in timeline : f.kind = "semanticEvolution"
                                    /\ e.comp \in OfType(candidate, result, f.comp)}
      evaluated == {e \in about : e.kind = "evaluatedPair"}
      aligned == {a \in result.alignments :
                    /\ a.state \in {"semanticMatch", "exactMatch"}
                    /\ golden[a.base].type = f.base}
  IN  CASE f.kind = "semanticEvolution" ->
             IF \E e \in about : e.rejected
             THEN Cause("threshold miscalibration", 850, {e \in about : e.rejected})
             ELSE IF evaluated = {} THEN Cause("insufficient candidates", 700, {})
             ELSE Cause("missing equivalence rule", 600, evaluated)
        [] f.kind = "criticalStepRemoved" ->
             IF aligned # {} THEN Cause("oversensitive matcher", 900, {})
             ELSE Cause("canonicalization mismatch", 500, {})
        [] OTHER -> Cause("undiagnosed", 0, {})

(* A reported finding that was not expected.                               *)
DiagnoseUnexpected(candidate, result, timeline, f) ==
  LET accepted == {e \in timeline : f.kind = "semanticEvolution" /\ ~ e.rejected
                                      /\ e.comp \in OfType(candidate, result, f.comp)}
      moved == {e \in timeline : f.kind = "reorderedExecution" /\ e.kind = "evaluatedPair"
                                   /\ e.comp = f.to}
      rivals == {e \in timeline : e.kind = "ambiguityThresholdMet"}
  IN  CASE f.kind = "semanticEvolution" ->
             IF accepted # {} THEN Cause("oversensitive matcher", 800, accepted)
             ELSE Cause("noise misclassification", 600, {})
        [] f.kind = "reorderedExecution" ->
             Cause("scoring instability", IF moved = {} THEN 500 ELSE 700, moved)
        [] f.kind = "ambiguityDetected" ->
             Cause("oversensitive matcher", IF rivals = {} THEN 500 ELSE 650, rivals)
        [] OTHER -> Cause("undiagnosed", 0, {})
=============================================================================
