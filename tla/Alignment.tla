------------------------------- MODULE Alignment -------------------------------
(***************************************************************************)
(* The behavioural alignment of two runs: alignment_config.py scores a     *)
(* pair of events, alignment_matcher.py binds the best pairs,              *)
(* alignment_interpreter.py says what became of every event, and           *)
(* alignment_engine.py derives the risk.                                   *)
(*                                                                         *)
(* A run is a sequence of events [type, value, priority, parent, engine];  *)
(* the position of an event is its sequence number and its id, and None is *)
(* no event.  Scores are in thousandths.                                   *)
(***************************************************************************)
EXTENDS Integers, Sequences, FiniteSets, SequencesExt, FiniteSetsExt

None == 0
NoParent == "no parent"

Telemetry  == 0
Diagnostic == 1
Structural == 2
Critical   == 3

Payload(e) == <<e.type, e.value, e.priority>>

(***************************************************************************)
(* The profiles.  alike is the evaluator: how much two unequal payloads of *)
(* one type resemble each other.  The gate's default finds them unlike;    *)
(* the corpus accepts a substituted tool and a drifted decision.           *)
(***************************************************************************)
StrictAudit ==
  [type |-> 500, payload |-> 500, structure |-> 0, locality |-> 0,
   threshold |-> 990, options |-> 1, delta |-> 0, linear |-> TRUE,
   alike |-> [t \in {} |-> 0]]

DeveloperDebug ==
  [type |-> 400, payload |-> 400, structure |-> 150, locality |-> 50,
   threshold |-> 750, options |-> 3, delta |-> 100, linear |-> FALSE,
   alike |-> [t \in {} |-> 0]]

StandardEvaluator == [tool |-> 950, decision |-> 800]

AmbiguityThreshold == 400

Similarity(c, a, b) ==
  CASE Payload(a) = Payload(b) -> 1000
    [] Payload(a) # Payload(b) ->
         IF a.type = b.type /\ a.type \in DOMAIN c.alike THEN c.alike[a.type] ELSE 0

Distance(i, j) == IF i > j THEN i - j ELSE j - i

ScoreMatch(c, golden, candidate, i, j) ==
  LET a == golden[i]
      b == candidate[j]
  IN  (IF a.type = b.type THEN c.type ELSE 0)
        + (c.payload * Similarity(c, a, b)) \div 1000
        + (IF ~ c.linear /\ a.parent = b.parent THEN c.structure ELSE 0)
        + (c.locality * Max({0, 10 - Distance(i, j)})) \div 10

(* The events that take part: noise is left out but keeps its number.      *)
Steps(run, minimum) == {i \in DOMAIN run : run[i].priority >= minimum}

Scores(c, golden, candidate, minimum) ==
  [i \in Steps(golden, minimum) |->
     [j \in Steps(candidate, minimum) |-> ScoreMatch(c, golden, candidate, i, j)]]

-----------------------------------------------------------------------------
(* The matcher: the best candidate pair first; a tie goes to the earlier   *)
(* golden event, then to the earlier candidate event.                      *)

Precedes(x, y) ==
  \/ x.score > y.score
  \/ x.score = y.score /\ x.base < y.base
  \/ x.score = y.score /\ x.base = y.base /\ x.comp < y.comp

(* Mutant: only the golden event of a binding counts as used.              *)
BaseConflict(x, y) == x.base = y.base

Conflict(x, y) == x.base = y.base \/ x.comp = y.comp

(* One binding: the best pair that is left, and the pairs it leaves.       *)
Best(pairs) == CHOOSE x \in pairs : \A y \in pairs \ {x} : Precedes(x, y)

Bind(w) ==
  IF w.left = {} THEN w
  ELSE [left |-> {x \in w.left : ~ Conflict(x, Best(w.left))},
        bound |-> w.bound \cup {Best(w.left)}]

Assign(pairs) ==
  LET after[n \in 0 .. Cardinality(pairs)] ==
        IF n = 0 THEN [left |-> pairs, bound |-> {}] ELSE Bind(after[n - 1])
  IN  after[Cardinality(pairs)].bound

Bindings(scores) ==
  LET Pairs(i) == {[score |-> scores[i][j], base |-> i, comp |-> j] : j \in DOMAIN scores[i]}
  IN  Assign({x \in UNION {Pairs(i) : i \in DOMAIN scores} :
                x.score >= AmbiguityThreshold})

-----------------------------------------------------------------------------
(* The interpreter.  An alignment is [state, base, comp, options].         *)

Inverted(x, y) == x.base < y.base /\ x.comp > y.comp

(* The unbound candidate events about as good as the bound one.            *)
Rivals(c, scores, bindings, b) ==
  {j \in DOMAIN scores[b.base] \ {x.comp : x \in bindings} :
     /\ scores[b.base][j] >= AmbiguityThreshold
     /\ b.score - scores[b.base][j] <= c.delta}

MatchState(c, golden, candidate, scores, bindings, b) ==
  CASE b.score < c.threshold \/ Rivals(c, scores, bindings, b) # {} -> "ambiguous"
    [] OTHER ->
         IF \E x \in bindings : Inverted(b, x) \/ Inverted(x, b) THEN "reordered"
         ELSE IF Payload(golden[b.base]) = Payload(candidate[b.comp]) THEN "exactMatch"
         ELSE "semanticMatch"

Interpret(c, golden, candidate, minimum, scores, bindings) ==
  {LET state == MatchState(c, golden, candidate, scores, bindings, b)
   IN  [state |-> state, base |-> b.base, comp |-> b.comp,
        options |-> IF state # "ambiguous" THEN 0
                    ELSE Min({c.options,
                              Cardinality(Rivals(c, scores, bindings, b)) + 1})] :
     b \in bindings}
  \cup {[state |-> "removed", base |-> i, comp |-> None, options |-> 0] :
          i \in Steps(golden, minimum) \ {b.base : b \in bindings}}
  \cup {[state |-> "added", base |-> None, comp |-> j, options |-> 0] :
          j \in Steps(candidate, minimum) \ {b.comp : b \in bindings}}

-----------------------------------------------------------------------------
(* The risk: what happened to the critical steps of the golden run.        *)

CriticalPairs(golden, alignments) ==
  {a \in alignments : a.base # None /\ golden[a.base].priority = Critical}

Changed(c, golden, candidate, scores, a) ==
  /\ a.comp # None
  /\ Payload(golden[a.base]) # Payload(candidate[a.comp])
  /\ scores[a.base][a.comp] < c.threshold

Risk(c, golden, candidate, scores, alignments) ==
  LET critical == CriticalPairs(golden, alignments)
      matched == {a \in critical : a.comp # None}
      removed == critical \ matched
      reordered == {x \in matched : \E y \in matched : Inverted(x, y)}
      changed == {a \in matched : Changed(c, golden, candidate, scores, a)}
      High(reason, steps) == [level |-> "high", reason |-> reason, steps |-> steps]
  IN  CASE removed # {} -> High("removed", removed)
        [] OTHER -> IF reordered # {} THEN High("reordered", reordered)
                    ELSE IF changed # {} THEN High("changed", changed)
                    ELSE [level |-> "none", reason |-> "none", steps |-> {}]

(* TraceAlignmentEngine.align.                                             *)
Align(c, golden, candidate, minimum) ==
  LET scores == Scores(c, golden, candidate, minimum)
      bindings == Bindings(scores)
      alignments == Interpret(c, golden, candidate, minimum, scores, bindings)
  IN  [scores |-> scores, bindings |-> bindings, alignments |-> alignments,
       risk |-> Risk(c, golden, candidate, scores, alignments)]

-----------------------------------------------------------------------------
(* testing.py: the gate and the fingerprint of a run.                      *)

RunFingerprint(run) ==
  [i \in DOMAIN run |-> <<run[i].type, run[i].engine>>]

DivergentKinds == {"removed", "added", "reordered", "ambiguous"}

LevelOrder == [none |-> 0, low |-> 1, medium |-> 2, high |-> 3]

StrictPolicy == [max |-> "none", allow |-> FALSE]
TolerantPolicy == [max |-> "none", allow |-> TRUE]

(* Mutant: the severity gate alone decides.                                *)
CheckSeverity(result, policy) ==
  LevelOrder[result.risk.level] <= LevelOrder[policy.max]

Check(result, policy) ==
  /\ LevelOrder[result.risk.level] <= LevelOrder[policy.max]
  /\ policy.allow \/ \A a \in result.alignments : a.state \notin DivergentKinds

-----------------------------------------------------------------------------
(* What the gate is for.  Two runs take the same steps when their steps,   *)
(* each in its order, have the same payloads one by one; a run keeps the   *)
(* steps of another when they occur in it, in their order.                 *)

KeepsOrder(f, golden, candidate) ==
  /\ \A i, j \in DOMAIN f : i < j => f[i] < f[j]
  /\ \A i \in DOMAIN f : Payload(golden[i]) = Payload(candidate[f[i]])

KeepsSteps(golden, candidate, minimum) ==
  \E f \in [Steps(golden, minimum) -> Steps(candidate, minimum)] :
    KeepsOrder(f, golden, candidate)

SameSteps(golden, candidate, minimum) ==
  \E f \in [Steps(golden, minimum) -> Steps(candidate, minimum)] :
    /\ KeepsOrder(f, golden, candidate)
    /\ \A j \in Steps(candidate, minimum) : \E i \in DOMAIN f : f[i] = j

(* The regression gate passes a candidate exactly when it takes the steps  *)
(* of the golden run (strict_audit), and only then (developer_debug, under *)
(* which a run at least passes against itself).  With                      *)
(* allow_divergent_steps it still holds the critical steps of the golden   *)
(* run to be there, in their order.                                        *)
IsExact(golden, candidate) ==
  LET Passes(profile, policy) == Check(Align(profile, golden, candidate, Structural), policy)
      same == SameSteps(golden, candidate, Structural)
      kept == KeepsSteps(golden, candidate, Critical)
  IN  /\ Passes(StrictAudit, StrictPolicy) <=> same
      /\ Passes(DeveloperDebug, StrictPolicy) => same
      /\ golden = candidate => Passes(DeveloperDebug, StrictPolicy)
      /\ Passes(StrictAudit, TolerantPolicy) => kept
      /\ Passes(DeveloperDebug, TolerantPolicy) => kept
=============================================================================
