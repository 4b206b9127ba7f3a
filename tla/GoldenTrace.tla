------------------------------- MODULE GoldenTrace -------------------------------
(***************************************************************************)
(* pytest_plugin.py: the golden_trace fixture.  A session runs tests one   *)
(* by one; each claims the baseline file of its name, records its block    *)
(* into a temporary file, and on a clean exit either promotes it to the    *)
(* baseline (--dprov-update-golden) or gates it against the baseline.  The *)
(* process may be killed anywhere; the next session finds the files.       *)
(***************************************************************************)
EXTENDS Alignment

CONSTANTS
  Name,       \* names given to golden_trace
  PathOf,     \* the file of a name; a name may read as another one sanitized
  BlockSteps, \* the steps a block may record
  MaxBlock    \* bound: steps of a block

VARIABLES
  files,      \* path -> NoBaseline or [context, steps], the committed baselines
  claimed,    \* paths claimed in this session
  updating,   \* the session runs with --dprov-update-golden
  test,       \* the golden_trace block that runs
  reported    \* the outcomes this session reported

goldenVars == <<files, claimed, updating, test, reported>>

NoName == "no name"
NoBaseline == [context |-> NoName, steps |-> <<>>]
Path == {PathOf[n] : n \in Name}

NoTest == [pc |-> "idle", name |-> NoName, steps |-> <<>>, outcome |-> "none"]

GoldenInit ==
  /\ files = [p \in Path |-> NoBaseline]
  /\ claimed = {}
  /\ updating \in BOOLEAN
  /\ test = NoTest
  /\ reported = {}

Outcome(o) == [test EXCEPT !.pc = "done", !.outcome = o]

Collides(n) == PathOf[n] \in claimed

(* golden_trace(name): a second claim of a file fails the test.            *)
Factory(n) ==
  /\ test.pc = "idle"
  /\ IF Collides(n)
     THEN /\ test' = [NoTest EXCEPT !.pc = "done", !.name = n, !.outcome = "collision"]
          /\ UNCHANGED claimed
     ELSE /\ claimed' = claimed \cup {PathOf[n]}
          /\ test' = [NoTest EXCEPT !.pc = "block", !.name = n]
  /\ UNCHANGED <<files, updating, reported>>

BlockStep(s) ==
  /\ test.pc = "block" /\ Len(test.steps) < MaxBlock
  /\ test' = [test EXCEPT !.steps = Append(@, s)]
  /\ UNCHANGED <<files, claimed, updating, reported>>

BlockRaises ==
  /\ test.pc = "block"
  /\ test' = Outcome("raised")
  /\ UNCHANGED <<files, claimed, updating, reported>>

(* __exit__ after a clean block.                                           *)
BlockEnds ==
  /\ test.pc = "block"
  /\ test' = [test EXCEPT !.pc = IF updating THEN "unlink" ELSE "gate"]
  /\ UNCHANGED <<files, claimed, updating, reported>>

(* _promote_to_baseline: the old file goes, then the recording takes its   *)
(* name; replace fails when the two are on different file systems.         *)
PromoteUnlink ==
  /\ test.pc = "unlink"
  /\ files' = [files EXCEPT ![PathOf[test.name]] = NoBaseline]
  /\ test' = [test EXCEPT !.pc = "promote"]
  /\ UNCHANGED <<claimed, updating, reported>>

PromoteReplace ==
  /\ test.pc = "promote"
  /\ files' = [files EXCEPT ![PathOf[test.name]] =
                 [context |-> test.name, steps |-> test.steps]]
  /\ test' = Outcome("recorded")
  /\ UNCHANGED <<claimed, updating, reported>>

PromoteFails ==
  /\ test.pc \in {"unlink", "promote"}
  /\ test' = Outcome("error")
  /\ UNCHANGED <<files, claimed, updating, reported>>

(* A recording without events has no run row; a file of another name has   *)
(* no run of this context.                                                 *)
Gated(file, steps, name) ==
  CASE file = NoBaseline -> "no baseline"
    [] OTHER ->
         IF steps = <<>> \/ file.context # name \/ file.steps = <<>> THEN "no run"
         ELSE IF Check(Align(StrictAudit, file.steps, steps, Structural), StrictPolicy)
         THEN "passed" ELSE "regression"

Gate ==
  /\ test.pc = "gate"
  /\ test' = Outcome(Gated(files[PathOf[test.name]], test.steps, test.name))
  /\ UNCHANGED <<files, claimed, updating, reported>>

TestEnds ==
  /\ test.pc = "done"
  /\ reported' = reported \cup {[name |-> test.name, outcome |-> test.outcome,
                                steps |-> test.steps]}
  /\ test' = NoTest
  /\ UNCHANGED <<files, claimed, updating>>

(* The session ends between two tests, or is killed in one.                *)
NewSession ==
  /\ claimed # {}
  /\ claimed' = {}
  /\ updating' \in BOOLEAN
  /\ test' = NoTest
  /\ reported' = {}
  /\ UNCHANGED files

GoldenNext ==
  \/ \E n \in Name : Factory(n)
  \/ \E s \in BlockSteps : BlockStep(s)
  \/ BlockRaises \/ BlockEnds
  \/ PromoteUnlink \/ PromoteReplace \/ PromoteFails
  \/ Gate \/ TestEnds \/ NewSession

-----------------------------------------------------------------------------
(* What a session reported stays true until it ends: a baseline it says it *)
(* recorded still holds that block, and a block that passed takes the      *)
(* steps of a baseline of its own name, which is still there.              *)
ReportsHold ==
  \A t \in reported :
    LET file == files[PathOf[t.name]]
    IN  /\ t.outcome = "recorded" => file = [context |-> t.name, steps |-> t.steps]
        /\ t.outcome = "passed" => /\ file # NoBaseline /\ file.context = t.name
                                   /\ SameSteps(file.steps, t.steps, Structural)
=============================================================================
