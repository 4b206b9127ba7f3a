------------------------------- MODULE Comparison -------------------------------
(***************************************************************************)
(* Two runs that are recorded one after the other, first the golden one,   *)
(* and compared by the regression gate whenever somebody asks (testing.py, *)
(* assert_no_behavioral_regression).                                       *)
(***************************************************************************)
EXTENDS Alignment

CONSTANTS
  Recordable,   \* the steps an agent may record
  MaxRecorded   \* bounds the model: steps of a run

VARIABLES goldenRun, candidateRun

compareVars == <<goldenRun, candidateRun>>

CompareInit == goldenRun = <<>> /\ candidateRun = <<>>

RecordGolden ==
  /\ candidateRun = <<>> /\ Len(goldenRun) < MaxRecorded
  /\ \E e \in Recordable : goldenRun' = Append(goldenRun, e)
  /\ UNCHANGED candidateRun

RecordCandidate ==
  /\ Len(candidateRun) < MaxRecorded
  /\ \E e \in Recordable : candidateRun' = Append(candidateRun, e)
  /\ UNCHANGED goldenRun

CompareNext == RecordGolden \/ RecordCandidate

-----------------------------------------------------------------------------
(* The verdict of the regression gate is about the steps of the two runs   *)
(* and their order, under every profile and policy it ships.               *)
GateIsExact == IsExact(goldenRun, candidateRun)
=============================================================================
