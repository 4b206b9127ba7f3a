SPECIFICATION OfflineSpec
CONSTANTS
  Span = {1, 2, 3, 4, 5}
  TraceOf <- MCTraceOf
  StartOf <- MCStartOf
  RunIdOf <- MCRunIdOf
  Scenario <- MCScenario
  Invocation <- MCInvocation
  MaxRuns = 3
  Recordable <- MCRecordable
  MaxRecorded = 3
  RunId = "r"
  ContextId = "c"
  Event <- MCEvent
  Edge <- MCEdge
  MaxStored = 2
  Parts = {"ingest", "compare", "benchmark", "replay", "graph", "attest", "pin", "pytest", "facade"}
CHECK_DEADLOCK FALSE
INVARIANTS
  NoDuplicateRows
  WellNested
  Canonical
  PrintedIsStored
  EveryTraceStored
  GateIsExact
  VerdictExplained
  ReplayKeepsAll
  WalksAgree
  AttestedUnchanged
  BaselineWhole
