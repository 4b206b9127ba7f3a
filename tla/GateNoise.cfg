SPECIFICATION OfflineSpec
CONSTANTS
  Span = {1, 2, 3, 4, 5}
  TraceOf <- MCTraceOf
  StartOf <- MCStartOf
  RunIdOf <- MCRunIdOf
  Scenario <- MCScenario
  Invocation <- MCInvocation
  MaxRuns = 3
  Recordable <- MCRecordable
  MaxRecorded = 3
  RunId = "r"
  ContextId = "c"
  Event <- MCEvent
  Edge <- MCEdge
  MaxStored = 2
  Parts = {"compare"}
CHECK_DEADLOCK FALSE
INVARIANT NoiseIsIgnored
