SPECIFICATION Spec
CONSTANTS
  Span = {1, 2, 3, 4, 5}
  TraceOf <- MCTraceOf
  StartOf <- MCStartOf
  RunIdOf <- MCRunIdOf
  Scenario <- MCScenario
  Invocation <- MCInvocation
  MaxRuns = 3
CHECK_DEADLOCK FALSE
INVARIANT SkippedNotDuplicated
