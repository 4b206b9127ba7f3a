SPECIFICATION Spec
CONSTANTS
  Run = {"a", "b"}
  Type = {"A", "B"}
  Engine = {"x", "y"}
  Kind <- MCKind
  Node <- MCNode
  ContextOf <- MCContextOf
  Sub = {"repeat", "before", "engine"}
  SubQuery <- MCSubQuery
  Raising = {"before", "engine"}
  Late = {"before"}
  Monotone = {"repeat", "engine"}
  Evaluates <- Evaluate
  Mentions <- ReferencedTypes
  Guarantees <- GuaranteedConstraints
  Confirms <- MCConfirms
  MaxRecords = 3
  MaxSkew = 1
  MaxLinks = 1
  MaxWork = 3
CHECK_DEADLOCK FALSE
INVARIANTS
  TypeOK
  BackendsAgree
  DetectorExact
  MatchStateCurrent
  ReportedOnce
  CloseDrains
PROPERTIES
  SnapshotsGrow
  EventuallyDelivered
  CloseTerminates
