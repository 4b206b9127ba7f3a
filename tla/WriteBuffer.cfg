SPECIFICATION Spec
CONSTANTS
  Run = {"a", "b"}
  Row <- MCRows
  Configs <- MCConfigs
  DrainMax = {1, 9}
  MaxEdges = 2
INVARIANTS
  TypeOK
  CountsAgree
  WithinCapacity
  Conservation
  InsertionOrder
PROPERTIES
  CheapestFirst
  ImplementsQueue
