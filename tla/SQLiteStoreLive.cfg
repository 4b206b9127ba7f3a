SPECIFICATION FairSpec
CONSTANTS
  Recorder = {t1}
  Run = {a, b}
  Capacity = 1
  TickBatch = {1}
  OffTier <- MCOffTier
  MaxEvents = 3
  MaxEdges = 0
  MaxSessions = 2
PROPERTIES
  EventuallyWritten
  EventuallyListed
