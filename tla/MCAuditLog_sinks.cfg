SPECIFICATION FairSpec
CONSTANTS
  r1 = r1
  r2 = r2
  r3 = r3
  Requests <- ThreeRequests
  Configured <- AllSinks
  PoolSize = 1
  MaxStarts = 2
INVARIANTS
  AuditInv
  SinkOpenForEvent
  CleanStop
PROPERTIES
  EventSettles
CHECK_DEADLOCK FALSE
