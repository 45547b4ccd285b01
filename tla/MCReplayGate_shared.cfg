SPECIFICATION Spec
CONSTANTS
  r1 = r1
  r2 = r2
  r3 = r3
  w1 = w1
  w2 = w2
  alice = alice
  bob = bob
  aliceCtx = aliceCtx
  bobCtx = bobCtx
  openCtx = openCtx
  disk = disk
  none = none
  None = none
  Disk = disk
  UserOf <- UserOfContext
  Requests <- ThreeRequests
  Workers <- TwoWorkers
  Users <- OneUser
  Contexts <- OneContext
  SSOEnabled = TRUE
  Backend = "sqlite"
  TTL = 1
  Window = 2
  MaxStall = 1
  MaxTime = 4
  MaxCrashes = 1
  BandLiveAtExp = TRUE
  EntryLiveAtEnd = TRUE
SYMMETRY RequestSymmetry
INVARIANTS
  AtMostOneUse
  ReplayHasReason
  SingleUseInv
PROPERTIES
  DurableEntries
  ImplementsSingleUse
CHECK_DEADLOCK FALSE
