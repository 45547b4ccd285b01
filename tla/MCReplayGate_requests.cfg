SPECIFICATION Spec
CONSTANTS
  r1 = r1
  r2 = r2
  r3 = r3
  w1 = w1
  w2 = w2
  alice = alice
  bob = bob
  aliceCtx = aliceCtx
  bobCtx = bobCtx
  openCtx = openCtx
  disk = disk
  none = none
  None = none
  Disk = disk
  UserOf <- UserOfContext
  Requests <- ThreeRequests
  Workers <- OneWorker
  Users <- TwoUsers
  Contexts <- TwoContexts
  SSOEnabled = TRUE
  Backend = "memory"
  TTL = 1
  Window = 2
  MaxStall = 0
  MaxTime = 2
  MaxCrashes = 1
  BandLiveAtExp = TRUE
  EntryLiveAtEnd = FALSE
INVARIANTS
  MintedByNamedUser
  AnsweredIsLogged
  UsesAreRemembered
CHECK_DEADLOCK FALSE
