SPECIFICATION StartupSpec
CONSTANTS
  w1 = w1
  w2 = w2
  key000 = key000
  key001 = key001
  b1 = b1
  none = none
  None = none
  Workers <- TwoWorkers
  Kids <- TwoKids
  FirstKid = key000
  Bands <- OneBand
  TTL = 1
  Grace = 1
  MaxTime = 5
  BandLiveAtExp = TRUE
  EntryLiveAtEnd = TRUE
SYMMETRY Symmetry
INVARIANTS
  LiveBandVerifies
  RotationInv
  StartupInv
