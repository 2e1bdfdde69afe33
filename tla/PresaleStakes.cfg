SPECIFICATION StakeFairSpec
CONSTANTS
  People <- MCPeople
  Kols = {"ann", "bob", "cem"}
  Presale = "presale"
  History <- MCHistory
  Cutoff = 3
  Dust = 2
  Workers = 2
  DevBag = 11
  Batch = 1
  MaxRuns = 3
  MaxOverlaps = 1
  MaxTroubles = 2
INVARIANTS StakeTypeOK ScanComplete RecordedStaked StakedOnce FairShares
PROPERTIES RunEnds
\* Runs and troubles are used up.
CHECK_DEADLOCK FALSE
