SPECIFICATION FairSpec
CONSTANTS
  pa = pa
  pb = pb
  pc = pc
  wsol = wsol
  tok = tok
  loop = loop
  api = api
  Pools = {pa, pb, pc}
  Workers = {loop}
  Mints = {wsol, tok}
  InitTreasury = 10
  MinReserve = 2
  TargetReserve = 3
  Cushion = 9
  MinDistribute = 2
  FeeBps = 5000
  HasFeeVault = TRUE
  TxFee = 1
  AccountRent = 2
  PushCosts = {2}
  FeeSizes = {4}
  TopUpSizes = {4}
  MaxEnv = 2
  MaxCycles = 2
  MaxLate = 1
  Lines <- AllLines
  Legacy <- AllLegacy
  Venue <- AllVenue
INVARIANTS TypeOK PayoutCovered ReserveHeld ClaimedIsCollected
PROPERTIES LinesFailAlone CycleEnds
\* Runs end when the bounds on cycles and outside events are used up.
CHECK_DEADLOCK FALSE
