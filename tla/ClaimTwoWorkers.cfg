SPECIFICATION Spec
CONSTANTS
  pc = pc
  pa = pa
  pb = pb
  wsol = wsol
  tok = tok
  loop = loop
  api = api
  Pools = {pa, pb}
  Workers = {loop, api}
  Mints = {wsol, tok}
  InitTreasury = 30
  MinReserve = 2
  TargetReserve = 3
  Cushion = 3
  MinDistribute = 2
  FeeBps = 2500
  HasFeeVault = TRUE
  TxFee = 1
  AccountRent = 2
  PushCosts = {2}
  FeeSizes = {5}
  TopUpSizes = {4}
  MaxEnv = 2
  MaxCycles = 2
  MaxLate = 0
  Lines <- WsolLines
  Legacy <- WsolLegacy
  Venue <- MeteoraVenue
INVARIANTS PayoutCovered
\* Runs end when the bounds on cycles and outside events are used up.
CHECK_DEADLOCK FALSE
