SPECIFICATION Spec
CONSTANTS
  Positions <- MCPositions
  Eff <- MCEff
  MinPush <- MCMinPush
  SCALE = 3
  RewardLine = "wsol"
  Deposits = {2}
  Penalty = 2
  MinOrphan = 1
  Margin = 2
  Max <- MCMax
  MaxTotal = 4
CHECK_DEADLOCK FALSE
INVARIANTS TypeOK ShortfallBounded
PROPERTIES NoForfeit UnstakeLeavesOnlyFresh
