SPECIFICATION RecoverySpec
CONSTANTS
  Positions <- MCPositions
  Eff <- MCEff
  MinPush <- MCMinPush
  SCALE = 1
  RewardLine = "wsol"
  Deposits = {6}
  Penalty = 2
  MinOrphan = 1
  Margin = 2
  Max <- MCMax
  MaxTotal = 2
  MaxRuns = 2
CHECK_DEADLOCK FALSE
INVARIANTS RunbookHolds NobodyPinned RecoveredOnce
