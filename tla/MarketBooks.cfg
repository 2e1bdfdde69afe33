CONSTANTS
  Bankrolls <- MCBankrolls
  MinBuy = 1
  MaxBuy = 3
  DrawdownPct = 50
  Proceeds <- MCProceeds
  Funding <- MCFunding
  MaxSteps = 3
  MaxRequests = 2
SPECIFICATION Spec
CHECK_DEADLOCK FALSE
INVARIANTS
  TypeOK
  SpendBounded
  PauseHolds
