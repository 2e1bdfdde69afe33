SPECIFICATION FairSpec
CONSTANTS
  Snipers = {s1, s2}
  Slots = 1
  MaxAttempts = 2
  BagSize = 2
  KolShare = 1
  Funding = 2
  MaxTroubles = 1
  MaxOps = 1
INVARIANTS RowTruthful SharesKept
PROPERTIES SnipeSettles
\* A launch ends, and the bounds on operations and troubles are used up.
CHECK_DEADLOCK FALSE
