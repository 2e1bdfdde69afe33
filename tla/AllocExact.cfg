SPECIFICATION AllocSpec
CONSTANTS
  Algs = {"lines", "equal", "weighted", "presale", "refund"}
  Totals <- SomeTotals
  WeightRange <- SmallWeights
  MaxSize = 4
  Scale = 10
INVARIANTS ExactSum QuotaRule HeavierGetsMore
\* An allocation stops when its dust is handed out.
CHECK_DEADLOCK FALSE
