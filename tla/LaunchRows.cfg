SPECIFICATION FairSpec
CONSTANTS
  MaxSends = 4
  MaxTries = 2
  MaxTroubles = 2
\* A launch ends listed or abandoned.
CHECK_DEADLOCK FALSE
INVARIANTS TypeOK RowTruthful ListedOnce
PROPERTIES ListedKept PoolComesUp
