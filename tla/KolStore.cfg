SPECIFICATION FairSpec
CONSTANTS
  Claims = {c1, c2}
  Callers = {k1, k2}
  Procs = {"api", "loop"}
  BagSize = 2
  MaxSends = 2
  MaxLate = 1
  MaxCrashes = 1
INVARIANTS ClaimedIsStaked
PROPERTIES LapsedIsSwept
\* Runs end when the bounds on claims, sends and restarts are used up.
CHECK_DEADLOCK FALSE
