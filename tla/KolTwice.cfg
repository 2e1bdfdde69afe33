SPECIFICATION Spec
CONSTANTS
  Claims = {c1, c2}
  Callers = {k1}
  Procs = {"api", "loop"}
  BagSize = 3
  MaxSends = 3
  MaxLate = 0
  MaxCrashes = 0
INVARIANTS OneStakePerClaim
SYMMETRY Symmetry
\* Runs end when the bounds on claims, sends and restarts are used up.
CHECK_DEADLOCK FALSE
