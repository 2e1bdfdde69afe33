SPECIFICATION Spec
CONSTANTS
  Mints = {m1, m2}
  Keys = {k1, k2}
  Wallets = {w1, w2}
  Clients <- MCClients
  Process <- MCProcess
  May <- MCMay
  MaxOps = 4
  MaxTroubles = 1
INVARIANTS NeverInflated Readable
PROPERTIES AtomicSpec
\* Operations and crashes are used up.
CHECK_DEADLOCK FALSE
