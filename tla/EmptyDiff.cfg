\* Whether SendDifficulty can be handed a nil difficulty.
CONSTANTS
  Clients = {c1}
  Broadcasts = {b1}
  Nil = Nil
  CheckThreshold = 2
  InvalidPercent = 50
  PortDiff = 4
  Diffs <- MCDiffs
  Achieved <- MCAchieved
  NetDiff = 16
  TCPProxyProtocol = TRUE
  MaxSubmits = 3
  MaxAuths = 2
SPECIFICATION Spec
CHECK_DEADLOCK FALSE
INVARIANT NeverEmptyDiff
