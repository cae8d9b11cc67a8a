\* The session of a miner, and a broadcast that runs at the same time.
CONSTANTS
  Clients = {c1}
  Broadcasts = {b1}
  Nil = Nil
  CheckThreshold = 2
  InvalidPercent = 50
  PortDiff = 4
  Diffs <- MCDiffs
  Achieved <- MCAchieved
  NetDiff = 16
  TCPProxyProtocol = TRUE
  MaxSubmits = 3
  MaxAuths = 2
SPECIFICATION FairSpec
CHECK_DEADLOCK FALSE
INVARIANT TypeOK
INVARIANT CreditAnnounced
INVARIANT InForceWasTold
 
