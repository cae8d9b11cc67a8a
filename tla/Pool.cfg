\* A pool on two daemons, with two sessions and the poller.
CONSTANTS
  Daemons = {d1, d2}
  First = d1
  Main = main
  Poller = poller
  Sessions = {s1, s2}
  Callers = {main, poller, s1, s2}
  BlockNonces = {"block"}
  Cells <- MCCells
  Scenarios <- MCScenarios
SPECIFICATION FairSpec
CHECK_DEADLOCK FALSE
INVARIANTS TypeOK DuplicateNeedsRace AcceptedEverywhere FoundBlockStored MethodDetected
PROPERTIES Settles Converges
