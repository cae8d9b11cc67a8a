\* Whether CmdAll returns whatever its daemons do.
CONSTANTS
  Daemons = {d1, d2}
  First = d1
  Main = main
  Poller = poller
  Sessions = {s1, s2}
  Callers = {main, poller, s1, s2}
  BlockNonces = {"block"}
  Cells <- MCCells
  Scenarios <- MCScenarios
SPECIFICATION FairSpec
CHECK_DEADLOCK FALSE
PROPERTY CmdAllReturns
