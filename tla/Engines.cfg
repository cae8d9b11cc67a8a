SPECIFICATION FairSpec

CONSTANTS
  s1 = s1
  s2 = s2
  Achieved <- MCAchieved
  EngineNames = {"kawpow","equihash","cryptonote","ergo","ethash","kaspa","alephium","beam"}
  Sessions = {s1, s2}
  Nonces = {1, 2}
  NetDiff = 4
  PortDiff = 2
  Diffs = {3}
  Defects = {"none", "shape", "header", "size", "proof"}
  Spellings = {0, 1}
  HistoryCap = 2
  Chains = 2
  PrefixSpace = 2
  Budgets <- MCBudgets
  CheckThreshold = 2
  InvalidPercent = 50

INVARIANT TypeOK
INVARIANT IdNamesOneJob
INVARIANT LateTailKept
INVARIANT CreditedOncePerJob
INVARIANT OneCreditPerWork
INVARIANT CreditBacked
INVARIANT PrefixesDistinct
INVARIANT NobodyLeftBehind
PROPERTY FreshWork
CHECK_DEADLOCK FALSE
