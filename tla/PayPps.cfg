SPECIFICATION Spec
CONSTANTS
  m1 = m1
  m2 = m2
  b1 = b1
  b2 = b2
  NoBlock = NoBlock
  Miners = {m1, m2}
  Prefix <- PlainNames
  Blocks = {b1}
  HeightOf <- ApartHeight
  Diffs = {1, 2}
  Grain = 3
  QueueCap = 1
  LogCap = 2
  Shares <- OneBlock
  PayMode = "pps"
  PPLNSWindow = 0
  PPSRate = 6
  MinPayment = 4
  Reward <- Rewards
  Payable = {m1, m2}
  SharedDaemon = TRUE
  Faults = {"crash", "redis", "rpc", "reject", "fees"}
  MaxFaults = 1
  MaxShares = 3
INVARIANT EachShareCreditedOnce
PROPERTY UncreditedKept
