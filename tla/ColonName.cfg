SPECIFICATION Spec
CONSTANTS
  m1 = m1
  m2 = m2
  b1 = b1
  b2 = b2
  NoBlock = NoBlock
  Miners = {m1, m2}
  Prefix <- ColonName
  Blocks = {b1, b2}
  HeightOf <- ApartHeight
  Diffs = {1, 2}
  Grain = 3
  QueueCap = 1
  LogCap = 8
  Shares <- TwoBlocks
  PayMode = "solo"
  PPLNSWindow = 0
  PPSRate = 0
  MinPayment = 4
  Reward <- Rewards
  Payable = {m1, m2}
  SharedDaemon = TRUE
  Faults = {}
  MaxFaults = 0
  MaxShares = 3
INVARIANT EachBlockCreditedOnce
