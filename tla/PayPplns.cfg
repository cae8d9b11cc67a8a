SPECIFICATION Spec
CONSTANTS
  m1 = m1
  m2 = m2
  b1 = b1
  b2 = b2
  NoBlock = NoBlock
  Miners = {m1, m2}
  Prefix <- PlainNames
  Blocks = {b1, b2}
  HeightOf <- ApartHeight
  Diffs = {1, 2}
  Grain = 3
  QueueCap = 1
  LogCap = 3
  Shares <- TwoBlocks
  PayMode = "pplns"
  PPLNSWindow = 2
  PPSRate = 0
  MinPayment = 1
  Reward <- Rewards
  Payable = {m1}
  SharedDaemon = TRUE
  Faults = {"crash", "redis", "rpc", "fees", "addr"}
  MaxFaults = 1
  MaxShares = 4
INVARIANT TypeOK
INVARIANT WalletAgrees
INVARIANT EachBlockCreditedOnce
INVARIANT OrphanHasCause
