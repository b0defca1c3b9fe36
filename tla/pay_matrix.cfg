SPECIFICATION Spec
CONSTANTS
  Job = job
  Driver = driver
  NoDriver = NoDriver
  key1 = key1
  key2 = key2
  Keys <- OneKey
  NoIntent = NoIntent
  Total = 1000
  Payout = 600
  RefundAmounts <- NoRefunds
  MaxUnassigns = 0
  MaxUpdates = 0
  EventsInOrder = TRUE
  HoldsExpire = FALSE
  RetriesSuffice = TRUE
CHECK_DEADLOCK FALSE
INVARIANTS
  SettlementFollowsMatrix
