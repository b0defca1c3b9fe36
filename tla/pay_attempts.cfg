SPECIFICATION Spec
CONSTANTS
  Job = job
  Driver = driver
  NoDriver = NoDriver
  key1 = key1
  key2 = key2
  Keys <- TwoKeys
  NoIntent = NoIntent
  Total = 1000
  Payout = 600
  RefundAmounts <- NoRefunds
  MaxUnassigns = 1
  MaxUpdates = 0
  EventsInOrder = TRUE
  HoldsExpire = TRUE
  RetriesSuffice = FALSE
CHECK_DEADLOCK FALSE
SYMMETRY KeySymmetry
INVARIANTS
  TypeOK
  ChargedOnce
  RecordConverges
