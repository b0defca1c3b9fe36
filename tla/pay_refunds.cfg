SPECIFICATION Spec
CONSTANTS
  Job = job
  Driver = driver
  NoDriver = NoDriver
  key1 = key1
  key2 = key2
  Keys <- OneKey
  NoIntent = NoIntent
  Total = 1000
  Payout = 600
  RefundAmounts <- StaffRefund
  MaxUnassigns = 2
  MaxUpdates = 2
  EventsInOrder = FALSE
  HoldsExpire = TRUE
  RetriesSuffice = FALSE
CHECK_DEADLOCK FALSE
INVARIANTS
  AmountsConsistent
  CapturedIsReceived
PROPERTIES
  ChargedInFullOnDelivery
  NothingIsPaidOutUncharged
