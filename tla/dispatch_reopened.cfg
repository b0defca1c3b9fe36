SPECIFICATION Spec
CONSTANTS
  Jobs = {j1}
  Drivers = {d1, d2}
  NoJob = NoJob
  NoDriver = NoDriver
  Suitable <- AnyoneSuits
  RetryKeys = {}
  Overrides = {"UNASSIGN_DRIVER"}
  ClocksAgree = TRUE
CHECK_DEADLOCK FALSE
INVARIANT CancellationBlockedAfterPickup
