SPECIFICATION Spec
CONSTANTS
  Jobs = {j1, j2}
  Drivers = {d1, d2}
  NoJob = NoJob
  NoDriver = NoDriver
  Suitable <- AnyoneSuits
  RetryKeys = {}
  Overrides = {"UNASSIGN_DRIVER"}
  ClocksAgree = FALSE
SYMMETRY Symmetric
CHECK_DEADLOCK FALSE
INVARIANTS
  TypeOK
  CarrierIsConsistent
PROPERTY ImplementsLifecycle
