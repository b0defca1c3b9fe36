SPECIFICATION FairSpec
CONSTANTS
  Jobs = {j1}
  Drivers = {d1, d2, d3}
  NoJob = NoJob
  NoDriver = NoDriver
  Suitable <- AnyoneSuits
  RetryKeys = {k1, k2}
  Overrides = {}
  ClocksAgree = TRUE
CHECK_DEADLOCK FALSE
INVARIANTS
  RequestedJobIsPending
  
  ProofIsByCarrier
PROPERTY SearchEnds
