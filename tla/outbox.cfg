SPECIFICATION Spec
CONSTANTS
  Messages <- MCMessages
  Workers <- MCWorkers
  Kind <- MCKind
  Channel <- MCChannel
  Reachable <- MCReachable
  Configured <- MCConfigured
  FollowUps <- MCFollowUps
  BatchSize = 2
  MaxRetries = 2
  MaxRollbacks = 1
INVARIANTS
  HandlingIsExact
  RepetitionsAreAccounted
PROPERTIES
  ImplementsQueue EveryMessageSettles
CHECK_DEADLOCK FALSE
