SPECIFICATION DriverDeskSpec
CONSTANTS
  Deliveries = {x1, x2}
  MaxHandlers = 2
  MaxTrouble = 2
CHECK_DEADLOCK FALSE
INVARIANT ProvenCanBeCompleted
