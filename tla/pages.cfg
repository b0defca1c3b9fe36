SPECIFICATION Spec
CONSTANTS
 x1 = x1
 x2 = x2
 Pilots <- Two
 PilotKeys = {k1}
 PilotStatuses = {"NOT_STARTED","PASSED"}
 Dishes <- Two
 Prices = {2,5}
 MaxQuantity = 2
 MaxOrders = 2
 MaxEdits = 1
 Accounts <- Two
 MaxAttempts = 2
 Keys = {"k1", "k2"}
 MaxSaves = 1
 MaxLoads = 3
 MaxPending = 2
 MaxChanges = 3
 MaxAsked = 4
 MaxAtOnce = 2
 Deliveries <- Two
 MaxHandlers = 2
 MaxTrouble = 2
 Restaurants = {"r1", "r2"}
 MaxFetches = 2
 MaxSteps = 3
 MaxEvents = 2
 Window = 1
 MaxCalls = 2
SYMMETRY Interchangeable
CHECK_DEADLOCK FALSE
INVARIANTS PagesTypeOK PagesShowTheServer OrdersAreAsShown SessionsHold DeskMatchesWork
PROPERTY NothingGoesAstray
