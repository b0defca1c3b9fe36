SPECIFICATION Spec
CONSTANTS
  Totals <- TotalsChosen
  Amounts <- AmountsChosen
  Distances <- DistancesChosen
  Minutes <- MinutesChosen
  CheckKeys <- CheckKeysChosen
  Ages <- AgesChosen
  LocationAges <- LocationAgesChosen
  JobAges <- JobAgesChosen
  MaxCritical = 2
  MaxActions = 3
  MaxRows = 3
  BriefedRows = 2
  BriefedSupport = 1
  ReportedSupport = 1
  QueueRows = 1
CHECK_DEADLOCK FALSE
INVARIANTS
  SettlementIsSound FeeIsNearestCent QuotesAreSound ReadinessAgrees RiskIsSeenAlike ViewsAgree AccessAgrees
