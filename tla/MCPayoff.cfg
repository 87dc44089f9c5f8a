CONSTANTS
  None = None
  Credits = {1, 2, 3}
  Offers <- MCOffers
  Extras = {0, 7}
  Today <- MCToday
  MaxPayments = 5
SPECIFICATION PayoffSpec
INVARIANTS
  PayoffTypeOK
  PlanKeepsToSchedules
  FailsOnlyAtTheLimit
PROPERTIES
  SameSumEveryMonth
CHECK_DEADLOCK FALSE
