SPECIFICATION Spec
CONSTANTS
  Plans <- AllPlans
  MaxFaults = 2
INVARIANTS NoneLeftDue NothingLost
PROPERTIES LateAsksOnlyLower DecidedStays
CHECK_DEADLOCK FALSE
