SPECIFICATION FairSpec
CONSTANTS
  w1 = w1
  w2 = w2
  None = None
  Workers = {w1, w2}
  Count = 2
  AnsweredAttempts = 3
  UnsentAttempts = 2
  InterruptedAttempts = 2
  EdgeBlocks = 2
  FirstBackoff = 1
  LongestBackoff = 1
  Interval = 0
  RetryAfters = {2}
  Setups <- MCSetups
  Cost <- MCCost
INVARIANTS TypeOK BillableBound BudgetHolds LateSendBound RetriesCoverSends
PROPERTIES QueueRefined
