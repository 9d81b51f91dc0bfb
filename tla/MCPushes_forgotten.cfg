SPECIFICATION Spec
CONSTANTS
  here = here
  there = there
  main = main
  feature = feature
  Heads <- MCHeads
  RemoteRefs <- MCRefs
  Budgets <- MCBudgets
SYMMETRY Symmetry
INVARIANTS FailedGateStops
CHECK_DEADLOCK FALSE
