SPECIFICATION Spec
CONSTANTS
  a = a
  b = b
  g = g
  e1 = e1
  None = None
  Procs = {a, b, g}
  Events = {e1}
  Event <- MCEvent
  LockWait = 1
  Wait = 1
  MaxClock = 2
INVARIANTS TypeOK SomebodyAnswers NoMarkLeft LockGoesWithStore OutageWasMet
PROPERTIES HeldOnce
SYMMETRY Copies
