SPECIFICATION Spec
CONSTANTS
  f = f
  h1 = h1
  t1 = t1
  t2 = t2
  None = None
  Hooks = {h1}
  Trees = {t1, t2}
  Findings = {f}
  Found <- MCFound
  Broken = {}
  Nested = {}
  MaxBlocks = 1
  Envs = {{"outage", "interrupt"}}
INVARIANTS UncheckedStaysCovered
