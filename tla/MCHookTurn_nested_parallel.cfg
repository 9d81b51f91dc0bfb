SPECIFICATION Spec
CONSTANTS
  f = f
  h1 = h1
  h2 = h2
  m = m
  n = n
  t1 = t1
  t2 = t2
  None = None
  Hooks = {h1, h2}
  Trees = {t1, t2}
  Findings = {f}
  Found <- MCFound
  Broken = {}
  Nested = {m, n}
  MaxBlocks = 1
  Envs = {{"parallel", "nested"}}
INVARIANTS UnseenNamed
