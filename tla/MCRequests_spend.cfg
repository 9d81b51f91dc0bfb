SPECIFICATION Spec
CONSTANTS
  src = src
  old = old
  q = q
  p = p
  u = u
  yes = yes
  no = no
  None = None
  Error = Error
  States = {src, old}
  Questions = {q, p, u}
  Custom = {u}
  Values = {yes, no}
  Plans <- MCTwoBatches
  Options <- MCOneOption
  Whole <- MCWhole
  FileCap = 1
  MaxRuns = 1
  Envs = {{"reuse"}}
INVARIANTS SpendHolds
