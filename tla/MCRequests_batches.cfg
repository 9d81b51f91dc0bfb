SPECIFICATION Spec
CONSTANTS
  src = src
  old = old
  q = q
  p = p
  u = u
  yes = yes
  no = no
  None = None
  Error = Error
  States = {src, old}
  Questions = {q, p, u}
  Custom = {u}
  Values = {yes, no}
  Plans <- MCPlans
  Options <- MCOptions
  Whole <- MCWhole
  FileCap = 1
  MaxRuns = 2
  Envs = {{"stale", "keyless"}, {"unwritable"}, {"full"}, {"expiry"}, {"tracked"}}
INVARIANTS TypeOK OneAnswer BoughtOnce RefreshedAnew RequestsHeld SpendHoldsApart
