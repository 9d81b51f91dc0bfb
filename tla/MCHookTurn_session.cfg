SPECIFICATION FairSpec
CONSTANTS
  f = f
  h1 = h1
  h2 = h2
  n = n
  t1 = t1
  t2 = t2
  t3 = t3
  None = None
  Hooks = {h1, h2}
  Trees = {t1, t2, t3}
  Findings = {f}
  Found <- MCFound
  Broken = {t2}
  Nested = {n}
  MaxBlocks = 2
  Envs = {{"interrupt", "kill", "failing"},
          {"outage", "resend", "nested"},
          {"cursor", "outage"},
          {"cursor", "nested"},
          {"parallel", "outage"},
          {"noTurnStart", "outage", "nested"},
          {"unreadable", "resend"}}
INVARIANTS TypeOK BlockCap UncheckedCovered SilentStopIsClean UnseenNamedInOrder
PROPERTIES NoRepeatedBlock NoticeReachesAgent AgentReleased
