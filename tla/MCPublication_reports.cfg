SPECIFICATION FairSpec
CONSTANTS
  f1 = f1
  f2 = f2
  s1 = s1
  s2 = s2
  c1 = c1
  c2 = c2
  Files = {f1, f2}
  Sessions = {s1, s2}
  Commands = {c1, c2}
  History = 2
  MaxRounds = 1
  Envs <- MCEnvs
INVARIANTS LatestInHistory LineageUnbroken
PROPERTIES SettledStays PassIsSound EntriesKept WatcherCatchesUp ReaderCatchesUp LogRefined
CHECK_DEADLOCK FALSE
