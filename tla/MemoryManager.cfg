CONSTANTS
  g1 = g1
  g2 = g2
  g3 = g3
  r1 = r1
  r2 = r2
  d1 = d1
  d2 = d2
  NULL = NULL
  NoThread = NoThread
  Getter = {g1, g2}
  Returner = {r1, r2}
  Data = {d1, d2}
  Uses = 2
  Rounds = 2
SPECIFICATION FairSpec
PROPERTY ImplementsManagedPool
PROPERTY EveryCallServed
