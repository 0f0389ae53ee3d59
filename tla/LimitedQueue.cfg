CONSTANTS
  p1 = p1
  p2 = p2
  c1 = c1
  c2 = c2
  o1 = o1
  v1 = v1
  v2 = v2
  v3 = v3
  NULL = NULL
  Producer = {p1, p2}
  Consumer = {c1, c2}
  Observer = {o1}
  Data = {v1, v2, v3}
  MaxCapacity = 2
  Starts <- BothStarts
SPECIFICATION FairSpec
INVARIANT EmptyIsReliable
INVARIANT NoSlotOverrun
PROPERTY ImplementsReceiver
PROPERTY EverythingTaken
