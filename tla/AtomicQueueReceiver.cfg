CONSTANTS
  p1 = p1
  p2 = p2
  c1 = c1
  c2 = c2
  v1 = v1
  v2 = v2
  v3 = v3
  n1 = n1
  n2 = n2
  n3 = n3
  NULL = NULL
  Producer = {p1, p2}
  Consumer = {c1, c2}
  Address = {n1, n2, n3}
  Data = {v1, v2, v3}
  Offer <- ThreeValues
SPECIFICATION FairSpec
INVARIANT EmptyIsReliable
INVARIANT NoDanglingAccess
PROPERTY ImplementsReceiver
PROPERTY EverythingTaken
