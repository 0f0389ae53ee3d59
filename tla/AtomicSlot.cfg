CONSTANTS
  t1 = t1
  t2 = t2
  t3 = t3
  n1 = n1
  n2 = n2
  Thread = {t1, t2, t3}
  Notifier = {n1, n2}
  Sends <- TwoNotifiers
  Capacity = 3
SPECIFICATION FairSpec
INVARIANT NoLostWakeUp
INVARIANT EndHandedOn
PROPERTY ImplementsMailbox
