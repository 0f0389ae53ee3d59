CONSTANTS
  A = A
  B = B
  a1 = a1
  a2 = a2
  b1 = b1
  d1 = d1
  d2 = d2
  d3 = d3
  Source = Source
  Sink = Sink
  Reader = Reader
  Nullptr = Nullptr
  NoProcess = NoProcess
  Data = {d1, d2}
  Task = {A}
  Thread = {a1, a2}
  GroupOf <- PairGroupOf
  Succ <- PairSucc
  Emit <- PairEmit
  AutoStart = {}
  Limited = {A}
  MaxCapacity = 1
  PushFirst = FALSE
  Input <- TwoInputs
SPECIFICATION FairSpec
INVARIANT NoLostWakeUp
INVARIANT EndHandedOn
INVARIANT ResultAvailable
PROPERTY ClosedNodesOnlyDrain
PROPERTY Termination
