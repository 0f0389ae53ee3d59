CONSTANTS
  A = A
  B = B
  a1 = a1
  a2 = a2
  b1 = b1
  d1 = d1
  d2 = d2
  d3 = d3
  Source = Source
  Sink = Sink
  Reader = Reader
  Nullptr = Nullptr
  NoProcess = NoProcess
  Data = {d1, d2, d3}
  Task = {A, B}
  Thread = {a1, b1}
  GroupOf <- MeshGroupOf
  Succ <- MeshSucc
  Emit <- MeshEmit
  AutoStart = {A}
  Limited = {}
  MaxCapacity = 1
  PushFirst = TRUE
  Input <- OneInput
SPECIFICATION Spec
INVARIANT TypeOK
INVARIANT TerminatedDrained
INVARIANT OrderPreserved
PROPERTY ImplementsComputation
