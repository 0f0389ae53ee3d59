CONSTANTS
  pipe = pipe  main = main  left = left  right = right  nested = nested
  l = l  r = r  c = c
  d1 = d1  d2 = d2
  User = User
  Sink = Sink
  Task = {l, c}
  Pipeline = {}
  Graph = {main, nested}
  Outer = main
  Inside <- GeneratorInside
  Copies <- NoPipeline
  Inputs <- NoInputs
  Succ <- GeneratorSucc
  NumberThreads <- GeneratorThreads
  Generated <- GeneratorGenerated
  SendToGraph = {}
  Limited = {}
  Input <- NoInput

SPECIFICATION FairSpec

INVARIANT TerminatedIsDisconnected
