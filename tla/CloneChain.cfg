CONSTANTS
  a = a  t = t  c = c  d = d
  outer = outer  base = base  nested = nested
  pipe = pipe
  x = x  y = y
  f1 = f1  f2 = f2  i1 = i1  i2 = i2
  None = None
  Task = {a, t, c, d}
  Graph = {outer, base, nested}
  Pipeline = {pipe}
  Type = {x, y}
  Ins <- MenuIns
  Outs <- MenuOuts
  NumberGraphs <- TwoGraphs
  Threads <- TwoThreads
  Call <- ChainCall
  Later <- ChainLater
  InputTypes <- TwoInputs
  Lambda = {f1, f2}
  Unset = Unset
  Given <- OneGiven
  Null = Null
  GroupSize = 2
  Clones = 2
  StartsItself = TRUE
  MaxSets = 2
  MaxValues = 2

INIT BuildInit
NEXT BuildNext

CHECK_DEADLOCK FALSE
INVARIANT CopiesAreAlike
