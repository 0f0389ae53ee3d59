INIT AnalysesInit
NEXT AnalysesNext
CHECK_DEADLOCK FALSE
CONSTANTS
  n1 = n1  n2 = n2  n3 = n3  n4 = n4
  t1 = t1  t2 = t2
  good = good  poor = poor  absent = absent
  Node = {n1, n2, n3, n4}
  Type = {t1, t2}
  Ins <- TheIns
  Outs <- TheOuts
  ReadOnly <- TheReadOnly
  Const = {t2}
  GraphIns = {t1}
  GraphOuts = {t1, t2}
  Wirings <- TheWirings
  MaxCalls = 1
  CanTerminate = {n4}
  Size <- TheSize
  Dynamic = {good, poor}
  DynIns <- TheDynIns
  DynOuts <- TheDynOuts
  Empty = Empty
  Overrun = Overrun
  Arguments <- TheArguments
  NotAdded = NotAdded
  NotMapped = NotMapped
  a = a  b = b  x1 = x1  x2 = x2  x3 = x3  y1 = y1  i1 = i1  i2 = i2
  Thread = {x1, x2, x3, y1}
  InputType = {i1, i2}
  Task = {a, b}
  Members <- TheMembers
  AutomaticStart = {b}
  MemoryAttached = {a}
  Durations = {0, 2}
  Wait = 1
  Rounds <- TheRounds
INVARIANT CyclesFound
INVARIANT RacesFound
INVARIANT DefrostedAsFrozen
INVARIANT FiguresAgree
INVARIANT ShadesInRange
