CONSTANTS
  pipe = pipe  main = main  left = left  right = right  nested = nested
  l = l  r = r  c = c
  d1 = d1  d2 = d2
  User = User
  Sink = Sink
  Task = {l, r, c}
  Pipeline = {pipe}
  Graph = {main, left, right, nested}
  Outer = main
  Inside <- RoutedInside
  Copies <- RoutedCopies
  Inputs <- RoutedInputs
  Succ <- RoutedSucc
  NumberThreads <- RoutedThreads
  Generated <- NothingGenerated
  SendToGraph <- RoutedRules
  Limited = {r}
  Input <- RoutedInput

SPECIFICATION FairSpec

INVARIANT JoinedInside
INVARIANT TerminatedIsDisconnected
PROPERTY ImplementsRouter
PROPERTY Termination
