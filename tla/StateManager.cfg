CONSTANTS
  products = products
  add = add
  results = results
  matrix = matrix
  Source = Source
  Sink = Sink
  NoProcess = NoProcess
  Nullptr = "nullptr"
  Manager = {products, results}
  Worker = {add}
  State = {matrix}
  Type = {"C", "P", "pair", "last", "result"}
  Data = {"C", "P", "pair", "last", "result"}
  StateOf <- ManagerStates
  Inputs <- InputTypes
  Outputs <- OutputTypes
  Receivers <- Wires
  TypeOf <- TypeOfValue
  User <- Contents
  Initially <- Beginning
  Execute <- MatrixExecute
  Emit <- AddBlocks
  Overrides = {products}
  IsDone <- Done
  AutoStart = {results}
  Input <- Pushed
  Outcome <- Expected
SPECIFICATION FairSpec
INVARIANT TypeOK
INVARIANT OutcomeReached
INVARIANT ResultsLeaveWithTheirManager
PROPERTY Termination
