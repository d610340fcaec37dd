SPECIFICATION Spec
CONSTANTS
  Versions = {1, 4}
  NoVersion = NoVersion
  Bundled = 1
  Callers = {main, h1}
  Ops <- SeededOps
  Retain = 1
  FaultyAt = {}
  AfterFailedPromote = {"rejected"}
  Main = main
  Handlers = {h1}
  NoMarker = NoMarker
  Broken = {}
  Mislabelled = {}
  MaxAttempts = 2
  Patient = FALSE
  OperatorRollback = TRUE
  FailingWrites = {}
  CrashIn = {}
  MaxCrashes = 0
PROPERTY SuccessMeansRunning
