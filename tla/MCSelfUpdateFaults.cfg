SPECIFICATION Spec
CONSTANTS
  Versions = {1, 2, 3}
  NoVersion = NoVersion
  Bundled = 1
  Callers = {main, h1}
  Ops <- SeededOps
  Retain = 1
  FaultyAt <- RevertFault
  AfterFailedPromote = {"rejected"}
  Main = main
  Handlers = {h1}
  NoMarker = NoMarker
  Broken = {2}
  Mislabelled = {3}
  MaxAttempts = 2
  Patient = FALSE
  OperatorRollback = TRUE
  FailingWrites <- AroundReset
  CrashIn <- OutsideReset
  MaxCrashes = 2
INVARIANT FullBudget
PROPERTY TrialKeepsFallback
