SPECIFICATION Spec
CONSTANTS
  Versions = {1, 2, 3, 4}
  NoVersion = NoVersion
  Bundled = 1
  Callers = {main, h1, h2}
  Ops <- SeededOps
  Retain = 1
  FaultyAt = {}
  AfterFailedPromote = {"rejected"}
  Main = main
  Handlers = {h1, h2}
  NoMarker = NoMarker
  Broken = {2}
  Mislabelled = {3}
  MaxAttempts = 2
  Patient = TRUE
  OperatorRollback = TRUE
  FailingWrites <- Dispensable
  CrashIn <- BeforeRecovery
  MaxCrashes = 2
INVARIANTS SelfTypeOK BootsCurrent
PROPERTIES SuccessMeansRunning RevertsTheTrial StartupDecidesAlone KeepsRolloutContract TrialSpendsBoots
