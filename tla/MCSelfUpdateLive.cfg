SPECIFICATION FairSpec
CONSTANTS
  Versions = {1, 2, 3, 4}
  NoVersion = NoVersion
  Bundled = 1
  Callers = {main, h1}
  Ops <- SeededOps
  Retain = 1
  FaultyAt = {}
  AfterFailedPromote = {"rejected"}
  Main = main
  Handlers = {h1}
  NoMarker = NoMarker
  Broken = {2}
  Mislabelled = {3}
  MaxAttempts = 2
  Patient = TRUE
  OperatorRollback = FALSE
  FailingWrites = {"guard.record", "guard.reset", "resume.reset"}
  CrashIn <- Guarded
  MaxCrashes = 2
INVARIANT TrialKeepsBoth
PROPERTIES TrialSettles Recovers
