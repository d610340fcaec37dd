SPECIFICATION Spec
CONSTANTS
  Versions = {1, 2, 3}
  NoVersion = NoVersion
  Bundled = 1
  Callers = {h1}
  Ops <- CoreOps
  Retain = 1
  FaultyAt <- ActivationFault
  AfterFailedPromote = {"rejected"}
  NoTask = NoTask
  Unfit = {2}
  Stillborn = {}
  HasProbe = TRUE
  FailingCalls <- AnyCall
  MaxDeaths = 1
  MaxCrashes = 1
  MaxRestarts = 1
PROPERTIES RollbackRestores RowsMeanStarted KeepsRolloutContract
