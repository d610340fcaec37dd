SPECIFICATION Spec
CONSTANTS
  Versions = {1, 2, 3, 4}
  NoVersion = NoVersion
  Bundled = 1
  Callers = {h1}
  Ops <- CoreOps
  Retain = 1
  FaultyAt = {}
  AfterFailedPromote = {"rejected"}
  NoTask = NoTask
  Unfit = {2}
  Stillborn = {3}
  HasProbe = FALSE
  FailingCalls = {}
  MaxDeaths = 0
  MaxCrashes = 0
  MaxRestarts = 0
PROPERTY OnlyUnfitRolledBack
