SPECIFICATION FairSpec
CONSTANTS
  Versions = {1, 2, 3, 4}
  NoVersion = NoVersion
  Bundled = 1
  Callers = {h1}
  Ops <- CoreOps
  Retain = 1
  FaultyAt <- PromoteFault
  AfterFailedPromote = {"rejected"}
  NoTask = NoTask
  Unfit = {2}
  Stillborn = {3}
  HasProbe = TRUE
  FailingCalls = {"start"}
  MaxDeaths = 1
  MaxCrashes = 0
  MaxRestarts = 0
INVARIANT ServesCurrent
PROPERTIES CoreSuccessMeansRunning StopIsTemporary
