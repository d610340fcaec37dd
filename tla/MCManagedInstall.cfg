SPECIFICATION FairSpec
CONSTANTS
  Versions = {1, 2, 4}
  NoVersion = NoVersion
  Bundled = 2
  Callers = {h1}
  Ops <- InstallOps
  Retain = 0
  FaultyAt <- StoreFaults
  AfterFailedPromote = {"error"}
  Parsed <- MCParsed
  Malformed = Malformed
  Unset = Unset
  Matrix = Matrix
  Published <- MCPublished
  Running <- MCRunning
  Pins = {1}
  NoTask = NoTask
  StartFails = {}
  HealthFails = {4}
  RequiresRestart = TRUE
  FailingCalls <- Calls
INVARIANTS InstallTypeOK LiveReleasesUsable
PROPERTIES KeepsRolloutContract ReplayGuardAdvances NoUnaskedDowngrade BadReleaseLeaves
