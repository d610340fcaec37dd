SPECIFICATION FairSpec
CONSTANTS
  Parsed <- MCParsed
  Malformed = malformed
  Unset = unset
  Matrix <- MCMatrix
  Installed = {"qrx007", "legacy006", "mock"}
  VersionOf <- MCVersionOf
  Callers = {h1}
  Startup = main
  Configs <- MCConfigs
  Assumed = 7
  Nodes <- MCNodes
  Fields <- MCFields
INVARIANTS FeedTypeOK ActiveIsCompatible ActiveIsActivated
PROPERTIES NothingBlanked SimulationEnds
