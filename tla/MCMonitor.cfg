SPECIFICATION FairSpec
CONSTANTS
  Clients = {s1}
  MaxSubscribers = 1
  BufSize = 2
  DegradedAfter = 1
  UnhealthyAfter = 2
  OfflineAfter = 3
  MaxAutoRestarts = 2
  RestartWindow = 3
  MinRestartInterval = 1
  FailingCalls <- AnyCall
INVARIANTS MonitorTypeOK RestartsBounded OneOpenAlert AlertsMatchHealth ViewMatchesCache
PROPERTY HealthReturns
