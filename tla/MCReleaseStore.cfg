SPECIFICATION SerialSpec
CONSTANTS
  Versions = {1, 2, 3, 4}
  NoVersion = NoVersion
  Bundled = 1
  Callers = {c1, c2}
  Ops <- ManagedOps
  Retain = 1
  FaultyAt <- FaultBeforeUnstage
  AfterFailedPromote <- EitherOutcome
INVARIANTS TypeOK LiveReleasesUsable PruneBoundsDisk
PROPERTIES PromotionKeepsPredecessor PruneRetainsLast
