SPECIFICATION FairSpec
CONSTANTS
  Node <- StageIds
  Rank <- StageRank
  Plans <- Brownfield
  Path <- MCPath
  Existing = {"app"}
  Name <- MCName
  Canon <- MCCanon
  Files <- SharedFiles
  MaxAttempts <- OneRetry
  Rollback <- RollbackStages
  MaxRepairs = 1
  MaxPlanRevisions = 3
  EntryDenied = {}
  Unscripted = {"refactor-seam"}
  Asking = {}
  Raising = {}
  UnsafeNames = {"implement", "document"}
INVARIANTS
  CompletedRunIsClean
  LossIsAudited
PROPERTIES
  Termination
CHECK_DEADLOCK FALSE
