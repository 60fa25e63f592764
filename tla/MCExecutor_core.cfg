SPECIFICATION Spec
CONSTANTS
  Node <- StageIds
  Rank <- StageRank
  Plans <- AllPlans
  Path <- MCPath
  Existing = {"app"}
  Name <- MCName
  Canon <- MCCanon
  Files <- OwnFiles
  MaxAttempts <- OneRetry
  Rollback <- RollbackStages
  MaxRepairs = 2
  MaxPlanRevisions = 3
  EntryDenied = {"review"}
  Unscripted = {}
  Asking = {"document"}
  Raising = {"author-tests"}
  UnsafeNames = {}
PROPERTY
  KeepsPromise
INVARIANTS
  CompletedIsClosed
  ShippedIsVerified
  SourcePredatesBatch
  NothingHalfApplied
  EveryRoundSignedOff
  CommittedWorkSurvives
  SeamBeforeImplementation
CHECK_DEADLOCK FALSE
