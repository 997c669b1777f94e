SPECIFICATION Spec
CONSTANTS
  Retries = 3
  Jobs <- MCJobs
  Documents <- MCDocuments
  Lists <- MCLists
INVARIANTS PactsAreAccountedFor PostedTwiceOnlyAfter50x 
PROPERTIES ImplementsPublication CallReturns
CHECK_DEADLOCK FALSE
