SPECIFICATION FairSpec
CONSTANTS
  Fetchable <- OnePact
  Configs <- MCConfigs
  Tags <- MCTags
  StateNames <- MCStateNames
CHECK_DEADLOCK FALSE
INVARIANT
  NoticeTellsResult
