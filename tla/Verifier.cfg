SPECIFICATION FairSpec
CONSTANTS
  Fetchable <- MCFetchable
  Configs <- MCConfigs
  Tags <- MCTags
  StateNames <- MCStateNames
CHECK_DEADLOCK FALSE
INVARIANTS
  ResultsAreSound VerdictIsFaithful PublishedIsFaithful AskedInItsStates NoticeNeverOverclaims
PROPERTIES
  RunEnds
