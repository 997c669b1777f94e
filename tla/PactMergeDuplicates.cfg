SPECIFICATION Spec
CONSTANTS
  none = none
  NoKey = none
  NoPact = NoPact
  Broken = Broken
  Inputs <- InDefinitionOrder
  MaxWrites = 3
CHECK_DEADLOCK FALSE
INVARIANT NoDuplicates
