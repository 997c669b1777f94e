SPECIFICATION Spec
CONSTANTS
  none = none
  NoKey = none
  NoPact = NoPact
  Broken = Broken
  Inputs <- InOrder
  MaxWrites = 3
CHECK_DEADLOCK FALSE
INVARIANTS
  FileIsSound
PROPERTIES
  RewriteIsIdempotent WhoWins
