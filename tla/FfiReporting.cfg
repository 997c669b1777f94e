SPECIFICATION Spec
CONSTANTS
  None = None
  Threads = {t1, t2}
  Providers = {"provider", "other"}
  Levels = {2}
  MaxErrors = 2
  MaxTexts = 2
  MaxSinks = 2
  Handles = {h1}
  MaxRuns = 2
  MaxList = 2
  Clients = {{"errors", "runs"}, {"logger"}, {"buffer", "buffers", "texts"},
             {"buffer", "texts", "runs"}, {"setup"}}
INVARIANTS ErrorsGoToTheirThreadOnce LoggingIsSafe HandlesAreConsistent
CHECK_DEADLOCK FALSE
