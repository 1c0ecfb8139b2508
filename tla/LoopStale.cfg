SPECIFICATION FairSpec
CONSTANTS
  StreamReady = {TRUE}
  Pool = 2
  EpLen = 2
  Span = 4
  IfrOk = {FALSE}
  Calm = {FALSE}
  MaxPolls = 1
  MayStale = TRUE
  MayFail = FALSE
PROPERTIES ObsAnswered
CHECK_DEADLOCK FALSE
