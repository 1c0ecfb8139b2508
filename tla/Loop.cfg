SPECIFICATION FairSpec
CONSTANTS
  StreamReady = {TRUE, FALSE}
  Pool = 3
  EpLen = 3
  Span = 5
  IfrOk = {TRUE, FALSE}
  Calm = {TRUE, FALSE}
  MaxPolls = 3
  MayStale = TRUE
  MayFail = TRUE
INVARIANTS Fresh EpisodeExact PoolSound
PROPERTIES KeepsStepping
CHECK_DEADLOCK FALSE
