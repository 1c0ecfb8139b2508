SPECIFICATION IfrSpec
CONSTANTS
  Models = {1, 2}
  Cached = {1}
  MaxEpisodes = 3
INVARIANTS RecordsVerify
CHECK_DEADLOCK FALSE
