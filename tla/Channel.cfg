SPECIFICATION FairSpec
CONSTANTS
  CmdSize = 3
  RspSize = 3
  MaxCmds = 3
  MaxCrashes = 1
  Bridges = {"py", "c"}
  Irqs = {TRUE, FALSE}
INVARIANTS CommandsKept ResponsesKept
PROPERTIES Answered
CHECK_DEADLOCK FALSE
