SPECIFICATION Spec
CONSTANTS
  Lines = {0, 7, 9, 15}
  TickSpan = 4
  TickRate = 100
  WordSpan = 3000
  Sleeps = {0, 25, 31}
  Procs = {p, q, r}
  idle = idle
  Quantum = 2
  MaxNested = 2
  Width = 2
  Height = 2
  PromptLen = 1
  CmdMax = 2
  SentMax = 1
  RspMax = 2
  KbSize = 3
  Letters = {"x"}
INVARIANTS TerminalTrue InterruptsServed ProcessesSound
PROPERTIES KeyTaken SleepFull SleepEnds TurnComes
CHECK_DEADLOCK FALSE
