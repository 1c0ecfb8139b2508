SPECIFICATION WasmSpec
CONSTANTS
  NSlots = 18
  Rets <- I32
  Args <- I32
  Locals <- NoTypes
  NConst = 1
  Literals = {50}
  Mixes <- AllMixes
INVARIANTS OperandsRight StackAgrees FrameChecked CountsRight
CHECK_DEADLOCK FALSE
