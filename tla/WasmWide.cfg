SPECIFICATION WasmSpec
CONSTANTS
  NSlots = 18
  Rets <- I32
  Args <- I64
  Locals <- NoTypes
  NConst = 1
  Literals = {50}
  Mixes <- WideMixes
INVARIANTS CountsRight
CHECK_DEADLOCK FALSE
