SPECIFICATION Spec
CONSTANTS
  NPages = 3
  Boundary = 2
  Jobs = {j1, j2}
  PageKb = 2
  MemBudget = 4
  CpuBudget = 0
  Word = 16
  MaxRun = 3
  MaxCharge = 1
  MaxUse = 5
  MaxViol = 3
  MaxDrift = 1
  j1 = j1
  j2 = j2
SYMMETRY Symmetry
INVARIANTS PagesSound ChargesSound StateJustified
PROPERTIES SafeModeHolds
CHECK_DEADLOCK FALSE
