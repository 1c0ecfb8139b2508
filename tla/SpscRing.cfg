SPECIFICATION FairSpec
CONSTANTS
  Size = 3
  Words = 2
  Val = {0, 1}
  Zero = 0
  Empty = Empty
  MaxCrashes = 1
INVARIANTS RingInv
PROPERTIES ImplementsFifo Drains
