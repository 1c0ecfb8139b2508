SPECIFICATION Spec
CONSTANTS
  NUnits = 12
  Hdr = 2
  Clients = {a, b, c}
  MaxWant = 3
  NFrames = 8
  Slots = {1, 2}
  PteCount = 2
  PdeCount = 3
  TensorBase = 1
  Blobs = {0}
  BlobPages = 2
  TraceBufSize = 4
  MaxSpans = 2
  Callers = {a, b, c}
  MaxHead = 6
  MaxNow = 2
  Sigs = {"a"}
  MaxNames = 2
  MaxTypes = 1
  MaxFuncs = 2
  MaxGlobals = 1
  MaxLeaks = 2
  GroupBits = 2
  MaxBits = 4
  WordBits = 6
  BlockLen = 4
  LenLen = 2
  MaxData = 9
  MaxSig = 5
SYMMETRY Symmetry
INVARIANTS HeapSound SpacesSound RecorderTrue ModuleWhole InputsRight
PROPERTIES DurationIsOwn
CHECK_DEADLOCK FALSE
