SPECIFICATION FairSpec
CONSTANTS
  NumLines = 2
  Byte = {0, 1}
  ZeroByte = 0
  Tag = {0, 1}
  ZeroTag = 0
  LineState = {"I", "S", "M"}
  Invalid = "I"
  Request <- const_requests
  None = None
INVARIANTS
  ClearedBeforeUse
  ResponsesAreAtomic
PROPERTIES
  ImplementsAtomicMemory
  AccessesComplete
