SPECIFICATION Spec
CONSTANTS
  NumCores = 2
  Tag = {t0, t1}
  Index = {i0}
  ZeroTag = t0
  Lane = {0}
  Byte = {0, 1}
  ZeroByte = 0
  NoAddr = NoAddr
  Workload <- const_full
CHECK_DEADLOCK FALSE
INVARIANTS
  SingleWriter
  DirectoryCovers
  EvictIsFresh
PROPERTY ImplementsProtocol
