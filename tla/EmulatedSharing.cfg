SPECIFICATION FairSpec
CONSTANTS
  NumCores = 3
  Tag = {t0}
  Index = {i0}
  ZeroTag = t0
  Lane = {0, 1}
  Byte = {0, 1}
  ZeroByte = 0
  NoAddr = NoAddr
  Workload <- const_bytes
INVARIANTS
  OwnerHasLine
  NeverStalls
  UpgradeIsFresh
  RdxNeverFallsThrough
PROPERTIES
  TakeoverKeepsBytes
  EveryAccessCompletes
