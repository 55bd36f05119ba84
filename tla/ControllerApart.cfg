SPECIFICATION Spec
CONSTANTS
  t0 = t0
  t1 = t1
  i0 = i0
  i1 = i1
  Tag = {t0, t1}
  Index = {i0, i1}
  Addr <- const_two_indexes
  ZeroAddr <- const_zero
  Lane = {0}
  Byte = {0, 1}
  ZeroByte = 0
  None = None
  Workload <- const_apart
  SameIndexSnoops = FALSE
INVARIANTS
  StoresSurvive
  CopiesAreCurrent
PROPERTY
  ReadsReturnLatest
