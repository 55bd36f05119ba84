SPECIFICATION Spec
CONSTANTS
  num_requesters = 3
  weights <- const_weights
INVARIANTS
  NeverTimesOut
  BoundedBypass
PROPERTY SearchAgreesWithPolicy
