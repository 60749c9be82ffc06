SPECIFICATION Spec
CONSTANTS
  o1 = o1
  o2 = o2
  o3 = o3
  Object = {o1, o2, o3}
  Batches = 1
SYMMETRY Symmetry
INVARIANTS
  Safe
  NothingLeaks
PROPERTIES
  FailureGivesNothing
