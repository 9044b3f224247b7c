SPECIFICATION Spec
CONSTANTS
  Wrappers = {w1, w2, w3}
  Things = {o1, o2}
  None = None
  MaxBuckets = 1
  MaxAdjusted = 1
  Behaviours = {}
SYMMETRY Symmetry
INVARIANTS
  TypeOK
  SelfFaithful
  CallbacksCallable
  ReportBalanced
CHECK_DEADLOCK FALSE
