SPECIFICATION Spec
CONSTANTS
  Wrappers = {w1, w2, w3}
  Templates = {t1, t2, t3}
  FunctionTemplates = {}
  InnerTemplates = {}
  NoTemplate = NoTemplate
  MaxBuckets = 0
  MaxAdjusted = 0
  Behaviours = {"free"}
SYMMETRY Symmetry
INVARIANTS
  NestingAcyclic
CHECK_DEADLOCK FALSE
