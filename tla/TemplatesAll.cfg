SPECIFICATION Spec
CONSTANTS
  Wrappers = {w1, w2, w3}
  Templates = {f1, t1, n1}
  FunctionTemplates = {f1}
  InnerTemplates = {n1}
  NoTemplate = NoTemplate
  MaxBuckets = 1
  MaxAdjusted = 1
  Behaviours = {"free", "view", "callback", "instance"}
SYMMETRY Symmetry
INVARIANTS
  TypeOK
  NodesLinked
  SearchTerminates
  CallbacksOwned
  ReportBalanced
  RefusalsJustified
  HeldAcyclic
CHECK_DEADLOCK FALSE
