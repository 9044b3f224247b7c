SPECIFICATION FairSpec
CONSTANTS
  MaxDepth = 1
  Behaviours = {"set_memory", "late_callback"}
PROPERTIES
  SetterReturns
CHECK_DEADLOCK FALSE
