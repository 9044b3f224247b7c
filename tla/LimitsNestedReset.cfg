SPECIFICATION FairSpec
CONSTANTS
  MaxDepth = 2
  Behaviours = {"set_time"}
PROPERTIES
  TimeLimitEnforced
