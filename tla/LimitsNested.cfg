\* No deadlock check: with all behaviours the code can stop for good, as
\* LimitsMemoryRecovery shows.
SPECIFICATION Spec
CONSTANTS
  MaxDepth = 3
  Behaviours <- EveryBehaviour
INVARIANTS
  TypeOK
  DepthBalanced
  MemoryCheckArmed
PROPERTIES
  FullTimeAtEntry
CHECK_DEADLOCK FALSE
