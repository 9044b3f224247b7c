SPECIFICATION FairSpec
CONSTANTS
  MaxDepth = 1
  Behaviours = {"set_time", "set_memory", "bare_js", "fatal"}
INVARIANTS
  Supervised
  HitStopsJs
  NoStrayTermination
PROPERTIES
  TimeLimitEnforced
  MemoryMeasured
  SetterReturns
  DisposeCompletes
  ImplementsPromise
