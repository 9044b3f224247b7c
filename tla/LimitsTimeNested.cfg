SPECIFICATION FairSpec
CONSTANTS
  MaxDepth = 3
  Behaviours = {"set_time", "terminate", "bare_js", "late_callback", "fatal"}
PROPERTIES
  HitReachesCaller
  StopReturns
