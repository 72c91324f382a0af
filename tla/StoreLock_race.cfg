SPECIFICATION Spec
CONSTANTS
  p1 = p1
  p2 = p2
  p3 = p3
  here = here
  there = there
  Procs <- TwoProcs
  HostOf <- OneHost
  HardLinks = TRUE
  ReadsFail = FALSE
  MaxAttempts = 3
  MaxCalls = 3
INVARIANT MutualExclusion
