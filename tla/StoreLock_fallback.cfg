SPECIFICATION FairSpec
CONSTANTS
  p1 = p1
  p2 = p2
  p3 = p3
  here = here
  there = there
  Procs <- TwoProcs
  HostOf <- OneHost
  HardLinks = FALSE
  ReadsFail = TRUE
  MaxAttempts = 2
  MaxCalls = 3
INVARIANT ExclusiveUnlessMisfired
PROPERTY CallsReturn
