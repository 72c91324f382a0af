SPECIFICATION Spec
CONSTANTS
  p1 = p1
  p2 = p2
  p3 = p3
  here = here
  there = there
  Procs <- ThreeProcs
  HostOf <- TwoHosts
  HardLinks = TRUE
  ReadsFail = TRUE
  MaxAttempts = 3
  MaxCalls = 3
INVARIANT ExclusiveUnlessMisfired
INVARIANT RefusalIsJustified
PROPERTY ReleaseSparesOthers
VIEW Live
