SPECIFICATION Spec
CONSTANTS
  j1 = j1  j2 = j2  j3 = j3
  None = None
  MaxMessages = 3
  Contents <- TwoContents
  Quotable <- Preceding
  BurstQuiet = 0
  BurstCeiling = 1
  Delays <- OneTick
  MaxTime = 2
  MaxAttempts = 1
  MaxDefer = 2
  Jobs <- ThreeJobs
  SlowAt <- Outside
  MaxEvents = 1
SYMMETRY Symmetry
INVARIANTS NobodyForgotten EnteredOnce SplitsAsInRealTime
PROPERTIES ReportIsWhole OrderIsKept DecidedForNow
CHECK_DEADLOCK FALSE
