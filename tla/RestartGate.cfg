SPECIFICATION FairSpec
CONSTANTS
  C = 2
  Others = {3}
  BatchSize = 1
  FirstDelay = 1
  Interval = 2
  Jitter = 1
  Grace = 1
  Fallback = 1
  Rates = {1, 2}
  MaxSlips = 0
INVARIANTS
  TypeOK
  PendingOnTheWay
  EndIsTimed
PROPERTIES
  NoneJumps
  ResumingEnds
  DispatchesAsPromised
CHECK_DEADLOCK FALSE
