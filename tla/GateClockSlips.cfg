SPECIFICATION FairSpec
CONSTANTS
  C = 1
  Others = {2}
  BatchSize = 1
  FirstDelay = 1
  Interval = 2
  Jitter = 0
  Grace = 1
  Fallback = 1
  Rates = {0, 1}
  MaxSlips = 1
PROPERTIES
  ResumingEnds
CHECK_DEADLOCK FALSE
