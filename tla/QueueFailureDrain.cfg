SPECIFICATION Spec
CONSTANTS
  N = 2
  Tasks = {t1, t2}
  NoAttempt = none
  MaxStarts = 2
  MaxNotices = 1
  Steers = {}
  Batches = {}
  Continuations = {}
  Ops = {"submit", "fail"}
PROPERTIES
  FailureHoldsWaiting
CHECK_DEADLOCK FALSE
