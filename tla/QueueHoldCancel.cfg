SPECIFICATION Spec
CONSTANTS
  N = 3
  Tasks = {t1}
  NoAttempt = none
  MaxStarts = 2
  MaxNotices = 1
  Steers = {}
  Batches = {}
  Continuations = {}
  Ops = {"submit", "fail", "cancel"}
INVARIANTS
  WalkHolds
CHECK_DEADLOCK FALSE
