SPECIFICATION Spec
CONSTANTS
  N = 2
  Tasks = {t1, t2}
  NoAttempt = none
  MaxStarts = 1
  MaxNotices = 1
  Steers = {}
  Batches = {}
  Continuations = {}
  Ops = {"submit"}
INVARIANTS
  NoGhostRunning
CHECK_DEADLOCK FALSE
