SPECIFICATION Spec
CONSTANTS
  N = 3
  Tasks = {t1}
  NoAttempt = none
  MaxStarts = 2
  MaxNotices = 1
  Steers = {2, 3}
  Batches = {2, 3}
  Continuations = {}
  Ops = {"submit","reject","pause","move","resume","steer","input","close","external","occupancy"}
INVARIANTS
  MessageInOnePlace
  NothingForgotten
VIEW View
CHECK_DEADLOCK FALSE
