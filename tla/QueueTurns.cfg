SPECIFICATION Spec
CONSTANTS
  N = 3
  Tasks = {t1}
  NoAttempt = none
  MaxStarts = 2
  MaxNotices = 1
  Steers = {}
  Batches = {}
  Continuations = {1}
  Ops = {"submit", "reject", "fail", "idle", "repeat", "retry", "held", "unlock","quiet","project","occupancy"}
INVARIANTS
  TypeOK
  NoGhostRunning
  NothingForgotten
  WaitInOrder
  HeldHasHold
  HoldIsSpent
  WalkHolds
  ContinuationsLead
PROPERTIES
  StartsThroughGate
CHECK_DEADLOCK FALSE
