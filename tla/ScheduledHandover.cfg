SPECIFICATION Spec
CONSTANTS
  Actions = {a1}
  Schedulers = {o1}
  Nobody = nobody
  MaxClaims = 1
INVARIANTS
  HandoverRecorded

CHECK_DEADLOCK FALSE
