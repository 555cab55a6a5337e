SPECIFICATION FairSpec
CONSTANTS
  N = 3
  Tasks = {t1, t2}
  NoAttempt = none
  MaxStarts = 2
  MaxNotices = 1
  Steers = {2, 3}
  Batches = {2, 3}
  Continuations = {}
  Ops = {"submit","fail","retry","steer","cancel","idle"}
INVARIANTS
  OneHandoff
  StartsAlone
  MessageInOnePlace
  CancelFindsMessage
PROPERTIES
  DeliversAsPromised
  EveryEntryServed
CHECK_DEADLOCK FALSE
