SPECIFICATION FairSpec
CONSTANTS
  Actions = {a1}
  Schedulers = {o1, o2}
  Nobody = nobody
  MaxClaims = 2
INVARIANTS
  TypeOK
  SentOnce
  EndedForGood
  ClaimBacked
  OneQueue
PROPERTIES
  SendsAsPromised
  DeadClaimsSettle
CHECK_DEADLOCK FALSE
