SPECIFICATION FairSpec
CONSTANTS
  Owners = {o1, o2}
  Calls = {c1, c2}
  Requests = {r1, s1}
  Steers = {s1}
  NoRow = none
  MaxPerCaller = 1
  MaxTotal = 1
  MaxCrashes = 1
INVARIANTS
  TypeOK
  AtMostOnce
  ReceiptsTellTruth
PROPERTIES
  ProofIsKept
  AnswersAsPromised
  ReceiptsSettle
CHECK_DEADLOCK FALSE
