SPECIFICATION FairSpec
CONSTANTS
  Instances = {p1, p2}
  None = none
  Calls = {c1}
  Ttl = 1
  Grace = 1
  Retain = 1
  MaxLapsed = 1
  Faults = {"crash", "lapse", "reboot", "skew", "pid"}
INVARIANTS
  TypeOK
  RunnersHoldLease
PROPERTIES
  LiveKeepsLease
  LeaseRecovered
CHECK_DEADLOCK FALSE
