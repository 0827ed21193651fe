SPECIFICATION FairSpec
CONSTANTS
  t1 = t1
  t2 = t2
  q1 = q1
  Tab = {t1, t2}
  Req = {q1}
  NoTab = NoTab
  Gone = Gone
  MaxToken = 2
  MaxTrouble = 1
CHECK_DEADLOCK FALSE
INVARIANTS
  RotationIsNotReuse
  SessionKept
PROPERTIES
  RequestsSettle
