SPECIFICATION PhoneSpec
CONSTANTS
  q1 = q1
  q2 = q2
  Req = {q1, q2}
  Me = Me
  MaxToken = 2
  MaxTrouble = 1
  t1 = t1
  t2 = t2
  Transfer = {t1, t2}
  Idle = Idle
  MaxCash = 2
  MaxFiles = 2
  MaxTries = 2
CHECK_DEADLOCK FALSE
INVARIANTS
  SessionKept
  
PROPERTIES
  QueuedIsServed
  DecidesOnce
