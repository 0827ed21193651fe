SPECIFICATION OfficeSpec
CONSTANTS
  r1 = r1
  r2 = r2
  v1 = v1
  v2 = v2
  f1 = f1
  s1 = s1
  s2 = s2
  k1 = k1
  a1 = a1
  a2 = a2
  w1 = w1
  w2 = w2
  None = None
  Request = {r1, r2}
  MaxTrouble = 1
  Filing = {f1}
  Review = {v1, v2}
  Amount = {1}
  MaxReceived = 1
  MaxSettlements = 2
  MaxChanges = 2
  Rate = {1, 2}
  Sheet = {s1, s2}
  Key = {k1}
  MaxEvents = 1
  MaxPayouts = 2
  Application = {a1, a2}
  Owner = {w1, w2}
  OldestOwner = w1
CHECK_DEADLOCK FALSE
INVARIANTS
  HistoryOpensWithVerdict
  OncePerKey
PROPERTIES
  WithdrawnOnce
  RequestsEnd
  FiledDocumentStays
