SPECIFICATION Spec
CONSTANTS
  o1 = o1
  o2 = o2
  c1 = c1
  c2 = c2
  Order = {o1, o2}
  Courier = {c1, c2}
  NoCourier = NoCourier
  PrepayOrders = {o2}
  MaxActive <- CapMany
  MaxInFlight = 3
CONSTRAINT Scenes
INVARIANTS
  CacheMatchesAssignment
  NoZombieOrder
  PostedOnce
  ReadsStandUntilCommit
