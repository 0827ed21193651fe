SPECIFICATION Spec
CONSTANTS
  o1 = o1
  o2 = o2
  c1 = c1
  c2 = c2
  Order = {o1}
  Courier = {c1}
  NoCourier = NoCourier
  PrepayOrders = {o1}
  MaxActive <- CapMany
  MaxInFlight = 1
INVARIANT NoZombiePrepaidOrder
