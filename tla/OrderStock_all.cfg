SPECIFICATION SceneSpec
CONSTANTS
  c1 = c1
  c2 = c2
  s1 = s1
  s2 = s2
  k1 = k1
  k2 = k2
  Main = Main
  Nobody = Nobody
  NumOrders = 2
  Courier = {c1, c2}
  Stock = 2
  Counts = {2}
  MaxQty = 1
  Slots = {s1}
  Worker = {k1}
  MayCrash = FALSE
SYMMETRY StockSymmetry
INVARIANTS
  NeverOverpromised
  BlockedIsHeld
  OwnStock
PROPERTIES
  GoodsLeaveOnce
  AcceptKeepsFreeStock
