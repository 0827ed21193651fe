SPECIFICATION Spec
CONSTANTS
  o1 = o1
  o2 = o2
  c1 = c1
  c2 = c2
  p1 = p1
  p2 = p2
  d1 = d1
  d2 = d2
  Nobody = Nobody
  Order = {o1}
  Courier = {c1}
  Due <- DueTwo
  Phone = {p1, p2}
  Desk = {d1, d2}
  Office = {"manual", "update", "edit", "delete", "reopen"}
  Amount = {1}
  MaxHandovers = 2
SYMMETRY HandoverSymmetry
INVARIANTS
  OneLiveHandover
  DebtIsBalance
