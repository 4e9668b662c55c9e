SPECIFICATION Spec
CONSTANTS
  x = x
  y = y
  lower = lower
  upper = upper
  c1 = c1
  Products = {p1, p2}
  Categories = {c1}
  Coupons = {k1}
  Tenants = {t1, t2}
  Letters = {x, y}
  Cases = {lower, upper}
  Prices = {1, 2}
  Inputs <- MCInputs
  Labels <- MCLabels
  Requests = {r1, r2}
  MaxRequests = 3
  MaxFaults = 1
  None = None
  Deleted = Deleted
SYMMETRY Symmetry
INVARIANTS
  TypeOK
  SkuUnique
  EditsKept
  LinksWhole
CHECK_DEADLOCK FALSE
