SPECIFICATION Spec
CONSTANTS
  c1 = c1
  c2 = c2
  c3 = c3
  k1 = k1
  k2 = k2
  Customers = {c1, c2, c3}
  Tenants = {t1}
  Codes = {k1, k2}
  Prefix <- MCPrefix
  Data = {d1}
  Requests = {r1, r2}
  MaxLimit = 2
  DefaultLimit = 1
  MaxFaults = 1
  None = None
  Deleted = Deleted
  NoCode = NoCode
SYMMETRY Symmetry
INVARIANTS
  CodesExplained
  AnswersStand
  
CHECK_DEADLOCK FALSE
