SPECIFICATION LoadSpec
CONSTANTS
  user = user
  prod = prod
  cust1 = cust1
  cust2 = cust2
  shop = shop
  Rows = {user, prod, cust1, cust2, shop}
  LiveRows = {shop}
  Tables = 3
  Overwritten = {1, 2}
  TableOf <- MCTableOf
  Refs <- MCRefs
  Key <- MCKey
  Versions = {1, 2}
  MaxRuns = 3
  MaxLoadFaults = 2
  MaxLive = 3
  Live = Live
  Absent = Absent
INVARIANTS
  LiveKept
  
PROPERTIES
  RowsArrive
\* The instance stops when its loads and edits are used up.
CHECK_DEADLOCK FALSE
