SPECIFICATION Spec
CONSTANTS
  o1 = o1
  o2 = o2
  t1 = t1
  t2 = t2
  Orders = {o1}
  Payments = {p1, p2}
  Requests = {r1, r2}
  Tenants = {t1}
  Owner <- MCOwner
  MaxFaults = 0
  NoOrder = NoOrder
  NoPayment = NoPayment
  NoTenant = NoTenant
PROPERTIES
  SellerFollowsTable
CHECK_DEADLOCK FALSE
