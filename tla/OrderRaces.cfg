SPECIFICATION Spec
CONSTANTS
  o1 = o1
  o2 = o2
  t1 = t1
  t2 = t2
  Orders = {o1}
  Payments = {p1, p2}
  Requests = {r1, r2}
  Tenants = {t1, t2}
  Owner <- MCOwner
  MaxFaults = 1
  NoOrder = NoOrder
  NoPayment = NoPayment
  NoTenant = NoTenant
SYMMETRY Symmetry
INVARIANTS
  LifecycleProvenance
  AnsweredProofLeavesPending
  
  PaymentRowsWhole
  
PROPERTIES
  ImplementsLifecycle
\* Once every order id of the instance is used and deleted, nothing can happen.
CHECK_DEADLOCK FALSE
