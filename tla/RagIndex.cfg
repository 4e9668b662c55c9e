SPECIFICATION Spec
CONSTANTS
  prod = prod
  cust = cust
  t1 = t1
  t2 = t2
  short = short
  long = long
  Docs = {prod, cust}
  Tenants = {t1, t2}
  TenantOf <- MCTenantOf
  TypeOf <- MCTypeOf
  Types <- MCTypes
  Texts = {short, long}
  Words <- MCWords
  MaxWords = 3
  Overlap = 1
  MaxEdits = 2
  MaxManual = 1
  MaxFaults = 1
  None = None
INVARIANTS
  TypeOK
  
PROPERTIES
  
  Fresh
