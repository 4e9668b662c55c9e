SPECIFICATION Spec
CONSTANTS
  Accounts = {a1, a2}
  Names = {n1, n2}
  Emails = {e1, e2}
  Passwords = {p1, p2}
  TooShort = TooShort
  Tokens = {k1, k2, k3}
  Requests = {r1, r2}
  MaxFaults = 1
  None = None
SYMMETRY Symmetry
INVARIANTS
  SingleUse
  SpentIsHonoured
  RegisteredCanVerify
PROPERTIES
  ImplementsPromise
\* The instance stops when its accounts and tokens are used up.
CHECK_DEADLOCK FALSE
