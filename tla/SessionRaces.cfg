SPECIFICATION Spec
CONSTANTS
  Pairs = {k1, k2, k3, k4}
  Logins = {l1, l2}
  Tabs = {t1, t2}
  Calls = {c1, c2}
  MaxFaults = 1
  NoLogin = NoLogin
  NoPair = NoPair
  NoTab = NoTab
SYMMETRY Symmetry
INVARIANTS
  OneChain
  LogoutIsFinal
  RefusedIsDead
\* The instance stops when its token pairs are used up.
CHECK_DEADLOCK FALSE
