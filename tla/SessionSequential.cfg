SPECIFICATION Spec
CONSTANTS
  Pairs = {k1, k2, k3, k4}
  Logins = {l1, l2}
  Tabs = {t1}
  Calls = {c1}
  MaxFaults = 0
  NoLogin = NoLogin
  NoPair = NoPair
  NoTab = NoTab
PROPERTIES
  RequestsEnd
  
CHECK_DEADLOCK FALSE
