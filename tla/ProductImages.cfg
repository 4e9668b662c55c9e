SPECIFICATION Spec
CONSTANTS
  Products = {p1, p2}
  Keys = {k1, k2, k3}
  Requests = {r1, r2, r3}
  MaxFaults = 1
  None = None
SYMMETRY Symmetry
INVARIANTS
  LiveImageStored
  OrphansExplained
\* The instance stops when its keys are used up.
CHECK_DEADLOCK FALSE
