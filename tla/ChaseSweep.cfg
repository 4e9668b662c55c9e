SPECIFICATION SweepSpec
CONSTANTS
  Orders = {o1, o2}
  Life = 5
  Window = 4
  Interval = 2
  MaxTime = 6
  MaxFailures = 1
INVARIANTS
  TimelyReminder
  
PROPERTIES
  SweepsServed
\* The instance stops at MaxTime with nothing left to do.
CHECK_DEADLOCK FALSE
