SPECIFICATION Spec
CONSTANTS
  server = server
  seed1 = seed1
  seed2 = seed2
  Servers = {server}
  Seeders = {seed1, seed2}
  Known <- MCKnown
  Script <- MCScript
  QueueSize = 1
  MaxRequests <- MCMaxRequests
  MaxFaults = 1
  None = None
INVARIANTS
  NoGap
  SchemaComplete
  SeededOnce
  LogKept
PROPERTIES
  ComesUp
  
