\* However the program ends.
SPECIFICATION Spec
CONSTANTS
  k1 = k1
  Cpus = {k1}
  RingSize = 2
  BufferSize = 1
  MaxEvents <- MCEvents
  PoolSize = 1
  MaxLookups = 0
INVARIANTS
  TerminalRestored
