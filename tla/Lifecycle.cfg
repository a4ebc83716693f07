\* From start to end: a CPU whose ring overflows, lookups in a pool of one thread,
\* faults everywhere.
SPECIFICATION Spec
CONSTANTS
  k1 = k1
  Cpus = {k1}
  RingSize = 2
  BufferSize = 1
  MaxEvents <- MCEvents
  PoolSize = 1
  MaxLookups = 2
INVARIANTS
  TypeOK
  Accounted
  QuitRestores
PROPERTIES
  Exits
  Drained
  NameShown
