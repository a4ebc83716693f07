\* The probes are attached one by one while two threads make calls; probes
\* may fail; no CPU runs out of slots.
SPECIFICATION Spec
CONSTANTS
  Threads = {t1, t2}
  Cpus = {k1, k2}
  Inet = {i1, i2}
  Other = {u1}
  t1 = t1
  t2 = t2
  k1 = k1
  k2 = k2
  Slots <- MCSlots
  FreeInit <- MCRoomy
  Attached = 0
  NoSlot = NoSlot
  MaxCalls <- MCCalls
SYMMETRY Symmetry
INVARIANTS
  TypeOK
  CacheBalanced
  Reported
  InetTrue
CHECK_DEADLOCK FALSE
