\* All the probes are attached; the free list of a CPU is empty.
SPECIFICATION Spec
CONSTANTS
  Threads = {t1, t2}
  Cpus = {k1, k2}
  Inet = {i1, i2}
  Other = {u1}
  t1 = t1
  t2 = t2
  k1 = k1
  k2 = k2
  Slots <- MCSlots
  FreeInit <- MCUneven
  Attached = 4
  NoSlot = NoSlot
  MaxCalls <- MCCalls
INVARIANTS
  EventTrue
CHECK_DEADLOCK FALSE
