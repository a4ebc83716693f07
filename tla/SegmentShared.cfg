\* The table of a process when two processes use one local address.
SPECIFICATION Spec
CONSTANTS
  Cpus = {c1, c2}
  p1 = p1
  p2 = p2
  l1 = l1
  l2 = l2
  a1 = a1
  Messages <- MCShared
  Customs <- MCCustoms
  MaxUpdates = 2
INVARIANTS
  ProcessTable
