\* Two CPUs update a segment under a walk of the table; no two processes use
\* one local address.
SPECIFICATION Spec
CONSTANTS
  Cpus = {c1, c2}
  p1 = p1
  p2 = p2
  l1 = l1
  l2 = l2
  a1 = a1
  Messages <- MCApart
  Customs <- MCNoCustom
  MaxUpdates = 3
SYMMETRY MCSymmetry
INVARIANTS
  SocksCover
  KindsAgree
  RowsBracketed
  TableCoversAll
  ProcessTable
