\* Frames at any pace over windows of two units; three segments are kept, two
\* of which a rate is made of.
SPECIFICATION Spec
CONSTANTS
  p1 = p1
  p2 = p2
  s1 = s1
  s2 = s2
  c1 = c1
  Sockets = {s1, s2}
  Owner <- MCOwner
  Message <- MCMessage
  Customs <- MCCustoms
  NoFilter = NoFilter
  NoCustom = NoCustom
  Window = 2
  Capacity = 3
  CollectionWindow = 4
  RateWindow = 1
  MaxTime = 8
  MaxRecorded = 2
INVARIANTS
  PointsContiguous
  PointsFinal
PROPERTIES
  SparklineComplete
  TableCoversPoints
  RateCovers
