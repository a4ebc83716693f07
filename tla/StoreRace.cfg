\* Two CPUs and the UI race for windows of one clock unit; two segments are
\* kept, and a third one evicts the first.
SPECIFICATION Spec
CONSTANTS
  Cpus = {c1, c2}
  Ui = Ui
  NoThread = NoThread
  Window = 1
  Capacity = 2
  WriterPreference = FALSE
  MaxTime = 2
  MaxBatches = 1
  MaxBatch = 2
SYMMETRY MCSymmetry
INVARIANTS
  TypeOK
  GuardCurrent
  BatchWhole
  Contiguous
  StampOrder
  FrameCurrent
PROPERTIES
  OlderFrozen
  GuardStable
  ImplementsSeries
