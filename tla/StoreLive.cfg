\* Progress under weak fairness, with the writer preference of Linux.
SPECIFICATION FairSpec
CONSTANTS
  Cpus = {c1, c2}
  Ui = Ui
  NoThread = NoThread
  Window = 2
  Capacity = 1
  WriterPreference = TRUE
  MaxTime = 2
  MaxBatches = 1
  MaxBatch = 1
PROPERTIES
  OpsComplete
  Rolls
