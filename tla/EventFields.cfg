\* Filters that look at the process and the local port of sockets that are not
\* used by a main thread.
SPECIFICATION Spec
CONSTANTS
  Base = 3
  Leaves <- MCFieldLeaves
  KernelSocks <- MCWorkerSocks
  None = None
  MaxTokens = 2
  MaxJudged = 2
INVARIANTS
  EventAsDocumented
