\* Every line of up to seven tokens; lines of up to three tokens about sockets.
SPECIFICATION Spec
CONSTANTS
  Base = 3
  Leaves <- MCLeaves
  KernelSocks <- MCKernelSocks
  None = None
  MaxTokens = 7
  MaxJudged = 3
INVARIANTS
  ParseExact
  ReadsLeftToRight
  AnswerTrue
