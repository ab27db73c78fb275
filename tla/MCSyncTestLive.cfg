CONSTANTS
  Tasks = {t1, t2}
  MaxThreads = 2
  MaxIterations = 1
  None = None
SPECIFICATION FairSpec
PROPERTY
  RunReturns
