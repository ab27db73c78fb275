CONSTANTS
  Tasks = {t1, t2}
  Users = {u1, u2}
  MaxThreads = 1
  MaxIterations = 1
  None = None
  Serialised = TRUE
SPECIFICATION FairParamsSpec
INVARIANTS
  ResultIsZero
  DivisorTested
  NeverBusy
PROPERTY
  CallReturns
