CONSTANTS
  Tasks = {t1, t2}
  Users = {u1, u2}
  MaxThreads = 1
  MaxIterations = 1
  None = None
  Serialised = FALSE
SPECIFICATION ParamsSpec
SYMMETRY Symmetry
INVARIANTS
  ParamsTypeOK
  RunHasOwner
PROPERTY
  RunsAsSpecified
