CONSTANTS
  Tasks = {t1, t2, t3}
  MaxThreads = 2
  MaxIterations = 2
  None = None
SPECIFICATION Spec
SYMMETRY Symmetry
INVARIANTS
  TypeOK
  MutualExclusion
  ArgsOutliveWorkers
  BarrierExact
  CounterBalanced
  StatsAgree
  NoKthreadLeft
PROPERTY
  KeepsPromise
