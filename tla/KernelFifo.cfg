\* One task enqueues, another dequeues, as kfifo asks; both ask and clear.
CONSTANTS
  Writers = {w}
  Readers = {r}
  Capacity = 2
  Word = 8
  Values = {v1, v2}
  Garbage = garbage
  Full = full
  Empty = empty
  None = none
  ClearAlone = TRUE
SPECIFICATION Spec
INVARIANTS
  TypeOK
  FifoThere
  SeenHolds
PROPERTIES
  IsFifo
\* A module whose init failed is not loaded again.
CHECK_DEADLOCK FALSE
