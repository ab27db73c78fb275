\* The attribute dequeue can be read by any number of tasks: here by two at once.
CONSTANTS
  Writers = {w}
  Readers = {r1, r2}
  Capacity = 2
  Word = 8
  Values = {v1}
  Garbage = garbage
  Full = full
  Empty = empty
  None = none
  ClearAlone = TRUE
SPECIFICATION Spec
INVARIANTS
  FullMeansFull
CHECK_DEADLOCK FALSE
