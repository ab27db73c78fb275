\* Two tasks write at once.
CONSTANTS
  Writers = {w1, w2}
  Readers = {}
  Rmmod = rmmod
  Nodes = {n1, n2}
  Values = {v1}
  Elements = elements
  SizeWord = 8
  None = none
SPECIFICATION Spec
INVARIANT SizeCurrent
CHECK_DEADLOCK FALSE
