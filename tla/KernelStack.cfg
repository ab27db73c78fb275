\* One task writes, another reads the size; the module is loaded and removed.
CONSTANTS
  Writers = {w}
  Readers = {r}
  Rmmod = rmmod
  Nodes = {n1, n2, n3}
  Values = {v1, v2}
  Elements = elements
  SizeWord = 8
  None = none
SPECIFICATION FairSpec
INVARIANTS
  TypeOK
  ListSound
  SizeTracks
  NothingLeaked
  NoStaleNode
PROPERTIES
  IsLifo
  RemovalEnds
\* A module whose init failed is not loaded again.
CHECK_DEADLOCK FALSE
