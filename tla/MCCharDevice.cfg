\* Two tasks use the device while it is loaded and removed; messages may be longer
\* than the buffer.
CONSTANTS
  Users = {u1, u2}
  Bytes = {a}
  Zero = zero
  Outside = outside
  BUFFER_SIZE = 2
  MaxMessage = 3
  MaxCount = 2
SYMMETRY Symmetry
SPECIFICATION Spec
INVARIANTS
  TypeOK
  LadderSound
  HoldsStored
  UndisturbedTrue
