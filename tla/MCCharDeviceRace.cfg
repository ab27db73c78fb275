\* Two tasks write at once.
CONSTANTS
  Users = {u1, u2}
  Bytes = {a}
  Zero = zero
  Outside = outside
  BUFFER_SIZE = 2
  MaxMessage = 2
  MaxCount = 2
SYMMETRY Symmetry
SPECIFICATION Spec
INVARIANTS
  WrittenMeansWritten
