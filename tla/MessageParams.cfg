\* Two scripts, two entries and the Nul, strings that are one too long.
CONSTANTS
  Scripts = {s1, s2}
  Chars = {a, b}
  Refused = {x}
  None = none
  Nul = nul
  LEN_ARR = 3
  MAX_IDX = 1
  MaxLength = 3
SPECIFICATION Spec
INVARIANTS
  Terminated
  Spelled
