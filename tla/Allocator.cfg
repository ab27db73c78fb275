CONSTANTS
  TotalBlocks = 6
  BlockSize = 2
  Word = 16
  None = None
SPECIFICATION Spec
INVARIANTS
  TypeOK
  ExtentsDisjoint
  BitmapExact
  AreasAccounted
  StatsExact
  GrantHolds
PROPERTY
  IsFirstFit
CHECK_DEADLOCK FALSE
