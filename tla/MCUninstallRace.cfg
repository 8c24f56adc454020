CONSTANTS
  Point <- MCPoint
  Names <- MCNames
  Root <- MCRoot
  Readings <- SoundOnly
  Fstabs <- Described
  Spellings <- ExactSpelling
  Trees = {"machine"}
  MaxRuns = 2
  MaxEdits = 0
  MaxMounts = 1
SPECIFICATION Spec
PROPERTIES NeverFailsOpen
CHECK_DEADLOCK FALSE
