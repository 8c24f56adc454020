CONSTANTS
  Point <- MCPoint
  Names <- MCNames
  Root <- MCRoot
  Readings <- MCReadings
  Fstabs <- MCFstabs
  Spellings <- MCSpellings
  Trees = {"machine", "scratch"}
  MaxRuns = 2
  MaxEdits = 1
  MaxMounts = 2
SPECIFICATION Spec
INVARIANTS ExposureJudged ApprovedIsUnexposed FinishedIsComplete SecondRunQuiet RetryNeverCollides UninstalledIsGone
PROPERTIES HelperOutlivesMount
CHECK_DEADLOCK FALSE
