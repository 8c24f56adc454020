SPECIFICATION FairSpec
CONSTANTS
  Workers = {w1, w2}
  Paths = {folder, doc}
  Folders = {folder}
  Contents <- MCContents
  MaxErrors = 1
  MaxJobs = 2
  MaxTouched = 1
  Free = Free
  folder = folder
  doc = doc
  a = a
  b = b
INVARIANTS EndsAsAsked StopsAfterCurrentFile CancelledWasAsked
PROPERTIES RecordFinal RecordSpec
