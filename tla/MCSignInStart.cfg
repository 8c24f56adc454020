SPECIFICATION FairSpec
CONSTANTS
  First = first
  ServiceFlows = {}
  CommandFlows = {}
  Files = {file1, file2}
  WaitBound = 1
  MaxRejections = 2
  MaxRotations = 1
  MaxMishaps = 2
  MaxRevoked = 3
  Nobody = Nobody
  NoCredential = NoCredential
  Unfit = Unfit
INVARIANTS HealthyIsSaved
PROPERTIES RemovedIsSaved StartsWhenStoreAnswers FileHeals
