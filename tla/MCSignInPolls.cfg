SPECIFICATION FairSpec
CONSTANTS
  First = first
  ServiceFlows = {web1}
  CommandFlows = {}
  Files = {}
  WaitBound = 0
  MaxRejections = 1
  MaxRotations = 0
  MaxMishaps = 1
  MaxRevoked = 1
  Nobody = Nobody
  NoCredential = NoCredential
  Unfit = Unfit
PROPERTIES PollsWhileActive
