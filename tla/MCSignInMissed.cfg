SPECIFICATION FairSpec
CONSTANTS
  First = first
  ServiceFlows = {web1}
  CommandFlows = {}
  Files = {}
  WaitBound = 1
  MaxRejections = 2
  MaxRotations = 0
  MaxMishaps = 0
  MaxRevoked = 1
  Nobody = Nobody
  NoCredential = NoCredential
  Unfit = Unfit
PROPERTIES StoredIsAdopted
