SPECIFICATION Spec
CONSTANTS
  First = first
  ServiceFlows = {web1}
  CommandFlows = {}
  Files = {}
  WaitBound = 1
  MaxRejections = 2
  MaxRotations = 1
  MaxMishaps = 0
  MaxRevoked = 1
  Nobody = Nobody
  NoCredential = NoCredential
  Unfit = Unfit
PROPERTIES AskedKeepsSecret
