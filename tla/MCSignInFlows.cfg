SPECIFICATION FairSpec
CONSTANTS
  First = first
  ServiceFlows = {web1, web2}
  CommandFlows = {cmd}
  Files = {}
  WaitBound = 0
  MaxRejections = 1
  MaxRotations = 0
  MaxMishaps = 1
  MaxRevoked = 0
  Nobody = Nobody
  NoCredential = NoCredential
  Unfit = Unfit
INVARIANTS OneFlow PollTruthful
PROPERTIES FlowEnds
