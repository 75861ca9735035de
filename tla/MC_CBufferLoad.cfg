CONSTANTS
  Indices <- MC_Indices
  SrvKinds <- MC_SrvKinds
  CbvSizes <- MC_CbvSizes
  ResultMembers <- MC_ResultMembers
  VecIndices <- MC_VecIndices
  MaxEntries = 2
  MaxUavs = 0
  HandleTypes = {"SRV", "CBV", "Sampler"}
  MaxHandles = 2
  MaxLoads = 2
  Garbage = Garbage
SPECIFICATION CBSpec
CHECK_DEADLOCK FALSE
INVARIANTS
  CBTypeOK
  IndexTablesFaithful
  HandlesResolve
  CbvArrayCoversSize
  CBufferLoadsWellFormed
