CONSTANTS
  Indices <- MC_Indices
  SrvKinds <- MC_SrvKinds
  CbvSizes <- MC_CbvSizes
  MaxEntries = 2
  MaxUavs = 1
  HandleTypes = {"SRV", "UAV", "CBV", "Sampler"}
  MaxHandles = 1
  Garbage = Garbage
SPECIFICATION RBSpec
CHECK_DEADLOCK FALSE
INVARIANT
  NoOutOfBoundsHandleRead
