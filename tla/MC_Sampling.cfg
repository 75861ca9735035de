CONSTANTS
  Kinds <- MC_Kinds
  OffsetValues <- MC_OffsetValues
SPECIFICATION Spec
CHECK_DEADLOCK FALSE
INVARIANTS
  SamplingTypeOK
  ImageOperandsMatchMask
  SampleIdsWellDefined
