CONSTANTS
  ShaderModels <- MC_ShaderModels
  InSemantics <- MC_InSemantics
  OutSemantics <- MC_OutSemantics
  ComponentTypes <- MC_ComponentTypes
  Dims <- MC_Dims
  MaxElements = 2
  MaxCalls = 2
SPECIFICATION Spec
CHECK_DEADLOCK FALSE
INVARIANTS
  StageIOTypeOK
  LocationsDisjoint
  AccessesWellFormed
