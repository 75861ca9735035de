CONSTANTS
  Blocks <- MC_Blocks
  Entry <- MC_Entry
  MaxSuccs <- MC_MaxSuccs
SPECIFICATION DiscSpec
CHECK_DEADLOCK FALSE
INVARIANTS
  DiscTypeOK
  DiscoveryFaithful
PROPERTIES
  RefinesCfgReach
