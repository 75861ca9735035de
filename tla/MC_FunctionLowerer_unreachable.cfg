CONSTANTS
  Blocks <- MC_Blocks
  Entry <- MC_Entry
  MaxSuccs <- MC_MaxSuccs
  OnlyReachable = FALSE
  ConstWidths = {32}
SPECIFICATION LSpec
CHECK_DEADLOCK FALSE
INVARIANT
  NoNullBlockMeta
