CONSTANTS
  Blocks <- MC_Blocks
  Entry <- MC_Entry
  MaxSuccs <- MC_MaxSuccs
  OnlyReachable = TRUE
  ConstWidths = {32}
SPECIFICATION LSpec
CHECK_DEADLOCK FALSE
INVARIANTS
  IdsConsistent
  ForwardRefsOnlyFromPhis
  TerminatorsMatchEdges
