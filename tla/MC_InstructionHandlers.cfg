CONSTANTS
  BinaryOps  <- MCBinaryOps
  CastOps    <- MCCastOps
  Predicates <- MCPredicates
  MaxInstrs  = 4
SPECIFICATION Spec
INVARIANTS HTypeOK IdsDefinedBeforeUse OperandTypesAgree ResultTypesAgree
CHECK_DEADLOCK FALSE
