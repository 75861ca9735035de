CONSTANTS
  BinaryOps  <- MCBinaryOps
  CastOps    <- MCBoolCastOps
  Predicates <- MCPredicates
  MaxInstrs  = 3
SPECIFICATION Spec
INVARIANT ResultTypesAgree
CHECK_DEADLOCK FALSE
