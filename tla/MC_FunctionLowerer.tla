------------------------- MODULE MC_FunctionLowerer -------------------------
(* Three HLIR blocks, block 1 the entry, terminators with up to two         *)
(* successors, every instruction list of the shape FunctionLowerer allows.  *)
EXTENDS FunctionLowerer

MC_Blocks == 1..3
MC_Entry == 1
MC_MaxSuccs == 2
=============================================================================
