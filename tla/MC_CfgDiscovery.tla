--------------------------- MODULE MC_CfgDiscovery ---------------------------
(* Four HLIR blocks, block 1 the entry, terminators with up to two          *)
(* successors: every CFG of that shape, loops, self loops, repeated targets *)
(* and unreachable blocks included.                                         *)
EXTENDS CfgDiscovery

MC_Blocks == 1..4
MC_Entry == 1
MC_MaxSuccs == 2
=============================================================================
