------------------------ MODULE MC_InstructionHandlers ------------------------
EXTENDS InstructionHandlers

MCBinaryOps  == {"FMul", "URem"}
MCCastOps    == {"SIToFP", "FPToSI"}
MCPredicates == {"FCMP_OLT", "FCMP_TRUE"}
MCBoolCastOps == {"ZExt", "Trunc"}
====
