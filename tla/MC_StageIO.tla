------------------------------ MODULE MC_StageIO ------------------------------
(* A vertex or a pixel shader; up to two elements per signature, rows and *)
(* cols 1 or 2, one component type, two LoadInput/StoreOutput calls.       *)
EXTENDS StageIO

MC_ShaderModels == {"vs", "ps"}
MC_InSemantics == {"User", "Position"}
MC_OutSemantics == {"User", "Position", "Target", "Other"}
MC_ComponentTypes == {"F32"}
MC_Dims == 1..2
=============================================================================
