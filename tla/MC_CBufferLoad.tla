--------------------------- MODULE MC_CBufferLoad ---------------------------
(* Two range ids in either order, CB sizes on and off a 16-byte boundary, *)
(* up to two SRVs, CBVs and samplers, two CreateHandle calls and two       *)
(* cbufferLoadLegacy calls whose vec4 index is i32 0 or an SSA value.      *)
EXTENDS CBufferLoad

MC_Indices == 0..1
MC_SrvKinds == {"Texture2D"}
MC_CbvSizes == {16, 20}
MC_ResultMembers == {"f32", "i32"}
MC_VecIndices == {0}
=============================================================================
