------------------------- MODULE MC_ResourceBinder -------------------------
(* Two range ids, two texture kinds, CB sizes on and off a 16-byte boundary,*)
(* up to two entries per list in any order, up to two CreateHandle calls.   *)
EXTENDS ResourceBinder

MC_Indices == 0..1
MC_SrvKinds == {"Texture2D", "Texture2DArray"}
MC_CbvSizes == {16, 20}
=============================================================================
