----------------------------- MODULE MC_Sampling -----------------------------
(* Sampling with every image kind HLSL can sample and offsets 0 and 1:    *)
(* zero and non-zero constant offsets, undef ones, and every opcode.      *)
EXTENDS Sampling

MC_Kinds == {"Texture1D", "Texture2D", "Texture2DArray", "Texture3D", "TextureCube",
             "TextureCubeArray"}
MC_OffsetValues == {0, 1}
=============================================================================
