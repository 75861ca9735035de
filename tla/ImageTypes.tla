----------------------------- MODULE ImageTypes -----------------------------
(***************************************************************************)
(* The SPIR-V image type given to an SRV (emit_srvs) and the tables it is  *)
(* built from, src/dxil_converter.cpp.  A type is a record: the builder    *)
(* interns equal types to one id, so equal records stand for equal ids.    *)
(***************************************************************************)

(* image_dimension_from_resource_kind / _is_arrayed / _is_multisampled.   *)
image_dimension_from_resource_kind(k) ==
  CASE k \in {"Texture1D", "Texture1DArray"} -> "1D"
    [] k \in {"Texture2D", "Texture2DMS", "Texture2DArray", "Texture2DMSArray"} -> "2D"
    [] k = "Texture3D" -> "3D"
    [] k \in {"TextureCube", "TextureCubeArray"} -> "Cube"
    [] k \in {"TypedBuffer", "StructuredBuffer", "RawBuffer"} -> "Buffer"
    [] OTHER -> "Max"

image_dimension_is_arrayed(k) ==
  k \in {"Texture1DArray", "Texture2DArray", "Texture2DMSArray", "TextureCubeArray"}

image_dimension_is_multisampled(k) == k \in {"Texture2DMS", "Texture2DMSArray"}

(* The image type of an SRV: tag 0 takes the sampled component type from   *)
(* the tags node, structured/raw buffers use 32-bit uint; Depth = false,   *)
(* Sampled = 1, format unknown.                                            *)
SrvImageType(e) ==
  [base |-> "image",
   sampled |-> IF e.tag = 0 THEN e.comp ELSE "u32",
   dim |-> image_dimension_from_resource_kind(e.kind),
   depth |-> FALSE,
   arrayed |-> image_dimension_is_arrayed(e.kind),
   ms |-> image_dimension_is_multisampled(e.kind),
   sampled_flag |-> 1]

=============================================================================
