------------------------------ MODULE Sampling ------------------------------
(***************************************************************************)
(* emit_sample_instruction with build_sampled_image and build_vector       *)
(* (src/dxil_converter.cpp): one dx.op Sample* call lowered into an        *)
(* OpSampledImage, the coordinate and offset vectors, the sampling op and, *)
(* for comparison sampling, the splat of its scalar result to a vec4.      *)
(*                                                                         *)
(* The call's operands are named by position: an SSA operand k already     *)
(* has the id Opnd(k) in the value table, an offset operand is undef or an *)
(* integer constant.  Ids the handler allocates come from next_id.  An     *)
(* image-operands mask is the set of its bits.                             *)
(***************************************************************************)
EXTENDS Integers, Sequences, FiniteSets, SequencesExt, ImageTypes

CONSTANTS
  Kinds,        (* resource kinds of the sampled SRV.                     *)
  OffsetValues  (* integer constants an offset operand can hold.         *)

VARIABLES
  call,         (* the dx.op call and which operands are undef.      *)
  operations,   (* block->ir.operations appended by the handler.          *)
  capabilities, (* capabilities added to the module.                      *)
  next_id,      (* spirv_module.allocate_id().                            *)
  spc

vars == <<call, operations, capabilities, next_id, spc>>

Opcodes == {"Sample", "SampleBias", "SampleLevel", "SampleCmp", "SampleCmpLevelZero"}

Id(n)     == [k |-> "id", v |-> n]
Opnd(i)   == [k |-> "opnd", v |-> i]        (* id of HLIR operand i     *)
IntC(n)   == [k |-> "int", v |-> n]         (* builder.makeIntConstant  *)
FloatZero == [k |-> "float", v |-> 0]       (* makeFloatConstant(0.0f)  *)
Lit(m)    == [k |-> "lit", v |-> m]         (* image-operands literal   *)
NoId      == [k |-> "none", v |-> 0]        (* spv::Id 0                *)

(* get_id_for_value(instruction): the id of the call's own value.         *)
InstrId   == Opnd(0)
ImageHandle   == Id(-1)  (* handle_to_ptr_id[operand 1]: a loaded SRV.    *)
SamplerHandle == Id(-2)  (* handle_to_ptr_id[operand 2]: a loaded sampler.*)

(* DXIL operand layout after the offsets (7..9): operand 10 is the bias,  *)
(* LOD or comparison value; the MinLod clamp is 10 for Sample and 11 for  *)
(* SampleBias and SampleCmp.  Only the clamp may be undef.                *)
ClampIndex(op) == CASE op = "Sample" -> 10 [] op \in {"SampleBias", "SampleCmp"} -> 11
                    [] OTHER -> 0

IsUndef(c, i) ==
  \/ i - 6 \in c.undef_offsets
  \/ i = ClampIndex(c.opcode) /\ c.clamp_undef

(* The image type recorded in id_to_type for a loaded SRV of the kind.    *)
ImageType(kind) == SrvImageType([kind |-> kind, tag |-> 0, comp |-> "f32"])

IsComparison(op) == op \in {"SampleCmp", "SampleCmpLevelZero"}

(* The switch on spv::Dim; 0 stands for the default (early return).       *)
NumCoordsOf(dim) ==
  CASE dim \in {"1D", "Buffer"} -> 1 [] dim = "2D" -> 2 [] dim \in {"3D", "Cube"} -> 3
    [] OTHER -> 0

(* The Sample* calls HLSL produces: offsets only for the image's own      *)
(* coordinates and never for cube images.                                 *)
Calls ==
  { c \in [opcode: Opcodes, kind: Kinds, offsets: [1..3 -> OffsetValues],
           undef_offsets: SUBSET (1..3), clamp_undef: BOOLEAN] :
      /\ \A i \in c.undef_offsets : c.offsets[i] = 0
      /\ \A i \in 1..3 :
           \/ i > NumCoordsOf(ImageType(c.kind).dim)
           \/ ImageType(c.kind).dim = "Cube"
           => i \in c.undef_offsets
      /\ ClampIndex(c.opcode) = 0 => ~c.clamp_undef }

-----------------------------------------------------------------------------
(* build_sampled_image: an image type like the SRV's but Depth = the       *)
(* comparison flag and Sampled = 2, and an OpSampledImage of the handles.  *)
build_sampled_image(kind, comparison, id) ==
  [op |-> "OpSampledImage", id |-> Id(id),
   type |-> [base |-> "sampled_image",
             image |-> [ImageType(kind) EXCEPT !.depth = comparison, !.sampled_flag = 2]],
   args |-> <<ImageHandle, SamplerHandle>>]

(* build_vector: a single element is used as is, more are assembled by an  *)
(* OpCompositeConstruct with a fresh id.                                   *)
build_vector(elem_type, elems, id) ==
  IF Len(elems) = 1 THEN [ops |-> <<>>, result |-> elems[1]]
  ELSE [ops |-> <<[op |-> "OpCompositeConstruct", id |-> Id(id),
                   type |-> [vec |-> elem_type, n |-> Len(elems)], args |-> elems]>>,
        result |-> Id(id)]

(* Faulty variant: the MinLod clamp of SampleCmp read from operand 10.     *)
AuxArgumentIndexOffByOne(op) == 10

(* unsigned aux_argument_index = opcode == SampleCmp ? 11 : 10;            *)
AuxArgumentIndex(op) == IF op = "SampleCmp" THEN 11 ELSE 10

(* Faulty variant: no fresh id for the scalar comparison result.           *)
SampledValueIdNoSplatId(comparison, fresh) == InstrId

(* The id of the sampling op: fresh for comparison sampling, whose scalar   *)
(* result is splatted into the instruction's own id afterwards.            *)
SampledValueId(comparison, fresh) == IF comparison THEN fresh ELSE InstrId

(* Lod for SampleLevel / SampleCmpLevelZero, Bias for SampleBias.          *)
LodBiasMask(op) ==
  CASE op \in {"SampleLevel", "SampleCmpLevelZero"} -> {"Lod"}
    [] op = "SampleBias" -> {"Bias"}
    [] OTHER -> {}

(* Offsets: a defined offset sets ConstOffset and is used as is, an undef *)
(* one becomes makeIntConstant(0).                                        *)
OffsetIds(c, nc) ==
  [i \in 1..nc |-> IF IsUndef(c, i + 6) THEN IntC(0) ELSE IntC(c.offsets[i])]

ConstOffsetMask(c, nc) ==
  IF \E i \in 1..nc : ~IsUndef(c, i + 6) THEN {"ConstOffset"} ELSE {}

(* dref_id: operand 10, for SampleCmp only; 0 is not pushed.              *)
DrefArgs(op) == IF op = "SampleCmp" THEN <<Opnd(10)>> ELSE <<>>

(* MinLod when the clamp of Sample / SampleCmp is defined.                 *)
MinLodMask(c) ==
  IF c.opcode \in {"Sample", "SampleCmp"} /\ ~IsUndef(c, AuxArgumentIndex(c.opcode))
  THEN {"MinLod"} ELSE {}

AuxArgument(c) ==
  CASE c.opcode \in {"Sample", "SampleCmp"} ->
         IF MinLodMask(c) # {} THEN Opnd(AuxArgumentIndex(c.opcode)) ELSE NoId
    [] c.opcode # "SampleCmpLevelZero" -> Opnd(AuxArgumentIndex(c.opcode))
    [] OTHER -> FloatZero

SampleOpcode(op) ==
  CASE op = "SampleLevel" -> "OpImageSampleExplicitLod"
    [] op \in {"Sample", "SampleBias"} -> "OpImageSampleImplicitLod"
    [] op = "SampleCmp" -> "OpImageSampleDrefImplicitLod"
    [] op = "SampleCmpLevelZero" -> "OpImageSampleDrefExplicitLod"

F32     == [vec |-> "f32", n |-> 1]   (* the scalar float type *)
Vec4F32 == [vec |-> "f32", n |-> 4]

(* Faulty variant: the type of the whole ResRet struct, without            *)
(* getStructElementType(0).                                                *)
SampleResultTypeWholeStruct(comparison) ==
  [struct |-> <<"f32", "f32", "f32", "f32", "i32">>]

(* op.type_id: element 0 of the ResRet struct, widened to a vec4 unless    *)
(* the sampling is a comparison.                                           *)
SampleResultType(comparison) == IF comparison THEN F32 ELSE Vec4F32

Init ==
  /\ call \in Calls
  /\ operations = <<>>
  /\ capabilities = {}
  /\ next_id = 1
  /\ spc = "ready"

(***************************************************************************)
(* emit_sample_instruction, the whole handler: the sampled image first,    *)
(* then (unless the dimension is unknown) the coordinate vector, the       *)
(* offset vector when ConstOffset is set, the sampling op, and the splat.  *)
(***************************************************************************)
emit_sample_instruction ==
  /\ spc = "ready"
  /\ LET c          == call
         comparison == IsComparison(c.opcode)
         itype      == ImageType(c.kind)
         nc         == NumCoordsOf(itype.dim)
         ncf        == IF itype.arrayed THEN nc + 1 ELSE nc
         image_ops  == LodBiasMask(c.opcode) \cup ConstOffsetMask(c, nc) \cup MinLodMask(c)
         aux        == AuxArgument(c)
         value_id   == SampledValueId(comparison, Id(next_id + 1))
         coord_at   == IF comparison THEN next_id + 2 ELSE next_id + 1
         coord_vec  == build_vector("f32", [i \in 1..ncf |-> Opnd(i + 2)], coord_at)
         offset_at  == IF ncf > 1 THEN coord_at + 1 ELSE coord_at
         has_offset == "ConstOffset" \in image_ops
         offset_vec == build_vector("i32", OffsetIds(c, nc), offset_at)
         op == [op |-> SampleOpcode(c.opcode), id |-> value_id,
                type |-> SampleResultType(comparison),
                args |-> <<Id(next_id), coord_vec.result>> \o DrefArgs(c.opcode)
                         \o <<Lit(image_ops)>>
                         \o (IF image_ops \cap {"Bias", "Lod"} # {} THEN <<aux>> ELSE <<>>)
                         \o (IF has_offset THEN <<offset_vec.result>> ELSE <<>>)
                         \o (IF "MinLod" \in image_ops THEN <<aux>> ELSE <<>>)]
         splat == [op |-> "OpCompositeConstruct", id |-> InstrId, type |-> Vec4F32,
                   args |-> [i \in 1..4 |-> value_id]]
     IN  IF nc = 0
         THEN /\ operations' = <<build_sampled_image(c.kind, comparison, next_id)>>
              /\ next_id' = next_id + 1
              /\ UNCHANGED capabilities
         ELSE /\ operations' = <<build_sampled_image(c.kind, comparison, next_id)>>
                               \o coord_vec.ops
                               \o (IF has_offset THEN offset_vec.ops ELSE <<>>)
                               \o <<op>> \o (IF comparison THEN <<splat>> ELSE <<>>)
              /\ next_id' = offset_at + (IF has_offset /\ nc > 1 THEN 1 ELSE 0)
              /\ capabilities' = capabilities \cup MinLodMask(c)
  /\ spc' = "returned"
  /\ UNCHANGED call

Next == emit_sample_instruction

Spec == Init /\ [][Next]_vars /\ WF_vars(Next)

-----------------------------------------------------------------------------
SampledImageTypes == {[ImageType(k) EXCEPT !.depth = d, !.sampled_flag = 2] : k \in Kinds, d \in BOOLEAN}

SamplingTypeOK ==
  /\ call \in Calls
  /\ \A j \in 1..Len(operations) : operations[j].op \in
       {"OpSampledImage", "OpCompositeConstruct", "OpImageSampleImplicitLod",
        "OpImageSampleExplicitLod", "OpImageSampleDrefImplicitLod",
        "OpImageSampleDrefExplicitLod"}
  /\ \A j \in 1..Len(operations) :
       operations[j].type \in [vec: {"f32", "i32"}, n: 1..4]
                             \cup [base: {"sampled_image"}, image: SampledImageTypes]
  /\ capabilities \subseteq {"MinLod"}
  /\ next_id \in Nat
  /\ spc \in {"ready", "returned"}

(* Position of the sampling op in the emitted operations.                  *)
SamplePos ==
  CHOOSE j \in 1..Len(operations) : operations[j].op \in {SampleOpcode(o) : o \in Opcodes}

(* An argument built by build_vector resolves to its components.           *)
Components(a) ==
  IF \E j \in 1..Len(operations) : operations[j].id = a /\ operations[j].op = "OpCompositeConstruct"
  THEN operations[CHOOSE j \in 1..Len(operations) : operations[j].id = a].args
  ELSE <<a>>

(* Coordinates per resource kind (HLSL): the reference for the dim switch. *)
CoordCount(kind) ==
  CASE kind \in {"Texture1D", "TypedBuffer", "RawBuffer", "StructuredBuffer"} -> 1
    [] kind \in {"Texture1DArray", "Texture2D", "Texture2DMS"} -> 2
    [] kind \in {"Texture2DArray", "Texture2DMSArray", "Texture3D", "TextureCube"} -> 3
    [] kind = "TextureCubeArray" -> 4

Emitted == spc = "returned" /\ NumCoordsOf(ImageType(call.kind).dim) # 0

(***************************************************************************)
(* The sampling op of emit_sample_instruction is well formed against its   *)
(* image-operands mask (SPIR-V 3.14) and the DXIL operand layout: the      *)
(* coordinate vector holds exactly the image's coordinates, operands 3..,  *)
(* in order; Lod is set exactly for the explicit-LOD opcodes, Bias exactly *)
(* for SampleBias, MinLod exactly when the clamp of Sample / SampleCmp is  *)
(* defined, and then the MinLod capability is declared; after the mask     *)
(* come, in bit order, the LOD or bias (operand 10, or 0.0 for            *)
(* SampleCmpLevelZero), the offset vector, and the clamp operand.          *)
(***************************************************************************)
ImageOperandsMatchMask ==
  Emitted =>
  LET c    == call
      s    == operations[SamplePos]
      m    == CHOOSE j \in 1..Len(s.args) : s.args[j].k = "lit"
      mask == s.args[m].v
      nc   == NumCoordsOf(ImageType(c.kind).dim)
      clamp_defined == c.opcode \in {"Sample", "SampleCmp"} /\ ~c.clamp_undef
  IN  /\ Components(s.args[2]) = [i \in 1..CoordCount(c.kind) |-> Opnd(i + 2)]
      /\ ("Lod" \in mask) <=> c.opcode \in {"SampleLevel", "SampleCmpLevelZero"}
      /\ ("Bias" \in mask) <=> c.opcode = "SampleBias"
      /\ ("MinLod" \in mask) <=> clamp_defined
      /\ ("MinLod" \in capabilities) <=> clamp_defined
      /\ LET tail == SubSeq(s.args, m + 1, Len(s.args))
             lb   == IF mask \cap {"Lod", "Bias"} # {} THEN 1 ELSE 0
             off  == IF "ConstOffset" \in mask THEN 1 ELSE 0
         IN  /\ Len(tail) = lb + off + (IF "MinLod" \in mask THEN 1 ELSE 0)
             /\ lb = 1 => tail[1] = IF c.opcode = "SampleCmpLevelZero" THEN FloatZero
                                    ELSE Opnd(10)
             /\ off = 1 => Components(tail[lb + 1]) =
                  [i \in 1..nc |-> IntC(c.offsets[i])]
             /\ "MinLod" \in mask => tail[Len(tail)] = Opnd(ClampIndex(c.opcode))

(***************************************************************************)
(* The ids of emit_sample_instruction: every emitted op defines a distinct *)
(* id, every id an op uses other than the two handles is defined by an     *)
(* earlier op, the sampling op reads the OpSampledImage, whose image type   *)
(* is the SRV's with Depth = comparison and Sampled = 2, and the           *)
(* instruction's own id is a vec4 of float: for comparison sampling it is  *)
(* the OpCompositeConstruct splat of the scalar result of the sampling op. *)
(***************************************************************************)
SampleIdsWellDefined ==
  Emitted =>
  LET s  == operations[SamplePos]
      si == operations[1]
      ops == Len(operations)
      DefAt(x) == CHOOSE j \in 1..ops : operations[j].id = x
  IN  /\ \A j, k \in 1..ops : j # k => operations[j].id # operations[k].id
      /\ \A j \in 1..ops : \A a \in ToSet(operations[j].args) :
           a.k = "id" /\ a \notin {ImageHandle, SamplerHandle} =>
             \E d \in 1..j - 1 : operations[d].id = a
      /\ si.op = "OpSampledImage" /\ s.args[1] = si.id
      /\ si.type.image = [ImageType(call.kind) EXCEPT !.depth = IsComparison(call.opcode),
                                                      !.sampled_flag = 2]
      /\ \E j \in 1..ops : operations[j].id = InstrId
      /\ operations[DefAt(InstrId)].type = Vec4F32
      /\ IsComparison(call.opcode) =>
           /\ s.type = F32
           /\ operations[DefAt(InstrId)].args = [i \in 1..4 |-> s.id]

(***************************************************************************)
(* spec.md scenario 4 passes a comparison value as operand 10 of           *)
(* SampleCmpLevelZero, and OpImageSampleDref*Lod takes the Dref right      *)
(* after the coordinate: every comparison sampling op carries operand 10.  *)
(***************************************************************************)
DrefForComparison ==
  Emitted /\ IsComparison(call.opcode) =>
    LET s == operations[SamplePos] IN Len(s.args) >= 3 /\ s.args[3] = Opnd(10)
=============================================================================
