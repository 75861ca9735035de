------------------------- MODULE InstructionHandlers -------------------------
(***************************************************************************)
(* The per-opcode handlers of Converter::Impl (src/dxil_converter.cpp):    *)
(* emit_instruction dispatches each LLVM instruction of a block to one of  *)
(* emit_binary/unary/cast/compare/select/load/store/getelementptr/         *)
(* extract_value/alloca_instruction, or to emit_builtin_instruction for a  *)
(* dx.op call.  Each handler takes ids from the value table and appends at *)
(* most one Operation to the block; emit_alloca_instruction instead makes  *)
(* a Function variable and writes value_map itself.                        *)
(*                                                                         *)
(* The model lowers one block of straight-line code: each step picks the   *)
(* next instruction from every well-typed instruction over the values      *)
(* defined so far, a few constants, and Agg, the struct a dx.op call       *)
(* (CBufferLoadLegacy, Sample) returned before the block.  The opcode      *)
(* tables are the handlers' switch statements.                             *)
(***************************************************************************)
EXTENDS Naturals, Sequences, FiniteSets, SequencesExt, ValueTable, TypeTable

CONSTANTS
  BinaryOps,   (* llvm::BinaryOperator opcodes in the model.              *)
  CastOps,     (* llvm::CastInst opcodes in the model.                    *)
  Predicates,  (* llvm::CmpInst predicates in the model.                  *)
  MaxInstrs    (* instructions in the block.                              *)

(* emit_binary_instruction's switch (every LLVM binary opcode).            *)
BinaryOpcode ==
  [FAdd |-> "OpFAdd", FSub |-> "OpFSub", FMul |-> "OpFMul", FDiv |-> "OpFDiv",
   Add |-> "OpIAdd", Sub |-> "OpISub", Mul |-> "OpIMul", SDiv |-> "OpSDiv",
   UDiv |-> "OpUDiv", Shl |-> "OpShiftLeftLogical", LShr |-> "OpShiftRightLogical",
   AShr |-> "OpShiftRightArithmetic", SRem |-> "OpSRem", FRem |-> "OpFRem",
   URem |-> "OpUMod", Xor |-> "OpBitwiseXor", And |-> "OpBitwiseAnd", Or |-> "OpBitwiseOr"]

(* emit_cast_instruction's switch; any other cast returns early.           *)
CastOpcode ==
  [BitCast |-> "OpBitcast", SExt |-> "OpSConvert", Trunc |-> "OpUConvert",
   ZExt |-> "OpUConvert", FPTrunc |-> "OpFConvert", FPExt |-> "OpFConvert",
   FPToUI |-> "OpConvertFToU", FPToSI |-> "OpConvertFToS",
   SIToFP |-> "OpConvertSToF", UIToFP |-> "OpConvertUToF"]

(* emit_compare_instruction's switch, the predicates with a comparison op. *)
CompareTable ==
  [FCMP_OEQ |-> "OpFOrdEqual", FCMP_UEQ |-> "OpFUnordEqual",
   FCMP_OGT |-> "OpFOrdGreaterThan", FCMP_UGT |-> "OpFUnordGreaterThan",
   FCMP_OGE |-> "OpFOrdGreaterThanEqual", FCMP_UGE |-> "OpFUnordGreaterThanEqual",
   FCMP_OLT |-> "OpFOrdLessThan", FCMP_ULT |-> "OpFUnordLessThan",
   FCMP_OLE |-> "OpFOrdLessThanEqual", FCMP_ULE |-> "OpFUnordLessThanEqual",
   FCMP_ONE |-> "OpFOrdNotEqual", FCMP_UNE |-> "OpFUnordNotEqual",
   ICMP_EQ |-> "OpIEqual", ICMP_NE |-> "OpINotEqual",
   ICMP_SLT |-> "OpSLessThan", ICMP_SLE |-> "OpSLessThanEqual",
   ICMP_SGT |-> "OpSGreaterThan", ICMP_SGE |-> "OpSGreaterThanEqual",
   ICMP_ULT |-> "OpULessThan", ICMP_ULE |-> "OpULessThanEqual",
   ICMP_UGT |-> "OpUGreaterThan", ICMP_UGE |-> "OpUGreaterThanEqual"]

(* Faulty variant: FCMP_FALSE/FCMP_TRUE left to the default branch.        *)
CompareOpcodeNoConstPreds(p) ==
  CASE p \in {"FCMP_FALSE", "FCMP_TRUE"} -> "None"
    [] p \in DOMAIN CompareTable         -> CompareTable[p]
    [] OTHER                             -> "None"

(* The opcode emit_compare_instruction gives predicate p: FCMP_FALSE and    *)
(* FCMP_TRUE copy a bool constant; FCMP_ORD and FCMP_UNO fall to the       *)
(* default, which logs and still appends the Operation with no opcode.     *)
CompareOpcode(p) ==
  CASE p \in {"FCMP_FALSE", "FCMP_TRUE"} -> "OpCopyLogical"
    [] p \in DOMAIN CompareTable         -> CompareTable[p]
    [] OTHER                             -> "None"

ASSUME /\ BinaryOps \subseteq DOMAIN BinaryOpcode
       /\ CastOps \subseteq DOMAIN CastOpcode \cup {"PtrToInt"}
       /\ Predicates \subseteq DOMAIN CompareTable \cup {"FCMP_FALSE", "FCMP_TRUE", "FCMP_ORD", "FCMP_UNO"}
       /\ MaxInstrs \in Nat

VARIABLES
  value_map, next_id, module_ids,
  fvars,       (* Function variables emit_alloca created: id -> type.     *)
  bool_consts, (* makeBoolConstant's interned ids, by value.               *)
  operations,  (* the block's ir.operations.                              *)
  lowered      (* history: each instruction and the operations it added.  *)

vars == <<value_map, next_id, module_ids, fvars, bool_consts, operations, lowered>>

(* The values of the block: instruction k's result, Agg, and constants.    *)
Instr(k) == [kind |-> "instr", n |-> k]
Agg      == [kind |-> "agg"]
AggId    == 1

(* The LLVM types of the block: i1, i32, float, [4 x float], pointers to  *)
(* the last two, and the struct of the dx.op call.  The call's id names a  *)
(* float vec4 (the OpLoad of emit_cbuffer_load_legacy_instruction).        *)
I1     == LInt(1)
I32    == LInt(32)
F32    == LFloat
ArrF32 == LArr(F32, 4)
AggTy  == LStruct(<<F32, F32, F32, F32>>)
AggSpvType == TypeVector(TypeFloat(32), 4)
Pointees    == {F32, ArrF32}
FloatBinOps == {"FAdd", "FSub", "FMul", "FDiv", "FRem"}
BinTy(o)    == IF o \in FloatBinOps THEN F32 ELSE I32
(* Source and destination type of each cast over the model's types;        *)
(* PtrToInt is a cast the handler's switch does not know.                  *)
CastSig == [BitCast |-> <<I32, F32>>, SExt |-> <<I1, I32>>, ZExt |-> <<I1, I32>>,
            Trunc |-> <<I32, I1>>, FPToUI |-> <<F32, I32>>, FPToSI |-> <<F32, I32>>,
            SIToFP |-> <<I32, F32>>, UIToFP |-> <<I32, F32>>, PtrToInt |-> <<LPtr(F32), I32>>]
IcmpPreds == {"ICMP_EQ", "ICMP_NE", "ICMP_SLT", "ICMP_SLE", "ICMP_SGT",
              "ICMP_SGE", "ICMP_ULT", "ICMP_ULE", "ICMP_UGT", "ICMP_UGE"}
CmpTy(p)  == IF p \in IcmpPreds THEN I32 ELSE F32

TypeOf(v) ==
  CASE v.kind = "instr" -> lowered[v.n].ty
    [] v.kind = "agg"   -> AggTy
    [] v.kind = "undef" -> I32
    [] OTHER            -> IF v.ty = "float" THEN F32 ELSE LInt(v.width)

(* The operands an instruction may take: earlier results and constants.    *)
Pool(ty) ==
  {Instr(k) : k \in {k \in DOMAIN lowered : lowered[k].ty = ty}}
  \cup (CASE ty = I32 -> {IntConst(32, 0), Undef}
          [] ty = F32 -> {FloatConst(1)}
          [] OTHER    -> {})

Inst(cls, opc, ty, args, lits) == [cls |-> cls, opc |-> opc, ty |-> ty, args |-> args, lits |-> lits]
Op(op, id, type, args, lits)   == [op |-> op, id |-> id, type |-> type, args |-> args, lits |-> lits]

St == [vm |-> value_map, nid |-> next_id, mod |-> module_ids, last |-> 0]

(* get_id_for_value over a sequence of operands, in order.                 *)
RECURSIVE ids_for(_, _)
ids_for(st, vs) ==
  IF vs = <<>> THEN [st |-> st, ids |-> <<>>]
  ELSE LET s1 == get_id_for_value(st, Head(vs), 0)
           r  == ids_for(s1, Tail(vs))
       IN  [st |-> r.st, ids |-> <<s1.last>> \o r.ids]

(* The common shape: op.id = get_id_for_value(instruction), op.type_id =  *)
(* get_type_id of the instruction's type ty, then the operands' ids; the  *)
(* Operation is appended unless opcode is "return".                       *)
Emit(k, opcode, ty, operands, lits) ==
  LET s1 == get_id_for_value(St, Instr(k), 0)
      r  == ids_for(s1, operands)
  IN  [st |-> r.st, fv |-> fvars, bools |-> bool_consts,
       ops |-> IF opcode = "return" THEN <<>>
               ELSE <<Op(opcode, s1.last, get_type_id(ty), r.ids, lits)>>]

(* Commit a handler's result r for instruction inst.                       *)
Apply(inst, r) ==
  /\ value_map' = r.st.vm
  /\ next_id' = r.st.nid
  /\ module_ids' = r.st.mod
  /\ fvars' = r.fv
  /\ bool_consts' = r.bools
  /\ operations' = operations \o r.ops
  /\ lowered' = Append(lowered, inst @@ [ops |-> r.ops])

Init ==
  /\ value_map = (Agg :> AggId)
  /\ next_id = AggId + 1
  /\ module_ids = {}
  /\ fvars = [x \in {} |-> NoType]
  /\ bool_consts = [b \in {} |-> 0]
  /\ operations = <<>>
  /\ lowered = <<>>

Room == Len(lowered) < MaxInstrs
K    == Len(lowered) + 1
(***************************************************************************)
(* The handlers.  Each returns [st, fv, bools, ops]: the value table, the  *)
(* Function variables, the bool constants and the Operations appended.     *)
(***************************************************************************)
emit_binary_instruction(k, o, ty, a, b) == Emit(k, BinaryOpcode[o], ty, <<a, b>>, <<>>)

emit_unary_instruction(k, ty, a) == Emit(k, "OpFNegate", ty, <<a>>, <<>>)

(* The default of the switch returns after both ids were taken.            *)
emit_cast_instruction(k, o, ty, a) ==
  Emit(k, IF o \in DOMAIN CastOpcode THEN CastOpcode[o] ELSE "return", ty, <<a>>, <<>>)

(* builder.makeBoolConstant(b): an interned module-scope constant.         *)
makeBoolConstant(r, b) ==
  IF b \in DOMAIN r.bools THEN [r EXCEPT !.st.last = r.bools[b]]
  ELSE [r EXCEPT !.st.nid = @ + 1, !.st.mod = @ \cup {r.st.nid}, !.st.last = r.st.nid,
                 !.bools = (b :> r.st.nid) @@ @]

(* Both operand ids are taken before the switch; FCMP_FALSE and FCMP_TRUE  *)
(* then replace the arguments by the bool constant.                        *)
emit_compare_instruction(k, p, ty, a, b) ==
  LET r == Emit(k, CompareOpcode(p), ty, <<a, b>>, <<>>)
  IN  IF p \notin {"FCMP_FALSE", "FCMP_TRUE"} THEN r
      ELSE LET c == makeBoolConstant(r, p = "FCMP_TRUE")
           IN  [c EXCEPT !.ops[1].args = <<c.st.last>>]

emit_select_instruction(k, ty, c, a, b) == Emit(k, "OpSelect", ty, <<c, a, b>>, <<>>)

emit_load_instruction(k, ty, ptr) == Emit(k, "OpLoad", ty, <<ptr>>, <<>>)

(* Faulty variant: the arguments in LLVM operand order.                    *)
emit_store_instruction_swapped(k, val, ptr) ==
  LET r == ids_for(St, <<val, ptr>>)
  IN  [st |-> r.st, fv |-> fvars, bools |-> bool_consts, ops |-> <<Op("OpStore", 0, NoType, r.ids, <<>>)>>]

(* OpStore takes the pointer (operand 1), then the value (operand 0).      *)
emit_store_instruction(k, val, ptr) ==
  LET r == ids_for(St, <<ptr, val>>)
  IN  [st |-> r.st, fv |-> fvars, bools |-> bool_consts, ops |-> <<Op("OpStore", 0, NoType, r.ids, <<>>)>>]

(* Faulty variant: operand 1 (the constant 0) is kept as an index.         *)
emit_getelementptr_instruction_all(k, inbounds, ty, operands) ==
  Emit(k, IF inbounds THEN "OpInBoundsAccessChain" ELSE "OpAccessChain", ty, operands, <<>>)

(* Every operand but operand 1, asserted to be the constant 0, in order.   *)
emit_getelementptr_instruction(k, inbounds, ty, operands) ==
  Emit(k, IF inbounds THEN "OpInBoundsAccessChain" ELSE "OpAccessChain", ty,
       <<operands[1]>> \o SubSeq(operands, 3, Len(operands)), <<>>)

(* The aggregate's id, then the indices as literals.                       *)
emit_extract_value_instruction(k, ty, agg, idx) == Emit(k, "OpCompositeExtract", ty, <<agg>>, <<idx>>)

(* Faulty variant: the variable is made but value_map is not written.      *)
emit_alloca_instruction_unmapped(k, pointee) ==
  [st |-> [St EXCEPT !.nid = @ + 1, !.last = next_id],
   fv |-> (next_id :> TypePointer("Function", get_type_id(pointee))) @@ fvars,
   bools |-> bool_consts, ops |-> <<>>]

(* createVariable(Function, get_type_id(pointee)) takes the next id, a     *)
(* pointer to the pointee; value_map[&instruction] is assigned,            *)
(* overwriting any id an earlier lookup cached.                            *)
emit_alloca_instruction(k, pointee) ==
  [st |-> [St EXCEPT !.vm = (Instr(k) :> next_id) @@ @, !.nid = @ + 1, !.last = next_id],
   fv |-> (next_id :> TypePointer("Function", get_type_id(pointee))) @@ fvars,
   bools |-> bool_consts, ops |-> <<>>]

(* A call that is not dx.op, or a dx.op that emit_builtin_instruction's    *)
(* switch does not list: nothing is emitted.                               *)
emit_call_unhandled == [st |-> St, fv |-> fvars, bools |-> bool_consts, ops |-> <<>>]

(***************************************************************************)
(* emit_instruction: one action per dispatch branch, over every well-typed *)
(* instruction of that class.                                              *)
(***************************************************************************)
EmitBinary ==
  /\ Room
  /\ \E o \in BinaryOps : \E a, b \in Pool(BinTy(o)) :
       Apply(Inst("binary", o, BinTy(o), <<a, b>>, <<>>), emit_binary_instruction(K, o, BinTy(o), a, b))

EmitUnary ==
  /\ Room
  /\ \E a \in Pool(F32) :
       Apply(Inst("unary", "FNeg", F32, <<a>>, <<>>), emit_unary_instruction(K, F32, a))

EmitCast ==
  /\ Room
  /\ \E o \in CastOps : \E a \in Pool(CastSig[o][1]) :
       Apply(Inst("cast", o, CastSig[o][2], <<a>>, <<>>), emit_cast_instruction(K, o, CastSig[o][2], a))

EmitCompare ==
  /\ Room
  /\ \E p \in Predicates : \E a, b \in Pool(CmpTy(p)) :
       Apply(Inst("compare", p, I1, <<a, b>>, <<>>), emit_compare_instruction(K, p, I1, a, b))

EmitSelect ==
  /\ Room
  /\ \E c \in Pool(I1), ty \in {I32, F32} : \E a, b \in Pool(ty) :
       Apply(Inst("select", "", ty, <<c, a, b>>, <<>>), emit_select_instruction(K, ty, c, a, b))

EmitLoad ==
  /\ Room
  /\ \E ptr \in Pool(LPtr(F32)) :
       Apply(Inst("load", "", F32, <<ptr>>, <<>>), emit_load_instruction(K, F32, ptr))

EmitStore ==
  /\ Room
  /\ \E val \in Pool(F32), ptr \in Pool(LPtr(F32)) :
       Apply(Inst("store", "", LVoid, <<val, ptr>>, <<>>), emit_store_instruction(K, val, ptr))

EmitGetElementPtr ==
  /\ Room
  /\ \E inbounds \in BOOLEAN, base \in Pool(LPtr(ArrF32)), idx \in Pool(I32) :
       LET operands == <<base, IntConst(32, 0), idx>>
       IN  Apply(Inst("gep", IF inbounds THEN "inbounds" ELSE "", LPtr(F32), operands, <<>>),
                 emit_getelementptr_instruction(K, inbounds, LPtr(F32), operands))

EmitExtractValue ==
  /\ Room
  /\ \E idx \in {0, 1} :
       Apply(Inst("extract", "", F32, <<Agg>>, <<idx>>), emit_extract_value_instruction(K, F32, Agg, idx))

EmitAlloca ==
  /\ Room
  /\ \E pointee \in Pointees :
       Apply(Inst("alloca", "", LPtr(pointee), <<>>, <<>>), emit_alloca_instruction(K, pointee))

EmitCall ==
  /\ Room
  /\ \E callee \in {"dx.op", "other"} :
       Apply(Inst("call", callee, LVoid, <<>>, <<>>), emit_call_unhandled)

Next ==
  \/ EmitBinary \/ EmitUnary \/ EmitCast \/ EmitCompare \/ EmitSelect \/ EmitLoad
  \/ EmitStore \/ EmitGetElementPtr \/ EmitExtractValue \/ EmitAlloca \/ EmitCall

(* One thread lowers the block to its end: weak fairness.                  *)
Spec == Init /\ [][Next]_vars /\ WF_vars(Next)
-----------------------------------------------------------------------------
LlvmTypes == {I1, I32, F32, LPtr(F32), LPtr(ArrF32), LVoid}
SpirvOps  == Range(BinaryOpcode) \cup Range(CastOpcode) \cup Range(CompareTable)
             \cup {"OpCopyLogical", "OpFNegate", "OpSelect", "OpLoad", "OpStore",
                   "OpAccessChain", "OpInBoundsAccessChain", "OpCompositeExtract"}

(* Every appended Operation carries a SPIR-V opcode; the table lookups of  *)
(* the handlers leave none without one.                                    *)
HTypeOK ==
  /\ value_map \in [DOMAIN value_map -> Nat]
  /\ module_ids \cup DOMAIN fvars \subseteq 1..next_id
  /\ \A i \in DOMAIN operations :
       /\ operations[i].op \in SpirvOps
       /\ operations[i].args \in Seq(Nat)
  /\ \A k \in DOMAIN lowered : lowered[k].ty \in LlvmTypes

(* The ids an Operation may use before it: module-scope constants and      *)
(* undefs, Function variables, the struct, and earlier results.            *)
DefinedBefore(i) ==
  module_ids \cup DOMAIN fvars \cup {AggId} \cup {operations[h].id : h \in 1..(i - 1)}

(***************************************************************************)
(* After any sequence of instructions, every id an Operation reads is      *)
(* defined before it (SPIR-V dominance within the block), result ids are   *)
(* fresh, and value_map names, for each instruction that emitted an        *)
(* Operation with a result, that Operation's id.  Broken when a handler    *)
(* takes an id for its result but does not emit it or map it (an alloca   *)
(* that forgets value_map, a cast the switch does not know).               *)
(***************************************************************************)
IdsDefinedBeforeUse ==
  /\ \A i \in DOMAIN operations :
       /\ Range(operations[i].args) \subseteq DefinedBefore(i)
       /\ operations[i].id # 0 =>
            operations[i].id \notin DefinedBefore(i) \cup {operations[h].id : h \in (i + 1)..Len(operations)}
  /\ \A k \in DOMAIN lowered :
       lowered[k].ops # <<>> /\ lowered[k].ops[1].id # 0 => value_map[Instr(k)] = lowered[k].ops[1].id

(* The SPIR-V type the module gives id x: the type_id of the Operation     *)
(* defining it, a variable's pointer type, a bool constant, the dx.op      *)
(* call's vec4, or get_type_id of a constant's or undef's LLVM type.       *)
SpvTypeOf(x) ==
  LET defs == {i \in DOMAIN operations : operations[i].id = x}
      vals == {v \in DOMAIN value_map : value_map[v] = x}
  IN  CASE x = 0                  -> NoType
        [] defs # {}              -> operations[CHOOSE i \in defs : TRUE].type
        [] x \in DOMAIN fvars     -> fvars[x]
        [] x \in Range(bool_consts) -> TypeBool
        [] x = AggId              -> AggSpvType
        [] vals # {}              -> get_type_id(TypeOf(CHOOSE v \in vals : TRUE))
        [] OTHER                  -> NoType

(* Operand and result type kinds of the conversion opcodes (SPIR-V 3.42.11). *)
Numeric   == {"TypeInt", "TypeFloat"}
ConvKinds ==
  [OpUConvert |-> <<{"TypeInt"}, {"TypeInt"}>>, OpSConvert |-> <<{"TypeInt"}, {"TypeInt"}>>,
   OpFConvert |-> <<{"TypeFloat"}, {"TypeFloat"}>>,
   OpConvertFToU |-> <<{"TypeFloat"}, {"TypeInt"}>>, OpConvertFToS |-> <<{"TypeFloat"}, {"TypeInt"}>>,
   OpConvertSToF |-> <<{"TypeInt"}, {"TypeFloat"}>>, OpConvertUToF |-> <<{"TypeInt"}, {"TypeFloat"}>>,
   OpBitcast |-> <<Numeric, Numeric>>]

(***************************************************************************)
(* Every Operation's arguments have the types SPIR-V requires in their     *)
(* positions: OpStore's pointer first and a value of its pointee type, an  *)
(* access chain's array pointer and one integer index per level it         *)
(* descends, a select's or copy's condition a bool, both sides of a binary *)
(* op or comparison alike.  Ties the operand order each handler uses to    *)
(* the types of what the ids stand for.                                    *)
(***************************************************************************)
OperandTypesAgree ==
  \A i \in DOMAIN operations :
    LET o    == operations[i]
        a    == o.args
        T(j) == SpvTypeOf(a[j])
    IN  CASE o.op = "OpStore" -> Len(a) = 2 /\ T(1).op = "TypePointer" /\ T(1).elem = T(2)
          [] o.op = "OpLoad"  -> Len(a) = 1 /\ T(1).op = "TypePointer"
          [] o.op \in {"OpAccessChain", "OpInBoundsAccessChain"} ->
               /\ Len(a) = 2 /\ T(1).op = "TypePointer" /\ T(1).elem.op = "TypeArray"
               /\ T(2).op = "TypeInt"
          [] o.op = "OpSelect"      -> Len(a) = 3 /\ T(1) = TypeBool /\ T(2) = T(3)
          [] o.op = "OpCopyLogical" -> Len(a) = 1 /\ T(1) = TypeBool
          [] o.op = "OpCompositeExtract" -> Len(a) = 1 /\ T(1).op = "TypeVector"
          [] o.op \in Range(CompareTable) \cup Range(BinaryOpcode) -> Len(a) = 2 /\ T(1) = T(2)
          [] OTHER -> Len(a) = 1

(***************************************************************************)
(* Every Operation's result type, the get_type_id of its instruction's     *)
(* LLVM type, is the one SPIR-V requires given its operands: a load's the  *)
(* pointee, an access chain's a pointer of the base's storage class to the *)
(* element, a comparison's or copy's a bool, a select's or arithmetic op's *)
(* the operands' type, an extract's the component; a conversion goes       *)
(* between the kinds of types its opcode converts.                         *)
(***************************************************************************)
ResultTypesAgree ==
  \A i \in DOMAIN operations :
    LET o    == operations[i]
        T(j) == SpvTypeOf(o.args[j])
    IN  o.op # "OpStore" =>
          /\ o.type # NoType
          /\ CASE o.op = "OpLoad" -> T(1).op = "TypePointer" /\ o.type = T(1).elem
               [] o.op \in {"OpAccessChain", "OpInBoundsAccessChain"} ->
                    /\ T(1).op = "TypePointer" /\ T(1).elem.op = "TypeArray"
                    /\ o.type = TypePointer(T(1).sc, T(1).elem.elem)
               [] o.op \in Range(CompareTable) \cup {"OpCopyLogical"} -> o.type = TypeBool
               [] o.op = "OpCompositeExtract" -> T(1).op = "TypeVector" /\ o.type = T(1).comp
               [] o.op = "OpSelect" -> o.type = T(2)
               [] o.op \in Range(BinaryOpcode) \cup {"OpFNegate"} ->
                    o.type = T(1) /\ o.type.op \in Numeric
               [] o.op \in DOMAIN ConvKinds ->
                    T(1).op \in ConvKinds[o.op][1] /\ o.type.op \in ConvKinds[o.op][2]
               [] OTHER -> FALSE
====
