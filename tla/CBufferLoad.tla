---------------------------- MODULE CBufferLoad ----------------------------
(***************************************************************************)
(* emit_cbuffer_load_legacy_instruction (src/dxil_converter.cpp), composed *)
(* with the resource binding and CreateHandle calls it depends on: once    *)
(* the entry function's handles exist, each dx.op.cbufferLoadLegacy call   *)
(* names a CBV handle, a vec4 index and the struct type of its result      *)
(* (a dx.types.CBufRet struct), and appends an access chain into member 0 *)
(* of the constant buffer's block, an OpLoad of a float vec4 and, unless   *)
(* member 0 of the result struct is a float, an OpBitcast to a uint vec4.  *)
(*                                                                         *)
(* Ids come from ResourceBinder's next_id, shared with the value table.    *)
(* builder.makeUintConstant(n) interns its constant, so it yields the id   *)
(* get_id_for_constant gives an i32 n: the model looks it up there.        *)
(***************************************************************************)
EXTENDS ResourceBinder, ValueTable

CONSTANTS
  ResultMembers, (* element types of the CBufRet result structs.          *)
  VecIndices,    (* constant vec4 indices (operand 2).                    *)
  MaxLoads       (* cbufferLoadLegacy calls in the entry function.        *)

(* dx.types.CBufRet.f32/.i32 have 4 members, .f16/.i16 8, .f64/.i64 2.     *)
MemberCount == [f32 |-> 4, i32 |-> 4, f16 |-> 8, i16 |-> 8, f64 |-> 2, i64 |-> 2]
IntegerMembers == {"i32", "i16", "i64"}

ASSUME ResultMembers \subseteq DOMAIN MemberCount /\ MaxLoads \in Nat

VARIABLES
  value_map, module_ids,
  loads          (* history: each call and the operations it appended.    *)

cb_vars == <<value_map, module_ids, loads>>
vars == <<rb_vars, cb_vars>>

Vec4F32 == [base |-> "vector", comp |-> "f32", n |-> 4]
Vec4U32 == [base |-> "vector", comp |-> "u32", n |-> 4]

(* The operand 2 values: an i32 constant, or an SSA value of the block.    *)
IndexOperands == {IntConst(32, n) : n \in VecIndices} \cup {[kind |-> "ssa", n |-> 0]}
CallResult(k) == [kind |-> "call", n |-> k]

St == [vm |-> value_map, nid |-> next_id, mod |-> module_ids, last |-> 0]

(* builder.makeUintConstant(n), interned with the value table's i32 n.     *)
makeUintConstant(st, n) == get_id_for_value(st, IntConst(32, n), 32)

(* need_bitcast: member 0 of the result struct is not a float.             *)
NeedBitcast(member) == member # "f32"

(* Faulty variant: the OpLoad always takes the instruction's own id.       *)
LoadResultIdAlways(st, need_bitcast, k) == get_id_for_value(st, CallResult(k), 0)

(* op.id = need_bitcast ? allocate_id() : get_id_for_value(instruction)    *)
LoadResultId(st, need_bitcast, k) ==
  IF need_bitcast THEN [st EXCEPT !.nid = @ + 1, !.last = st.nid]
  ELSE get_id_for_value(st, CallResult(k), 0)

(***************************************************************************)
(* The handler for call k on handle h, vec4 index idx and result member    *)
(* type member, from state st: the operations it appends and the state.   *)
(***************************************************************************)
cbuffer_load_ops(st, h, idx, member, k) ==
  LET ptr_id == handle_to_ptr_id[h]
      s1     == get_id_for_value(st, idx, 0)                 (* vec4_index  *)
      chain  == s1.nid                                       (* allocate_id *)
      s2     == makeUintConstant([s1 EXCEPT !.nid = @ + 1], 0)
      s3     == LoadResultId(s2, NeedBitcast(member), k)
      s4     == get_id_for_value(s3, CallResult(k), 0)
      ops    == <<[op |-> "InBoundsAccessChain", id |-> chain, type |-> Vec4F32,
                   args |-> <<ptr_id, s2.last, s1.last>>],
                  [op |-> "Load", id |-> s3.last, type |-> Vec4F32, args |-> <<chain>>]>>
  IN  IF NeedBitcast(member)
      THEN [st |-> s4, ops |-> Append(ops, [op |-> "Bitcast", id |-> s4.last,
                                            type |-> Vec4U32, args |-> <<s3.last>>])]
      ELSE [st |-> s3, ops |-> ops]

(* assert(getStructNumElements() == 4), and before the bitcast            *)
(* assert(member 0 is an IntegerTyID): false where a debug build aborts.   *)
AssertsHold(member) ==
  /\ MemberCount[member] = 4
  /\ NeedBitcast(member) => member \in IntegerMembers

CBInit ==
  /\ RBInit
  /\ value_map = [x \in {} |-> 0]
  /\ module_ids = {}
  /\ loads = <<>>

(* A handle's id is taken by next_id: the value table's counter is the     *)
(* builder's.                                                              *)
RBStep == RBNext /\ UNCHANGED cb_vars

(* One dx.op.cbufferLoadLegacy call of emit_builtin_instruction.           *)
EmitCBufferLoadLegacy ==
  /\ rpc = "done"
  /\ Len(loads) < MaxLoads
  /\ \E h \in DOMAIN handles, idx \in IndexOperands, member \in ResultMembers :
       /\ handles[h].type = "CBV"
       /\ LET r == cbuffer_load_ops(St, h, idx, member, Len(loads) + 1)
          IN  /\ operations' = operations \o r.ops
              /\ value_map' = r.st.vm
              /\ next_id' = r.st.nid
              /\ module_ids' = r.st.mod
              /\ loads' = Append(loads, [handle |-> h, index |-> idx, member |-> member,
                                         ops |-> r.ops, asserts |-> AssertsHold(member)])
  /\ UNCHANGED <<srvs, uavs, cbvs, samplers, handles, srv_index_to_id, uav_index_to_id,
                 cbv_index_to_id, sampler_index_to_id, variables,
                 handle_to_ptr_id, id_to_type, rpc, pos>>

CBNext == RBStep \/ EmitCBufferLoadLegacy

(* One thread, no waiting: weak fairness.                                  *)
CBSpec == CBInit /\ [][CBNext]_vars /\ WF_vars(CBNext)
-----------------------------------------------------------------------------
CBTypeOK ==
  /\ RBTypeOK
  /\ value_map \in [DOMAIN value_map -> Nat]
  /\ module_ids \subseteq 1..next_id
  /\ \A k \in DOMAIN loads :
       /\ loads[k].member \in ResultMembers
       /\ \A o \in ToSet(loads[k].ops) : o.id \in Nat \ {0} /\ o.args \in Seq(Nat)

(***************************************************************************)
(* After the resources, handles and cbuffer loads of the entry function,  *)
(* the block's operations define pairwise distinct ids, and every          *)
(* cbufferLoadLegacy is a chain from the variable of its CBV handle,       *)
(* indexed by member 0 and the id of its vec4 index, a load of that chain, *)
(* and a bitcast of that load when there is one; the call's own id, which  *)
(* extractvalue reads later, names the last of them.                       *)
(***************************************************************************)
CBufferLoadsWellFormed ==
  /\ \A a, b \in DOMAIN operations : a # b => operations[a].id # operations[b].id
  /\ \A k \in DOMAIN loads :
       LET l   == loads[k]
           var == VarOf("CBV", CHOOSE p \in DOMAIN cbvs :
                                  cbvs[p].index = handles[l.handle].range)
       IN  /\ l.ops[1].args = <<var.id, value_map[IntConst(32, 0)], value_map[l.index]>>
           /\ \A j \in 2..Len(l.ops) : l.ops[j].args = <<l.ops[j - 1].id>>
           /\ value_map[CallResult(k)] = Last(l.ops).id
=============================================================================
