--------------------------- MODULE ResourceBinder ---------------------------
(***************************************************************************)
(* Resource binding (emit_resources, emit_srvs, emit_uavs, emit_cbvs,      *)
(* emit_samplers) and the handle creation that consumes its index tables   *)
(* (emit_create_handle_instruction), src/dxil_converter.cpp.               *)
(*                                                                         *)
(* Each metadata entry becomes one module-scope variable whose id comes    *)
(* from the builder's monotonic allocator; the per-kind table *_index_to_id *)
(* is grown to index + 1 and slot index set to that id.  A CreateHandle    *)
(* call later reads slot `range` of the table of its resource type.  Names,*)
(* descriptor set and binding are copied into decorations unchanged and    *)
(* are left out; types are descriptors (the builder interns them).         *)
(***************************************************************************)
EXTENDS Naturals, Sequences, FiniteSets, SequencesExt, Functions, ImageTypes

CONSTANTS
  Indices,      (* metadata range ids (operand 0) used in the model.      *)
  SrvKinds,     (* DXIL::ResourceKind values of SRVs in the model.        *)
  CbvSizes,     (* constant buffer sizes in bytes (operand 6).            *)
  MaxEntries,   (* longest SRV / CBV / Sampler list.                      *)
  MaxUavs,      (* longest UAV list.                                      *)
  HandleTypes,  (* resource types CreateHandle is called with.            *)
  MaxHandles,   (* CreateHandle calls in the entry function.              *)
  Garbage       (* a value read past the end of a std::vector.            *)

ASSUME Indices \subseteq Nat /\ CbvSizes \subseteq Nat
ASSUME HandleTypes \subseteq {"SRV", "UAV", "CBV", "Sampler"}

VARIABLES
  srvs, uavs, cbvs, samplers,   (* the four dx.resources lists (input).   *)
  handles,                      (* CreateHandle calls: [type, range].     *)
  srv_index_to_id, uav_index_to_id, cbv_index_to_id, sampler_index_to_id,
  variables,      (* created variables: [id, kind, entry, storage, type]. *)
  operations,     (* Operations emitted by CreateHandle.                  *)
  handle_to_ptr_id, (* CreateHandle call -> bound id.                     *)
  id_to_type,     (* loaded handle id -> pointee type.                    *)
  next_id,
  rpc, pos

rb_vars == <<srvs, uavs, cbvs, samplers, handles, srv_index_to_id, uav_index_to_id,
             cbv_index_to_id, sampler_index_to_id, variables, operations,
             handle_to_ptr_id, id_to_type, next_id, rpc, pos>>

-----------------------------------------------------------------------------
(* Faulty variant: the vec4 count rounded down.                            *)
Vec4LengthFloor(size) == size \div 16

(* unsigned vec4_length = (cbv_size + 15) / 16;                            *)
Vec4Length(size) == (size + 15) \div 16

(* struct { vec4 member[vec4_length] @ArrayStride 16 @Offset 0 } @Block     *)
CbvBlockType(e) ==
  [base |-> "struct", block |-> TRUE, member_offset |-> 0,
   member |-> [base |-> "array", elem |-> "vec4_f32", stride |-> 16,
               length |-> Vec4Length(e.size)]]

SamplerType == [base |-> "sampler"]

-----------------------------------------------------------------------------
(* The metadata lists the converter can be given: distinct range ids per    *)
(* list, in any order.                                                      *)
DistinctIndexSeqs(S, n) ==
  {s \in BoundedSeq(S, n) : IsInjective([i \in DOMAIN s |-> s[i].index])}

SrvEntries == [index: Indices, kind: SrvKinds, tag: {0, 1}, comp: {"f32"}]
CbvEntries == [index: Indices, size: CbvSizes]
IndexEntries == [index: Indices]

Declared(t, list) == {[type |-> t, range |-> e.index] : e \in ToSet(list)}

HandleCalls ==
  UNION {Declared(t, CASE t = "SRV" -> srvs [] t = "UAV" -> uavs
                       [] t = "CBV" -> cbvs [] OTHER -> samplers) : t \in HandleTypes}

(* Faulty variant: resize(index + 1) without the max, which shrinks the    *)
(* table when a lower index follows a higher one.                          *)
StoreIndexNoMax(table, index, id) ==
  LET sized == [i \in 1..(index + 1) |-> IF i <= Len(table) THEN table[i] ELSE 0]
  IN  [sized EXCEPT ![index + 1] = id]

(* std::vector::resize(std::max(size(), index + 1)); table[index] = id     *)
StoreIndex(table, index, id) ==
  LET grown == IF Len(table) >= index + 1 THEN table
               ELSE table \o [i \in 1..(index + 1 - Len(table)) |-> 0]
  IN  [grown EXCEPT ![index + 1] = id]

NewVariable(kind, entry, storage, type) ==
  [id |-> next_id, kind |-> kind, entry |-> entry, storage |-> storage, type |-> type]

RBInit ==
  /\ srvs \in DistinctIndexSeqs(SrvEntries, MaxEntries)
  /\ uavs \in DistinctIndexSeqs(IndexEntries, MaxUavs)
  /\ cbvs \in DistinctIndexSeqs(CbvEntries, MaxEntries)
  /\ samplers \in DistinctIndexSeqs(IndexEntries, MaxEntries)
  /\ handles \in BoundedSeq(HandleCalls, MaxHandles)
  /\ srv_index_to_id = <<>>
  /\ uav_index_to_id = <<>>
  /\ cbv_index_to_id = <<>>
  /\ sampler_index_to_id = <<>>
  /\ variables = {}
  /\ operations = <<>>
  /\ handle_to_ptr_id = <<>>
  /\ id_to_type = [x \in {} |-> 0]
  /\ next_id = 1
  /\ rpc = "srv"
  /\ pos = 1

(* Move to the next list of emit_resources, or to the entry function.      *)
EndList(from, to, list) ==
  /\ rpc = from
  /\ pos > Len(list)
  /\ rpc' = to
  /\ pos' = 1
  /\ UNCHANGED <<srvs, uavs, cbvs, samplers, handles, srv_index_to_id, uav_index_to_id,
                 cbv_index_to_id, sampler_index_to_id, variables, operations,
                 handle_to_ptr_id, id_to_type, next_id>>

(* emit_srvs, one loop iteration: a UniformConstant image variable.        *)
EmitSrv ==
  /\ rpc = "srv"
  /\ pos <= Len(srvs)
  /\ LET e == srvs[pos]
     IN  /\ variables' = variables \cup
                {NewVariable("SRV", pos, "UniformConstant", SrvImageType(e))}
         /\ srv_index_to_id' = StoreIndex(srv_index_to_id, e.index, next_id)
  /\ next_id' = next_id + 1
  /\ pos' = pos + 1
  /\ UNCHANGED <<srvs, uavs, cbvs, samplers, handles, uav_index_to_id, cbv_index_to_id,
                 sampler_index_to_id, operations, handle_to_ptr_id, id_to_type, rpc>>

(* emit_uavs is an empty stub: the UAV list is skipped whole.              *)
EmitUavs ==
  /\ rpc = "uav"
  /\ rpc' = "cbv"
  /\ UNCHANGED <<srvs, uavs, cbvs, samplers, handles, srv_index_to_id, uav_index_to_id,
                 cbv_index_to_id, sampler_index_to_id, variables, operations,
                 handle_to_ptr_id, id_to_type, next_id, pos>>

(* emit_cbvs, one loop iteration: a Uniform variable of a Block struct.    *)
EmitCbv ==
  /\ rpc = "cbv"
  /\ pos <= Len(cbvs)
  /\ LET e == cbvs[pos]
     IN  /\ variables' = variables \cup {NewVariable("CBV", pos, "Uniform", CbvBlockType(e))}
         /\ cbv_index_to_id' = StoreIndex(cbv_index_to_id, e.index, next_id)
  /\ next_id' = next_id + 1
  /\ pos' = pos + 1
  /\ UNCHANGED <<srvs, uavs, cbvs, samplers, handles, srv_index_to_id, uav_index_to_id,
                 sampler_index_to_id, operations, handle_to_ptr_id, id_to_type, rpc>>

(* emit_samplers, one loop iteration: a UniformConstant sampler variable.  *)
EmitSampler ==
  /\ rpc = "sampler"
  /\ pos <= Len(samplers)
  /\ LET e == samplers[pos]
     IN  /\ variables' = variables \cup
                {NewVariable("Sampler", pos, "UniformConstant", SamplerType)}
         /\ sampler_index_to_id' = StoreIndex(sampler_index_to_id, e.index, next_id)
  /\ next_id' = next_id + 1
  /\ pos' = pos + 1
  /\ UNCHANGED <<srvs, uavs, cbvs, samplers, handles, srv_index_to_id, uav_index_to_id,
                 cbv_index_to_id, operations, handle_to_ptr_id, id_to_type, rpc>>

(* The variable a builder id names, if the id is one.                      *)
VarWithId(id) == {v \in variables : v.id = id}

(* Faulty variant: builder.getTypeId(id), the pointer type of the         *)
(* variable, where its pointee type is meant.                              *)
DerefTypeOfPointer(id) ==
  IF VarWithId(id) = {} THEN "unknown"
  ELSE LET v == CHOOSE v \in VarWithId(id) : TRUE
       IN  [base |-> "pointer", storage |-> v.storage, pointee |-> v.type]

(* builder.getDerefTypeId(id): the pointee type of a variable id.         *)
DerefType(id) == IF VarWithId(id) = {} THEN "unknown"
                 ELSE (CHOOSE v \in VarWithId(id) : TRUE).type

(* Faulty variant: the Sampler case reading the SRV table.                 *)
HandleTableSamplerFromSrv(t) ==
  CASE t = "SRV" -> srv_index_to_id [] t = "UAV" -> uav_index_to_id
    [] t = "CBV" -> cbv_index_to_id [] OTHER -> srv_index_to_id

(* The index table CreateHandle reads for a resource type.                 *)
HandleTable(t) ==
  CASE t = "SRV" -> srv_index_to_id [] t = "UAV" -> uav_index_to_id
    [] t = "CBV" -> cbv_index_to_id [] OTHER -> sampler_index_to_id

(***************************************************************************)
(* emit_create_handle_instruction: slot `range` of the type's table; SRV   *)
(* and Sampler handles are an OpLoad of the variable whose pointee type is *)
(* recorded in id_to_type, UAV and CBV handles are the variable id itself. *)
(* operator[] past the end of the vector is undefined: the model reads     *)
(* Garbage there.                                                          *)
(***************************************************************************)
emit_create_handle_instruction ==
  /\ rpc = "handles"
  /\ pos <= Len(handles)
  /\ LET h     == handles[pos]
         table == HandleTable(h.type)
         ptr   == IF h.range < Len(table) THEN table[h.range + 1] ELSE Garbage
     IN  IF h.type \in {"SRV", "Sampler"}
         THEN /\ operations' = Append(operations, [op |-> "Load", id |-> next_id,
                                                   type |-> DerefType(ptr), args |-> <<ptr>>])
              /\ id_to_type' = id_to_type @@ (next_id :> DerefType(ptr))
              /\ handle_to_ptr_id' = Append(handle_to_ptr_id, next_id)
              /\ next_id' = next_id + 1
         ELSE /\ handle_to_ptr_id' = Append(handle_to_ptr_id, ptr)
              /\ UNCHANGED <<operations, id_to_type, next_id>>
  /\ pos' = pos + 1
  /\ UNCHANGED <<srvs, uavs, cbvs, samplers, handles, srv_index_to_id, uav_index_to_id,
                 cbv_index_to_id, sampler_index_to_id, variables, rpc>>

RBNext ==
  \/ EmitSrv
  \/ EndList("srv", "uav", srvs)
  \/ EmitUavs
  \/ EmitCbv
  \/ EndList("cbv", "sampler", cbvs)
  \/ EmitSampler
  \/ EndList("sampler", "handles", samplers)
  \/ emit_create_handle_instruction
  \/ EndList("handles", "done", handles)

(* One thread, no waiting: weak fairness.                                  *)
RBSpec == RBInit /\ [][RBNext]_rb_vars /\ WF_rb_vars(RBNext)

-----------------------------------------------------------------------------
RBTypeOK ==
  /\ \A t \in {srv_index_to_id, uav_index_to_id, cbv_index_to_id, sampler_index_to_id} :
       t \in Seq(Nat)
  /\ handle_to_ptr_id \in Seq(Nat \cup {Garbage})
  /\ id_to_type \in [DOMAIN id_to_type ->
                      {SrvImageType(e) : e \in SrvEntries} \cup {SamplerType}]
  /\ next_id \in Nat \ {0}
  /\ rpc \in {"srv", "uav", "cbv", "sampler", "handles", "done"}

VarOf(kind, entry) == CHOOSE v \in variables : v.kind = kind /\ v.entry = entry

TableFaithful(table, kind, list) ==
  LET idx == {e.index : e \in ToSet(list)}
  IN  /\ Len(table) = (IF idx = {} THEN 0 ELSE Max(idx) + 1)
      /\ \A i \in 0..Len(table) - 1 :
           table[i + 1] = IF i \in idx
                          THEN VarOf(kind, CHOOSE p \in DOMAIN list : list[p].index = i).id
                          ELSE 0

(***************************************************************************)
(* Once all four lists are emitted, each index table has exactly max       *)
(* range id + 1 slots, slot i holds the variable created for the entry     *)
(* with range id i and every other slot is 0, whatever order the entries   *)
(* come in (spec section 8).                                               *)
(***************************************************************************)
IndexTablesFaithful ==
  rpc \in {"handles", "done"} =>
    /\ TableFaithful(srv_index_to_id, "SRV", srvs)
    /\ TableFaithful(cbv_index_to_id, "CBV", cbvs)
    /\ TableFaithful(sampler_index_to_id, "Sampler", samplers)

(***************************************************************************)
(* Every CreateHandle of a declared range is bound to that range's         *)
(* variable: for SRV and Sampler an OpLoad of the variable whose type, and *)
(* the id_to_type entry sampling reads later, is the variable's pointee    *)
(* type; for CBV the variable itself.                                      *)
(***************************************************************************)
HandlesResolve ==
  rpc = "done" =>
    \A i \in DOMAIN handles :
      LET h   == handles[i]
          lst == CASE h.type = "SRV" -> srvs [] h.type = "CBV" -> cbvs
                   [] OTHER -> samplers
          var == VarOf(h.type, CHOOSE p \in DOMAIN lst : lst[p].index = h.range)
      IN  IF h.type \in {"SRV", "Sampler"}
          THEN \E k \in DOMAIN operations :
                 /\ operations[k].id = handle_to_ptr_id[i]
                 /\ operations[k].args = <<var.id>>
                 /\ operations[k].type = var.type
                 /\ id_to_type[operations[k].id] = var.type
          ELSE handle_to_ptr_id[i] = var.id

(***************************************************************************)
(* The uniform array of a constant buffer covers its size with the fewest  *)
(* vec4s: 16 * length >= size > 16 * (length - 1).                         *)
(***************************************************************************)
CbvArrayCoversSize ==
  \A v \in variables :
    v.kind = "CBV" =>
      LET len == v.type.member.length
          sz  == cbvs[v.entry].size
      IN  16 * len >= sz /\ 16 * len < sz + 16

(***************************************************************************)
(* CreateHandle never reads an index table past its end.                   *)
(***************************************************************************)
NoOutOfBoundsHandleRead == \A i \in DOMAIN handle_to_ptr_id : handle_to_ptr_id[i] # Garbage
=============================================================================
