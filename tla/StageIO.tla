------------------------------- MODULE StageIO -------------------------------
(***************************************************************************)
(* Stage input and output of Converter::Impl (src/dxil_converter.cpp):     *)
(* emit_stage_input_variables and emit_stage_output_variables create one   *)
(* Input/Output variable per signature element, decorate it and list it in *)
(* the entry point's interface; later, while the function is lowered, the  *)
(* dx.op LoadInput and StoreOutput calls reach the element's variable      *)
(* through input_elements_ids / output_elements_ids.                       *)
(*                                                                         *)
(* A signature element is [sem, comp, rows, cols, sidx]; its element id is *)
(* its position in the signature list, counted from 0.  Types are records: *)
(* the builder interns equal types.  Ids of variables, access chains and   *)
(* values come from one counter, threaded through the value table.         *)
(***************************************************************************)
EXTENDS Integers, Sequences, FiniteSets, SequencesExt, ValueTable

CONSTANTS
  ShaderModels,   (* dx.shaderModel tags the module may carry.           *)
  InSemantics,    (* DXIL::Semantic values an input element may carry.   *)
  OutSemantics,   (* ... an output element.                               *)
  ComponentTypes, (* DXIL::ComponentType values of the elements.          *)
  Dims,           (* the rows and cols an element may have.               *)
  MaxElements,    (* bound on the length of each signature list.          *)
  MaxCalls        (* bound on the LoadInput/StoreOutput calls lowered.    *)

ASSUME /\ ShaderModels \subseteq {"vs", "ps", "hs", "ds", "gs", "cs", "lib"}
       /\ InSemantics \subseteq {"User", "Position", "Other"}
       /\ OutSemantics \subseteq {"User", "Position", "Target", "Other"}
       /\ ComponentTypes \subseteq {"I1", "I16", "U16", "I32", "U32", "I64",
                                    "U64", "F16", "F32", "F64", "Unknown"}
       /\ Dims \subseteq 1..4 /\ MaxElements \in Nat /\ MaxCalls \in Nat

VARIABLES
  shader_model,        (* the tag of dx.shaderModel (module metadata).    *)
  execution_model,     (* the model emit_entry_point was given.           *)
  sig,                 (* [In |-> Seq(Element), Out |-> Seq(Element)].    *)
  variables,           (* every Input/Output variable created, in order.  *)
  interface,           (* the entry point's id operands.                  *)
  input_elements_ids,  (* element id -> variable id.                      *)
  output_elements_ids,
  location,            (* the loop's local Location counter.              *)
  i,                   (* the loop index.                                 *)
  pc,
  value_map, next_id, module_ids,
  operations,          (* Operations appended to the current block.       *)
  lowered              (* history: each call and the operations it made.  *)

vars == <<shader_model, execution_model, sig, variables, interface,
                 input_elements_ids, output_elements_ids,
          location, i, pc, value_map, next_id, module_ids, operations, lowered>>

-----------------------------------------------------------------------------
Elements(sems) ==
  [sem: sems, comp: ComponentTypes, rows: Dims, cols: Dims, sidx: {0}]
    \cup [sem: sems \cap {"Target"}, comp: ComponentTypes, rows: Dims, cols: Dims, sidx: {0, 1}]

(* A signature the front end can hand over for a shader model: only a     *)
(* pixel shader writes render targets (each index once), and it has no     *)
(* User or Position outputs; a vertex shader reads no SV_Position.         *)
Sems(s) == {e.sem : e \in ToSet(s)}

ValidSignature(model, in, s) ==
  /\ model = "ps" => Sems(s) \cap {"User", "Position"} = {}
  /\ model # "ps" => "Target" \notin Sems(s)
  /\ model = "vs" => "Position" \notin Sems(in)
  /\ \A a, b \in DOMAIN s : a # b /\ s[a].sem = "Target" /\ s[b].sem = "Target"
                              => s[a].sidx # s[b].sidx

(* get_execution_model: the stage named by the dx.shaderModel tag; any     *)
(* other tag gives ExecutionModelMax.                                      *)
ExecutionModelOf == [vs |-> "Vertex", ps |-> "Fragment", hs |-> "TessellationControl",
                     ds |-> "TessellationEvaluation", gs |-> "Geometry", cs |-> "GLCompute"]

get_execution_model(model) ==
  IF model \in DOMAIN ExecutionModelOf THEN ExecutionModelOf[model] ELSE "Max"

(* A type: shape, component, SPIR-V column count and column size.         *)
NoType == [shape |-> "none", comp |-> "Unknown", columns |-> 0, size |-> 0]

(* get_type_id(element_type, rows, cols): scalar, vector of cols, or       *)
(* makeMatrixType(component, rows, cols), whose parameters are (columns,   *)
(* column size); an unknown component type yields 0.                       *)
get_type_id(element_type, rows, cols) ==
  CASE element_type = "Unknown" -> NoType
    [] rows = 1 /\ cols = 1     -> [shape |-> "scalar", comp |-> element_type, columns |-> 1, size |-> 1]
    [] rows = 1                 -> [shape |-> "vector", comp |-> element_type, columns |-> 1, size |-> cols]
    [] OTHER                    -> [shape |-> "matrix", comp |-> element_type, columns |-> rows, size |-> cols]

(* spv::Builder::getNumTypeComponents: a vector's size, a matrix's column  *)
(* count, 1 for a scalar.                                                  *)
NumTypeComponents(t) == IF t.shape = "matrix" THEN t.columns ELSE t.size

(* Faulty variant: every system value decorated as a BuiltIn of its own.  *)
emit_builtin_decoration_any(system_value) == system_value

(* emit_builtin_decoration: only Position becomes a BuiltIn.               *)
emit_builtin_decoration(system_value) ==
  IF system_value = "Position" THEN "Position" ELSE "None"

NoLocation == -1

St == [vm |-> value_map, nid |-> next_id, mod |-> module_ids, last |-> 0]

SetSt(s) == /\ value_map' = s.vm
            /\ next_id' = s.nid
            /\ module_ids' = s.mod

Init ==
  /\ shader_model \in ShaderModels
  /\ execution_model = "None"
  /\ sig \in {g \in [In: UNION {[1..n -> Elements(InSemantics)] : n \in 0..MaxElements},
                     Out: UNION {[1..n -> Elements(OutSemantics)] : n \in 0..MaxElements}] :
                ValidSignature(shader_model, g.In, g.Out)}
  /\ variables = <<>>
  /\ interface = <<>>
  /\ input_elements_ids = [x \in {} |-> 0]
  /\ output_elements_ids = [x \in {} |-> 0]
  /\ location = 0
  /\ i = 1
  /\ pc = "entry"
  /\ value_map = [x \in {} |-> 0]
  /\ next_id = 1
  /\ module_ids = {}
  /\ operations = <<>>
  /\ lowered = <<>>
-----------------------------------------------------------------------------
(* Faulty variant: the counter advanced by one slot per element.           *)
next_location_one(loc, rows) == loc + 1

(* location += rows: a User element takes one Location per row.           *)
next_location(loc, rows) == loc + rows

(* The variable createVariable makes for element e of id elem.             *)
StageVariable(storage, e, elem, id, loc, builtin) ==
  [id |-> id, storage |-> storage, type |-> get_type_id(e.comp, e.rows, e.cols),
   sem |-> e.sem, rows |-> e.rows, elem |-> elem, location |-> loc, builtin |-> builtin]

(* convert_entry_point opens with emit_entry_point(get_execution_model(   *)
(* module), "main"): the entry point whose interface the loops below fill. *)
(* emit_resources runs next (ResourceBinder) and touches none of this.     *)
EmitEntryPoint ==
  /\ pc = "entry"
  /\ execution_model' = get_execution_model(shader_model)
  /\ pc' = "inputs"
  /\ UNCHANGED <<shader_model, sig, variables, interface, input_elements_ids,
                 output_elements_ids, location, i, value_map, next_id, module_ids,
                 operations, lowered>>

(* One iteration of the loop of emit_stage_input_variables: a non-User     *)
(* element goes to emit_builtin_decoration, a User element takes the next  *)
(* Location.                                                               *)
EmitStageInputVariable ==
  /\ pc = "inputs"
  /\ i <= Len(sig.In)
  /\ LET e    == sig.In[i]
         user == e.sem = "User"
     IN  /\ variables' = Append(variables,
               StageVariable("Input", e, i - 1, next_id,
                             IF user THEN location ELSE NoLocation,
                             IF user THEN "None" ELSE emit_builtin_decoration(e.sem)))
         /\ location' = IF user THEN next_location(location, e.rows) ELSE location
  /\ input_elements_ids' = ((i - 1) :> next_id) @@ input_elements_ids
  /\ interface' = Append(interface, next_id)
  /\ next_id' = next_id + 1
  /\ i' = i + 1
  /\ UNCHANGED <<shader_model, execution_model, sig, output_elements_ids, pc, value_map,
                 module_ids, operations, lowered>>

(* The input loop ends; emit_stage_output_variables starts, location = 0.  *)
EndStageInputs ==
  /\ pc = "inputs"
  /\ i > Len(sig.In)
  /\ pc' = "outputs"
  /\ i' = 1
  /\ location' = 0
  /\ UNCHANGED <<shader_model, execution_model, sig, variables, interface,
                 input_elements_ids, output_elements_ids,
                 value_map, next_id, module_ids, operations, lowered>>

(* One iteration of the loop of emit_stage_output_variables: a Target     *)
(* takes Location = semantic index, another non-User element goes to       *)
(* emit_builtin_decoration, a User element takes the next Location.        *)
EmitStageOutputVariable ==
  /\ pc = "outputs"
  /\ i <= Len(sig.Out)
  /\ LET e    == sig.Out[i]
         user == e.sem = "User"
         loc  == CASE e.sem = "Target" -> e.sidx
                   [] user             -> location
                   [] OTHER            -> NoLocation
         bi   == IF e.sem \in {"Target", "User"} THEN "None" ELSE emit_builtin_decoration(e.sem)
     IN  /\ variables' = Append(variables, StageVariable("Output", e, i - 1, next_id, loc, bi))
         /\ location' = IF user THEN next_location(location, e.rows) ELSE location
  /\ output_elements_ids' = ((i - 1) :> next_id) @@ output_elements_ids
  /\ interface' = Append(interface, next_id)
  /\ next_id' = next_id + 1
  /\ i' = i + 1
  /\ UNCHANGED <<shader_model, execution_model, sig, input_elements_ids, pc, value_map,
                 module_ids, operations, lowered>>

(* The output loop ends; the entry function is lowered next.               *)
EndStageOutputs ==
  /\ pc = "outputs"
  /\ i > Len(sig.Out)
  /\ pc' = "lower"
  /\ UNCHANGED <<shader_model, execution_model, sig, variables, interface,
                 input_elements_ids, output_elements_ids,
                 location, i, value_map, next_id, module_ids, operations, lowered>>
-----------------------------------------------------------------------------
(* Operand 3 of LoadInput/StoreOutput, the column: an i8 constant.  The   *)
(* row, operand 2, is an i32 constant the handlers never read.             *)
ColumnOperand(col) == IntConst(8, col)

(* The LoadInput call of the k-th lowered call (its own SSA result) and    *)
(* the value StoreOutput writes (operand 4): an SSA value of the block.    *)
CallResult(k) == [kind |-> "call", n |-> k]
StoredValue   == [kind |-> "ssa", n |-> 0]

VariableOf(id) == CHOOSE v \in ToSet(variables) : v.id = id

(* Faulty variant: the column looked up without the forced width.          *)
column_index_unforced(st, col) == get_id_for_value(st, ColumnOperand(col), 0)

(* get_id_for_value(operand 3, forced width 32).                           *)
column_index(st, col) == get_id_for_value(st, ColumnOperand(col), 32)

(* The shared part of both handlers: if the element's variable has more    *)
(* than one component, allocate ptr_id and append an OpInBoundsAccessChain *)
(* {var_id, column id}; otherwise the variable itself is the pointer.      *)
ElementPointer(st, var_id, col) ==
  LET multi == NumTypeComponents(VariableOf(var_id).type) > 1
      s2    == column_index([st EXCEPT !.nid = @ + 1], col)
  IN  IF multi
      THEN [st |-> s2, ptr |-> st.nid,
            ops |-> <<[op |-> "InBoundsAccessChain", id |-> st.nid, args |-> <<var_id, s2.last>>]>>]
      ELSE [st |-> st, ptr |-> var_id, ops |-> <<>>]

(* emit_load_input_instruction: the element's pointer, then an OpLoad      *)
(* whose id is the call's own value id.                                    *)
emit_load_input_instruction(e, row, col) ==
  LET p == ElementPointer(St, input_elements_ids[e], col)
      s == get_id_for_value(p.st, CallResult(Len(lowered) + 1), 0)
  IN  [st |-> s, ops |-> p.ops \o <<[op |-> "Load", id |-> s.last, args |-> <<p.ptr>>]>>]

(* emit_store_output_instruction: the element's pointer, then an OpStore   *)
(* {ptr_id, id of operand 4}; an OpStore has no result id.                 *)
emit_store_output_instruction(e, row, col) ==
  LET p == ElementPointer(St, output_elements_ids[e], col)
      s == get_id_for_value(p.st, StoredValue, 0)
  IN  [st |-> s, ops |-> p.ops \o <<[op |-> "Store", id |-> 0, args |-> <<p.ptr, s.last>>]>>]

Cells(e) == (0..(e.rows - 1)) \X (0..(e.cols - 1))

(* One dx.op call of emit_builtin_instruction, LoadInput or StoreOutput,  *)
(* addressing cell (row, col) of element e: its operations are appended.  *)
Lower(r) ==
  /\ SetSt(r.st)
  /\ operations' = operations \o r.ops
  /\ UNCHANGED <<shader_model, execution_model, sig, variables, interface,
                 input_elements_ids, output_elements_ids,
                 location, i, pc>>

CallStep == pc = "lower" /\ Len(lowered) < MaxCalls

EmitLoadInput ==
  /\ CallStep
  /\ \E e \in DOMAIN sig.In : \E c \in Cells(sig.In[e]) :
       LET r == emit_load_input_instruction(e - 1, c[1], c[2])
       IN  /\ Lower(r)
           /\ lowered' = Append(lowered, [op |-> "LoadInput", elem |-> e - 1,
                                          row |-> c[1], col |-> c[2], ops |-> r.ops])

EmitStoreOutput ==
  /\ CallStep
  /\ \E e \in DOMAIN sig.Out : \E c \in Cells(sig.Out[e]) :
       LET r == emit_store_output_instruction(e - 1, c[1], c[2])
       IN  /\ Lower(r)
           /\ lowered' = Append(lowered, [op |-> "StoreOutput", elem |-> e - 1,
                                          row |-> c[1], col |-> c[2], ops |-> r.ops])

Next ==
  \/ EmitEntryPoint
  \/ EmitStageInputVariable
  \/ EndStageInputs
  \/ EmitStageOutputVariable
  \/ EndStageOutputs
  \/ EmitLoadInput
  \/ EmitStoreOutput

(* One thread runs convert_entry_point to the end: weak fairness.          *)
Spec == Init /\ [][Next]_vars /\ WF_vars(Next)
-----------------------------------------------------------------------------
Elem == [sem: {"User", "Position", "Target", "Other"}, comp: ComponentTypes,
         rows: Dims, cols: Dims, sidx: {0, 1}]
Op   == [op: {"InBoundsAccessChain", "Load", "Store"}, id: Nat, args: Seq(Nat)]

StageIOTypeOK ==
  /\ sig \in [In: Seq(Elem), Out: Seq(Elem)]
  /\ \A v \in ToSet(variables) :
       /\ v.storage \in {"Input", "Output"}
       /\ v.type.shape \in {"scalar", "vector", "matrix"}
       /\ v.location \in Nat \cup {NoLocation}
       /\ v.builtin \in {"None", "Position"}
  /\ input_elements_ids \in [DOMAIN input_elements_ids -> Nat]
  /\ output_elements_ids \in [DOMAIN output_elements_ids -> Nat]
  /\ execution_model \in {"None", "Max"} \cup Range(ExecutionModelOf)
  /\ pc \in {"entry", "inputs", "outputs", "lower"}
  /\ operations \in Seq(Op)

(***************************************************************************)
(* The User elements of one stage interface occupy disjoint Location       *)
(* ranges: element with rows r at Location l takes l .. l + r - 1, so the  *)
(* loops' "location += rows" must skip every row of a multi-row element.   *)
(***************************************************************************)
LocationsDisjoint ==
  \A v, w \in ToSet(variables) :
    /\ v.id # w.id /\ v.storage = w.storage
    /\ v.sem = "User" /\ w.sem = "User"
    => \/ v.location + v.rows <= w.location
       \/ w.location + w.rows <= v.location

(***************************************************************************)
(* Every LoadInput/StoreOutput reaches the variable created for the        *)
(* element its operand 1 names, in the right storage class, through an     *)
(* access chain exactly when that variable has more than one component;    *)
(* every operand it emits is a real id (the asserts of both handlers):     *)
(* the i8 column constant must be looked up with forced width 32.          *)
(***************************************************************************)
AccessesWellFormed ==
  \A k \in DOMAIN lowered :
    LET l      == lowered[k]
        store  == l.op = "StoreOutput"
        var    == CHOOSE v \in ToSet(variables) :
                    /\ v.elem = l.elem
                    /\ v.storage = IF store THEN "Output" ELSE "Input"
        access == Last(l.ops)
    IN  /\ (Len(l.ops) = 2) = (NumTypeComponents(var.type) > 1)
        /\ access.args[1] = IF Len(l.ops) = 2 THEN l.ops[1].id ELSE var.id
        /\ Len(l.ops) = 2 => l.ops[1].args[1] = var.id
        /\ \A o \in ToSet(l.ops) : 0 \notin ToSet(o.args)
        /\ access.op = IF store THEN "Store" ELSE "Load"

(***************************************************************************)
(* Two calls that address different cells (row, col) of the same element  *)
(* go through access chains with different indices: spec.md says LoadInput *)
(* emits an access chain "to element" of a multi-component input.          *)
(***************************************************************************)
AccessChainsDistinguishCells ==
  \A k1, k2 \in DOMAIN lowered :
    LET l1 == lowered[k1]
        l2 == lowered[k2]
    IN  /\ l1.op = l2.op /\ l1.elem = l2.elem
        /\ <<l1.row, l1.col>> # <<l2.row, l2.col>>
        /\ Len(l1.ops) = 2 /\ Len(l2.ops) = 2
        => Tail(l1.ops[1].args) # Tail(l2.ops[1].args)
(***************************************************************************)
(* A variable emit_builtin_decoration marks BuiltIn Position is one the    *)
(* Vulkan environment allows for the entry point's execution model: an     *)
(* Output of a vertex, tessellation or geometry stage, or an Input of a    *)
(* tessellation or geometry stage.  A pixel shader reads SV_Position as    *)
(* BuiltIn FragCoord; the decoration does not look at the stage.           *)
(***************************************************************************)
PositionStages == {"Vertex", "TessellationControl", "TessellationEvaluation", "Geometry"}

PositionBuiltInValidForStage ==
  \A v \in ToSet(variables) :
    v.builtin = "Position" =>
      \/ v.storage = "Output" /\ execution_model \in PositionStages
      \/ v.storage = "Input" /\ execution_model \in PositionStages \ {"Vertex"}
====
