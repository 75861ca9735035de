# Model-checking dxil-spirv's converter

This directory holds TLA+ models of `src/dxil_converter.cpp`, TLC configurations that
check them, and `PROJECT.json`, the machine-readable index: components, runs, mutants,
the definition-to-source map, findings and hazards.

## The system

`Converter::Impl` turns one DXIL module (LLVM bitcode) into a SPIR-V entry point and a
graph of `CFGNode`s for the structurizer. `convert_entry_point` (1548-1659) runs on a
single thread, from start to end, in these phases:

| Part | Code | State it keeps | Operations |
|---|---|---|---|
| Resource binding | `emit_resources`, `emit_srvs`, `emit_uavs`, `emit_cbvs`, `emit_samplers` (201-333) | `srv/uav/cbv/sampler_index_to_id` tables; module variables | one variable per metadata entry; `resize(max(size, index+1))`, then store |
| Entry point | `emit_entry_point(get_execution_model(module), "main")` (1555, 402-421) | the entry point and its execution model | one entry point, whose interface the stage variables join |
| Stage I/O | `emit_stage_input/output_variables` (528-663) | `input/output_elements_ids`; locations | one Input/Output variable per signature element |
| CFG discovery | 1564-1603 | `bb_map` (block → `BlockMeta`/`CFGNode`), the node pool, `to_process`, `processing`, `visit_order` | breadth-first rounds; a node per new successor; `add_branch` per edge |
| Lowering | 1605-1656, `emit_instruction` (1488-1546) | `value_map` (the value table), the ids of `spirv_module`, each node's `ir` | per block, in `visit_order`: each instruction through its handler, then the terminator |
| Value table | `get_id_for_value` / `_constant` / `_undef` (335-393) | `value_map` | a cached id; else an undef, a float or 32-bit integer constant, the sentinel 0 for other widths, or a fresh id; always cached |
| Handles | `emit_create_handle_instruction` (742-792) | `handle_to_ptr_id`, `id_to_type` | reads the index tables of resource binding |
| Sampling | `emit_sample_instruction`, `build_sampled_image`, `build_vector` (844-1047) | appends to `ir.operations` | sampled image, coordinate and offset vectors, sample op, comparison splat |
| Constant-buffer load | `emit_cbuffer_load_legacy_instruction` (794-842) | appends to `ir.operations` | access chain into the CBV block, vec4 load, optional bitcast |
| Type table | `get_type_id(const llvm::Type &)` (421-451), `get_type_id(element_type, rows, cols)` | the builder's interned types | the SPIR-V type of an LLVM type: floats by width, `i1` a bool, other integers unsigned, pointers in Function storage, arrays; 0 for any other kind |
| Per-opcode handlers | `emit_instruction` (1488-1546) and compare, extract_value, alloca, select, load, store, GEP, cast, unary, binary (1106-1486) | `ir.operations`; `value_map` (alloca writes it itself) | one SPIR-V op per LLVM op, or none (alloca, unknown cast, unhandled call) |

### How the parts interact

- Resource binding fills the index tables, and CreateHandle reads them.
- CreateHandle records the image types that sampling reads back.
- Discovery's `bb_map` and `visit_order` drive lowering.
- Every handler draws ids from the value table.
- Lowering's terminators must agree with the edges that discovery registered.

### Hard behaviours

There is no concurrency. The hard parts come from the order of steps over arbitrary inputs:
- CFGs with cycles, repeated targets and unreachable blocks;
- forward references through phis;
- metadata lists in any index order;
- the DXIL operand layout of each sampling opcode, with undef operands.

## Modules

| Module | Models | Composes |
|---|---|---|
| `CfgReach` | the abstract specification of discovery: grow the discovered set along edges, close it when it is closed under successors | — |
| `CfgDiscovery` | the discovery loop. `StartRound` = the swap (1581), `VisitBlock` = 1584, `VisitSucc` = one successor (1587-1599), `EndBlock`, `EndRound` = `processing.clear()`, `EndDiscovery` = the loop exit | refines `CfgReach` (`Abstract == INSTANCE CfgReach WITH cfg <- succs, discovered <- DOMAIN bb_map, closed <- pc = "done"`) |
| `FunctionLowerer` | the lowering loop: `EmitPhi` (emit_phi_instruction), `EmitOp` (the id flow of emit_binary_instruction), `LowerTerminator` (1613-1655), `FinishLowering`; the value table as operators threaded through a record `[vm, nid, mod, last]` | extends `CfgDiscovery`: discovery runs first, in the same behaviour |
| `ImageTypes` | the SRV image type and the resource-kind tables (145-199, 233-236) | — |
| `ResourceBinder` | `EmitSrv`/`EmitCbv`/`EmitSampler` (one loop iteration each), `EmitUavs` (the stub), `EndList` (the next list in emit_resources), `emit_create_handle_instruction` | extends `ImageTypes` |
| `Sampling` | `emit_sample_instruction` as one action for one call, with `build_sampled_image`, `build_vector` and the helpers its branches compute | extends `ImageTypes` |
| `ValueTable` | `get_id_for_value`, `get_id_for_undef`, `get_id_for_constant` as operators on the record `[vm, nid, mod, last]` | used by the four modules below |
| `StageIO` | `EmitEntryPoint` = line 1555 with `get_execution_model` on the dx.shaderModel tag; `EmitStageInputVariable`/`EmitStageOutputVariable` = one iteration of the loops at 609-663 (type, variable, element map, decoration, Location counter); `EmitLoadInput`/`EmitStoreOutput` = `emit_load_input_instruction`/`emit_store_output_instruction` | extends `ValueTable` |
| `CBufferLoad` | `EmitCBufferLoadLegacy` = one `dx.op.cbufferLoadLegacy` call, after the resources and handles of `ResourceBinder` | extends `ResourceBinder` and `ValueTable`: binding, handles and loads share one id counter |
| `InstructionHandlers` | one action per branch of `emit_instruction` (`EmitBinary`, `EmitCast`, `EmitCompare`, `EmitSelect`, `EmitLoad`, `EmitStore`, `EmitGetElementPtr`, `EmitExtractValue`, `EmitAlloca`, `EmitUnary`, `EmitCall`); each calls an operator named after the handler, which returns the new value table and the Operations appended. The opcode switches are the records `BinaryOpcode`, `CastOpcode`, `CompareTable`. Every result type is `get_type_id` of the instruction's LLVM type | extends `ValueTable` and `TypeTable` |
| `TypeTable` | `get_type_id(const llvm::Type &)` as a RECURSIVE operator from LLVM type records (`LInt(w)`, `LFloat`, `LPtr(t)`, `LArr(t, n)`, ...) to SPIR-V type records (`TypeBool`, `TypeInt(w, signed)`, `TypePointer(sc, t)`, ...); `NoType` is the id 0 | — |

Every `MC_*.tla` module gives the constants their values for TLC.

### Abstractions

- A block program is chosen in `Init` from every SSA program over the CFG:
  - phis with one incoming entry per predecessor, each a definition or undef;
  - one two-operand operation whose first operand is dominated;
  - the terminator that the successor count allows.
- Types are records: the builder interns equal types, so equal records stand for equal ids.
- Names, decorations, descriptor sets and logging are left out.
- A read past the end of a `std::vector` is undefined. It reads the model value `Garbage`.
- An operand's id in `Sampling` is `Opnd(i)`, the id the value table gives operand `i`.
- An image-operands mask is the set of its bits.
- In `InstructionHandlers` an LLVM type is a `TypeTable` record (`i1`, `i32`, `float`, pointers to `float` or `[4 x float]`, and the struct of four floats a dx.op call returns); the result type of each Operation is `get_type_id` of it, and the builder's interning makes equal records equal ids. The candidate instructions at each step are every well-typed instruction over the earlier results, the constants `i32 0`, `undef`, `float 1`, and `Agg`, a struct returned by a dx.op call before the block (id 1).
- In `StageIO` the shader model tag is chosen in `Init`, and the signatures with it: only a pixel shader has Target outputs, and then no User or Position outputs; a vertex shader has no SV_Position input. A signature element has a semantic, a component type, rows and columns; the type of a variable is the record `get_type_id` would intern.

## Runs

| Run | Bounds | Result |
|---|---|---|
| `cfg_discovery` | 4 blocks, ≤ 2 successors each, no edge into the entry: every such CFG (551k states) | pass: `DiscoveryFaithful` (the node graph equals the HLIR CFG restricted to reachable blocks; `visit_order` is a permutation of them) and `RefinesCfgReach` |
| `function_lowerer` | 3 blocks, ≤ 2 successors, all reachable, every SSA program of the shapes above (837k states) | pass: `IdsConsistent`, `ForwardRefsOnlyFromPhis`, `TerminatorsMatchEdges` |
| `phi_unreachable_pred` | as above, but unreachable blocks allowed | violation of `NoNullBlockMeta`: a phi lists an unreachable predecessor, and line 1097 dereferences a null `BlockMeta` |
| `resource_binder` | module `MC_CBufferLoad`: indices {0,1}, ≤ 2 SRVs/CBVs/samplers in any order, one SRV kind, CBV sizes {16, 20}, ≤ 2 handles, ≤ 2 cbuffer loads of f32 or i32 results (601k states) | pass: `CBTypeOK`, `IndexTablesFaithful`, `HandlesResolve`, `CbvArrayCoversSize`, `CBufferLoadsWellFormed` (each load is chain, load and optional bitcast from its CBV's variable, with distinct ids, and the call's id names the last) |
| `uav_handle` | one UAV, one UAV handle | violation of `NoOutOfBoundsHandleRead` at line 767 |
| `stage_io` | shader models vs and ps, input semantics User/Position, output User/Position/Target/other, 1-2 rows and columns, ≤ 2 elements each, ≤ 2 LoadInput/StoreOutput calls (1.1M states, about 1 min) | pass: `StageIOTypeOK`, `LocationsDisjoint` (User Locations of different elements never overlap), `AccessesWellFormed` (an access chain exactly for multi-component variables, with real ids) |
| `stage_io_rows` | as above | violation of `AccessChainsDistinguishCells`: two rows of one element get the same access chain (line 688, operand 2 never read) |
| `stage_io_position` | as above | violation of `PositionBuiltInValidForStage`: a pixel shader's SV_Position input is decorated BuiltIn Position (599, 654), which Vulkan allows only in vertex, tessellation and geometry stages |
| `sampling` | all 5 opcodes, 6 image kinds (1D, 2D, 2DArray, 3D, Cube, CubeArray), offsets undef/0/1 per coordinate, clamp defined or undef (800 states) | pass: `SamplingTypeOK`, `ImageOperandsMatchMask`, `SampleIdsWellDefined` |
| `sampling_dref` | as above | violation of `DrefForComparison`: SampleCmpLevelZero has no Dref |
| `instruction_handlers` | one block of 4 instructions, each any well-typed instruction of any handler; binary FMul/URem, casts SIToFP/FPToSI, predicates FCMP_OLT/FCMP_TRUE (620k states, about 50 s) | pass: `HTypeOK`, `IdsDefinedBeforeUse` (every id read is defined earlier in the block or at module scope, result ids are fresh, value_map names each result), `OperandTypesAgree` (every operand has the type SPIR-V requires in its position), `ResultTypesAgree` (every Operation but a store has a result type, and it is the one its opcode produces from its operands: the pointee for a load, a bool for a compare, an integer for an integer conversion, ...) |
| `bool_cast` | as above with casts ZExt/Trunc, 3 instructions | violation of `ResultTypesAgree`: `trunc i32 undef to i1` becomes an OpUConvert whose result type is a bool (line 1339) |

### Why the bounds are enough

- **Discovery.** Four blocks are enough for every shape the loop distinguishes:
  - a second round;
  - a back edge;
  - a repeated target;
  - an unreachable block;
  - a block discovered twice in one round.
- **Lowering.** Three blocks give loops, diamonds and self-loops, so there are forward references through phis and blocks with two predecessors.
- **Resource binding.** Two indices in both orders are what tells `max(size, index+1)` apart from `index+1`. Sizes 16 and 20 cover an exact multiple and a remainder.
- **Sampling.** Every branch of the handler is taken. The one exception is the unknown-dimension return, which no SRV kind the converter creates can reach.
- **Stage I/O.** A vertex and a pixel shader are the two stages whose Position rules differ (output only; input forbidden). Two elements of up to 2×2 give a multi-row User element followed by another (the Location counter), a vector and a matrix (the access chain), and a Target beside a User output.
- **Cbuffer loads.** An f32 and an i32 result give both the load-only and the load-plus-bitcast shape; two loads share the interned constant 0 and the vec4 index.
- **Handlers.** Four instructions suffice for the longest dependency chain a handler has: alloca, getelementptr, load, then a store or a binary op on the loaded value; compare then select or a cast. Three instructions reach the bool cast: a compare, or an i32 such as undef, then trunc or zext. One float and one integer opcode of each switch exercise both operand types; the switches themselves are tables translated line by line, so more opcodes would only multiply states. `FCMP_TRUE` takes the bool-constant branch.

### Mutants

Each property of a passing run is broken by a mutant listed in `PROJECT.json`. A mutant is a plausible bug in the mapped code:
- `add_branch` only for new successors;
- discovery stopping after one round;
- an uncached fresh id;
- reversed lowering order;
- a switch without its default;
- `resize(index+1)` without `max`;
- the sampler table read from the SRV table;
- the vec4 count rounded down;
- the clamp read from operand 10;
- a comparison result without its own id;
- the next Location advanced by one instead of the row count;
- the column constant looked up without the forced width 32;
- a cbuffer load taking the call's id even before a bitcast;
- an alloca that does not write `value_map`;
- OpStore with the operands in LLVM's order;
- `get_type_id` giving an `i1` an unsigned 1-bit integer type instead of a bool (ResultTypesAgree).

The type invariants have mutants too:
- `create_node` hoisted out of the new-successor branch (DiscTypeOK);
- `getTypeId` used where `getDerefTypeId` is meant (RBTypeOK);
- the whole ResRet struct used as the sample result type (SamplingTypeOK);
- a builtin decoration for every system value (StageIOTypeOK);
- FCMP_FALSE/TRUE left to the default of the predicate switch (HTypeOK).

### Fairness

`convert_entry_point` is one thread that never blocks. Every specification takes weak fairness on its next-state relation, and that is used only by `RefinesCfgReach` (discovery terminates). The behaviours end when the function returns, so the configs say `CHECK_DEADLOCK FALSE`.

## Findings

See `PROJECT.json`: three code bugs found first (null `BlockMeta`, UAV table read, missing Dref), and three from the later modules:
- rows of a multi-row stage element share one access chain (688);
- a pixel shader's SV_Position input becomes BuiltIn Position (599): `emit_builtin_decoration` ignores the execution model, and Vulkan requires FragCoord there; spec.md maps Position the same way without a stage;
- casts to or from `i1` (zext, sext, trunc) become OpUConvert/OpSConvert on a bool (1335-1341). DXIL converts every bool to an integer with `zext i1`, so this is met by most shaders with a comparison whose result is stored or added.

Hazards recorded without a violation run:
- An unknown cast, or a call the dispatcher ignores, leaves a dangling id. spec.md allows this.
- FCMP_ORD/FCMP_UNO append an opcode-less Operation. spec.md says such instructions are skipped; adding either predicate to the handlers cfg makes `HTypeOK` fail.
- A constant offset of zero still sets ConstOffset, against spec.md scenario 3 (940). TLC showed it on the Sampling model with ConstOffset for offsets (0, 0); that run gave its slot to `bool_cast`, since the SPIR-V stays valid.
- `get_type_id` returns 0 for vectors and structs (449), and makes every pointer a Function pointer (442); a global operand gets id 0 (366). The models generate only what DXC hands these handlers, so these are hazards with notes.
- f64/f16 cbuffer results are bitcast to uint (818), against spec.md. A run with CBufRet.f64 results showed it; that run gave its slot to `stage_io_position`, and the pass run keeps to f32 and i32 results.
- Non-32-bit integer constants get the sentinel id 0. With `ConstWidths = {1, 32}` in the lowering cfg, TLC shows operations with argument 0.

## Not modelled, and why

- **`get_entry_point_name`** (395-400): it only selects the function the models take as given. An unknown shader model tag maps to `ExecutionModelMax` (420) where spec.md speaks of a diagnostic; `get_execution_model` models it, and the MC instances use vs and ps only.
- **Names, decorations other than BuiltIn/Location, descriptor sets and logging:** no property depends on them.
- **The LLVM parser, the SPIR-V builder and the structurizer** are not part of `src/`. `CFGNode::add_branch` and `getNumTypeComponents` are modelled from spec.md.
- **Larger compositions.** One behaviour running discovery, resource binding, stage I/O and every handler together would exceed TLC's reach. The modules share `ValueTable`, and `CBufferLoad` composes binding with loads, where the shared id counter matters.
