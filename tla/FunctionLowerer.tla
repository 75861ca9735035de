--------------------------- MODULE FunctionLowerer ---------------------------
(***************************************************************************)
(* The lowering loop of Converter::Impl::convert_entry_point: after CFG    *)
(* discovery (CfgDiscovery), the blocks are walked in visit_order; every   *)
(* instruction is dispatched by emit_instruction and then the terminator   *)
(* is lowered.  Ids come from the value table (get_id_for_value), which    *)
(* hands out a fresh id on the first reference to an SSA value, so a phi   *)
(* may name a value whose defining block is lowered later.                 *)
(*                                                                         *)
(* Instructions are abstracted to what the id bookkeeping tells apart: a   *)
(* phi (emit_phi_instruction) and a two-operand SSA operation, which       *)
(* stands for every emit_*_instruction that takes the result id first and  *)
(* then the operand ids and appends one Operation (binary, compare,        *)
(* select, cast, load, GEP, extract-value).  Operand values are SSA values *)
(* of dominating blocks, a 32-bit integer constant or undef.               *)
(***************************************************************************)
EXTENDS CfgDiscovery, ValueTable

CONSTANTS
  OnlyReachable, (* TRUE: only CFGs in which every block is reachable.   *)
  ConstWidths    (* bit widths of the integer constant operand.          *)

ASSUME OnlyReachable \in BOOLEAN
ASSUME ConstWidths \subseteq {1, 8, 16, 32, 64}

VARIABLES
  prog,         (* block -> [instrs: Seq(Instr), term: terminator kind]. *)
  value_map,    (* Converter::Impl::value_map: HLIR value -> id.         *)
  next_id,      (* the module's monotonic id allocator.                  *)
  module_ids,   (* ids of constants and undefs created at module scope.  *)
  emitted,      (* every Operation, PHI and Terminator in the order they *)
                (* were produced (history; ir.operations / ir.phi are    *)
                (* its restrictions to one node).                         *)
  term,         (* CFGNode -> ir.terminator.                              *)
  vi,           (* position in the lowering order.                        *)
  ii,           (* position in the block's instruction list.              *)
  lpc

lower_vars == <<prog, value_map, next_id, module_ids, emitted, term, vi, ii, lpc>>
vars == <<disc_vars, lower_vars>>

-----------------------------------------------------------------------------
(* HLIR values.                                                            *)
DefVal(b) == [kind |-> "def", blk |-> b]
PhiVal(b) == [kind |-> "phi", blk |-> b]
Const32   == IntConst(32, 42)

Preds(g, b) == {p \in Blocks : b \in SuccSet(g, p)}

(* Blocks reachable from the entry without passing through d.              *)
RECURSIVE ReachAvoiding(_, _, _)
ReachAvoiding(g, d, S) ==
  LET next == S \cup {s \in Blocks \ {d} : \E b \in S : s \in SuccSet(g, b)}
  IN  IF next = S THEN S ELSE ReachAvoiding(g, d, next)

(* d dominates b (every block dominates an unreachable one, as in LLVM).   *)
Dominates(g, d, b) ==
  d = b \/ d = Entry \/ b \notin ReachAvoiding(g, d, {Entry})

(***************************************************************************)
(* The instruction lists the converter can be given for CFG g: a block     *)
(* with predecessors may start with a phi holding one entry per            *)
(* predecessor, whose value is that predecessor's own result or undef;     *)
(* every block then computes one value from its own phi, or else from the  *)
(* result of its immediate dominator, and an integer constant of one of   *)
(* ConstWidths (an i1 true is what `xor i1 %c, true`, LLVM's NOT, takes),  *)
(* and ends in a terminator of the shape of its successor list.            *)
(***************************************************************************)
PhiChoices(g, b) ==
  LET ps == SetToSortSeq(Preds(g, b), <)
  IN  { [i \in 1..Len(ps) |-> [blk |-> ps[i],
                               val |-> IF f[i] THEN DefVal(ps[i]) ELSE Undef]]
        : f \in [1..Len(ps) -> BOOLEAN] }

PhiPrefixes(g, b) ==
  {<<>>} \cup
  IF b = Entry \/ Preds(g, b) = {} THEN {}
  ELSE { <<[kind |-> "phi", res |-> PhiVal(b), inc |-> inc]>> : inc \in PhiChoices(g, b) }

(* The nearest strict dominator of a non-entry block.                      *)
IDom(g, b) ==
  LET sdom == {x \in Blocks \ {b} : Dominates(g, x, b)}
  IN  CHOOSE d \in sdom : \A x \in sdom : Dominates(g, x, d)

Operand(g, b, phis) ==
  CASE phis # <<>> -> PhiVal(b)
    [] b # Entry   -> DefVal(IDom(g, b))
    [] OTHER       -> Const32

TermKinds(g, b) ==
  CASE Len(g[b]) = 0 -> {"Return"}
    [] Len(g[b]) = 1 -> {"Branch"}
    [] Len(g[b]) = 2 -> {"Condition", "Switch"}
    [] OTHER         -> {"Switch"}

BlockProgs(g, b) ==
  UNION { { [instrs |-> phis \o <<[kind |-> "op", res |-> DefVal(b),
                                   args |-> <<Operand(g, b, phis), IntConst(w, 1)>>]>>,
            term |-> t] : t \in TermKinds(g, b), w \in ConstWidths }
          : phis \in PhiPrefixes(g, b) }

RECURSIVE ProgsOver(_, _)
ProgsOver(g, bs) ==
  IF bs = {} THEN {[x \in {} |-> 0]}
  ELSE LET b == CHOOSE x \in bs : TRUE
       IN  { (b :> p) @@ r : p \in BlockProgs(g, b), r \in ProgsOver(g, bs \ {b}) }

-----------------------------------------------------------------------------
St == [vm |-> value_map, nid |-> next_id, mod |-> module_ids, last |-> 0]

SetSt(s) == /\ value_map' = s.vm
            /\ next_id' = s.nid
            /\ module_ids' = s.mod

-----------------------------------------------------------------------------
(* Faulty variant: blocks lowered in the reverse of visit_order.           *)
LoweringOrderReversed == Reverse(visit_order)

(* for (auto *bb : visit_order)                                            *)
LoweringOrder == visit_order

CurBlock == LoweringOrder[vi]
CurNode  == bb_map[CurBlock]
CurInstr == prog[CurBlock].instrs[ii]

LInit ==
  /\ DiscInit
  /\ OnlyReachable => Reachable = Blocks
  /\ prog \in ProgsOver(succs, Blocks)
  /\ value_map = [x \in {} |-> 0]
  /\ next_id = 1
  /\ module_ids = {}
  /\ emitted = <<>>
  /\ term = [n \in 1..Cardinality(Blocks) |-> [type |-> "None", cond |-> 0, targets |-> <<>>]]
  /\ vi = 1
  /\ ii = 1
  /\ lpc = "lower"

InstrStep ==
  /\ pc = "done"
  /\ lpc = "lower"
  /\ vi <= Len(LoweringOrder)
  /\ ii <= Len(prog[CurBlock].instrs)

(* incoming.block = bb_map[instruction.getIncomingBlock(i)]->node          *)
incoming_node(phi_block, inc_block) == bb_map[inc_block]

(***************************************************************************)
(* emit_phi_instruction: the phi's id, then per incoming entry the node of *)
(* the incoming block and the id of the value; the record goes to ir.phi,  *)
(* not to ir.operations.  An incoming block that was never discovered has  *)
(* no entry in bb_map: operator[] inserts a null BlockMeta and ->node      *)
(* dereferences it.                                                        *)
(***************************************************************************)
EmitPhi ==
  /\ InstrStep
  /\ CurInstr.kind = "phi"
  /\ IF \E e \in ToSet(CurInstr.inc) : e.blk \notin DOMAIN bb_map
     THEN /\ lpc' = "crashed"
          /\ UNCHANGED <<prog, value_map, next_id, module_ids, emitted, term, vi, ii>>
     ELSE LET s1 == get_id_for_value(St, CurInstr.res, 0)
              step(acc, e) ==
                LET s == get_id_for_value(acc.st, e.val, 0)
                IN  [st |-> s,
                     inc |-> Append(acc.inc, [block |-> incoming_node(CurBlock, e.blk),
                                              id |-> s.last])]
              r == FoldLeft(step, [st |-> s1, inc |-> <<>>], CurInstr.inc)
          IN  /\ SetSt(r.st)
              /\ emitted' = Append(emitted, [kind |-> "phi", node |-> CurNode,
                                             id |-> s1.last, inc |-> r.inc])
              /\ ii' = ii + 1
              /\ UNCHANGED <<prog, term, vi, lpc>>
  /\ UNCHANGED disc_vars

(***************************************************************************)
(* emit_binary_instruction (and the other one-result operations): result  *)
(* id, operand ids in order, one Operation appended to the node.           *)
(***************************************************************************)
EmitOp ==
  /\ InstrStep
  /\ CurInstr.kind = "op"
  /\ LET s0 == get_id_for_value(St, CurInstr.res, 0)
         s1 == get_id_for_value(s0, CurInstr.args[1], 0)
         s2 == get_id_for_value(s1, CurInstr.args[2], 0)
     IN  /\ SetSt(s2)
         /\ emitted' = Append(emitted, [kind |-> "op", node |-> CurNode, id |-> s0.last,
                                        args |-> <<s1.last, s2.last>>])
  /\ ii' = ii + 1
  /\ UNCHANGED <<prog, term, vi, lpc>>
  /\ UNCHANGED disc_vars

(* Faulty variant: a switch lowered without its default target.            *)
switch_targets_cases_only(b) == [i \in 1..Len(succs[b]) - 1 |-> bb_map[succs[b][i + 1]]]

(* default_node = bb_map[getDefaultDest()], then one case per case_begin.. *)
(* case_end: LLVM lists the default destination as successor 0.            *)
switch_targets(b) == [i \in 1..Len(succs[b]) |-> bb_map[succs[b][i]]]

(***************************************************************************)
(* The terminator of the block, once its instructions are done: Branch to  *)
(* successor 0, Condition on the branch condition to successors 0 and 1,   *)
(* Switch on the condition, Return.  The condition is the block's own      *)
(* result, whose id is looked up through the value table.                  *)
(***************************************************************************)
LowerTerminator ==
  /\ pc = "done"
  /\ lpc = "lower"
  /\ vi <= Len(LoweringOrder)
  /\ ii > Len(prog[CurBlock].instrs)
  /\ LET b    == CurBlock
         kind == prog[b].term
         s    == IF kind \in {"Condition", "Switch"}
                 THEN get_id_for_value(St, DefVal(b), 0) ELSE St
         tgts == CASE kind = "Branch"    -> <<bb_map[succs[b][1]]>>
                   [] kind = "Condition" -> <<bb_map[succs[b][1]], bb_map[succs[b][2]]>>
                   [] kind = "Switch"    -> switch_targets(b)
                   [] OTHER              -> <<>>
         t    == [type |-> kind, cond |-> s.last, targets |-> tgts]
     IN  /\ term' = [term EXCEPT ![CurNode] = t]
         /\ SetSt(s)
         /\ emitted' = Append(emitted, [kind |-> "term", node |-> CurNode,
                                        args |-> IF s.last = 0 THEN <<>> ELSE <<s.last>>])
  /\ vi' = vi + 1
  /\ ii' = 1
  /\ UNCHANGED <<prog, lpc>>
  /\ UNCHANGED disc_vars

(* Every block of visit_order is lowered: convert_entry_point returns.     *)
FinishLowering ==
  /\ pc = "done"
  /\ lpc = "lower"
  /\ vi > Len(LoweringOrder)
  /\ lpc' = "returned"
  /\ UNCHANGED <<prog, value_map, next_id, module_ids, emitted, term, vi, ii>>
  /\ UNCHANGED disc_vars

LNext ==
  \/ DiscNext /\ UNCHANGED lower_vars
  \/ EmitPhi
  \/ EmitOp
  \/ LowerTerminator
  \/ FinishLowering

(* One thread runs convert_entry_point to the end: weak fairness.          *)
LSpec == LInit /\ [][LNext]_vars /\ WF_vars(LNext)

-----------------------------------------------------------------------------
Defs == {i \in DOMAIN emitted : emitted[i].kind \in {"op", "phi"}}

UsesOf(e) ==
  CASE e.kind = "phi" -> {x.id : x \in ToSet(e.inc)}
    [] OTHER          -> ToSet(e.args)

(***************************************************************************)
(* When convert_entry_point returns, the ids form a consistent SSA web: no *)
(* two operations or phis define the same id, and every id an operation,   *)
(* phi or terminator uses is defined by one of them or is a module-scope   *)
(* constant/undef.  This needs the value table to give a forward reference *)
(* (a phi naming a value of a block lowered later) the id the defining     *)
(* instruction will take.                                                  *)
(***************************************************************************)
IdsConsistent ==
  lpc = "returned" =>
    /\ \A i, j \in Defs : i # j => emitted[i].id # emitted[j].id
    /\ \A i \in DOMAIN emitted :
         UsesOf(emitted[i]) \subseteq {emitted[j].id : j \in Defs} \cup module_ids

(***************************************************************************)
(* Forward references arise only through phis: an operation or terminator  *)
(* uses only ids already defined earlier in the lowering (or module-scope  *)
(* ids).  This is what lowering in visit_order buys: a block is lowered    *)
(* after all of its dominators.                                            *)
(***************************************************************************)
ForwardRefsOnlyFromPhis ==
  \A i \in DOMAIN emitted :
    emitted[i].kind # "phi" =>
      \A a \in UsesOf(emitted[i]) :
        a \in module_ids \/ \E j \in Defs : j < i /\ emitted[j].id = a

(***************************************************************************)
(* When convert_entry_point returns, every node has a terminator whose     *)
(* targets are exactly the successors add_branch registered for it during  *)
(* discovery: the structurizer reads both and relies on them agreeing.     *)
(***************************************************************************)
TerminatorsMatchEdges ==
  lpc = "returned" =>
    \A b \in DOMAIN bb_map :
      /\ term[bb_map[b]].type # "None"
      /\ ToSet(term[bb_map[b]].targets) = node_succ[bb_map[b]]

(***************************************************************************)
(* Lowering a phi never dereferences the null BlockMeta that bb_map[]      *)
(* inserts for a block discovery never reached.                            *)
(***************************************************************************)
NoNullBlockMeta == lpc # "crashed"
=============================================================================
