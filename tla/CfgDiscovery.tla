---------------------------- MODULE CfgDiscovery ----------------------------
(***************************************************************************)
(* The CFG discovery loop of Converter::Impl::convert_entry_point          *)
(* (src/dxil_converter.cpp): a CFGNode is created for the entry block, then *)
(* the HLIR CFG is walked round by round (to_process is swapped into       *)
(* processing), each visited block is appended to visit_order, a node is   *)
(* allocated for every successor seen for the first time, and every edge   *)
(* is registered with add_branch.                                          *)
(*                                                                         *)
(* The HLIR CFG (llvm::succ_begin .. succ_end of every block) is the       *)
(* variable succs, chosen in Init and never changed.  A CFGNode is an      *)
(* index 1..node_count into the node pool.                                 *)
(***************************************************************************)
EXTENDS Naturals, Sequences, FiniteSets, SequencesExt, Functions

CONSTANTS
  Blocks,       (* HLIR basic blocks of the entry function.              *)
  Entry,        (* func->getEntryBlock().                                *)
  MaxSuccs      (* longest successor list of a terminator in the model. *)

ASSUME Entry \in Blocks
ASSUME MaxSuccs \in Nat

VARIABLES
  succs,        (* [Blocks -> Seq(Blocks)]: the HLIR successor lists.    *)
  bb_map,       (* discovered block -> its CFGNode (BlockMeta::node).    *)
  node_count,   (* nodes created by pool.create_node().                  *)
  node_succ,    (* CFGNode -> set of CFGNodes registered by add_branch.  *)
  to_process,
  processing,
  visit_order,
  cur,          (* position in processing of the block being visited.   *)
  si,           (* position in the successor list of that block.        *)
  pc

disc_vars == <<succs, bb_map, node_count, node_succ, to_process, processing,
               visit_order, cur, si, pc>>

(***************************************************************************)
(* The LLVM CFGs the converter can be given: a successor list per block    *)
(* (0 for ret/unreachable, 1 for br, 2 for a conditional br, more for a    *)
(* switch; repeated targets are legal) and no edge into the entry block,   *)
(* which LLVM forbids.                                                     *)
(***************************************************************************)
HlirCfgs == [Blocks -> BoundedSeq(Blocks \ {Entry}, MaxSuccs)]

SuccSet(g, b) == ToSet(g[b])

(* Blocks reachable from the entry block: the reference definition.        *)
RECURSIVE ReachFrom(_, _)
ReachFrom(g, S) ==
  LET next == S \cup UNION {SuccSet(g, b) : b \in S}
  IN  IF next = S THEN S ELSE ReachFrom(g, next)

Reachable == ReachFrom(succs, {Entry})

(* CFGNode::add_branch (node.hpp): records the edge from -> to once.       *)
add_branch(ns, from, to) == [ns EXCEPT ![from] = @ \cup {to}]

(***************************************************************************)
(* Init: the entry block gets the first node of the pool and is the only   *)
(* block in to_process.                                                    *)
(***************************************************************************)
DiscInit ==
  /\ succs \in HlirCfgs
  /\ bb_map = (Entry :> 1)
  /\ node_count = 1
  /\ node_succ = (1 :> {})
  /\ to_process = <<Entry>>
  /\ processing = <<>>
  /\ visit_order = <<>>
  /\ cur = 0
  /\ si = 0
  /\ pc = "while"

(* while (!to_process.empty()) { std::swap(to_process, processing); ...    *)
StartRound ==
  /\ pc = "while"
  /\ to_process # <<>>
  /\ processing' = to_process
  /\ to_process' = processing
  /\ cur' = 1
  /\ pc' = "for"
  /\ UNCHANGED <<succs, bb_map, node_count, node_succ, visit_order, si>>

(* The while loop ends: every block has a node.                            *)
EndDiscovery ==
  /\ pc = "while"
  /\ to_process = <<>>
  /\ pc' = "done"
  /\ UNCHANGED <<succs, bb_map, node_count, node_succ, to_process, processing,
                 visit_order, cur, si>>

(* for (auto *block : processing) { visit_order.push_back(block); ...      *)
VisitBlock ==
  /\ pc = "for"
  /\ cur <= Len(processing)
  /\ visit_order' = Append(visit_order, processing[cur])
  /\ si' = 1
  /\ pc' = "succ"
  /\ UNCHANGED <<succs, bb_map, node_count, node_succ, to_process, processing, cur>>

(* Faulty variant: the walk stops after the first round.                    *)
EndRoundAndStop ==
  /\ pc = "for"
  /\ cur > Len(processing)
  /\ processing' = <<>>
  /\ pc' = "done"
  /\ UNCHANGED <<succs, bb_map, node_count, node_succ, to_process, visit_order, cur, si>>

(* processing.clear() once the round is over.                              *)
EndRound ==
  /\ pc = "for"
  /\ cur > Len(processing)
  /\ processing' = <<>>
  /\ pc' = "while"
  /\ UNCHANGED <<succs, bb_map, node_count, node_succ, to_process, visit_order, cur, si>>

(* Faulty variant: add_branch called only inside the new-successor branch, *)
(* so edges to already discovered blocks are lost.                          *)
VisitSuccEdgeOnlyWhenNew ==
  /\ pc = "succ"
  /\ si <= Len(succs[processing[cur]])
  /\ LET block == processing[cur]
         succ  == succs[block][si]
         new   == succ \notin DOMAIN bb_map
         map2  == IF new THEN bb_map @@ (succ :> node_count + 1) ELSE bb_map
         ns2   == IF new THEN node_succ @@ (node_count + 1 :> {}) ELSE node_succ
     IN  /\ to_process' = IF new THEN Append(to_process, succ) ELSE to_process
         /\ node_count' = IF new THEN node_count + 1 ELSE node_count
         /\ bb_map' = map2
         /\ node_succ' = IF new THEN add_branch(ns2, map2[block], map2[succ]) ELSE ns2
  /\ si' = si + 1
  /\ UNCHANGED <<succs, processing, visit_order, cur, pc>>

(* Faulty variant: pool.create_node() hoisted out of the new-successor     *)
(* branch, so every edge allocates a node.                                  *)
VisitSuccNodePerEdge ==
  /\ pc = "succ"
  /\ si <= Len(succs[processing[cur]])
  /\ LET block == processing[cur]
         succ  == succs[block][si]
         new   == succ \notin DOMAIN bb_map
         map2  == IF new THEN bb_map @@ (succ :> node_count + 1) ELSE bb_map
         ns2   == node_succ @@ (node_count + 1 :> {})
     IN  /\ to_process' = IF new THEN Append(to_process, succ) ELSE to_process
         /\ node_count' = node_count + 1
         /\ bb_map' = map2
         /\ node_succ' = add_branch(ns2, map2[block], map2[succ])
  /\ si' = si + 1
  /\ UNCHANGED <<succs, processing, visit_order, cur, pc>>

(***************************************************************************)
(* One successor of the block being visited: a block not yet in bb_map is  *)
(* queued and given a new node; the edge is registered in every case.      *)
(***************************************************************************)
VisitSucc ==
  /\ pc = "succ"
  /\ si <= Len(succs[processing[cur]])
  /\ LET block == processing[cur]
         succ  == succs[block][si]
         new   == succ \notin DOMAIN bb_map
         map2  == IF new THEN bb_map @@ (succ :> node_count + 1) ELSE bb_map
         ns2   == IF new THEN node_succ @@ (node_count + 1 :> {}) ELSE node_succ
     IN  /\ to_process' = IF new THEN Append(to_process, succ) ELSE to_process
         /\ node_count' = IF new THEN node_count + 1 ELSE node_count
         /\ bb_map' = map2
         /\ node_succ' = add_branch(ns2, map2[block], map2[succ])
  /\ si' = si + 1
  /\ UNCHANGED <<succs, processing, visit_order, cur, pc>>

(* All successors of the block are done; go to the next one.               *)
EndBlock ==
  /\ pc = "succ"
  /\ si > Len(succs[processing[cur]])
  /\ cur' = cur + 1
  /\ pc' = "for"
  /\ UNCHANGED <<succs, bb_map, node_count, node_succ, to_process, processing,
                 visit_order, si>>

DiscNext ==
  \/ StartRound
  \/ EndDiscovery
  \/ VisitBlock
  \/ EndRound
  \/ VisitSucc
  \/ EndBlock

(***************************************************************************)
(* convert_entry_point runs on one thread from start to end and never      *)
(* waits: weak fairness on its steps.                                      *)
(***************************************************************************)
DiscSpec == DiscInit /\ [][DiscNext]_disc_vars /\ WF_disc_vars(DiscNext)

-----------------------------------------------------------------------------
DiscTypeOK ==
  /\ succs \in HlirCfgs
  /\ node_count \in 1..Cardinality(Blocks)
  /\ bb_map \in [DOMAIN bb_map -> 1..node_count]
  /\ DOMAIN bb_map \subseteq Blocks
  /\ node_succ \in [1..node_count -> SUBSET (1..node_count)]
  /\ to_process \in Seq(Blocks)
  /\ processing \in Seq(Blocks)
  /\ visit_order \in Seq(Blocks)
  /\ pc \in {"while", "for", "succ", "done"}

(***************************************************************************)
(* When the walk of convert_entry_point ends, the node pool is the HLIR    *)
(* CFG restricted to the reachable blocks: exactly the reachable blocks    *)
(* have nodes, distinct blocks have distinct nodes and every node was      *)
(* created for a block, each node's successors (add_branch) are the nodes  *)
(* of its block's HLIR successors, back edges and repeated targets         *)
(* included, and visit_order lists every reachable block exactly once.     *)
(***************************************************************************)
DiscoveryFaithful ==
  pc = "done" =>
    /\ DOMAIN bb_map = Reachable
    /\ IsInjective(bb_map)
    /\ Range(bb_map) = 1..node_count
    /\ \A b \in DOMAIN bb_map :
         node_succ[bb_map[b]] = {bb_map[s] : s \in SuccSet(succs, b)}
    /\ Len(visit_order) = Cardinality(Reachable)
    /\ ToSet(visit_order) = Reachable

(***************************************************************************)
(* The walk as an abstract discovery of the reachable set (CfgReach):      *)
(* the discovered set is DOMAIN bb_map and the walk is finished at "done". *)
(***************************************************************************)
Abstract == INSTANCE CfgReach WITH
  cfg <- succs, discovered <- DOMAIN bb_map, closed <- (pc = "done")

(* The walk refines CfgReach: it only discovers successors of discovered   *)
(* blocks, stops only once the discovered set is closed under successors,  *)
(* and does stop.                                                          *)
RefinesCfgReach == Abstract!Spec

=============================================================================
