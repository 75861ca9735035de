------------------------------ MODULE CfgReach ------------------------------
(***************************************************************************)
(* What the CFG discovery of convert_entry_point promises, stated without  *)
(* queues or a node pool: starting from the entry block, a block is added  *)
(* to the discovered set only as a successor of a discovered block, and    *)
(* the walk is declared closed only when no successor of a discovered      *)
(* block is missing.  Under weak fairness the walk eventually closes.      *)
(***************************************************************************)
EXTENDS FiniteSets, SequencesExt

CONSTANTS Blocks, Entry, MaxSuccs

VARIABLES
  cfg,          (* [Blocks -> Seq(Blocks)]: the HLIR successor lists.    *)
  discovered,   (* blocks that have been given a CFGNode.                *)
  closed        (* TRUE once the walk has ended.                         *)

vars == <<cfg, discovered, closed>>

Succ(b) == ToSet(cfg[b])

Init ==
  /\ cfg \in [Blocks -> BoundedSeq(Blocks \ {Entry}, MaxSuccs)]
  /\ discovered = {Entry}
  /\ closed = FALSE

Discover ==
  /\ ~closed
  /\ \E b \in discovered, s \in Blocks :
       /\ s \in Succ(b) \ discovered
       /\ discovered' = discovered \cup {s}
  /\ UNCHANGED <<cfg, closed>>

Close ==
  /\ ~closed
  /\ \A b \in discovered : Succ(b) \subseteq discovered
  /\ closed' = TRUE
  /\ UNCHANGED <<cfg, discovered>>

Next == Discover \/ Close

Spec == Init /\ [][Next]_vars /\ WF_vars(Next)

=============================================================================
