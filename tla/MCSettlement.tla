---------------------------- MODULE MCSettlement ----------------------------
(* Settlement on the tables and the upstreams of MCPayProxy.                *)
EXTENDS MCPayProxy, Settlement

SettlingSpec ==
  /\ SeededInit /\ settled = {}
  /\ [][(PayingNext /\ UNCHANGED settled) \/ \E p \in signed : Settle(p)]_<<vars, settled>>
=============================================================================
