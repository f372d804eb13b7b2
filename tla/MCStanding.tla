----------------------------- MODULE MCStanding -----------------------------
(* The watched proxy on the tables and the upstreams of MCPayProxy.         *)
EXTENDS MCPayProxy, Standing

WatchedLiveSpec == WatchedSpec /\ Fairness

\* A user assigned to a wallet, and an administrator who may do anything.
WatchedSeededSpec ==
  /\ SeededInit /\ stood = [c \in Conns |-> Nothing]
  /\ [][WatchedNext]_watchedVars
=============================================================================
