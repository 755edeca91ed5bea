------------------------------ MODULE MCPipeline ------------------------------
(* Instances of Pipeline for TLC. *)
EXTENDS Pipeline

CONSTANTS m1, m2, d1, d2

\* One delegate and two masternodes; m2's batches hold nothing of the account.
RoundsMaxTxs == [m \in Processors |-> 3]
RoundsMaxFlight == (m1 :> 2) @@ (m2 :> 1)

\* Two delegates and one masternode.
DelegatesMaxTxs == [m \in Processors |-> 2]
DelegatesMaxFlight == [m \in Masters |-> 1]
Symmetry == Permutations(Delegates)
===============================================================================
