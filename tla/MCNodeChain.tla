----------------------------- MODULE MCNodeChain -----------------------------
(* Instances of NodeChain for TLC. *)
EXTENDS NodeChain, TLC

CONSTANTS MaxSeedQueue, MaxOtherQueue

\* How many NBNs wait at the seed, and at every other node (0: it receives none).
MCMaxQueue == [n \in Nodes |-> IF n = Seed THEN MaxSeedQueue ELSE MaxOtherQueue]

\* Bodies are interchangeable: no definition tells one from another.
MCSymmetry == Permutations(Bodies)
=============================================================================
