---------------------------- MODULE MCAggregator ----------------------------
(* Instances of Aggregator for TLC. *)
EXTENDS Aggregator, TLC

CONSTANTS d1, d2, d3, r1, r2, m1, m2

MCDelegates == {d1, d2, d3}
MCResults == {r1, r2}
MCMasters == {m1, m2}
MCSymmetry ==
    Permutations(MCDelegates) \cup Permutations(MCResults) \cup Permutations(MCMasters)
=============================================================================
