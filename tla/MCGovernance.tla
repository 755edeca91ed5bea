------------------------------ MODULE MCGovernance ------------------------------
(* Instances of Governance for TLC. *)
EXTENDS Governance

CONSTANTS a, b, c

MCFounders == << a, b >>
\* In halves of a percent; one split has half a percent less than nothing to burn.
MCFirstSplit == << 98, 98, 2, 2 >>
MCSplits == {<< 40, 60, 0, 100 >>, << 100, 100, -1, 1 >>}

\* a can pay for a stake and a vote, or three votes, c for a stake or two votes.
MCFunds == (a :> 3) @@ (b :> 0) @@ (c :> 2)

\* Candidacies are all of one day; elections end after one, upgrade votes after two.
MCMaxNow == [s \in Sessions |-> CASE s = "candidacies" -> 0 [] s = "upgrade" -> 2 [] OTHER -> 1]
=================================================================================
