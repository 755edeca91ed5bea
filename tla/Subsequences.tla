----------------------------- MODULE Subsequences -----------------------------
(***************************************************************************)
(* Parts of a sequence, taken by place.  (SelectSeq says the same for a    *)
(* test of the elements, but its definition is recursive: what it returns  *)
(* is not provable for all sequences.)                                     *)
(***************************************************************************)
EXTENDS Naturals, FiniteSets

\* The n-th of a finite set of natural numbers, counting from 1.
Nth(I, n) == CHOOSE i \in I : Cardinality({j \in I : j <= i}) = n

\* The elements of s at the places I, in the order they have in s.
AtPlaces(s, I) == [n \in 1 .. Cardinality(I) |-> s[Nth(I, n)]]
===============================================================================
