----------------------------- MODULE MCExecution -----------------------------
(* Instances of Execution for TLC. *)
EXTENDS Execution

CONSTANTS t1, t2, t3, t4, k1, k2

\* t1 and t3 write one key, which t3 reads; t2 and t4 touch nothing that another touches.
MCReads == (t1 :> {}) @@ (t2 :> {k2}) @@ (t3 :> {k1}) @@ (t4 :> {})
MCWrites == (t1 :> {k1}) @@ (t2 :> {}) @@ (t3 :> {k1}) @@ (t4 :> {})

\* Rounds of two batches: more transactions than workers, as many, fewer, none;
\* with t1 and t3 in one batch, in two batches, in two rounds.
MCWorks ==
    { << << t1, t2, t4 >>, << t2 >> >>, << << t3, t4 >>, << >> >>,
      << << t1 >>, << t3 >> >>, << << t1, t3 >> >> }
=============================================================================
