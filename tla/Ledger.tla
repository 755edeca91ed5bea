------------------------------- MODULE Ledger -------------------------------
(***************************************************************************)
(* What the nodes promise about the chains they have committed: a chain    *)
(* only grows, by one block at a time, and only with a block that some     *)
(* masternode built on exactly that chain, on top of its own.  The built   *)
(* blocks form a tree; a node's ledger is a path in it.  A chain is the    *)
(* sequence of its blocks' bodies, and names its last block.               *)
(***************************************************************************)
EXTENDS Sequences

CONSTANTS
    Nodes,      \* the nodes that keep a ledger
    Builders,   \* those that build blocks
    Bodies      \* what a block may contain

VARIABLES
    ledger,     \* ledger[n]: the chain node n has committed
    built       \* the chains that end in a block somebody built

vars == << ledger, built >>

Init ==
    /\ ledger = [n \in Nodes |-> << >>]
    /\ built = {}

\* A builder builds a block on its own chain; it need not commit it at once.
Build(n) ==
    /\ \E body \in Bodies : built' = built \cup {Append(ledger[n], body)}
    /\ UNCHANGED ledger

\* A node commits a block built on its chain, by itself or by another.
Extend(n) ==
    /\ \E body \in Bodies :
        /\ Append(ledger[n], body) \in built
        /\ ledger' = [ledger EXCEPT ![n] = Append(@, body)]
    /\ UNCHANGED built

Next == (\E n \in Builders : Build(n)) \/ (\E n \in Nodes : Extend(n))

Spec == Init /\ [][Next]_vars
=============================================================================
