-------------------------------- MODULE Nonces --------------------------------
(***************************************************************************)
(* The nonces of one account at one processor (masternode), as             *)
(* transaction.py checks them and storage.py keeps them.  A missing nonce  *)
(* or pending nonce is 0, as get_nonces makes it.                          *)
(***************************************************************************)
EXTENDS Integers, Sequences

CONSTANT TxPerBlock     \* tx_per_block

ASSUME NoncesAssumption == TxPerBlock \in Nat \ {0}

Larger(a, b) == IF a > b THEN a ELSE b

\* get_new_pending_nonce does not find too many pending transactions.
RoomFor(txNonce, nonce, pending) ==
    /\ txNonce - nonce <= TxPerBlock
    /\ pending - nonce < TxPerBlock

\* A bug to catch: the webserver, too, lets any later nonce pass.
AdmitsAnyLater(txNonce, nonce, pending) ==
    RoomFor(txNonce, nonce, pending) /\ txNonce >= nonce

\* get_new_pending_nonce, strict: the nonce is the next one.
Admits(txNonce, nonce, pending) ==
    RoomFor(txNonce, nonce, pending) /\ txNonce = Larger(nonce, pending)

\* A bug to catch: without `strict`, the nonce is not looked at.
PassesAny(txNonce, nonce, pending) == RoomFor(txNonce, nonce, pending)

\* get_new_pending_nonce, not strict: the nonce has not been used.
Passes(txNonce, nonce, pending) ==
    RoomFor(txNonce, nonce, pending) /\ txNonce >= Larger(nonce, pending)

\* update_state_with_transaction, for the transactions txs of this account and
\* processor in a block: each with state changes writes its nonce + 1, whatever
\* was there; one without leaves the nonce alone.
CommittedNonce(txs, nonce) ==
    LET touching == {i \in DOMAIN txs : txs[i].changes}
    IN  IF touching = {} THEN nonce
        ELSE LET last == CHOOSE i \in touching : \A j \in touching : j <= i
             IN  txs[last].nonce + 1

\* ... and the pending nonce is reset when any of them has state changes.
CommittedPending(txs, pending) ==
    IF \E i \in DOMAIN txs : txs[i].changes THEN 0 ELSE pending
===============================================================================
