--------------------------- MODULE MCClientPickup ---------------------------
(***************************************************************************)
(* A Client that gets two transactions and nothing else, for TLC.           *)
(***************************************************************************)
EXTENDS Client

TwoTransactions == {[nonce |-> 0, price |-> 10], [nonce |-> 1, price |-> 10]}
=============================================================================
