------------------------------ MODULE MCTxPool ------------------------------
(* The instances of TxPool that TLC checks. *)
EXTENDS TxPool
=============================================================================
