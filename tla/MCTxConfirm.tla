---------------------------- MODULE MCTxConfirm ----------------------------
(* A small instance of TxConfirm: a window of two blocks and transactions  *)
(* whose valid heights put them at both ends of it.                        *)
EXTENDS TxConfirm, TLC

CONSTANTS t1, t2, n1

MCTx == {t1, t2}
MCValidHeight == t1 :> 2 @@ t2 :> 3
MCNonce == {n1}
=============================================================================
