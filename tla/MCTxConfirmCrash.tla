-------------------------- MODULE MCTxConfirmCrash --------------------------
(* A small instance of TxConfirmCrash: one transaction that may be         *)
(* confirmed at three consecutive heights and a window of three blocks, of *)
(* which VerifyDB checks the last two (in the program 289 of 500).         *)
EXTENDS TxConfirmCrash, TLC

CONSTANTS t1, n1

MCTx == {t1}
MCValidHeight == t1 :> 2
MCNonce == {n1}
=============================================================================
