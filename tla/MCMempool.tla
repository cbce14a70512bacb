----------------------------- MODULE MCMempool -----------------------------
(* A small instance of Mempool: two accounts, one coin, and transactions   *)
(* that pass it on and conflict.                                           *)
EXTENDS Mempool

CONSTANTS t1, t2, t3, a, b

MCTx == {t1, t2, t3}
MCValidHeight == t1 :> 1 @@ t2 :> 2 @@ t3 :> 2
MCAccount == {a, b}
MCPayer == t1 :> a @@ t2 :> b @@ t3 :> a
MCPayee == t1 :> b @@ t2 :> a @@ t3 :> b
MCFunds == a :> 1 @@ b :> 0
MCHashOrder == <<t2, t1, t3>>
=============================================================================
