--------------------------- MODULE MCCheckpoints ---------------------------
(* A small instance of Checkpoints: the operator signs blocks of the       *)
(* branch of a's, a shorter one leaves it above its first block, another   *)
(* one leaves at the genesis block.                                        *)
EXTENDS Checkpoints, TLC

CONSTANTS g, a1, a2, a3, c2, b1, b2

MCBlock == {g, a1, a2, a3, c2, b1, b2}
MCPrev == g :> g @@ a1 :> g @@ a2 :> a1 @@ a3 :> a2 @@ c2 :> a1
          @@ b1 :> g @@ b2 :> b1
MCAnc[b \in MCBlock] == {b} \cup (IF b = g THEN {} ELSE MCAnc[MCPrev[b]])
(* b1 took more work than a1 and c2 together, so that the branch from the  *)
(* genesis block may be the better one at every height, and better than a  *)
(* longer one; the rest is equal.                                          *)
MCWork == [b \in MCBlock |-> 2 * Cardinality(MCAnc[b]) + (IF b1 \in MCAnc[b] THEN 3 ELSE 0)]
MCAddress == g :> 0 @@ a1 :> 4 @@ a2 :> 5 @@ a3 :> 6 @@ c2 :> 7
             @@ b1 :> 1 @@ b2 :> 2
=============================================================================
