------------------------- MODULE MCChainActivation -------------------------
(* A small instance of ChainActivation: two branches of two and three      *)
(* blocks from the genesis block, all of the same work, and every choice   *)
(* of outcomes for them.                                                   *)
EXTENDS ChainActivation, TLC

CONSTANTS g, a1, a2, b1, b2, b3

MCBlock == {g, a1, a2, b1, b2, b3}
MCPrev == g :> g @@ a1 :> g @@ a2 :> a1 @@ b1 :> g @@ b2 :> b1 @@ b3 :> b2
MCAnc[b \in MCBlock] == {b} \cup (IF b = g THEN {} ELSE MCAnc[MCPrev[b]])
MCWork == [b \in MCBlock |-> Cardinality(MCAnc[b])]

(* The genesis block is alone at its height; one order puts every block of *)
(* the first branch before those of the second, the other after them.      *)
MCAddress ==
    {g :> 0 @@ a1 :> 1 @@ a2 :> 2 @@ b1 :> 3 @@ b2 :> 4 @@ b3 :> 5,
     g :> 0 @@ a1 :> 4 @@ a2 :> 5 @@ b1 :> 1 @@ b2 :> 2 @@ b3 :> 3}

(* ConnectBlock is never asked about a block above one it refused, so one  *)
(* verdict for each branch makes every case: its lowest invalid block, or  *)
(* none.  Beside these, one block may have no verdict.                     *)
AllValid == [b \in MCBlock |-> "valid"]
MCJudged == {v \in [MCBlock -> {"valid", "invalid"}] :
                /\ v[g] = "valid"
                /\ ~(v[a1] = "invalid" /\ v[a2] = "invalid")
                /\ Cardinality({b \in {b1, b2, b3} : v[b] = "invalid"}) <= 1}
MCUnjudged == {[AllValid EXCEPT ![b] = "unjudged"] : b \in {b1, b3}}
MCVerdicts == MCJudged \cup MCUnjudged

(* Nothing but the end of activations is promised once a block was         *)
(* condemned because another could not be read: no more blocks are         *)
(* recorded then than that takes.                                          *)
Unharmed == misread => index \subseteq {g, a1, b1, b2}

(* Addresses break ties of blocks read from disk only.                     *)
OnePlaceAtFirst == crashes = 0 => addr[a1] < addr[b1]
=============================================================================
