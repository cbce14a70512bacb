---------------------------- MODULE MCForkViews ----------------------------
(* A small instance of ForkViews: a branch that ends in a good block and a *)
(* bad one, and another that leaves it above its first block.              *)
EXTENDS ForkViews, TLC

CONSTANTS g, a1, a2, a3, a4, x, b1, b2, k1, k2

MCBlock == {g, a1, a2, a3, a4, x, b1, b2}
MCPrev == g :> g @@ a1 :> g @@ a2 :> a1 @@ a3 :> a2 @@ a4 :> a3 @@ x :> a3 @@ b1 :> a1
          @@ b2 :> b1
MCAnc[b \in MCBlock] == {b} \cup (IF b = g THEN {} ELSE MCAnc[MCPrev[b]])
MCWork == [b \in MCBlock |-> Cardinality(MCAnc[b])]
MCWrites == g :> {k1, k2} @@ a1 :> {k1} @@ a2 :> {k2} @@ a3 :> {k2} @@ a4 :> {k1}
            @@ x :> {k1, k2} @@ b1 :> {k1} @@ b2 :> {k2}

(* A view that went astray is followed no further: the next clear drops    *)
(* it, and until then JudgedOnParent promises nothing.                     *)
Settled == astray = {}
=============================================================================
