---------------------------- MODULE MCOrphanPool ----------------------------
(* A small instance of OrphanPool: two branches of four blocks and room    *)
(* for two orphans, three when the last one comes.  The heights are those  *)
(* of the tree but for one block that claims too small a height.           *)
EXTENDS OrphanPool, TLC

CONSTANTS g, a1, a2, a3, a4, b1, b2, b3, b4

MCBlock == {a1, a2, a3, a4, b1, b2, b3, b4}
MCPrev == a1 :> g @@ a2 :> a1 @@ a3 :> a2 @@ a4 :> a3 @@
          b1 :> g @@ b2 :> b1 @@ b3 :> b2 @@ b4 :> b3
MCHeight == g :> 0 @@ a1 :> 1 @@ a2 :> 2 @@ a3 :> 3 @@ a4 :> 4 @@
            b1 :> 1 @@ b2 :> 2 @@ b3 :> 3 @@ b4 :> 3
MCTrueHeight == [MCHeight EXCEPT ![b4] = 4]
=============================================================================
