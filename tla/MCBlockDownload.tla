-------------------------- MODULE MCBlockDownload --------------------------
(* A small instance of BlockDownload: a branch of blocks, room for one     *)
(* orphan at the limit, two peers.                                         *)
EXTENDS BlockDownload

CONSTANTS g, a1, a2, p1, p2

MCBlock == {a1, a2}
MCPrev == a1 :> g @@ a2 :> a1
MCHeight == g :> 0 @@ a1 :> 1 @@ a2 :> 2
MCPeer == {p1, p2}
=============================================================================
