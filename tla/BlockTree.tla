----------------------------- MODULE BlockTree -----------------------------
(* The tree that hashPrevBlock makes of all blocks there are, with the     *)
(* work that decides between its branches.                                 *)
EXTENDS Integers, FiniteSets

CONSTANTS
    Block,      \* every block there is, identified by its hash
    Genesis,
    Nil,        \* a CChain without a tip
    Prev,       \* hashPrevBlock; Prev[Genesis] is irrelevant
    Anc,        \* a block and all its ancestors: the CChain whose tip it is
    Work        \* m_cChainWork

(* m_pPrevBlockIndex makes a tree whose root is the genesis block, and     *)
(* GetBlockProof is positive.                                              *)
ASSUME TreeAssumption ==
    /\ Genesis \in Block
    /\ Nil \notin Block
    /\ Prev \in [Block -> Block]
    /\ Anc \in [Block -> SUBSET Block]
    /\ Work \in [Block -> Nat]
    /\ Anc[Genesis] = {Genesis}
    /\ \A b \in Block \ {Genesis} :
          /\ b \notin Anc[Prev[b]]
          /\ Anc[b] = {b} \cup Anc[Prev[b]]
    /\ \A b \in Block :
          /\ {b, Genesis} \subseteq Anc[b]
          /\ \A a \in Anc[b] : Anc[a] \subseteq Anc[b] /\ (a # b => Work[a] < Work[b])
          /\ \A a, c \in Anc[b] : a \in Anc[c] \/ c \in Anc[a]

(* CChain::Contains of the chain with this tip. *)
Contains(tip, b) == b \in Anc[tip]

(* m_nHeight *)
Height(b) == Cardinality(Anc[b]) - 1
=============================================================================
