----------------------------- MODULE TxConfirm -----------------------------
(***************************************************************************)
(* How a node knows that a transaction is already confirmed.               *)
(*                                                                         *)
(* There are no spent outputs in this account-based chain: what stops a    *)
(* signed transaction from being executed twice is the pair                *)
(*   - CBaseTransaction::IsValidHeight: a transaction may only enter a     *)
(*     block whose parent's height is within CacheHeight / 2 of the        *)
(*     height written in the transaction, and                              *)
(*   - CTransactionDBCache: the transaction hashes of the last blocks of   *)
(*     the active chain, consulted by ConnectBlock, moved by every         *)
(*     ConnectBlock and DisconnectBlock, written to its own database by    *)
(*     WriteChainState and read back when the program starts.              *)
(* The genesis block (height 0) is never put into the cache and is not an  *)
(* element of "chain": the block of height h is chain[h].  A node that     *)
(* fails between two steps is the subject of TxConfirmCrash.               *)
(***************************************************************************)
EXTENDS Integers, Sequences

CONSTANTS
    Tx,           \* transactions other than the block rewards
    ValidHeight,  \* m_nValidHeight of each of them
    CacheHeight,  \* SysCfg().GetTxCacheHeight(), 500 in chainparams.cpp
    Nonce,        \* what makes blocks of the same height and contents differ
    MaxHeight     \* bound: no block is connected above this height

ASSUME CacheHeightAssumption == CacheHeight \in Nat \ {0}
ASSUME ValidHeightAssumption == ValidHeight \in [Tx -> Int]
ASSUME MaxHeightAssumption == MaxHeight \in Nat

VARIABLES
    chain,   \* g_cChainActive without the genesis block
    cached,  \* blocks with a non-empty entry in g_pTxCacheTip
    tomb,    \* blocks with an empty entry in g_pTxCacheTip: deleted, not yet flushed
    db       \* blocks with a row in the database below g_pTxCacheTip

vars == <<chain, cached, tomb, db>>

(* A block: its reward transaction is left out, the rest has no duplicates *)
(* (CheckBlock rejects "duplicate transaction").  The parent is not part   *)
(* of the identity, Nonce stands for everything else a hash depends on.    *)
Block == [height : Nat \ {0}, txs : SUBSET Tx, nonce : Nonce]

(* A map gives a hash one value: no block is both present and deleted.     *)
TypeOK ==
    /\ chain \in Seq(Block)
    /\ cached \in SUBSET Block
    /\ tomb \in SUBSET Block
    /\ db \in SUBSET Block
    /\ cached \cap tomb = {}

-----------------------------------------------------------------------------
(* The names that end in a deviation (Wide, Kept, ...), here and below, are *)
(* faulty variants of the definition that follows; nothing refers to them. *)
IsValidHeightWide(t, cur) ==
    /\ ValidHeight[t] <= cur + CacheHeight
    /\ ValidHeight[t] >= cur - CacheHeight

(* CBaseTransaction::IsValidHeight, for any transaction but a reward.      *)
IsValidHeight(t, cur) ==
    /\ ValidHeight[t] <= cur + (CacheHeight \div 2)
    /\ ValidHeight[t] >= cur - (CacheHeight \div 2)

(* CTransactionDBCache::IsContainTx of the tip cache.  The database below  *)
(* it inherits CTransactionDBView::IsContainTx, which always answers "no". *)
IsContainTx(t) == \E b \in cached : t \in b.txs

(* CTransactionDBCache::IsContainBlock; the database answers "no" as well. *)
IsContainBlock(b) == b \in cached

(* The block of height h - CacheHeight of chain s, if there is one and it  *)
(* is not the genesis block: what the connection of height h pushes out of *)
(* the cache and its disconnection brings back.                            *)
AtWindowEdge(s, h) == IF h - CacheHeight > 0 THEN {s[h - CacheHeight]} ELSE {}

(* What the cache has to hold on top of chain s: its last CacheHeight blocks. *)
Recent(s) == {s[i] : i \in {j \in 1..Len(s) : j > Len(s) - CacheHeight}}

-----------------------------------------------------------------------------
DeletionsKept(in, out) == tomb \cup out

(* AddBlockToCache(in) and DeleteBlockFromCache(out) one after the other:  *)
(* the entries and the deletion marks they leave.                          *)
Entries(in, out)   == (cached \cup in) \ out
Deletions(in, out) == (tomb \ in) \cup out

(* CTransactionDBCache::Flush over CTransactionDB::BatchWrite: an empty    *)
(* entry erases its row, any other is written if it has none.              *)
BatchWrite(rows, in, out) == (rows \ out) \cup in

(* The part of WriteChainState about this cache, with the two sets the     *)
(* connection or disconnection just computed.  Whether it runs at all      *)
(* depends on the clock, the cache sizes and IsInitialBlockDownload.       *)
WriteChainState(in, out) ==
    \/ /\ db' = BatchWrite(db, in, out)
       /\ cached' = in
       /\ tomb' = {}
    \/ /\ cached' = in
       /\ tomb' = out
       /\ db' = db

(* What ConnectBlock asks of the transactions of b before executing them.  *)
TxsConnectable(b) ==
    \A t \in b.txs : ~IsContainTx(t) /\ IsValidHeight(t, Len(chain))

(* ConnectTip with the cache work of ConnectBlock.  DeleteBlockFromCache   *)
(* fails, and the node aborts, if the block to push out is not present.    *)
ConnectTip(b) ==
    LET edge == AtWindowEdge(Append(chain, b), b.height) IN
    /\ b.height = Len(chain) + 1
    /\ TxsConnectable(b)
    /\ \A e \in edge : IsContainBlock(e) \/ e = b
    /\ WriteChainState(Entries({b}, edge), Deletions({b}, edge))
    /\ chain' = Append(chain, b)

DisconnectTipNoReload ==
    LET h == Len(chain) IN
    /\ h > 0
    /\ IsContainBlock(chain[h])
    /\ WriteChainState(Entries({}, {chain[h]}), Deletions({}, {chain[h]}))
    /\ chain' = SubSeq(chain, 1, h - 1)

(* DisconnectTip with the cache work of DisconnectBlock.                   *)
DisconnectTip ==
    LET h    == Len(chain)
        edge == AtWindowEdge(chain, h)
    IN
    /\ h > 0
    /\ IsContainBlock(chain[h])
    /\ WriteChainState(Entries({}, {chain[h]}) \cup edge,
                       Deletions({}, {chain[h]}) \ edge)
    /\ chain' = SubSeq(chain, 1, h - 1)

(* Shutdown() flushes every cache; AppInit builds a new one and            *)
(* LoadTransaction copies every row of the database into it.               *)
RestartCleanly ==
    /\ db' = BatchWrite(db, cached, tomb)
    /\ cached' = db'
    /\ tomb' = {}
    /\ UNCHANGED chain

Init ==
    /\ chain = <<>>
    /\ cached = {}
    /\ tomb = {}
    /\ db = {}

(* A block that may follow the tip; the bound on the height is here.       *)
Candidate ==
    {[height |-> Len(chain) + 1, txs |-> T, nonce |-> n] :
        T \in SUBSET Tx, n \in IF Len(chain) < MaxHeight THEN Nonce ELSE {}}

Next ==
    \/ \E b \in Candidate : ConnectTip(b)
    \/ DisconnectTip
    \/ RestartCleanly

Spec == Init /\ [][Next]_vars

-----------------------------------------------------------------------------
(* No transaction is in two blocks of the active chain, whatever blocks    *)
(* were connected and disconnected: the valid-height window of             *)
(* IsValidHeight is never wider than what the cache remembers.             *)
NoDoubleConfirm ==
    \A i, j \in 1..Len(chain) : i # j => chain[i].txs \cap chain[j].txs = {}

(* ConnectBlock and AcceptToMemoryPool never take a transaction for        *)
(* confirmed that is in no block of the active chain: after a reorganisation *)
(* or a restart the cache holds nothing of a block that was left.          *)
NoFalseDuplicate ==
    \A t \in Tx : IsContainTx(t) => \E i \in 1..Len(chain) : t \in chain[i].txs

(* The cache follows the tip exactly: DeleteBlockFromCache, which aborts   *)
(* the node when the block is missing, always finds it, in ConnectBlock    *)
(* at the edge of the window and in DisconnectBlock at the tip.            *)
CacheIsWindow == cached = Recent(chain)
=============================================================================
