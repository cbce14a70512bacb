------------------------ MODULE TxConfirmCrash_proofs ------------------------
(***************************************************************************)
(* TxConfirm, and then TxConfirmCrash, which extends it: for every set of  *)
(* transactions, every assignment of valid heights, every CacheHeight > 0  *)
(* and VerifyDepth, chains of any length and any number of crashes.        *)
(***************************************************************************)
EXTENDS TxConfirmCrash, SequenceTheorems, TLAPS

-----------------------------------------------------------------------------
(* TxConfirm: no crash.                                                    *)

(* Every block of the chain sits at its own height.                        *)
HeightsInOrder == \A i \in 1..Len(chain) : chain[i].height = i

(* Every confirmed transaction was within its valid heights: its block's   *)
(* parent had the height ConnectBlock compared with.                       *)
ConfirmedInWindow ==
    \A i \in 1..Len(chain) : \A t \in chain[i].txs : IsValidHeight(t, i - 1)

(* A row of the database that is not in memory is marked for deletion, so  *)
(* that a flush leaves exactly what is in memory.                          *)
NoStrayRow == db \ tomb \subseteq cached

(* The inductive invariant.  NoDoubleConfirm alone is not inductive: a     *)
(* cache that lacked a recent block would let its transactions in again.   *)
IInv ==
    /\ TypeOK
    /\ HeightsInOrder
    /\ CacheIsWindow
    /\ ConfirmedInWindow
    /\ NoStrayRow
    /\ NoDoubleConfirm

-----------------------------------------------------------------------------
(* Two heights at which the same transaction is acceptable are at most     *)
(* CacheHeight apart: the off-by-one on which replay protection rests.     *)
LEMMA WindowSpan ==
    ASSUME NEW t \in Tx, NEW m \in Int, NEW n \in Int,
           IsValidHeight(t, m), IsValidHeight(t, n)
    PROVE  n - m <= CacheHeight
<1>1. ValidHeight[t] \in Int
  BY ValidHeightAssumption
<1>2. CacheHeight \div 2 \in Int /\ 2 * (CacheHeight \div 2) <= CacheHeight
  BY CacheHeightAssumption
<1>3. n - m <= 2 * (CacheHeight \div 2)
  BY <1>1, <1>2 DEF IsValidHeight
<1> QED
  BY <1>2, <1>3, CacheHeightAssumption

(* Membership in the window, without the set constructors.                 *)
LEMMA RecentElement ==
    ASSUME NEW s, NEW x
    PROVE  x \in Recent(s)
             <=> \E i \in 1..Len(s) : i > Len(s) - CacheHeight /\ x = s[i]
  BY DEF Recent

(* Likewise for the block at the edge of the window.                       *)
LEMMA EdgeElement ==
    ASSUME NEW s, NEW h, NEW x
    PROVE  x \in AtWindowEdge(s, h)
             <=> h - CacheHeight > 0 /\ x = s[h - CacheHeight]
  BY DEF AtWindowEdge

(* What connecting a block does to the part of the chain that is cached.   *)
LEMMA RecentAppend ==
    ASSUME NEW s \in Seq(Block), NEW b \in Block, b.height = Len(s) + 1,
           \A i \in 1..Len(s) : s[i].height = i
    PROVE  Recent(Append(s, b))
             = (Recent(s) \cup {b}) \ AtWindowEdge(Append(s, b), b.height)
<1> DEFINE u == Append(s, b)
           n == Len(u)
           edge == AtWindowEdge(u, n)
<1>1. /\ Len(s) = n - 1 /\ n \in Nat \ {0} /\ b.height = n
      /\ \A i \in 1..(n - 1) : u[i] = s[i]
      /\ u[n] = b
  OBVIOUS
<1>2. \A i \in 1..n : u[i].height = i
  BY <1>1
<1>3. \A x : x \in edge <=> n - CacheHeight > 0 /\ x = u[n - CacheHeight]
  BY EdgeElement
<1>4. \A x : x \in Recent(u) <=> \E i \in 1..n : i > n - CacheHeight /\ x = u[i]
  BY RecentElement
<1>5. \A x : x \in Recent(s)
               <=> \E i \in 1..Len(s) : i > Len(s) - CacheHeight /\ x = s[i]
  BY RecentElement
<1> HIDE DEF u, n, edge
<1>6. ASSUME NEW x \in Recent(u)
      PROVE  x \in (Recent(s) \cup {b}) \ edge
  <2>1. PICK i \in 1..n : i > n - CacheHeight /\ x = u[i]
    BY <1>4
  <2>2. x \in Recent(s) \cup {b}
    <3>1. CASE i = n
      BY <1>1, <2>1, <3>1
    <3>2. CASE i < n
      <4>1. i \in 1..Len(s) /\ i > Len(s) - CacheHeight /\ x = s[i]
        BY <1>1, <2>1, <3>2, CacheHeightAssumption
      <4> QED
        BY <1>5, <4>1
    <3> QED
      BY <1>1, <2>1, <3>1, <3>2
  <2>3. x \notin edge
    <3>1. SUFFICES ASSUME n - CacheHeight > 0, x = u[n - CacheHeight]
                   PROVE  FALSE
      BY <1>3
    <3>2. n - CacheHeight \in 1..n
      BY <1>1, <3>1, CacheHeightAssumption
    <3>3. i = n - CacheHeight
      BY <1>2, <2>1, <3>1, <3>2
    <3> QED
      BY <1>1, <2>1, <3>3, CacheHeightAssumption
  <2> QED
    BY <2>2, <2>3
<1>7. ASSUME NEW x \in (Recent(s) \cup {b}) \ edge
      PROVE  x \in Recent(u)
  <2>1. CASE x = b
    BY <1>1, <1>4, <2>1, CacheHeightAssumption
  <2>2. CASE x \in Recent(s)
    <3>1. PICK i \in 1..Len(s) : i > Len(s) - CacheHeight /\ x = s[i]
      BY <1>5, <2>2
    <3>2. i \in 1..n /\ x = u[i]
      BY <1>1, <3>1
    <3>3. i # n - CacheHeight
      BY <1>1, <1>3, <3>1, <3>2, CacheHeightAssumption
    <3> QED
      BY <1>1, <1>4, <3>1, <3>2, <3>3, CacheHeightAssumption
  <2> QED
    BY <2>1, <2>2
<1>8. Recent(u) = (Recent(s) \cup {b}) \ edge
  BY <1>6, <1>7
<1> QED
  BY <1>1, <1>8 DEF u, n, edge

(* The chain without its tip.                                              *)
LEMMA FrontOfChain ==
    ASSUME NEW s \in Seq(Block), Len(s) > 0
    PROVE  /\ SubSeq(s, 1, Len(s) - 1) \in Seq(Block)
           /\ Len(SubSeq(s, 1, Len(s) - 1)) = Len(s) - 1
           /\ \A i \in 1..(Len(s) - 1) : SubSeq(s, 1, Len(s) - 1)[i] = s[i]
<1> DEFINE n == Len(s)
           u == SubSeq(s, 1, n - 1)
<1>1. n \in Nat \ {0} /\ n - 1 \in Int /\ \A i \in 1..(n - 1) : s[i] \in Block
  OBVIOUS
<1>2. /\ u \in Seq(Block)
      /\ Len(u) = IF 1 <= n - 1 THEN n - 1 - 1 + 1 ELSE 0
      /\ \A i \in 1..(n - 1 - 1 + 1) : u[i] = s[1 + i - 1]
  BY <1>1, SubSeqProperties
<1> HIDE DEF n, u
<1>3. u \in Seq(Block) /\ Len(u) = n - 1 /\ \A i \in 1..(n - 1) : u[i] = s[i]
  BY <1>1, <1>2
<1> QED
  BY <1>3 DEF n, u

(* What disconnecting the tip does to it: the inverse.                     *)
LEMMA RecentFront ==
    ASSUME NEW s \in Seq(Block), Len(s) > 0,
           \A i \in 1..Len(s) : s[i].height = i
    PROVE  /\ s[Len(s)] \in Recent(s)
           /\ Recent(SubSeq(s, 1, Len(s) - 1))
                = (Recent(s) \ {s[Len(s)]}) \cup AtWindowEdge(s, Len(s))
<1> DEFINE n == Len(s)
           u == SubSeq(s, 1, n - 1)
           edge == AtWindowEdge(s, n)
<1>1. /\ n \in Nat \ {0}
      /\ Len(u) = n - 1
      /\ \A i \in 1..(n - 1) : u[i] = s[i]
  BY FrontOfChain
<1>2. \A x : x \in edge <=> n - CacheHeight > 0 /\ x = s[n - CacheHeight]
  BY EdgeElement
<1>3. \A x : x \in Recent(u)
               <=> \E i \in 1..Len(u) : i > Len(u) - CacheHeight /\ x = u[i]
  BY RecentElement
<1>4. \A x : x \in Recent(s) <=> \E i \in 1..n : i > n - CacheHeight /\ x = s[i]
  BY RecentElement
<1>5. \A i \in 1..n : s[i].height = i
  OBVIOUS
<1> HIDE DEF u, n, edge
<1>6. s[n] \in Recent(s)
  BY <1>1, <1>4, CacheHeightAssumption
<1>7. ASSUME NEW x \in Recent(u)
      PROVE  x \in (Recent(s) \ {s[n]}) \cup edge
  <2>1. PICK i \in 1..(n - 1) : i > n - 1 - CacheHeight /\ x = s[i]
    BY <1>1, <1>3
  <2>2. x # s[n]
    BY <1>1, <1>5, <2>1
  <2>3. CASE i > n - CacheHeight
    BY <1>1, <1>4, <2>1, <2>2, <2>3
  <2>4. CASE i = n - CacheHeight
    BY <1>1, <1>2, <2>1, <2>4, CacheHeightAssumption
  <2> QED
    BY <1>1, <2>1, <2>3, <2>4, CacheHeightAssumption
<1>8. ASSUME NEW x \in (Recent(s) \ {s[n]}) \cup edge
      PROVE  x \in Recent(u)
  <2>1. CASE x \in edge
    <3>1. n - CacheHeight \in 1..(n - 1) /\ x = s[n - CacheHeight]
      BY <1>1, <1>2, <2>1, CacheHeightAssumption
    <3> QED
      BY <1>1, <1>3, <3>1, CacheHeightAssumption
  <2>2. CASE x \in Recent(s) /\ x # s[n]
    <3>1. PICK i \in 1..n : i > n - CacheHeight /\ x = s[i]
      BY <1>4, <2>2
    <3>2. i \in 1..(n - 1)
      BY <1>1, <2>2, <3>1
    <3> QED
      BY <1>1, <1>3, <3>1, <3>2, CacheHeightAssumption
  <2> QED
    BY <2>1, <2>2
<1>9. Recent(u) = (Recent(s) \ {s[n]}) \cup edge
  BY <1>7, <1>8
<1> QED
  BY <1>6, <1>9 DEF u, n, edge

-----------------------------------------------------------------------------
(* The start.                                                              *)
LEMMA InitIInv == Init => IInv
<1> SUFFICES ASSUME Init PROVE IInv
  OBVIOUS
<1>1. Len(chain) = 0 /\ chain \in Seq(Block)
  BY DEF Init
<1>2. Recent(chain) = {}
  BY <1>1 DEF Recent
<1> QED
  BY <1>1, <1>2 DEF Init, IInv, TypeOK, HeightsInOrder, CacheIsWindow,
     ConfirmedInWindow, NoStrayRow, NoDoubleConfirm

(* WriteChainState leaves the entries it was given in memory, and nothing  *)
(* in the database that a later flush would not erase.                     *)
LEMMA WriteKeepsEntries ==
    ASSUME NEW in \in SUBSET Block, NEW out \in SUBSET Block,
           in \cap out = {}, db \in SUBSET Block, db \ out \subseteq in,
           WriteChainState(in, out)
    PROVE  /\ cached' = in
           /\ tomb' \in SUBSET Block
           /\ db' \in SUBSET Block
           /\ cached' \cap tomb' = {}
           /\ db' \ tomb' \subseteq cached'
  BY DEF WriteChainState, BatchWrite

(* A transaction ConnectBlock lets in is in no block of the chain: if it   *)
(* were, that block would be recent enough to be in the cache.             *)
LEMMA ConnectableIsNew ==
    ASSUME Len(chain) \in Nat, Recent(chain) \subseteq cached, ConfirmedInWindow,
           NEW b \in Block, TxsConnectable(b),
           NEW i \in 1..Len(chain), NEW t \in Tx, t \in b.txs, t \in chain[i].txs
    PROVE  FALSE
<1>1. IsValidHeight(t, i - 1) /\ IsValidHeight(t, Len(chain))
  BY DEF ConfirmedInWindow, TxsConnectable
<1>2. Len(chain) - (i - 1) <= CacheHeight
  BY <1>1, WindowSpan
<1>3. chain[i] \in Recent(chain)
  BY <1>2, RecentElement, CacheHeightAssumption
<1>4. IsContainTx(t)
  BY <1>3 DEF IsContainTx
<1> QED
  BY <1>4 DEF TxsConnectable

(* ConnectTip.                                                             *)
LEMMA ConnectTipIInv ==
    ASSUME IInv, NEW b \in Candidate, ConnectTip(b)
    PROVE  IInv'
<1> DEFINE n == Len(chain)
           edge == AtWindowEdge(Append(chain, b), b.height)
<1>1. n \in Nat /\ chain \in Seq(Block) /\ HeightsInOrder
  BY DEF IInv, TypeOK
<1>2. b \in Block /\ b.height = n + 1
  BY <1>1 DEF Candidate, Block
<1>3. /\ chain' = Append(chain, b)
      /\ Len(chain') = n + 1
      /\ chain' \in Seq(Block)
      /\ \A i \in 1..n : chain'[i] = chain[i]
      /\ chain'[n + 1] = b
  BY <1>1, <1>2 DEF ConnectTip
<1>4. edge \subseteq Block
  <2> DEFINE u == Append(chain, b)
             h == b.height
  <2>1. \A x : x \in edge <=> h - CacheHeight > 0 /\ x = u[h - CacheHeight]
    BY EdgeElement
  <2>2. \A i \in 1..h : u[i] \in Block
    BY <1>1, <1>2
  <2>3. h \in Nat
    BY <1>1, <1>2
  <2> HIDE DEF u, h, edge
  <2> QED
    BY <2>1, <2>2, <2>3, CacheHeightAssumption
<1>5. /\ cached' = Entries({b}, edge)
      /\ tomb' \in SUBSET Block
      /\ db' \in SUBSET Block
      /\ cached' \cap tomb' = {}
      /\ db' \ tomb' \subseteq cached'
  <2>1. /\ Entries({b}, edge) \in SUBSET Block
        /\ Deletions({b}, edge) \in SUBSET Block
        /\ Entries({b}, edge) \cap Deletions({b}, edge) = {}
        /\ db \in SUBSET Block
        /\ db \ Deletions({b}, edge) \subseteq Entries({b}, edge)
    BY <1>2, <1>4 DEF IInv, TypeOK, NoStrayRow, Entries, Deletions
  <2>2. WriteChainState(Entries({b}, edge), Deletions({b}, edge))
    BY DEF ConnectTip
  <2> HIDE DEF edge
  <2> QED
    BY <2>1, <2>2, WriteKeepsEntries
<1>6. TypeOK' /\ NoStrayRow'
  BY <1>2, <1>3, <1>4, <1>5 DEF IInv, TypeOK, NoStrayRow, Entries
<1>7. HeightsInOrder'
  BY <1>1, <1>2, <1>3 DEF HeightsInOrder
<1>8. CacheIsWindow'
  BY <1>1, <1>2, <1>3, <1>5, RecentAppend
     DEF IInv, CacheIsWindow, HeightsInOrder, Entries
<1>9. ConfirmedInWindow'
  <2>1. \A t \in b.txs : IsValidHeight(t, n)
    BY DEF ConnectTip, TxsConnectable
  <2>2. \A i \in 1..n : \A t \in chain[i].txs : IsValidHeight(t, i - 1)
    BY DEF IInv, ConfirmedInWindow
  <2> SUFFICES ASSUME NEW i \in 1..(n + 1), NEW t \in chain'[i].txs
               PROVE  IsValidHeight(t, i - 1)
    BY <1>3 DEF ConfirmedInWindow, IsValidHeight
  <2>3. CASE i = n + 1
    BY <1>1, <1>3, <2>1, <2>3
  <2>4. CASE i \in 1..n
    BY <1>3, <2>2, <2>4
  <2> QED
    BY <1>1, <2>3, <2>4
<1>10. NoDoubleConfirm'
  <2>1. ASSUME NEW i \in 1..n PROVE b.txs \cap chain[i].txs = {}
    <3>1. TxsConnectable(b)
      BY DEF ConnectTip
    <3>2. b.txs \subseteq Tx
      BY <1>2 DEF Block
    <3>3. Recent(chain) \subseteq cached /\ ConfirmedInWindow
      BY DEF IInv, CacheIsWindow
    <3> QED
      BY <1>1, <1>2, <3>1, <3>2, <3>3, ConnectableIsNew
  <2>2. \A i, j \in 1..n : i # j => chain[i].txs \cap chain[j].txs = {}
    BY DEF IInv, NoDoubleConfirm
  <2> SUFFICES ASSUME NEW i \in 1..(n + 1), NEW j \in 1..(n + 1), i # j
               PROVE  chain'[i].txs \cap chain'[j].txs = {}
    BY <1>3 DEF NoDoubleConfirm
  <2>3. CASE i = n + 1
    BY <1>1, <1>3, <2>1, <2>3
  <2>4. CASE j = n + 1
    BY <1>1, <1>3, <2>1, <2>4
  <2>5. CASE i \in 1..n /\ j \in 1..n
    BY <1>3, <2>2, <2>5
  <2> QED
    BY <1>1, <2>3, <2>4, <2>5
<1> QED
  BY <1>6, <1>7, <1>8, <1>9, <1>10 DEF IInv

(* DisconnectTip.                                                          *)
LEMMA DisconnectTipIInv ==
    ASSUME IInv, DisconnectTip
    PROVE  IInv'
<1> DEFINE n == Len(chain)
           edge == AtWindowEdge(chain, n)
           in == Entries({}, {chain[n]}) \cup edge
           out == Deletions({}, {chain[n]}) \ edge
<1>1. n \in Nat \ {0} /\ chain \in Seq(Block) /\ HeightsInOrder
  BY DEF IInv, TypeOK, DisconnectTip
<1>2. /\ chain' = SubSeq(chain, 1, n - 1)
      /\ chain' \in Seq(Block)
      /\ Len(chain') = n - 1
      /\ \A i \in 1..(n - 1) : chain'[i] = chain[i]
  BY <1>1, FrontOfChain DEF DisconnectTip
<1>3. chain[n] \in Block /\ edge \subseteq Block /\ chain[n] \notin edge
  <2>1. \A x : x \in edge <=> n - CacheHeight > 0 /\ x = chain[n - CacheHeight]
    BY EdgeElement
  <2> HIDE DEF edge
  <2> QED
    BY <1>1, <2>1, CacheHeightAssumption DEF HeightsInOrder
<1>4. /\ cached' = in
      /\ tomb' \in SUBSET Block
      /\ db' \in SUBSET Block
      /\ cached' \cap tomb' = {}
      /\ db' \ tomb' \subseteq cached'
  <2>1. /\ in \in SUBSET Block
        /\ out \in SUBSET Block
        /\ in \cap out = {}
        /\ db \in SUBSET Block
        /\ db \ out \subseteq in
    BY <1>3 DEF IInv, TypeOK, NoStrayRow, Entries, Deletions
  <2>2. WriteChainState(in, out)
    BY DEF DisconnectTip
  <2> HIDE DEF in, out
  <2> QED
    BY <2>1, <2>2, WriteKeepsEntries
<1>5. in \in SUBSET Block
  BY <1>3 DEF IInv, TypeOK, Entries
<1>6. TypeOK' /\ NoStrayRow'
  <2> HIDE DEF in
  <2> QED
    BY <1>2, <1>4, <1>5 DEF TypeOK, NoStrayRow
<1>7. HeightsInOrder'
  BY <1>1, <1>2 DEF HeightsInOrder
<1>8. CacheIsWindow'
  <2>1. Recent(SubSeq(chain, 1, n - 1)) = (Recent(chain) \ {chain[n]}) \cup edge
    BY <1>1, RecentFront DEF HeightsInOrder
  <2> QED
    BY <1>2, <1>4, <2>1 DEF IInv, CacheIsWindow, Entries
<1>9. ConfirmedInWindow'
  BY <1>1, <1>2 DEF IInv, ConfirmedInWindow, IsValidHeight
<1>10. NoDoubleConfirm'
  BY <1>1, <1>2 DEF IInv, NoDoubleConfirm
<1> QED
  BY <1>6, <1>7, <1>8, <1>9, <1>10 DEF IInv

(* A restart after a clean shutdown reads back exactly what was in memory. *)
LEMMA RestartIInv ==
    ASSUME IInv, RestartCleanly
    PROVE  IInv'
<1>1. chain' = chain /\ cached' = cached /\ tomb' = {} /\ db' = cached
  BY DEF IInv, NoStrayRow, RestartCleanly, BatchWrite
<1> QED
  BY <1>1 DEF IInv, TypeOK, HeightsInOrder, CacheIsWindow, ConfirmedInWindow,
     NoStrayRow, NoDoubleConfirm, IsValidHeight

(* A step that changes nothing keeps everything.                           *)
LEMMA StutterIInv ==
    ASSUME IInv, UNCHANGED vars
    PROVE  IInv'
  BY DEF vars, IInv, TypeOK, HeightsInOrder, CacheIsWindow, ConfirmedInWindow,
     NoStrayRow, NoDoubleConfirm, IsValidHeight

(* The invariant holds of every behaviour.                                 *)
THEOREM Invariance == Spec => []IInv
<1>1. IInv /\ [Next]_vars => IInv'
  BY ConnectTipIInv, DisconnectTipIInv, RestartIInv, StutterIInv DEF Next
<1> QED
  BY InitIInv, <1>1, PTL DEF Spec

-----------------------------------------------------------------------------
(* The cache's two sets stay well formed, and disjoint, in every step of   *)
(* ConnectTip, DisconnectTip and a restart.                                *)
THEOREM TypeCorrect == Spec => []TypeOK
<1>1. IInv => TypeOK
  BY DEF IInv
<1> QED
  BY Invariance, <1>1, PTL

(* The duplicate check and the valid-height check of ConnectBlock together *)
(* confirm a transaction at most once on the active chain, for every       *)
(* CacheHeight and every sequence of reorganisations.                      *)
THEOREM ReplayProtection == Spec => []NoDoubleConfirm
<1>1. IInv => NoDoubleConfirm
  BY DEF IInv
<1> QED
  BY Invariance, <1>1, PTL

(* DeleteBlockFromCache never aborts ConnectBlock or DisconnectBlock: the  *)
(* cache holds exactly the blocks of the window of the tip.                *)
THEOREM CacheFollowsTip == Spec => []CacheIsWindow
<1>1. IInv => CacheIsWindow
  BY DEF IInv
<1> QED
  BY Invariance, <1>1, PTL

(* IsContainTx is TRUE only of a transaction of the active chain, so no    *)
(* valid block or transaction is turned away as a duplicate.               *)
THEOREM DuplicatesAreReal == Spec => []NoFalseDuplicate
<1>1. IInv => NoFalseDuplicate
  <2> SUFFICES ASSUME IInv, NEW t \in Tx, NEW b \in Recent(chain), t \in b.txs
               PROVE  \E i \in 1..Len(chain) : t \in chain[i].txs
    BY DEF NoFalseDuplicate, IsContainTx, IInv, CacheIsWindow
  <2> QED
    BY RecentElement
<1> QED
  BY Invariance, <1>1, PTL

-----------------------------------------------------------------------------
(* TxConfirmCrash: crashes, restarts and rebuilds.                         *)

(* Every block of s sits at its own height.                                *)
Ordered(s) == \A i \in 1..Len(s) : s[i].height = i

(* What is left of a chain on disk is well formed, and the accounts are as *)
(* the chain in memory has them until the databases after them are written. *)
Shape ==
    /\ TypeOKC
    /\ Ordered(chain)
    /\ Ordered(disk)
    /\ phase \in Writing => disk = chain
    /\ phase \in {"stopped", "down", "corrupt"} => ~undone /\ ~torn

(* There is a process that uses the caches.                                *)
Alive == phase \in {"run"} \cup Writing

(* The cache in memory has the whole window of the tip, and neither it nor *)
(* what the next flush leaves in the database has any block that is not on *)
(* the chain.  It may hold more than the window: reloadtxcache takes one   *)
(* block more, which stays until the chain is rewound below it.            *)
Remembers ==
    ~damaged /\ Alive =>
        /\ Recent(chain) \subseteq cached
        /\ cached \subseteq BlocksOf(chain)
        /\ db \ tomb \subseteq BlocksOf(chain)

(* The rows are those of s when it ended at height n: its window then, and *)
(* no block above n.                                                       *)
WrittenAt(s, n) ==
    /\ \A b \in db : \E i \in 1..n : b = s[i]
    /\ \A i \in 1..n : i > n - CacheHeight => s[i] \in db
Anchored(s) == \E n \in 0..Len(s) : WrittenAt(s, n)

(* Since the rows were written the chain has only grown, unless "undone"   *)
(* says otherwise, and the chain of the accounts on disk is no other,      *)
(* unless "torn" does.                                                     *)
Anchors ==
    ~damaged =>
        /\ Alive /\ ~undone => Anchored(chain)
        /\ ~torn => Anchored(disk)

(* The chains have each transaction once, at a height it is valid for.     *)
Sound(s) ==
    /\ \A i, j \in 1..Len(s) : i # j => s[i].txs \cap s[j].txs = {}
    /\ \A i \in 1..Len(s) : \A t \in s[i].txs : IsValidHeight(t, i - 1)
ReplaySafe == ~damaged => Sound(chain) /\ Sound(disk)

(* The contracts in memory are those of the chain in memory, and those on  *)
(* disk follow the accounts on disk as long as nothing is being written.   *)
Records ==
    ~cut =>
        /\ Alive => applied = BlocksOf(chain)
        /\ phase \notin Writing => scripts = BlocksOf(disk)

(* The inductive invariant.                                                *)
CrashInv == Shape /\ Remembers /\ Anchors /\ ReplaySafe /\ Records
-----------------------------------------------------------------------------
(* Membership in the blocks of a chain.                                    *)
LEMMA BlocksOfElement ==
    ASSUME NEW s, NEW x
    PROVE  x \in BlocksOf(s) <=> \E i \in 1..Len(s) : x = s[i]
  BY DEF BlocksOf

(* A chain and a block on top of it.                                       *)
LEMMA Grown ==
    ASSUME NEW s \in Seq(Block), Ordered(s), NEW b \in Block, b.height = Len(s) + 1
    PROVE  /\ Append(s, b) \in Seq(Block)
           /\ Ordered(Append(s, b))
           /\ Len(Append(s, b)) = Len(s) + 1
           /\ \A i \in 1..Len(s) : Append(s, b)[i] = s[i]
           /\ Append(s, b)[Len(s) + 1] = b
           /\ BlocksOf(Append(s, b)) = BlocksOf(s) \cup {b}
           /\ Recent(Append(s, b))
                = (Recent(s) \cup {b}) \ AtWindowEdge(Append(s, b), b.height)
           /\ AtWindowEdge(Append(s, b), b.height) \subseteq Block
<1> DEFINE u == Append(s, b)
           n == Len(s)
<1>1. /\ n \in Nat /\ u \in Seq(Block) /\ Len(u) = n + 1
      /\ \A i \in 1..n : u[i] = s[i]
      /\ u[n + 1] = b
  OBVIOUS
<1>2. Recent(u) = (Recent(s) \cup {b}) \ AtWindowEdge(u, b.height)
  BY RecentAppend DEF Ordered
<1>3. \A x : x \in AtWindowEdge(u, b.height)
               <=> b.height - CacheHeight > 0 /\ x = u[b.height - CacheHeight]
  BY EdgeElement
<1>4. /\ \A x : x \in BlocksOf(u) <=> \E i \in 1..Len(u) : x = u[i]
      /\ \A x : x \in BlocksOf(s) <=> \E i \in 1..Len(s) : x = s[i]
  BY BlocksOfElement
<1>5. \A i \in 1..(n + 1) : u[i] \in Block
  BY <1>1
<1> HIDE DEF u
<1>6. Ordered(u)
  BY <1>1 DEF Ordered
<1>7. BlocksOf(u) = BlocksOf(s) \cup {b}
  BY <1>1, <1>4
<1>8. AtWindowEdge(u, b.height) \subseteq Block
  BY <1>1, <1>3, <1>5, CacheHeightAssumption
<1> QED
  BY <1>1, <1>2, <1>6, <1>7, <1>8 DEF u

(* A chain without its tip.                                                *)
LEMMA Shortened ==
    ASSUME NEW s \in Seq(Block), Ordered(s), Len(s) > 0
    PROVE  LET u == SubSeq(s, 1, Len(s) - 1) IN
           /\ u \in Seq(Block)
           /\ Ordered(u)
           /\ Len(u) = Len(s) - 1
           /\ \A i \in 1..Len(u) : u[i] = s[i]
           /\ BlocksOf(u) = BlocksOf(s) \ {s[Len(s)]}
           /\ Recent(u) = (Recent(s) \ {s[Len(s)]}) \cup AtWindowEdge(s, Len(s))
           /\ s[Len(s)] \in Block
<1> DEFINE u == SubSeq(s, 1, Len(s) - 1)
           n == Len(s)
<1>1. /\ n \in Nat \ {0} /\ s[n] \in Block
      /\ u \in Seq(Block) /\ Len(u) = n - 1
      /\ \A i \in 1..(n - 1) : u[i] = s[i]
  BY FrontOfChain
<1>2. Recent(u) = (Recent(s) \ {s[n]}) \cup AtWindowEdge(s, n)
  BY RecentFront DEF Ordered
<1>3. /\ \A x : x \in BlocksOf(u) <=> \E i \in 1..Len(u) : x = u[i]
      /\ \A x : x \in BlocksOf(s) <=> \E i \in 1..n : x = s[i]
  BY BlocksOfElement
<1> HIDE DEF u
<1>4. Ordered(u)
  BY <1>1 DEF Ordered
<1>5. BlocksOf(u) = BlocksOf(s) \ {s[n]}
  BY <1>1, <1>3 DEF Ordered
<1> QED
  BY <1>1, <1>2, <1>4, <1>5 DEF u

(* The block at the edge of the window of a chain is a block of it, and    *)
(* not its tip.                                                            *)
LEMMA EdgeOfChain ==
    ASSUME NEW s \in Seq(Block), Ordered(s)
    PROVE  /\ AtWindowEdge(s, Len(s)) \subseteq BlocksOf(s) \ {s[Len(s)]}
           /\ AtWindowEdge(s, Len(s)) \subseteq Block
<1> DEFINE n == Len(s)
<1>1. n \in Nat /\ \A i \in 1..n : s[i] \in Block /\ s[i].height = i
  BY DEF Ordered
<1>2. \A x : x \in AtWindowEdge(s, n) <=> n - CacheHeight > 0 /\ x = s[n - CacheHeight]
  BY EdgeElement
<1>3. \A x : x \in BlocksOf(s) <=> \E i \in 1..n : x = s[i]
  BY BlocksOfElement
<1> HIDE DEF n
<1>4. ASSUME NEW x \in AtWindowEdge(s, n)
      PROVE  x \in BlocksOf(s) /\ x # s[n] /\ x \in Block
  <2>1. n - CacheHeight \in 1..n /\ n - CacheHeight # n /\ n \in 1..n
        /\ x = s[n - CacheHeight]
    BY <1>1, <1>2, <1>4, CacheHeightAssumption
  <2> QED
    BY <1>1, <1>3, <2>1
<1> QED
  BY <1>4 DEF n

(* The window of a chain is part of it.                                    *)
LEMMA RecentOfChain ==
    ASSUME NEW s \in Seq(Block)
    PROVE  Recent(s) \subseteq BlocksOf(s) /\ BlocksOf(s) \subseteq Block
<1>1. \A i \in 1..Len(s) : s[i] \in Block
  OBVIOUS
<1>2. \A x : x \in BlocksOf(s) <=> \E i \in 1..Len(s) : x = s[i]
  BY BlocksOfElement
<1>3. \A x \in Recent(s) : \E i \in 1..Len(s) : x = s[i]
  BY RecentElement
<1> QED
  BY <1>1, <1>2, <1>3

(* Blocks that may follow the tip.                                         *)
LEMMA CandidateBlock ==
    ASSUME chain \in Seq(Block), NEW b \in Candidate
    PROVE  b \in Block /\ b.height = Len(chain) + 1
<1>1. Len(chain) \in Nat
  OBVIOUS
<1> QED
  BY <1>1 DEF Candidate, Block

-----------------------------------------------------------------------------
(* The start, and steps that change nothing.                               *)
LEMMA InitCrashInv == InitC => CrashInv
<1> SUFFICES ASSUME InitC PROVE CrashInv
  OBVIOUS
<1>1. Len(chain) = 0 /\ chain \in Seq(Block) /\ disk = chain
  BY DEF InitC, Init
<1>2. Recent(chain) = {} /\ BlocksOf(chain) = {}
  BY <1>1 DEF Recent, BlocksOf
<1>3. Shape
  <2>1. {undone, torn, damaged, cut} \subseteq BOOLEAN
    BY Zenon DEF InitC
  <2> QED
    BY <1>1, <2>1 DEF InitC, Init, Shape, TypeOKC, TypeOK, Ordered, Phase, Writing
<1>4. Anchored(chain)
  BY <1>1 DEF InitC, Init, Anchored, WrittenAt
<1>5. Sound(chain)
  BY <1>1 DEF Sound
<1> QED
  BY <1>1, <1>2, <1>3, <1>4, <1>5
     DEF CrashInv, Remembers, Anchors, ReplaySafe, Records, InitC, Init

LEMMA StutterCrashInv ==
    ASSUME CrashInv, UNCHANGED varsC
    PROVE  CrashInv'
  BY DEF varsC, varsTx, CrashInv, Shape, TypeOKC, TypeOK, Ordered, Remembers, Alive,
     Anchors, Anchored, WrittenAt, ReplaySafe, Sound, Records, Recent, BlocksOf,
     IsValidHeight

-----------------------------------------------------------------------------
(* Shape.                                                                  *)

(* The four history variables are Boolean after every step.                *)
LEMMA HistoryBoolean ==
    ASSUME TypeOKC, NextC
    PROVE  {undone, torn, damaged, cut}' \subseteq BOOLEAN
<1>1. /\ undone \in BOOLEAN /\ torn \in BOOLEAN
      /\ damaged \in BOOLEAN /\ cut \in BOOLEAN
  BY DEF TypeOKC
<1>2. undone' \in BOOLEAN
  BY <1>1, Zenon DEF NextC, Connect, AbortConnect, Disconnect, AbortDisconnect,
     WriteTxCache, WriteScripts, Stop, PrintBlockDBInfo, Crash, Start, Reindex,
     ReloadTxCache
<1>3. torn' \in BOOLEAN
  BY <1>1, Zenon DEF NextC, Connect, AbortConnect, Disconnect, AbortDisconnect,
     WriteTxCache, WriteScripts, Stop, PrintBlockDBInfo, Crash, Start, Reindex,
     ReloadTxCache, MaybeWriteAccounts, WriteAccounts
<1>4. damaged' \in BOOLEAN
  BY <1>1, Zenon DEF NextC, Connect, AbortConnect, Disconnect, AbortDisconnect,
     WriteTxCache, WriteScripts, Stop, PrintBlockDBInfo, Crash, Start, Reindex,
     ReloadTxCache
<1>5. cut' \in BOOLEAN
  BY <1>1, Zenon DEF NextC, Connect, AbortConnect, Disconnect, AbortDisconnect,
     WriteTxCache, WriteScripts, Stop, PrintBlockDBInfo, Crash, Start, Reindex,
     ReloadTxCache
<1> QED
  BY <1>2, <1>3, <1>4, <1>5

(* What a step does to the chains in memory and on disk.                   *)
Grows == \E b \in Candidate : Connect(b)
Shrinks == Disconnect
LEMMA ChainMoves ==
    ASSUME NextC
    PROVE  \/ Grows
           \/ Shrinks
           \/ chain' = chain /\ disk' \in {disk, chain}
           \/ chain' = disk /\ disk' = disk
           \/ chain' = <<>> /\ disk' = <<>>
  BY DEF NextC, Grows, Shrinks, AbortConnect, AbortDisconnect, WriteTxCache,
     WriteScripts, Stop, PrintBlockDBInfo, Crash, Start, Reindex, ReloadTxCache,
     WriteAccounts, varsTx

LEMMA ChainsWellFormed ==
    ASSUME Shape, NextC
    PROVE  /\ chain' \in Seq(Block) /\ disk' \in Seq(Block)
           /\ Ordered(chain)' /\ Ordered(disk)'
<1>1. chain \in Seq(Block) /\ disk \in Seq(Block) /\ Ordered(chain) /\ Ordered(disk)
  BY DEF Shape, TypeOKC, TypeOK
<1>2. <<>> \in Seq(Block) /\ Ordered(<<>>)
  BY DEF Ordered
<1>3. CASE Grows
  <2>1. PICK b \in Candidate : Connect(b)
    BY <1>3 DEF Grows
  <2>2. chain' = Append(chain, b) /\ disk' \in {disk, chain'}
    BY <2>1 DEF Connect, MaybeWriteAccounts, WriteAccounts
  <2>3. Append(chain, b) \in Seq(Block) /\ Ordered(Append(chain, b))
    BY <1>1, CandidateBlock, Grown
  <2> QED
    BY <1>1, <2>2, <2>3 DEF Ordered
<1>4. CASE Shrinks
  <2>1. /\ Len(chain) > 0
        /\ chain' = SubSeq(chain, 1, Len(chain) - 1)
        /\ disk' \in {disk, chain'}
    BY <1>4 DEF Shrinks, Disconnect, MaybeWriteAccounts, WriteAccounts
  <2>2. chain' \in Seq(Block) /\ Ordered(chain')
    BY <1>1, <2>1, Shortened
  <2> QED
    BY <1>1, <2>1, <2>2 DEF Ordered
<1>5. CASE ~Grows /\ ~Shrinks
  <2>1. chain' \in {chain, disk, <<>>} /\ disk' \in {chain, disk, <<>>}
    BY <1>5, ChainMoves
  <2> QED
    BY <1>1, <1>2, <2>1 DEF Ordered
<1> QED
  BY <1>3, <1>4, <1>5

(* The sets of blocks.                                                     *)
LEMMA SetsWellFormed ==
    ASSUME Shape, NextC
    PROVE  /\ cached' \in SUBSET Block /\ tomb' \in SUBSET Block
           /\ cached' \cap tomb' = {}
           /\ db' \in SUBSET Block
           /\ applied' \in SUBSET Block /\ scripts' \in SUBSET Block
<1>1. /\ chain \in Seq(Block) /\ Ordered(chain)
      /\ cached \in SUBSET Block /\ tomb \in SUBSET Block
      /\ cached \cap tomb = {}
      /\ db \in SUBSET Block
      /\ applied \in SUBSET Block /\ scripts \in SUBSET Block
  BY DEF Shape, TypeOKC, TypeOK
<1>2. ASSUME NEW b \in Candidate, Connect(b) \/ AbortConnect(b)
      PROVE  /\ b \in Block
             /\ AtWindowEdge(Append(chain, b), b.height) \subseteq Block
  BY <1>1, CandidateBlock, Grown
<1>3. AtWindowEdge(chain, Len(chain)) \subseteq Block
  BY <1>1, EdgeOfChain
<1>4. Recent(chain) \subseteq Block
  BY <1>1, RecentOfChain
<1>5. \A i \in 1..Len(chain) : chain[i] \in Block
  BY <1>1
<1>6. ASSUME NEW b \in Candidate, Connect(b)
      PROVE  /\ cached' \in SUBSET Block /\ tomb' \in SUBSET Block
             /\ cached' \cap tomb' = {}
             /\ db' = db /\ scripts' = scripts /\ applied' \in SUBSET Block
  BY <1>1, <1>2, <1>6 DEF Connect, Entries, Deletions, Followed
<1>7. ASSUME NEW b \in Candidate, AbortConnect(b)
      PROVE  /\ cached' \in SUBSET Block /\ tomb' \in SUBSET Block
             /\ cached' \cap tomb' = {}
             /\ UNCHANGED <<db, scripts, applied>>
  BY <1>1, <1>2, <1>7 DEF AbortConnect, Entries, Deletions
<1>8. ASSUME Disconnect \/ AbortDisconnect
      PROVE  chain[Len(chain)] \in Block
  <2>1. chain[Len(chain)] \in cached
    BY <1>8 DEF Disconnect, AbortDisconnect, IsContainBlock
  <2> QED
    BY <1>1, <2>1
<1>9. CASE Disconnect
  <2> DEFINE edge == AtWindowEdge(chain, Len(chain))
  <2>1. /\ cached' = Entries({}, {chain[Len(chain)]}) \cup edge
        /\ tomb' = Deletions({}, {chain[Len(chain)]}) \ edge
        /\ UNCHANGED <<db, scripts>>
        /\ applied' = applied \ {chain[Len(chain)]}
    BY <1>9 DEF Disconnect
  <2> HIDE DEF edge
  <2>2. edge \subseteq Block
    BY <1>3 DEF edge
  <2> QED
    BY <1>1, <1>8, <1>9, <2>1, <2>2 DEF Entries, Deletions
<1>10. CASE AbortDisconnect
  BY <1>1, <1>8, <1>10 DEF AbortDisconnect, Entries, Deletions
<1>11. CASE WriteTxCache
  BY <1>1, <1>11 DEF WriteTxCache, BatchWrite
<1>12. CASE WriteScripts
  BY <1>1, <1>12 DEF WriteScripts, varsTx
<1>13. CASE Stop \/ PrintBlockDBInfo
  BY <1>1, <1>13 DEF Stop, PrintBlockDBInfo, varsTx
<1>14. CASE Crash
  BY <1>1, <1>14 DEF Crash, Followed
<1>15. CASE Start
  BY <1>1, <1>15 DEF Start
<1>16. CASE Reindex
  BY <1>16 DEF Reindex
<1>17. CASE ReloadTxCache
  BY <1>1, <1>3, <1>4, <1>17 DEF ReloadTxCache
<1> QED
  BY <1>1, <1>6, <1>7, <1>9, <1>10, <1>11, <1>12, <1>13, <1>14, <1>15, <1>16, <1>17
     DEF NextC

(* Where the process is, and what it has written by then.                  *)
LEMMA PhaseStep ==
    ASSUME Shape, NextC
    PROVE  /\ phase' \in Phase
           /\ phase' \in Writing => disk' = chain'
           /\ phase' \in {"stopped", "down", "corrupt"} => ~undone' /\ ~torn'
<1> USE DEF Phase, Writing
<1>1. /\ phase \in Phase
      /\ phase \in Writing => disk = chain
      /\ phase \in {"stopped", "down", "corrupt"} => ~undone /\ ~torn
  BY DEF Shape, TypeOKC
<1>2. ASSUME NEW b \in Candidate, Connect(b) \/ AbortConnect(b)
      PROVE  phase' \in {"run", "written"} /\ (phase' = "written" => disk' = chain')
  BY <1>2 DEF Connect, AbortConnect, MaybeWriteAccounts, WriteAccounts
<1>3. CASE Disconnect \/ AbortDisconnect
  BY <1>3 DEF Disconnect, AbortDisconnect, MaybeWriteAccounts, WriteAccounts
<1>4. CASE WriteTxCache
  BY <1>1, <1>4 DEF WriteTxCache
<1>5. CASE WriteScripts
  BY <1>1, <1>5 DEF WriteScripts, varsTx
<1>6. CASE Stop \/ PrintBlockDBInfo
  BY <1>6 DEF Stop, PrintBlockDBInfo, WriteAccounts
<1>7. CASE Crash
  BY <1>7 DEF Crash
<1>8. CASE Start
  BY <1>1, <1>8 DEF Start
<1>9. CASE Reindex
  BY <1>9 DEF Reindex
<1>10. CASE ReloadTxCache
  BY <1>1, <1>10 DEF ReloadTxCache
<1> QED
  BY <1>2, <1>3, <1>4, <1>5, <1>6, <1>7, <1>8, <1>9, <1>10 DEF NextC

LEMMA ShapeStep ==
    ASSUME Shape, NextC
    PROVE  Shape'
<1>1. TypeOKC
  BY DEF Shape
<1>2. TypeOK'
  BY ChainsWellFormed, SetsWellFormed DEF TypeOK
<1>3. TypeOKC'
  BY <1>1, <1>2, ChainsWellFormed, SetsWellFormed, PhaseStep, HistoryBoolean DEF TypeOKC
<1> QED
  BY <1>3, ChainsWellFormed, PhaseStep DEF Shape

-----------------------------------------------------------------------------
(* The tx cache.                                                           *)

(* The heart of the matter: if VerifyDB finds the tip among the rows, the  *)
(* rows are those of the tip, and the window is complete, although         *)
(* VerifyDepth may be smaller than the window.                             *)
LEMMA VerifiedIsWhole ==
    ASSUME disk \in Seq(Block), Ordered(disk), Anchored(disk), VerifyDB(disk, db)
    PROVE  Recent(disk) \subseteq db /\ db \subseteq BlocksOf(disk)
<1>1. Len(disk) \in Nat /\ \A i \in 1..Len(disk) : disk[i].height = i
  BY DEF Ordered
<1>2. PICK n \in 0..Len(disk) : WrittenAt(disk, n)
  BY DEF Anchored
<1>3. n = Len(disk)
  <2> SUFFICES ASSUME n < Len(disk) PROVE FALSE
    BY <1>1, <1>2
  <2>1. disk[Len(disk)] \in db
    <3>1. Len(disk) \in 1..Len(disk) /\ Len(disk) >= Len(disk) - VerifyDepth
      BY <1>1, <1>2, VerifyDepthAssumption
    <3>2. ~(Len(disk) + CacheHeight <= Len(disk))
      BY <1>1, CacheHeightAssumption
    <3> QED
      BY <3>1, <3>2 DEF VerifyDB
  <2>2. PICK i \in 1..n : disk[Len(disk)] = disk[i]
    BY <1>2, <2>1 DEF WrittenAt
  <2> QED
    BY <1>1, <1>2, <2>2
<1>4. Recent(disk) \subseteq db
  BY <1>2, <1>3, RecentElement DEF WrittenAt
<1>5. db \subseteq BlocksOf(disk)
  BY <1>2, <1>3, BlocksOfElement DEF WrittenAt
<1> QED
  BY <1>4, <1>5

LEMMA RemembersStep ==
    ASSUME Shape, Remembers, Anchors, NextC
    PROVE  Remembers'
<1> SUFFICES ASSUME ~damaged', Alive'
             PROVE  /\ Recent(chain') \subseteq cached'
                    /\ cached' \subseteq BlocksOf(chain')
                    /\ db' \ tomb' \subseteq BlocksOf(chain')
  BY DEF Remembers, Recent, BlocksOf
<1>1. chain \in Seq(Block) /\ Ordered(chain) /\ disk \in Seq(Block) /\ Ordered(disk)
  BY DEF Shape, TypeOKC, TypeOK
<1>2. ASSUME ~damaged, phase \in {"run"} \cup Writing
      PROVE  /\ Recent(chain) \subseteq cached
             /\ cached \subseteq BlocksOf(chain)
             /\ db \ tomb \subseteq BlocksOf(chain)
  BY <1>2 DEF Remembers, Alive
<1>3. ASSUME NEW b \in Candidate, Connect(b)
      PROVE  /\ Recent(chain') \subseteq cached'
             /\ cached' \subseteq BlocksOf(chain')
             /\ db' \ tomb' \subseteq BlocksOf(chain')
  <2> DEFINE edge == AtWindowEdge(Append(chain, b), b.height)
  <2>1. /\ chain' = Append(chain, b)
        /\ cached' = Entries({b}, edge)
        /\ tomb' = Deletions({b}, edge)
        /\ UNCHANGED <<db, damaged>>
        /\ phase = "run"
    BY <1>3 DEF Connect
  <2>2. /\ BlocksOf(chain') = BlocksOf(chain) \cup {b}
        /\ Recent(chain') = (Recent(chain) \cup {b}) \ edge
    BY <1>1, <2>1, CandidateBlock, Grown
  <2> HIDE DEF edge
  <2> QED
    BY <1>2, <2>1, <2>2 DEF Entries, Deletions
<1>4. ASSUME NEW b \in Candidate, AbortConnect(b) PROVE FALSE
  BY <1>4 DEF AbortConnect
<1>5. CASE Disconnect
  <2> DEFINE tip == chain[Len(chain)]
             edge == AtWindowEdge(chain, Len(chain))
  <2>1. /\ chain' = SubSeq(chain, 1, Len(chain) - 1)
        /\ Len(chain) > 0
        /\ cached' = Entries({}, {tip}) \cup edge
        /\ tomb' = Deletions({}, {tip}) \ edge
        /\ UNCHANGED <<db, damaged>>
        /\ phase = "run"
    BY <1>5 DEF Disconnect
  <2>2. /\ BlocksOf(chain') = BlocksOf(chain) \ {tip}
        /\ Recent(chain') = (Recent(chain) \ {tip}) \cup edge
    BY <1>1, <2>1, Shortened
  <2>3. edge \subseteq BlocksOf(chain) \ {tip}
    BY <1>1, EdgeOfChain
  <2> HIDE DEF tip, edge
  <2> QED
    BY <1>2, <2>1, <2>2, <2>3 DEF Entries, Deletions
<1>6. CASE AbortDisconnect
  BY <1>6 DEF AbortDisconnect
<1>7. CASE WriteTxCache
  <2>1. /\ UNCHANGED <<chain, cached, damaged>>
        /\ tomb' = {} /\ db' = (db \ tomb) \cup cached
        /\ phase \in Writing
    BY <1>7 DEF WriteTxCache, BatchWrite, Writing
  <2> QED
    BY <1>2, <2>1
<1>8. CASE WriteScripts
  <2>1. UNCHANGED <<chain, cached, tomb, db, damaged>> /\ phase \in Writing
    BY <1>8 DEF WriteScripts, varsTx, Writing
  <2> QED
    BY <1>2, <2>1
<1>9. CASE Stop \/ PrintBlockDBInfo
  <2>1. UNCHANGED <<chain, cached, tomb, db, damaged>> /\ phase = "run"
    BY <1>9 DEF Stop, PrintBlockDBInfo, varsTx
  <2> QED
    BY <1>2, <2>1
<1>10. CASE Crash
  BY <1>10 DEF Crash, Alive, Writing
<1>11. CASE Start
  <2>1. /\ chain' = disk /\ cached' = db /\ tomb' = {} /\ db' = db
        /\ damaged' = damaged /\ phase = "down"
        /\ phase' = "run" => VerifyDB(disk, db)
        /\ phase' \in {"run", "corrupt"}
    BY <1>11 DEF Start
  <2>2. VerifyDB(disk, db)
    BY <2>1 DEF Alive, Writing
  <2>3. Anchored(disk)
    BY <2>1 DEF Anchors, Shape
  <2> QED
    BY <1>1, <2>1, <2>2, <2>3, VerifiedIsWhole
<1>12. CASE Reindex
  <2>1. Recent(<<>>) = {}
    BY DEF Recent
  <2> QED
    BY <1>12, <2>1 DEF Reindex
<1>13. CASE ReloadTxCache
  <2>1. /\ cached' = Recent(chain) \cup AtWindowEdge(chain, Len(chain))
        /\ chain' = chain /\ db' = db /\ tomb' = {}
        /\ ~damaged /\ tomb \cap db = {} /\ phase = "run"
    BY <1>13 DEF ReloadTxCache
  <2> QED
    BY <1>1, <1>2, <2>1, RecentOfChain, EdgeOfChain
<1> QED
  BY <1>3, <1>4, <1>5, <1>6, <1>7, <1>8, <1>9, <1>10, <1>11, <1>12, <1>13 DEF NextC

-----------------------------------------------------------------------------
(* The rows and the chains.                                                *)

(* Rows that are those of a chain are those of a longer one.               *)
LEMMA AnchoredGrown ==
    ASSUME NEW s \in Seq(Block), NEW b \in Block, Anchored(s)
    PROVE  Anchored(Append(s, b))
<1>1. PICK n \in 0..Len(s) : WrittenAt(s, n)
  BY DEF Anchored
<1>2. /\ Len(s) \in Nat /\ Len(Append(s, b)) = Len(s) + 1
      /\ \A i \in 1..Len(s) : Append(s, b)[i] = s[i]
  OBVIOUS
<1>3. n \in 0..Len(Append(s, b)) /\ WrittenAt(Append(s, b), n)
  BY <1>1, <1>2 DEF WrittenAt
<1> QED
  BY <1>3 DEF Anchored

(* A flush makes them those of the chain in memory.                        *)
LEMMA FlushAnchors ==
    ASSUME chain \in Seq(Block), Recent(chain) \subseteq cached,
           cached \subseteq BlocksOf(chain), db \ tomb \subseteq BlocksOf(chain),
           WriteTxCache
    PROVE  Anchored(chain)'
<1>1. chain' = chain /\ db' = (db \ tomb) \cup cached
  BY DEF WriteTxCache, BatchWrite
<1>2. Len(chain) \in Nat
  OBVIOUS
<1>3. \A b \in db' : \E i \in 1..Len(chain) : b = chain[i]
  BY <1>1, BlocksOfElement
<1>4. \A i \in 1..Len(chain) : i > Len(chain) - CacheHeight => chain[i] \in db'
  BY <1>1, RecentElement
<1> QED
  BY <1>1, <1>2, <1>3, <1>4 DEF Anchored, WrittenAt

LEMMA AnchorsStep ==
    ASSUME Shape, Remembers, Anchors, NextC
    PROVE  Anchors'
<1> SUFFICES ASSUME ~damaged'
             PROVE  /\ Alive' /\ ~undone' => Anchored(chain)'
                    /\ ~torn' => Anchored(disk)'
  BY DEF Anchors
<1>1. chain \in Seq(Block) /\ disk \in Seq(Block)
  BY DEF Shape, TypeOKC, TypeOK
<1>2. ASSUME ~damaged
      PROVE  /\ Alive /\ ~undone => Anchored(chain)
             /\ ~torn => Anchored(disk)
  BY <1>2 DEF Anchors
<1>3. ASSUME NEW b \in Candidate, Connect(b)
      PROVE  /\ ~undone' => Anchored(chain)'
             /\ ~torn' => Anchored(disk)'
  <2>1. /\ chain' = Append(chain, b) /\ UNCHANGED <<db, undone, damaged>>
        /\ phase = "run"
        /\ (disk' = chain' /\ torn' = undone) \/ UNCHANGED <<disk, torn>>
    BY <1>3 DEF Connect, MaybeWriteAccounts, WriteAccounts
  <2>2. ~undone => Anchored(chain)
    BY <1>2, <2>1 DEF Alive
  <2>3. ~undone => Anchored(Append(chain, b))
    BY <1>1, <2>2, CandidateBlock, AnchoredGrown
  <2>4. ~undone' => Anchored(chain)'
    BY <2>1, <2>3 DEF Anchored, WrittenAt
  <2>5. CASE disk' = chain' /\ torn' = undone
    BY <2>1, <2>3, <2>4, <2>5 DEF Anchored, WrittenAt
  <2>6. CASE UNCHANGED <<disk, torn>>
    BY <1>2, <2>1, <2>4, <2>6 DEF Anchored, WrittenAt
  <2> QED
    BY <2>1, <2>4, <2>5, <2>6
<1>4. ASSUME NEW b \in Candidate, AbortConnect(b) PROVE FALSE
  BY <1>4 DEF AbortConnect
<1>5. CASE Disconnect
  <2>1. /\ undone' = TRUE /\ UNCHANGED <<db, damaged>>
        /\ torn' = undone' \/ UNCHANGED <<disk, torn>>
    BY <1>5 DEF Disconnect, MaybeWriteAccounts, WriteAccounts
  <2> QED
    BY <1>2, <2>1 DEF Anchored, WrittenAt
<1>6. CASE AbortDisconnect
  BY <1>6 DEF AbortDisconnect
<1>7. CASE WriteTxCache
  <2>1. /\ UNCHANGED <<chain, disk, damaged>> /\ phase \in Writing
    BY <1>7 DEF WriteTxCache, Writing
  <2>2. disk = chain
    BY <2>1 DEF Shape
  <2>3. Anchored(chain)'
    BY <1>1, <1>7, <2>1, FlushAnchors DEF Remembers, Alive
  <2> QED
    BY <2>1, <2>2, <2>3 DEF Anchored, WrittenAt
<1>8. CASE WriteScripts \/ ReloadTxCache
  <2>1. UNCHANGED <<chain, db, disk, undone, torn>> /\ Alive
    BY <1>8 DEF WriteScripts, ReloadTxCache, varsTx, Writing, Alive
  <2>2. ~damaged
    BY <1>8, Zenon DEF WriteScripts, ReloadTxCache
  <2> QED
    BY <1>2, <2>1, <2>2 DEF Anchored, WrittenAt
<1>9. CASE Stop \/ PrintBlockDBInfo
  <2>1. /\ UNCHANGED <<chain, db, undone, damaged>> /\ disk' = chain /\ torn' = undone
        /\ Alive
    BY <1>9 DEF Stop, PrintBlockDBInfo, WriteAccounts, varsTx, Writing, Alive
  <2> QED
    BY <1>2, <2>1 DEF Anchored, WrittenAt
<1>10. CASE Crash
  <2>1. /\ phase' = "down" /\ UNCHANGED <<db, disk>> /\ ~damaged /\ ~torn
    BY <1>10 DEF Crash
  <2> QED
    BY <1>2, <2>1 DEF Anchored, WrittenAt, Alive, Writing
<1>11. CASE Start
  <2>1. /\ chain' = disk /\ UNCHANGED <<db, disk, torn, damaged>> /\ phase = "down"
    BY <1>11 DEF Start
  <2>2. Anchored(disk)
    BY <1>2, <2>1 DEF Shape
  <2> QED
    BY <2>1, <2>2 DEF Anchored, WrittenAt
<1>12. CASE Reindex
  <2>1. chain' = <<>> /\ disk' = <<>> /\ db' = {}
    BY <1>12 DEF Reindex
  <2> QED
    BY <2>1 DEF Anchored, WrittenAt
<1> QED
  BY <1>3, <1>4, <1>5, <1>6, <1>7, <1>8, <1>9, <1>10, <1>11, <1>12 DEF NextC

-----------------------------------------------------------------------------
(* The transactions.                                                       *)

LEMMA ReplaySafeStep ==
    ASSUME Shape, Remembers, ReplaySafe, NextC
    PROVE  ReplaySafe'
<1> USE DEF Sound, IsValidHeight
<1> SUFFICES ASSUME ~damaged' PROVE Sound(chain') /\ Sound(disk')
  BY DEF ReplaySafe
<1>1. chain \in Seq(Block) /\ Ordered(chain)
  BY DEF Shape, TypeOKC, TypeOK
<1>2. CASE Grows
  <2>1. PICK b \in Candidate : Connect(b)
    BY <1>2 DEF Grows
  <2>2. /\ chain' = Append(chain, b) /\ disk' \in {disk, chain'}
        /\ TxsConnectable(b) /\ phase = "run" /\ ~damaged
    BY <2>1 DEF Connect, MaybeWriteAccounts, WriteAccounts
  <2>3. Recent(chain) \subseteq cached /\ Sound(chain) /\ Sound(disk)
    BY <2>2 DEF Remembers, Alive, ReplaySafe
  <2>4. /\ b \in Block /\ Len(chain) \in Nat
        /\ Len(chain') = Len(chain) + 1
        /\ \A i \in 1..Len(chain) : chain'[i] = chain[i]
        /\ chain'[Len(chain) + 1] = b
    BY <1>1, <2>2, CandidateBlock, Grown
  <2>5. ASSUME NEW i \in 1..Len(chain) PROVE b.txs \cap chain[i].txs = {}
    <3>1. b.txs \subseteq Tx
      BY <2>4 DEF Block
    <3>2. ConfirmedInWindow
      BY <2>3 DEF ConfirmedInWindow
    <3> QED
      BY <2>2, <2>3, <2>4, <3>1, <3>2, ConnectableIsNew
  <2>6. \A t \in b.txs : IsValidHeight(t, Len(chain))
    BY <2>2 DEF TxsConnectable
  <2>7. ASSUME NEW i \in 1..Len(chain'), NEW j \in 1..Len(chain'), i # j
        PROVE  chain'[i].txs \cap chain'[j].txs = {}
    <3>1. CASE i = Len(chain) + 1
      BY <2>4, <2>5, <2>7, <3>1
    <3>2. CASE j = Len(chain) + 1
      BY <2>4, <2>5, <2>7, <3>2
    <3>3. CASE i \in 1..Len(chain) /\ j \in 1..Len(chain)
      BY <2>3, <2>4, <2>7, <3>3
    <3> QED
      BY <2>4, <3>1, <3>2, <3>3
  <2>8. ASSUME NEW i \in 1..Len(chain'), NEW t \in chain'[i].txs
        PROVE  IsValidHeight(t, i - 1)
    <3>1. CASE i = Len(chain) + 1
      BY <2>4, <2>6, <3>1
    <3>2. CASE i \in 1..Len(chain)
      BY <2>3, <2>4, <3>2
    <3> QED
      BY <2>4, <3>1, <3>2
  <2> QED
    BY <2>2, <2>3, <2>7, <2>8
<1>3. CASE Shrinks
  <2>1. /\ Len(chain) > 0 /\ ~damaged
        /\ chain' = SubSeq(chain, 1, Len(chain) - 1)
        /\ disk' \in {disk, chain'}
    BY <1>3 DEF Shrinks, Disconnect, MaybeWriteAccounts, WriteAccounts
  <2>2. Sound(chain) /\ Sound(disk)
    BY <2>1 DEF ReplaySafe
  <2>3. Len(chain) \in Nat /\ Len(chain') = Len(chain) - 1
        /\ \A i \in 1..Len(chain') : chain'[i] = chain[i]
    BY <1>1, <2>1, Shortened
  <2>4. Sound(chain')
    BY <2>2, <2>3
  <2> QED
    BY <2>1, <2>2, <2>4
<1>4. CASE ~Grows /\ ~Shrinks
  <2>1. chain' \in {chain, disk, <<>>} /\ disk' \in {chain, disk, <<>>}
    BY <1>4, ChainMoves
  <2>2. CASE Reindex
    BY <2>2 DEF Reindex
  <2>3. CASE ~Reindex
    <3>1. ~damaged
      BY <1>4, <2>3 DEF NextC, Grows, Shrinks, AbortConnect, AbortDisconnect,
         WriteTxCache, WriteScripts, Stop, PrintBlockDBInfo, Crash, Start, ReloadTxCache
    <3>2. Sound(<<>>)
      OBVIOUS
    <3> QED
      BY <2>1, <3>1, <3>2 DEF ReplaySafe
  <2> QED
    BY <2>2, <2>3
<1> QED
  BY <1>2, <1>3, <1>4

-----------------------------------------------------------------------------
(* The contracts.                                                          *)

LEMMA RecordsStep ==
    ASSUME Shape, Records, NextC
    PROVE  Records'
<1> SUFFICES ASSUME ~cut'
             PROVE  /\ Alive' => applied' = BlocksOf(chain')
                    /\ phase' \notin Writing => scripts' = BlocksOf(disk')
  BY DEF Records, BlocksOf
<1>1. chain \in Seq(Block) /\ Ordered(chain) /\ (phase \in Writing => disk = chain)
  BY DEF Shape, TypeOKC, TypeOK
<1>2. ASSUME ~cut
      PROVE  /\ phase \in {"run"} \cup Writing => applied = BlocksOf(chain)
             /\ phase \notin Writing => scripts = BlocksOf(disk)
  BY <1>2 DEF Records, Alive
<1>3. ASSUME NEW b \in Candidate, Connect(b)
      PROVE  /\ applied' = BlocksOf(chain')
             /\ phase' \notin Writing => scripts' = BlocksOf(disk')
  <2>1. /\ chain' = Append(chain, b) /\ applied' = applied \cup {b}
        /\ UNCHANGED <<scripts, cut>> /\ phase = "run"
        /\ phase' = "written" \/ UNCHANGED <<phase, disk>>
    BY <1>3 DEF Connect, Followed, MaybeWriteAccounts, WriteAccounts
  <2>2. BlocksOf(chain') = BlocksOf(chain) \cup {b}
    BY <1>1, <2>1, CandidateBlock, Grown
  <2> QED
    BY <1>2, <2>1, <2>2 DEF Writing
<1>4. ASSUME NEW b \in Candidate, AbortConnect(b)
      PROVE  /\ applied' = BlocksOf(chain')
             /\ phase' \notin Writing => scripts' = BlocksOf(disk')
  BY <1>2, <1>4 DEF AbortConnect, Writing
<1>5. CASE Disconnect
  <2>1. /\ Len(chain) > 0
        /\ chain' = SubSeq(chain, 1, Len(chain) - 1)
        /\ applied' = applied \ {chain[Len(chain)]}
        /\ UNCHANGED <<scripts, cut>> /\ phase = "run"
        /\ phase' = "written" \/ UNCHANGED <<phase, disk>>
    BY <1>5 DEF Disconnect, MaybeWriteAccounts, WriteAccounts
  <2>2. BlocksOf(chain') = BlocksOf(chain) \ {chain[Len(chain)]}
    BY <1>1, <2>1, Shortened
  <2> QED
    BY <1>2, <2>1, <2>2 DEF Writing
<1>6. CASE AbortDisconnect \/ ReloadTxCache
  BY <1>2, <1>6 DEF AbortDisconnect, ReloadTxCache, Writing
<1>7. CASE WriteTxCache
  <2>1. /\ UNCHANGED <<chain, applied, cut>> /\ phase \in Writing /\ phase' \in Writing
    BY <1>7 DEF WriteTxCache, Writing
  <2> QED
    BY <1>2, <2>1
<1>8. CASE WriteScripts
  <2>1. /\ UNCHANGED <<chain, disk, applied, cut>> /\ scripts' = applied
        /\ phase \in Writing
    BY <1>8 DEF WriteScripts, varsTx, Writing
  <2> QED
    BY <1>1, <1>2, <2>1
<1>9. CASE Stop \/ PrintBlockDBInfo
  BY <1>2, <1>9 DEF Stop, PrintBlockDBInfo, WriteAccounts, varsTx, Writing
<1>10. CASE Crash
  <2>1. /\ ~cut /\ phase \notin Writing /\ phase' = "down"
        /\ scripts' = scripts /\ disk' = disk
    BY <1>10 DEF Crash, Followed
  <2> QED
    BY <1>2, <2>1 DEF Alive, Writing
<1>11. CASE Start
  BY <1>2, <1>11 DEF Start, Writing
<1>12. CASE Reindex
  <2>1. BlocksOf(<<>>) = {}
    BY DEF BlocksOf
  <2> QED
    BY <1>12, <2>1 DEF Reindex
<1> QED
  BY <1>3, <1>4, <1>5, <1>6, <1>7, <1>8, <1>9, <1>10, <1>11, <1>12 DEF NextC

-----------------------------------------------------------------------------
(* The invariant holds of every behaviour.                                 *)
THEOREM CrashInvariance == SpecC => []CrashInv
<1>1. CrashInv /\ NextC => CrashInv'
  BY ShapeStep, RemembersStep, AnchorsStep, ReplaySafeStep, RecordsStep DEF CrashInv
<1>2. CrashInv /\ [NextC]_varsC => CrashInv'
  BY <1>1, StutterCrashInv
<1> QED
  BY InitCrashInv, <1>2, PTL DEF SpecC

(* The databases and the caches stay well formed through every crash, torn *)
(* write, aborted block and restart.                                       *)
THEOREM CrashTypeCorrect == SpecC => []TypeOKC
<1>1. CrashInv => TypeOKC
  BY DEF CrashInv, Shape
<1> QED
  BY CrashInvariance, <1>1, PTL

(* A node that VerifyDB lets start has every recent block in its tx cache, *)
(* whatever was torn before, unless one of the three named events came     *)
(* before: whatever VerifyDepth is, the tip alone gives a torn write away. *)
THEOREM WindowOutlivesCrashes == SpecC => []WindowSurvives
<1>1. CrashInv => WindowSurvives
  BY DEF CrashInv, Remembers, WindowSurvives, Alive
<1> QED
  BY CrashInvariance, <1>1, PTL

(* No crash, torn write or restart lets ConnectBlock execute a signed      *)
(* transaction a second time, unless one of the three events came before.  *)
THEOREM ReplayProtectionOutlivesCrashes == SpecC => []ReplaySafeAcrossCrashes
<1>1. CrashInv => ReplaySafeAcrossCrashes
  BY DEF CrashInv, ReplaySafe, Sound, ReplaySafeAcrossCrashes, NoDoubleConfirm
<1> QED
  BY CrashInvariance, <1>1, PTL

(* The records of the contracts in a running node are those of the blocks  *)
(* of its chain, unless a crash fell between the accounts and the          *)
(* contracts in WriteChainState, Shutdown or printblokdbinfo.              *)
THEOREM ScriptsFollowChain == SpecC => []ScriptsInStep
<1>1. CrashInv => ScriptsInStep
  BY DEF CrashInv, Records, ScriptsInStep, Alive
<1> QED
  BY CrashInvariance, <1>1, PTL
=============================================================================
