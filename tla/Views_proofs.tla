---------------------------- MODULE Views_proofs ----------------------------
(* Proofs about the layered account caches, for every set of keys, ids,    *)
(* accounts and blocks.  AccountView: the layers are the maps they promise *)
(* to be.  ForkViews: what a view of a side branch answers.                *)
EXTENDS AccountView, ForkViews, FiniteSetTheorems, SequenceTheorems, WellFoundedInduction,
        TLAPS

(* AccountView *)
(* A child that does not exist holds nothing.                              *)
ClosedIsEmpty == ~open => viewA = Empty(Key) /\ viewI = Empty(Id)

(* The inductive invariant.  The refinement needs the types above all: the *)
(* tip never holds the mark of a removed account, so that what it lacks is *)
(* what the database says, and BatchWrite has to keep it so.               *)
IInv == TypeOK /\ ClosedIsEmpty /\ ResumesAtFlush

-----------------------------------------------------------------------------
(* What the layers answer are maps over the same names.                    *)
LEMMA LayersType ==
    ASSUME TypeOK
    PROVE  /\ TipAccounts \in [Key -> Acct \cup {None}]
           /\ TipIds \in [Id -> Key \cup {None}]
           /\ BlockAccounts \in [Key -> Acct \cup {None}]
           /\ BlockIds \in [Id -> Key \cup {None}]
<1>1. TipAccounts \in [Key -> Acct \cup {None}] /\ TipIds \in [Id -> Key \cup {None}]
  BY DEF TypeOK, TipAccounts, TipIds, Over
<1> QED
  BY <1>1 DEF TypeOK, BlockAccounts, BlockIds, Over

(* Nothing on top of a base is the base.                                   *)
LEMMA EmptyOver ==
    ASSUME NEW S, NEW V, NEW base \in [S -> V]
    PROVE  Over(Empty(S), base) = base
  BY DEF Over, Empty

-----------------------------------------------------------------------------
LEMMA InitIInv == Init => IInv
<1> SUFFICES ASSUME Init PROVE IInv
  OBVIOUS
<1>1. TypeOK
  BY DEF Init, TypeOK, Empty
<1>2. ClosedIsEmpty /\ ResumesAtFlush
  BY DEF Init, ClosedIsEmpty, ResumesAtFlush
<1> QED
  BY <1>1, <1>2 DEF IInv

LEMMA NextIInv == IInv /\ [Next]_vars => IInv'
<1> SUFFICES ASSUME IInv, [Next]_vars PROVE IInv'
  OBVIOUS
<1> USE SentinelAssumption DEF IInv, TypeOK, ClosedIsEmpty, ResumesAtFlush
<1>1. CASE OpenView
  BY <1>1 DEF OpenView
<1>2. ASSUME NEW k \in Key, GetAccount(k) PROVE IInv'
  BY <1>2, LayersType DEF GetAccount, Fetched
<1>3. ASSUME NEW k \in Key, EraseAccount(k) PROVE IInv'
  BY <1>3 DEF EraseAccount, Fetched
<1>4. ASSUME NEW i \in Id, GetKeyId(i) PROVE IInv'
  BY <1>4, LayersType DEF GetKeyId, Fetched
<1>5. ASSUME NEW i \in Id, GetAccountById(i) PROVE IInv'
  BY <1>5, LayersType DEF GetAccountById, Fetched
<1>6. ASSUME NEW i \in Id, EraseKeyId(i) PROVE IInv'
  BY <1>6 DEF EraseKeyId, Fetched
<1>7. ASSUME NEW k \in Key, NEW a \in Acct, SetAccount(k, a) PROVE IInv'
  BY <1>7 DEF SetAccount
<1>8. ASSUME NEW i \in Id, NEW a \in Acct, SetAccountById(i, a) PROVE IInv'
  BY <1>7, <1>8 DEF SetAccountById
<1>9. ASSUME NEW i \in Id, NEW k \in Key, NEW a \in Acct, SaveAccountInfo(i, k, a)
      PROVE  IInv'
  BY <1>9 DEF SaveAccountInfo
<1>10. CASE DropView
  BY <1>10 DEF DropView, Empty
<1>11. CASE FlushView
  <2>1. TypeOK'
    BY <1>11 DEF FlushView, BatchWrite, Removed, Empty
  <2>2. ClosedIsEmpty'
    BY <1>11 DEF FlushView
  <2>3. ResumesAtFlush'
    BY <1>11 DEF FlushView, BatchWrite, Removed
  <2> QED
    BY <2>1, <2>2, <2>3
<1>12. CASE FlushTip
  <2>1. TypeOK'
    BY <1>12, LayersType DEF FlushTip, Empty
  <2>2. ClosedIsEmpty' /\ ResumesAtFlush'
    BY <1>12, LayersType DEF FlushTip
  <2> QED
    BY <2>1, <2>2
<1>13. CASE Restart
  BY <1>13 DEF Restart, Empty
<1>14. CASE UNCHANGED vars
  BY <1>14 DEF vars
<1> QED
  BY <1>1, <1>2, <1>3, <1>4, <1>5, <1>6, <1>7, <1>8, <1>9, <1>10, <1>11, <1>12,
     <1>13, <1>14 DEF Next

(* The inductive invariant holds in every reachable state of the caches.     *)
THEOREM Invariance == Spec => []IInv
  BY InitIInv, NextIInv, PTL DEF Spec

(* The state keeps its type; in particular the tip never holds a mark.     *)
THEOREM TypeCorrect == Spec => []TypeOK
<1>1. IInv => TypeOK
  BY DEF IInv
<1> QED
  BY <1>1, Invariance, PTL

(* After a crash the accounts are those of the last flush, less the ones   *)
(* whose removal was committed since.                                      *)
THEOREM CrashState == Spec => []ResumesAtFlush
<1>1. IInv => ResumesAtFlush
  BY DEF IInv
<1> QED
  BY <1>1, Invariance, PTL

-----------------------------------------------------------------------------
(* The four maps the layers stand for, and the two of the database.        *)
Same == /\ TipAccounts' = TipAccounts /\ TipIds' = TipIds
        /\ BlockAccounts' = BlockAccounts /\ BlockIds' = BlockIds
        /\ dbA' = dbA /\ dbI' = dbI

LEMMA SameIsStutter == Same => UNCHANGED Map!vars
  BY DEF Same, Map!vars

(* Reading, in whatever layer the answer is found and kept.                *)
LEMMA GetAccountStep ==
    ASSUME IInv, NEW k \in Key, GetAccount(k)
    PROVE  Same
<1> USE SentinelAssumption DEF IInv, TypeOK, GetAccount
<1>1. TipAccounts' = TipAccounts /\ TipIds' = TipIds
  BY DEF TipAccounts, TipIds, Over, Fetched
<1>2. BlockAccounts' = BlockAccounts /\ BlockIds' = BlockIds
  BY <1>1, LayersType DEF BlockAccounts, BlockIds, Over, Fetched
<1> QED
  BY <1>1, <1>2 DEF Same

LEMMA GetKeyIdStep ==
    ASSUME IInv, NEW i \in Id, GetKeyId(i)
    PROVE  Same
<1> USE SentinelAssumption DEF IInv, TypeOK, GetKeyId
<1>1. TipAccounts' = TipAccounts /\ TipIds' = TipIds
  BY DEF TipAccounts, TipIds, Over, Fetched
<1>2. BlockAccounts' = BlockAccounts /\ BlockIds' = BlockIds
  BY <1>1, LayersType DEF BlockAccounts, BlockIds, Over, Fetched
<1> QED
  BY <1>1, <1>2 DEF Same

LEMMA GetAccountByIdStep ==
    ASSUME IInv, NEW i \in Id, GetAccountById(i)
    PROVE  Same
<1> USE SentinelAssumption DEF IInv, TypeOK, GetAccountById
<1>1. BlockIds[i] \in Key
  BY LayersType
<1>2. TipAccounts' = TipAccounts /\ TipIds' = TipIds
  BY <1>1 DEF TipAccounts, TipIds, Over, Fetched
<1>3. BlockAccounts' = BlockAccounts /\ BlockIds' = BlockIds
  BY <1>1, <1>2, LayersType DEF BlockAccounts, BlockIds, Over, Fetched
<1> QED
  BY <1>2, <1>3 DEF Same

(* Writing to the child changes the draft and nothing else.                *)
LEMMA SetAccountStep ==
    ASSUME IInv, NEW k \in Key, NEW a \in Acct, SetAccount(k, a)
    PROVE  Map!Put(k, a)
<1> USE SentinelAssumption DEF IInv, TypeOK, SetAccount
<1>1. TipAccounts' = TipAccounts /\ TipIds' = TipIds
  BY DEF TipAccounts, TipIds
<1>2. BlockAccounts' = [BlockAccounts EXCEPT ![k] = a] /\ BlockIds' = BlockIds
  BY <1>1, LayersType DEF BlockAccounts, BlockIds, Over
<1> QED
  BY <1>1, <1>2 DEF Map!Put

LEMMA SaveAccountInfoStep ==
    ASSUME IInv, NEW i \in Id, NEW k \in Key, NEW a \in Acct,
           SaveAccountInfo(i, k, a)
    PROVE  Map!PutWithId(i, k, a)
<1> USE SentinelAssumption DEF IInv, TypeOK, SaveAccountInfo
<1>1. TipAccounts' = TipAccounts /\ TipIds' = TipIds
  BY DEF TipAccounts, TipIds
<1>2. /\ BlockAccounts' = [BlockAccounts EXCEPT ![k] = a]
      /\ BlockIds' = [BlockIds EXCEPT ![i] = k]
  BY <1>1, LayersType DEF BlockAccounts, BlockIds, Over
<1> QED
  BY <1>1, <1>2 DEF Map!PutWithId

(* Removing marks the child where there is something to remove, and may    *)
(* let the tip keep what it was asked for.                                 *)
LEMMA EraseAccountStep ==
    ASSUME IInv, NEW k \in Key, EraseAccount(k)
    PROVE  Map!Put(k, None)
<1> USE SentinelAssumption DEF IInv, TypeOK, EraseAccount
<1>1. TipAccounts' = TipAccounts /\ TipIds' = TipIds
  BY DEF TipAccounts, TipIds, Over, Fetched
<1>2. BlockAccounts' = [BlockAccounts EXCEPT ![k] = None] /\ BlockIds' = BlockIds
  BY <1>1, LayersType DEF BlockAccounts, BlockIds, Over
<1> QED
  BY <1>1, <1>2 DEF Map!Put

LEMMA EraseKeyIdStep ==
    ASSUME IInv, NEW i \in Id, EraseKeyId(i)
    PROVE  Map!PutId(i, None)
<1> USE SentinelAssumption DEF IInv, TypeOK, EraseKeyId
<1>1. TipAccounts' = TipAccounts /\ TipIds' = TipIds
  BY DEF TipAccounts, TipIds, Over, Fetched
<1>2. BlockAccounts' = BlockAccounts /\ BlockIds' = [BlockIds EXCEPT ![i] = None]
  BY <1>1, LayersType DEF BlockAccounts, BlockIds, Over
<1> QED
  BY <1>1, <1>2 DEF Map!PutId

(* A dropped child leaves the draft as it was before the block.            *)
LEMMA DropViewStep ==
    ASSUME IInv, DropView
    PROVE  Map!Discard
<1> USE SentinelAssumption DEF IInv, TypeOK, DropView
<1>1. TipAccounts' = TipAccounts /\ TipIds' = TipIds
  BY DEF TipAccounts, TipIds
<1>2. BlockAccounts' = TipAccounts /\ BlockIds' = TipIds
  BY <1>1, LayersType, EmptyOver DEF BlockAccounts, BlockIds
<1> QED
  BY <1>1, <1>2 DEF Map!Discard

(* The tip takes over what the child says.  For a removed account, which   *)
(* leaves the tip too, the answer comes from the database, and it is there *)
(* that it has to be gone.                                                 *)
LEMMA FlushViewStep ==
    ASSUME IInv, FlushView
    PROVE  Map!Commit
<1> USE SentinelAssumption DEF IInv, TypeOK, FlushView
<1>1. TipAccounts' = BlockAccounts
  BY DEF BatchWrite, Removed, TipAccounts, BlockAccounts, Over
<1>2. TipIds' = BlockIds
  BY DEF BatchWrite, TipIds, BlockIds, Over
<1>3. BlockAccounts' = BlockAccounts /\ BlockIds' = BlockIds
  BY <1>1, <1>2, LayersType, EmptyOver DEF BlockAccounts, BlockIds
<1>4. dbA' = [k \in Key |-> IF BlockAccounts[k] = None THEN None ELSE dbA[k]]
  BY DEF BatchWrite, Removed, BlockAccounts, TipAccounts, Over
<1> QED
  BY <1>1, <1>2, <1>3, <1>4 DEF Map!Commit

(* Flushing the tip moves what it says into the database.                  *)
LEMMA FlushTipStep ==
    ASSUME IInv, FlushTip
    PROVE  Map!Save
<1> USE DEF IInv, TypeOK, FlushTip
<1>1. TipAccounts' = TipAccounts /\ TipIds' = TipIds
  BY LayersType, EmptyOver DEF TipAccounts, TipIds
<1>2. BlockAccounts' = BlockAccounts /\ BlockIds' = BlockIds
  BY <1>1 DEF BlockAccounts, BlockIds
<1> QED
  BY <1>1, <1>2 DEF Map!Save

(* After a crash all layers say what the database says.                    *)
LEMMA RestartStep ==
    ASSUME IInv, Restart
    PROVE  Map!Restart
<1> USE DEF IInv, TypeOK, Restart
<1>1. TipAccounts' = dbA /\ TipIds' = dbI
  BY EmptyOver DEF TipAccounts, TipIds
<1>2. BlockAccounts' = dbA /\ BlockIds' = dbI
  BY <1>1, EmptyOver DEF BlockAccounts, BlockIds
<1> QED
  BY <1>1, <1>2 DEF Map!Restart

LEMMA InitMaps == Init => Map!Init
<1> SUFFICES ASSUME Init PROVE Map!Init
  OBVIOUS
<1>1. TipAccounts = dbA /\ TipIds = dbI
  BY EmptyOver DEF Init, TipAccounts, TipIds, Over, Empty
<1>2. BlockAccounts = dbA /\ BlockIds = dbI
  BY <1>1 DEF Init, BlockAccounts, BlockIds, Over, Empty
<1> QED
  BY <1>1, <1>2 DEF Init, Map!Init

LEMMA NextMaps == IInv /\ [Next]_vars => [Map!Next]_(Map!vars)
<1> SUFFICES ASSUME IInv, [Next]_vars PROVE Map!Next \/ UNCHANGED Map!vars
  OBVIOUS
<1>1. ASSUME Same PROVE UNCHANGED Map!vars
  BY <1>1, SameIsStutter
<1>2. CASE OpenView \/ UNCHANGED vars
  BY <1>1, <1>2 DEF OpenView, vars, Same, TipAccounts, TipIds, BlockAccounts, BlockIds
<1>3. ASSUME NEW k \in Key, GetAccount(k) PROVE UNCHANGED Map!vars
  BY <1>1, <1>3, GetAccountStep
<1>4. ASSUME NEW i \in Id, GetKeyId(i) PROVE UNCHANGED Map!vars
  BY <1>1, <1>4, GetKeyIdStep
<1>5. ASSUME NEW i \in Id, GetAccountById(i) PROVE UNCHANGED Map!vars
  BY <1>1, <1>5, GetAccountByIdStep
<1>6. ASSUME NEW k \in Key, EraseAccount(k) PROVE Map!Next
  BY <1>6, EraseAccountStep DEF Map!Next
<1>7. ASSUME NEW i \in Id, EraseKeyId(i) PROVE Map!Next
  BY <1>7, EraseKeyIdStep DEF Map!Next
<1>8. ASSUME NEW k \in Key, NEW a \in Acct, SetAccount(k, a) PROVE Map!Next
  BY <1>8, SetAccountStep DEF Map!Next
<1>9. ASSUME NEW i \in Id, NEW a \in Acct, SetAccountById(i, a) PROVE Map!Next
  BY <1>8, <1>9 DEF SetAccountById
<1>10. ASSUME NEW i \in Id, NEW k \in Key, NEW a \in Acct, SaveAccountInfo(i, k, a)
       PROVE  Map!Next
  BY <1>10, SaveAccountInfoStep DEF Map!Next
<1>11. CASE DropView
  BY <1>11, DropViewStep DEF Map!Next
<1>12. CASE FlushView
  BY <1>12, FlushViewStep DEF Map!Next
<1>13. CASE FlushTip
  BY <1>13, FlushTipStep DEF Map!Next
<1>14. CASE Restart
  BY <1>14, RestartStep DEF Map!Next
<1> QED
  BY <1>2, <1>3, <1>4, <1>5, <1>6, <1>7, <1>8, <1>9, <1>10, <1>11, <1>12, <1>13,
     <1>14 DEF Next

(* Whatever layer held it, an erased account or id is gone for the block.  *)
THEOREM RemovalsLand == Spec => ErasedIsGone
<1>1. ASSUME IInv, NEW k \in Key, EraseAccount(k)
      PROVE  BlockAccounts'[k] = None
  <2>1. CASE BlockAccounts[k] = None /\ viewA[k] # Uncached
    BY <1>1, <2>1 DEF IInv, TypeOK, EraseAccount, BlockAccounts, TipAccounts, Over
  <2>2. CASE BlockAccounts[k] = None /\ viewA[k] = Uncached
    BY <1>1, <2>2, SentinelAssumption
       DEF IInv, TypeOK, EraseAccount, Fetched, BlockAccounts, TipAccounts, Over
  <2>3. CASE BlockAccounts[k] # None
    BY <1>1, <2>3, SentinelAssumption
       DEF IInv, TypeOK, EraseAccount, BlockAccounts, TipAccounts, Over
  <2> QED
    BY <2>1, <2>2, <2>3
<1>2. ASSUME IInv, NEW i \in Id, EraseKeyId(i)
      PROVE  BlockIds'[i] = None
  <2>1. CASE BlockIds[i] = None /\ viewI[i] # Uncached
    BY <1>2, <2>1 DEF IInv, TypeOK, EraseKeyId, BlockIds, TipIds, Over
  <2>2. CASE BlockIds[i] = None /\ viewI[i] = Uncached
    BY <1>2, <2>2, SentinelAssumption
       DEF IInv, TypeOK, EraseKeyId, Fetched, BlockIds, TipIds, Over
  <2>3. CASE BlockIds[i] # None
    BY <1>2, <2>3, SentinelAssumption
       DEF IInv, TypeOK, EraseKeyId, BlockIds, TipIds, Over
  <2> QED
    BY <2>1, <2>2, <2>3
<1>3. IInv => [/\ \A k \in Key : EraseAccount(k) => BlockAccounts'[k] = None
               /\ \A i \in Id : EraseKeyId(i) => BlockIds'[i] = None]_vars
  BY <1>1, <1>2
<1> QED
  BY <1>3, Invariance, PTL DEF ErasedIsGone

(* The caches implement the maps: every state of the layers stands for one *)
(* of the plain maps, every step for a step of theirs or for none.         *)
THEOREM Refinement == Spec => ImplementsMap
<1>1. Init => Map!Init
  BY InitMaps
<1>2. IInv /\ [Next]_vars => [Map!Next]_(Map!vars)
  BY NextMaps
<1> QED
  BY <1>1, <1>2, Invariance, PTL DEF Spec, ImplementsMap, Map!Spec

-----------------------------------------------------------------------------
(* ForkViews: the tree of blocks, and what an account is on a branch.      *)

(* Every nonempty set of natural numbers has a least element. *)
LEMMA LeastNat ==
    ASSUME NEW T, T \subseteq Nat, T # {}
    PROVE  \E n \in T : \A m \in T : n <= m
<1> DEFINE R == {ss \in Nat \X Nat : ss[1] < ss[2]}
<1>1. IsWellFoundedOn(R, Nat)
  BY NatLessThanWellFounded DEF OpToRel
<1>2. R = {ss \in Nat \X Nat : ss[1] < ss[2]}
  OBVIOUS
<1> HIDE DEF R
<1>3. PICK n \in T : \A m \in T : <<m, n>> \notin R
  BY <1>1, WFMin
<1>4. ASSUME NEW m \in T PROVE n <= m
  <2>1. m \in Nat /\ n \in Nat /\ <<m, n>> \notin R
    BY <1>3
  <2>2. ~(m < n)
    BY <1>2, <2>1
  <2> QED
    BY <2>1, <2>2
<1> QED
  BY <1>4

(* A chain goes from a block down to the genesis block, and contains the   *)
(* chains of its blocks.                                                   *)
LEMMA OwnChain ==
    ASSUME NEW b \in Block
    PROVE  /\ b \in Anc[b] /\ Genesis \in Anc[b] /\ Anc[b] \subseteq Block
           /\ \A a \in Anc[b] : Anc[a] \subseteq Anc[b]
  BY TreeAssumption

(* A block's chain is its parent's and itself. *)
LEMMA ParentChain ==
    ASSUME NEW b \in Block, b # Genesis
    PROVE  /\ Prev[b] \in Block /\ b \notin Anc[Prev[b]]
           /\ Anc[b] = Anc[Prev[b]] \cup {b}
  BY TreeAssumption

(* Work grows along a chain. *)
LEMMA WorkGrows ==
    ASSUME NEW b \in Block, NEW a \in Anc[b]
    PROVE  /\ Work[a] \in Nat /\ Work[b] \in Nat
           /\ a # b => Work[a] < Work[b]
           /\ a # b => b \notin Anc[a]
<1>1. /\ a \in Block /\ Work \in [Block -> Nat]
      /\ a # b => Work[a] < Work[b]
      /\ b \in Anc[a] /\ a # b => Work[b] < Work[a]
  BY TreeAssumption
<1>2. Work[a] \in Nat /\ Work[b] \in Nat
  BY <1>1
<1> QED
  BY <1>1, <1>2

(* A chain is finite: its blocks differ in their work. *)
LEMMA ChainFinite ==
    ASSUME NEW b \in Block
    PROVE  IsFiniteSet(Anc[b])
<1> DEFINE f == [a \in Anc[b] |-> Work[a]]
<1>1. \A a \in Anc[b] : Work[a] \in 0..Work[b]
  BY WorkGrows
<1>2. ASSUME NEW a \in Anc[b], NEW c \in Anc[b], Work[a] = Work[c] PROVE a = c
  <2>1. a \in Anc[c] \/ c \in Anc[a]
    BY TreeAssumption
  <2>2. a \in Block /\ c \in Block
    BY OwnChain
  <2> QED
    BY <1>2, <2>1, <2>2, WorkGrows
<1>3. f \in Injection(Anc[b], 0..Work[b])
  BY <1>1, <1>2 DEF Injection, IsInjective
<1>4. IsFiniteSet(0..Work[b])
  BY FS_Interval, TreeAssumption
<1> QED
  BY <1>3, <1>4, FS_Injection

(* Heights count the blocks between a block and the genesis block. *)
LEMMA HeightType ==
    ASSUME NEW b \in Block
    PROVE  Height(b) \in Nat
<1>1. Cardinality(Anc[b]) \in Nat /\ Cardinality(Anc[b]) # 0
  BY ChainFinite, OwnChain, FS_CardinalityType, FS_EmptySet
<1> QED
  BY <1>1 DEF Height
(* Heights grow along a chain.                                             *)
LEMMA HeightGrows ==
    ASSUME NEW b \in Block, NEW a \in Anc[b]
    PROVE  Height(a) <= Height(b) /\ (a # b => Height(a) < Height(b))
<1>1. a \in Block /\ Anc[a] \subseteq Anc[b]
  BY OwnChain
<1>2. /\ Cardinality(Anc[a]) \in Nat /\ Cardinality(Anc[b]) \in Nat
      /\ Cardinality(Anc[a]) <= Cardinality(Anc[b])
      /\ Cardinality(Anc[a]) = Cardinality(Anc[b]) => Anc[a] = Anc[b]
  BY <1>1, ChainFinite, FS_Subset, FS_CardinalityType
<1>3. a # b => Anc[a] # Anc[b]
  BY OwnChain, WorkGrows
<1> QED
  BY <1>2, <1>3 DEF Height

(* Of two blocks of one chain the lower one is below the other. *)
LEMMA LowerIsAncestor ==
    ASSUME NEW b \in Block, NEW a \in Anc[b], NEW c \in Anc[b], Height(a) <= Height(c)
    PROVE  a \in Anc[c]
<1>1. a \in Block /\ c \in Block /\ (a \in Anc[c] \/ c \in Anc[a])
  BY TreeAssumption
<1>2. Height(a) \in Nat /\ Height(c) \in Nat
  BY <1>1, HeightType
<1>3. c \in Anc[a] => a = c
  BY <1>1, <1>2, HeightGrows
<1> QED
  BY <1>1, <1>3, OwnChain

(* A chain has one block at each height.                                   *)
LEMMA SameHeight ==
    ASSUME NEW b \in Block, NEW a \in Anc[b], NEW c \in Anc[b], Height(a) = Height(c)
    PROVE  a = c
<1>1. a \in Block /\ c \in Block
  BY OwnChain
<1>2. Height(a) \in Nat /\ Height(c) \in Nat
  BY <1>1, HeightType
<1>3. a \in Anc[c] /\ c \in Anc[a]
  BY <1>2, LowerIsAncestor
<1> QED
  BY <1>1, <1>3, WorkGrows

(* Two blocks on each other's chains are one.                              *)
LEMMA SameBlock ==
    ASSUME NEW b \in Block, NEW a \in Anc[b], b \in Anc[a]
    PROVE  a = b
BY WorkGrows

(* Blocks of one chain have a highest and a lowest among them.             *)
LEMMA HighestIs ==
    ASSUME NEW b \in Block, NEW S, S \subseteq Anc[b], S # {}
    PROVE  Highest(S) \in S /\ \A a \in S : a \in Anc[Highest(S)]
<1> DEFINE T == {Height(b) - Height(a) : a \in S}
<1>1. \A a \in S : Height(a) \in Nat /\ Height(b) \in Nat /\ Height(a) <= Height(b)
  BY OwnChain, HeightType, HeightGrows
<1>2. T \subseteq Nat /\ T # {}
  BY <1>1
<1> HIDE DEF T
<1>3. PICK n \in T : \A m \in T : n <= m
  BY <1>2, LeastNat
<1>4. PICK h \in S : n = Height(b) - Height(h)
  BY <1>3 DEF T
<1>5. ASSUME NEW a \in S PROVE Height(h) >= Height(a)
  <2>1. Height(b) - Height(a) \in T
    BY DEF T
  <2>2. Height(b) - Height(h) <= Height(b) - Height(a)
    BY <1>3, <1>4, <2>1
  <2> QED
    BY <1>1, <2>2
<1>6. Highest(S) \in S /\ \A a \in S : Height(Highest(S)) >= Height(a)
  BY <1>5 DEF Highest
<1> QED
  BY <1>1, <1>6, LowerIsAncestor

(* The lowest of some blocks of a chain is one of them, below the others.  *)
LEMMA LowestIs ==
    ASSUME NEW b \in Block, NEW S, S \subseteq Anc[b], S # {}
    PROVE  Lowest(S) \in S /\ \A a \in S : Lowest(S) \in Anc[a]
<1> DEFINE T == {Height(a) : a \in S}
<1>1. \A a \in S : Height(a) \in Nat
  BY OwnChain, HeightType
<1>2. T \subseteq Nat /\ T # {}
  BY <1>1
<1>3. PICK n \in T : \A m \in T : n <= m
  BY <1>2, LeastNat
<1>4. PICK l \in S : \A a \in S : Height(l) <= Height(a)
  BY <1>3
<1>5. Lowest(S) \in S /\ \A a \in S : Height(Lowest(S)) <= Height(a)
  BY <1>4 DEF Lowest
<1> QED
  BY <1>1, <1>5, LowerIsAncestor

-----------------------------------------------------------------------------
(* What an account is on a branch is the last block of it that wrote it,   *)
(* and nothing else.                                                       *)
LEMMA TruthIs ==
    ASSUME NEW b \in Block, NEW k \in Account
    PROVE  /\ Truth(b, k) \in Anc[b] /\ Truth(b, k) \in Block /\ k \in Writes[Truth(b, k)]
           /\ \A a \in Anc[b] : k \in Writes[a] => a \in Anc[Truth(b, k)]
<1> DEFINE S == {a \in Anc[b] : k \in Writes[a]}
<1>1. S # {} /\ S \subseteq Anc[b]
  BY OwnChain, WritesAssumption
<1>2. Highest(S) \in S /\ \A a \in S : a \in Anc[Highest(S)]
  BY <1>1, HighestIs
<1>3. Truth(b, k) = Highest(S)
  BY DEF Truth
<1> HIDE DEF S
<1>4. Truth(b, k) \in S /\ \A a \in S : a \in Anc[Truth(b, k)]
  BY <1>2, <1>3
<1> QED
  BY <1>4, OwnChain DEF S

(* The block of the chain that is above all other writers is the last one. *)
LEMMA TruthOnly ==
    ASSUME NEW b \in Block, NEW k \in Account, NEW t \in Anc[b], k \in Writes[t],
           \A a \in Anc[b] : k \in Writes[a] => a \in Anc[t]
    PROVE  Truth(b, k) = t
<1>1. Truth(b, k) \in Anc[t] /\ t \in Anc[Truth(b, k)] /\ t \in Block
  BY TruthIs, OwnChain
<1> QED
  BY <1>1, SameBlock

(* An account nobody writes between two blocks is the same at both, and at *)
(* all between them.                                                       *)
LEMMA TruthKept ==
    ASSUME NEW b \in Block, NEW a \in Anc[b], NEW k \in Account,
           \A c \in Anc[b] \ Anc[a] : k \notin Writes[c]
    PROVE  Truth(b, k) = Truth(a, k)
<1>1. a \in Block /\ Anc[a] \subseteq Anc[b]
  BY OwnChain
<1>2. /\ Truth(a, k) \in Anc[b] /\ k \in Writes[Truth(a, k)]
      /\ \A c \in Anc[b] : k \in Writes[c] => c \in Anc[Truth(a, k)]
  BY <1>1, TruthIs
<1> QED
  BY <1>2, TruthOnly

(* What is the same at both ends of a stretch is the same in between.      *)
LEMMA TruthBetween ==
    ASSUME NEW c \in Block, NEW b \in Anc[c], NEW a \in Anc[b], NEW k \in Account,
           Truth(a, k) = Truth(c, k)
    PROVE  Truth(b, k) = Truth(c, k)
<1>1. /\ b \in Block /\ a \in Block
      /\ Anc[b] \subseteq Anc[c] /\ Anc[a] \subseteq Anc[b]
  BY OwnChain
<1>2. /\ Truth(c, k) \in Anc[b] /\ k \in Writes[Truth(c, k)]
      /\ \A d \in Anc[b] : k \in Writes[d] => d \in Anc[Truth(c, k)]
  BY <1>1, TruthIs
<1> QED
  BY <1>2, <1>1, TruthOnly

-----------------------------------------------------------------------------
(* The blocks from x, which is on the chain of p, up to p.                 *)
Above(x, p) == Anc[p] \ Anc[x]

(* The stretch above x starts with a child of x.                           *)
LEMMA NextAbove ==
    ASSUME NEW p \in Block, NEW x \in Anc[p], Above(x, p) # {}
    PROVE  Prev[Lowest(Above(x, p))] = x
<1> DEFINE l == Lowest(Above(x, p))
<1>1. l \in Anc[p] /\ l \notin Anc[x] /\ \A a \in Above(x, p) : l \in Anc[a]
  BY LowestIs DEF Above
<1> HIDE DEF l
<1>2. l \in Block /\ x \in Block /\ l # Genesis
  BY <1>1, OwnChain
<1>3. /\ Prev[l] \in Block /\ l \notin Anc[Prev[l]]
      /\ Anc[l] = Anc[Prev[l]] \cup {l}
  BY <1>2, ParentChain
<1>4. Prev[l] \in Anc[p]
  BY <1>1, <1>2, <1>3, OwnChain
<1>5. Prev[l] \in Anc[x]
  BY <1>1, <1>3, <1>4 DEF Above
<1>6. x \in Anc[l]
  BY <1>1, TreeAssumption
<1>7. x \in Anc[Prev[l]]
  BY <1>1, <1>2, <1>3, <1>6, OwnChain
<1>8. Prev[l] = x
  BY <1>2, <1>5, <1>7, SameBlock
<1> QED
  BY <1>8 DEF l

(* It ends with p, and is empty only if x is p.                            *)
LEMMA TopOfAbove ==
    ASSUME NEW p \in Block, NEW x \in Anc[p]
    PROVE  /\ Above(x, p) # {} => p \in Above(x, p) /\ Highest(Above(x, p)) = p
           /\ Above(x, p) = {} => x = p
<1>1. p \in Anc[p] /\ x \in Block
  BY OwnChain
<1>2. p \in Anc[x] => x = p
  BY SameBlock
<1>3. ASSUME Above(x, p) # {} PROVE Highest(Above(x, p)) = p /\ p \in Above(x, p)
  <2>1. p \in Above(x, p)
    BY <1>1, <1>2, <1>3 DEF Above
  <2>2. Highest(Above(x, p)) \in Anc[p] /\ p \in Anc[Highest(Above(x, p))]
    BY <1>3, <2>1, HighestIs DEF Above
  <2> QED
    BY <2>1, <2>2, SameBlock
<1> QED
  BY <1>1, <1>2, <1>3 DEF Above

(* What executing the blocks above x makes of an account.                  *)
LEMMA TruthAbove ==
    ASSUME NEW p \in Block, NEW x \in Anc[p], NEW k \in Account
    PROVE  /\ k \in UNION {Writes[b] : b \in Above(x, p)}
                 => Highest({b \in Above(x, p) : k \in Writes[b]}) = Truth(p, k)
           /\ k \notin UNION {Writes[b] : b \in Above(x, p)} => Truth(x, k) = Truth(p, k)
<1>1. ASSUME k \in UNION {Writes[b] : b \in Above(x, p)}
      PROVE  Highest({b \in Above(x, p) : k \in Writes[b]}) = Truth(p, k)
  <2> DEFINE S == {b \in Above(x, p) : k \in Writes[b]}
             h == Highest(S)
  <2>1. S \subseteq Anc[p] /\ S # {}
    BY <1>1 DEF Above
  <2>2. h \in S /\ \A a \in S : a \in Anc[h]
    BY <2>1, HighestIs
  <2> HIDE DEF h
  <2>3. h \in Anc[p] /\ h \notin Anc[x] /\ k \in Writes[h] /\ h \in Block
    BY <2>2, OwnChain DEF Above
  <2>4. ASSUME NEW a \in Anc[p], k \in Writes[a] PROVE a \in Anc[h]
    <3>1. CASE a \notin Anc[x]
      BY <2>2, <2>4, <3>1 DEF Above
    <3>2. CASE a \in Anc[x]
      BY <2>3, <3>2, TreeAssumption
    <3> QED
      BY <3>1, <3>2
  <2>5. Truth(p, k) = h
    BY <2>3, <2>4, TruthOnly
  <2> QED
    BY <2>5 DEF h
<1>2. ASSUME k \notin UNION {Writes[b] : b \in Above(x, p)} PROVE Truth(x, k) = Truth(p, k)
  BY <1>2, TruthKept DEF Above
<1> QED
  BY <1>1, <1>2

-----------------------------------------------------------------------------
(* Reading through the views.                                              *)

ViewsTyped(vs) == vs \in Seq(View) /\ \A v \in 1..Len(vs) : vs[v].base \in 0..Len(vs)

(* No view reads from itself through others.                               *)
Rooted(vs) == \A S \in SUBSET (1..Len(vs)) : S # {} => \E w \in S : vs[w].base \notin S

(* T says of each view what the account is for it: the view knows it so,   *)
(* or the one below it agrees.                                             *)
Labelled(vs, k, T) ==
    \A w \in 1..Len(vs) :
        /\ T[w] \in Block
        /\ vs[w].own[k] # Unread => vs[w].own[k] = T[w]
        /\ vs[w].own[k] = Unread /\ vs[w].base = 0 => db[k] = T[w]
        /\ vs[w].own[k] = Unread /\ vs[w].base # 0 => T[vs[w].base] = T[w]

(* The parts of a view.                                                    *)
LEMMA ViewType ==
    ASSUME NEW vs, ViewsTyped(vs), NEW w \in 1..Len(vs)
    PROVE  /\ Len(vs) \in Nat /\ vs[w] \in View
           /\ vs[w].own \in [Account -> Block \cup {Unread, Nil}]
           /\ vs[w].base \in 0..Len(vs) /\ vs[w].best \in Block /\ vs[w].built \in Block
<1>1. Len(vs) \in Nat /\ vs[w] \in View
  BY DEF ViewsTyped
<1> QED
  BY <1>1 DEF ViewsTyped, View

(* Asked is the smallest set of views closed under the reads.              *)
LEMMA AskedIs ==
    ASSUME NEW vs, ViewsTyped(vs), NEW k, NEW v \in 1..Len(vs)
    PROVE  /\ v \in Asked(vs, v, k) /\ Asked(vs, v, k) \subseteq 1..Len(vs)
           /\ \A u \in Asked(vs, v, k) :
                 vs[u].own[k] = Unread /\ vs[u].base # 0 => vs[u].base \in Asked(vs, v, k)
           /\ \A S \in SUBSET (1..Len(vs)) :
                 v \in S /\ (\A u \in S : vs[u].own[k] = Unread /\ vs[u].base # 0
                                             => vs[u].base \in S)
                 => Asked(vs, v, k) \subseteq S
<1>1. v \in Asked(vs, v, k) /\ Asked(vs, v, k) \subseteq 1..Len(vs)
  BY DEF Asked
<1>2. ASSUME NEW u \in Asked(vs, v, k), vs[u].own[k] = Unread, vs[u].base # 0
      PROVE  vs[u].base \in Asked(vs, v, k)
  <2>1. u \in 1..Len(vs)
    BY <1>1
  <2>2. vs[u].base \in 1..Len(vs)
    BY <1>2, <2>1, ViewType
  <2> QED
    BY <1>2, <2>2 DEF Asked
<1>3. ASSUME NEW S \in SUBSET (1..Len(vs)), v \in S,
             \A u \in S : vs[u].own[k] = Unread /\ vs[u].base # 0 => vs[u].base \in S
      PROVE  Asked(vs, v, k) \subseteq S
  BY <1>3 DEF Asked
<1> QED
  BY <1>1, <1>2, <1>3

(* All views a read reaches agree with the one it started from.            *)
LEMMA AskedAgree ==
    ASSUME NEW vs, ViewsTyped(vs), NEW k, NEW T, Labelled(vs, k, T), NEW v \in 1..Len(vs)
    PROVE  \A w \in Asked(vs, v, k) : T[w] = T[v]
<1> DEFINE S == {w \in 1..Len(vs) : T[w] = T[v]}
<1>1. ASSUME NEW u \in S, vs[u].own[k] = Unread, vs[u].base # 0
      PROVE  vs[u].base \in S
  <2>1. vs[u].base \in 1..Len(vs)
    BY <1>1, ViewType
  <2> QED
    BY <1>1, <2>1 DEF Labelled
<1>2. v \in S /\ S \in SUBSET (1..Len(vs))
  OBVIOUS
<1> HIDE DEF S
<1>3. Asked(vs, v, k) \subseteq S
  BY <1>1, <1>2, AskedIs
<1> QED
  BY <1>3 DEF S

(* A read is answered with what the account is for the view.               *)
LEMMA AnswerIs ==
    ASSUME NEW vs, ViewsTyped(vs), Rooted(vs), NEW k, NEW T, Labelled(vs, k, T),
           NEW v \in 1..Len(vs)
    PROVE  GetAccountOf(vs, v, k) = T[v]
<1>1. /\ v \in Asked(vs, v, k) /\ Asked(vs, v, k) \subseteq 1..Len(vs)
      /\ \A u \in Asked(vs, v, k) :
            vs[u].own[k] = Unread /\ vs[u].base # 0 => vs[u].base \in Asked(vs, v, k)
  BY AskedIs
<1>2. \A w \in Asked(vs, v, k) : T[w] = T[v]
  BY AskedAgree
<1>3. CASE Knowing(vs, v, k) = {}
  <2>1. PICK w \in Asked(vs, v, k) : vs[w].base \notin Asked(vs, v, k)
    BY <1>1 DEF Rooted
  <2>2. vs[w].own[k] = Unread
    BY <1>3 DEF Knowing
  <2>3. vs[w].base = 0
    BY <1>1, <2>1, <2>2
  <2>4. db[k] = T[w]
    BY <1>1, <2>2, <2>3 DEF Labelled
  <2> QED
    BY <1>2, <1>3, <2>4 DEF GetAccountOf
<1>4. CASE Knowing(vs, v, k) # {}
  <2> DEFINE w == CHOOSE u \in Knowing(vs, v, k) : TRUE
  <2>1. w \in Knowing(vs, v, k)
    BY <1>4
  <2>2. GetAccountOf(vs, v, k) = vs[w].own[k]
    BY <1>4 DEF GetAccountOf
  <2> HIDE DEF w
  <2>3. w \in Asked(vs, v, k) /\ vs[w].own[k] # Unread
    BY <2>1 DEF Knowing
  <2>4. vs[w].own[k] = T[w]
    BY <1>1, <2>3 DEF Labelled
  <2> QED
    BY <1>2, <2>2, <2>3, <2>4
<1> QED
  BY <1>3, <1>4

(* An answer is a block, or the mark of a failed read.                     *)
LEMMA AnswerType ==
    ASSUME NEW vs, ViewsTyped(vs), NEW k \in Account, db[k] \in Block, NEW v \in 1..Len(vs)
    PROVE  GetAccountOf(vs, v, k) \in Block \cup {Unread, Nil}
<1>1. CASE Knowing(vs, v, k) = {}
  BY <1>1 DEF GetAccountOf
<1>2. CASE Knowing(vs, v, k) # {}
  <2> DEFINE w == CHOOSE u \in Knowing(vs, v, k) : TRUE
  <2>1. w \in Knowing(vs, v, k)
    BY <1>2
  <2>2. GetAccountOf(vs, v, k) = vs[w].own[k]
    BY <1>2 DEF GetAccountOf
  <2> HIDE DEF w
  <2>3. w \in 1..Len(vs)
    BY <2>1 DEF Knowing, Asked
  <2> QED
    BY <2>2, <2>3, ViewType
<1> QED
  BY <1>1, <1>2

(* Keeping the answers of reads changes no answer.                         *)
FilledOwn(vs, v, keys, w) ==
    [k \in Account |-> IF k \in keys /\ vs[w].own[k] = Unread /\ w \in Asked(vs, v, k)
                       THEN GetAccountOf(vs, v, k) ELSE vs[w].own[k]]

(* Reads change nothing but the maps.                                      *)
LEMMA FilledViews ==
    ASSUME NEW vs, ViewsTyped(vs), NEW keys, keys \subseteq Account, NEW v \in 1..Len(vs),
           \A k \in Account : db[k] \in Block
    PROVE  /\ ViewsTyped(Filled(vs, v, keys)) /\ Len(Filled(vs, v, keys)) = Len(vs)
           /\ \A w \in 1..Len(vs) :
                 /\ Filled(vs, v, keys)[w].base = vs[w].base
                 /\ Filled(vs, v, keys)[w].best = vs[w].best
                 /\ Filled(vs, v, keys)[w].built = vs[w].built
                 /\ Filled(vs, v, keys)[w].own = FilledOwn(vs, v, keys, w)
<1> DEFINE F == [w \in 1..Len(vs) |-> [own |-> FilledOwn(vs, v, keys, w),
                     base |-> vs[w].base, best |-> vs[w].best, built |-> vs[w].built]]
<1>1. \A w \in 1..Len(vs) : vs[w] \in View
  BY ViewType
<1>2. Filled(vs, v, keys) = F
  <2>1. ASSUME NEW a, NEW r \in View
        PROVE  [r EXCEPT !.own = a]
                  = [own |-> a, base |-> r.base, best |-> r.best, built |-> r.built]
    BY DEF View
  <2>2. Filled(vs, v, keys)
           = [w \in 1..Len(vs) |-> [vs[w] EXCEPT !.own = FilledOwn(vs, v, keys, w)]]
    BY DEF Filled, FilledOwn
  <2> QED
    BY <1>1, <2>1, <2>2
<1>3. Len(vs) \in Nat
  BY DEF ViewsTyped
<1>4. ASSUME NEW w \in 1..Len(vs) PROVE F[w] \in View /\ F[w].base \in 0..Len(vs)
  <2>1. FilledOwn(vs, v, keys, w) \in [Account -> Block \cup {Unread, Nil}]
    BY AnswerType, ViewType DEF FilledOwn
  <2> QED
    BY <2>1, ViewType DEF View
<1>5. F \in Seq(View) /\ Len(F) = Len(vs)
  BY <1>3, <1>4, SeqDef, LenProperties
<1> QED
  BY <1>2, <1>4, <1>5 DEF ViewsTyped

(* What the accounts are for each view stays the same.                     *)
LEMMA FilledLabelled ==
    ASSUME NEW vs, ViewsTyped(vs), Rooted(vs), NEW keys, keys \subseteq Account,
           NEW v \in 1..Len(vs), \A a \in Account : db[a] \in Block,
           NEW k \in Account, NEW T, Labelled(vs, k, T)
    PROVE  Labelled(Filled(vs, v, keys), k, T)
<1> DEFINE F == Filled(vs, v, keys)
<1>1. /\ Len(F) = Len(vs)
      /\ \A w \in 1..Len(vs) : F[w].base = vs[w].base /\ F[w].own = FilledOwn(vs, v, keys, w)
  BY FilledViews
<1> HIDE DEF F
<1>2. GetAccountOf(vs, v, k) = T[v] /\ \A w \in Asked(vs, v, k) : T[w] = T[v]
  BY AnswerIs, AskedAgree
<1>3. ASSUME NEW w \in 1..Len(vs)
      PROVE  F[w].own[k] = vs[w].own[k] \/ F[w].own[k] = T[w]
  BY <1>1, <1>2 DEF FilledOwn
<1>4. Unread \notin Block
  BY UnreadAssumption
<1>5. Labelled(F, k, T)
  BY <1>1, <1>3, <1>4 DEF Labelled
<1> QED
  BY <1>5 DEF F

-----------------------------------------------------------------------------
(* Executing blocks on a view.                                             *)

Done(blocks) == {b \in blocks : Anc[b] \cap (blocks \cap Bad) = {}}
Executed(blocks) ==
    IF blocks \cap Bad = {} THEN Done(blocks)
    ELSE Done(blocks) \cup {Lowest(blocks \cap Bad)}
Written(blocks) == UNION {Writes[b] : b \in Executed(blocks)}
LastWriter(blocks, k) == Highest({b \in Executed(blocks) : k \in Writes[b]})

ConnectedOwn(vs, v, blocks) ==
    [k \in Account |->
        IF k \notin Written(blocks) THEN vs[v].own[k]
        ELSE IF GetAccountOf(vs, v, k) # Truth(vs[v].best, k) THEN Nil
        ELSE LastWriter(blocks, k)]
ConnectedBest(vs, v, blocks) ==
    IF Done(blocks) = {} THEN vs[v].best ELSE Highest(Done(blocks))

(* What is executed, and who wrote last.                                   *)
LEMMA WrittenIs ==
    ASSUME NEW p \in Block, NEW blocks, blocks \subseteq Anc[p]
    PROVE  /\ Executed(blocks) \subseteq blocks /\ Done(blocks) \subseteq blocks
           /\ Written(blocks) \subseteq Account
           /\ \A k \in Written(blocks) : LastWriter(blocks, k) \in Block
           /\ Done(blocks) # {} => Highest(Done(blocks)) \in Block
           /\ blocks \cap Bad = {} => Done(blocks) = blocks /\ Executed(blocks) = blocks
<1>1. Anc[p] \subseteq Block
  BY OwnChain
<1>2. Done(blocks) \subseteq blocks /\ (blocks \cap Bad = {} => Done(blocks) = blocks)
  BY DEF Done
<1>3. Executed(blocks) \subseteq blocks
  <2>1. blocks \cap Bad # {} => Lowest(blocks \cap Bad) \in blocks \cap Bad
    BY LowestIs
  <2> QED
    BY <1>2, <2>1 DEF Executed
<1>4. Written(blocks) \subseteq Account
  BY <1>1, <1>3, WritesAssumption DEF Written
<1>5. ASSUME NEW k \in Written(blocks) PROVE LastWriter(blocks, k) \in Block
  <2> DEFINE S == {b \in Executed(blocks) : k \in Writes[b]}
  <2>1. S # {} /\ S \subseteq Anc[p]
    BY <1>3 DEF Written
  <2>2. Highest(S) \in S
    BY <2>1, HighestIs
  <2> QED
    BY <1>1, <2>1, <2>2 DEF LastWriter
<1>6. Done(blocks) # {} => Highest(Done(blocks)) \in Block
  BY <1>1, <1>2, HighestIs
<1> QED
  BY <1>2, <1>3, <1>4, <1>5, <1>6 DEF Executed

(* Executing blocks moves one view on, and the others keep what was read.  *)
LEMMA ConnectedViews ==
    ASSUME NEW vs, ViewsTyped(vs), NEW v \in 1..Len(vs), \A k \in Account : db[k] \in Block,
           NEW p \in Block, NEW blocks, blocks \subseteq Anc[p]
    PROVE  /\ ViewsTyped(Connected(vs, v, blocks)) /\ Len(Connected(vs, v, blocks)) = Len(vs)
           /\ \A w \in 1..Len(vs) :
                 /\ Connected(vs, v, blocks)[w].base = vs[w].base
                 /\ Connected(vs, v, blocks)[w].built = vs[w].built
                 /\ Connected(vs, v, blocks)[w].best =
                       IF w = v THEN ConnectedBest(vs, v, blocks) ELSE vs[w].best
                 /\ Connected(vs, v, blocks)[w].own =
                       IF w = v THEN ConnectedOwn(vs, v, blocks)
                       ELSE FilledOwn(vs, v, Written(blocks), w)
<1> DEFINE F == Filled(vs, v, Written(blocks))
           a == ConnectedOwn(vs, v, blocks)
           b == ConnectedBest(vs, v, blocks)
           C == [w \in 1..Len(vs) |->
                    IF w = v THEN [own |-> a, base |-> vs[v].base,
                                   best |-> b, built |-> vs[v].built]
                    ELSE F[w]]
<1>1. Written(blocks) \subseteq Account
  BY WrittenIs
<1>2. /\ ViewsTyped(F) /\ Len(F) = Len(vs)
      /\ \A w \in 1..Len(vs) :
            /\ F[w].base = vs[w].base /\ F[w].best = vs[w].best /\ F[w].built = vs[w].built
            /\ F[w].own = FilledOwn(vs, v, Written(blocks), w)
  BY <1>1, FilledViews
<1>3. Connected(vs, v, blocks) = C
  BY DEF Connected, Done, Executed, Written, LastWriter, ConnectedOwn, ConnectedBest
<1>5. a \in [Account -> Block \cup {Unread, Nil}]
  BY WrittenIs, ViewType DEF ConnectedOwn
<1>6. b \in Block
  BY WrittenIs, ViewType DEF ConnectedBest
<1> HIDE DEF F, a, b
<1>8. Len(vs) \in Nat
  BY DEF ViewsTyped
<1>9. ASSUME NEW w \in 1..Len(vs) PROVE C[w] \in View /\ C[w].base \in 0..Len(vs)
  <2>1. /\ F[w] \in View /\ F[w].base \in 0..Len(vs)
        /\ vs[v].base \in 0..Len(vs) /\ vs[v].built \in Block /\ Len(vs) \in Nat
    BY <1>2, ViewType
  <2> QED
    BY <1>2, <1>5, <1>6, <2>1 DEF View
<1>10. C \in Seq(View) /\ Len(C) = Len(vs)
  BY <1>2, <1>8, <1>9, SeqDef, LenProperties
<1>11. ViewsTyped(C)
  BY <1>9, <1>10 DEF ViewsTyped
<1>12. \A w \in 1..Len(vs) :
          /\ C[w].base = vs[w].base
          /\ C[w].built = vs[w].built
          /\ C[w].best = IF w = v THEN b ELSE vs[w].best
          /\ C[w].own = IF w = v THEN a ELSE FilledOwn(vs, v, Written(blocks), w)
  BY <1>2
<1> QED
  BY <1>3, <1>10, <1>11, <1>12 DEF a, b

(* What the accounts are for the views afterwards, if none is based on v.  *)
After(vs, v, blocks, k, T) ==
    [w \in 1..Len(vs) |-> IF w = v /\ k \in Written(blocks) THEN LastWriter(blocks, k) ELSE T[w]]

(* The view has the new accounts, the others what they had.                *)
LEMMA ConnectedLabelled ==
    ASSUME NEW vs, ViewsTyped(vs), Rooted(vs), NEW v \in 1..Len(vs),
           \A a \in Account : db[a] \in Block,
           NEW p \in Block, NEW blocks, blocks \subseteq Anc[p],
           NEW k \in Account, NEW T, Labelled(vs, k, T), T[v] = Truth(vs[v].best, k),
           k \in Written(blocks) => \A u \in 1..Len(vs) : vs[u].base # v
    PROVE  Labelled(Connected(vs, v, blocks), k, After(vs, v, blocks, k, T))
<1> DEFINE C == Connected(vs, v, blocks)
           A == After(vs, v, blocks, k, T)
           W == Written(blocks)
<1>1. /\ ViewsTyped(C) /\ Len(C) = Len(vs)
      /\ \A w \in 1..Len(vs) :
            /\ C[w].base = vs[w].base
            /\ C[w].own = IF w = v THEN ConnectedOwn(vs, v, blocks) ELSE FilledOwn(vs, v, W, w)
  BY ConnectedViews
<1>2. GetAccountOf(vs, v, k) = T[v] /\ \A w \in Asked(vs, v, k) : T[w] = T[v]
  BY AnswerIs, AskedAgree
<1>3. k \in W => LastWriter(blocks, k) \in Block
  BY WrittenIs
<1>4. Unread \notin Block
  BY UnreadAssumption
<1> HIDE DEF C, A, W
<1>5. ASSUME NEW w \in 1..Len(vs)
      PROVE  /\ A[w] = IF w = v /\ k \in W THEN LastWriter(blocks, k) ELSE T[w]
             /\ A[w] \in Block
             /\ \/ C[w].own[k] = A[w]
                \/ C[w].own[k] = vs[w].own[k] /\ A[w] = T[w] /\ ~(w = v /\ k \in W)
  <2>1. A[w] = IF w = v /\ k \in W THEN LastWriter(blocks, k) ELSE T[w]
    BY DEF A, After, W
  <2>2. T[w] \in Block
    BY DEF Labelled
  <2>3. CASE w = v /\ k \in W
    <3>1. C[w].own[k] = LastWriter(blocks, k)
      BY <1>1, <1>2, <2>3 DEF ConnectedOwn, W
    <3> QED
      BY <1>3, <2>1, <2>3, <3>1
  <2>4. CASE w = v /\ k \notin W
    <3>1. C[w].own[k] = vs[w].own[k]
      BY <1>1, <2>4 DEF ConnectedOwn, W
    <3> QED
      BY <2>1, <2>2, <2>4, <3>1
  <2>5. CASE w # v
    <3>1. C[w].own[k] = vs[w].own[k] \/ C[w].own[k] = T[w]
      BY <1>1, <1>2, <2>5 DEF FilledOwn
    <3> QED
      BY <2>1, <2>2, <2>5, <3>1
  <2> QED
    BY <2>3, <2>4, <2>5
<1>6. ASSUME NEW w \in 1..Len(vs), C[w].own[k] = Unread
      PROVE  /\ C[w].base = 0 => db[k] = A[w]
             /\ C[w].base # 0 => A[C[w].base] = A[w]
  <2>1. vs[w].own[k] = Unread /\ A[w] = T[w]
    BY <1>4, <1>5, <1>6
  <2>2. C[w].base = vs[w].base /\ vs[w].base \in 0..Len(vs)
    BY <1>1, ViewType
  <2>3. CASE vs[w].base = 0
    BY <2>1, <2>2, <2>3 DEF Labelled
  <2>4. CASE vs[w].base # 0
    <3>1. T[vs[w].base] = T[w] /\ vs[w].base \in 1..Len(vs)
      BY <2>1, <2>2, <2>4 DEF Labelled
    <3>2. A[vs[w].base] = T[vs[w].base]
      BY <1>5, <3>1 DEF W
    <3> QED
      BY <2>1, <2>2, <2>4, <3>1, <3>2
  <2> QED
    BY <2>3, <2>4
<1>7. Labelled(C, k, A)
  BY <1>1, <1>5, <1>6 DEF Labelled
<1> QED
  BY <1>7 DEF A, C

-----------------------------------------------------------------------------
(* The inductive invariant.                                                *)

(* The account as of the block each view is at. *)
TruthOf(vs, k) == [w \in 1..Len(vs) |-> Truth(vs[w].best, k)]

(* Every view answers for the block it is at, and is based on a view at a  *)
(* lower block of the same branch.  What it has never read has not changed *)
(* since the fork it was built on.                                         *)
SoundViews(vs) ==
    /\ \A k \in Account : Labelled(vs, k, TruthOf(vs, k))
    /\ \A w \in 1..Len(vs) :
          /\ vs[w].base # 0 => /\ vs[vs[w].base].best \in Anc[vs[w].best]
                               /\ vs[vs[w].base].best # vs[w].best
          /\ vs[w].built \in Anc[vs[w].best]
          /\ \A k \in Account : vs[w].own[k] = Unread
                 => Truth(vs[w].built, k) = Truth(vs[w].best, k)

KeysAgree(vs, cache) == \A b \in DOMAIN cache : vs[cache[b]].best = b

(* The tip's cache on the database is the tip.                             *)
TipIsTruth ==
    \A k \in Account : Truth(active, k) = IF tip[k] = Unread THEN db[k] ELSE tip[k]

QueueInOrder ==
    /\ incoming = Nil => queue = {}
    /\ incoming # Nil =>
          /\ incoming \in Block \ index /\ Prev[incoming] \in index
          /\ queue \subseteq Anc[incoming] \ {Genesis}

FInv ==
    /\ TypeOKFork
    /\ Genesis \in index /\ \A b \in index : Anc[b] \subseteq index
    /\ QueueInOrder
    /\ TipIsTruth
    /\ astray = {} => ~misjudged /\ SoundViews(views) /\ KeysAgree(views, mapCache)

(* The types, one by one.                                                  *)
LEMMA FInvType ==
    ASSUME TypeOKFork
    PROVE  /\ index \subseteq Block /\ active \in Block /\ active \in index
           /\ db \in [Account -> Block] /\ tip \in [Account -> Block \cup {Unread}]
           /\ ViewsTyped(views) /\ Len(views) \in Nat
           /\ DOMAIN mapCache \subseteq index
           /\ \A b \in DOMAIN mapCache : mapCache[b] \in 1..Len(views)
           /\ \A k \in Account : db[k] \in Block
<1>1. index \subseteq Block /\ active \in Block /\ active \in index
  BY DEF TypeOKFork
<1>2. db \in [Account -> Block] /\ tip \in [Account -> Block \cup {Unread}]
  BY DEF TypeOKFork
<1>3. ViewsTyped(views)
  BY DEF TypeOKFork, ViewsTyped
<1>4. DOMAIN mapCache \subseteq index /\ mapCache \in [DOMAIN mapCache -> 1..Len(views)]
  BY DEF TypeOKFork
<1>5. \A b \in DOMAIN mapCache : mapCache[b] \in 1..Len(views)
  BY <1>4
<1> QED
  BY <1>1, <1>2, <1>3, <1>4, <1>5 DEF ViewsTyped

(* Bases get lower and lower, so that every read ends.                     *)
LEMMA SoundRooted ==
    ASSUME NEW vs, ViewsTyped(vs),
           \A w \in 1..Len(vs) : vs[w].base # 0 => /\ vs[vs[w].base].best \in Anc[vs[w].best]
                                                   /\ vs[vs[w].base].best # vs[w].best
    PROVE  Rooted(vs)
<1> SUFFICES ASSUME NEW S \in SUBSET (1..Len(vs)), S # {}
             PROVE  \E w \in S : vs[w].base \notin S
  BY DEF Rooted
<1> DEFINE T == {Work[vs[w].best] : w \in S}
<1>1. \A w \in S : vs[w].best \in Block /\ Work[vs[w].best] \in Nat
  BY ViewType, TreeAssumption
<1>2. T \subseteq Nat /\ T # {}
  BY <1>1
<1>3. PICK n \in T : \A m \in T : n <= m
  BY <1>2, LeastNat
<1>4. PICK w \in S : n = Work[vs[w].best]
  BY <1>3
<1>5. ASSUME vs[w].base \in S PROVE FALSE
  <2>1. Work[vs[w].best] <= Work[vs[vs[w].base].best]
    BY <1>3, <1>4, <1>5
  <2>2. vs[w].base # 0
    BY <1>5
  <2>3. /\ vs[vs[w].base].best \in Anc[vs[w].best]
        /\ vs[vs[w].base].best # vs[w].best
    BY <2>2
  <2>4. Work[vs[vs[w].base].best] < Work[vs[w].best]
    BY <1>1, <2>3, WorkGrows
  <2>5. Work[vs[w].best] \in Nat /\ Work[vs[vs[w].base].best] \in Nat
    BY <1>1, <1>5
  <2> HIDE DEF T
  <2> QED
    BY <2>1, <2>4, <2>5
<1> QED
  BY <1>5

(* A cleared g_mapCache has no view to be wrong.                           *)
LEMMA NoViewsSound == SoundViews(<<>>) /\ KeysAgree(<<>>, <<>>)
<1>1. Len(<<>>) = 0 /\ 1..0 = {} /\ DOMAIN <<>> = {}
  OBVIOUS
<1>2. \A k \in Account : Labelled(<<>>, k, TruthOf(<<>>, k))
  BY <1>1 DEF Labelled
<1> QED
  BY <1>1, <1>2 DEF SoundViews, KeysAgree

(* The node starts with one block and no view.                             *)
LEMMA InitFInv == InitFork => FInv
<1> SUFFICES ASSUME InitFork PROVE FInv
  OBVIOUS
<1>1. Genesis \in Block /\ Anc[Genesis] = {Genesis}
  BY TreeAssumption
<1>2. TypeOKFork
  <2>1. views \in Seq(View) /\ Len(views) = 0 /\ 1..0 = {}
    BY DEF InitFork
  <2>2. db \in [Account -> Block] /\ tip \in [Account -> Block \cup {Unread}]
    BY <1>1 DEF InitFork, NothingRead
  <2>3. mapCache \in [DOMAIN mapCache -> 1..Len(views)] /\ DOMAIN mapCache \subseteq index
    BY DEF InitFork
  <2> QED
    BY <1>1, <2>1, <2>2, <2>3 DEF TypeOKFork, InitFork
<1>3. TipIsTruth
  <2>1. ASSUME NEW k \in Account PROVE Truth(Genesis, k) = Genesis
    BY <1>1, TruthIs
  <2> QED
    BY <2>1 DEF TipIsTruth, InitFork, NothingRead
<1>4. QueueInOrder
  BY DEF InitFork, QueueInOrder
<1> QED
  BY <1>1, <1>2, <1>3, <1>4, NoViewsSound DEF FInv, InitFork

-----------------------------------------------------------------------------
(* The block a check is about.                                             *)

ChkP     == Prev[Lowest(queue)]
ChkFork  == ForkOf(ChkP)
ChkKept  == OffChain(ChkP) \cap DOMAIN mapCache
ChkTodo  == {b \in OffChain(ChkP) : \A a \in ChkKept : b \notin Anc[a]}
ChkBase  == IF ChkFork \notin DOMAIN mapCache THEN Len(views) + 1 ELSE mapCache[ChkFork]
ChkBased == IF ChkFork \notin DOMAIN mapCache THEN Append(views, BaseView(ChkFork)) ELSE views
ChkView  == IF ChkKept = {} THEN Len(ChkBased) + 1 ELSE mapCache[Highest(ChkKept)]
NewView  == [own |-> NothingRead, base |-> ChkBase,
             best |-> ChkBased[ChkBase].best, built |-> ChkFork]
ChkStart == IF ChkKept = {} THEN Append(ChkBased, NewView)
            ELSE [ChkBased EXCEPT ![ChkView].base = ChkBase]
ChkConnected == Connected(ChkStart, ChkView, ChkTodo)
ChkEnded == Filled(ChkConnected, ChkView, Writes[Lowest(queue)])
Grows    == ChkKept # {} /\ ChkTodo # {}
Right    ==
    /\ ChkTodo # {} => ChkStart[ChkView].best = Prev[Lowest(ChkTodo)]
    /\ ChkTodo \cap Bad = {} => ChkEnded[ChkView].best = ChkP
    /\ \A k \in Account : ChkEnded[ChkView].own[k] # Nil
    /\ \A k \in Writes[Lowest(queue)] : ChkTodo \cap Bad = {} =>
           GetAccountOf(ChkEnded, ChkView, k) = Truth(ChkP, k)

(* What a check does, in the terms above.                                  *)
LEMMA CheckParts ==
    ASSUME CheckOnView
    PROVE  /\ queue # {} /\ NeedsView(Lowest(queue))
           /\ misjudged' = (misjudged \/ ~Right)
           /\ UNCHANGED <<index, active, db, tip>>
           /\ \E ok \in BOOLEAN :
                 /\ Right /\ ChkTodo \cap Bad # {} => ~ok
                 /\ queue' = IF ok THEN queue \ {Lowest(queue)} ELSE {}
                 /\ incoming' = IF ok THEN incoming ELSE Nil
                 /\ views' = IF ok \/ ChkKept # {} THEN ChkEnded
                             ELSE SubSeq(ChkEnded, 1, Len(ChkBased))
                 /\ mapCache' =
                       [b \in (DOMAIN mapCache \cup {ChkFork} \cup (IF ok THEN {ChkP} ELSE {}))
                               \ (IF ok /\ ChkTodo # {}
                                  THEN {Highest(ChkKept) : x \in ChkKept} ELSE {}) |->
                          IF b = ChkP /\ ok THEN ChkView
                          ELSE IF b = ChkFork THEN ChkBase ELSE mapCache[b]]
                 /\ astray \subseteq astray' /\ astray' \subseteq astray \cup Cause
                 /\ Grows /\ ~ok => astray' # {}
                 /\ Grows /\ (\E u \in 1..Len(ChkStart) : ChkStart[u].base = ChkView)
                       => astray' # {}
                 /\ ChkKept # {} /\ ChkStart[ChkView].built \notin Anc[ChkFork]
                       => astray' # {}
<1> USE DEF ChkP, ChkFork, ChkKept, ChkTodo, ChkBase, ChkBased, ChkView, NewView, ChkStart,
            ChkConnected, ChkEnded, Grows
<1>1. /\ queue # {} /\ NeedsView(Lowest(queue))
      /\ UNCHANGED <<index, active, db, tip>>
  BY DEF CheckOnView, treeVars, dataVars
<1>2. misjudged' = (misjudged \/ ~Right)
  BY DEF CheckOnView, Right
<1>3. PICK ok \in BOOLEAN :
         /\ Right /\ ChkTodo \cap Bad # {} => ~ok
         /\ Answer(Lowest(queue), ok)
         /\ views' = IF ok \/ ChkKept # {} THEN ChkEnded
                     ELSE SubSeq(ChkEnded, 1, Len(ChkBased))
         /\ mapCache' =
               [b \in (DOMAIN mapCache \cup {ChkFork} \cup (IF ok THEN {ChkP} ELSE {}))
                       \ (IF ok /\ ChkTodo # {}
                          THEN {Highest(ChkKept) : x \in ChkKept} ELSE {}) |->
                  IF b = ChkP /\ ok THEN ChkView
                  ELSE IF b = ChkFork THEN ChkBase ELSE mapCache[b]]
         /\ astray' = astray
               \cup (IF Grows /\ ~ok THEN {"poisoned"} ELSE {})
               \cup (IF Grows /\ \E u \in 1..Len(ChkStart) : ChkStart[u].base = ChkView
                     THEN {"outgrown"} ELSE {})
               \cup (IF ChkKept # {} /\ ChkStart[ChkView].built \notin Anc[ChkFork]
                     THEN {"rebased"} ELSE {})
  BY DEF CheckOnView, Right
<1> HIDE DEF ChkP, ChkFork, ChkKept, ChkTodo, ChkBase, ChkBased, ChkView, NewView, ChkStart,
            ChkConnected, ChkEnded, Grows
<1>4. /\ astray \subseteq astray' /\ astray' \subseteq astray \cup Cause
      /\ Grows /\ ~ok => astray' # {}
      /\ Grows /\ (\E u \in 1..Len(ChkStart) : ChkStart[u].base = ChkView) => astray' # {}
      /\ ChkKept # {} /\ ChkStart[ChkView].built \notin Anc[ChkFork] => astray' # {}
  BY <1>3 DEF Cause
<1>5. queue' = (IF ok THEN queue \ {Lowest(queue)} ELSE {})
      /\ incoming' = (IF ok THEN incoming ELSE Nil)
  BY <1>3 DEF Answer
<1> QED
  BY <1>1, <1>2, <1>3, <1>4, <1>5

-----------------------------------------------------------------------------
(* Blocks, views and types of a check.                                     *)

(* The block below the one that is checked is on a branch.                 *)
LEMMA CheckedBlock ==
    ASSUME FInv, queue # {}, NeedsView(Lowest(queue))
    PROVE  /\ Lowest(queue) \in queue /\ Lowest(queue) \in Block
           /\ ChkP \in Block /\ ChkP \in index /\ ChkP \notin Anc[active]
<1>1. /\ TypeOKFork /\ QueueInOrder /\ \A b \in index : Anc[b] \subseteq index
  BY DEF FInv
<1>2. index \subseteq Block /\ active \in Block
  BY <1>1, FInvType
<1>3. /\ incoming \in Block \ index /\ Prev[incoming] \in index
      /\ queue \subseteq Anc[incoming] \ {Genesis}
  BY <1>1 DEF QueueInOrder
<1>4. Lowest(queue) \in queue
  BY <1>3, LowestIs
<1>5. Lowest(queue) \in Block /\ Lowest(queue) # Genesis /\ Lowest(queue) \in Anc[incoming]
  BY <1>3, <1>4, OwnChain
<1>6. incoming # Genesis \/ Anc[incoming] = {Genesis}
  BY TreeAssumption
<1>7. incoming # Genesis
  BY <1>5, <1>6
<1>8. Prev[Lowest(queue)] \in index
  <2>1. CASE Lowest(queue) = incoming
    BY <1>3, <2>1
  <2>2. CASE Lowest(queue) # incoming
    <3>1. Lowest(queue) \in Anc[Prev[incoming]]
      BY <1>3, <1>5, <1>7, <2>2, ParentChain
    <3>2. Lowest(queue) \in index
      BY <1>1, <1>3, <3>1
    <3>3. Prev[Lowest(queue)] \in Anc[Lowest(queue)]
      BY <1>5, ParentChain, OwnChain
    <3> QED
      BY <1>1, <3>2, <3>3
  <2> QED
    BY <2>1, <2>2
<1>9. Prev[Lowest(queue)] \notin Anc[active]
  <2>1. /\ Prev[Lowest(queue)] # active
        /\ Work[Prev[Lowest(queue)]] > Work[active]
    BY DEF NeedsView
  <2>2. ASSUME Prev[Lowest(queue)] \in Anc[active] PROVE FALSE
    <3>1. /\ Work[Prev[Lowest(queue)]] \in Nat /\ Work[active] \in Nat
          /\ Work[Prev[Lowest(queue)]] < Work[active]
      BY <1>2, <2>1, <2>2, WorkGrows
    <3> QED
      BY <2>1, <3>1
  <2> QED
    BY <2>2
<1> QED
  BY <1>2, <1>4, <1>5, <1>8, <1>9 DEF ChkP

(* The fork is the last block a branch shares with the active chain.       *)
LEMMA ForkIs ==
    ASSUME NEW p \in Block, active \in Block
    PROVE  /\ ForkOf(p) \in Anc[p] /\ ForkOf(p) \in Anc[active] /\ ForkOf(p) \in Block
           /\ Anc[ForkOf(p)] = Anc[p] \cap Anc[active]
<1>1. Anc[p] \cap Anc[active] # {} /\ Anc[p] \cap Anc[active] \subseteq Anc[p]
  BY OwnChain
<1>2. /\ ForkOf(p) \in Anc[p] \cap Anc[active]
      /\ \A a \in Anc[p] \cap Anc[active] : a \in Anc[ForkOf(p)]
  BY <1>1, HighestIs DEF ForkOf
<1>3. Anc[ForkOf(p)] \subseteq Anc[p] /\ Anc[ForkOf(p)] \subseteq Anc[active]
  BY <1>2, OwnChain
<1> QED
  BY <1>2, <1>3, OwnChain

(* The block the view is at when the check takes it: the fork, or the      *)
(* highest block of the branch with a view.                                *)
ChkFrom == IF ChkKept = {} THEN ChkFork ELSE Highest(ChkKept)

(* The blocks to execute are those above the fork or the kept view.        *)
LEMMA TodoIs ==
    ASSUME FInv, queue # {}, NeedsView(Lowest(queue))
    PROVE  /\ ChkFork \in index /\ ChkFork \in Block /\ ChkFork \in Anc[ChkFrom]
           /\ ChkFrom \in Anc[ChkP] /\ ChkFrom \in Block
           /\ ChkTodo = Above(ChkFrom, ChkP)
           /\ ChkKept # {} => ChkFrom \in ChkKept /\ ChkFrom # ChkFork
           /\ ChkKept = {} => ChkTodo # {}
           /\ ChkFork # ChkP /\ ChkTodo \subseteq Anc[ChkP]
<1> DEFINE f == ChkFork
           x == ChkFrom
           p == ChkP
           on == Anc[active]
<1>1. p \in Block /\ p \in index /\ p \notin on /\ active \in Block
  BY CheckedBlock, FInvType DEF FInv
<1>2. f \in Anc[p] /\ f \in on /\ f \in Block /\ Anc[f] = Anc[p] \cap on
  BY <1>1, ForkIs DEF ChkFork
<1>3. f \in index
  BY <1>1, <1>2 DEF FInv
<1>4. OffChain(p) = Anc[p] \ Anc[f]
  BY <1>2 DEF OffChain
<1>5. ChkKept # {} =>
         /\ x \in ChkKept /\ \A a \in ChkKept : a \in Anc[x]
         /\ x \in Anc[p] /\ x \in Block /\ x \notin Anc[f]
  <2>1. ChkKept \subseteq Anc[p] /\ ChkKept \subseteq OffChain(p)
    BY <1>4 DEF ChkKept
  <2>2. ASSUME ChkKept # {}
        PROVE  x \in ChkKept /\ \A a \in ChkKept : a \in Anc[x]
    BY <1>1, <2>1, <2>2, HighestIs DEF ChkFrom
  <2> HIDE DEF x
  <2> QED
    BY <1>1, <1>4, <2>1, <2>2, OwnChain
<1>6. ChkKept = {} => x = f
  BY DEF ChkFrom
<1> HIDE DEF f, x, p, on
<1>7. x \in Anc[p] /\ x \in Block
  BY <1>2, <1>5, <1>6
<1>8. f \in Anc[x]
  BY <1>1, <1>2, <1>5, <1>6, OwnChain, TreeAssumption
<1>9. Anc[f] \subseteq Anc[x]
  BY <1>7, <1>8, OwnChain
<1>10. ChkTodo = Above(x, p)
  <2>1. ChkTodo = {b \in OffChain(p) : \A a \in ChkKept : b \notin Anc[a]}
    BY DEF ChkTodo, p
  <2>2. CASE ChkKept = {}
    BY <1>4, <1>6, <2>1, <2>2 DEF Above
  <2>3. CASE ChkKept # {}
    <3>1. \A a \in ChkKept : Anc[a] \subseteq Anc[x]
      BY <1>5, <1>7, <2>3, OwnChain
    <3>2. \A b : (\A a \in ChkKept : b \notin Anc[a]) <=> b \notin Anc[x]
      BY <1>5, <2>3, <3>1
    <3> QED
      BY <1>4, <1>9, <2>1, <3>2 DEF Above
  <2> QED
    BY <2>2, <2>3
<1>11. f # p
  BY <1>1, <1>2
<1>12. p \in Anc[p] /\ f \in Anc[f]
  BY <1>1, <1>2, OwnChain
<1>13. ChkKept = {} => p \in ChkTodo
  BY <1>1, <1>2, <1>6, <1>10, <1>12 DEF Above
<1>14. ChkKept # {} => x # f
  BY <1>5, <1>12
<1>15. ChkTodo \subseteq Anc[p]
  BY <1>10 DEF Above
<1>16. ChkFork = f /\ ChkFrom = x /\ ChkP = p
  BY DEF f, x, p
<1> HIDE DEF ChkFork, ChkFrom, ChkP
<1> QED
  BY <1>2, <1>3, <1>5, <1>7, <1>8, <1>10, <1>11, <1>13, <1>14, <1>15, <1>16

(* A new view goes on top of the others.                                   *)
LEMMA AppendedView ==
    ASSUME NEW vs, ViewsTyped(vs), NEW u \in View, u.base \in 0..(Len(vs) + 1)
    PROVE  /\ ViewsTyped(Append(vs, u)) /\ Len(Append(vs, u)) = Len(vs) + 1
           /\ \A w \in 1..Len(vs) : Append(vs, u)[w] = vs[w]
           /\ Append(vs, u)[Len(vs) + 1] = u
<1>1. vs \in Seq(View) /\ Len(vs) \in Nat
  BY DEF ViewsTyped
<1>2. /\ Append(vs, u) \in Seq(View) /\ Len(Append(vs, u)) = Len(vs) + 1
      /\ \A w \in 1..Len(vs) : Append(vs, u)[w] = vs[w]
      /\ Append(vs, u)[Len(vs) + 1] = u
  BY <1>1, AppendProperties
<1>3. \A w \in 1..Len(Append(vs, u)) : Append(vs, u)[w].base \in 0..Len(Append(vs, u))
  <2>1. ASSUME NEW w \in 1..Len(Append(vs, u)) PROVE Append(vs, u)[w].base \in 0..(Len(vs) + 1)
    <3>1. CASE w = Len(vs) + 1
      BY <1>2, <3>1
    <3>2. CASE w # Len(vs) + 1
      <4>1. w \in 1..Len(vs) /\ vs[w].base \in 0..Len(vs)
        BY <1>1, <1>2, <3>2, ViewType
      <4> QED
        BY <1>1, <1>2, <4>1
    <3> QED
      BY <3>1, <3>2
  <2> QED
    BY <1>2, <2>1
<1> QED
  BY <1>2, <1>3 DEF ViewsTyped

(* The tip's cache with blocks undone is a view.                           *)
LEMMA BaseViewType ==
    ASSUME TypeOKFork, NEW f \in Block
    PROVE  BaseView(f) \in View
<1>1. [k \in Account |-> IF \E b \in Anc[active] \ Anc[f] : k \in Writes[b]
                         THEN Truth(f, k) ELSE tip[k]]
         \in [Account -> Block \cup {Unread, Nil}]
  BY FInvType, TruthIs
<1> QED
  BY <1>1 DEF BaseView, View

(* There is a view at the fork, old or new.                                *)
LEMMA BasedType ==
    ASSUME FInv, queue # {}, NeedsView(Lowest(queue))
    PROVE  /\ ViewsTyped(ChkBased) /\ ChkBase \in 1..Len(ChkBased)
           /\ Len(views) <= Len(ChkBased)
           /\ \A w \in 1..Len(views) : ChkBased[w] = views[w]
           /\ ChkFork \notin DOMAIN mapCache =>
                 /\ ChkBased[ChkBase] = BaseView(ChkFork) /\ ChkBase = Len(views) + 1
                 /\ Len(ChkBased) = Len(views) + 1
           /\ ChkFork \in DOMAIN mapCache => ChkBased = views /\ ChkBase = mapCache[ChkFork]
<1>1. TypeOKFork /\ ViewsTyped(views) /\ Len(views) \in Nat
  BY FInvType DEF FInv
<1>2. ChkFork \in Block
  BY TodoIs
<1>3. CASE ChkFork \in DOMAIN mapCache
  BY <1>1, <1>3, FInvType DEF ChkBase, ChkBased
<1>4. CASE ChkFork \notin DOMAIN mapCache
  <2>1. BaseView(ChkFork) \in View /\ BaseView(ChkFork).base = 0
    BY <1>1, <1>2, BaseViewType DEF BaseView
  <2>2. /\ ViewsTyped(Append(views, BaseView(ChkFork)))
        /\ Len(Append(views, BaseView(ChkFork))) = Len(views) + 1
        /\ \A w \in 1..Len(views) : Append(views, BaseView(ChkFork))[w] = views[w]
        /\ Append(views, BaseView(ChkFork))[Len(views) + 1] = BaseView(ChkFork)
    BY <1>1, <2>1, AppendedView
  <2>3. ChkBased = Append(views, BaseView(ChkFork)) /\ ChkBase = Len(views) + 1
    BY <1>4 DEF ChkBase, ChkBased
  <2> HIDE DEF ChkBase, ChkBased
  <2> QED
    BY <1>1, <1>4, <2>2, <2>3
<1> QED
  BY <1>3, <1>4

(* There is a view above it, kept or new.                                  *)
LEMMA StartType ==
    ASSUME FInv, queue # {}, NeedsView(Lowest(queue))
    PROVE  /\ ViewsTyped(ChkStart) /\ ChkView \in 1..Len(ChkStart)
           /\ Len(ChkBased) <= Len(ChkStart)
           /\ ChkKept = {} => /\ Len(ChkStart) = Len(ChkBased) + 1
                              /\ ChkView = Len(ChkBased) + 1
                              /\ ChkStart[ChkView] = NewView
                              /\ \A w \in 1..Len(ChkBased) : ChkStart[w] = ChkBased[w]
           /\ ChkKept # {} =>
                 /\ Len(ChkStart) = Len(ChkBased)
                 /\ ChkView = mapCache[ChkFrom] /\ ChkView \in 1..Len(views)
                 /\ \A w \in 1..Len(ChkBased) :
                       /\ ChkStart[w].own = ChkBased[w].own
                       /\ ChkStart[w].best = ChkBased[w].best
                       /\ ChkStart[w].built = ChkBased[w].built
                       /\ ChkStart[w].base = IF w = ChkView THEN ChkBase ELSE ChkBased[w].base
<1>1. /\ ViewsTyped(ChkBased) /\ ChkBase \in 1..Len(ChkBased) /\ Len(views) <= Len(ChkBased)
  BY BasedType
<1>2. /\ Len(ChkBased) \in Nat /\ Len(views) \in Nat
  BY <1>1, FInvType DEF ViewsTyped, FInv
<1>3. CASE ChkKept = {}
  <2>1. NewView \in View /\ NewView.base \in 0..(Len(ChkBased) + 1)
    <3>1. ChkFork \in Block /\ ChkBased[ChkBase].best \in Block
      BY <1>1, TodoIs, ViewType
    <3>2. NothingRead \in [Account -> Block \cup {Unread, Nil}]
      BY DEF NothingRead
    <3> QED
      BY <1>1, <1>2, <3>1, <3>2 DEF NewView, View
  <2>2. ChkStart = Append(ChkBased, NewView) /\ ChkView = Len(ChkBased) + 1
    BY <1>3 DEF ChkStart, ChkView
  <2>3. /\ ViewsTyped(Append(ChkBased, NewView))
        /\ Len(Append(ChkBased, NewView)) = Len(ChkBased) + 1
        /\ \A w \in 1..Len(ChkBased) : Append(ChkBased, NewView)[w] = ChkBased[w]
        /\ Append(ChkBased, NewView)[Len(ChkBased) + 1] = NewView
    BY <1>1, <2>1, AppendedView
  <2> HIDE DEF ChkBased, NewView, ChkStart, ChkView
  <2> QED
    BY <1>2, <1>3, <2>2, <2>3
<1>4. CASE ChkKept # {}
  <2> DEFINE v == ChkView
             S == [w \in 1..Len(ChkBased) |->
                      IF w = v THEN [own |-> ChkBased[v].own, base |-> ChkBase,
                                     best |-> ChkBased[v].best, built |-> ChkBased[v].built]
                      ELSE ChkBased[w]]
  <2>1. ChkFrom \in DOMAIN mapCache /\ v = mapCache[ChkFrom]
    BY <1>4, TodoIs DEF ChkKept, ChkView, ChkFrom
  <2>2. v \in 1..Len(views)
    BY <2>1, FInvType DEF FInv
  <2>3. v \in 1..Len(ChkBased)
    BY <1>1, <1>2, <2>2
  <2>4. ChkBased \in Seq(View) /\ DOMAIN ChkBased = 1..Len(ChkBased)
    BY <1>1, LenProperties DEF ViewsTyped
  <2>5. ChkBased[v] \in View
    BY <2>3, <2>4
  <2>6. [ChkBased[v] EXCEPT !.base = ChkBase]
           = [own |-> ChkBased[v].own, base |-> ChkBase,
              best |-> ChkBased[v].best, built |-> ChkBased[v].built]
    <3>1. ASSUME NEW a, NEW r \in View
          PROVE  [r EXCEPT !.base = a]
                    = [own |-> r.own, base |-> a, best |-> r.best, built |-> r.built]
      BY DEF View
    <3> QED
      BY <2>5, <3>1
  <2>7. ChkStart = [ChkBased EXCEPT ![v] = [ChkBased[v] EXCEPT !.base = ChkBase]]
    BY <1>4 DEF ChkStart
  <2> HIDE DEF v
  <2>8. ChkStart = S
    BY <2>4, <2>6, <2>7
  <2>9. ASSUME NEW w \in 1..Len(ChkBased) PROVE S[w] \in View /\ S[w].base \in 0..Len(ChkBased)
    BY <1>1, <1>2, <2>5, <2>9, ViewType DEF View
  <2>10. S \in Seq(View) /\ Len(S) = Len(ChkBased)
    BY <1>2, <2>9, SeqDef, LenProperties
  <2>11. ViewsTyped(S)
    BY <2>9, <2>10 DEF ViewsTyped
  <2>12. \A w \in 1..Len(ChkBased) :
            /\ S[w].own = ChkBased[w].own
            /\ S[w].best = ChkBased[w].best
            /\ S[w].built = ChkBased[w].built
            /\ S[w].base = IF w = v THEN ChkBase ELSE ChkBased[w].base
    OBVIOUS
  <2>13. ChkView = v
    BY DEF v
  <2> HIDE DEF S
  <2> QED
    BY <1>1, <1>2, <1>4, <2>1, <2>2, <2>3, <2>8, <2>10, <2>11, <2>12, <2>13
<1> QED
  BY <1>3, <1>4

(* The check leaves the views it found, with other maps.                   *)
LEMMA EndedType ==
    ASSUME FInv, queue # {}, NeedsView(Lowest(queue))
    PROVE  /\ ViewsTyped(ChkConnected) /\ Len(ChkConnected) = Len(ChkStart)
           /\ ViewsTyped(ChkEnded) /\ Len(ChkEnded) = Len(ChkStart)
           /\ Writes[Lowest(queue)] \subseteq Account
           /\ \A w \in 1..Len(ChkStart) :
                 /\ ChkConnected[w].base = ChkStart[w].base
                 /\ ChkEnded[w].base = ChkStart[w].base
                 /\ ChkEnded[w].built = ChkStart[w].built
                 /\ ChkEnded[w].best = IF w = ChkView
                                       THEN ConnectedBest(ChkStart, ChkView, ChkTodo)
                                       ELSE ChkStart[w].best
                 /\ ChkEnded[w].own = FilledOwn(ChkConnected, ChkView, Writes[Lowest(queue)], w)
                 /\ ChkConnected[w].own = IF w = ChkView
                       THEN ConnectedOwn(ChkStart, ChkView, ChkTodo)
                       ELSE FilledOwn(ChkStart, ChkView, Written(ChkTodo), w)
<1>1. /\ ViewsTyped(ChkStart) /\ ChkView \in 1..Len(ChkStart)
  BY StartType
<1>2. ChkP \in Block /\ ChkTodo \subseteq Anc[ChkP] /\ \A k \in Account : db[k] \in Block
  BY TodoIs, CheckedBlock, FInvType DEF FInv
<1>3. Writes[Lowest(queue)] \subseteq Account
  BY CheckedBlock, WritesAssumption
<1>4. /\ ViewsTyped(ChkConnected) /\ Len(ChkConnected) = Len(ChkStart)
      /\ \A w \in 1..Len(ChkStart) :
            /\ ChkConnected[w].base = ChkStart[w].base
            /\ ChkConnected[w].built = ChkStart[w].built
            /\ ChkConnected[w].best = IF w = ChkView
                  THEN ConnectedBest(ChkStart, ChkView, ChkTodo) ELSE ChkStart[w].best
            /\ ChkConnected[w].own = IF w = ChkView
                  THEN ConnectedOwn(ChkStart, ChkView, ChkTodo)
                  ELSE FilledOwn(ChkStart, ChkView, Written(ChkTodo), w)
  BY <1>1, <1>2, ConnectedViews DEF ChkConnected
<1> DEFINE c == ChkConnected
           v == ChkView
           keys == Writes[Lowest(queue)]
<1>6. ViewsTyped(c) /\ v \in 1..Len(c) /\ keys \subseteq Account
  BY <1>1, <1>3, <1>4
<1>7. ChkEnded = Filled(c, v, keys)
  BY DEF ChkEnded
<1> HIDE DEF c, v, keys
<1>8. /\ ViewsTyped(Filled(c, v, keys)) /\ Len(Filled(c, v, keys)) = Len(c)
      /\ \A w \in 1..Len(c) :
            /\ Filled(c, v, keys)[w].base = c[w].base
            /\ Filled(c, v, keys)[w].best = c[w].best
            /\ Filled(c, v, keys)[w].built = c[w].built
            /\ Filled(c, v, keys)[w].own = FilledOwn(c, v, keys, w)
  BY <1>2, <1>6, FilledViews
<1>5. /\ ViewsTyped(ChkEnded) /\ Len(ChkEnded) = Len(ChkConnected)
      /\ \A w \in 1..Len(ChkConnected) :
            /\ ChkEnded[w].base = ChkConnected[w].base
            /\ ChkEnded[w].best = ChkConnected[w].best
            /\ ChkEnded[w].built = ChkConnected[w].built
            /\ ChkEnded[w].own = FilledOwn(ChkConnected, ChkView, Writes[Lowest(queue)], w)
  BY <1>7, <1>8 DEF c, v, keys
<1> QED
  BY <1>3, <1>4, <1>5

-----------------------------------------------------------------------------
(* What a check finds is sound, and so is what it leaves.                  *)

(* An account is always something, since genesis writes them all.          *)
LEMMA TruthOfIs ==
    ASSUME NEW vs, ViewsTyped(vs), NEW k \in Account, NEW w \in 1..Len(vs)
    PROVE  TruthOf(vs, k)[w] = Truth(vs[w].best, k) /\ Truth(vs[w].best, k) \in Block
BY ViewType, TruthIs DEF TruthOf

(* A copy of the tip's cache with the blocks above the fork undone, on the *)
(* database, is the fork.                                                  *)
LEMMA BaseViewSound ==
    ASSUME FInv, NEW f \in Anc[active], NEW k \in Account
    PROVE  /\ BaseView(f).own[k] # Unread => BaseView(f).own[k] = Truth(f, k)
           /\ BaseView(f).own[k] = Unread => db[k] = Truth(f, k)
<1>1. active \in Block /\ Truth(active, k) = IF tip[k] = Unread THEN db[k] ELSE tip[k]
  BY FInvType DEF FInv, TipIsTruth
<1>2. f \in Block /\ Truth(f, k) \in Block /\ Unread \notin Block
  BY <1>1, OwnChain, TruthIs, UnreadAssumption
<1>3. BaseView(f).own[k] = IF \E b \in Anc[active] \ Anc[f] : k \in Writes[b]
                           THEN Truth(f, k) ELSE tip[k]
  BY DEF BaseView
<1>4. (\A b \in Anc[active] \ Anc[f] : k \notin Writes[b]) => Truth(active, k) = Truth(f, k)
  BY <1>1, TruthKept
<1> QED
  BY <1>1, <1>2, <1>3, <1>4

(* The view at the fork is sound, for the blocks above it were undone.     *)
LEMMA BasedSound ==
    ASSUME FInv, queue # {}, NeedsView(Lowest(queue)), astray = {}
    PROVE  SoundViews(ChkBased) /\ ChkBased[ChkBase].best = ChkFork
<1>1. SoundViews(views) /\ KeysAgree(views, mapCache)
  BY DEF FInv
<1>2. CASE ChkFork \in DOMAIN mapCache
  <2>1. ChkBased = views /\ ChkBase = mapCache[ChkFork]
    BY <1>2, BasedType
  <2> HIDE DEF ChkBased, ChkBase
  <2> QED
    BY <1>1, <1>2, <2>1 DEF KeysAgree
<1>3. CASE ChkFork \notin DOMAIN mapCache
  <2> DEFINE N == Len(views)
             f == ChkFork
             B == ChkBased
  <2>1. /\ ViewsTyped(views) /\ N \in Nat /\ active \in Block
    BY FInvType DEF FInv
  <2>2. /\ ViewsTyped(B) /\ Len(B) = N + 1 /\ B[N + 1] = BaseView(f)
        /\ ChkBase = N + 1 /\ \A w \in 1..N : B[w] = views[w]
    BY <1>3, BasedType
  <2>3. f \in Anc[active] /\ f \in Block /\ f \in Anc[f]
    BY <2>1, CheckedBlock, ForkIs, OwnChain DEF ChkFork
  <2> HIDE DEF B, f, N
  <2>4. /\ B[N + 1].base = 0 /\ B[N + 1].best = f /\ B[N + 1].built = f
        /\ \A k \in Account :
              /\ B[N + 1].own[k] # Unread => B[N + 1].own[k] = Truth(f, k)
              /\ B[N + 1].own[k] = Unread => db[k] = Truth(f, k)
    <3>1. BaseView(f).base = 0 /\ BaseView(f).best = f /\ BaseView(f).built = f
      BY DEF BaseView
    <3>2. \A k \in Account :
             /\ BaseView(f).own[k] # Unread => BaseView(f).own[k] = Truth(f, k)
             /\ BaseView(f).own[k] = Unread => db[k] = Truth(f, k)
      BY <2>3, BaseViewSound
    <3> QED
      BY <2>2, <3>1, <3>2
  <2>5. \A w \in 1..N : views[w].base \in 0..N
    BY <2>1, ViewType DEF N
  <2>6. ASSUME NEW k \in Account PROVE Labelled(B, k, TruthOf(B, k))
    <3>1. Labelled(views, k, TruthOf(views, k))
      BY <1>1, <2>6 DEF SoundViews
    <3>2. \A w \in 1..(N + 1) : /\ TruthOf(B, k)[w] = Truth(B[w].best, k)
                                /\ Truth(B[w].best, k) \in Block
      BY <2>2, TruthOfIs
    <3>3. \A w \in 1..N : TruthOf(views, k)[w] = Truth(views[w].best, k)
      BY <2>1, TruthOfIs DEF N
    <3> SUFFICES ASSUME NEW w \in 1..(N + 1)
                 PROVE  /\ TruthOf(B, k)[w] \in Block
                        /\ B[w].own[k] # Unread => B[w].own[k] = TruthOf(B, k)[w]
                        /\ B[w].own[k] = Unread /\ B[w].base = 0 => db[k] = TruthOf(B, k)[w]
                        /\ B[w].own[k] = Unread /\ B[w].base # 0
                              => TruthOf(B, k)[B[w].base] = TruthOf(B, k)[w]
      BY <2>2 DEF Labelled
    <3>4. CASE w = N + 1
      BY <2>4, <3>2, <3>4
    <3>5. CASE w # N + 1
      <4>1. w \in 1..N
        BY <2>1, <3>5
      <4>2. B[w] = views[w] /\ TruthOf(B, k)[w] = TruthOf(views, k)[w]
        BY <2>2, <3>2, <3>3, <4>1
      <4>3. ASSUME views[w].base # 0
            PROVE  TruthOf(B, k)[views[w].base] = TruthOf(views, k)[views[w].base]
        <5>1. views[w].base \in 1..N /\ views[w].base \in 1..(N + 1)
          BY <2>1, <2>5, <4>1, <4>3
        <5> QED
          BY <2>2, <3>2, <3>3, <5>1
      <4>4. /\ TruthOf(views, k)[w] \in Block
            /\ views[w].own[k] # Unread => views[w].own[k] = TruthOf(views, k)[w]
            /\ views[w].own[k] = Unread /\ views[w].base = 0 => db[k] = TruthOf(views, k)[w]
            /\ views[w].own[k] = Unread /\ views[w].base # 0
                  => TruthOf(views, k)[views[w].base] = TruthOf(views, k)[w]
        BY <3>1, <4>1 DEF Labelled, N
      <4> QED
        BY <4>2, <4>3, <4>4
    <3> QED
      BY <3>4, <3>5
  <2>7. ASSUME NEW w \in 1..(N + 1)
        PROVE  /\ B[w].base # 0 => /\ B[B[w].base].best \in Anc[B[w].best]
                                   /\ B[B[w].base].best # B[w].best
               /\ B[w].built \in Anc[B[w].best]
               /\ \A k \in Account : B[w].own[k] = Unread
                      => Truth(B[w].built, k) = Truth(B[w].best, k)
    <3>1. CASE w = N + 1
      BY <2>3, <2>4, <3>1
    <3>2. CASE w # N + 1
      <4>1. w \in 1..N
        BY <2>1, <3>2
      <4>2. B[w] = views[w] /\ (views[w].base # 0 => B[views[w].base] = views[views[w].base])
        <5>1. views[w].base # 0 => views[w].base \in 1..N
          BY <2>1, <2>5, <4>1
        <5> QED
          BY <2>2, <4>1, <5>1
      <4>3. /\ views[w].base # 0 => /\ views[views[w].base].best \in Anc[views[w].best]
                                    /\ views[views[w].base].best # views[w].best
            /\ views[w].built \in Anc[views[w].best]
            /\ \A k \in Account : views[w].own[k] = Unread
                   => Truth(views[w].built, k) = Truth(views[w].best, k)
        BY <1>1, <4>1 DEF SoundViews, N
      <4> QED
        BY <4>2, <4>3
    <3> QED
      BY <3>1, <3>2
  <2>8. SoundViews(B)
    BY <2>2, <2>6, <2>7 DEF SoundViews
  <2> QED
    BY <2>2, <2>4, <2>8 DEF B, f
<1> QED
  BY <1>2, <1>3

(* Nothing strays that was not led astray: the view the check takes has    *)
(* its base at the fork or below its own branch.                           *)
InPlace == ChkKept # {} => ChkStart[ChkView].built \in Anc[ChkFork]

(* So is the one above it when the kept one was built on the branch.       *)
LEMMA StartSound ==
    ASSUME FInv, queue # {}, NeedsView(Lowest(queue)), astray = {}, InPlace
    PROVE  /\ \A k \in Account : Labelled(ChkStart, k, TruthOf(ChkStart, k))
           /\ Rooted(ChkStart)
           /\ ChkStart[ChkView].best = ChkFrom
           /\ ChkStart[ChkView].base = ChkBase /\ ChkBase \in 1..Len(ChkStart)
           /\ ChkBase # ChkView /\ ChkStart[ChkBase].best = ChkFork
           /\ \A w \in 1..Len(ChkStart) :
                 /\ w # ChkView /\ ChkStart[w].base # 0
                       => /\ ChkStart[ChkStart[w].base].best \in Anc[ChkStart[w].best]
                          /\ ChkStart[ChkStart[w].base].best # ChkStart[w].best
                 /\ ChkStart[w].built \in Anc[ChkStart[w].best]
                 /\ \A k \in Account : ChkStart[w].own[k] = Unread
                        => Truth(ChkStart[w].built, k) = Truth(ChkStart[w].best, k)
           /\ ChkKept = {} => \A w \in 1..Len(ChkStart) : ChkStart[w].base # ChkView
<1> DEFINE B == ChkBased
           S == ChkStart
           v == ChkView
           N == Len(B)
           b == ChkBase
           f == ChkFork
           x == ChkFrom
<1>1. SoundViews(B) /\ B[b].best = f
  BY BasedSound
<1>2. ViewsTyped(B) /\ b \in 1..N /\ N \in Nat
  BY BasedType DEF ViewsTyped
<1>3. ViewsTyped(S) /\ v \in 1..Len(S) /\ N <= Len(S) /\ Len(S) \in Nat
  BY StartType DEF ViewsTyped
<1>4. f \in Block /\ x \in Block /\ f \in Anc[x]
  BY TodoIs
<1>5. b \in 1..Len(S)
  BY <1>2, <1>3
<1>6. \A w \in 1..N : B[w].base \in 0..N
  BY <1>2, ViewType
<1>7. /\ \A w \in 1..N :
            /\ B[w].base # 0 => /\ B[B[w].base].best \in Anc[B[w].best]
                                /\ B[B[w].base].best # B[w].best
            /\ B[w].built \in Anc[B[w].best]
            /\ \A k \in Account : B[w].own[k] = Unread
                   => Truth(B[w].built, k) = Truth(B[w].best, k)
      /\ \A k \in Account : Labelled(B, k, TruthOf(B, k))
  BY <1>1 DEF SoundViews
<1>8. Rooted(B)
  BY <1>2, <1>7, SoundRooted
<1>9. \A k \in Account : \A w \in 1..Len(S) :
         TruthOf(S, k)[w] = Truth(S[w].best, k) /\ Truth(S[w].best, k) \in Block
  BY <1>3, TruthOfIs
<1>10. \A k \in Account : \A w \in 1..N : TruthOf(B, k)[w] = Truth(B[w].best, k)
  BY <1>2, TruthOfIs
<1>11. \A k \in Account : \A w \in 1..N :
            /\ B[w].own[k] # Unread => B[w].own[k] = Truth(B[w].best, k)
            /\ B[w].own[k] = Unread /\ B[w].base = 0 => db[k] = Truth(B[w].best, k)
            /\ B[w].own[k] = Unread /\ B[w].base # 0
                  => Truth(B[B[w].base].best, k) = Truth(B[w].best, k)
  <2> TAKE k \in Account
  <2> TAKE w \in 1..N
  <2>1. B[w].base # 0 => B[w].base \in 1..N
    BY <1>2, <1>6
  <2>2. /\ B[w].own[k] # Unread => B[w].own[k] = TruthOf(B, k)[w]
        /\ B[w].own[k] = Unread /\ B[w].base = 0 => db[k] = TruthOf(B, k)[w]
        /\ B[w].own[k] = Unread /\ B[w].base # 0
              => TruthOf(B, k)[B[w].base] = TruthOf(B, k)[w]
    BY <1>7 DEF Labelled
  <2> QED
    BY <1>10, <2>1, <2>2
<1>12. CASE ChkKept = {}
  <2>1. /\ Len(S) = N + 1 /\ v = N + 1 /\ S[v] = NewView /\ x = f
        /\ \A w \in 1..N : S[w] = B[w]
    BY <1>12, StartType DEF ChkFrom
  <2>2. NewView.own = NothingRead /\ NewView.base = b /\ NewView.best = f /\ NewView.built = f
    BY <1>1 DEF NewView
  <2>3. f \in Anc[f] /\ \A k \in Account : NothingRead[k] = Unread
    BY <1>4, OwnChain DEF NothingRead
  <2> HIDE DEF B, S, v, N, b, f, x
  <2>4. b # v /\ S[b].best = f /\ S[v].base = b /\ S[v].best = x /\ b # 0
    BY <1>1, <1>2, <2>1, <2>2
  <2>5. \A w \in 1..Len(S) : w = v \/ w \in 1..N
    BY <1>2, <2>1
  <2>6. \A w \in 1..N : B[w].base # 0 => B[w].base \in 1..N
    BY <1>2, <1>6
  <2>7. \A w \in 1..Len(S) : S[w].base # v
    <3> TAKE w \in 1..Len(S)
    <3>1. CASE w = v
      BY <2>4, <3>1
    <3>2. CASE w \in 1..N
      <4>1. S[w].base \in 0..N
        BY <1>6, <2>1, <3>2
      <4> QED
        BY <1>2, <2>1, <4>1
    <3> QED
      BY <2>5, <3>1, <3>2
  <2>8. ASSUME NEW w \in 1..Len(S)
        PROVE  /\ w # v /\ S[w].base # 0
                     => /\ S[S[w].base].best \in Anc[S[w].best]
                        /\ S[S[w].base].best # S[w].best
               /\ S[w].built \in Anc[S[w].best]
               /\ \A k \in Account : S[w].own[k] = Unread
                      => Truth(S[w].built, k) = Truth(S[w].best, k)
    <3>1. CASE w = v
      BY <2>1, <2>2, <2>3, <3>1
    <3>2. CASE w \in 1..N
      <4>1. S[w] = B[w] /\ (B[w].base # 0 => S[B[w].base] = B[B[w].base])
        BY <2>1, <2>6, <3>2
      <4> QED
        BY <1>7, <3>2, <4>1
    <3> QED
      BY <2>5, <3>1, <3>2
  <2>9. ASSUME NEW k \in Account PROVE Labelled(S, k, TruthOf(S, k))
    <3> SUFFICES ASSUME NEW w \in 1..Len(S)
                 PROVE  /\ TruthOf(S, k)[w] \in Block
                        /\ S[w].own[k] # Unread => S[w].own[k] = TruthOf(S, k)[w]
                        /\ S[w].own[k] = Unread /\ S[w].base = 0 => db[k] = TruthOf(S, k)[w]
                        /\ S[w].own[k] = Unread /\ S[w].base # 0
                              => TruthOf(S, k)[S[w].base] = TruthOf(S, k)[w]
      BY DEF Labelled
    <3>1. TruthOf(S, k)[w] = Truth(S[w].best, k) /\ TruthOf(S, k)[w] \in Block
      BY <1>9
    <3>2. CASE w = v
      <4>1. S[w].own[k] = Unread /\ S[w].base = b
        BY <2>1, <2>2, <2>3, <3>2
      <4>2. TruthOf(S, k)[b] = Truth(f, k)
        BY <1>5, <1>9, <2>4
      <4>3. TruthOf(S, k)[w] = Truth(f, k)
        BY <2>1, <2>2, <3>1, <3>2
      <4> QED
        BY <2>4, <3>1, <4>1, <4>2, <4>3
    <3>3. CASE w \in 1..N
      <4>1. S[w] = B[w]
        BY <2>1, <3>3
      <4>2. ASSUME B[w].base # 0
            PROVE  TruthOf(S, k)[B[w].base] = Truth(B[B[w].base].best, k)
        <5>1. B[w].base \in 1..N /\ B[w].base \in 1..Len(S)
          BY <1>2, <1>3, <2>6, <3>3, <4>2
        <5> QED
          BY <1>9, <2>1, <5>1
      <4> QED
        BY <1>11, <3>1, <3>3, <4>1, <4>2
    <3> QED
      BY <2>5, <3>2, <3>3
  <2>10. Rooted(S)
    <3> SUFFICES ASSUME NEW Z \in SUBSET (1..Len(S)), Z # {}
                 PROVE  \E w \in Z : S[w].base \notin Z
      BY DEF Rooted
    <3>1. CASE Z \ {v} = {}
      <4>1. v \in Z /\ b \notin Z
        BY <2>4, <3>1
      <4> QED
        BY <2>4, <4>1
    <3>2. CASE Z \ {v} # {}
      <4>1. Z \ {v} \in SUBSET (1..N)
        BY <2>5
      <4>2. PICK w \in Z \ {v} : B[w].base \notin Z \ {v}
        BY <1>8, <3>2, <4>1 DEF Rooted, N
      <4>3. S[w] = B[w] /\ S[w].base # v
        BY <2>1, <2>7, <4>1
      <4> QED
        BY <4>2, <4>3
    <3> QED
      BY <3>1, <3>2
  <2> QED
    BY <1>5, <2>4, <2>7, <2>8, <2>9, <2>10 DEF S, v, b, f, x
<1>13. CASE ChkKept # {}
  <2>1. /\ Len(S) = N /\ v = mapCache[x] /\ v \in 1..N
        /\ \A w \in 1..N :
              /\ S[w].own = B[w].own /\ S[w].best = B[w].best /\ S[w].built = B[w].built
              /\ S[w].base = IF w = v THEN b ELSE B[w].base
    BY <1>3, <1>13, StartType
  <2>2. x \in DOMAIN mapCache /\ x # f
    BY <1>13, TodoIs DEF ChkKept
  <2>3. B[v].best = x
    <3>1. v \in 1..Len(views) /\ B[v] = views[v]
      BY <1>13, StartType, BasedType
    <3>2. KeysAgree(views, mapCache)
      BY DEF FInv
    <3>3. views[mapCache[x]].best = x
      BY <2>2, <3>2 DEF KeysAgree
    <3> QED
      BY <2>1, <3>1, <3>3
  <2>4. S[v].built \in Anc[f]
    BY <1>13 DEF InPlace
  <2> HIDE DEF B, S, v, N, b, f, x
  <2>5. b # v /\ S[b].best = f /\ S[v].base = b /\ S[v].best = x /\ b # 0
    BY <1>1, <1>2, <2>1, <2>2, <2>3
  <2>6. \A w \in 1..N : B[w].base # 0 => B[w].base \in 1..N
    BY <1>2, <1>6
  <2>7. ASSUME NEW w \in 1..N
        PROVE  /\ S[w].base # 0
                     => /\ S[S[w].base].best \in Anc[S[w].best]
                        /\ S[S[w].base].best # S[w].best
               /\ S[w].built \in Anc[S[w].best]
               /\ \A k \in Account : S[w].own[k] = Unread
                      => Truth(S[w].built, k) = Truth(S[w].best, k)
    <3>1. /\ S[w].built \in Anc[S[w].best]
          /\ \A k \in Account : S[w].own[k] = Unread
                 => Truth(S[w].built, k) = Truth(S[w].best, k)
      BY <1>7, <2>1
    <3>2. CASE w = v
      BY <1>4, <2>2, <2>5, <3>1, <3>2
    <3>3. CASE w # v
      <4>1. S[w].base = B[w].base /\ S[w].best = B[w].best
        BY <2>1, <3>3
      <4>2. B[w].base # 0 => S[B[w].base].best = B[B[w].base].best
        BY <2>1, <2>6
      <4> QED
        BY <1>7, <3>1, <4>1, <4>2
    <3> QED
      BY <3>2, <3>3
  <2>8. ASSUME NEW k \in Account PROVE Labelled(S, k, TruthOf(S, k))
    <3> SUFFICES ASSUME NEW w \in 1..N
                 PROVE  /\ TruthOf(S, k)[w] \in Block
                        /\ S[w].own[k] # Unread => S[w].own[k] = TruthOf(S, k)[w]
                        /\ S[w].own[k] = Unread /\ S[w].base = 0 => db[k] = TruthOf(S, k)[w]
                        /\ S[w].own[k] = Unread /\ S[w].base # 0
                              => TruthOf(S, k)[S[w].base] = TruthOf(S, k)[w]
      BY <2>1 DEF Labelled
    <3>1. /\ TruthOf(S, k)[w] = Truth(B[w].best, k) /\ TruthOf(S, k)[w] \in Block
          /\ S[w].own = B[w].own
      BY <1>9, <2>1
    <3>2. CASE w = v
      <4>1. TruthOf(S, k)[b] = Truth(f, k) /\ TruthOf(S, k)[v] = Truth(x, k)
        BY <1>5, <1>9, <2>1, <2>5
      <4>2. S[v].own[k] = Unread => Truth(f, k) = Truth(x, k)
        <5>1. ASSUME S[v].own[k] = Unread PROVE Truth(S[v].built, k) = Truth(x, k)
          BY <2>1, <2>5, <2>7, <5>1
        <5> QED
          BY <1>4, <2>4, <5>1, TruthBetween
      <4> QED
        BY <1>11, <2>5, <3>1, <3>2, <4>1, <4>2
    <3>3. CASE w # v
      <4>1. S[w].base = B[w].base
        BY <2>1, <3>3
      <4>2. B[w].base # 0 => TruthOf(S, k)[B[w].base] = Truth(B[B[w].base].best, k)
        BY <1>9, <2>1, <2>6
      <4> QED
        BY <1>11, <3>1, <4>1, <4>2
    <3> QED
      BY <3>2, <3>3
  <2>9. Rooted(S)
    BY <1>3, <2>1, <2>7, SoundRooted
  <2> QED
    BY <1>5, <1>13, <2>1, <2>5, <2>7, <2>8, <2>9 DEF S, v, b, f, x
<1> QED
  BY <1>12, <1>13

-----------------------------------------------------------------------------
NoneAbove == ChkTodo = {} \/ \A u \in 1..Len(ChkStart) : ChkStart[u].base # ChkView

(* What the accounts are for each view when the check has run. *)
ChkAfter(k) == After(ChkStart, ChkView, ChkTodo, k, TruthOf(ChkStart, k))

(* What a read of each view finds when the check has run.                  *)
LEMMA EndedLabelled ==
    ASSUME FInv, queue # {}, NeedsView(Lowest(queue)), astray = {}, InPlace, NoneAbove
    PROVE  /\ Rooted(ChkEnded)
           /\ \A k \in Account : Labelled(ChkEnded, k, ChkAfter(k))
<1> DEFINE S == ChkStart
           C == ChkConnected
           v == ChkView
           keys == Writes[Lowest(queue)]
           todo == ChkTodo
           p == ChkP
<1>1. /\ \A k \in Account : Labelled(S, k, TruthOf(S, k))
      /\ Rooted(S) /\ S[v].best = ChkFrom
  BY StartSound
<1>2. ViewsTyped(S) /\ v \in 1..Len(S)
  BY StartType
<1>3. /\ ViewsTyped(C) /\ Len(C) = Len(S) /\ Len(ChkEnded) = Len(S)
      /\ keys \subseteq Account
      /\ \A w \in 1..Len(S) : C[w].base = S[w].base /\ ChkEnded[w].base = S[w].base
  BY EndedType
<1>4. p \in Block /\ todo \subseteq Anc[p] /\ \A a \in Account : db[a] \in Block
  BY TodoIs, CheckedBlock, FInvType DEF FInv
<1>5. todo = {} => Written(todo) = {}
  BY <1>4, WrittenIs DEF Written
<1>6. C = Connected(S, v, todo) /\ ChkEnded = Filled(C, v, keys)
  BY DEF ChkConnected, ChkEnded
<1>7. todo = {} \/ \A u \in 1..Len(S) : S[u].base # v
  BY DEF NoneAbove
<1>8. Rooted(C) /\ Rooted(ChkEnded)
  BY <1>1, <1>3 DEF Rooted
<1>9. \A k \in Account : TruthOf(S, k)[v] = Truth(S[v].best, k)
  BY <1>2, TruthOfIs
<1>10. \A k : ChkAfter(k) = After(S, v, todo, k, TruthOf(S, k))
  BY DEF ChkAfter
<1> HIDE DEF S, C, v, keys, todo, p
<1>11. ASSUME NEW k \in Account PROVE Labelled(ChkEnded, k, ChkAfter(k))
  <2> DEFINE T == TruthOf(S, k)
             A == After(S, v, todo, k, T)
  <2>1. Labelled(S, k, T) /\ T[v] = Truth(S[v].best, k)
    BY <1>1, <1>9
  <2>2. k \in Written(todo) => \A u \in 1..Len(S) : S[u].base # v
    BY <1>5, <1>7
  <2> HIDE DEF T
  <2>3. Labelled(C, k, A)
    BY <1>1, <1>2, <1>4, <1>6, <2>1, <2>2, ConnectedLabelled
  <2>4. v \in 1..Len(C)
    BY <1>2, <1>3
  <2> HIDE DEF A
  <2>5. Labelled(Filled(C, v, keys), k, A)
    BY <1>3, <1>4, <1>8, <2>3, <2>4, FilledLabelled
  <2>6. ChkAfter(k) = A
    BY <1>10 DEF A, T
  <2> QED
    BY <1>6, <2>5, <2>6
<1> QED
  BY <1>8, <1>11

(* What the view of the check says when no block failed. *)
LEMMA AfterAll ==
    ASSUME FInv, queue # {}, NeedsView(Lowest(queue)), astray = {}, InPlace,
           ChkTodo \cap Bad = {}
    PROVE  /\ ConnectedBest(ChkStart, ChkView, ChkTodo) = ChkP
           /\ \A k \in Account :
                 /\ ChkAfter(k)[ChkView] = Truth(ChkP, k)
                 /\ k \notin Written(ChkTodo) => Truth(ChkFrom, k) = Truth(ChkP, k)
<1> DEFINE x == ChkFrom
           p == ChkP
           T == ChkTodo
           v == ChkView
<1>1. x \in Anc[p] /\ x \in Block /\ T = Above(x, p) /\ p \in Block /\ T \subseteq Anc[p]
  BY TodoIs, CheckedBlock
<1>2. Done(T) = T /\ Executed(T) = T
  BY <1>1, WrittenIs
<1>3. ChkStart[v].best = x
  BY StartSound
<1>4. v \in 1..Len(ChkStart) /\ ViewsTyped(ChkStart)
  BY StartType
<1> HIDE DEF x, p, T, v
<1>5. /\ T # {} => Highest(T) = p
      /\ T = {} => x = p
  BY <1>1, TopOfAbove
<1>6. ConnectedBest(ChkStart, v, T) = p
  BY <1>2, <1>3, <1>5 DEF ConnectedBest
<1>7. ASSUME NEW k \in Account
      PROVE  /\ k \notin Written(T) => Truth(x, k) = Truth(p, k)
             /\ After(ChkStart, v, T, k, TruthOf(ChkStart, k))[v] = Truth(p, k)
  <2>1. /\ k \in Written(T) => Highest({b \in Executed(T) : k \in Writes[b]}) = Truth(p, k)
        /\ k \notin Written(T) => Truth(x, k) = Truth(p, k)
    BY <1>1, <1>2, TruthAbove DEF Written
  <2>2. TruthOf(ChkStart, k)[v] = Truth(x, k)
    BY <1>3, <1>4, TruthOfIs
  <2> QED
    BY <1>4, <2>1, <2>2 DEF After, LastWriter
<1> QED
  BY <1>6, <1>7 DEF x, p, T, v, ChkAfter

(* A check that passes leaves sound views, and its own at the parent.      *)
LEMMA EndedSound ==
    ASSUME FInv, queue # {}, NeedsView(Lowest(queue)), astray = {}, InPlace, NoneAbove,
           ChkTodo \cap Bad = {}
    PROVE  SoundViews(ChkEnded) /\ ChkEnded[ChkView].best = ChkP
<1> DEFINE S == ChkStart
           E == ChkEnded
           v == ChkView
           p == ChkP
           b == ChkBase
<1>1. /\ S[v].best = ChkFrom /\ S[v].base = b /\ b \in 1..Len(S) /\ b # v
      /\ S[b].best = ChkFork
      /\ \A w \in 1..Len(S) :
            /\ w # v /\ S[w].base # 0
                  => /\ S[S[w].base].best \in Anc[S[w].best]
                     /\ S[S[w].base].best # S[w].best
            /\ S[w].built \in Anc[S[w].best]
            /\ \A k \in Account : S[w].own[k] = Unread
                   => Truth(S[w].built, k) = Truth(S[w].best, k)
  BY StartSound
<1>2. ViewsTyped(S) /\ v \in 1..Len(S) /\ \A w \in 1..Len(S) : S[w].base \in 0..Len(S)
  BY StartType, ViewType
<1>3. /\ ViewsTyped(E) /\ Len(E) = Len(S)
      /\ \A w \in 1..Len(S) :
            /\ E[w].base = S[w].base /\ E[w].built = S[w].built
            /\ E[w].best = IF w = v THEN p ELSE S[w].best
  <2>1. ConnectedBest(S, v, ChkTodo) = p
    BY AfterAll
  <2> QED
    BY <2>1, EndedType
<1>4. /\ ChkFrom \in Anc[p] /\ ChkFork \in Anc[ChkFrom] /\ ChkFork # p /\ ChkFrom \in Block
      /\ p \in Block /\ (ChkTodo = {} => ChkFrom = p)
  BY TodoIs, CheckedBlock, TopOfAbove
<1>5. \A k \in Account :
         /\ Labelled(E, k, ChkAfter(k)) /\ ChkAfter(k)[v] = Truth(p, k)
         /\ k \notin Written(ChkTodo) => Truth(ChkFrom, k) = Truth(p, k)
  BY EndedLabelled, AfterAll
<1>6. ASSUME NEW w \in 1..Len(S), NEW k \in Account, E[w].own[k] = Unread
      PROVE  S[w].own[k] = Unread /\ (w = v => k \notin Written(ChkTodo))
  <2>1. ChkConnected[w].own[k] = Unread
    <3>1. E[w].own = FilledOwn(ChkConnected, v, Writes[Lowest(queue)], w)
      BY EndedType
    <3>2. /\ E[w].own[k] = ChkConnected[w].own[k]
             \/ (ChkConnected[w].own[k] = Unread)
      BY <3>1 DEF FilledOwn
    <3> QED
      BY <1>6, <3>2
  <2>2. CASE w = v
    <3>1. ChkConnected[w].own = ConnectedOwn(S, v, ChkTodo)
      BY <2>2, EndedType
    <3>2. k \in Written(ChkTodo) => LastWriter(ChkTodo, k) \in Block
      BY <1>4, TodoIs, WrittenIs
    <3>3. k \notin Written(ChkTodo)
      <4>2. ASSUME k \in Written(ChkTodo) PROVE FALSE
        <5>1. ChkAfter(k)[v] = LastWriter(ChkTodo, k)
          BY <1>2, <4>2 DEF ChkAfter, After
        <5>2. GetAccountOf(S, v, k) = TruthOf(S, k)[v]
          BY <1>2, StartSound, AnswerIs
        <5>3. TruthOf(S, k)[v] = Truth(S[v].best, k)
          BY <1>2, TruthOfIs
        <5>4. ChkConnected[w].own[k] = LastWriter(ChkTodo, k)
          BY <3>1, <4>2, <5>2, <5>3 DEF ConnectedOwn
        <5> QED
          BY <2>1, <3>2, <4>2, <5>4, UnreadAssumption
      <4> QED
        BY <4>2
    <3>4. ChkConnected[w].own[k] = S[v].own[k]
      BY <3>1, <3>3 DEF ConnectedOwn
    <3> QED
      BY <2>1, <2>2, <3>3, <3>4
  <2>3. CASE w # v
    <3>1. ChkConnected[w].own = FilledOwn(S, v, Written(ChkTodo), w)
      BY <2>3, EndedType
    <3>2. ChkConnected[w].own[k] = S[w].own[k] \/ S[w].own[k] = Unread
      BY <3>1 DEF FilledOwn
    <3> QED
      BY <2>1, <2>3, <3>2
  <2> QED
    BY <2>2, <2>3
<1>7. ASSUME NEW k \in Account PROVE Labelled(E, k, TruthOf(E, k))
  <2>1. ASSUME NEW w \in 1..Len(S) PROVE TruthOf(E, k)[w] = ChkAfter(k)[w]
    <3>1. TruthOf(E, k)[w] = Truth(E[w].best, k)
      BY <1>3, TruthOfIs
    <3>2. TruthOf(S, k)[w] = Truth(S[w].best, k)
      BY <1>2, TruthOfIs
    <3>3. w # v => ChkAfter(k)[w] = TruthOf(S, k)[w]
      BY DEF ChkAfter, After
    <3> QED
      BY <1>3, <1>5, <3>1, <3>2, <3>3
  <2>2. \A w \in 1..Len(S) : E[w].base # 0 => E[w].base \in 1..Len(S)
    BY <1>2, <1>3
  <2>3. Labelled(E, k, ChkAfter(k))
    BY <1>5
  <2> HIDE DEF E, S
  <2> QED
    BY <1>3, <2>1, <2>2, <2>3 DEF Labelled
<1>8. E[v].best = p
  BY <1>2, <1>3
<1>9. \A w \in 1..Len(S) : w # v => E[w].best = S[w].best
  BY <1>3
<1>10. ChkTodo = {} \/ \A u \in 1..Len(S) : S[u].base # v
  BY DEF NoneAbove
<1> HIDE DEF E, S, v, p, b
<1>11. ASSUME NEW w \in 1..Len(S)
       PROVE  /\ E[w].base # 0 => /\ E[E[w].base].best \in Anc[E[w].best]
                                  /\ E[E[w].base].best # E[w].best
              /\ E[w].built \in Anc[E[w].best]
              /\ \A k \in Account : E[w].own[k] = Unread
                     => Truth(E[w].built, k) = Truth(E[w].best, k)
  <2>1. CASE w = v
    <3>1. E[b].best = ChkFork
      BY <1>1, <1>9
    <3>2. ChkFork \in Anc[p]
      BY <1>4, OwnChain
    <3>3. E[w].built \in Anc[ChkFrom]
      BY <1>1, <1>2, <1>3, <2>1
    <3>4. E[w].built \in Anc[p]
      BY <1>4, <3>3, OwnChain
    <3>5. ASSUME NEW k \in Account, E[w].own[k] = Unread
          PROVE  Truth(E[w].built, k) = Truth(p, k)
      <4>1. S[w].own[k] = Unread /\ k \notin Written(ChkTodo)
        BY <1>6, <2>1, <3>5
      <4>2. Truth(S[w].built, k) = Truth(ChkFrom, k)
        BY <1>1, <1>2, <2>1, <4>1
      <4> QED
        BY <1>3, <1>5, <4>1, <4>2
    <3> QED
      BY <1>1, <1>3, <1>4, <1>8, <2>1, <3>1, <3>2, <3>4, <3>5
  <2>2. CASE w # v
    <3>1. E[w].best = S[w].best /\ E[w].base = S[w].base /\ E[w].built = S[w].built
      BY <1>3, <1>9, <2>2
    <3>2. ASSUME S[w].base # 0 PROVE E[S[w].base].best = S[S[w].base].best
      <4>1. S[w].base \in 1..Len(S)
        BY <1>2, <3>2
      <4>2. CASE S[w].base = v
        BY <1>1, <1>4, <1>8, <1>10, <4>2
      <4>3. CASE S[w].base # v
        BY <1>9, <4>1, <4>3
      <4> QED
        BY <4>2, <4>3
    <3>3. \A k \in Account : E[w].own[k] = Unread => S[w].own[k] = Unread
      BY <1>6
    <3> QED
      BY <1>1, <2>2, <3>1, <3>2, <3>3
  <2> QED
    BY <2>1, <2>2
<1>12. SoundViews(E)
  BY <1>3, <1>7, <1>11 DEF SoundViews
<1> QED
  BY <1>8, <1>12 DEF E, v, p

(* A block is judged on its parent. *)
LEMMA RightHolds ==
    ASSUME FInv, queue # {}, NeedsView(Lowest(queue)), astray = {}, InPlace, NoneAbove
    PROVE  Right
<1> DEFINE S == ChkStart
           E == ChkEnded
           v == ChkView
           p == ChkP
<1>1. v \in 1..Len(S) /\ ViewsTyped(S) /\ ViewsTyped(E) /\ Len(E) = Len(S)
  BY StartType, EndedType
<1>2. /\ Rooted(E) /\ \A k \in Account : Labelled(E, k, ChkAfter(k))
  BY EndedLabelled
<1>3. ChkTodo # {} => S[v].best = Prev[Lowest(ChkTodo)]
  BY StartSound, TodoIs, CheckedBlock, NextAbove
<1>4. ChkTodo \cap Bad = {} => E[v].best = p
  BY EndedSound
<1>5. ASSUME NEW k \in Account PROVE E[v].own[k] # Nil
  <2>1. Nil \notin Block
    BY TreeAssumption
  <2>2. ChkAfter(k)[v] \in Block
    BY <1>1, <1>2 DEF Labelled
  <2>3. E[v].own[k] # Unread => E[v].own[k] = ChkAfter(k)[v]
    BY <1>1, <1>2 DEF Labelled
  <2> QED
    BY <2>1, <2>2, <2>3, UnreadAssumption
<1>6. ASSUME NEW k \in Account, ChkTodo \cap Bad = {}
      PROVE  GetAccountOf(E, v, k) = Truth(p, k)
  <2>1. ChkAfter(k)[v] = Truth(p, k)
    BY <1>6, AfterAll
  <2>2. v \in 1..Len(E) /\ Labelled(E, k, ChkAfter(k))
    BY <1>1, <1>2
  <2> HIDE DEF E, v, p
  <2>3. GetAccountOf(E, v, k) = ChkAfter(k)[v]
    BY <1>1, <1>2, <2>2, AnswerIs
  <2> QED
    BY <2>1, <2>3
<1>7. Writes[Lowest(queue)] \subseteq Account
  BY EndedType
<1> QED
  BY <1>3, <1>4, <1>5, <1>6, <1>7 DEF Right

-----------------------------------------------------------------------------
(* The steps.                                                              *)

(* Soundness depends on the views and the database only.                   *)
LEMMA SoundNext ==
    ASSUME db' = db, NEW vs, vs = views', SoundViews(vs)
    PROVE  SoundViews(views)'
BY DEF SoundViews, Labelled, TruthOf

(* A new view that failed is dropped, and the others are sound.            *)
LEMMA ShortSound ==
    ASSUME FInv, queue # {}, NeedsView(Lowest(queue)), astray = {}, ChkKept = {}
    PROVE  SoundViews(SubSeq(ChkEnded, 1, Len(ChkBased)))
<1> DEFINE E == ChkEnded
           S == ChkStart
           B == ChkBased
           N == Len(B)
           R == SubSeq(E, 1, N)
<1>1. InPlace /\ NoneAbove
  <2>1. InPlace
    BY DEF InPlace
  <2> QED
    BY <2>1, StartSound DEF NoneAbove
<1>2. /\ ViewsTyped(B) /\ N \in Nat /\ Len(S) = N + 1 /\ ChkView = N + 1
      /\ \A w \in 1..N : S[w] = B[w]
      /\ \A w \in 1..N : B[w].base \in 0..N
  BY StartType, BasedType, ViewType DEF ViewsTyped
<1>3. /\ ViewsTyped(E) /\ Len(E) = N + 1 /\ E \in Seq(View)
      /\ \A w \in 1..N :
            /\ E[w].base = B[w].base /\ E[w].built = B[w].built /\ E[w].best = B[w].best
            /\ \A k \in Account : E[w].own[k] = Unread => B[w].own[k] = Unread
  <2>1. ViewsTyped(E) /\ Len(E) = N + 1
    BY <1>2, EndedType
  <2>2. \A w \in 1..N : w \in 1..Len(S) /\ w # ChkView
    BY <1>2
  <2>3. \A w \in 1..N :
           /\ E[w].base = B[w].base /\ E[w].built = B[w].built /\ E[w].best = B[w].best
    BY <1>2, <2>2, EndedType
  <2>4. ASSUME NEW w \in 1..N, NEW k \in Account, E[w].own[k] = Unread
        PROVE  B[w].own[k] = Unread
    <3>1. /\ E[w].own = FilledOwn(ChkConnected, ChkView, Writes[Lowest(queue)], w)
          /\ ChkConnected[w].own = FilledOwn(S, ChkView, Written(ChkTodo), w)
      BY <2>2, EndedType
    <3>2. ChkConnected[w].own[k] = Unread
      BY <2>4, <3>1 DEF FilledOwn
    <3>3. S[w].own[k] = Unread
      BY <3>1, <3>2 DEF FilledOwn
    <3> QED
      BY <1>2, <3>3
  <2> QED
    BY <2>1, <2>3, <2>4 DEF ViewsTyped
<1>4. SoundViews(B)
  BY BasedSound
<1>5. \A k \in Account : Labelled(E, k, ChkAfter(k))
  BY <1>1, EndedLabelled
<1>6. \A k \in Account : \A w \in 1..N : ChkAfter(k)[w] = Truth(B[w].best, k)
  <2> TAKE k \in Account
  <2> TAKE w \in 1..N
  <2>1. w \in 1..Len(S) /\ w # ChkView /\ S[w] = B[w] /\ ViewsTyped(S)
    BY <1>2, StartType
  <2>2. TruthOf(S, k)[w] = Truth(S[w].best, k)
    BY <2>1, TruthOfIs
  <2> QED
    BY <2>1, <2>2 DEF ChkAfter, After
<1> HIDE DEF E, S, B, N
<1>7. R \in Seq(View) /\ Len(R) = N /\ \A w \in 1..N : R[w] = E[w]
  <2>1. N \in 0..Len(E) /\ 1 \in 1..(N + 1)
    BY <1>2, <1>3
  <2> QED
    BY <1>2, <1>3, <2>1, SubSeqProperties
<1> HIDE DEF R
<1>8. ViewsTyped(R)
  BY <1>2, <1>3, <1>7 DEF ViewsTyped
<1>9. ASSUME NEW k \in Account PROVE Labelled(R, k, TruthOf(R, k))
  <2>1. \A w \in 1..N : TruthOf(R, k)[w] = ChkAfter(k)[w]
    <3>1. \A w \in 1..N : TruthOf(R, k)[w] = Truth(R[w].best, k)
      BY <1>7, <1>8, TruthOfIs
    <3> QED
      BY <1>3, <1>6, <1>7, <3>1
  <2>2. \A w \in 1..N : w \in 1..Len(E) /\ (R[w].base # 0 => R[w].base \in 1..N)
    BY <1>2, <1>3, <1>7
  <2>3. Labelled(E, k, ChkAfter(k))
    BY <1>5
  <2> QED
    BY <1>7, <2>1, <2>2, <2>3 DEF Labelled
<1>10. ASSUME NEW w \in 1..N
       PROVE  /\ R[w].base # 0 => /\ R[R[w].base].best \in Anc[R[w].best]
                                  /\ R[R[w].base].best # R[w].best
              /\ R[w].built \in Anc[R[w].best]
              /\ \A k \in Account : R[w].own[k] = Unread
                     => Truth(R[w].built, k) = Truth(R[w].best, k)
  <2>1. /\ B[w].base # 0 => /\ B[B[w].base].best \in Anc[B[w].best]
                            /\ B[B[w].base].best # B[w].best
        /\ B[w].built \in Anc[B[w].best]
        /\ \A k \in Account : B[w].own[k] = Unread
               => Truth(B[w].built, k) = Truth(B[w].best, k)
    BY <1>4 DEF SoundViews, N
  <2>2. B[w].base # 0 => R[B[w].base].best = B[B[w].base].best
    <3>1. B[w].base # 0 => B[w].base \in 1..N
      BY <1>2
    <3> QED
      BY <1>3, <1>7, <3>1
  <2> QED
    BY <1>3, <1>7, <2>1, <2>2
<1>11. SoundViews(R)
  BY <1>7, <1>9, <1>10 DEF SoundViews
<1> QED
  BY <1>11 DEF R, E, N, B

(* A check that leads nothing astray was right, and leaves sound views. *)
LEMMA CheckKeepsViews ==
    ASSUME FInv, CheckOnView, astray' = {}
    PROVE  ~misjudged' /\ SoundViews(views)' /\ KeysAgree(views, mapCache)'
<1>1. /\ queue # {} /\ NeedsView(Lowest(queue))
      /\ misjudged' = (misjudged \/ ~Right)
      /\ UNCHANGED <<index, active, db, tip>>
  BY CheckParts
<1>2. PICK ok \in BOOLEAN :
         /\ Right /\ ChkTodo \cap Bad # {} => ~ok
         /\ views' = IF ok \/ ChkKept # {} THEN ChkEnded
                     ELSE SubSeq(ChkEnded, 1, Len(ChkBased))
         /\ mapCache' =
               [b \in (DOMAIN mapCache \cup {ChkFork} \cup (IF ok THEN {ChkP} ELSE {}))
                       \ (IF ok /\ ChkTodo # {}
                          THEN {Highest(ChkKept) : x \in ChkKept} ELSE {}) |->
                  IF b = ChkP /\ ok THEN ChkView
                  ELSE IF b = ChkFork THEN ChkBase ELSE mapCache[b]]
         /\ astray \subseteq astray'
         /\ Grows /\ ~ok => astray' # {}
         /\ Grows /\ (\E u \in 1..Len(ChkStart) : ChkStart[u].base = ChkView) => astray' # {}
         /\ ChkKept # {} /\ ChkStart[ChkView].built \notin Anc[ChkFork] => astray' # {}
  BY CheckParts
<1>3. astray = {} /\ ~misjudged /\ KeysAgree(views, mapCache)
  BY <1>2 DEF FInv
<1>4. InPlace
  BY <1>2 DEF InPlace
<1>5. NoneAbove
  <2>1. CASE Grows
    BY <1>2, <2>1 DEF NoneAbove
  <2>2. CASE ~Grows /\ ChkKept = {}
    BY <1>1, <1>3, <1>4, <2>2, StartSound DEF NoneAbove
  <2>3. CASE ~Grows /\ ChkKept # {}
    BY <2>3 DEF Grows, NoneAbove
  <2> QED
    BY <2>1, <2>2, <2>3
<1>6. Right
  BY <1>1, <1>3, <1>4, <1>5, RightHolds
<1>7. ok => ChkTodo \cap Bad = {}
  BY <1>2, <1>6
<1>8. ~ok /\ ChkKept # {} => ChkTodo = {}
  BY <1>2 DEF Grows
<1>9. ok \/ ChkKept # {} => ChkTodo \cap Bad = {}
  BY <1>7, <1>8
<1>10. SoundViews(views)'
  <2> DEFINE vs == views'
  <2>1. SoundViews(vs)
    <3>1. CASE ok \/ ChkKept # {}
      <4>1. SoundViews(ChkEnded)
        BY <1>1, <1>3, <1>4, <1>5, <1>9, <3>1, EndedSound
      <4> QED
        BY <1>2, <3>1, <4>1
    <3>2. CASE ~ok /\ ChkKept = {}
      <4>1. SoundViews(SubSeq(ChkEnded, 1, Len(ChkBased)))
        BY <1>1, <1>3, <3>2, ShortSound
      <4>2. vs = SubSeq(ChkEnded, 1, Len(ChkBased))
        BY <1>2, <3>2
      <4> HIDE DEF vs
      <4> QED
        BY <4>1, <4>2
    <3> QED
      BY <3>1, <3>2
  <2>2. vs = views' /\ db' = db
    BY <1>1
  <2> HIDE DEF vs
  <2> QED
    BY <2>1, <2>2, SoundNext
<1>11. KeysAgree(views, mapCache)'
  <2> DEFINE S == ChkStart
             E == ChkEnded
             N == Len(ChkBased)
             v == ChkView
  <2>1. /\ S[v].best = ChkFrom /\ S[ChkBase].best = ChkFork /\ ChkBase # v
    BY <1>1, <1>3, <1>4, StartSound
  <2>2. /\ N \in Nat /\ Len(views) <= N /\ Len(views) \in Nat /\ ChkBase \in 1..N
        /\ \A w \in 1..Len(views) : ChkBased[w] = views[w]
    BY <1>1, BasedType, FInvType DEF FInv, ViewsTyped
  <2>3. /\ v \in 1..Len(S) /\ N <= Len(S) /\ Len(S) \in Nat
        /\ \A w \in 1..N : S[w].best = ChkBased[w].best
        /\ ChkKept = {} => v = N + 1
        /\ ChkKept # {} => v = mapCache[ChkFrom] /\ v \in 1..Len(views)
    BY <1>1, StartType DEF ViewsTyped
  <2>4. /\ ViewsTyped(E) /\ Len(E) = Len(S) /\ E \in Seq(View)
        /\ \A w \in 1..Len(S) : w # v => E[w].best = S[w].best
    BY <1>1, EndedType DEF ViewsTyped
  <2>5. ok \/ ChkKept # {} => E[v].best = ChkP
    BY <1>1, <1>3, <1>4, <1>5, <1>9, EndedSound
  <2>6. \A w \in 1..N : views'[w] = E[w]
    <3>1. CASE ok \/ ChkKept # {}
      BY <1>2, <3>1
    <3>2. CASE ~ok /\ ChkKept = {}
      <4>1. views' = SubSeq(E, 1, N)
        BY <1>2, <3>2
      <4> HIDE DEF E, N, S, v
      <4>2. N \in 0..Len(E) /\ 1 \in 1..(N + 1)
        BY <2>2, <2>3, <2>4
      <4>3. \A w \in 1..N : SubSeq(E, 1, N)[w] = E[w]
        BY <2>2, <2>4, <4>2, SubSeqProperties
      <4> QED
        BY <4>1, <4>3
    <3> QED
      BY <3>1, <3>2
  <2>7. \A b \in DOMAIN mapCache : mapCache[b] \in 1..Len(views) /\ views[mapCache[b]].best = b
    BY <1>3, FInvType DEF KeysAgree, FInv
  <2>8. /\ ChkFrom \in Block /\ ChkFork # ChkP
        /\ ChkKept # {} => ChkFrom \in ChkKept /\ ChkFrom # ChkFork
                           /\ ChkFrom = Highest(ChkKept)
    BY <1>1, TodoIs DEF ChkFrom
  <2>9. ChkTodo = {} => ChkFrom = ChkP
    BY <1>1, TodoIs, CheckedBlock, TopOfAbove
  <2>10. ok => views' = E
    BY <1>2
  <2> HIDE DEF S, E, N, v
  <2>11. v = ChkView
    BY DEF v
  <2>12. ASSUME NEW b \in DOMAIN mapCache' PROVE views'[mapCache'[b]].best = b
    <3>1. /\ b \in DOMAIN mapCache \cup {ChkFork} \cup (IF ok THEN {ChkP} ELSE {})
          /\ ok /\ ChkTodo # {} => b \notin {Highest(ChkKept) : x \in ChkKept}
          /\ mapCache'[b] = IF b = ChkP /\ ok THEN v
                            ELSE IF b = ChkFork THEN ChkBase ELSE mapCache[b]
      BY <1>2, <2>11
    <3>2. CASE b = ChkP /\ ok
      BY <2>5, <2>10, <3>1, <3>2
    <3>3. CASE ~(b = ChkP /\ ok) /\ b = ChkFork
      <4>1. mapCache'[b] = ChkBase /\ ChkBase \in 1..Len(S)
        BY <2>2, <2>3, <3>1, <3>3
      <4>2. views'[ChkBase].best = S[ChkBase].best
        BY <2>1, <2>2, <2>4, <2>6, <4>1 DEF v
      <4>3. S[ChkBase].best = ChkFork
        BY <2>1 DEF S
      <4> QED
        BY <3>3, <4>1, <4>2, <4>3
    <3>4. CASE ~(b = ChkP /\ ok) /\ b # ChkFork
      <4>1. b \in DOMAIN mapCache /\ mapCache'[b] = mapCache[b]
        BY <3>1, <3>4
      <4> DEFINE w == mapCache[b]
      <4>2. w \in 1..Len(views) /\ views[w].best = b
        BY <2>7, <4>1
      <4> HIDE DEF w
      <4>3. w \in 1..N /\ w \in 1..Len(S)
        BY <2>2, <2>3, <4>2
      <4>4. S[w].best = b
        BY <2>2, <2>3, <4>2, <4>3
      <4>5. CASE w # v
        BY <2>4, <2>6, <4>1, <4>3, <4>4, <4>5 DEF w
      <4>6. CASE w = v
        <5>1. ChkKept # {}
          BY <2>2, <2>3, <4>3, <4>6
        <5>2. b = ChkFrom
          BY <2>1, <4>4, <4>6 DEF S, v
        <5>3. ChkTodo = {}
          <6>1. ok \/ ChkTodo = {}
            BY <1>8, <5>1
          <6>2. b \in {Highest(ChkKept) : x \in ChkKept}
            BY <2>8, <5>1, <5>2
          <6> QED
            BY <3>1, <6>1, <6>2
        <5>4. b = ChkP
          BY <2>9, <5>2, <5>3
        <5>5. views'[w].best = ChkP
          BY <2>5, <2>6, <4>3, <4>6, <5>1
        <5> QED
          BY <4>1, <5>4, <5>5 DEF w
      <4> QED
        BY <4>5, <4>6
    <3> QED
      BY <3>2, <3>3, <3>4
  <2> QED
    BY <2>12 DEF KeysAgree
<1> QED
  BY <1>1, <1>3, <1>6, <1>10, <1>11

(* The parts of the invariant that hold whatever went astray.              *)
LEMMA CheckKeepsTypes ==
    ASSUME FInv, CheckOnView
    PROVE  TypeOKFork' /\ QueueInOrder' /\ TipIsTruth'
<1>1. /\ queue # {} /\ NeedsView(Lowest(queue))
      /\ misjudged' = (misjudged \/ ~Right)
      /\ UNCHANGED <<index, active, db, tip>>
  BY CheckParts
<1>2. PICK ok \in BOOLEAN :
         /\ queue' = IF ok THEN queue \ {Lowest(queue)} ELSE {}
         /\ incoming' = IF ok THEN incoming ELSE Nil
         /\ views' = IF ok \/ ChkKept # {} THEN ChkEnded
                     ELSE SubSeq(ChkEnded, 1, Len(ChkBased))
         /\ mapCache' =
               [b \in (DOMAIN mapCache \cup {ChkFork} \cup (IF ok THEN {ChkP} ELSE {}))
                       \ (IF ok /\ ChkTodo # {}
                          THEN {Highest(ChkKept) : x \in ChkKept} ELSE {}) |->
                  IF b = ChkP /\ ok THEN ChkView
                  ELSE IF b = ChkFork THEN ChkBase ELSE mapCache[b]]
         /\ astray' \subseteq astray \cup Cause
  BY CheckParts
<1>3. TypeOKFork /\ QueueInOrder /\ TipIsTruth
  BY DEF FInv
<1>4. /\ ViewsTyped(ChkBased) /\ Len(ChkBased) \in Nat
      /\ Len(views) <= Len(ChkBased) /\ Len(views) \in Nat /\ ChkBase \in 1..Len(ChkBased)
      /\ \A w \in 1..Len(ChkBased) : ChkBased[w].base \in 0..Len(ChkBased)
  BY <1>1, BasedType, FInvType, ViewType DEF FInv, ViewsTyped
<1>5. /\ ViewsTyped(ChkStart) /\ ChkView \in 1..Len(ChkStart) /\ Len(ChkStart) \in Nat
      /\ Len(ChkBased) <= Len(ChkStart)
      /\ ChkKept = {} => \A w \in 1..Len(ChkBased) : ChkStart[w] = ChkBased[w]
  BY <1>1, StartType DEF ViewsTyped
<1>6. /\ ViewsTyped(ChkEnded) /\ Len(ChkEnded) = Len(ChkStart)
      /\ \A w \in 1..Len(ChkStart) : ChkEnded[w].base = ChkStart[w].base
  BY <1>1, EndedType
<1>7. ChkFork \in index /\ ChkP \in index
  BY <1>1, TodoIs, CheckedBlock
<1> DEFINE vs == views'
           N == Len(ChkBased)
<1>8. ViewsTyped(vs) /\ N <= Len(vs) /\ (ok => vs = ChkEnded) /\ Len(vs) \in Nat
  <2>1. CASE ok \/ ChkKept # {}
    BY <1>2, <1>5, <1>6, <2>1
  <2>2. CASE ~ok /\ ChkKept = {}
    <3> DEFINE R == SubSeq(ChkEnded, 1, N)
    <3>1. vs = R
      BY <1>2, <2>2
    <3>2. ChkEnded \in Seq(View) /\ N \in 0..Len(ChkEnded) /\ 1 \in 1..(N + 1)
      BY <1>4, <1>5, <1>6 DEF ViewsTyped
    <3>3. R \in Seq(View) /\ Len(R) = N /\ \A w \in 1..N : R[w] = ChkEnded[w]
      BY <1>4, <3>2, SubSeqProperties
    <3>4. \A w \in 1..N : w \in 1..Len(ChkStart) /\ ChkEnded[w].base \in 0..N
      BY <1>4, <1>5, <1>6, <2>2
    <3> HIDE DEF R, vs, N
    <3>5. ViewsTyped(R)
      BY <3>3, <3>4 DEF ViewsTyped
    <3> QED
      BY <1>4, <2>2, <3>1, <3>3, <3>5 DEF N
  <2> QED
    BY <2>1, <2>2
<1>9. /\ \A b \in DOMAIN mapCache' : b \in index /\ mapCache'[b] \in 1..Len(vs)
      /\ mapCache' = [b \in DOMAIN mapCache' |-> mapCache'[b]]
  <2>1. \A b \in DOMAIN mapCache : b \in index /\ mapCache[b] \in 1..Len(views)
    BY <1>3, FInvType
  <2>2. ASSUME NEW b \in DOMAIN mapCache' PROVE b \in index /\ mapCache'[b] \in 1..Len(vs)
    <3>1. /\ b \in DOMAIN mapCache \cup {ChkFork} \cup (IF ok THEN {ChkP} ELSE {})
          /\ mapCache'[b] = IF b = ChkP /\ ok THEN ChkView
                            ELSE IF b = ChkFork THEN ChkBase ELSE mapCache[b]
      BY <1>2
    <3> HIDE DEF vs
    <3>2. CASE b = ChkP /\ ok
      BY <1>5, <1>6, <1>7, <1>8, <3>1, <3>2
    <3>3. CASE ~(b = ChkP /\ ok) /\ b = ChkFork
      BY <1>4, <1>7, <1>8, <3>1, <3>3
    <3>4. CASE ~(b = ChkP /\ ok) /\ b # ChkFork
      <4>1. b \in DOMAIN mapCache /\ mapCache'[b] = mapCache[b]
        BY <3>1, <3>4
      <4> QED
        BY <1>4, <1>8, <2>1, <4>1
    <3> QED
      BY <3>2, <3>3, <3>4
  <2>3. mapCache' = [b \in DOMAIN mapCache' |-> mapCache'[b]]
    BY <1>2
  <2> QED
    BY <2>2, <2>3
<1>10. /\ vs \in Seq(View)
       /\ \A v \in 1..Len(vs) : vs[v].base \in 0..Len(vs)
       /\ mapCache' \in [DOMAIN mapCache' -> 1..Len(vs)] /\ DOMAIN mapCache' \subseteq index
  <2> DEFINE mc == mapCache'
  <2>1. /\ \A b \in DOMAIN mc : b \in index /\ mc[b] \in 1..Len(vs)
        /\ mc = [b \in DOMAIN mc |-> mc[b]]
    BY <1>9
  <2>2. ViewsTyped(vs)
    BY <1>8
  <2> HIDE DEF mc, vs
  <2>3. mc \in [DOMAIN mc -> 1..Len(vs)] /\ DOMAIN mc \subseteq index
    BY <2>1
  <2>4. vs \in Seq(View) /\ \A v \in 1..Len(vs) : vs[v].base \in 0..Len(vs)
    BY <2>2 DEF ViewsTyped
  <2> QED
    BY <2>3, <2>4 DEF mc
<1>11. /\ incoming' \in Block \cup {Nil} /\ queue' \in SUBSET Block
       /\ astray' \in SUBSET Cause /\ misjudged' \in BOOLEAN
  BY <1>1, <1>2, <1>3 DEF TypeOKFork
<1>12. TypeOKFork'
  <2>1. index' = index /\ active' = active /\ db' = db /\ tip' = tip
    BY <1>1
  <2>2. /\ index \in SUBSET Block /\ active \in index /\ db \in [Account -> Block]
        /\ tip \in [Account -> Block \cup {Unread}]
    BY <1>3 DEF TypeOKFork
  <2> QED
    BY <1>10, <1>11, <2>1, <2>2 DEF TypeOKFork
<1>13. QueueInOrder'
  <2>1. CASE ok
    <3>1. incoming # Nil
      BY <1>1, <1>3 DEF QueueInOrder
    <3> QED
      BY <1>1, <1>2, <1>3, <2>1, <3>1 DEF QueueInOrder
  <2>2. CASE ~ok
    BY <1>1, <1>2, <2>2 DEF QueueInOrder
  <2> QED
    BY <2>1, <2>2
<1>14. TipIsTruth'
  BY <1>1, <1>3 DEF TipIsTruth, Truth
<1> QED
  BY <1>12, <1>13, <1>14

(* The views are untouched or dropped, and the database with them.         *)
LEMMA WriteKeeps ==
    ASSUME FInv, NEW M \in [Account -> Block \cup {Unread}], NEW a \in Block, a \in index,
           \A k \in Account : Truth(a, k) = IF M[k] = Unread THEN db[k] ELSE M[k],
           active' = a, index' = index, incoming' = incoming, queue' = queue,
           WriteChainState(M)
    PROVE  FInv'
<1>1. TypeOKFork /\ QueueInOrder /\ db \in [Account -> Block] /\ Unread \notin Block
  BY FInvType, UnreadAssumption DEF FInv
<1>2. QueueInOrder'
  BY <1>1 DEF QueueInOrder
<1>3. CASE tip' = M /\ UNCHANGED <<db, viewVars, astray, misjudged>>
  <2>1. TypeOKFork'
    BY <1>1, <1>3 DEF TypeOKFork, viewVars
  <2>2. TipIsTruth'
    BY <1>3 DEF TipIsTruth, Truth
  <2>3. ASSUME astray' = {}
        PROVE  ~misjudged' /\ SoundViews(views)' /\ KeysAgree(views, mapCache)'
    <3>1. ~misjudged /\ SoundViews(views) /\ KeysAgree(views, mapCache)
      BY <1>3, <2>3 DEF FInv
    <3>2. views' = views /\ mapCache' = mapCache /\ db' = db /\ misjudged' = misjudged
      BY <1>3 DEF viewVars
    <3> QED
      BY <3>1, <3>2, SoundNext DEF KeysAgree
  <2> QED
    BY <1>2, <2>1, <2>2, <2>3 DEF FInv
<1>4. CASE tip' = NothingRead /\ db' = Flushed(M) /\ NoViews
  <2>1. db' \in [Account -> Block] /\ tip' \in [Account -> Block \cup {Unread}]
    BY <1>1, <1>4 DEF Flushed, NothingRead
  <2>2. /\ views' = <<>> /\ mapCache' = <<>> /\ astray' = {} /\ misjudged' = FALSE
    BY <1>4 DEF NoViews
  <2>3. TypeOKFork'
    <3>1. /\ <<>> \in Seq(View) /\ Len(<<>>) = 0 /\ 1..0 = {} /\ DOMAIN <<>> = {}
          /\ <<>> \in [DOMAIN <<>> -> 1..Len(<<>>)]
      OBVIOUS
    <3> QED
      BY <1>1, <2>1, <2>2, <3>1 DEF TypeOKFork
  <2>4. TipIsTruth'
    <3>1. \A k \in Account : db'[k] = Truth(a, k) /\ tip'[k] = Unread
      BY <1>4 DEF Flushed, NothingRead
    <3> QED
      BY <3>1 DEF TipIsTruth, Truth
  <2>5. SoundViews(views)' /\ KeysAgree(views, mapCache)'
    <3>1. Len(<<>>) = 0 /\ 1..0 = {} /\ DOMAIN <<>> = {}
      OBVIOUS
    <3>2. views' = <<>> /\ mapCache' = <<>>
      BY <2>2
    <3> QED
      BY <3>1, <3>2 DEF SoundViews, Labelled, KeysAgree
  <2> QED
    BY <1>2, <2>2, <2>3, <2>4, <2>5 DEF FInv
<1> QED
  BY <1>3, <1>4 DEF WriteChainState

(* The tip moves up: kept views stay, or all are dropped.                  *)
LEMMA ConnectTipStep ==
    ASSUME FInv, NEW b \in Block, ConnectTip(b)
    PROVE  FInv'
<1> DEFINE M == [k \in Account |-> IF k \in Writes[b] THEN b ELSE tip[k]]
<1>1. /\ b \in index /\ b # Genesis /\ Prev[b] = active /\ active' = b
      /\ WriteChainState(M) /\ index' = index /\ incoming' = incoming /\ queue' = queue
  BY DEF ConnectTip
<1>2. tip \in [Account -> Block \cup {Unread}] /\ Unread \notin Block /\ active \in Block
  BY FInvType, UnreadAssumption DEF FInv
<1>3. M \in [Account -> Block \cup {Unread}]
  BY <1>2
<1>4. ASSUME NEW k \in Account
      PROVE  Truth(b, k) = IF M[k] = Unread THEN db[k] ELSE M[k]
  <2>1. Anc[b] = Anc[active] \cup {b} /\ active \in Anc[b] /\ b \in Anc[b]
    BY <1>1, <1>2, ParentChain, OwnChain
  <2>2. CASE k \in Writes[b]
    <3>1. \A a \in Anc[b] : a \in Anc[b]
      OBVIOUS
    <3>2. Truth(b, k) = b
      BY <2>1, <2>2, TruthOnly
    <3> QED
      BY <1>2, <2>2, <3>2
  <2>3. CASE k \notin Writes[b]
    <3>1. Truth(b, k) = Truth(active, k)
      BY <2>1, <2>3, TruthKept
    <3>2. Truth(active, k) = IF tip[k] = Unread THEN db[k] ELSE tip[k]
      BY DEF FInv, TipIsTruth
    <3> QED
      BY <2>3, <3>1, <3>2
  <2> QED
    BY <2>2, <2>3
<1> HIDE DEF M
<1> QED
  BY <1>1, <1>3, <1>4, WriteKeeps

(* The tip moves down: the undo data hold what the accounts were.          *)
LEMMA DisconnectTipStep ==
    ASSUME FInv, DisconnectTip
    PROVE  FInv'
<1> DEFINE a == Prev[active]
           M == [k \in Account |-> IF k \in Writes[active] THEN Truth(a, k) ELSE tip[k]]
<1>1. /\ active # Genesis /\ active' = a
      /\ WriteChainState(M) /\ index' = index /\ incoming' = incoming /\ queue' = queue
  BY DEF DisconnectTip
<1>2. /\ tip \in [Account -> Block \cup {Unread}] /\ Unread \notin Block
      /\ active \in Block /\ active \in index
  BY FInvType, UnreadAssumption DEF FInv
<1>3. a \in Block /\ Anc[active] = Anc[a] \cup {active} /\ a \in Anc[active]
  BY <1>1, <1>2, ParentChain, OwnChain
<1>4. a \in index
  BY <1>2, <1>3 DEF FInv
<1> HIDE DEF a
<1>5. M \in [Account -> Block \cup {Unread}]
  BY <1>2, <1>3, TruthIs
<1>6. ASSUME NEW k \in Account
      PROVE  Truth(a, k) = IF M[k] = Unread THEN db[k] ELSE M[k]
  <2>1. CASE k \in Writes[active]
    BY <1>2, <1>3, <2>1, TruthIs
  <2>2. CASE k \notin Writes[active]
    <3>1. Truth(active, k) = Truth(a, k)
      BY <1>2, <1>3, <2>2, TruthKept
    <3>2. Truth(active, k) = IF tip[k] = Unread THEN db[k] ELSE tip[k]
      BY DEF FInv, TipIsTruth
    <3> QED
      BY <2>2, <3>1, <3>2
  <2> QED
    BY <2>1, <2>2
<1> HIDE DEF M
<1> QED
  BY <1>1, <1>3, <1>4, <1>5, <1>6, WriteKeeps

(* Only the database is written: views, if any, went astray.               *)
LEMMA FlushOnlyStep ==
    ASSUME FInv, FlushOnly
    PROVE  FInv'
<1>1. /\ tip' = NothingRead /\ db' = Flushed(tip)
      /\ astray' = IF views = <<>> THEN astray ELSE astray \cup {"undermined"}
      /\ index' = index /\ active' = active /\ views' = views /\ mapCache' = mapCache
      /\ incoming' = incoming /\ queue' = queue /\ misjudged' = misjudged
  BY DEF FlushOnly, treeVars, viewVars
<1>2. TypeOKFork /\ QueueInOrder /\ TipIsTruth /\ db \in [Account -> Block]
  BY FInvType DEF FInv
<1>3. db' \in [Account -> Block] /\ tip' \in [Account -> Block \cup {Unread}]
  BY <1>1, <1>2 DEF Flushed, NothingRead, TypeOKFork
<1>4. astray' \in SUBSET Cause
  BY <1>1, <1>2 DEF TypeOKFork, Cause
<1>5. TypeOKFork'
  BY <1>1, <1>2, <1>3, <1>4 DEF TypeOKFork
<1>6. QueueInOrder'
  BY <1>1, <1>2 DEF QueueInOrder
<1>7. TipIsTruth'
  <2>1. \A k \in Account : db'[k] = Truth(active, k) /\ tip'[k] = Unread
    BY <1>1, <1>2 DEF Flushed, NothingRead, TipIsTruth
  <2> QED
    BY <1>1, <2>1 DEF TipIsTruth, Truth
<1>8. ASSUME astray' = {}
      PROVE  ~misjudged' /\ SoundViews(views)' /\ KeysAgree(views, mapCache)'
  <2>1. views = <<>> /\ astray = {}
    BY <1>1, <1>8
  <2>2. ~misjudged /\ DOMAIN mapCache = {}
    <3>1. mapCache \in [DOMAIN mapCache -> 1..Len(views)] /\ 1..Len(views) = {}
      BY <1>2, <2>1 DEF TypeOKFork
    <3> QED
      BY <2>1, <3>1 DEF FInv
  <2>3. views' = <<>> /\ Len(<<>>) = 0 /\ 1..0 = {}
    BY <1>1, <2>1
  <2>4. SoundViews(views)'
    BY <2>3 DEF SoundViews, Labelled
  <2>5. KeysAgree(views, mapCache)'
    BY <1>1, <2>2 DEF KeysAgree
  <2> QED
    BY <1>1, <2>2, <2>4, <2>5
<1>9. Genesis \in index' /\ \A b \in index' : Anc[b] \subseteq index'
  BY <1>1 DEF FInv
<1> QED
  BY <1>5, <1>6, <1>7, <1>8, <1>9 DEF FInv

(* Steps that touch neither the views nor what is below them.              *)
LEMMA ViewsKept ==
    ASSUME FInv, UNCHANGED <<active, dataVars, viewVars, astray, misjudged>>,
           Genesis \in index', \A b \in index' : Anc[b] \subseteq index',
           TypeOKFork', QueueInOrder'
    PROVE  FInv'
<1>1. /\ active' = active /\ db' = db /\ tip' = tip /\ views' = views /\ mapCache' = mapCache
      /\ astray' = astray /\ misjudged' = misjudged
  BY DEF dataVars, viewVars
<1>2. TipIsTruth'
  BY <1>1 DEF FInv, TipIsTruth, Truth
<1>3. ASSUME astray' = {}
      PROVE  ~misjudged' /\ SoundViews(views)' /\ KeysAgree(views, mapCache)'
  <2>1. ~misjudged /\ SoundViews(views) /\ KeysAgree(views, mapCache)
    BY <1>1, <1>3 DEF FInv
  <2> QED
    BY <1>1, <2>1, SoundNext DEF KeysAgree
<1> QED
  BY <1>2, <1>3 DEF FInv

(* A block arrives, and nothing else changes.                              *)
LEMMA ArriveStep ==
    ASSUME FInv, NEW b \in Block, Arrive(b)
    PROVE  FInv'
<1>1. /\ b \notin index /\ Prev[b] \in index /\ incoming' = b
      /\ index' = index /\ active' = active
      /\ UNCHANGED <<active, dataVars, viewVars, astray, misjudged>>
  BY DEF Arrive, treeVars
<1>2. queue' \subseteq {b} \cup OffChain(Prev[b])
  BY DEF Arrive
<1>3. /\ TypeOKFork /\ Genesis \in index /\ active \in Block
      /\ \A c \in index : Anc[c] \subseteq index
  BY FInvType DEF FInv
<1>4. b # Genesis
  BY <1>1, <1>3
<1>5. Anc[b] = Anc[Prev[b]] \cup {b} /\ Anc[b] \subseteq Block /\ Genesis \in Anc[active]
  BY <1>3, <1>4, ParentChain, OwnChain
<1>6. queue' \subseteq Anc[b] \ {Genesis}
  BY <1>2, <1>4, <1>5 DEF OffChain
<1>7. QueueInOrder'
  <2>1. b # Nil
    BY TreeAssumption
  <2> QED
    BY <1>1, <1>6, <2>1 DEF QueueInOrder
<1>8. TypeOKFork'
  <2>1. queue' \in SUBSET Block /\ incoming' \in Block \cup {Nil}
    BY <1>1, <1>5, <1>6
  <2> QED
    BY <1>1, <1>3, <2>1 DEF TypeOKFork, dataVars, viewVars
<1>9. Genesis \in index' /\ \A c \in index' : Anc[c] \subseteq index'
  BY <1>1, <1>3
<1> QED
  BY <1>1, <1>7, <1>8, <1>9, ViewsKept

(* A block below the tip's work needs no view.                             *)
LEMMA CheckNothingStep ==
    ASSUME FInv, CheckNothing
    PROVE  FInv'
<1>1. /\ queue # {} /\ queue' = queue \ {Lowest(queue)} /\ incoming' = incoming
      /\ index' = index /\ active' = active
      /\ UNCHANGED <<active, dataVars, viewVars, astray, misjudged>>
  BY DEF CheckNothing, treeVars
<1>2. TypeOKFork /\ QueueInOrder
  BY DEF FInv
<1>3. QueueInOrder'
  BY <1>1, <1>2 DEF QueueInOrder
<1>4. TypeOKFork'
  BY <1>1, <1>2 DEF TypeOKFork, dataVars, viewVars
<1>5. Genesis \in index' /\ \A c \in index' : Anc[c] \subseteq index'
  BY <1>1 DEF FInv
<1> QED
  BY <1>1, <1>3, <1>4, <1>5, ViewsKept

(* The block enters the index above its parent.                            *)
LEMMA AcceptStep ==
    ASSUME FInv, Accept
    PROVE  FInv'
<1>1. /\ incoming # Nil /\ queue = {} /\ index' = index \cup {incoming} /\ incoming' = Nil
      /\ queue' = queue /\ active' = active
      /\ UNCHANGED <<active, dataVars, viewVars, astray, misjudged>>
  BY DEF Accept
<1>2. /\ TypeOKFork /\ incoming \in Block \ index /\ Prev[incoming] \in index
      /\ Genesis \in index /\ \A c \in index : Anc[c] \subseteq index
  BY <1>1 DEF FInv, QueueInOrder
<1>3. Anc[incoming] = Anc[Prev[incoming]] \cup {incoming}
  BY <1>2, ParentChain
<1>4. Genesis \in index' /\ \A c \in index' : Anc[c] \subseteq index'
  BY <1>1, <1>2, <1>3
<1>5. QueueInOrder'
  BY <1>1 DEF QueueInOrder
<1>6. TypeOKFork'
  <2>1. DOMAIN mapCache \subseteq index'
    BY <1>1, <1>2, FInvType
  <2> QED
    BY <1>1, <1>2, <2>1 DEF TypeOKFork, dataVars, viewVars
<1> QED
  BY <1>1, <1>4, <1>5, <1>6, ViewsKept

(* A check keeps the views sound or records what went astray.              *)
LEMMA CheckOnViewStep ==
    ASSUME FInv, CheckOnView
    PROVE  FInv'
<1>1. TypeOKFork' /\ QueueInOrder' /\ TipIsTruth'
  BY CheckKeepsTypes
<1>2. index' = index
  BY CheckParts
<1>3. Genesis \in index' /\ \A c \in index' : Anc[c] \subseteq index'
  BY <1>2 DEF FInv
<1> QED
  BY <1>1, <1>3, CheckKeepsViews DEF FInv

(* Every step keeps the invariant.                                         *)
LEMMA NextFInv == FInv /\ [NextFork]_forkVars => FInv'
<1> SUFFICES ASSUME FInv, [NextFork]_forkVars PROVE FInv'
  OBVIOUS
<1>1. ASSUME NEW b \in Block, ConnectTip(b) PROVE FInv'
  BY <1>1, ConnectTipStep
<1>2. ASSUME NEW b \in Block, Arrive(b) PROVE FInv'
  BY <1>2, ArriveStep
<1>3. CASE DisconnectTip
  BY <1>3, DisconnectTipStep
<1>4. CASE FlushOnly
  BY <1>4, FlushOnlyStep
<1>5. CASE CheckNothing
  BY <1>5, CheckNothingStep
<1>6. CASE CheckOnView
  BY <1>6, CheckOnViewStep
<1>7. CASE Accept
  BY <1>7, AcceptStep
<1>8. CASE UNCHANGED forkVars
  <2>1. /\ UNCHANGED <<index, active, dataVars, viewVars, astray, misjudged>>
        /\ UNCHANGED <<incoming, queue>>
    BY <1>8 DEF forkVars, treeVars
  <2>2. TypeOKFork' /\ QueueInOrder'
    BY <2>1 DEF FInv, TypeOKFork, QueueInOrder, dataVars, viewVars
  <2>3. Genesis \in index' /\ \A c \in index' : Anc[c] \subseteq index'
    BY <2>1 DEF FInv
  <2> QED
    BY <2>1, <2>2, <2>3, ViewsKept
<1> QED
  BY <1>1, <1>2, <1>3, <1>4, <1>5, <1>6, <1>7, <1>8 DEF NextFork

(* The views are sound unless something led them astray, in every run.     *)
THEOREM ForkInvariance == SpecFork => []FInv
BY InitFInv, NextFInv, PTL DEF SpecFork

(* TypeOKFork: the layers of views, the keys of g_mapCache and the queue   *)
(* of blocks to check stay what they are meant to be.                      *)
THEOREM ForkTypeCorrect == SpecFork => []TypeOKFork
<1>1. FInv => TypeOKFork
  BY DEF FInv
<1> QED
  BY <1>1, ForkInvariance, PTL

(* CheckBlockProofWorkWithCoinDay: a block of a branch is judged on the    *)
(* accounts as its own parent left them and at its parent's height, for    *)
(* every tree of blocks and every order of checks, moves of the tip and    *)
(* flushes, unless one of the four causes led a view astray.               *)
THEOREM BlocksJudgedOnParent == SpecFork => []JudgedOnParent
<1>1. FInv => JudgedOnParent
  BY DEF FInv, JudgedOnParent
<1> QED
  BY <1>1, ForkInvariance, PTL
=============================================================================
