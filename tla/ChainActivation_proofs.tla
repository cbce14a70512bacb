----------------------- MODULE ChainActivation_proofs -----------------------
(***************************************************************************)
(* ChainActivation for every tree of blocks, every order of arrival, every *)
(* assignment of verdicts and any number of crashes.                       *)
(***************************************************************************)
EXTENDS ChainActivation, FiniteSetTheorems, TLAPS

(* A block is recorded after its parent. *)
ParentsKnown == \A b \in index : Anc[b] \subseteq index

(* A failure flag, in memory or on disk, is never without a reason: the    *)
(* block or one below it really breaks a rule.                             *)
Doomed(b) == \E a \in Anc[b] : verdict[a] = "invalid"
FlagsJustified == ~misread => \A f \in failed \cup failedOnDisk : Doomed(f)

(* What can be connected is a candidate. *)
ConnectableIsCandidate ==
    ~misread => \A b \in index : Connectable(b) => b \in valid

(* The chain is one of those, in memory, in the view and on disk. *)
TipsConnectable == \A b \in {active, view, disk} : Connectable(b)

(* While the loops run, nothing that can be connected is better than where *)
(* they go.                                                                *)
NothingBetter(t) == \A b \in index : Connectable(b) => ~Less(t, b)
GoalIsBest ==
    pc = "activate" => mostWork # Nil /\ (~misread => NothingBetter(mostWork))

(* The inductive invariant.  BestValidTip speaks of a node at rest only:   *)
(* what carries it through an activation is GoalIsBest, and what makes     *)
(* FindMostWorkChain establish that again is that no flag and no removal   *)
(* ever touched a block that can be connected, until one is condemned      *)
(* because another could not be read.                                      *)
IInv ==
    /\ TypeOK
    /\ IsFiniteSet(index)
    /\ ParentsKnown
    /\ FlagsJustified
    /\ ConnectableIsCandidate
    /\ TipsConnectable
    /\ GoalIsBest
    /\ NoFailedCandidate
    /\ BestValidTip

-----------------------------------------------------------------------------
(* A block is in its own chain, and so is the genesis block. *)
LEMMA OwnChain ==
    ASSUME NEW b \in Block
    PROVE  b \in Anc[b] /\ Genesis \in Anc[b] /\ Anc[b] \subseteq Block
  BY TreeAssumption

(* The chain of an ancestor is part of the chain. *)
LEMMA ChainOfAncestor ==
    ASSUME NEW b \in Block, NEW a \in Anc[b]
    PROVE  Anc[a] \subseteq Anc[b]
  BY TreeAssumption

(* Of two blocks of one chain, one is an ancestor of the other. *)
LEMMA OneChain ==
    ASSUME NEW b \in Block, NEW a \in Anc[b], NEW c \in Anc[b], a \notin Anc[c]
    PROVE  c \in Anc[a]
  BY TreeAssumption

(* A block's chain is its parent's and itself. *)
LEMMA ParentChain ==
    ASSUME NEW b \in Block \ {Genesis}
    PROVE  /\ Prev[b] \in Block
           /\ Prev[b] \in Anc[b]
           /\ Anc[b] = {b} \cup Anc[Prev[b]]
  BY TreeAssumption

(* Two tips that contain each other are the same. *)
LEMMA SameTip ==
    ASSUME NEW a \in Block, NEW b \in Block, a \in Anc[b], b \in Anc[a]
    PROVE  a = b
<1>1. Work[a] \in Nat /\ Work[b] \in Nat
  BY TreeAssumption
<1>2. a # b => Work[a] < Work[b] /\ Work[b] < Work[a]
  BY TreeAssumption
<1> QED
  BY <1>1, <1>2

(* Whatever can be connected is not doomed, and carries no flag. *)
LEMMA ConnectableUnflagged ==
    ASSUME FlagsJustified, ~misread, NEW b, Connectable(b)
    PROVE  b \notin failed \cup failedOnDisk
  BY DEF FlagsJustified, Doomed, Connectable

(* Every block of a chain that can be connected can be. *)
LEMMA ConnectableAncestor ==
    ASSUME NEW b \in Block, Connectable(b), NEW a \in Anc[b]
    PROVE  Connectable(a)
  BY ChainOfAncestor DEF Connectable

(* CBlockIndexWorkComparator is a weak order: "not worse" is transitive. *)
LEMMA NotWorse ==
    ASSUME TypeOK,
           NEW a \in Block, NEW b \in Block, NEW c \in Block,
           ~Less(a, b), ~Less(b, c)
    PROVE  ~Less(a, c)
<1>1. /\ Work[a] \in Nat /\ Work[b] \in Nat /\ Work[c] \in Nat
      /\ seq[a] \in Nat /\ seq[b] \in Nat /\ seq[c] \in Nat
      /\ addr[a] \in Nat /\ addr[b] \in Nat /\ addr[c] \in Nat
  BY TreeAssumption, AddressAssumption DEF TypeOK
<1> QED
  BY <1>1 DEF Less

-----------------------------------------------------------------------------
(* The first chain, of the genesis block alone. *)
LEMMA InitIInv == Init => IInv
<1> SUFFICES ASSUME Init PROVE IInv
  OBVIOUS
<1> USE DEF Init, Stuck
<1>1. Genesis \in Block /\ Anc[Genesis] = {Genesis}
  BY TreeAssumption
<1>2. verdict[Genesis] = "valid"
  BY VerdictAssumption
<1>3. TypeOK
  <2>1. seq \in [Block -> Nat] /\ crashes \in 0..MaxCrashes
    BY MaxCrashesAssumption
  <2> QED
    BY <1>1, <2>1 DEF TypeOK, Pool, Pc
<1>4. IsFiniteSet(index)
  BY FS_Singleton
<1>5. ParentsKnown /\ FlagsJustified /\ NoFailedCandidate /\ GoalIsBest
  BY <1>1 DEF ParentsKnown, FlagsJustified, NoFailedCandidate, GoalIsBest
<1>6. ConnectableIsCandidate /\ TipsConnectable
  BY <1>1, <1>2 DEF ConnectableIsCandidate, TipsConnectable, Connectable
<1>7. ~Less(Genesis, Genesis)
  BY TreeAssumption, AddressAssumption DEF Less
<1>8. BestValidTip
  BY <1>7 DEF BestValidTip
<1> QED
  BY <1>3, <1>4, <1>5, <1>6, <1>8 DEF IInv

(* A status is written to disk as it is in memory. *)
LEMMA WriteStatusKeepsFlags ==
    ASSUME NEW blocks, WriteStatus(blocks)
    PROVE  failedOnDisk' \subseteq failed \cup failedOnDisk
  BY DEF WriteStatus, Written

(* Executing blocks again only takes flags away from memory, and writes    *)
(* none that was not there.                                                *)
LEMMA RecheckKeepsFlags ==
    ASSUME IInv, NEW blocks, Recheck(blocks), UNCHANGED <<verdict, misread>>
    PROVE  /\ failed' \subseteq failed
           /\ failedOnDisk' \subseteq failed \cup failedOnDisk
           /\ FlagsJustified'
  BY WriteStatusKeepsFlags DEF IInv, Recheck, FlagsJustified, Doomed

(* A new block. *)
LEMMA AddToBlockIndexIInv ==
    ASSUME IInv, NEW b \in Block \ {Genesis}, AddToBlockIndex(b)
    PROVE  IInv'
<1> USE DEF AddToBlockIndex, CanArrive
<1>1. PICK blocks : Recheck(blocks)
  OBVIOUS
<1>2. /\ failed' \subseteq failed
      /\ failedOnDisk' \subseteq failed \cup failedOnDisk
      /\ FlagsJustified'
  BY <1>1, RecheckKeepsFlags
<1>3. Cardinality({c \in index : seq[c] > 0}) \in Nat
  BY FS_Subset, FS_CardinalityType DEF IInv
<1>4. TypeOK'
  BY <1>2, <1>3 DEF IInv, TypeOK, Pc
<1>5. IsFiniteSet(index')
  BY FS_AddElement DEF IInv
<1>6. ParentsKnown'
  BY ParentChain DEF IInv, ParentsKnown
<1>7. ConnectableIsCandidate' /\ TipsConnectable'
  BY DEF IInv, ConnectableIsCandidate, TipsConnectable, Connectable
<1>8. NoFailedCandidate'
  BY <1>2 DEF IInv, TypeOK, NoFailedCandidate
<1>9. GoalIsBest' /\ BestValidTip'
  BY DEF GoalIsBest, BestValidTip
<1> QED
  BY <1>2, <1>4, <1>5, <1>6, <1>7, <1>8, <1>9 DEF IInv

(* A block that is not let in. *)
LEMMA RefuseBlockIInv ==
    ASSUME IInv, NEW b \in Block \ {Genesis}, RefuseBlock(b)
    PROVE  IInv'
<1> USE DEF RefuseBlock, CanArrive
<1>1. PICK blocks : Recheck(blocks)
  OBVIOUS
<1>2. /\ failed' \subseteq failed
      /\ failedOnDisk' \subseteq failed \cup failedOnDisk
      /\ FlagsJustified'
  BY <1>1, RecheckKeepsFlags
<1>3. TypeOK' /\ IsFiniteSet(index')
  BY <1>2 DEF IInv, TypeOK
<1>4. ParentsKnown' /\ ConnectableIsCandidate' /\ TipsConnectable'
  BY DEF IInv, ParentsKnown, ConnectableIsCandidate, TipsConnectable, Connectable
<1>5. NoFailedCandidate'
  BY <1>2 DEF IInv, NoFailedCandidate
<1>6. GoalIsBest'
  BY DEF GoalIsBest
<1>7. BestValidTip'
  BY DEF IInv, BestValidTip, AllJudged, Connectable, Less
<1> QED
  BY <1>2, <1>3, <1>4, <1>5, <1>6, <1>7 DEF IInv

-----------------------------------------------------------------------------
(* What the second loop of FindMostWorkChain marks is above a flagged      *)
(* block, hence doomed as well.                                            *)
LEMMA MarkedIsDoomed ==
    ASSUME IInv, NEW c \in index, ~Clean(c), NEW a \in AboveFailure(c)
    PROVE  a \in index /\ (~misread => Doomed(a))
<1>1. a \in Anc[c] /\ Anc[c] \subseteq index /\ c \in Block /\ index \subseteq Block
  BY DEF IInv, TypeOK, ParentsKnown, AboveFailure, OffChain
<1>2. PICK f \in OffChain(c) \cap failed : a \notin Anc[f]
  BY DEF Clean, AboveFailure, Contains
<1>3. f \in Anc[a]
  BY <1>1, <1>2, OneChain DEF OffChain
<1>4. ASSUME ~misread PROVE Doomed(a)
  <2>1. PICK bad \in Anc[f] : verdict[bad] = "invalid"
    BY <1>2, <1>4 DEF IInv, FlagsJustified, Doomed
  <2>2. bad \in Anc[a]
    BY <1>1, <1>3, <2>1, ChainOfAncestor
  <2> QED
    BY <2>1, <2>2 DEF Doomed
<1> QED
  BY <1>1, <1>4

(* Neither loop of FindMostWorkChain loses a block that can be connected,  *)
(* and the chain it settles on is the best of them.                        *)
LEMMA FindMostWorkChainIInv ==
    ASSUME IInv, FindMostWorkChain
    PROVE  IInv'
<1> DEFINE popped == IF mostWork = Nil THEN {} ELSE Popped(mostWork)
           left   == IF mostWork = Nil THEN {} ELSE Anc[mostWork] \ popped
           stays  == valid \ popped
           skipped(best) == {c \in stays : Less(best, c)}
           marked(best)  == UNION {AboveFailure(c) : c \in skipped(best)}
<1>1. PICK best \in stays, t \in left \cup {Nil} :
          /\ Clean(best)
          /\ \A c \in skipped(best) : ~Clean(c) /\ c \notin failed
          /\ failed' = failed \cup marked(best)
          /\ valid' = stays \ marked(best)
          /\ mostWork' = Pick(t, best)
  BY Zenon DEF FindMostWorkChain
<1>2. /\ pc' = "activate" /\ stuck' = IF stuck = "now" THEN "before" ELSE stuck
      /\ UNCHANGED <<index, seq, addr, failedOnDisk, active, view, disk, pool,
                     halting, misread, crashes, verdict>>
  BY DEF FindMostWorkChain
<1>3. index \subseteq Block /\ valid \subseteq index /\ best \in index
  BY <1>1 DEF IInv, TypeOK
<1>4. t # Nil => t \in index
  BY <1>1 DEF IInv, TypeOK, ParentsKnown
<1>5. popped \subseteq failed
  BY TreeAssumption DEF IInv, TypeOK, Popped, Contains
<1>6. \A a \in marked(best) : a \in index /\ (~misread => Doomed(a))
  BY <1>1, <1>3, MarkedIsDoomed
<1> HIDE DEF popped, left, stays, marked, skipped
<1>7. FlagsJustified'
  <2>1. ~misread => \A f \in failed \cup marked(best) \cup failedOnDisk : Doomed(f)
    BY <1>6 DEF IInv, FlagsJustified
  <2> QED
    BY <1>1, <1>2, <2>1 DEF FlagsJustified, Doomed
<1>8. TypeOK' /\ IsFiniteSet(index')
  <2>1. mostWork' \in index /\ failed' \subseteq index /\ valid' \subseteq index
    BY <1>1, <1>3, <1>4, <1>6 DEF Pick, IInv, TypeOK, stays
  <2> QED
    BY <1>2, <2>1 DEF IInv, TypeOK, Pc, Stuck
<1>9. ParentsKnown' /\ TipsConnectable' /\ BestValidTip'
  BY <1>2 DEF IInv, ParentsKnown, TipsConnectable, Connectable, BestValidTip
<1>10. ASSUME ~misread, NEW b \in index, Connectable(b)
       PROVE  b \in stays /\ b \notin marked(best) /\ Clean(b)
  <2>1. b \in valid /\ b \notin failed /\ ~Doomed(b)
    BY <1>10, ConnectableUnflagged
       DEF IInv, ConnectableIsCandidate, Doomed, Connectable
  <2>2. \A a \in Anc[b] : a \notin failed
    BY <1>3, <1>10, ConnectableAncestor, ConnectableUnflagged DEF IInv
  <2> QED
    BY <1>5, <1>6, <1>10, <2>1, <2>2 DEF stays, Clean, OffChain
<1>11. ConnectableIsCandidate'
  BY <1>1, <1>2, <1>10 DEF ConnectableIsCandidate, Connectable
<1>12. NoFailedCandidate'
  BY <1>1 DEF IInv, NoFailedCandidate, stays
<1>13. ~misread => NothingBetter(best)
  BY <1>1, <1>10 DEF NothingBetter, skipped
<1>14. ~misread => NothingBetter(Pick(t, best))
  <2>1. CASE t # Nil /\ ~Less(t, best)
    BY <1>3, <1>4, <1>13, <2>1, NotWorse DEF IInv, NothingBetter, Pick
  <2>2. CASE ~(t # Nil /\ ~Less(t, best))
    BY <1>13, <2>2 DEF Pick
  <2> QED
    BY <2>1, <2>2
<1>15. Pick(t, best) # Nil
  BY <1>3, TreeAssumption DEF Pick
<1>16. GoalIsBest'
  BY <1>1, <1>2, <1>14, <1>15 DEF GoalIsBest, NothingBetter, Connectable, Less
<1> QED
  BY <1>7, <1>8, <1>9, <1>11, <1>12, <1>16 DEF IInv

-----------------------------------------------------------------------------
(* One block back.  The genesis block is never disconnected: every chain   *)
(* contains it.                                                            *)
LEMMA DisconnectTipIInv ==
    ASSUME IInv, DisconnectTip
    PROVE  IInv'
<1> USE DEF DisconnectTip
<1>1. active \in Block /\ mostWork \in Block /\ active # Genesis
  BY OwnChain DEF IInv, TypeOK, GoalIsBest, Contains
<1>2. /\ Prev[active] \in index
      /\ Connectable(Prev[active])
  BY <1>1, ParentChain, ConnectableAncestor
     DEF IInv, TypeOK, ParentsKnown, TipsConnectable
<1>3. disk' \in index /\ (disk' = disk \/ disk' = Prev[active])
  BY <1>2 DEF IInv, TypeOK, WriteChainState
<1>4. pool' \in Pool
  BY DEF MovePool, Pool
<1>5. TypeOK' /\ IsFiniteSet(index')
  BY <1>2, <1>3, <1>4 DEF IInv, TypeOK
<1>6. TipsConnectable'
  BY <1>2, <1>3 DEF IInv, TipsConnectable, Connectable
<1>7. /\ ParentsKnown' /\ FlagsJustified' /\ ConnectableIsCandidate'
      /\ NoFailedCandidate' /\ BestValidTip'
  BY DEF IInv, ParentsKnown, FlagsJustified, Doomed, ConnectableIsCandidate,
         Connectable, NoFailedCandidate, BestValidTip
<1>8. GoalIsBest'
  BY DEF IInv, GoalIsBest, NothingBetter, Connectable, Less
<1> QED
  BY <1>5, <1>6, <1>7, <1>8 DEF IInv

(* The block the second loop takes extends a chain that can be connected.  *)
LEMMA NextExtends ==
    ASSUME IInv, NEW b, IsNext(b), verdict[b] = "valid"
    PROVE  b \in index /\ Connectable(b)
<1>1. mostWork \in index /\ b \in index /\ b \in Block \ {Genesis}
  BY DEF IInv, TypeOK, ParentsKnown, GoalIsBest, IsNext
<1>2. Anc[b] = {b} \cup Anc[active]
  BY <1>1, ParentChain DEF IsNext
<1> QED
  BY <1>1, <1>2 DEF IInv, TipsConnectable, Connectable

(* One block forward. *)
LEMMA ConnectTipIInv ==
    ASSUME IInv, NEW b, ConnectTip(b)
    PROVE  IInv'
<1> USE DEF ConnectTip
<1>1. b \in index /\ Connectable(b)
  BY NextExtends
<1>2. disk' \in index /\ (disk' = disk \/ disk' = b)
  BY <1>1 DEF IInv, TypeOK, WriteChainState
<1>3. pool' \in Pool
  BY DEF MovePool, Pool
<1>4. failedOnDisk' \subseteq failed \cup failedOnDisk
  BY WriteStatusKeepsFlags
<1>5. TypeOK' /\ IsFiniteSet(index')
  BY <1>1, <1>2, <1>3, <1>4 DEF IInv, TypeOK
<1>6. TipsConnectable'
  BY <1>1, <1>2 DEF IInv, TipsConnectable, Connectable
<1>7. /\ ParentsKnown' /\ FlagsJustified' /\ ConnectableIsCandidate'
      /\ NoFailedCandidate' /\ BestValidTip'
  BY <1>4 DEF IInv, ParentsKnown, FlagsJustified, Doomed, ConnectableIsCandidate,
         Connectable, NoFailedCandidate, BestValidTip, IsNext
<1>8. GoalIsBest'
  BY DEF IInv, GoalIsBest, NothingBetter, Connectable, Less
<1> QED
  BY <1>5, <1>6, <1>7, <1>8 DEF IInv

(* A block that breaks a rule is marked, and was not one that can be       *)
(* connected.                                                              *)
LEMMA ConnectInvalidIInv ==
    ASSUME IInv, NEW b \in index, ConnectInvalid(b)
    PROVE  IInv'
<1> USE DEF ConnectInvalid, InvalidBlockFound
<1>1. b \in Anc[b]
  BY OwnChain DEF IInv, TypeOK
<1>2. TypeOK' /\ IsFiniteSet(index')
  BY DEF IInv, TypeOK, Pc
<1>3. FlagsJustified'
  BY <1>1 DEF IInv, FlagsJustified, Doomed
<1>4. ConnectableIsCandidate'
  BY <1>1 DEF IInv, ConnectableIsCandidate, Connectable
<1>5. NoFailedCandidate'
  BY DEF IInv, NoFailedCandidate
<1>6. ParentsKnown' /\ TipsConnectable' /\ GoalIsBest' /\ BestValidTip'
  BY DEF IInv, ParentsKnown, TipsConnectable, Connectable, GoalIsBest, BestValidTip
<1> QED
  BY <1>2, <1>3, <1>4, <1>5, <1>6 DEF IInv

(* A block condemned because another could not be read: from then on only  *)
(* the types and what the tips are is kept.                                *)
LEMMA MatureBlockUnreadableIInv ==
    ASSUME IInv, NEW b \in index, MatureBlockUnreadable(b)
    PROVE  IInv'
<1> USE DEF MatureBlockUnreadable, InvalidBlockFound
<1>1. TypeOK' /\ IsFiniteSet(index')
  BY DEF IInv, TypeOK, Pc
<1>2. NoFailedCandidate'
  BY DEF IInv, NoFailedCandidate
<1>3. ParentsKnown' /\ TipsConnectable'
  BY DEF IInv, ParentsKnown, TipsConnectable, Connectable
<1>4. /\ FlagsJustified' /\ ConnectableIsCandidate' /\ GoalIsBest' /\ BestValidTip'
  BY DEF FlagsJustified, ConnectableIsCandidate, GoalIsBest, BestValidTip
<1> QED
  BY <1>1, <1>2, <1>3, <1>4 DEF IInv

(* What all conjuncts but GoalIsBest and BestValidTip are about is left    *)
(* alone when an activation ends, well or not.                             *)
LEMMA EndKeeps ==
    ASSUME IInv,
           UNCHANGED <<index, seq, addr, valid, failed, failedOnDisk, active,
                       mostWork, disk, pool, misread, crashes, verdict>>,
           view' \in index, Connectable(view'),
           pc' = "idle", halting' \in BOOLEAN, stuck' \in Stuck
    PROVE  /\ TypeOK' /\ IsFiniteSet(index') /\ ParentsKnown' /\ FlagsJustified'
           /\ ConnectableIsCandidate' /\ TipsConnectable' /\ GoalIsBest'
           /\ NoFailedCandidate'
<1>1. TypeOK' /\ IsFiniteSet(index')
  BY DEF IInv, TypeOK, Pc
<1>2. ParentsKnown' /\ FlagsJustified' /\ NoFailedCandidate' /\ GoalIsBest'
  BY DEF IInv, ParentsKnown, FlagsJustified, Doomed, NoFailedCandidate, GoalIsBest
<1>3. ConnectableIsCandidate' /\ TipsConnectable'
  BY DEF IInv, ConnectableIsCandidate, TipsConnectable, Connectable
<1> QED
  BY <1>1, <1>2, <1>3

(* The end of an activation that succeeds. *)
LEMMA ActivatedIInv ==
    ASSUME IInv, Activated
    PROVE  IInv'
<1> USE DEF Activated
<1>1. active = mostWork
  BY SameTip DEF IInv, TypeOK, GoalIsBest, Contains
<1>2. BestValidTip'
  BY <1>1 DEF IInv, GoalIsBest, NothingBetter, BestValidTip, Connectable, Less
<1> QED
  BY <1>2, EndKeeps DEF IInv, TypeOK, TipsConnectable

(* The end of one that came upon a block it could not disconnect: where it *)
(* was going to is still the best chain.                                   *)
LEMMA UndoFailsIInv ==
    ASSUME IInv, UndoFails
    PROVE  IInv'
<1> USE DEF UndoFails
<1>1. stuck' \in Stuck
  BY DEF Stuck
<1>2. BestValidTip'
  BY DEF IInv, GoalIsBest, NothingBetter, BestValidTip, Connectable, Less, Contains
<1> QED
  BY <1>1, <1>2, EndKeeps DEF IInv, TypeOK, TipsConnectable

(* The end of one that came upon a block without a verdict. *)
LEMMA ConnectUnjudgedIInv ==
    ASSUME IInv, NEW b \in index, ConnectUnjudged(b)
    PROVE  IInv'
<1> USE DEF ConnectUnjudged
<1>1. BestValidTip'
  BY DEF BestValidTip, AllJudged
<1> QED
  BY <1>1, EndKeeps DEF IInv, TypeOK, TipsConnectable

(* The ends that ask for a shutdown. *)
LEMMA FailureIInv ==
    ASSUME IInv, ReadFails \/ \E b \in index : WriteFails(b)
    PROVE  IInv'
<1>1. CASE ReadFails
  <2>1. BestValidTip'
    BY <1>1 DEF ReadFails, BestValidTip
  <2> QED
    BY <1>1, <2>1, EndKeeps DEF ReadFails, IInv, TypeOK, TipsConnectable
<1>2. ASSUME NEW b \in index, WriteFails(b)
      PROVE  IInv'
  <2> USE <1>2 DEF WriteFails
  <2>1. Connectable(b)
    <3>1. CASE IsNext(b) /\ verdict[b] = "valid" /\ WriteStatus({b})
      BY <3>1, NextExtends
    <3>2. CASE ~Contains(mostWork, active) /\ b = Prev[active]
      <4>1. active \in Block \ {Genesis}
        BY <3>2, OwnChain DEF IInv, TypeOK, GoalIsBest, Contains
      <4> QED
        BY <3>2, <4>1, ParentChain, ConnectableAncestor DEF IInv, TipsConnectable
    <3> QED
      BY <3>1, <3>2
  <2>2. disk' \in index /\ (disk' = disk \/ disk' = b)
    BY DEF IInv, TypeOK, WriteChainState
  <2>3. failedOnDisk' \subseteq failed \cup failedOnDisk
    BY WriteStatusKeepsFlags
  <2>4. TypeOK' /\ IsFiniteSet(index')
    BY <2>2, <2>3 DEF IInv, TypeOK, Pc
  <2>5. TipsConnectable'
    BY <2>1, <2>2 DEF IInv, TipsConnectable, Connectable
  <2>6. /\ ParentsKnown' /\ FlagsJustified' /\ ConnectableIsCandidate'
        /\ NoFailedCandidate' /\ GoalIsBest' /\ BestValidTip'
    BY <2>3 DEF IInv, ParentsKnown, FlagsJustified, Doomed, ConnectableIsCandidate,
           Connectable, NoFailedCandidate, GoalIsBest, BestValidTip
  <2> QED
    BY <2>4, <2>5, <2>6 DEF IInv
<1> QED
  BY <1>1, <1>2

-----------------------------------------------------------------------------
(* The process goes: what is on disk is enough to start from.              *)
LEMMA GoneIInv ==
    ASSUME IInv, Gone, disk' \in {disk, view}, crashes' \in 0..MaxCrashes
    PROVE  IInv'
<1> USE DEF Gone
<1>1. TypeOK' /\ IsFiniteSet(index')
  <2>1. seq' \in [Block -> Nat]
    OBVIOUS
  <2> QED
    BY <2>1 DEF IInv, TypeOK, Pc, Pool, Stuck
<1>2. TipsConnectable'
  BY DEF IInv, TipsConnectable, Connectable
<1>3. FlagsJustified'
  BY DEF IInv, FlagsJustified, Doomed
<1>4. ConnectableIsCandidate'
  BY ConnectableUnflagged DEF IInv, ConnectableIsCandidate, Connectable
<1>5. NoFailedCandidate' /\ ParentsKnown' /\ GoalIsBest' /\ BestValidTip'
  BY DEF IInv, NoFailedCandidate, ParentsKnown, GoalIsBest, BestValidTip
<1> QED
  BY <1>1, <1>2, <1>3, <1>4, <1>5 DEF IInv

(* The bound on the number of deaths is the only use of the counter. *)
LEMMA OneMoreCrash ==
    ASSUME TypeOK, crashes < MaxCrashes, crashes' = crashes + 1
    PROVE  crashes' \in 0..MaxCrashes
  BY MaxCrashesAssumption DEF TypeOK

LEMMA DeathIInv ==
    ASSUME IInv, Shutdown \/ Die
    PROVE  IInv'
<1>1. CASE Shutdown
  BY <1>1, GoneIInv, OneMoreCrash DEF IInv, Shutdown
<1>2. CASE Die
  BY <1>2, GoneIInv, OneMoreCrash DEF IInv, Die
<1> QED
  BY <1>1, <1>2

(* The process comes back, its objects at other addresses. *)
LEMMA RestartIInv ==
    ASSUME IInv, Restart
    PROVE  IInv'
<1> USE DEF Restart
<1>1. TypeOK' /\ IsFiniteSet(index')
  BY DEF IInv, TypeOK, Pc
<1>2. /\ ParentsKnown' /\ FlagsJustified' /\ ConnectableIsCandidate'
      /\ TipsConnectable' /\ NoFailedCandidate' /\ GoalIsBest' /\ BestValidTip'
  BY DEF IInv, ParentsKnown, FlagsJustified, Doomed, ConnectableIsCandidate,
         TipsConnectable, Connectable, NoFailedCandidate, GoalIsBest, BestValidTip
<1> QED
  BY <1>1, <1>2 DEF IInv

(* Steps that leave the chain alone: a transaction for the mempool, or     *)
(* nothing at all.                                                         *)
LEMMA SameChainIInv ==
    ASSUME IInv, AcceptToMemoryPool \/ UNCHANGED vars
    PROVE  IInv'
<1>1. UNCHANGED <<index, seq, addr, valid, failed, failedOnDisk, active, mostWork,
                  view, disk, pc, halting, stuck, misread, crashes, verdict>>
  BY DEF AcceptToMemoryPool, vars
<1>2. pool' \in Pool
  BY DEF AcceptToMemoryPool, vars, Pool, IInv, TypeOK
<1>3. TypeOK' /\ IsFiniteSet(index')
  BY <1>1, <1>2 DEF IInv, TypeOK
<1>4. /\ ParentsKnown' /\ FlagsJustified' /\ ConnectableIsCandidate'
      /\ TipsConnectable' /\ NoFailedCandidate'
  BY <1>1 DEF IInv, ParentsKnown, FlagsJustified, Doomed, ConnectableIsCandidate,
              TipsConnectable, Connectable, NoFailedCandidate
<1>5. GoalIsBest' /\ BestValidTip'
  BY <1>1 DEF IInv, GoalIsBest, NothingBetter, BestValidTip, AllJudged, Connectable, Less
<1> QED
  BY <1>3, <1>4, <1>5 DEF IInv

-----------------------------------------------------------------------------
(* IInv holds whatever arrives, fails and dies. *)
THEOREM Invariance == Spec => []IInv
<1>1. ASSUME IInv, [Next]_vars
      PROVE  IInv'
  <2>1. CASE Activation
    BY <1>1, <2>1, FindMostWorkChainIInv, DisconnectTipIInv, ConnectTipIInv,
       ConnectInvalidIInv, ConnectUnjudgedIInv, ActivatedIInv, DeathIInv
       DEF Activation, AssertionFails
  <2>2. CASE \E b \in Block \ {Genesis} : AddToBlockIndex(b) \/ RefuseBlock(b)
    BY <1>1, <2>2, AddToBlockIndexIInv, RefuseBlockIInv
  <2>3. CASE UndoFails \/ ReadFails \/ \E b \in index : MatureBlockUnreadable(b) \/ WriteFails(b)
    BY <1>1, <2>3, UndoFailsIInv, MatureBlockUnreadableIInv, FailureIInv
  <2>4. CASE Shutdown \/ Die \/ Restart
    BY <1>1, <2>4, DeathIInv, RestartIInv
  <2>5. CASE AcceptToMemoryPool \/ UNCHANGED vars
    BY <1>1, <2>5, SameChainIInv
  <2> QED
    BY <1>1, <2>1, <2>2, <2>3, <2>4, <2>5 DEF Next
<1> QED
  BY <1>1, InitIInv, PTL DEF Spec

(* Every variable keeps its type. *)
THEOREM TypeCorrect == Spec => []TypeOK
<1>1. IInv => TypeOK
  BY DEF IInv
<1> QED
  BY <1>1, Invariance, PTL

(* A node at rest wants the best chain it knows that passes ConnectBlock,  *)
(* and is on it, unless a block of its own could not be disconnected.      *)
THEOREM BestChain == Spec => []BestValidTip
<1>1. IInv => BestValidTip
  BY DEF IInv
<1> QED
  BY <1>1, Invariance, PTL

(* FindMostWorkChain never meets a candidate it could not remove.          *)
THEOREM CandidatesNotFailed == Spec => []NoFailedCandidate
<1>1. IInv => NoFailedCandidate
  BY DEF IInv
<1> QED
  BY <1>1, Invariance, PTL

(* The walk of FindMostWorkChain may stop at the active chain: nothing in  *)
(* it is marked, in memory or on disk.                                     *)
THEOREM ActiveChainUnmarked == Spec => []ActiveNeverFailed
<1>1. ASSUME IInv PROVE ActiveNeverFailed
  <2>1. \A b \in Anc[active] : Connectable(b)
    BY <1>1, ConnectableAncestor DEF IInv, TypeOK, TipsConnectable
  <2> QED
    BY <1>1, <2>1, ConnectableUnflagged DEF IInv, ActiveNeverFailed
<1> QED
  BY <1>1, Invariance, PTL

-----------------------------------------------------------------------------
(* The mempool.  ReScanMemPoolTx runs only when a loop of ActivateBestChain *)
(* is through, so that the pool is out of step after a branch failed half  *)
(* way.  It ends in step because the chain then moves once more: the tip   *)
(* is never at the best chain there is when that happens.                  *)

(* The chain that will be active in the end. *)
IsGoal(b) == Connectable(b) /\ NothingBetter(b)

(* What may still be tried. *)
Targets == valid \cup {mostWork}

(* The tip is not at the goal with a pool out of step. *)
PoolMovesOn == \A b \in index : IsGoal(b) /\ pool = "stale" => active # b

(* What lies above the goal is tried from the goal, not on the way to it. *)
TriedFromGoal ==
    \A b \in index, x \in Targets : IsGoal(b) /\ b \in Anc[x] /\ x # b => active = b

(* Only the newest block, and what is left of its branch, is better. *)
OneBranchToTry ==
    \A b \in index : IsGoal(b) =>
        \E n \in index : \A x \in Targets : Less(b, x) => x \in Anc[n]

(* The invariant, for as long as PoolCheckedAfterReorg promises something. *)
Promised == AllJudged /\ ~misread /\ crashes = 0 /\ stuck = "never" /\ ~halting
ReorgInv ==
    Promised =>
        /\ pc # "down"
        /\ mostWork \in index
        /\ pc # "find" => \A c \in valid : ~Less(mostWork, c)
        /\ pc = "idle" => mostWork = active /\ pool # "stale"
        /\ pc \in {"find", "activate"} => PoolMovesOn /\ TriedFromGoal /\ OneBranchToTry

(* The comparator is total: no two objects are at one address. *)
LEMMA OneIsBetter ==
    ASSUME TypeOK, NEW a \in Block, NEW b \in Block, ~Less(a, b), ~Less(b, a)
    PROVE  a = b
<1>1. /\ Work[a] \in Nat /\ Work[b] \in Nat
      /\ seq[a] \in Nat /\ seq[b] \in Nat
      /\ addr[a] \in Nat /\ addr[b] \in Nat
      /\ addr[a] = addr[b] => a = b
  BY TreeAssumption, AddressAssumption DEF TypeOK
<1> QED
  BY <1>1 DEF Less

(* No block is better than itself. *)
LEMMA NotBetterThanItself ==
    ASSUME TypeOK, NEW b \in Block
    PROVE  ~Less(b, b)
<1>1. Work[b] \in Nat /\ seq[b] \in Nat /\ addr[b] \in Nat
  BY TreeAssumption, AddressAssumption DEF TypeOK
<1> QED
  BY <1>1 DEF Less

(* There is one goal at most. *)
LEMMA OneGoal ==
    ASSUME TypeOK, NEW a \in index, NEW b \in index, IsGoal(a), IsGoal(b)
    PROVE  a = b
  BY OneIsBetter DEF TypeOK, IsGoal, NothingBetter

(* A block has less work than those above it. *)
LEMMA AboveIsBetter ==
    ASSUME TypeOK, NEW b \in Block, NEW a \in Anc[b], a # b
    PROVE  Work[a] < Work[b] /\ Less(a, b)
  BY TreeAssumption DEF Less

(* What the goal is does not change while the tree and the order do not. *)
LEMMA SameGoal ==
    ASSUME UNCHANGED <<index, seq, addr, verdict>>
    PROVE  /\ \A a, c : Less(a, c)' <=> Less(a, c)
           /\ \A b : IsGoal(b)' <=> IsGoal(b)
           /\ AllJudged' <=> AllJudged
<1>1. \A a, c : Less(a, c)' <=> Less(a, c)
  BY DEF Less
<1> QED
  BY <1>1 DEF IsGoal, NothingBetter, Connectable, AllJudged

-----------------------------------------------------------------------------
(* Before the first block there is nothing to reorganise. *)
LEMMA InitReorgInv == Init => ReorgInv
<1> SUFFICES ASSUME Init PROVE ReorgInv
  OBVIOUS
<1>1. TypeOK /\ Genesis \in Block
  BY InitIInv, TreeAssumption DEF IInv
<1> QED
  BY <1>1, NotBetterThanItself DEF ReorgInv, Init

(* A new block.  The tip is the goal.  If the new block can be connected it *)
(* may become the goal, and nothing is better; if not, it alone is.         *)
LEMMA AddToBlockIndexReorg ==
    ASSUME IInv, IInv', ReorgInv, NEW n \in Block \ {Genesis}, AddToBlockIndex(n)
    PROVE  ReorgInv'
<1> USE DEF AddToBlockIndex, CanArrive
<1> SUFFICES ASSUME Promised' PROVE ReorgInv'
  BY DEF ReorgInv
<1>1. Promised /\ n \notin index /\ index \subseteq Block
  BY DEF Promised, AllJudged, IInv, TypeOK
<1>2. /\ mostWork = active /\ active \in index /\ pool # "stale"
      /\ valid \subseteq index /\ \A c \in valid : ~Less(active, c)
  BY <1>1 DEF ReorgInv, IInv, TypeOK
<1>3. \A a, c \in index : Less(a, c)' <=> Less(a, c)
  <2>1. \A a \in index : seq'[a] = seq[a]
    BY <1>1 DEF IInv, TypeOK
  <2> QED
    BY <2>1 DEF Less
<1>4. IsGoal(active)
  BY <1>1 DEF IInv, TipsConnectable, BestValidTip, Promised, IsGoal, NothingBetter
<1>5. \A b \in index : IsGoal(b)' => b = active
  <2>1. ASSUME NEW b \in index, IsGoal(b)' PROVE IsGoal(b)
    BY <1>3, <2>1 DEF IsGoal, NothingBetter, Connectable
  <2> QED
    BY <1>2, <1>4, <2>1, OneGoal DEF IInv
<1>6. TriedFromGoal'
  <2>1. ASSUME NEW b \in index', NEW x \in Targets', IsGoal(b)', b \in Anc[x], x # b
        PROVE  active' = b
    <3>1. b # n
      BY <1>1, <1>2, <2>1 DEF Targets, IInv, ParentsKnown
    <3> QED
      BY <1>5, <2>1, <3>1
  <2> QED
    BY <2>1 DEF TriedFromGoal
<1>7. OneBranchToTry'
  <2>1. n \in Anc[n]
    BY OwnChain
  <2>2. ASSUME NEW b \in index', IsGoal(b)', NEW x \in Targets', x # n
        PROVE  ~Less(b, x)'
    <3>1. x \in index /\ ~Less(active, x)
      BY <1>1, <1>2, <2>2, NotBetterThanItself DEF Targets, IInv
    <3>2. ~Less(active, x)'
      BY <1>2, <1>3, <3>1
    <3>3. ~Less(b, active)'
      BY <1>2, <1>4, <2>2 DEF IsGoal, NothingBetter, Connectable
    <3>4. /\ Work[b] \in Nat /\ Work[x] \in Nat /\ Work[active] \in Nat
          /\ seq'[b] \in Nat /\ seq'[x] \in Nat /\ seq'[active] \in Nat
          /\ addr'[b] \in Nat /\ addr'[x] \in Nat /\ addr'[active] \in Nat
      <4>1. {b, x, active} \subseteq Block
        BY <1>1, <1>2, <2>2, <3>1
      <4>2. seq' \in [Block -> Nat] /\ addr' \in [Block -> Nat] /\ Work \in [Block -> Nat]
        BY TreeAssumption, AddressAssumption DEF IInv, TypeOK
      <4> QED
        BY <4>1, <4>2
    <3> QED
      BY <3>2, <3>3, <3>4 DEF Less
  <2>3. n \in index'
    OBVIOUS
  <2> QED
    BY <2>1, <2>2, <2>3 DEF OneBranchToTry
<1> QED
  BY <1>2, <1>6, <1>7 DEF ReorgInv, PoolMovesOn

(* Steps that leave the tree, the candidates and the goal alone, and the   *)
(* pool in step.                                                           *)
LEMMA NothingToReorganise ==
    ASSUME IInv, ReorgInv,
           \/ \E b \in Block \ {Genesis} : RefuseBlock(b)
           \/ AcceptToMemoryPool
           \/ UNCHANGED vars
    PROVE  ReorgInv'
<1>1. CASE UNCHANGED vars
  BY <1>1 DEF vars, ReorgInv, Promised, AllJudged, PoolMovesOn, TriedFromGoal,
              OneBranchToTry, Targets, IsGoal, NothingBetter, Connectable, Less
<1>2. CASE AcceptToMemoryPool \/ \E b \in Block \ {Genesis} : RefuseBlock(b)
  <2>1. /\ UNCHANGED <<index, seq, addr, valid, active, mostWork, pc, halting,
                       stuck, misread, crashes, verdict>>
        /\ pc = "idle"
        /\ pool # "stale" => pool' # "stale"
    BY <1>2 DEF AcceptToMemoryPool, RefuseBlock, CanArrive
  <2> QED
    BY <2>1, SameGoal DEF ReorgInv, Promised
<1> QED
  BY <1>1, <1>2

(* FindMostWorkChain removes every candidate better than the one it takes: *)
(* each is itself above the flagged block it was skipped for.              *)
LEMMA SkippedIsMarked ==
    ASSUME IInv, NEW c \in index, ~Clean(c), c \notin failed
    PROVE  c \in AboveFailure(c)
<1>1. c \in Block /\ c \in Anc[c] /\ Anc[c] \subseteq Block /\ active \in Block
  BY OwnChain DEF IInv, TypeOK
<1>2. c \notin Anc[active]
  BY <1>1, ChainOfAncestor DEF Clean, OffChain
<1>3. \A f \in OffChain(c) \cap failed : c \notin Anc[f]
  BY <1>1, SameTip DEF OffChain
<1> QED
  BY <1>1, <1>2, <1>3 DEF AboveFailure, OffChain, Contains

LEMMA FindMostWorkChainReorg ==
    ASSUME IInv, ReorgInv, FindMostWorkChain
    PROVE  ReorgInv'
<1> DEFINE popped == IF mostWork = Nil THEN {} ELSE Popped(mostWork)
           left   == IF mostWork = Nil THEN {} ELSE Anc[mostWork] \ popped
           stays  == valid \ popped
           skipped(best) == {c \in stays : Less(best, c)}
           marked(best)  == UNION {AboveFailure(c) : c \in skipped(best)}
<1>1. PICK best \in stays, t \in left \cup {Nil} :
          /\ \A c \in skipped(best) : ~Clean(c) /\ c \notin failed
          /\ valid' = stays \ marked(best)
          /\ mostWork' = Pick(t, best)
  BY Zenon DEF FindMostWorkChain
<1>2. /\ pc = "find" /\ pc' = "activate"
      /\ stuck' = "never" => stuck = "never"
      /\ UNCHANGED <<index, seq, addr, active, pool, halting, misread, crashes, verdict>>
  BY DEF FindMostWorkChain
<1> SUFFICES ASSUME Promised' PROVE ReorgInv'
  BY DEF ReorgInv
<1>3. Promised /\ \A a, c : Less(a, c)' <=> Less(a, c)
  BY <1>2, SameGoal DEF Promised
<1>4. mostWork \in index /\ PoolMovesOn /\ TriedFromGoal /\ OneBranchToTry
  BY <1>2, <1>3 DEF ReorgInv
<1>5. /\ index \subseteq Block /\ valid \subseteq index /\ best \in valid
      /\ valid' \subseteq valid /\ Nil \notin Block
  BY <1>1, TreeAssumption DEF IInv, TypeOK
<1>6. t # Nil => t \in Anc[mostWork] /\ t \in index /\ t \in Block
  BY <1>1, <1>4, <1>5 DEF IInv, ParentsKnown
<1>7. mostWork' \in index /\ (mostWork' = best \/ mostWork' \in Anc[mostWork])
  BY <1>1, <1>5, <1>6 DEF Pick
<1>8. ASSUME NEW c \in valid' PROVE ~Less(mostWork', c)
  <2>1. c \in stays /\ c \notin marked(best) /\ c \in index
    BY <1>1, <1>5
  <2>2. c \notin skipped(best)
    <3>1. ASSUME c \in skipped(best) PROVE FALSE
      <4>1. c \in AboveFailure(c)
        BY <1>1, <2>1, <3>1, SkippedIsMarked
      <4> QED
        BY <2>1, <3>1, <4>1
    <3> QED
      BY <3>1
  <2>3. ~Less(best, c)
    BY <2>1, <2>2
  <2> QED
    BY <1>1, <1>5, <1>6, <2>1, <2>3, NotWorse DEF Pick, IInv
<1> HIDE DEF popped, left, stays, skipped, marked
<1>9. TriedFromGoal'
  <2>1. ASSUME NEW b \in index, NEW x \in Targets', IsGoal(b), b \in Anc[x], x # b
        PROVE  active = b
    <3>1. CASE x \in valid
      BY <1>4, <2>1, <3>1 DEF TriedFromGoal, Targets
    <3>2. CASE x \in Anc[mostWork]
      <4>1. mostWork \in Block /\ b \in Anc[mostWork] /\ x \in Block /\ b \in Block
        BY <1>4, <1>5, <2>1, <3>2, OwnChain, ChainOfAncestor
      <4>2. mostWork # b
        BY <2>1, <3>2, <4>1, SameTip
      <4> QED
        BY <1>4, <2>1, <4>1, <4>2 DEF TriedFromGoal, Targets
    <3> QED
      BY <1>5, <1>7, <2>1, <3>1, <3>2 DEF Targets
  <2> QED
    BY <1>2, <2>1, SameGoal DEF TriedFromGoal
<1>10. OneBranchToTry'
  <2>1. ASSUME NEW b \in index, IsGoal(b)
        PROVE  \E n \in index : \A x \in Targets' : Less(b, x) => x \in Anc[n]
    <3>1. PICK n \in index : \A x \in Targets : Less(b, x) => x \in Anc[n]
      BY <1>4, <2>1 DEF OneBranchToTry
    <3>2. ASSUME NEW x \in Anc[mostWork], Less(b, x)
          PROVE  x \in Anc[n]
      <4>1. x \in Block /\ mostWork \in Block /\ b \in Block /\ n \in Block
        BY <1>4, <1>5, OwnChain
      <4>2. Less(b, mostWork)
        <5>1. Work[x] \in Nat /\ Work[mostWork] \in Nat /\ Work[b] \in Nat
          BY <4>1, TreeAssumption
        <5>2. x = mostWork \/ Work[x] < Work[mostWork]
          BY <4>1, AboveIsBetter DEF IInv
        <5> QED
          BY <3>2, <5>1, <5>2 DEF Less
      <4>3. mostWork \in Anc[n]
        BY <3>1, <4>2 DEF Targets
      <4> QED
        BY <4>1, <4>3, ChainOfAncestor
    <3>3. \A x \in Targets' : Less(b, x) => x \in Anc[n]
      BY <1>5, <1>7, <3>1, <3>2 DEF Targets
    <3> QED
      BY <3>3
  <2> QED
    BY <1>2, <1>3, <2>1, SameGoal DEF OneBranchToTry
<1>11. PoolMovesOn'
  BY <1>2, <1>4, SameGoal DEF PoolMovesOn
<1> QED
  BY <1>2, <1>3, <1>7, <1>8, <1>9, <1>10, <1>11 DEF ReorgInv

(* One block back never arrives at the goal: the block that was            *)
(* disconnected is better.  Nor is the goal left for one of the chains     *)
(* above it: where the loops go is above it as well.                       *)
LEMMA DisconnectTipReorg ==
    ASSUME IInv, ReorgInv, DisconnectTip
    PROVE  ReorgInv'
<1> USE DEF DisconnectTip
<1> SUFFICES ASSUME Promised' PROVE ReorgInv'
  BY DEF ReorgInv
<1>1. Promised /\ Targets' = Targets /\ \A a, c : Less(a, c)' <=> Less(a, c)
  BY SameGoal DEF Promised, Targets
<1>2. /\ mostWork \in index /\ \A c \in valid : ~Less(mostWork, c)
      /\ PoolMovesOn /\ TriedFromGoal /\ OneBranchToTry
  BY <1>1 DEF ReorgInv
<1>3. /\ active \in index /\ active \in Block \ {Genesis} /\ mostWork \in Block
      /\ Connectable(active) /\ index \subseteq Block /\ valid \subseteq index
  BY <1>2, OwnChain DEF IInv, TypeOK, TipsConnectable, Contains
<1>4. \A b \in index : IsGoal(b) => Prev[active] # b
  <2>1. Prev[active] \in Anc[active] /\ Prev[active] # active
    BY <1>3, ParentChain, OwnChain, TreeAssumption
  <2>2. Less(Prev[active], active)
    BY <1>3, <2>1, AboveIsBetter DEF IInv
  <2> QED
    BY <1>3, <2>2 DEF IsGoal, NothingBetter
<1>5. ASSUME IsGoal(active), NEW x \in Targets, active \in Anc[x], x # active
      PROVE  FALSE
  <2>1. x \in Block /\ Less(active, x)
    BY <1>2, <1>3, <1>5, AboveIsBetter DEF Targets, IInv
  <2>2. PICK n \in index : \A y \in Targets : Less(active, y) => y \in Anc[n]
    BY <1>2, <1>3, <1>5 DEF OneBranchToTry
  <2>3. active \in Anc[n] /\ n \in Block
    BY <1>3, <1>5, <2>1, <2>2, ChainOfAncestor
  <2>4. ~Less(mostWork, active)
    BY <1>1, <1>3 DEF Promised, IInv, GoalIsBest, NothingBetter
  <2>5. mostWork # active
    BY <1>3, OwnChain DEF Contains
  <2>6. Less(active, mostWork)
    BY <1>3, <2>4, <2>5, OneIsBetter DEF IInv
  <2>7. mostWork \in Anc[n]
    BY <2>2, <2>6 DEF Targets
  <2>8. mostWork \in Anc[active]
    BY <2>3, <2>7, OneChain DEF Contains
  <2> QED
    BY <1>3, <2>4, <2>5, <2>8, AboveIsBetter DEF IInv
<1>6. PoolMovesOn'
  BY <1>4, SameGoal DEF PoolMovesOn
<1>7. TriedFromGoal'
  BY <1>1, <1>2, <1>5, SameGoal DEF TriedFromGoal
<1>8. OneBranchToTry'
  BY <1>1, <1>2, SameGoal DEF OneBranchToTry
<1> QED
  BY <1>1, <1>2, <1>6, <1>7, <1>8 DEF ReorgInv

(* One block forward.  The pool is left out of step only on the way to a   *)
(* block further up: the goal is not on that way, unless it was the tip.   *)
LEMMA ConnectTipReorg ==
    ASSUME IInv, ReorgInv, NEW b, ConnectTip(b)
    PROVE  ReorgInv'
<1> USE DEF ConnectTip
<1> SUFFICES ASSUME Promised' PROVE ReorgInv'
  BY DEF ReorgInv
<1>1. Promised /\ Targets' = Targets /\ \A a, c : Less(a, c)' <=> Less(a, c)
  BY SameGoal DEF Promised, Targets
<1>2. /\ mostWork \in index /\ \A c \in valid : ~Less(mostWork, c)
      /\ PoolMovesOn /\ TriedFromGoal /\ OneBranchToTry /\ pc = "activate"
  BY <1>1 DEF ReorgInv, IsNext
<1>3. b \in index /\ Connectable(b) /\ b \in Block \ {Genesis} /\ Prev[b] = active
  BY NextExtends DEF IInv, TypeOK, IsNext
<1>4. active # b /\ Less(active, b)
  <2>1. active \in Anc[b] /\ active # b
    BY <1>3, ParentChain, OwnChain, TreeAssumption
  <2> QED
    BY <1>3, <2>1, AboveIsBetter DEF IInv
<1>5. \A g \in index : IsGoal(g) => active # g
  BY <1>3, <1>4 DEF IsGoal, NothingBetter
<1>6. PoolMovesOn'
  <2>1. ASSUME pool' = "stale", IsGoal(b) PROVE FALSE
    <3>1. b # mostWork /\ b \in Anc[mostWork]
      BY <2>1 DEF MovePool, IsNext
    <3> QED
      BY <1>2, <1>3, <1>4, <2>1, <3>1 DEF TriedFromGoal, Targets
  <2> QED
    BY <2>1, SameGoal DEF PoolMovesOn
<1>7. TriedFromGoal'
  BY <1>1, <1>2, <1>5, SameGoal DEF TriedFromGoal
<1>8. OneBranchToTry'
  BY <1>1, <1>2, SameGoal DEF OneBranchToTry
<1> QED
  BY <1>1, <1>2, <1>6, <1>7, <1>8 DEF ReorgInv

(* A failed block is one candidate less. *)
LEMMA ConnectInvalidReorg ==
    ASSUME IInv, ReorgInv, NEW b \in index, ConnectInvalid(b)
    PROVE  ReorgInv'
<1> USE DEF ConnectInvalid, InvalidBlockFound, IsNext
<1> SUFFICES ASSUME Promised' PROVE ReorgInv'
  BY DEF ReorgInv
<1>1. Promised /\ Targets' \subseteq Targets /\ \A a, c : Less(a, c)' <=> Less(a, c)
  BY SameGoal DEF Promised, Targets
<1>2. mostWork \in index /\ PoolMovesOn /\ TriedFromGoal /\ OneBranchToTry
  BY <1>1 DEF ReorgInv
<1>3. PoolMovesOn'
  BY <1>2, SameGoal DEF PoolMovesOn
<1>4. TriedFromGoal'
  BY <1>1, <1>2, SameGoal DEF TriedFromGoal
<1>5. OneBranchToTry'
  BY <1>1, <1>2, SameGoal DEF OneBranchToTry
<1> QED
  BY <1>1, <1>2, <1>3, <1>4, <1>5 DEF ReorgInv

(* At the end the tip is the goal. *)
LEMMA ActivatedReorg ==
    ASSUME IInv, ReorgInv, Activated
    PROVE  ReorgInv'
<1> USE DEF Activated
<1> SUFFICES ASSUME Promised' PROVE ReorgInv'
  BY DEF ReorgInv
<1>1. Promised /\ \A a, c : Less(a, c)' <=> Less(a, c)
  BY SameGoal DEF Promised
<1>2. active = mostWork
  BY SameTip DEF IInv, TypeOK, GoalIsBest, Contains
<1>3. active \in index /\ IsGoal(active)
  BY <1>1, <1>2 DEF Promised, IInv, TypeOK, TipsConnectable, GoalIsBest, IsGoal
<1> QED
  BY <1>1, <1>2, <1>3 DEF ReorgInv, PoolMovesOn

(* After a failure or a death nothing is promised. *)
LEMMA NoPromise ==
    ASSUME IInv, ReorgInv,
           \/ \E b \in index : ConnectUnjudged(b) \/ WriteFails(b)
           \/ \E b \in index : MatureBlockUnreadable(b)
           \/ UndoFails \/ ReadFails \/ Shutdown \/ Die \/ Restart
    PROVE  ReorgInv'
<1>1. CASE \E b \in index : ConnectUnjudged(b)
  BY <1>1 DEF ConnectUnjudged, ReorgInv, Promised, AllJudged
<1>2. CASE ReadFails \/ \E b \in index : WriteFails(b)
  BY <1>2 DEF ReadFails, WriteFails, ReorgInv, Promised
<1>3. CASE Shutdown \/ Die
  <2>1. crashes' = crashes + 1 /\ crashes \in Nat
    BY <1>3, MaxCrashesAssumption DEF Shutdown, Die, IInv, TypeOK
  <2> QED
    BY <2>1 DEF ReorgInv, Promised
<1>4. CASE Restart
  BY <1>4, SameGoal DEF Restart, ReorgInv, Promised, AllJudged
<1>5. CASE UndoFails \/ \E b \in index : MatureBlockUnreadable(b)
  BY <1>5 DEF UndoFails, MatureBlockUnreadable, ReorgInv, Promised
<1> QED
  BY <1>1, <1>2, <1>3, <1>4, <1>5

(* "CTxMemPool stores valid-according-to-the-current-best-chain            *)
(* transactions", at rest, although ConnectTip and DisconnectTip rescan it *)
(* only at the end of a loop, as long as every block gets a verdict and    *)
(* every block to be disconnected can be.                                  *)
THEOREM PoolInStep == Spec => []PoolCheckedAfterReorg
<1>1. ASSUME IInv, IInv', ReorgInv, [Next]_vars
      PROVE  ReorgInv'
  <2>1. CASE FindMostWorkChain \/ DisconnectTip \/ Activated
    BY <1>1, <2>1, FindMostWorkChainReorg, DisconnectTipReorg, ActivatedReorg
  <2>2. CASE \E b \in index : ConnectTip(b) \/ ConnectInvalid(b)
    BY <1>1, <2>2, ConnectTipReorg, ConnectInvalidReorg
  <2>3. CASE \/ \E b \in index : ConnectUnjudged(b) \/ WriteFails(b)
             \/ \E b \in index : MatureBlockUnreadable(b)
             \/ UndoFails \/ ReadFails \/ Shutdown \/ Die \/ Restart
    BY <1>1, <2>3, NoPromise
  <2>4. CASE \E b \in Block \ {Genesis} : AddToBlockIndex(b)
    BY <1>1, <2>4, AddToBlockIndexReorg
  <2>5. CASE \/ \E b \in Block \ {Genesis} : RefuseBlock(b)
             \/ AcceptToMemoryPool
             \/ UNCHANGED vars
    BY <1>1, <2>5, NothingToReorganise
  <2> QED
    BY <1>1, <2>1, <2>2, <2>3, <2>4, <2>5 DEF Next, Activation, AssertionFails
<1>2. ReorgInv => PoolCheckedAfterReorg
  BY DEF ReorgInv, Promised, PoolCheckedAfterReorg
<1> QED
  BY <1>1, <1>2, InitReorgInv, Invariance, PTL DEF Spec
=============================================================================
