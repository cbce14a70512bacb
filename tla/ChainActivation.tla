-------------------------- MODULE ChainActivation --------------------------
(***************************************************************************)
(* How a node chooses the chain it follows.                                *)
(*                                                                         *)
(* Blocks arrive in any order that puts parents first, on any branch of a  *)
(* tree.  AddToBlockIndex records each one and calls ActivateBestChain,    *)
(* which looks for the best candidate tip (FindMostWorkChain), walks back  *)
(* to the fork (DisconnectTip) and forward again (ConnectTip), and starts  *)
(* over when a block on the way breaks a rule.  Everything happens under   *)
(* g_cs_main, so steps of two activations never interleave, but the        *)
(* process may die between any two of them, and starts again from the      *)
(* block index and the accounts on disk with the same ActivateBestChain.   *)
(*                                                                         *)
(* Checkpoints, and CheckActiveChain with them, are in a module of their   *)
(* own.                                                                    *)
(***************************************************************************)
EXTENDS BlockTree

CONSTANTS
    Address,    \* possible addresses of the CBlockIndex objects in one process
    Verdicts,   \* possible outcomes of ConnectBlock, see Verdict
    MaxCrashes  \* bound on how often the process dies

(* What ConnectBlock answers for a block on top of its parent.  "unjudged" *)
(* is "return false" without a word in the validation state: a fuel value  *)
(* in the header that differs from the one computed, for instance.         *)
Verdict == {"valid", "invalid", "unjudged"}

ASSUME AddressAssumption ==
    \A addr \in Address :
        /\ addr \in [Block -> Nat]
        /\ \A a, b \in Block : addr[a] = addr[b] => a = b
ASSUME VerdictAssumption ==
    \A v \in Verdicts : v \in [Block -> Verdict] /\ v[Genesis] = "valid"
ASSUME MaxCrashesAssumption == MaxCrashes \in Nat

VARIABLES
    index,        \* g_mapBlockIndex, in memory and on disk
    seq,          \* m_uSequenceId: order of arrival, 0 if loaded from disk
    addr,         \* where the CBlockIndex objects are
    valid,        \* g_setBlockIndexValid, the candidate tips
    failed,       \* blocks with a flag of BLOCK_FAILED_MASK in memory
    failedOnDisk, \* blocks with such a flag in the block index database
    active,       \* tip of g_cChainActive
    mostWork,     \* tip of g_cChainMostWork
    view,         \* best block of g_pAccountViewTip
    disk,         \* best block of the accounts on disk
    pool,         \* the transactions of g_cTxMemPool, see Pool
    pc,           \* where ActivateBestChain is, see Pc
    halting,      \* AbortNode was called: a shutdown was asked for
    stuck,        \* whether a block could not be disconnected, see Stuck
    misread,      \* whether a block was condemned for a matured one not read
    crashes,      \* how often the process died
    verdict       \* what ConnectBlock answers, fixed by the blocks themselves

vars == <<index, seq, addr, valid, failed, failedOnDisk, active,
          mostWork, view, disk, pool, pc, halting, stuck, misread, crashes, verdict>>

Pool == {"empty",
         "checked",  \* every entry was executed on top of the active tip
         "stale"}    \* the tip has moved since

Pc == {"idle",        \* g_cs_main is free
       "find",        \* about to call FindMostWorkChain
       "activate",    \* in the loops that disconnect and connect
       "down"}        \* no process

Stuck == {"never",   \* in this process
          "before",  \* in an activation before the last
          "now"}     \* the last activation ended there

TypeOK ==
    /\ index \in SUBSET Block
    /\ seq \in [Block -> Nat]
    /\ addr \in Address
    /\ valid \in SUBSET index
    /\ failed \in SUBSET index
    /\ failedOnDisk \in SUBSET index
    /\ {active, view, disk} \subseteq index
    /\ mostWork \in index \cup {Nil}
    /\ pool \in Pool
    /\ pc \in Pc
    /\ halting \in BOOLEAN
    /\ stuck \in Stuck
    /\ misread \in BOOLEAN
    /\ crashes \in 0..MaxCrashes
    /\ verdict \in Verdicts

-----------------------------------------------------------------------------
(* CBlockIndexWorkComparator: b is better than a.                          *)
Less(a, b) ==
    \/ Work[a] < Work[b]
    \/ Work[a] = Work[b] /\ seq[a] > seq[b]
    \/ Work[a] = Work[b] /\ seq[a] = seq[b] /\ addr[a] > addr[b]

(* Blocks of the branch of b that are not in the active chain.             *)
OffChain(b) == Anc[b] \ Anc[active]

(* The first loop of FindMostWorkChain steps back over flagged blocks.     *)
Popped(tip) == {a \in Anc[tip] : \A c \in Anc[tip] : Contains(c, a) => c \in failed}
IsTopOf(t, blocks) == t \in blocks /\ \A a \in blocks : Contains(t, a)

(* The faulty variants of definitions stand before them; nothing refers to *)
(* them.                                                                   *)
PickWorse(t, best) == IF t # Nil /\ ~Less(best, t) THEN t ELSE best

(* What FindMostWorkChain makes of the tip t it has and the candidate best. *)
Pick(t, best) == IF t # Nil /\ ~Less(t, best) THEN t ELSE best

(* A candidate is skipped if its branch has a flagged block, and with it   *)
(* every block of the branch above the topmost of them.                    *)
Clean(b) == OffChain(b) \cap failed = {}
AboveFailure(b) == {a \in OffChain(b) : \A f \in OffChain(b) \cap failed : ~Contains(f, a)}

-----------------------------------------------------------------------------
(* What CheckBlockProofWorkWithCoinDayEx executes again before b is let in. *)
(* Only when the parent has more work than the tip are the blocks of its   *)
(* branch executed, on top of the newest one g_mapCache still has a view   *)
(* of, or on top of the fork.  Whether they pass there depends on what the *)
(* view sees, not on how ConnectTip judged or will judge them.             *)
Rechecked(b) ==
    IF Work[Prev[b]] > Work[active]
    THEN {OffChain(Prev[b]) \ Anc[d] : d \in Anc[Prev[b]]}
    ELSE {{}}

(* ConnectBlock writes the status of the blocks it executes as it is in    *)
(* memory.                                                                 *)
Written(blocks) == (failedOnDisk \ blocks) \cup (blocks \cap failed)

(* It does so unless it has executed them on this chain before.  Such a    *)
(* block never has a flag, if not for a matured block that was not read.   *)
WriteStatus(blocks) ==
    \E new \in (IF misread THEN SUBSET blocks ELSE {blocks}) :
        failedOnDisk' = Written(new)

(* Only after that a block that is executed again loses its failure flags, *)
(* "m_unStatus | BLOCK_FAILED_MASK" being true of every status.  It is not *)
(* put back among the candidates.                                          *)
Recheck(blocks) ==
    /\ WriteStatus(blocks)
    /\ failed' = failed \ blocks

CanArrive(b) ==
    /\ pc = "idle"
    /\ b \notin index
    /\ Prev[b] \in index

AddToBlockIndexUnrecorded(b) ==
    /\ CanArrive(b)
    /\ valid' = valid \cup {b}
    /\ pc' = "find"
    /\ UNCHANGED <<index, seq, addr, failed, failedOnDisk, active, mostWork, view,
                   disk, pool, halting, stuck, misread, crashes, verdict>>

(* AcceptBlock finds nothing wrong: AddToBlockIndex.                       *)
AddToBlockIndex(b) ==
    /\ CanArrive(b)
    /\ \E blocks \in Rechecked(b) : Recheck(blocks)
    /\ index' = index \cup {b}
    /\ seq' = [seq EXCEPT ![b] = 1 + Cardinality({c \in index : seq[c] > 0})]
    /\ valid' = valid \cup {b}
    /\ pc' = "find"
    /\ UNCHANGED <<addr, active, mostWork, view, disk, pool,
                   halting, stuck, misread, crashes, verdict>>

(* AcceptBlock refuses b: a block below it, or b itself, failed when it    *)
(* was executed again.  The blocks before that one stay without flags.     *)
RefuseBlock(b) ==
    /\ CanArrive(b)
    /\ \E blocks \in Rechecked(b), c \in {b} \cup OffChain(Prev[b]) :
          Recheck(blocks \cap (Anc[c] \ {c}))
    /\ UNCHANGED <<index, seq, addr, valid, active, mostWork, view, disk, pool, pc,
                   halting, stuck, misread, crashes, verdict>>

(* AcceptToMemoryPool, from a peer or the wallet.                          *)
AcceptToMemoryPool ==
    /\ pc = "idle"
    /\ pool' = IF pool = "stale" THEN "stale" ELSE "checked"
    /\ UNCHANGED <<index, seq, addr, valid, failed, failedOnDisk, active,
                   mostWork, view, disk, pc, halting, stuck, misread, crashes, verdict>>

-----------------------------------------------------------------------------
(* FindMostWorkChain.  A flagged candidate would keep its second loop from *)
(* ending: the action does not happen then.  The genesis block is always a *)
(* clean candidate, so that the return for an empty set is not needed.     *)
FindMostWorkChain ==
    LET popped == IF mostWork = Nil THEN {} ELSE Popped(mostWork)
        left   == IF mostWork = Nil THEN {} ELSE Anc[mostWork] \ popped
        stays  == valid \ popped
    IN
    /\ pc = "find"
    /\ \E best \in stays, t \in left \cup {Nil} :
          LET skipped == {c \in stays : Less(best, c)}
              marked  == UNION {AboveFailure(c) : c \in skipped}
          IN
          /\ IF left = {} THEN t = Nil ELSE IsTopOf(t, left)
          /\ Clean(best)
          /\ \A c \in skipped : ~Clean(c) /\ c \notin failed
          /\ failed' = failed \cup marked
          /\ valid' = stays \ marked
          /\ mostWork' = Pick(t, best)
    /\ pc' = "activate"
    /\ stuck' = IF stuck = "now" THEN "before" ELSE stuck
    /\ UNCHANGED <<index, seq, addr, failedOnDisk, active, view, disk, pool,
                   halting, misread, crashes, verdict>>

(* WriteChainState may or may not write, depending on the clock, the       *)
(* cache sizes and IsInitialBlockDownload.                                 *)
WriteChainState == disk' \in {disk, view'}

MovePoolNoRescan(last, resurrects) ==
    \/ pool' = "empty"
    \/ (pool # "empty" \/ resurrects) /\ pool' = "stale"

(* The mempool after the tip moved: ReScanMemPoolTx runs only at the last  *)
(* block of a loop.                                                        *)
MovePool(last, resurrects) ==
    \/ pool' = "empty"
    \/ /\ pool # "empty" \/ resurrects
       /\ pool' = IF last THEN "checked" ELSE "stale"

(* One turn of the first loop of ActivateBestChain.  DisconnectTip puts    *)
(* the transactions of the block back into the mempool.                    *)
DisconnectTip ==
    /\ pc = "activate"
    /\ ~Contains(mostWork, active)
    /\ view = active
    /\ view' = Prev[active]
    /\ active' = Prev[active]
    /\ WriteChainState
    /\ MovePool(Contains(mostWork, Prev[active]), TRUE)
    /\ UNCHANGED <<index, seq, addr, valid, failed, failedOnDisk, mostWork,
                   pc, halting, stuck, misread, crashes, verdict>>

(* DisconnectBlock fails in a way that is no Abort: the undo data or a     *)
(* matured block cannot be read, or UndoExecuteTx does not find what the   *)
(* block made (see Ledger).  ActivateBestChain returns, maybe in the       *)
(* middle of a reorganisation, and the node goes on from there.            *)
UndoFails ==
    /\ pc = "activate"
    /\ ~Contains(mostWork, active)
    /\ view = active
    /\ pc' = "idle"
    /\ stuck' = "now"
    /\ UNCHANGED <<index, seq, addr, valid, failed, failedOnDisk, active,
                   mostWork, view, disk, pool, halting, misread, crashes, verdict>>

(* The block the second loop is about to connect.                          *)
IsNext(b) ==
    /\ pc = "activate"
    /\ Contains(mostWork, active)
    /\ b \in Anc[mostWork] \ {Genesis}
    /\ Prev[b] = active
    /\ view = active

ConnectTip(b) ==
    /\ IsNext(b)
    /\ verdict[b] = "valid"
    /\ WriteStatus({b})
    /\ view' = b
    /\ active' = b
    /\ WriteChainState
    /\ MovePool(b = mostWork, FALSE)
    /\ UNCHANGED <<index, seq, addr, valid, failed, mostWork,
                   pc, halting, stuck, misread, crashes, verdict>>

InvalidBlockFoundUnmarked(b) ==
    /\ valid' = valid \ {b}
    /\ UNCHANGED <<failed, failedOnDisk>>

InvalidBlockFoundParent(b) ==
    /\ failed' = failed \cup {Prev[b]}
    /\ failedOnDisk' = failedOnDisk \cup {Prev[b]}
    /\ valid' = valid \ {Prev[b]}

(* ConnectTip of a block that breaks a rule: InvalidBlockFound, and the    *)
(* search starts again.                                                    *)
InvalidBlockFound(b) ==
    /\ failed' = failed \cup {b}
    /\ failedOnDisk' = failedOnDisk \cup {b}
    /\ valid' = valid \ {b}

ConnectInvalid(b) ==
    /\ IsNext(b)
    /\ verdict[b] = "invalid"
    /\ InvalidBlockFound(b)
    /\ pc' = "find"
    /\ UNCHANGED <<index, seq, addr, active, mostWork, view, disk, pool,
                   halting, stuck, misread, crashes, verdict>>

(* ConnectTip of a block at the height where the reward of an earlier one  *)
(* matures, which cannot be read: a DoS is recorded as for a rule broken,  *)
(* "bad-read-block", and the block is condemned for good.                  *)
MatureBlockUnreadable(b) ==
    /\ IsNext(b)
    /\ verdict[b] # "invalid"
    /\ crashes < MaxCrashes
    /\ InvalidBlockFound(b)
    /\ misread' = TRUE
    /\ pc' = "find"
    /\ UNCHANGED <<index, seq, addr, active, mostWork, view, disk, pool,
                   halting, stuck, crashes, verdict>>

(* ConnectTip of a block without a verdict: ActivateBestChain takes it for *)
(* a system error and returns.                                             *)
ConnectUnjudged(b) ==
    /\ IsNext(b)
    /\ verdict[b] = "unjudged"
    /\ pc' = "idle"
    /\ UNCHANGED <<index, seq, addr, valid, failed, failedOnDisk, active,
                   mostWork, view, disk, pool, halting, stuck, misread, crashes, verdict>>

(* The loops are done: the active chain ends where the most-work chain does. *)
Activated ==
    /\ pc = "activate"
    /\ Contains(active, mostWork)
    /\ Contains(mostWork, active)
    /\ pc' = "idle"
    /\ UNCHANGED <<index, seq, addr, valid, failed, failedOnDisk, active,
                   mostWork, view, disk, pool, halting, stuck, misread, crashes, verdict>>

-----------------------------------------------------------------------------
(* The block to disconnect or connect, or the one that leaves or enters    *)
(* the window of the tx cache with it, cannot be read: Abort, and          *)
(* ActivateBestChain returns.  The shutdown comes later.                   *)
ReadFails ==
    /\ pc = "activate"
    /\ active # mostWork
    /\ crashes < MaxCrashes
    /\ pc' = "idle"
    /\ halting' = TRUE
    /\ UNCHANGED <<index, seq, addr, valid, failed, failedOnDisk, active,
                   mostWork, view, disk, pool, stuck, misread, crashes, verdict>>

(* WriteChainState fails, before or after the accounts reached the disk.   *)
(* The view has moved to b, UpdateTip is not called.                       *)
WriteFails(b) ==
    /\ pc = "activate"
    /\ crashes < MaxCrashes
    /\ view = active
    /\ \/ IsNext(b) /\ verdict[b] = "valid" /\ WriteStatus({b})
       \/ /\ ~Contains(mostWork, active)
          /\ b = Prev[active]
          /\ failedOnDisk' = failedOnDisk
    /\ view' = b
    /\ WriteChainState
    /\ pc' = "idle"
    /\ halting' = TRUE
    /\ UNCHANGED <<index, seq, addr, valid, failed, active,
                   mostWork, pool, stuck, misread, crashes, verdict>>

(* The process is gone, memory with it.                                    *)
Gone ==
    /\ pc' = "down"
    /\ active' = disk'
    /\ view' = disk'
    /\ mostWork' = Nil
    /\ failed' = failedOnDisk
    /\ valid' = index \ failedOnDisk
    /\ seq' = [b \in Block |-> 0]
    /\ pool' = "empty"
    /\ halting' = FALSE
    /\ stuck' = "never"
    /\ UNCHANGED <<index, addr, failedOnDisk, misread, verdict>>

(* Shutdown() writes the view, wherever it is.                             *)
Shutdown ==
    /\ pc = "idle"
    /\ crashes < MaxCrashes
    /\ crashes' = crashes + 1
    /\ disk' = view
    /\ Gone

Die ==
    /\ pc # "down"
    /\ crashes < MaxCrashes
    /\ crashes' = crashes + 1
    /\ disk' = disk
    /\ Gone

(* ConnectBlock and DisconnectBlock assert that the view is at the tip.    *)
AssertionFails ==
    /\ pc = "activate"
    /\ active # mostWork
    /\ view # active
    /\ Die

(* AppInit: LoadBlockIndexDB, then ActivateBestChain.  The objects are     *)
(* somewhere else now.                                                     *)
Restart ==
    /\ pc = "down"
    /\ addr' \in Address
    /\ pc' = "find"
    /\ UNCHANGED <<index, seq, valid, failed, failedOnDisk, active,
                   mostWork, view, disk, pool, halting, stuck, misread, crashes, verdict>>

Init ==
    /\ index = {Genesis}
    /\ seq = [b \in Block |-> IF b = Genesis THEN 1 ELSE 0]
    /\ addr \in Address
    /\ valid = {Genesis}
    /\ failed = {}
    /\ failedOnDisk = {}
    /\ active = Genesis
    /\ mostWork = Genesis
    /\ view = Genesis
    /\ disk = Genesis
    /\ pool = "empty"
    /\ pc = "idle"
    /\ halting = FALSE
    /\ stuck = "never"
    /\ misread = FALSE
    /\ crashes = 0
    /\ verdict \in Verdicts

Activation ==
    \/ FindMostWorkChain
    \/ DisconnectTip
    \/ \E b \in index : ConnectTip(b) \/ ConnectInvalid(b) \/ ConnectUnjudged(b)
    \/ Activated
    \/ AssertionFails

Next ==
    \/ Activation
    \/ \E b \in Block \ {Genesis} : AddToBlockIndex(b) \/ RefuseBlock(b)
    \/ AcceptToMemoryPool
    \/ UndoFails
    \/ ReadFails
    \/ \E b \in index : MatureBlockUnreadable(b) \/ WriteFails(b)
    \/ Shutdown
    \/ Die
    \/ Restart

(* A thread that holds g_cs_main goes on: nothing in the loops waits.      *)
Spec == Init /\ [][Next]_vars
FairSpec == Spec /\ WF_vars(Activation)

-----------------------------------------------------------------------------
(* Blocks ActivateBestChain could connect, all the way from the genesis.   *)
Connectable(b) == \A a \in Anc[b] : verdict[a] = "valid"
AllJudged == \A b \in index : verdict[b] # "unjudged"

(* What a node at rest wants is the best of the chains it knows whose      *)
(* blocks all pass ConnectBlock, best by work, then by order of arrival,   *)
(* and it is there: no order of blocks, invalid branch, forgotten failure  *)
(* flag or crash in the middle of a reorganisation leaves it elsewhere.    *)
(* It stays below, and tries again with the next block, only if the last   *)
(* activation came upon a block that it could not disconnect.  Nothing is  *)
(* promised once a block was condemned because another could not be read.  *)
BestValidTip ==
    pc = "idle" /\ ~halting /\ AllJudged /\ ~misread =>
        /\ \A b \in index : Connectable(b) => ~Less(mostWork, b)
        /\ active = mostWork \/ (stuck = "now" /\ ~Contains(mostWork, active))

(* FindMostWorkChain removes from the candidates only what is above a      *)
(* failed block, never the block itself: it would loop forever, holding    *)
(* g_cs_main, if a block marked as failed were a candidate.                *)
NoFailedCandidate == valid \cap failed = {}

(* "We know all blocks in it are valid already": the walk from a candidate *)
(* down to the active chain does not look at the rest, so none of the      *)
(* active blocks may carry a failure flag, on disk either, or the next     *)
(* start would drop the tip from the candidates.  (A block condemned       *)
(* because another could not be read is tried again when it is in the      *)
(* chain that FindMostWorkChain settled on before, and keeps its flag.)    *)
ActiveNeverFailed == ~misread => Anc[active] \cap (failed \cup failedOnDisk) = {}

(* "CTxMemPool stores valid-according-to-the-current-best-chain            *)
(* transactions": at rest, all of them were executed on the active tip, as *)
(* long as every block gets a verdict and can be disconnected, and the     *)
(* process did not start again: a reorganisation that fails half way at a  *)
(* block that breaks a rule ends with a rescan.  One that fails at a block *)
(* that cannot be disconnected does not, and a later one may end where the *)
(* pool was left out of step.                                              *)
PoolCheckedAfterReorg ==
    /\ AllJudged /\ ~misread
    /\ crashes = 0 /\ stuck = "never"
    /\ pc = "idle" /\ ~halting
    => pool # "stale"

(* ActivateBestChain, which starts over after every invalid block, ends,   *)
(* unless an earlier one failed to read or write and asked for a shutdown, *)
(* or the same matured block cannot be read again and again: the block     *)
(* that waits for it is marked already, and when the mark above it was     *)
(* erased, nothing changes before the next turn.                           *)
ActivationEnds ==
    \/ pc = "find" /\ ~halting ~> pc \in {"idle", "down"}
    \/ []<><<\E b \in Block : MatureBlockUnreadable(b)>>_vars
=============================================================================
