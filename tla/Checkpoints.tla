---------------------------- MODULE Checkpoints ----------------------------
(* Checkpoints: blocks signed by the operator of the network, which the    *)
(* node learns while it runs and must not leave again.                     *)
(*                                                                         *)
(* Three places keep it to them.  AcceptBlock refuses a block that         *)
(* contradicts a checkpoint at its own height, or that is lower than the   *)
(* last checkpoint block the node has.  CheckActiveChain, called for each  *)
(* new checkpoint, takes the candidates away that lead elsewhere and moves *)
(* the active chain.  The start calls it once more.  ActivateBestChain     *)
(* knows nothing of checkpoints: it follows the best candidate left.       *)
(*                                                                         *)
(* All blocks are valid here: what failures do to the choice of the chain  *)
(* is the subject of ChainActivation.  The operator signs blocks of one    *)
(* branch, in any order and at any time, also ones the node has not seen.  *)
EXTENDS BlockTree

CONSTANTS
    Official,   \* the tip of the branch the operator signs blocks of
    Address,    \* where the CBlockIndex objects are
    MaxRestarts \* bound on how often the process starts again

ASSUME OfficialAssumption == Official \in Block
ASSUME AddressAssumption ==
    /\ Address \in [Block -> Nat]
    /\ \A a, b \in Block : Address[a] = Address[b] => a = b
ASSUME MaxRestartsAssumption == MaxRestarts \in Nat

VARIABLES
    index,    \* g_mapBlockIndex, in memory and on disk
    seq,      \* m_uSequenceId: order of arrival, 0 if loaded from disk
    valid,    \* g_setBlockIndexValid, the candidate tips
    active,   \* tip of g_cChainActive
    mostWork, \* tip of g_cChainMostWork
    points,   \* the blocks of mapCheckPoints, which the database has as well
    pending,  \* added to the map, not yet passed to CheckActiveChain
    pc,       \* see Pc
    target,   \* the checkpoint CheckActiveChain was called for
    last,     \* the last checkpoint block known when it was called (pcheckpoint)
    at,       \* the candidate its iterator is at, Nil at the end
    astray,   \* history: what happened since the start that may mislead, see Cause
    restarts  \* how often the process started again

chainVars == <<index, seq, valid, active, mostWork>>
sweepVars == <<target, last, at>>
vars == <<chainVars, points, pending, pc, sweepVars, astray, restarts>>

Pc == {"idle",      \* g_cs_main is free
       "sweep",     \* in the loop of CheckActiveChain over the candidates
       "starting"}  \* in AppInit, between ActivateBestChain and CheckActiveChain

(* The events the protection does not cover. *)
Cause == {"grown",   \* a block was accepted on a branch without an older checkpoint
          "rewound", \* the chain was rewound although the checkpoint block is unknown
          "unseen"}  \* a start, or a checkpoint that moves the chain, looked at the
                     \* last known checkpoint block only, and blocks as high as one
                     \* the node does not have were candidates

TypeOK ==
    /\ index \in SUBSET Block
    /\ seq \in [Block -> Nat]
    /\ valid \in SUBSET index
    /\ {active, target, last} \subseteq Block
    /\ mostWork \in index
    /\ at \in index \cup {Nil}
    /\ points \in SUBSET Anc[Official]
    /\ pending \in SUBSET points
    /\ pc \in Pc
    /\ astray \in SUBSET Cause
    /\ restarts \in 0..MaxRestarts

-----------------------------------------------------------------------------
(* CBlockIndexWorkComparator: b is better than a.                          *)
Less(a, b) ==
    \/ Work[a] < Work[b]
    \/ Work[a] = Work[b] /\ seq[a] > seq[b]
    \/ Work[a] = Work[b] /\ seq[a] = seq[b] /\ Address[a] > Address[b]

(* *rbegin() of a set of candidates, and what ++it moves to. *)
IsBest(b, blocks) == b \in blocks /\ \A c \in blocks : ~Less(b, c)
Best(blocks) == IF blocks = {} THEN Nil ELSE CHOOSE b \in blocks : IsBest(b, blocks)
After(b) == Best({c \in valid : Less(c, b)})

LastCheckpointSigned == CHOOSE p \in points : \A q \in points : Height(q) <= Height(p)

(* GetLastCheckpoint: the highest checkpoint whose block the node has. *)
LastCheckpoint == CHOOSE p \in points \cap index :
                      \A q \in points \cap index : Height(q) <= Height(p)

(* The map has one block for a height, CheckBlock compares with it. *)
CheckBlock(b) == \A p \in points : Height(p) = Height(b) => p = b

(* What AcceptBlock asks of a block before it is written. *)
Accept(b) == CheckBlock(b) /\ Height(b) >= Height(LastCheckpoint)

-----------------------------------------------------------------------------
Init ==
    /\ index = {Genesis}
    /\ seq = [b \in Block |-> 0]
    /\ valid = {Genesis}
    /\ active = Genesis
    /\ mostWork = Genesis
    /\ points = {Genesis}
    /\ pending = {}
    /\ pc = "idle"
    /\ target = Genesis
    /\ last = Genesis
    /\ at = Nil
    /\ astray = {}
    /\ restarts = 0

(* A block from a peer or the miner: AcceptBlock, AddToBlockIndex and the  *)
(* ActivateBestChain it ends with.  FindMostWorkChain prefers the chain it *)
(* has unless the best candidate is better; the rest connects all of it.   *)
(* The newest block has the highest sequence number and loses every tie.   *)
Arrive(b) ==
    /\ pc = "idle"
    /\ b \notin index /\ Prev[b] \in index
    /\ Accept(b)
    /\ index' = index \cup {b}
    /\ seq' = [seq EXCEPT ![b] = Cardinality(index)]
    /\ valid' = valid \cup {b}
    /\ mostWork' = IF \A c \in valid \cup {mostWork} : Work[c] < Work[b] THEN b
                   ELSE Best(valid \cup {mostWork})
    /\ active' = mostWork'
    /\ astray' = astray \cup
           (IF \E p \in points : Height(p) < Height(b) /\ p \notin Anc[b]
            THEN {"grown"} ELSE {})
    /\ UNCHANGED <<points, pending, pc, sweepVars, restarts>>

(* The "checkpoint" message or the RPC setcheckpoint, up to AddCheckpoint: *)
(* written to the database and put in the map, without g_cs_main.  Nothing *)
(* keeps a checkpoint the node has from being taken for a new one:         *)
(* ExistCheckpoint looks for another key than WriteCheckpoint writes.      *)
AddCheckpoint(p) ==
    /\ pc # "starting"
    /\ points' = points \cup {p}
    /\ pending' = pending \cup {p}
    /\ UNCHANGED <<chainVars, pc, sweepVars, astray, restarts>>

-----------------------------------------------------------------------------
(* CheckActiveChain has something to do: the active chain has another      *)
(* block at the height of p, or is too short for it and off the last       *)
(* checkpoint block known.                                                 *)
AtHeight(b, h) == CHOOSE a \in Anc[b] : Height(a) = h
Mismatch(p, tip) ==
    /\ Height(p) >= 1
    /\ IF Height(tip) >= Height(p) THEN AtHeight(tip, Height(p)) # p
       ELSE ~Contains(tip, LastCheckpoint)

(* A checkpoint without its block, and candidates that are as high.        *)
Unseen(candidates) ==
    \E p \in points \ index : \E b \in candidates : Height(b) >= Height(p)

(* CheckActiveChain up to its loop, called for p when the chains and the   *)
(* candidates are those of the arguments.                                  *)
CheckActiveChain(p, tip, most, candidates) ==
    IF Mismatch(p, tip)
    THEN /\ pc' = "sweep"
         /\ target' = p
         /\ last' = LastCheckpoint
         /\ mostWork' = LastCheckpoint
         /\ at' = Best(candidates)
         /\ astray' = astray
                \cup (IF Height(LastCheckpoint) < Height(p) THEN {"rewound"} ELSE {})
                \cup (IF Unseen(candidates) THEN {"unseen"} ELSE {})
    ELSE /\ pc' = "idle"
         /\ mostWork' = most
         /\ UNCHANGED <<sweepVars, astray>>

(* A thread that added p gets g_cs_main. *)
Check(p) ==
    /\ pc = "idle"
    /\ p \in pending
    /\ pending' = pending \ {p}
    /\ CheckActiveChain(p, active, mostWork, valid)
    /\ UNCHANGED <<index, seq, valid, active, points, restarts>>

(* Its locals mean nothing once it has returned. *)
Released == target' = Genesis /\ last' = Genesis /\ at' = Nil

(* The loop goes on while the iterator is at a candidate off mostWork.     *)
Sweeping == pc = "sweep" /\ at # Nil /\ ~Contains(mostWork, at)
Fork(c) == CHOOSE f \in Anc[c] \cap Anc[mostWork] :
               \A a \in Anc[c] \cap Anc[mostWork] : Height(a) <= Height(f)

(* Which candidates go: before the checkpoint block is known, those that   *)
(* reach its height; once it is known, the whole branch of one that forks  *)
(* below it.                                                               *)
DoomedAtFork(c) ==
    IF Height(last) < Height(target)
    THEN {c} \cap {a \in Block : Height(a) >= Height(target)}
    ELSE {a \in Anc[c] \ Anc[Fork(c)] : Height(Fork(c)) <= Height(last)}
Doomed(c) ==
    IF Height(last) < Height(target)
    THEN {c} \cap {a \in Block : Height(a) >= Height(target)}
    ELSE {a \in Anc[c] \ Anc[Fork(c)] : Height(Fork(c)) < Height(last)}

(* The candidate is dropped, and the iterator starts over.                 *)
SweepErase ==
    /\ Sweeping /\ Doomed(at) # {}
    /\ valid' = valid \ Doomed(at)
    /\ at' = Best(valid')
    /\ UNCHANGED <<index, seq, active, mostWork, points, pending, pc, target,
                   last, astray, restarts>>

(* It stays, and becomes the chain to activate if it descends from the one *)
(* so far.                                                                 *)
SweepKeep ==
    /\ Sweeping /\ Doomed(at) = {}
    /\ mostWork' = IF Height(last) >= Height(target) /\ Fork(at) = mostWork
                   THEN at ELSE mostWork
    /\ at' = After(at)
    /\ UNCHANGED <<index, seq, valid, active, points, pending, pc, target, last,
                   astray, restarts>>

(* Blocks are disconnected and connected until the chains are the same;    *)
(* those connected are candidates again.                                   *)
SweepEnd ==
    /\ pc = "sweep" /\ ~Sweeping
    /\ active' = mostWork
    /\ valid' = valid \cup (Anc[mostWork] \ Anc[active])
    /\ pc' = "idle"
    /\ Released
    /\ UNCHANGED <<index, seq, mostWork, points, pending, astray, restarts>>

(* The process dies anywhere and starts again: LoadCheckpoint, the index   *)
(* with every block a candidate (LoadBlockIndexDB), ActivateBestChain.     *)
Restart ==
    /\ restarts < MaxRestarts
    /\ restarts' = restarts + 1
    /\ seq' = [b \in Block |-> 0]
    /\ valid' = index
    /\ active' = CHOOSE b \in index : \A c \in index :
                     Work[c] < Work[b] \/ (Work[c] = Work[b] /\ Address[c] >= Address[b])
    /\ mostWork' = active'
    /\ pending' = {}
    /\ pc' = "starting"
    /\ astray' = IF Unseen(index) THEN {"unseen"} ELSE {}
    /\ Released
    /\ UNCHANGED <<index, points>>

(* The next lines of AppInit. *)
StartCheckNone ==
    /\ pc = "starting"
    /\ pc' = "idle"
    /\ UNCHANGED <<chainVars, points, pending, sweepVars, astray, restarts>>
StartCheck ==
    /\ pc = "starting"
    /\ CheckActiveChain(LastCheckpoint, active, mostWork, valid)
    /\ UNCHANGED <<index, seq, valid, active, points, pending, restarts>>

-----------------------------------------------------------------------------
Sweep == SweepErase \/ SweepKeep \/ SweepEnd
Next ==
    \/ \E b \in Block : Arrive(b)
    \/ \E p \in Anc[Official] : AddCheckpoint(p) \/ Check(p)
    \/ Sweep
    \/ Restart
    \/ StartCheck
Spec == Init /\ [][Next]_vars

-----------------------------------------------------------------------------
(* At rest: no checkpoint is half way into the node.                       *)
Settled == pc = "idle" /\ pending = {}

(* A checkpoint locks: the active chain of a node at rest never has        *)
(* another block at the height of a checkpoint block the node knows,       *)
(* whatever arrived before, in whatever order, and whatever the node did   *)
(* until its last restart - except after the events of Cause.              *)
LockedIn ==
    Settled /\ astray = {} =>
        \A p \in points \cap index : Height(active) >= Height(p) => Contains(active, p)

(* And it costs no more than it must: nothing better is left aside than    *)
(* branches that a checkpoint forbids, unless the chain was rewound to make *)
(* room for a block that has not come.                                     *)
BestLocked ==
    Settled /\ "rewound" \notin astray =>
        \A b \in index :
            (\A p \in points : Contains(b, p) \/ (Height(b) < Height(p) /\ p \notin index))
                => ~Less(active, b)
=============================================================================
