----------------------------- MODULE OrphanPool -----------------------------
(***************************************************************************)
(* Blocks whose parent is unknown.                                         *)
(*                                                                         *)
(* ProcessBlock holds such a block in three containers at once: by hash    *)
(* (g_mapOrphanBlocks), by parent (g_mapOrphanBlocksByPrev) and by height  *)
(* (g_setOrphanBlock).  The last one compares heights only, so that it     *)
(* holds one block of each height, and erasing a block from it erases the  *)
(* one of the same height, whichever that is.  PruneOrphanBlocks takes its *)
(* victim from there when the number of orphans reached the limit, and the *)
(* loop at the end of ProcessBlock accepts the orphans that a new block    *)
(* makes connectable.  All of it runs under g_cs_main.                     *)
(***************************************************************************)
EXTENDS Integers, FiniteSets

CONSTANTS
    Block,      \* every block there is but the genesis block, by hash
    Genesis,
    Prev,       \* hashPrevBlock
    Height,     \* the height in the header, not checked before AcceptBlock
    MaxOrphans  \* MAX_ORPHAN_BLOCKS

Known == Block \cup {Genesis}

ASSUME BlockAssumption ==
    /\ IsFiniteSet(Block)
    /\ Genesis \notin Block
    /\ Prev \in [Block -> Known]
    /\ Height \in [Known -> Nat]
ASSUME MaxOrphansAssumption == MaxOrphans \in Nat

VARIABLES
    index,    \* g_mapBlockIndex
    orphans,  \* g_mapOrphanBlocks
    byPrev,   \* g_mapOrphanBlocksByPrev
    ordered,  \* g_setOrphanBlock
    pending,  \* vcWorkQueue, from the current element on; its order is left out
    failed    \* history: recorded in the index, but AcceptBlock returned false

vars == <<index, orphans, byPrev, ordered, pending, failed>>

TypeOK ==
    /\ index \in SUBSET Known
    /\ {orphans, byPrev, ordered} \subseteq SUBSET Block
    /\ pending \in SUBSET index
    /\ failed \in SUBSET index

-----------------------------------------------------------------------------
(* ST_OrphanBlockComparator: neither is before the other.                  *)
Equivalent(a, b) == Height[a] = Height[b]

(* insert and erase of a std::set with this comparator.                    *)
Inserted(set, b) == IF \E o \in set : Equivalent(o, b) THEN set ELSE set \cup {b}
Erased(set, blocks) == {o \in set : \A b \in blocks : ~Equivalent(o, b)}

(* AcceptBlock can only be right about these among the blocks.             *)
HeightMatches(b) == Height[b] = Height[Prev[b]] + 1

-----------------------------------------------------------------------------
(* The names that end in a deviation are faulty variants of the definition *)
(* that follows; nothing refers to them.                                   *)

(* PruneOrphanBlocks has to make room first.                               *)
IsFull == Cardinality(byPrev) > MaxOrphans

IsHighest(top) == top \in ordered /\ \A o \in ordered : Height[o] <= Height[top]

PruneKeepsRow(top, b) ==
    /\ orphans' = orphans \cup {b}
    /\ byPrev' = (byPrev \ {top}) \cup {b}
    /\ ordered' = Inserted(Erased(ordered, {top}), b)

PruneKeepsPointer(top, b) ==
    /\ orphans' = (orphans \ {top}) \cup {b}
    /\ byPrev' = (byPrev \ {top}) \cup {b}
    /\ ordered' = Inserted(ordered, b)

(* PruneOrphanBlocks drops top, and ProcessBlock holds b.                  *)
Prune(top, b) ==
    /\ orphans' = (orphans \ {top}) \cup {b}
    /\ byPrev' = (byPrev \ {top}) \cup {b}
    /\ ordered' = Inserted(Erased(ordered, {top}), b)

CanArrive(b) == pending = {} /\ b \notin index \cup orphans

(* ProcessBlock of a block without its parent, from a peer.  At the limit  *)
(* a block that is not below the highest one is abandoned.  PushGetBlocks  *)
(* and g_nSyncTipHeight are left out.                                      *)
HoldOrphan(b) ==
    /\ CanArrive(b)
    /\ Prev[b] \notin index
    /\ \/ /\ ~IsFull
          /\ orphans' = orphans \cup {b}
          /\ byPrev' = byPrev \cup {b}
          /\ ordered' = Inserted(ordered, b)
       \/ /\ IsFull
          /\ \E top \in ordered :
                IsHighest(top) /\ Height[top] > Height[b] /\ Prune(top, b)
    /\ UNCHANGED <<index, pending, failed>>

AcceptBlockUnrecorded(b) ==
    /\ CanArrive(b)
    /\ Prev[b] \in index
    /\ HeightMatches(b)
    /\ pending' = {b}
    /\ UNCHANGED <<index, orphans, byPrev, ordered, failed>>

(* ProcessBlock of a block whose parent is known, up to the loop: it is    *)
(* accepted, refused, or recorded by AddToBlockIndex and then not accepted *)
(* because ActivateBestChain failed.                                       *)
AcceptBlock(b) ==
    /\ CanArrive(b)
    /\ Prev[b] \in index
    /\ HeightMatches(b)
    /\ index' = index \cup {b}
    /\ \/ pending' = {b} /\ failed' = failed
       \/ pending' = {} /\ failed' = failed \cup {b}
    /\ UNCHANGED <<orphans, byPrev, ordered>>

ResolveFirstOnly(p) ==
    LET children == {c \in byPrev : Prev[c] = p} IN
    \E recorded \in SUBSET {c \in children : HeightMatches(c)} :
    \E accepted \in SUBSET recorded :
        /\ index' = index \cup recorded
        /\ failed' = failed \cup (recorded \ accepted)
        /\ pending' = pending \ {p}
        /\ orphans' = orphans \ children
        /\ byPrev' = byPrev \ children
        /\ ordered' = Erased(ordered, children)

(* One turn of the outer loop: every orphan that waits for p is given to   *)
(* AcceptBlock and released, those that were accepted are queued.          *)
Resolve(p) ==
    LET children == {c \in byPrev : Prev[c] = p} IN
    \E recorded \in SUBSET {c \in children : HeightMatches(c)} :
    \E accepted \in SUBSET recorded :
        /\ index' = index \cup recorded
        /\ failed' = failed \cup (recorded \ accepted)
        /\ pending' = (pending \ {p}) \cup accepted
        /\ orphans' = orphans \ children
        /\ byPrev' = byPrev \ children
        /\ ordered' = Erased(ordered, children)

(* The process ends, whether or not in the loop; the index is on disk.     *)
Restart ==
    /\ orphans' = {}
    /\ byPrev' = {}
    /\ ordered' = {}
    /\ pending' = {}
    /\ UNCHANGED <<index, failed>>

Init ==
    /\ index = {Genesis}
    /\ orphans = {}
    /\ byPrev = {}
    /\ ordered = {}
    /\ pending = {}
    /\ failed = {}

Next ==
    \/ \E b \in Block : HoldOrphan(b) \/ AcceptBlock(b)
    \/ \E p \in pending : Resolve(p)
    \/ Restart

Spec == Init /\ [][Next]_vars

-----------------------------------------------------------------------------
(* The three containers agree: g_mapOrphanBlocks and                       *)
(* g_mapOrphanBlocksByPrev hold the same blocks, and no pointer of         *)
(* g_setOrphanBlock outlives its block, although erasing one block may     *)
(* remove the entry of another.                                            *)
NoDanglingOrphan == byPrev = orphans /\ ordered \subseteq orphans

(* The memory held for orphans is bounded: one more than                   *)
(* MAX_ORPHAN_BLOCKS, since PruneOrphanBlocks compares before insertion.   *)
OrphansBounded == Cardinality(orphans) <= MaxOrphans + 1

(* PruneOrphanBlocks takes the last element of g_setOrphanBlock without    *)
(* asking whether there is one.  Orphans of equal height hide each other   *)
(* in it, but never all of them when the limit is reached.                 *)
PruneHasChoice == Cardinality(byPrev) > MaxOrphans => ordered # {}

(* No orphan is left behind when its parent enters the index (AlreadyHave  *)
(* would keep it from being asked for again), unless AcceptBlock returned  *)
(* false for a parent it had recorded.                                     *)
StrandedOnlyByFailure ==
    \A b \in orphans : Prev[b] \in index => Prev[b] \in pending \cup failed
=============================================================================
