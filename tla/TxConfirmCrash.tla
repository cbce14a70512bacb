--------------------------- MODULE TxConfirmCrash ---------------------------
(***************************************************************************)
(* TxConfirm on a node that stops between two steps.                       *)
(*                                                                         *)
(* The accounts, the tx cache and the records of the contracts live in     *)
(* three LevelDB databases.  WriteChainState and Shutdown write the        *)
(* accounts, whose best block is where the chain resumes, then the tx      *)
(* cache, then the contracts; the printblokdbinfo RPC writes the first and *)
(* the last.  ConnectBlock and DisconnectBlock work on child views of the  *)
(* accounts and contracts, dropped when they fail, but on the tip cache of *)
(* transactions itself.  What stands between a torn state and the running  *)
(* node is VerifyDB, which disconnects the last blocks in memory when the  *)
(* program starts and compares the tx cache, never the contracts.          *)
(***************************************************************************)
EXTENDS TxConfirm

CONSTANT VerifyDepth   \* -checkblocks, 288 by default

ASSUME VerifyDepthAssumption == VerifyDepth \in Nat \ {0}

VARIABLES
    disk,     \* chain up to the best block written with the accounts
    applied,  \* blocks whose contract writes the script cache in memory holds
    scripts,  \* those the script database holds
    phase,    \* where the process is, see Phase
    undone,   \* history: a tip was disconnected since the tx cache was written
    torn,     \* history: the accounts were written after such a disconnection
    damaged,  \* history: an event that WindowSurvives names happened
    cut       \* history: a crash fell between the accounts and the contracts

varsTx == <<chain, cached, tomb, db>>
varsC == <<varsTx, disk, applied, scripts, phase, undone, torn, damaged, cut>>

Phase == {"run",      \* running, nothing is being written
          "written",  \* WriteChainState wrote the accounts
          "cached",   \* and the tx cache
          "printing", \* printblokdbinfo wrote the accounts
          "stopping", \* Shutdown wrote the accounts
          "stopped",  \* and the tx cache
          "down",     \* the process is gone
          "corrupt"}  \* VerifyDB failed: "Corrupted block database detected"

Writing == {"written", "cached", "printing", "stopping", "stopped"}

TypeOKC ==
    /\ TypeOK
    /\ disk \in Seq(Block)
    /\ applied \subseteq Block
    /\ scripts \subseteq Block
    /\ phase \in Phase
    /\ {undone, torn, damaged, cut} \subseteq BOOLEAN

-----------------------------------------------------------------------------
(* The blocks the cache would have to find while VerifyDB disconnects the  *)
(* last VerifyDepth + 1 blocks of s, in memory, on a child of a cache that *)
(* holds rows.  A block that was reloaded on the way counts as present.    *)
VerifyDB(s, rows) ==
    \A h \in 1..Len(s) :
        h >= Len(s) - VerifyDepth =>
            s[h] \in rows \/ h + CacheHeight <= Len(s)

BlocksOf(s) == {s[i] : i \in 1..Len(s)}

(* The records of the contracts are followed until the first cut.          *)
Followed(blocks) == IF cut' THEN {} ELSE blocks

(* The accounts on disk become those of chain', with their best block.     *)
WriteAccounts(next) ==
    /\ phase' = next
    /\ disk' = chain'
    /\ torn' = undone'

(* WriteChainState, up to the point where the accounts are written.        *)
MaybeWriteAccounts == WriteAccounts("written") \/ UNCHANGED <<phase, disk, torn>>

(* ConnectTip until the tx cache would be flushed.                         *)
Connect(b) ==
    LET edge == AtWindowEdge(Append(chain, b), b.height) IN
    /\ phase = "run"
    /\ b.height = Len(chain) + 1
    /\ TxsConnectable(b)
    /\ \A e \in edge : IsContainBlock(e) \/ e = b
    /\ cached' = Entries({b}, edge)
    /\ tomb' = Deletions({b}, edge)
    /\ chain' = Append(chain, b)
    /\ UNCHANGED <<db, scripts, undone, damaged, cut>>
    /\ applied' = Followed(applied \cup {b})
    /\ MaybeWriteAccounts

(* ConnectBlock reached the block at the edge of the window and could not  *)
(* read it, or DeleteBlockFromCache did not find it: the child views are   *)
(* dropped, the tip cache keeps b.  Abort asks for a shutdown, which comes *)
(* some time later.                                                        *)
AbortConnect(b) ==
    /\ phase = "run"
    /\ b.height = Len(chain) + 1
    /\ TxsConnectable(b)
    /\ AtWindowEdge(Append(chain, b), b.height) # {}
    /\ cached' = Entries({b}, {})
    /\ tomb' = Deletions({b}, {})
    /\ damaged' = TRUE
    /\ UNCHANGED <<chain, db, disk, applied, scripts, phase, undone, torn, cut>>

(* DisconnectTip until the tx cache would be flushed.                      *)
Disconnect ==
    LET h    == Len(chain)
        edge == AtWindowEdge(chain, h)
    IN
    /\ phase = "run"
    /\ h > 0
    /\ IsContainBlock(chain[h])
    /\ cached' = Entries({}, {chain[h]}) \cup edge
    /\ tomb' = Deletions({}, {chain[h]}) \ edge
    /\ chain' = SubSeq(chain, 1, h - 1)
    /\ applied' = applied \ {chain[h]}
    /\ undone' = TRUE
    /\ UNCHANGED <<db, scripts, damaged, cut>>
    /\ MaybeWriteAccounts

(* DisconnectBlock could not read the block to bring back into the window, *)
(* after it had deleted the tip from the tip cache.                        *)
AbortDisconnect ==
    LET h == Len(chain) IN
    /\ phase = "run"
    /\ AtWindowEdge(chain, h) # {}
    /\ IsContainBlock(chain[h])
    /\ cached' = Entries({}, {chain[h]})
    /\ tomb' = Deletions({}, {chain[h]})
    /\ damaged' = TRUE
    /\ UNCHANGED <<chain, db, disk, applied, scripts, phase, undone, torn, cut>>

(* The second step of WriteChainState, or of Shutdown: the tx cache.       *)
WriteTxCache ==
    /\ phase \in {"written", "stopping"}
    /\ db' = BatchWrite(db, cached, tomb)
    /\ tomb' = {}
    /\ undone' = FALSE
    /\ torn' = FALSE
    /\ phase' = IF phase = "written" THEN "cached" ELSE "stopped"
    /\ UNCHANGED <<chain, cached, disk, applied, scripts, damaged, cut>>

(* The last step of the three: the script cache is written.                *)
WriteScripts ==
    /\ phase \in {"cached", "stopped", "printing"}
    /\ scripts' = applied
    /\ phase' = IF phase = "stopped" THEN "down" ELSE "run"
    /\ UNCHANGED <<varsTx, disk, applied, undone, torn, damaged, cut>>

(* Shutdown(), up to the accounts.                                         *)
Stop ==
    /\ phase = "run"
    /\ UNCHANGED <<varsTx, applied, scripts, undone, damaged, cut>>
    /\ WriteAccounts("stopping")

(* A printblokdbinfo that would write nothing but the accounts.            *)
PrintAccountsOnly ==
    /\ phase = "run"
    /\ UNCHANGED <<varsTx, applied, scripts, undone, damaged, cut>>
    /\ WriteAccounts("run")

(* printblokdbinfo, up to the accounts; the tx cache is not written.       *)
PrintBlockDBInfo ==
    /\ phase = "run"
    /\ UNCHANGED <<varsTx, applied, scripts, undone, damaged, cut>>
    /\ WriteAccounts("printing")

(* The process dies; only the three databases remain.                      *)
Crash ==
    /\ phase \in {"run"} \cup Writing
    /\ phase' = "down"
    /\ damaged' = (damaged \/ torn)
    /\ cut' = (cut \/ phase \in Writing)
    /\ undone' = FALSE
    /\ torn' = FALSE
    /\ chain' = disk
    /\ cached' = {}
    /\ tomb' = {}
    /\ applied' = {}
    /\ scripts' = Followed(scripts)
    /\ UNCHANGED <<db, disk>>

StartUnverified ==
    /\ phase = "down"
    /\ chain' = disk
    /\ cached' = db
    /\ tomb' = {}
    /\ applied' = scripts
    /\ phase' = "run"
    /\ UNCHANGED <<db, disk, scripts, undone, torn, damaged, cut>>

(* AppInit: LoadBlockIndexDB takes the tip from the accounts,              *)
(* LoadTransaction the tx cache from its database, VerifyDB compares.      *)
Start ==
    /\ phase = "down"
    /\ chain' = disk
    /\ cached' = db
    /\ tomb' = {}
    /\ applied' = scripts
    /\ phase' = IF VerifyDB(disk, db) THEN "run" ELSE "corrupt"
    /\ UNCHANGED <<db, disk, scripts, undone, torn, damaged, cut>>

(* The user agrees to "rebuild the block database": everything is wiped    *)
(* and the blocks are imported again.                                      *)
Reindex ==
    /\ phase = "corrupt"
    /\ chain' = <<>>
    /\ cached' = {}
    /\ tomb' = {}
    /\ db' = {}
    /\ disk' = <<>>
    /\ applied' = {}
    /\ scripts' = {}
    /\ phase' = "run"
    /\ undone' = FALSE
    /\ torn' = FALSE
    /\ damaged' = FALSE
    /\ cut' = FALSE

(* The reloadtxcache RPC: Clear() forgets the deletion marks too, and the  *)
(* loop starts one block below the window.  A mark that was not flushed    *)
(* yet leaves its row in the database for good.                            *)
ReloadTxCache ==
    /\ phase = "run"
    /\ cached' = Recent(chain) \cup AtWindowEdge(chain, Len(chain))
    /\ tomb' = {}
    /\ damaged' = (damaged \/ tomb \cap db # {})
    /\ UNCHANGED <<chain, db, disk, applied, scripts, phase, undone, torn, cut>>

InitC ==
    /\ Init
    /\ disk = <<>>
    /\ applied = {}
    /\ scripts = {}
    /\ phase = "run"
    /\ undone = FALSE
    /\ torn = FALSE
    /\ damaged = FALSE
    /\ cut = FALSE

NextC ==
    \/ \E b \in Candidate : Connect(b) \/ AbortConnect(b)
    \/ Disconnect
    \/ AbortDisconnect
    \/ WriteTxCache
    \/ WriteScripts
    \/ Stop
    \/ PrintBlockDBInfo
    \/ Crash
    \/ Start
    \/ Reindex
    \/ ReloadTxCache

SpecC == InitC /\ [][NextC]_varsC

-----------------------------------------------------------------------------
(* A crash at any point, a write torn after connections only and a stop    *)
(* leave a node that either refuses to start or forgets no recent block.   *)
(* Only three events can make the running node forget one: a crash when    *)
(* the accounts were written after a disconnection and the tx cache was    *)
(* not (within WriteChainState, or any time after printblokdbinfo), an     *)
(* abort in the middle of a block, and a reloadtxcache that dropped a      *)
(* deletion mark, whose stale row may later hide a torn write.             *)
WindowSurvives ==
    phase = "run" /\ ~damaged => Recent(chain) \subseteq cached

(* Consequently no crash lets a transaction be confirmed a second time,    *)
(* unless one of those three events came before.                           *)
ReplaySafeAcrossCrashes == ~damaged => NoDoubleConfirm

(* Across connections, disconnections, aborted blocks, stops, crashes and  *)
(* printblokdbinfo, the records of the contracts that a running node uses  *)
(* are those of exactly the blocks of its chain, unless a crash fell       *)
(* between the write of the accounts and that of the contracts: no start   *)
(* notices that one.                                                       *)
ScriptsInStep == phase = "run" /\ ~cut => applied = BlocksOf(chain)
=============================================================================
