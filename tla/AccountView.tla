---------------------------- MODULE AccountView -----------------------------
(***************************************************************************)
(* The account views as they are stored: the account database, the tip     *)
(* cache on top of it (g_pAccountViewTip), and the child cache on which    *)
(* ConnectTip and DisconnectTip execute or undo one block.  Each has a map *)
(* of accounts by key and one of keys by registered id.  A cache keeps     *)
(* what it read, and an entry without a key stands for a removal.          *)
(*                                                                         *)
(* Everything happens under g_cs_main.  Other children of the tip (of the  *)
(* RPC, the miner, the memory pool) change the tip by reading through it,  *)
(* like the child here before it is dropped.                               *)
(***************************************************************************)
CONSTANTS Key, Id, Acct, None,
          Uncached   \* the map of a cache has no such entry

ASSUME SentinelAssumption ==
    /\ None \notin Acct \cup Key
    /\ Uncached \notin Acct \cup Key \cup {None}

VARIABLES
    open,          \* whether there is a child
    viewA, viewI,  \* m_mapCacheAccounts and m_mapCacheKeyIds of the child
    tipA, tipI,    \* the same of g_pAccountViewTip
    dbA, dbI,      \* the 'k' and the 'a' rows of the database
    flushed,       \* history: the accounts the last flush of the tip wrote
    erased         \* history: keys of accounts committed as removed since then

vars == <<open, viewA, viewI, tipA, tipI, dbA, dbI, flushed, erased>>

TypeOK ==
    /\ open \in BOOLEAN
    /\ viewA \in [Key -> Acct \cup {None, Uncached}]
    /\ viewI \in [Id -> Key \cup {None, Uncached}]
    /\ tipA \in [Key -> Acct \cup {Uncached}]
    /\ tipI \in [Id -> Key \cup {None, Uncached}]
    /\ dbA \in [Key -> Acct \cup {None}]
    /\ dbI \in [Id -> Key \cup {None}]
    /\ flushed \in [Key -> Acct \cup {None}]
    /\ erased \in SUBSET Key

Empty(S) == [x \in S |-> Uncached]

-----------------------------------------------------------------------------
(* The names that end in a deviation (ReadOnly, Marks, Through, Revives)   *)
(* are faulty variants of the definition that follows; nothing refers to   *)
(* them.                                                                   *)
OverRevives(cache, base) ==
    [x \in DOMAIN base |->
        IF cache[x] \in {Uncached, None} THEN base[x] ELSE cache[x]]

(* What a cache answers on top of a base.                                  *)
Over(cache, base) ==
    [x \in DOMAIN base |-> IF cache[x] = Uncached THEN base[x] ELSE cache[x]]

TipAccounts   == Over(tipA, dbA)
TipIds        == Over(tipI, dbI)
BlockAccounts == Over(viewA, TipAccounts)
BlockIds      == Over(viewI, TipIds)

(* A cache that was asked for x keeps what the base has.                   *)
Fetched(cache, base, x) ==
    [cache EXCEPT ![x] = IF @ = Uncached /\ base[x] # None THEN base[x] ELSE @]

-----------------------------------------------------------------------------
(* ConnectTip and DisconnectTip make a child of the tip.                   *)
OpenView ==
    /\ ~open
    /\ open' = TRUE
    /\ UNCHANGED <<viewA, viewI, tipA, tipI, dbA, dbI, flushed, erased>>

(* GetAccount(CKeyID), if the child does not have it. *)
GetAccount(k) ==
    /\ open
    /\ viewA[k] = Uncached
    /\ tipA' = Fetched(tipA, dbA, k)
    /\ viewA' = Fetched(viewA, TipAccounts, k)
    /\ UNCHANGED <<open, viewI, tipI, dbA, dbI, flushed, erased>>

(* GetKeyId(CRegID), likewise.                                             *)
GetKeyId(i) ==
    /\ open
    /\ viewI[i] = Uncached
    /\ tipI' = Fetched(tipI, dbI, i)
    /\ viewI' = Fetched(viewI, TipIds, i)
    /\ UNCHANGED <<open, viewA, tipA, dbA, dbI, flushed, erased>>

(* GetAccount(CRegID) of a known id: an account found under an id that was *)
(* cached before is not kept by the child, only by the tip.                *)
GetAccountById(i) ==
    LET k == BlockIds[i] IN
    /\ open
    /\ k # None
    /\ viewA[k] = Uncached
    /\ tipA' = Fetched(tipA, dbA, k)
    /\ \/ /\ viewI[i] # Uncached
          /\ UNCHANGED <<viewA, viewI, tipI>>
       \/ /\ viewI[i] = Uncached
          /\ tipI' = Fetched(tipI, dbI, i)
          /\ viewI' = Fetched(viewI, TipIds, i)
          /\ viewA' = Fetched(viewA, TipAccounts, k)
    /\ UNCHANGED <<open, dbA, dbI, flushed, erased>>

SetAccount(k, a) ==
    /\ open
    /\ viewA' = [viewA EXCEPT ![k] = a]
    /\ UNCHANGED <<open, viewI, tipA, tipI, dbA, dbI, flushed, erased>>

(* SetAccount(CRegID) knows the ids in the child only; its callers have    *)
(* just read the account by the same id.                                   *)
SetAccountById(i, a) ==
    /\ viewI[i] \in Key
    /\ SetAccount(viewI[i], a)

SaveAccountInfo(i, k, a) ==
    /\ open
    /\ viewI' = [viewI EXCEPT ![i] = k]
    /\ viewA' = [viewA EXCEPT ![k] = a]
    /\ UNCHANGED <<open, tipA, tipI, dbA, dbI, flushed, erased>>

EraseAccountReadOnly(k) ==
    /\ open
    /\ tipA' = Fetched(tipA, dbA, k)
    /\ viewA' = Fetched(viewA, TipAccounts, k)
    /\ UNCHANGED <<open, viewI, tipI, dbA, dbI, flushed, erased>>

(* EraseAccount marks what the child has, or what the tip has.             *)
EraseAccount(k) ==
    /\ open
    /\ \/ viewA[k] # Uncached /\ tipA' = tipA
       \/ viewA[k] = Uncached /\ tipA' = Fetched(tipA, dbA, k)
    /\ viewA' = [viewA EXCEPT ![k] = IF BlockAccounts[k] = None THEN @ ELSE None]
    /\ UNCHANGED <<open, viewI, tipI, dbA, dbI, flushed, erased>>

EraseKeyId(i) ==
    /\ open
    /\ \/ viewI[i] # Uncached /\ tipI' = tipI
       \/ viewI[i] = Uncached /\ tipI' = Fetched(tipI, dbI, i)
    /\ viewI' = [viewI EXCEPT ![i] = IF BlockIds[i] = None THEN @ ELSE None]
    /\ UNCHANGED <<open, viewA, tipA, dbA, dbI, flushed, erased>>

(* The block failed, or was only tried out: the child goes out of scope.   *)
DropView ==
    /\ open
    /\ open' = FALSE
    /\ viewA' = Empty(Key)
    /\ viewI' = Empty(Id)
    /\ UNCHANGED <<tipA, tipI, dbA, dbI, flushed, erased>>

Removed == {k \in Key : viewA[k] = None}

BatchWriteMarks ==
    /\ tipA' = [k \in Key |-> IF viewA[k] = Uncached THEN tipA[k] ELSE viewA[k]]
    /\ tipI' = [i \in Id |-> IF viewI[i] = Uncached THEN tipI[i] ELSE viewI[i]]
    /\ dbA' = dbA

BatchWriteThrough ==
    /\ tipA' = [k \in Key |-> IF k \in Removed THEN Uncached
                              ELSE IF viewA[k] = Uncached THEN tipA[k] ELSE viewA[k]]
    /\ tipI' = [i \in Id |-> IF viewI[i] = Uncached THEN tipI[i] ELSE viewI[i]]
    /\ dbA' = Over(viewA, dbA)

(* CAccountViewCache::BatchWrite of the tip.  A removed account leaves the *)
(* map of the tip and, by m_pBaseAccountView->EraseAccount, the database;  *)
(* a removed id stays as a mark.                                           *)
BatchWrite ==
    /\ tipA' = [k \in Key |-> IF k \in Removed THEN Uncached
                              ELSE IF viewA[k] = Uncached THEN tipA[k] ELSE viewA[k]]
    /\ tipI' = [i \in Id |-> IF viewI[i] = Uncached THEN tipI[i] ELSE viewI[i]]
    /\ dbA' = [k \in Key |-> IF k \in Removed THEN None ELSE dbA[k]]

(* Flush of the child, then it goes out of scope.                          *)
FlushView ==
    /\ open
    /\ BatchWrite
    /\ erased' = erased \cup Removed
    /\ open' = FALSE
    /\ viewA' = Empty(Key)
    /\ viewI' = Empty(Id)
    /\ UNCHANGED <<dbI, flushed>>

(* Flush of the tip: one batch of CAccountViewDB, with the best block.     *)
FlushTip ==
    /\ ~open
    /\ dbA' = TipAccounts
    /\ dbI' = TipIds
    /\ tipA' = Empty(Key)
    /\ tipI' = Empty(Id)
    /\ flushed' = dbA'
    /\ erased' = {}
    /\ UNCHANGED <<open, viewA, viewI>>

(* The process dies and starts again: only the database is left.           *)
Restart ==
    /\ open' = FALSE
    /\ viewA' = Empty(Key)
    /\ viewI' = Empty(Id)
    /\ tipA' = Empty(Key)
    /\ tipI' = Empty(Id)
    /\ UNCHANGED <<dbA, dbI, flushed, erased>>

Init ==
    /\ open = FALSE
    /\ viewA = Empty(Key)
    /\ viewI = Empty(Id)
    /\ tipA = Empty(Key)
    /\ tipI = Empty(Id)
    /\ dbA = [k \in Key |-> None]
    /\ dbI = [i \in Id |-> None]
    /\ flushed = dbA
    /\ erased = {}

Next ==
    \/ OpenView
    \/ \E k \in Key : GetAccount(k) \/ EraseAccount(k)
    \/ \E i \in Id : GetKeyId(i) \/ GetAccountById(i) \/ EraseKeyId(i)
    \/ \E k \in Key, a \in Acct : SetAccount(k, a)
    \/ \E i \in Id, a \in Acct : SetAccountById(i, a)
    \/ \E i \in Id, k \in Key, a \in Acct : SaveAccountInfo(i, k, a)
    \/ DropView
    \/ FlushView
    \/ FlushTip
    \/ Restart

Spec == Init /\ [][Next]_vars

-----------------------------------------------------------------------------
(* Whatever is cached where, the three layers are one pair of maps with a  *)
(* draft: no read, however it is routed and kept, changes an answer, no    *)
(* removed account or id comes back from a lower layer, a block that fails *)
(* leaves nothing behind.                                                  *)
Map == INSTANCE AccountMap WITH
           accounts <- TipAccounts, ids <- TipIds,
           draft <- BlockAccounts, draftIds <- BlockIds,
           saved <- dbA, savedIds <- dbI
ImplementsMap == Map!Spec

(* The converse for removals, which a stutter of the map would hide: what  *)
(* is erased is gone for the block at once, wherever it was kept.          *)
ErasedIsGone ==
    [][/\ \A k \in Key : EraseAccount(k) => BlockAccounts'[k] = None
       /\ \A i \in Id : EraseKeyId(i) => BlockIds'[i] = None]_vars

(* What a process that dies finds again is what was flushed last, except   *)
(* for the accounts whose removal was committed since: those have left the *)
(* database ahead of everything else the same blocks did.                  *)
ResumesAtFlush ==
    dbA = [k \in Key |-> IF k \in erased THEN None ELSE flushed[k]]
=============================================================================
