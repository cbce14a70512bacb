----------------------------- MODULE AccountMap -----------------------------
(***************************************************************************)
(* What the account views promise: accounts by key and keys by registered  *)
(* id, as two plain maps.  A block is executed or undone on a draft of     *)
(* them, which then replaces them or is thrown away; now and then they are *)
(* saved, and a process that dies comes back with what was saved.          *)
(*                                                                         *)
(* The promise has one blemish, and the specification states it: accounts  *)
(* that a committed draft removed are removed from the saved map at once   *)
(* (CAccountViewCache::BatchWrite).                                        *)
(***************************************************************************)
CONSTANTS
    Key,    \* CKeyID
    Id,     \* CRegID
    Acct,   \* contents of a CAccount, tombstones excepted
    None    \* no account, or no key

VARIABLES
    accounts, ids,           \* as of the tip
    draft, draftIds,         \* as of the block in progress
    saved, savedIds          \* as of the database

vars == <<accounts, ids, draft, draftIds, saved, savedIds>>

Put(k, a) ==
    /\ draft' = [draft EXCEPT ![k] = a]
    /\ UNCHANGED <<accounts, ids, draftIds, saved, savedIds>>

PutWithId(i, k, a) ==
    /\ draft' = [draft EXCEPT ![k] = a]
    /\ draftIds' = [draftIds EXCEPT ![i] = k]
    /\ UNCHANGED <<accounts, ids, saved, savedIds>>

PutId(i, k) ==
    /\ draftIds' = [draftIds EXCEPT ![i] = k]
    /\ UNCHANGED <<accounts, ids, draft, saved, savedIds>>

Discard ==
    /\ draft' = accounts
    /\ draftIds' = ids
    /\ UNCHANGED <<accounts, ids, saved, savedIds>>

Commit ==
    /\ accounts' = draft
    /\ ids' = draftIds
    /\ saved' = [k \in Key |-> IF draft[k] = None THEN None ELSE saved[k]]
    /\ UNCHANGED <<draft, draftIds, savedIds>>

Save ==
    /\ saved' = accounts
    /\ savedIds' = ids
    /\ UNCHANGED <<accounts, ids, draft, draftIds>>

Restart ==
    /\ accounts' = saved
    /\ ids' = savedIds
    /\ draft' = saved
    /\ draftIds' = savedIds
    /\ UNCHANGED <<saved, savedIds>>

Init ==
    /\ accounts = [k \in Key |-> None]
    /\ ids = [i \in Id |-> None]
    /\ draft = accounts
    /\ draftIds = ids
    /\ saved = accounts
    /\ savedIds = ids

Next ==
    \/ \E k \in Key, a \in Acct \cup {None} : Put(k, a)
    \/ \E i \in Id, k \in Key, a \in Acct : PutWithId(i, k, a)
    \/ \E i \in Id, k \in Key \cup {None} : PutId(i, k)
    \/ Discard
    \/ Commit
    \/ Save
    \/ Restart

Spec == Init /\ [][Next]_vars
=============================================================================
