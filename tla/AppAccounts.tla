---------------------------- MODULE AppAccounts ----------------------------
(***************************************************************************)
(* The money of the users of one app (contract).                           *)
(*                                                                         *)
(* An app has one account in the ledger.  What part of it belongs to whom  *)
(* is written in the script database, in a CAppUserAccout for each user:   *)
(* an amount that is free and funds that are frozen under a tag until some *)
(* height, or until some block time for the apps that were registered      *)
(* after g_sBlockTime4AppAccountHeight.  Frozen funds become free when the *)
(* record is next loaded (AutoMergeFreezeToFree).                          *)
(*                                                                         *)
(* A call of the contract is a transaction that brings some money; the     *)
(* program may pay money out and asks for changes of the records, which    *)
(* CVmRunEvn::run checks against each other if the program sets            *)
(* gCheckAccount, as the apps here do, and applies when the program ended. *)
(* What the program computes is any choice: the interpreters are not part  *)
(* of this module, their library calls that concern the records are.       *)
(*                                                                         *)
(* Amounts are positive and heights of funds too, as the assertions of     *)
(* CAppCFund want them.  All sums stay below the money there is, so that   *)
(* the tests for overflow never matter.                                    *)
(***************************************************************************)
EXTENDS Integers, SequencesExt, FiniteSetsExt

CONSTANTS
    User,      \* the users of the app
    Tag,       \* tags of funds
    MaxTime,   \* bound: times and heights until which funds are frozen
    MaxMoney,  \* bound: what the account of the app may hold
    MaxOp,     \* bound: money of one operation that a program asks for
    MaxHeight, \* bound: no block above this height
    MaxCalls   \* bound: calls of the contract in all these blocks

(* Users and tags are strings of bounded length.                           *)
ASSUME BoundAssumption ==
    /\ IsFiniteSet(User) /\ IsFiniteSet(Tag)
    /\ {MaxTime, MaxMoney, MaxOp, MaxHeight, MaxCalls} \subseteq Nat \ {0}

VARIABLES
    byTime, \* the app was registered after g_sBlockTime4AppAccountHeight
    chain,  \* the blocks of g_cChainActive since
    open,   \* the calls so far in the block that is being connected
    world,  \* the records of the users, and the account of the app
    past    \* history: the worlds before each block of the chain, and now

vars == <<byTime, chain, open, world, past>>

FundKey == [tag : Tag, until : 1..MaxTime]
Money == 1..MaxMoney

Funds == UNION {[K -> Money] : K \in SUBSET FundKey}
Record == [free : 0..MaxMoney, frozen : Funds]
Worlds == [users : UNION {[U -> Record] : U \in SUBSET User}, held : 0..MaxMoney]

NewRecord == [free |-> 0, frozen |-> <<>>]

-----------------------------------------------------------------------------
(* One record.                                                             *)

FundOf(a, key) == IF key \in DOMAIN a.frozen THEN a.frozen[key] ELSE 0

(* AddAppCFund: funds of one tag and height are merged.                    *)
AddAppCFund(a, key, money) ==
    [a EXCEPT !.frozen = [k \in DOMAIN @ \cup {key} |->
                             IF k = key THEN FundOf(a, k) + money ELSE a.frozen[k]]]

MinusAppCFund(a, key, money) ==
    IF FundOf(a, key) = money
    THEN [a EXCEPT !.frozen = Restrict(@, DOMAIN @ \ {key})]
    ELSE [a EXCEPT !.frozen[key] = @ - money]

AutoMergeFreezeToFreeKept(a, now) ==
    LET due == {k \in DOMAIN a.frozen : k.until <= now} IN
    [a EXCEPT !.free = @ + SumFunctionOnSet(a.frozen, due)]

AutoMergeFreezeToFree(a, now) ==
    LET due == {k \in DOMAIN a.frozen : k.until <= now} IN
    [free   |-> a.free + SumFunctionOnSet(a.frozen, due),
     frozen |-> Restrict(a.frozen, DOMAIN a.frozen \ due)]

(* CAppFundOperate; the key of the first two kinds is irrelevant.          *)
Op(kind, key, money) == [kind |-> kind, key |-> key, money |-> money]

CanOperateUnchecked(a, op) == TRUE
CanOperate(a, op) ==
    \/ op.kind \in {"addFree", "addTag"}
    \/ op.kind = "subFree" /\ op.money <= a.free
    \/ op.kind = "subTag" /\ op.money <= FundOf(a, op.key)

Operated(a, op) ==
    CASE op.kind = "addFree" -> [a EXCEPT !.free = @ + op.money]
      [] op.kind = "subFree" -> [a EXCEPT !.free = @ - op.money]
      [] op.kind = "addTag"  -> AddAppCFund(a, op.key, op.money)
      [] op.kind = "subTag"  -> MinusAppCFund(a, op.key, op.money)

(* CAppUserAccout::Operate of all that the program asked for one user.     *)
Operate(a, ops) ==
    FoldLeft(LAMBDA r, op : IF r.ok /\ CanOperate(r.record, op)
                            THEN [r EXCEPT !.record = Operated(@, op)]
                            ELSE [r EXCEPT !.ok = FALSE],
             [ok |-> TRUE, record |-> a], ops)

-----------------------------------------------------------------------------
(* The library calls of a program, and the operations they ask for.        *)

Nowhere == CHOOSE k \in FundKey : TRUE
Kinds == {"addFree", "subFree"} \X {Nowhere} \cup {"addTag", "subTag"} \X FundKey
Ops == {Op(k[1], k[2], m) : k \in Kinds, m \in 1..MaxOp}
Adds(op) == op.kind \in {"addFree", "addTag"}

(* m_MapAppOperate: what the program asked for each user, in its order.    *)
InsertOutAPPOperte(ops, user, op) ==
    [u \in DOMAIN ops \cup {user} |->
        IF u # user THEN ops[u]
        ELSE Append(IF u \in DOMAIN ops THEN ops[u] ELSE <<>>, op)]

(* Now of AutoMergeFreezeToFree at height h with s as the active chain.    *)
MergeTime(h, s) ==
    LET i == IF h <= Len(s) THEN h ELSE Len(s) IN
    IF ~byTime THEN h ELSE IF i = 0 THEN 0 ELSE s[i].time

(* ExTransferContactAsset: all that from has.  The record is merged at the *)
(* height of the tip, not at the height the program runs at.               *)
Assets(a, free, tag) ==
    LET keys == SetToSeq(DOMAIN a.frozen) IN
    (IF a.free > 0 THEN <<Op(free, Nowhere, a.free)>> ELSE <<>>)
        \o [i \in DOMAIN keys |-> Op(tag, keys[i], a.frozen[keys[i]])]

TransferContactAsset(from, to, w, s) ==
    LET a == AutoMergeFreezeToFree(w.users[from], MergeTime(Len(s), s)) IN
    IF from \notin DOMAIN w.users \/ a = NewRecord THEN <<>>
    ELSE [u \in {from, to} |-> IF u = from THEN Assets(a, "subFree", "subTag")
                               ELSE Assets(a, "addFree", "addTag")]

(* A program asks for one operation, for two that move or freeze some      *)
(* money (ExTransferSomeAsset, or two of ExWriteOutAppOperateFunc), or for *)
(* the transfer of everything.                                             *)
Programs ==
    {[ask |-> "ops", ops |-> InsertOutAPPOperte(<<>>, u, op)] : u \in User, op \in Ops}
    \cup {[ask |-> "ops", ops |-> InsertOutAPPOperte(InsertOutAPPOperte(<<>>, u, o[1]), v, o[2])] :
             u, v \in User,
             o \in {p \in Ops \X Ops : ~Adds(p[1]) /\ Adds(p[2]) /\ p[1].money = p[2].money}}
    \cup {[ask |-> "all", from |-> p[1], to |-> p[2]] :
             p \in {q \in User \X User : q[1] # q[2]}}

OpsOf(program, w, s) ==
    IF program.ask = "ops" THEN program.ops
    ELSE TransferContactAsset(program.from, program.to, w, s)

(* CheckAppAcctOperate: value came with the transaction, out the app pays. *)
Change(op) == IF Adds(op) THEN op.money ELSE -op.money
Total(ops) ==
    SumFunction([u \in DOMAIN ops |-> SumFunction([i \in DOMAIN ops[u] |-> Change(ops[u][i])])])
CheckAppAcctOperate(ops, value, out) == Total(ops) = value - out

LoadedAsStored(w, u, now) ==
    IF u \in DOMAIN w.users THEN w.users[u] ELSE NewRecord

(* GetAppUserAccout.                                                       *)
Loaded(w, u, now) ==
    IF u \in DOMAIN w.users THEN AutoMergeFreezeToFree(w.users[u], now) ELSE NewRecord

(* OpeatorAppAccount at height h.                                          *)
OpeatorAppAccount(ops, w, h, s) ==
    [u \in DOMAIN ops |-> Operate(Loaded(w, u, MergeTime(h, s)), ops[u])]

Written(results, w) ==
    [u \in DOMAIN results \cup DOMAIN w.users |->
        IF u \in DOMAIN results THEN results[u].record ELSE w.users[u]]

(* What UndoExecuteTx needs: the records that were there.                  *)
LogOf(results, w) ==
    [touched |-> DOMAIN results,
     users   |-> Restrict(w.users, DOMAIN results \cap DOMAIN w.users),
     held    |-> w.held]

(* UndoExecuteTx.                                                          *)
Undo(w, log) ==
    [users |-> [u \in DOMAIN log.users \cup (DOMAIN w.users \ log.touched) |->
                   IF u \in DOMAIN log.users THEN log.users[u] ELSE w.users[u]],
     held  |-> log.held]

-----------------------------------------------------------------------------
Height == Len(chain) + 1

(* ConnectBlock comes to a call of the contract: CVmRunEvn::run.  The app  *)
(* pays out to somebody else, or to itself, which CheckAppAcctOperate      *)
(* counts all the same.                                                    *)
Call(program, value, out, self) ==
    LET ops     == OpsOf(program, world, chain)
        results == OpeatorAppAccount(ops, world, Height, chain)
    IN
    /\ CheckAppAcctOperate(ops, value, out)
    /\ out <= world.held + value
    /\ \A u \in DOMAIN results : results[u].ok
    /\ world' = [users |-> Written(results, world),
                 held  |-> world.held + value - (IF self THEN 0 ELSE out)]
    /\ open' = Append(open, [program |-> program, log |-> LogOf(results, world)])
    /\ UNCHANGED <<byTime, chain, past>>

(* ConnectBlock ends, UpdateTip.  The time of a block is above the median  *)
(* of eleven, not above that of its parent; it matters only if byTime.     *)
Connect(time) ==
    /\ Height <= MaxHeight
    /\ byTime \/ time = 1
    /\ chain' = Append(chain, [time |-> time, txs |-> open])
    /\ open' = <<>>
    /\ past' = Append(past, world)
    /\ UNCHANGED <<byTime, world>>

DisconnectForwards ==
    /\ chain # <<>>
    /\ open = <<>>
    /\ world' = FoldLeft(LAMBDA w, tx : Undo(w, tx.log), world, Last(chain).txs)
    /\ chain' = Front(chain)
    /\ past' = Front(past)
    /\ UNCHANGED <<byTime, open>>

(* DisconnectBlock, in the reverse order.                                  *)
Disconnect ==
    /\ chain # <<>>
    /\ open = <<>>
    /\ world' = FoldRight(LAMBDA tx, w : Undo(w, tx.log), Last(chain).txs, world)
    /\ chain' = Front(chain)
    /\ past' = Front(past)
    /\ UNCHANGED <<byTime, open>>

CallsIn(s) == FoldLeft(LAMBDA n, block : n + Len(block.txs), 0, s)

Init ==
    /\ byTime \in BOOLEAN
    /\ chain = <<>>
    /\ open = <<>>
    /\ world = [users |-> <<>>, held |-> 0]
    /\ past = <<world>>

Next ==
    \/ /\ Height <= MaxHeight
       /\ CallsIn(chain) + Len(open) < MaxCalls
       /\ \E p \in Programs, value, out \in 0..MaxMoney, self \in BOOLEAN :
             /\ self => out > 0
             /\ world.held + value <= MaxMoney
             /\ Call(p, value, out, self)
    \/ \E time \in 1..MaxTime : Connect(time)
    \/ Disconnect

Spec == Init /\ [][Next]_vars

-----------------------------------------------------------------------------
Owned(a) == a.free + SumFunction(a.frozen)
OwnedByUsers(w) ==
    SumFunction([u \in User |-> IF u \in DOMAIN w.users THEN Owned(w.users[u]) ELSE 0])

TypeOK ==
    /\ byTime \in BOOLEAN
    /\ world \in Worlds
    /\ Len(past) = Len(chain) + 1
    /\ \A i \in DOMAIN past : past[i] \in Worlds

(* What the users of an app own, free or frozen, never exceeds what the    *)
(* account of the app holds, whatever the contract asks for and however    *)
(* blocks come and go: no fund is freed twice, or lost and made up for.    *)
FundsAreBacked == OwnedByUsers(world) <= world.held

(* DisconnectBlock gives back every record as it was before the block,     *)
(* also one that several calls of the block changed, with the funds that   *)
(* matured in between frozen again.                                        *)
UndoRestoresRecords == open = <<>> => world = Last(past)

(* "Transfer all assets" (doc of mylib.TransferContactAsset): a program    *)
(* that only does this succeeds, and leaves the sender with nothing, free  *)
(* or frozen, unless a fund matures at the very height it runs at: the     *)
(* call still takes it for frozen, its execution does not.                 *)
TransferMovesAll ==
    \A from \in DOMAIN world.users : \A to \in User \ {from} :
        LET ops     == TransferContactAsset(from, to, world, chain)
            results == OpeatorAppAccount(ops, world, Height, chain)
        IN
        \/ /\ \A u \in DOMAIN results : results[u].ok
           /\ Owned(Written(results, world)[from]) = 0
        \/ ~byTime /\ \E k \in DOMAIN world.users[from].frozen : k.until = Height
=============================================================================
