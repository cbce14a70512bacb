------------------------------- MODULE Ledger -------------------------------
(***************************************************************************)
(* What the transactions of a block do to the accounts, and how that is    *)
(* undone.                                                                 *)
(*                                                                         *)
(* ConnectBlock executes the transactions of a block on a child view, then *)
(* its reward (index 0: the coin days of the miner are spent), then the    *)
(* reward of the block Maturity below (index -1: the money arrives).  Each *)
(* execution leaves a CTxUndo with the accounts it is about to change.     *)
(* DisconnectBlock undoes them in the reverse order: matured reward,       *)
(* reward, transactions from the last to the first, and in each of them    *)
(* the logs from the last to the first.  A step here is one transaction    *)
(* executed, or one log undone; a view whose block fails is dropped.       *)
(*                                                                         *)
(* An account is found by its key, or by its registered id <<height,       *)
(* index>>, the place of the transaction that registered it.  The account  *)
(* of a contract (an "app") has a key that is a hash of its id: here the   *)
(* id itself.  A log only restores value, coin days and height of an       *)
(* account that is still there.                                            *)
(***************************************************************************)
EXTENDS Integers, Sequences, SequencesExt, FiniteSetsExt

CONSTANTS
    User,          \* keys of people
    Genesis,       \* sequence of [key, value]: the reward transactions of block 0
    Amount,        \* amounts transferred or paid by a contract
    Fee,           \* fees offered
    Maturity,      \* COINBASE_MATURITY, 100
    PosReward,     \* POS_REWARD
    IntervalPos,   \* SysCfg().GetIntervalPos(), 1440
    MaxDay,        \* SysCfg().GetMaxDay(), 30 times IntervalPos
    RemainHeight,  \* g_sBlockRemainCoinDayHeight, 731400
    Width,         \* 2^64, what a uint64_t of coin days wraps at
    None,          \* no account, no key, no id
    MaxHeight,     \* bound: no block is connected above this height
    MaxTxs         \* bound: transactions of a block besides its reward

ASSUME LedgerNumbers ==
    /\ IsFiniteSet(User)
    /\ Amount \subseteq Nat /\ Fee \subseteq Nat
    /\ {Maturity, IntervalPos, MaxDay, Width} \subseteq Nat \ {0}
    /\ {PosReward, RemainHeight, MaxHeight, MaxTxs} \subseteq Nat
ASSUME LedgerGenesis ==
    /\ Genesis \in Seq([key : User, value : Nat])
    /\ \A i, j \in DOMAIN Genesis : Genesis[i].key = Genesis[j].key => i = j

Id == (0..MaxHeight) \X (0..(MaxTxs + Len(Genesis)))
Key == User \cup Id

(* CAccount; the miner's key is left out.  pub: m_cPublicKey belongs to    *)
(* the account (IsRegister).                                               *)
Account == [value : Nat, coin : Nat, height : Nat, pub : BOOLEAN, reg : Id \cup {None}]

ASSUME LedgerNone == None \notin Key \cup Account /\ User \cap Id = {}

(* One layer of the account and script views: accounts, keys by id, and    *)
(* the ids that have a script.                                             *)
World == [acct : [Key -> Account \cup {None}], ids : [Id -> Key \cup {None}],
          scripts : SUBSET Id]

(* CAccountLog, and a transaction with its CTxUndo.  For a reward, fee is  *)
(* its value.                                                              *)
Log == [key : Key, value : Nat, coin : Nat, height : Nat]
Entry == [type : {"register", "common", "contract", "app", "reward", "mature"},
          id : Id \cup {None}, user : Key, fee : Nat, fuel : Nat, logs : Seq(Log)]

VARIABLES
    tip,     \* the views of the tip
    chain,   \* the active chain above the genesis block, with its undo data
    before,  \* history: before[i] is the tip that chain[i] was connected to
    mode,    \* "idle", "connect", "rewarded" or "undo"
    view,    \* the child view of the block in progress
    block    \* its transactions executed so far, or still to be undone

vars == <<tip, chain, before, mode, view, block>>

TypeOK ==
    /\ tip \in World /\ view \in World
    /\ chain \in Seq(Seq(Entry)) /\ block \in Seq(Entry)
    /\ before \in Seq(World) /\ Len(before) = Len(chain)
    /\ mode \in {"idle", "connect", "rewarded", "undo"}

Height == Len(chain) + 1
NextId == <<Height, Len(block) + 1>>

-----------------------------------------------------------------------------
(* CAccount                                                                 *)

NewAccount == [value |-> 0, coin |-> 0, height |-> 0, pub |-> FALSE, reg |-> None]

(* Coin days up to height h, at most MaxDay per coin.                       *)
UpDateCoinDay(a, h) ==
    IF h <= a.height THEN a
    ELSE LET grown == (a.coin + a.value * (h - a.height)) % Width
             most == (a.value * MaxDay) % Width
         IN [a EXCEPT !.coin = IF grown > most THEN most ELSE grown, !.height = h]

RemainCoinDayPerCoin(a, v, h) == a.coin - v * IntervalPos

(* Coin days left when v of the value is spent: in proportion, but not     *)
(* below one interval of the former value if there was more than that.     *)
RemainCoinDay(a, v, h) ==
    LET rest == IF h < RemainHeight
                THEN a.coin - (v \div a.value) * a.coin
                ELSE (a.coin * (a.value - v)) \div a.value
        interval == (a.value * IntervalPos) % Width
    IN IF a.coin > interval /\ rest < interval THEN interval ELSE rest

Affordable(a, v) == v <= a.value

(* OperateAccount(EM_MINUS_FREE) and (EM_ADD_FREE)                          *)
Minus(a, v, h) ==
    LET b == UpDateCoinDay(a, h)
    IN IF v = 0 THEN b
       ELSE [b EXCEPT !.value = @ - v, !.coin = RemainCoinDay(b, v, h)]
Plus(a, v, h) == [UpDateCoinDay(a, h) EXCEPT !.value = @ + v]

ClearAccPosKept(a, h) == UpDateCoinDay(a, h)
ClearAccPos(a, h) == [UpDateCoinDay(a, h) EXCEPT !.coin = 0]

IsMiner(a, h) ==
    \/ h < 2 * IntervalPos
    \/ a.coin >= (a.value * IntervalPos) % Width

(* GetAccountPos(h) > 0 and IsMiner, as ConnectBlock asks of the miner      *)
MayStake(a, h) ==
    /\ UpDateCoinDay(a, h).coin > 0
    /\ IsMiner(UpDateCoinDay(a, h), h)

UndoOperateAccountKeepsCoin(a, l) == [a EXCEPT !.value = l.value, !.height = l.height]
UndoOperateAccount(a, l) ==
    [a EXCEPT !.value = l.value, !.coin = l.coin, !.height = l.height]

Bare(a) == a.value = 0 /\ ~a.pub

-----------------------------------------------------------------------------
(* Views                                                                    *)

(* GetKeyId and GetAccount of a CUserID: a user's key, or a registered id.  *)
KeyOf(w, u) == IF u \in Id THEN w.ids[u] ELSE u
Has(w, u) == KeyOf(w, u) # None /\ w.acct[KeyOf(w, u)] # None
AccountOf(w, u) == w.acct[KeyOf(w, u)]

SetAccount(w, k, a) == [w EXCEPT !.acct[k] = a]
EraseAccount(w, k) == [w EXCEPT !.acct[k] = None]

(* The account a transfer credits: one that is not there is created.        *)
Held(w, k) == IF w.acct[k] = None THEN NewAccount ELSE w.acct[k]
LogOf(w, k) == [key |-> k, value |-> Held(w, k).value, coin |-> Held(w, k).coin,
                height |-> Held(w, k).height]

Debit(w, k, v) == SetAccount(w, k, Minus(w.acct[k], v, Height))
Credit(w, k, v) == SetAccount(w, k, Plus(Held(w, k), v, Height))

(* CheckTransction: the sender must have registered its public key.         *)
MaySend(u, v) ==
    /\ Has(view, u)
    /\ AccountOf(view, u).pub
    /\ Affordable(AccountOf(view, u), v)

-----------------------------------------------------------------------------
(* Connecting a block                                                       *)

BeginConnect ==
    /\ mode = "idle"
    /\ Len(chain) < MaxHeight
    /\ mode' = "connect"
    /\ UNCHANGED <<tip, chain, before, view, block>>

(* A transaction of the block succeeded with view w and entry e.            *)
Executed(w, e) ==
    /\ view' = w
    /\ block' = Append(block, e)
    /\ UNCHANGED <<tip, chain, before, mode>>

(* CRegisterAccountTx::ExecuteTx; a fee of zero does not touch coin days.   *)
Register(k, fee) ==
    LET old == view.acct[k]
        paid == IF fee > 0 THEN Minus(old, fee, Height) ELSE old
    IN /\ old # None
       /\ ~old.pub
       /\ Affordable(old, fee)
       /\ Executed([SetAccount(view, k, [paid EXCEPT !.pub = TRUE, !.reg = NextId])
                       EXCEPT !.ids[NextId] = k],
                   [type |-> "register", id |-> NextId, user |-> k, fee |-> fee,
                    fuel |-> 0, logs |-> <<LogOf(view, k)>>])

(* CTransaction::ExecuteTx of a common transaction: to a registered id, or  *)
(* to a key, whose account is created when there is none.                   *)
Transfer(src, des, v, fee) ==
    /\ MaySend(src, v + fee)
    /\ LET from == view.ids[src]
           w == Debit(view, from, v + fee)
           to == KeyOf(w, des)
       IN /\ Has(w, des) \/ des \in User
          /\ Executed(Credit(w, to, v),
                      [type |-> "common", id |-> None, user |-> from, fee |-> fee,
                       fuel |-> 0, logs |-> <<LogOf(view, from), LogOf(w, to)>>])

(* The same of a contract: the money goes to the app, whose account and     *)
(* script must be there, then the virtual machine runs.  It may refuse, and *)
(* otherwise burns fuel and pays nobody (to = None) or moves money of the   *)
(* app's own account to an account that exists or to a key (CheckOperate).  *)
Contract(src, app, v, fee, fuel, to, pay) ==
    /\ MaySend(src, v + fee)
    /\ Has(view, app)
    /\ app \in view.scripts
    /\ fuel < fee
    /\ LET from == view.ids[src]
           owner == view.ids[app]
           w1 == Debit(view, from, v + fee)
           w2 == Credit(w1, owner, v)
           w3 == Debit(w2, owner, pay)
           k == KeyOf(view, to)
           entry(logs) == [type |-> "contract", id |-> None, user |-> from, fee |-> fee,
                           fuel |-> fuel,
                           logs |-> <<LogOf(view, from), LogOf(w1, owner)>> \o logs]
       IN IF to = None
          THEN Executed(w2, entry(<<>>))
          ELSE /\ Affordable(w2.acct[owner], pay)
               /\ Has(view, to) \/ to \in User
               /\ Executed(Credit(w3, k, pay), entry(<<LogOf(w2, owner), LogOf(w3, k)>>))

(* CRegisterAppTx::ExecuteTx: the script, the app's account, the fee, which *)
(* is never zero.                                                           *)
RegisterApp(src, fee, fuel) ==
    /\ fee > 0 /\ fuel <= fee
    /\ MaySend(src, fee)
    /\ LET from == view.ids[src]
           app == [NewAccount EXCEPT !.reg = NextId]
       IN Executed([Debit(SetAccount(view, NextId, app), from, fee)
                       EXCEPT !.ids[NextId] = NextId, !.scripts = @ \cup {NextId}],
                   [type |-> "app", id |-> NextId, user |-> from, fee |-> fee,
                    fuel |-> fuel, logs |-> <<LogOf(view, from)>>])

RewardUnburnt(txs) == PosReward + SumFunction([i \in DOMAIN txs |-> txs[i].fee])

(* What ConnectBlock demands as m_ullRewardValue.                           *)
RewardValue(txs) == PosReward + SumFunction([i \in DOMAIN txs |-> txs[i].fee - txs[i].fuel])

(* CRewardTransaction::ExecuteTx with index 0, after ConnectBlock's checks. *)
Reward(miner) ==
    /\ mode = "connect"
    /\ Has(view, miner)
    /\ MayStake(AccountOf(view, miner), Height)
    /\ LET k == view.ids[miner]
       IN /\ view' = SetAccount(view, k, ClearAccPos(view.acct[k], Height))
          /\ block' = Append(block, [type |-> "reward", id |-> miner, user |-> k,
                                     fee |-> RewardValue(block), fuel |-> 0,
                                     logs |-> <<LogOf(view, k)>>])
    /\ mode' = "rewarded"
    /\ UNCHANGED <<tip, chain, before>>

Commit(w, b) ==
    /\ tip' = w
    /\ view' = w
    /\ chain' = Append(chain, b)
    /\ before' = Append(before, tip)
    /\ block' = <<>>
    /\ mode' = "idle"

(* The reward of block b.                                                   *)
RewardOf(b) == CHOOSE e \in ToSet(b) : e.type = "reward"

(* Index -1: the reward of the block Maturity below is paid, without a look *)
(* at coin days; then the block is complete.                                *)
ConnectMature ==
    /\ mode = "rewarded"
    /\ Height > Maturity
    /\ LET due == RewardOf(chain[Height - Maturity])
           k == view.ids[due.id]
       IN /\ Has(view, due.id)
          /\ Commit(SetAccount(view, k, [view.acct[k] EXCEPT !.value = @ + due.fee]),
                    Append(block, [type |-> "mature", id |-> due.id, user |-> k,
                                   fee |-> due.fee, fuel |-> 0,
                                   logs |-> <<LogOf(view, k)>>]))

ConnectEarly ==
    /\ mode = "rewarded"
    /\ Height <= Maturity
    /\ Commit(view, block)

-----------------------------------------------------------------------------
(* Disconnecting a block                                                    *)

BeginUndo ==
    /\ mode = "idle"
    /\ chain # <<>>
    /\ mode' = "undo"
    /\ block' = Last(chain)
    /\ UNCHANGED <<tip, chain, before, view>>

Undoing(type) == mode = "undo" /\ block # <<>> /\ Last(block).type \in type

Undone(w) ==
    /\ view' = w
    /\ block' = Front(block)
    /\ UNCHANGED <<tip, chain, before, mode>>

(* CBaseTransaction::UndoExecuteTx takes back the last log of the last      *)
(* transaction; with its only log the transaction is undone.                *)
ByLogs == {"common", "contract", "reward", "mature"}
UndoLog ==
    /\ Undoing(ByLogs)
    /\ LET e == Last(block)
           l == Last(e.logs)
           old == UndoOperateAccount(view.acct[l.key], l)
           w == IF e.type = "common" /\ Bare(old)
                THEN EraseAccount(view, l.key) ELSE SetAccount(view, l.key, old)
       IN /\ view.acct[l.key] # None
          /\ IF Len(e.logs) = 1
             THEN Undone(w)
             ELSE /\ view' = w
                  /\ block' = [block EXCEPT ![Len(block)].logs = Front(@)]
                  /\ UNCHANGED <<tip, chain, before, mode>>

UndoRegisterKeepsKey ==
    /\ Undoing({"register"})
    /\ LET e == Last(block)
           k == view.ids[e.id]
           old == IF e.fee > 0 THEN UndoOperateAccount(view.acct[k], e.logs[1])
                  ELSE view.acct[k]
           w == IF old.value = 0 THEN EraseAccount(view, k) ELSE SetAccount(view, k, old)
       IN /\ Has(view, e.id)
          /\ Undone([w EXCEPT !.ids[e.id] = None])

(* CRegisterAccountTx::UndoExecuteTx: an account without money is erased,   *)
(* any other loses its public key but not the id written in it.             *)
UndoRegister ==
    /\ Undoing({"register"})
    /\ LET e == Last(block)
           k == view.ids[e.id]
           old == IF e.fee > 0 THEN UndoOperateAccount(view.acct[k], e.logs[1])
                  ELSE view.acct[k]
           w == IF old.value = 0 THEN EraseAccount(view, k)
                ELSE SetAccount(view, k, [old EXCEPT !.pub = FALSE])
       IN /\ Has(view, e.id)
          /\ Undone([w EXCEPT !.ids[e.id] = None])

(* CRegisterAppTx::UndoExecuteTx                                            *)
UndoRegisterApp ==
    /\ Undoing({"app"})
    /\ LET e == Last(block)
           old == UndoOperateAccount(view.acct[e.user], e.logs[1])
       IN /\ view.acct[e.user] # None
          /\ Undone([SetAccount(EraseAccount(view, e.id), e.user, old)
                        EXCEPT !.ids[e.id] = None, !.scripts = @ \ {e.id}])

EndUndo ==
    /\ mode = "undo"
    /\ block = <<>>
    /\ tip' = view
    /\ chain' = Front(chain)
    /\ before' = Front(before)
    /\ mode' = "idle"
    /\ UNCHANGED <<view, block>>

(* The account that the next step of an undo reads is not there.            *)
UndoStuck ==
    \/ Undoing(ByLogs) /\ view.acct[Last(Last(block).logs).key] = None
    \/ Undoing({"register"}) /\ ~Has(view, Last(block).id)
    \/ Undoing({"app"}) /\ view.acct[Last(block).user] = None

(* A block that is refused, or cannot be undone: its view is dropped.       *)
Drop ==
    /\ mode \in {"connect", "rewarded"} \/ UndoStuck
    /\ mode' = "idle"
    /\ view' = tip
    /\ block' = <<>>
    /\ UNCHANGED <<tip, chain, before>>

-----------------------------------------------------------------------------
(* ConnectBlock of the genesis block: accounts with key, id and money.      *)
GenesisWorld ==
    [acct |-> [k \in Key |->
        IF \E i \in DOMAIN Genesis : Genesis[i].key = k
        THEN LET i == CHOOSE i \in DOMAIN Genesis : Genesis[i].key = k
             IN [NewAccount EXCEPT !.value = Genesis[i].value, !.pub = TRUE,
                                   !.reg = <<0, i>>]
        ELSE None],
     ids |-> [id \in Id |-> IF id[1] = 0 /\ id[2] \in DOMAIN Genesis
                            THEN Genesis[id[2]].key ELSE None],
     scripts |-> {}]

Init ==
    /\ tip = GenesisWorld /\ view = GenesisWorld
    /\ chain = <<>> /\ before = <<>> /\ block = <<>>
    /\ mode = "idle"

(* The ids that name a key: every id a transaction of use can refer to.     *)
Registered == {id \in Id : view.ids[id] # None}

Executing ==
    /\ mode = "connect"
    /\ Len(block) < MaxTxs
    /\ \/ \E k \in User, fee \in Fee : Register(k, fee)
       \/ \E src \in Registered, des \in User \cup Registered, v \in Amount, fee \in Fee :
             Transfer(src, des, v, fee)
       \/ \E src \in Registered, app \in view.scripts,
             to \in User \cup Registered \cup {None},
             v, pay \in Amount, fee, fuel \in Fee :
             Contract(src, app, v, fee, fuel, to, pay)
       \/ \E src \in Registered, fee, fuel \in Fee : RegisterApp(src, fee, fuel)

Next ==
    \/ BeginConnect
    \/ Executing
    \/ \E miner \in Registered : Reward(miner)
    \/ ConnectMature
    \/ ConnectEarly
    \/ BeginUndo
    \/ UndoLog
    \/ UndoRegister
    \/ UndoRegisterApp
    \/ EndUndo
    \/ Drop

Spec == Init /\ [][Next]_vars

-----------------------------------------------------------------------------
(* Properties                                                               *)

ValueOf(w, k) == Held(w, k).value
Money(w) == SumFunction([k \in Key |-> ValueOf(w, k)])

(* The fuel that the transactions of a block burnt.                         *)
Burnt(b) == SumFunction([i \in DOMAIN b |-> b[i].fuel])

(* Money is neither made nor lost, through any blocks connected and undone: *)
(* the accounts, the rewards still to mature and the fuel burnt add up to   *)
(* the genesis block and one POS_REWARD per block (ExecuteTx,               *)
(* UndoExecuteTx, and the reward that ConnectBlock demands).                *)
Conservation ==
    mode = "idle" =>
        LET Immature == {i \in DOMAIN chain : i + Maturity > Len(chain)}
        IN Money(tip) + SumFunction([i \in Immature |-> RewardOf(chain[i]).fee])
                      + SumFunction([i \in DOMAIN chain |-> Burnt(chain[i])])
           = Money(GenesisWorld) + PosReward * Len(chain)

(* What counts of an account for the blocks to come: its money, and the     *)
(* coin days it has at the next height.                                     *)
Worth(w, k) ==
    [value |-> ValueOf(w, k), coin |-> UpDateCoinDay(Held(w, k), Height).coin]

(* A block disconnected leaves each key with the money and the coin days it *)
(* had before the block was connected, although an account without money    *)
(* may have come or gone (DisconnectBlock).                                 *)
UndoRestoresWorth ==
    [][Len(chain') < Len(chain) =>
        \A k \in Key : Worth(tip, k)' =
            [value |-> ValueOf(Last(before), k),
             coin |-> UpDateCoinDay(Held(Last(before), k), Height').coin]]_vars

(* The blocks whose reward went to key k, and what of it is not paid yet    *)
(* when block i begins.                                                     *)
MinedBy(k) == {i \in DOMAIN chain : RewardOf(chain[i]).user = k}
Pending(k, i) == SumFunction([j \in {j \in MinedBy(k) : j < i /\ j + Maturity >= i}
                                 |-> RewardOf(chain[j]).fee])

(* Coin days, the right to make blocks, are earned: no account has more of  *)
(* them than one per coin and block it held since it last made a block, a   *)
(* reward counting from the block it was made in (UpDateCoinDay,            *)
(* OperateAccount, ClearAccPos, and the reward that matures without an      *)
(* update of the coin days).                                                *)
CoinDaysEarned ==
    mode = "idle" =>
        \A k \in Key :
            LET since == {i \in DOMAIN chain : \A m \in MinedBy(k) : m < i}
            IN UpDateCoinDay(Held(tip, k), Len(chain)).coin
                 <= SumFunction([i \in since |-> ValueOf(before[i], k) + Pending(k, i)])

(* An account with a public key is found by the id written in it, also when *)
(* registrations of a branch were undone and their ids given to others.     *)
RegisteredIsFound ==
    \A k \in Key : Held(view, k).pub =>
        view.acct[k].reg \in Id /\ view.ids[view.acct[k].reg] = k

(* Block undo always finds the accounts its undo data speaks of: "Undo the  *)
(* effects of this block (with given index)" (main.h, DisconnectBlock).     *)
UndoFindsAccounts == ~UndoStuck
=============================================================================
