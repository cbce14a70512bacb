------------------------------ MODULE Mempool ------------------------------
(***************************************************************************)
(* The transactions that wait for a block, and the miner that takes them.  *)
(*                                                                         *)
(* g_cTxMemPool keeps the transactions and a view of the accounts in which *)
(* all of them are executed.  The view is a CAccountViewCache on top of    *)
(* g_pAccountViewTip: what it holds stays, what it does not hold yet is    *)
(* read from the accounts of the tip when it is asked for, so that it goes *)
(* out of step when the tip moves.  ActivateBestChain has the pool execute *)
(* everything again (ReScanMemPoolTx) when its two loops are done; between *)
(* its steps the pool is out of step but g_cs_main is held.                *)
(*                                                                         *)
(* The miner builds a block under g_cs_main, searches for a stake without  *)
(* it, and must find the tip where it was when it submits the block.       *)
(*                                                                         *)
(* A transaction moves one coin from one account to another; fees, sizes,  *)
(* signatures and scripts are left out.  That g_pTxCacheTip holds the last *)
(* CacheHeight blocks at every moment is what TxConfirm shows.             *)
(***************************************************************************)
EXTENDS Integers, FiniteSets, SequencesExt

CONSTANTS
    Tx,           \* transactions other than the block rewards
    ValidHeight,  \* m_nValidHeight of each of them
    CacheHeight,  \* SysCfg().GetTxCacheHeight()
    Account,
    Payer,        \* m_cSrcRegId
    Payee,        \* m_cDesUserId
    Funds,        \* what the accounts hold in the genesis block
    HashOrder,    \* the transactions in the order of their hashes
    MaxHeight     \* bound: no block is connected above this height

ASSUME PoolAssumption ==
    /\ Payer \in [Tx -> Account] /\ Payee \in [Tx -> Account]
    /\ \A t \in Tx : Payer[t] # Payee[t]
    /\ Funds \in [Account -> Nat]
    /\ ValidHeight \in [Tx -> Int]
    /\ CacheHeight \in Nat \ {0} /\ MaxHeight \in Nat
    /\ HashOrder \in Seq(Tx) /\ IsInjective(HashOrder) /\ ToSet(HashOrder) = Tx

VARIABLES
    chain,     \* the transactions of the blocks of g_cChainActive
    funds,     \* g_pAccountViewTip
    pool,      \* m_mapTx of g_cTxMemPool
    poolView,  \* the accounts m_pAccountViewCache holds
    busy,      \* ActivateBestChain has g_cs_main
    fresh,     \* history: ReScanMemPoolTx ran after the tip last moved
    template   \* the block of the miner

tipVars == <<chain, funds, busy, fresh>>
poolVars == <<pool, poolView>>
vars == <<tipVars, poolVars, template>>

Blocks(s) == [i \in DOMAIN s |-> [height |-> i, txs |-> s[i], nonce |-> 0]]
RecentOf(s) == {Blocks(s)[i] : i \in {j \in DOMAIN s : j > Len(s) - CacheHeight}}

Confirm == INSTANCE TxConfirm WITH
    Nonce <- {0}, chain <- Blocks(chain), cached <- RecentOf(chain), tomb <- {}, db <- {}

(* No block is being mined.                                                *)
NoBlock == <<>>
(* sound is a history variable: the pool was fresh when the block was made. *)
Templates == [on : Seq(SUBSET Tx), txs : SUBSET Tx, sound : BOOLEAN]

TypeOK ==
    /\ chain \in Seq(SUBSET Tx)
    /\ funds \in [Account -> Nat]
    /\ pool \in SUBSET Tx
    /\ DOMAIN poolView \subseteq Account
    /\ \A a \in DOMAIN poolView : poolView[a] \in Nat
    /\ {busy, fresh} \subseteq BOOLEAN
    /\ template = NoBlock \/ template \in Templates

-----------------------------------------------------------------------------
(* Views of accounts: a layer over the accounts of the tip.                *)

Held(layer, base, a) == IF a \in DOMAIN layer THEN layer[a] ELSE base[a]

(* CAccountViewCache::GetAccount keeps what it read.                       *)
Read(layer, base, a) == [b \in DOMAIN layer \cup {a} |-> Held(layer, base, b)]

(* CTransaction::ExecuteTx of a common transaction.                        *)
CanPayOverdrawn(layer, base, t) == TRUE
CanPay(layer, base, t) == Held(layer, base, Payer[t]) > 0
Execute(layer, base, t) ==
    [a \in DOMAIN layer \cup {Payer[t], Payee[t]} |->
        Held(layer, base, a) + (IF a = Payee[t] THEN 1 ELSE 0)
                             - (IF a = Payer[t] THEN 1 ELSE 0)]

Moved(base, T, sign) ==
    [a \in Account |->
        base[a] + sign * (Cardinality({t \in T : Payee[t] = a})
                          - Cardinality({t \in T : Payer[t] = a}))]

(* A block can have its transactions in an order in which all can pay.     *)
Executable(base, T) ==
    \E s \in SetToSeqs(T) :
        \A i \in DOMAIN s :
            CanPay(<<>>, Moved(base, {s[j] : j \in 1..(i - 1)}, 1), s[i])

-----------------------------------------------------------------------------
(* The pool.  p has the entries and the layer.                             *)

Confirmed(t, s) == \E b \in RecentOf(s) : t \in b.txs
FitsAnyHeight(t, s) == ~Confirmed(t, s)

(* What CheckTxInMemPool asks on top of chain s.                           *)
Fits(t, s) == ~Confirmed(t, s) /\ Confirm!IsValidHeight(t, Len(s))

(* CheckTxInMemPool and what its caller does with the answer: execute on a *)
(* layer of its own, which is flushed into that of the pool on success.    *)
Checked(p, t, base, s) ==
    IF ~Fits(t, s) THEN [p EXCEPT !.txs = @ \ {t}]
    ELSE IF CanPay(p.layer, base, t)
         THEN [txs |-> p.txs \cup {t}, layer |-> Execute(p.layer, base, t)]
         ELSE [txs |-> p.txs \ {t}, layer |-> Read(p.layer, base, Payer[t])]

(* AcceptToMemoryPool.                                                     *)
Accepted(p, t, base, s) ==
    IF t \in p.txs THEN p ELSE Checked(p, t, base, s)

(* The transactions of a disconnected block, one after the other.          *)
PutBack(p, txs, base, s) ==
    LET Back[i \in 0..Len(txs)] ==
            IF i = 0 THEN p ELSE Accepted(Back[i - 1], txs[i], base, s)
    IN Back[Len(txs)]

RescannedOnTop(p, base, s) ==
    LET Scan[i \in 0..Len(HashOrder)] ==
            IF i = 0 THEN p
            ELSE IF HashOrder[i] \in p.txs
                 THEN Checked(Scan[i - 1], HashOrder[i], base, s) ELSE Scan[i - 1]
    IN Scan[Len(HashOrder)]

(* ReScanMemPoolTx.                                                        *)
Rescanned(p, base, s) ==
    LET Scan[i \in 0..Len(HashOrder)] ==
            IF i = 0 THEN [p EXCEPT !.layer = <<>>]
            ELSE IF HashOrder[i] \in p.txs
                 THEN Checked(Scan[i - 1], HashOrder[i], base, s) ELSE Scan[i - 1]
    IN Scan[Len(HashOrder)]

Pool == [txs |-> pool, layer |-> poolView]
SetPool(p) == pool' = p.txs /\ poolView' = p.layer

(* The pool after the tip moved, its last loop in ActivateBestChain over   *)
(* or not.  Without the rescan, the activation goes on or fails.           *)
AfterMove(p) ==
    \/ /\ SetPool(Rescanned(p, funds', chain'))
       /\ fresh' = TRUE
       /\ busy' \in BOOLEAN
    \/ /\ SetPool(p)
       /\ fresh' = FALSE
       /\ busy' \in BOOLEAN

(* Reading an account of the pool, as the wallet and the RPC calls do.     *)
GetRawBalance(a) ==
    /\ ~busy
    /\ poolView' = Read(poolView, funds, a)
    /\ UNCHANGED <<tipVars, pool, template>>

(* "tx" from a peer, or CommitTransaction of the wallet.                   *)
AcceptToMemoryPool(t) ==
    /\ ~busy
    /\ SetPool(Accepted(Pool, t, funds, chain))
    /\ UNCHANGED <<tipVars, template>>

-----------------------------------------------------------------------------
(* The active chain moves.                                                 *)

CanConnect(T) ==
    /\ Len(chain) < MaxHeight
    /\ \A t \in T : Fits(t, chain)
    /\ Executable(funds, T)

ConnectTip(T) ==
    /\ chain' = Append(chain, T)
    /\ funds' = Moved(funds, T, 1)

(* One turn of the second loop of ActivateBestChain.  ConnectTip takes the *)
(* transactions of the block out of the pool.                              *)
Connect(T) ==
    /\ CanConnect(T)
    /\ ConnectTip(T)
    /\ AfterMove([Pool EXCEPT !.txs = @ \ T])
    /\ UNCHANGED template

(* One turn of the first loop.  DisconnectTip puts the transactions of the *)
(* block back, in the order they have in the block, on the accounts as the *)
(* pool sees them then.                                                    *)
Disconnect ==
    /\ chain # <<>>
    /\ chain' = Front(chain)
    /\ funds' = Moved(funds, Last(chain), -1)
    /\ \E s \in SetToSeqs(Last(chain)) :
          AfterMove(PutBack(Pool, s, funds', chain'))
    /\ UNCHANGED template

-----------------------------------------------------------------------------
(* The miner.                                                              *)

(* CreateNewBlock: the limits on size and run steps and the priorities may *)
(* leave out any transaction.  IsValidHeight is not asked.                 *)
CreateNewBlock(T) ==
    /\ ~busy
    /\ \A t \in T : ~Confirmed(t, chain)
    /\ Executable(funds, T)
    /\ template' = [on |-> chain, txs |-> T, sound |-> fresh]
    /\ UNCHANGED <<tipVars, poolVars>>

SolvedIsAlwaysOnTip == TRUE

(* CheckWork compares hashPrevBlock with the tip.                          *)
SolvedIsOnTip == template.on = chain

(* CheckWork of a solved block.  ProcessBlock connects it if it is valid   *)
(* and extends the tip; a block beside the tip would only be recorded.     *)
CheckWork ==
    /\ ~busy
    /\ template # NoBlock
    /\ SolvedIsOnTip
    /\ Len(chain) < MaxHeight
    /\ IF template.on = chain /\ CanConnect(template.txs)
       THEN /\ ConnectTip(template.txs)
            /\ SetPool(Rescanned([Pool EXCEPT !.txs = @ \ template.txs], funds', chain'))
            /\ fresh' = TRUE
            /\ busy' = FALSE
       ELSE UNCHANGED <<tipVars, poolVars>>
    /\ template' = NoBlock

(* "generated block is stale", or MiningBlock gives up.                    *)
Abandon ==
    /\ template # NoBlock
    /\ template' = NoBlock
    /\ UNCHANGED <<tipVars, poolVars>>

-----------------------------------------------------------------------------
(* The pool is not written to disk.                                        *)
Restart ==
    /\ ~busy
    /\ SetPool([txs |-> {}, layer |-> <<>>])
    /\ template' = NoBlock
    /\ fresh' = TRUE
    /\ UNCHANGED <<chain, funds, busy>>

Init ==
    /\ chain = <<>>
    /\ funds = Funds
    /\ pool = {}
    /\ poolView = <<>>
    /\ busy = FALSE
    /\ fresh = TRUE
    /\ template = NoBlock

Next ==
    \/ \E a \in Account : GetRawBalance(a)
    \/ \E t \in Tx : AcceptToMemoryPool(t)
    \/ \E T \in SUBSET Tx : Connect(T)
    \/ Disconnect
    \/ \E T \in SUBSET pool : CreateNewBlock(T)
    \/ CheckWork
    \/ Abandon
    \/ Restart

Spec == Init /\ [][Next]_vars

-----------------------------------------------------------------------------
(* Whoever holds g_cs_main after a completed activation finds only         *)
(* transactions in the pool that the next block may have: not confirmed,   *)
(* and of a valid height for the tip, also after the tip moved back.       *)
PoolFitsNextBlock ==
    ~busy /\ fresh =>
        \A t \in pool :
            /\ \A i \in DOMAIN chain : t \notin chain[i]
            /\ Confirm!IsValidHeight(t, Len(chain))

(* The accounts the pool shows (getbalance, and the check of each further  *)
(* transaction) are those of the tip after all transactions of the pool    *)
(* and no other: nothing of a transaction that was confirmed, dropped or   *)
(* disconnected stays in them, however the layers were read meanwhile.     *)
PoolViewIsTipAndPool ==
    ~busy /\ fresh =>
        \A a \in Account : Held(poolView, funds, a) = Moved(funds, pool, 1)[a]

(* A block that the miner submits is connected, although CreateNewBlock    *)
(* asks for no valid height and the tip may have moved away, and back,     *)
(* while the stake was searched.                                           *)
SolvedBlockConnects ==
    [][CheckWork /\ template.sound => chain' = Append(chain, template.txs)]_vars
=============================================================================
