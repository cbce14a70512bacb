----------------------------- MODULE ForkViews -----------------------------
(* How a block of a side branch is checked before it is accepted: on views *)
(* of the accounts as they are on that branch, kept in g_mapCache.         *)
(*                                                                         *)
(* AcceptBlock calls CheckBlockProofWorkWithCoinDayEx.  If the block would *)
(* have as much work as the tip, it and the blocks below it down to the    *)
(* active chain, or to one g_mapCache has a view of, are checked one by    *)
(* one.  For one whose parent has more work than the tip (a branch the     *)
(* node does not follow, see Checkpoints), CheckBlockProofWorkWithCoinDay  *)
(* needs a view at that parent.  It is a stack: the blocks of the branch   *)
(* were executed on a view above one of the fork, which is a copy of the   *)
(* tip's cache over the database with the active blocks undone.  Views are *)
(* used again, extended in place, and read what they do not have from the  *)
(* layers below at the moment they need it.                                *)
(*                                                                         *)
(* An account is known by the last block that wrote it.  The choice of the *)
(* active chain is left open here: one block at a time is connected or     *)
(* disconnected.  Accounts exist from the start; removed ones are the      *)
(* subject of AccountView.                                                 *)
EXTENDS BlockTree, Sequences

CONSTANTS
    Account,
    Writes,      \* the accounts a block changes
    Bad,         \* blocks that fail when they are executed on their parent
    Unread,      \* a layer knows nothing of the account
    IntervalPos, \* how far below the tip a fork may be
    MaxViews     \* bound on the views created between two clears

ASSUME WritesAssumption == Writes \in [Block -> SUBSET Account] /\ Writes[Genesis] = Account
ASSUME BadAssumption == Bad \subseteq Block \ {Genesis}
ASSUME BoundsAssumption == IntervalPos \in Nat /\ MaxViews \in Nat
ASSUME UnreadAssumption == Unread \notin Block \cup {Nil}

VARIABLES
    index,     \* g_mapBlockIndex
    active,    \* tip of g_cChainActive
    db,        \* g_pAccountViewDB
    tip,       \* the map of g_pAccountViewTip
    views,     \* the views behind the pointers, in the order of their creation
    mapCache,  \* g_mapCache: from blocks to views
    incoming,  \* the block AcceptBlock is at, Nil if g_cs_main is free
    queue,     \* the blocks that are still to be checked for it
    astray,    \* history: what happened to the views since the last clear, see Cause
    misjudged  \* history: a block was checked on something else than its parent

treeVars == <<index, active>>
dataVars == <<db, tip>>
viewVars == <<views, mapCache>>
forkVars == <<treeVars, dataVars, viewVars, incoming, queue, astray, misjudged>>

(* own: the map of the view.  base: the view it reads from, 0 for the      *)
(* database.  best: m_cHashBlock.  built: the block whose view was below   *)
(* it when it was new (no such member exists).                             *)
View == [own: [Account -> Block \cup {Unread, Nil}], base: Nat, best: Block, built: Block]

(* What can go wrong with the views while they are kept. *)
Cause == {"poisoned",   \* a check failed after it had extended a kept view
          "rebased",    \* a view was put on one of a lower fork than it was built on
          "outgrown",   \* a check extended a view that another view is based on
          "undermined"} \* the database was written and the views were kept

TypeOKFork ==
    /\ index \in SUBSET Block
    /\ active \in index
    /\ db \in [Account -> Block]
    /\ tip \in [Account -> Block \cup {Unread}]
    /\ views \in Seq(View) /\ \A v \in 1..Len(views) : views[v].base \in 0..Len(views)
    /\ mapCache \in [DOMAIN mapCache -> 1..Len(views)] /\ DOMAIN mapCache \subseteq index
    /\ incoming \in Block \cup {Nil}
    /\ queue \in SUBSET Block
    /\ astray \in SUBSET Cause
    /\ misjudged \in BOOLEAN

-----------------------------------------------------------------------------
Lowest(blocks)  == CHOOSE b \in blocks : \A c \in blocks : Height(b) <= Height(c)
Highest(blocks) == CHOOSE b \in blocks : \A c \in blocks : Height(b) >= Height(c)

(* What the account is on the branch that ends with b. *)
Truth(b, k) == Highest({a \in Anc[b] : k \in Writes[a]})

OffChain(b) == Anc[b] \ Anc[active]
ForkOf(b) == Highest(Anc[b] \cap Anc[active])
TooDeep(b) == Height(active) - Height(ForkOf(b)) > IntervalPos

(* The views a read of the account reaches from v: one that does not know  *)
(* the account asks the one below it.                                      *)
Asked(vs, v, k) ==
    {w \in 1..Len(vs) :
        \A S \in SUBSET (1..Len(vs)) :
            /\ v \in S
            /\ \A u \in S : vs[u].own[k] = Unread /\ vs[u].base # 0 => vs[u].base \in S
            => w \in S}
Knowing(vs, v, k) == {w \in Asked(vs, v, k) : vs[w].own[k] # Unread}

(* GetAccount: the topmost layer that knows the account answers, and those *)
(* above it keep the answer.                                               *)
GetAccountOf(vs, v, k) ==
    IF Knowing(vs, v, k) = {} THEN db[k]
    ELSE vs[CHOOSE w \in Knowing(vs, v, k) : TRUE].own[k]
Filled(vs, v, keys) ==
    LET asked  == [k \in keys |-> Asked(vs, v, k)]
        answer == [k \in keys |-> GetAccountOf(vs, v, k)]
    IN  [w \in 1..Len(vs) |-> [vs[w] EXCEPT !.own =
            [k \in Account |-> IF k \in keys /\ vs[w].own[k] = Unread /\ w \in asked[k]
                               THEN answer[k] ELSE vs[w].own[k]]]]

(* A copy of the tip's cache on the database, with the active blocks above *)
(* the fork undone: the undo data hold the accounts as they were.          *)
BaseView(fork) ==
    [own   |-> [k \in Account |->
                   IF \E b \in Anc[active] \ Anc[fork] : k \in Writes[b]
                   THEN Truth(fork, k) ELSE tip[k]],
     base  |-> 0,
     best  |-> fork,
     built |-> fork]

(* ConnectBlock of each of the blocks on view v.  What it makes of an      *)
(* account depends on what it read; the first failing block stops it after *)
(* having changed accounts.                                                *)
Connected(vs, v, blocks) ==
    LET failing  == blocks \cap Bad
        done     == {b \in blocks : Anc[b] \cap failing = {}}
        executed == IF failing = {} THEN done ELSE done \cup {Lowest(failing)}
        written  == UNION {Writes[b] : b \in executed}
        own      == [k \in Account |->
                        IF k \notin written THEN vs[v].own[k]
                        ELSE IF GetAccountOf(vs, v, k) # Truth(vs[v].best, k) THEN Nil
                        ELSE Highest({b \in executed : k \in Writes[b]})]
        best     == IF done = {} THEN vs[v].best ELSE Highest(done)
        others   == Filled(vs, v, written)
    IN  [w \in 1..Len(vs) |->
            IF w = v
            THEN [own |-> own, base |-> vs[v].base, best |-> best, built |-> vs[v].built]
            ELSE others[w]]

-----------------------------------------------------------------------------
NoViews == views' = <<>> /\ mapCache' = <<>> /\ astray' = {} /\ misjudged' = FALSE

InitFork ==
    /\ index = {Genesis}
    /\ active = Genesis
    /\ db = [k \in Account |-> Genesis]
    /\ tip = [k \in Account |-> Unread]
    /\ views = <<>>
    /\ mapCache = <<>>
    /\ incoming = Nil
    /\ queue = {}
    /\ astray = {}
    /\ misjudged = FALSE

(* Names that end in a deviation are faulty variants of the definition that *)
(* follows; nothing refers to them.                                        *)
FlushedWhole(map) == map

(* The account part of Flush. *)
Flushed(map) == [k \in Account |-> IF map[k] = Unread THEN db[k] ELSE map[k]]
NothingRead == [k \in Account |-> Unread]

(* ConnectTip or DisconnectTip left this in the tip's map; WriteChainState *)
(* writes it, and clears g_mapCache, or waits.                             *)
WriteChainStateKeeps(map) ==
    \/ tip' = map /\ UNCHANGED <<db, viewVars, astray, misjudged>>
    \/ tip' = NothingRead /\ db' = Flushed(map) /\ UNCHANGED <<viewVars, astray, misjudged>>
WriteChainState(map) ==
    \/ tip' = map /\ UNCHANGED <<db, viewVars, astray, misjudged>>
    \/ tip' = NothingRead /\ db' = Flushed(map) /\ NoViews

ConnectTip(b) ==
    /\ incoming = Nil
    /\ b \in index \ Bad /\ b # Genesis /\ Prev[b] = active
    /\ active' = b
    /\ WriteChainState([k \in Account |-> IF k \in Writes[b] THEN b ELSE tip[k]])
    /\ UNCHANGED <<index, incoming, queue>>

DisconnectTip ==
    /\ incoming = Nil
    /\ active # Genesis
    /\ active' = Prev[active]
    /\ WriteChainState([k \in Account |-> IF k \in Writes[active]
                                          THEN Truth(Prev[active], k) ELSE tip[k]])
    /\ UNCHANGED <<index, incoming, queue>>

(* The RPC printblokdbinfo, and -blocklog in ConnectTip, flush the         *)
(* accounts and leave g_mapCache alone.                                    *)
FlushOnly ==
    /\ incoming = Nil
    /\ tip # NothingRead
    /\ tip' = NothingRead /\ db' = Flushed(tip)
    /\ astray' = IF views = <<>> THEN astray ELSE astray \cup {"undermined"}
    /\ UNCHANGED <<treeVars, viewVars, incoming, queue, misjudged>>

(* AcceptBlock up to CheckBlockProofWorkWithCoinDayEx, which collects the  *)
(* blocks of the branch down to the fork or to one with a view, without    *)
(* it.  They need two new views at most: MaxViews bounds the model.        *)
Arrive(b) ==
    /\ incoming = Nil
    /\ b \notin index /\ Prev[b] \in index
    /\ incoming' = b
    /\ IF Prev[b] # active /\ Work[b] >= Work[active]
       THEN /\ OffChain(Prev[b]) # {} => ~TooDeep(Prev[b])
            /\ Len(views) + 2 <= MaxViews
            /\ queue' = {b} \cup {c \in OffChain(Prev[b]) :
                   \A a \in OffChain(Prev[b]) \cap DOMAIN mapCache : c \notin Anc[a]}
       ELSE queue' = {}
    /\ UNCHANGED <<treeVars, dataVars, viewVars, astray, misjudged>>

(* Only above a parent with more work than the tip is there anything to do. *)
NeedsView(c) == Prev[c] # active /\ Work[Prev[c]] > Work[active]

CheckNothing ==
    /\ queue # {} /\ ~NeedsView(Lowest(queue))
    /\ queue' = queue \ {Lowest(queue)}
    /\ UNCHANGED <<treeVars, dataVars, viewVars, incoming, astray, misjudged>>

(* A block passed its check, or AcceptBlock refuses the incoming one.      *)
Answer(c, ok) ==
    /\ queue' = IF ok THEN queue \ {c} ELSE {}
    /\ incoming' = IF ok THEN incoming ELSE Nil

(* CheckBlockProofWorkWithCoinDay: the blocks between the view and c are   *)
(* executed, of c itself only the stake, the reward, the heights and the   *)
(* duplicates are looked at, so that a bad one may pass.                   *)
CheckOnView ==
    /\ queue # {} /\ NeedsView(Lowest(queue))
    /\ LET c     == Lowest(queue)
           p     == Prev[c]
           fork  == ForkOf(p)
           kept  == OffChain(p) \cap DOMAIN mapCache
           todo  == {b \in OffChain(p) : \A a \in kept : b \notin Anc[a]}
           isNew == fork \notin DOMAIN mapCache
           base  == IF isNew THEN Len(views) + 1 ELSE mapCache[fork]
           based == IF isNew THEN Append(views, BaseView(fork)) ELSE views
           v     == IF kept = {} THEN Len(based) + 1 ELSE mapCache[Highest(kept)]
           start == IF kept = {}
                    THEN Append(based, [own |-> NothingRead, base |-> base,
                                        best |-> based[base].best, built |-> fork])
                    ELSE [based EXCEPT ![v].base = base]
           grows == kept # {} /\ todo # {}
           ended == Filled(Connected(start, v, todo), v, Writes[c])
           right == /\ todo # {} => start[v].best = Prev[Lowest(todo)]
                    /\ todo \cap Bad = {} => ended[v].best = p
                    /\ \A k \in Account : ended[v].own[k] # Nil
                    /\ \A k \in Writes[c] : todo \cap Bad = {} =>
                           GetAccountOf(ended, v, k) = Truth(p, k)
       IN  /\ misjudged' = (misjudged \/ ~right)
           /\ \E ok \in BOOLEAN :
                 /\ right /\ todo \cap Bad # {} => ~ok
                 /\ right /\ (todo \cup {c}) \cap Bad = {} => ok
                 /\ Answer(c, ok)
                 /\ views' = IF ok \/ kept # {} THEN ended ELSE SubSeq(ended, 1, Len(based))
                 /\ mapCache' =
                       [b \in (DOMAIN mapCache \cup {fork} \cup (IF ok THEN {p} ELSE {}))
                               \ (IF ok /\ todo # {} THEN {Highest(kept) : x \in kept} ELSE {}) |->
                          IF b = p /\ ok THEN v ELSE IF b = fork THEN base ELSE mapCache[b]]
                 /\ astray' = astray
                       \cup (IF grows /\ ~ok THEN {"poisoned"} ELSE {})
                       \cup (IF grows /\ \E u \in 1..Len(start) : start[u].base = v
                             THEN {"outgrown"} ELSE {})
                       \cup (IF kept # {} /\ start[v].built \notin Anc[fork]
                             THEN {"rebased"} ELSE {})
    /\ UNCHANGED <<treeVars, dataVars>>

(* AcceptBlock goes on to AddToBlockIndex.                                 *)
Accept ==
    /\ incoming # Nil /\ queue = {}
    /\ index' = index \cup {incoming}
    /\ incoming' = Nil
    /\ UNCHANGED <<active, dataVars, viewVars, queue, astray, misjudged>>

-----------------------------------------------------------------------------
NextFork ==
    \/ \E b \in Block : ConnectTip(b) \/ Arrive(b)
    \/ DisconnectTip
    \/ FlushOnly
    \/ CheckNothing
    \/ CheckOnView
    \/ Accept
SpecFork == InitFork /\ [][NextFork]_forkVars

-----------------------------------------------------------------------------
(* CheckBlockProofWorkWithCoinDay: whatever moved in between (the tip, the *)
(* database, other branches), a block of a branch is judged on the         *)
(* accounts as its own parent left them and at its parent's height, unless *)
(* since the last clear of g_mapCache a check failed half way, a branch    *)
(* lost its fork, a view moved on below another one, or the accounts were  *)
(* flushed and the views were kept.                                        *)
JudgedOnParent == astray = {} => ~misjudged
=============================================================================
