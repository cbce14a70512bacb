---------------------------- MODULE BlockDownload ----------------------------
(***************************************************************************)
(* Which peer is asked for which block.                                    *)
(*                                                                         *)
(* A block that a peer announces is queued at that peer and at no other    *)
(* (AddBlockToQueue), SendMessages moves it to the blocks in flight when   *)
(* it asks the peer for it, and it leaves when it comes, from whichever    *)
(* peer, or when the node state of the peer is thrown away.  Each of the   *)
(* two queues is kept as a list and a counter in the state of the peer and *)
(* as an entry of a global map.  The message thread, the socket thread and *)
(* the RPC threads share them under g_cs_main; this module adds them to    *)
(* the orphan pool, into which the blocks that come are put.               *)
(*                                                                         *)
(* Two clocks matter.  m_llLastRecv moves with any bytes that a peer       *)
(* sends, and m_llLastRecv alone says whether it is inactive.              *)
(* llLastBlockProcess moves when a message of the peer is handed to        *)
(* ProcessMessage, which a message that is incomplete, has a bad header or *)
(* a bad checksum never is; stalling is measured from it.  A tick is a     *)
(* unit of time.                                                           *)
(***************************************************************************)
EXTENDS OrphanPool, SequencesExt

CONSTANTS
    Peer,
    MaxInFlight,  \* MAX_BLOCKS_IN_TRANSIT_PER_PEER
    Timeout,      \* BLOCK_DOWNLOAD_TIMEOUT, in ticks
    Inactivity,   \* the 90 minutes of ThreadSocketHandler, in ticks
    Own           \* the blocks that may come from submitblock or the miner

ASSUME DownloadAssumption ==
    /\ IsFiniteSet(Peer) /\ Own \subseteq Block
    /\ {MaxInFlight, Timeout, Inactivity} \subseteq Nat \ {0}

VARIABLES
    nodes,     \* the domain of g_mapNodeState
    closing,   \* those with m_bDisconnect
    queues,    \* the queues of g_mapNodeState and the two global maps
    quiet      \* the time since m_llLastRecv, of peers that are not closing

peerVars == <<nodes, closing, queues, quiet>>
downloadVars == <<vars, peerVars>>

(* Beyond these a time makes no difference.                                *)
Oldest == 2 * Timeout + 1
Longest == Inactivity + 1

(* A time the code keeps (llTime, llLastBlockReceive), by how long ago it  *)
(* was and by how long it was before llLastBlockProcess; the latter is 0   *)
(* when it was after it.                                                   *)
Stamp == [age : 0..Oldest, before : 0..Oldest]
Fresh == [age |-> 0, before |-> 0]

(* flyingAt and queuedAt are g_mapBlocksInFlight and g_mapBlocksToDownload *)
(* without the iterators.  received is llLastBlockReceive while a block is *)
(* in flight; it is set anew when the first one is.                        *)
Queues ==
    [toDownload : [Peer -> Seq(Block)],
     inFlight   : [Peer -> Seq([hash : Block, time : Stamp])],
     nQueued    : [Peer -> Nat],
     nFlying    : [Peer -> Nat],
     queuedAt   : UNION {[B -> Peer] : B \in SUBSET Block},
     flyingAt   : UNION {[B -> Peer] : B \in SUBSET Block},
     received   : [Peer -> Stamp]]

TypeOKDownload ==
    /\ TypeOK
    /\ nodes \in SUBSET Peer
    /\ closing \in SUBSET nodes
    /\ queues \in Queues
    /\ quiet \in [Peer -> 0..Longest]

NoQueues ==
    [toDownload |-> [p \in Peer |-> <<>>],
     inFlight   |-> [p \in Peer |-> <<>>],
     nQueued    |-> [p \in Peer |-> 0],
     nFlying    |-> [p \in Peer |-> 0],
     queuedAt   |-> <<>>,
     flyingAt   |-> <<>>,
     received   |-> [p \in Peer |-> Fresh]]

Hashes(entries) == [i \in DOMAIN entries |-> entries[i].hash]
Without(function, keys) == Restrict(function, DOMAIN function \ keys)
With(function, key, value) ==
    [k \in DOMAIN function \cup {key} |-> IF k = key THEN value ELSE function[k]]

(* The entry of a list a global map points to, by its key.                 *)
Iterator(list, b) == CHOOSE i \in DOMAIN list : list[i] = b

-----------------------------------------------------------------------------
(* The operations on the queues.                                           *)

LeaveQueue(q, b) ==
    IF b \notin DOMAIN q.queuedAt THEN q
    ELSE LET p == q.queuedAt[b] IN
         [q EXCEPT !.toDownload[p] = RemoveAt(@, Iterator(@, b)),
                   !.nQueued[p] = @ - 1,
                   !.queuedAt = Without(@, {b})]

LeaveFlight(q, b, from) ==
    IF b \notin DOMAIN q.flyingAt THEN q
    ELSE LET p == q.flyingAt[b] IN
         [q EXCEPT !.inFlight[p] = RemoveAt(@, Iterator(Hashes(@), b)),
                   !.nFlying[p] = @ - 1,
                   !.flyingAt = Without(@, {b}),
                   !.received[p] = IF {p} = from THEN Fresh ELSE @]

MarkReceivedInFlightOnly(q, b, from) == LeaveFlight(q, b, from)

MarkReceivedAny(q, b, from) ==
    LET r == LeaveFlight(LeaveQueue(q, b), b, from) IN
    [r EXCEPT !.received = [p \in Peer |-> IF p \in from THEN Fresh ELSE @[p]]]

(* MarkBlockAsReceived; from has the peer it came from, if from any.       *)
MarkReceived(q, b, from) == LeaveFlight(LeaveQueue(q, b), b, from)

(* AddBlockToQueue.  The penalty for more than 5000 entries is one of the  *)
(* reasons of CloseSocket.                                                 *)
AddToQueue(q, p, b) ==
    IF b \in DOMAIN q.queuedAt \cup DOMAIN q.flyingAt THEN q
    ELSE [q EXCEPT !.toDownload[p] = Append(@, b),
                   !.nQueued[p] = @ + 1,
                   !.queuedAt = With(@, b, p)]

MarkInFlightUncounted(q, p, b) ==
    LET r == MarkReceived(q, b, {}) IN
    [r EXCEPT !.inFlight[p] = Append(@, [hash |-> b, time |-> Fresh]),
              !.flyingAt = With(@, b, p),
              !.received[p] = IF r.nFlying[p] = 0 THEN Fresh ELSE @]

(* MarkBlockAsInFlight.                                                    *)
MarkInFlight(q, p, b) ==
    LET r == MarkReceived(q, b, {}) IN
    [r EXCEPT !.inFlight[p] = Append(@, [hash |-> b, time |-> Fresh]),
              !.nFlying[p] = @ + 1,
              !.flyingAt = With(@, b, p),
              !.received[p] = IF r.nFlying[p] = 0 THEN Fresh ELSE @]

(* The loop of SendMessages that asks p for the blocks queued at it; there *)
(* is no room for more than MaxInFlight turns.                             *)
RequestAll(q, p) ==
    LET Asked[i \in 0..MaxInFlight] ==
            IF i = 0 THEN q
            ELSE LET r == Asked[i - 1] IN
                 IF r.nQueued[p] # 0 /\ r.nFlying[p] < MaxInFlight
                 THEN MarkInFlight(r, p, Head(r.toDownload[p])) ELSE r
    IN  Asked[MaxInFlight]

ForgetFlying(q, p) ==
    [q EXCEPT !.toDownload[p] = <<>>, !.nQueued[p] = 0,
              !.inFlight[p] = <<>>, !.nFlying[p] = 0, !.received[p] = Fresh,
              !.queuedAt = Without(@, ToSet(q.toDownload[p]))]

(* FinalizeNode erases what the lists of p have from the global maps.      *)
Forget(q, p) ==
    [q EXCEPT !.toDownload[p] = <<>>, !.nQueued[p] = 0,
              !.inFlight[p] = <<>>, !.nFlying[p] = 0, !.received[p] = Fresh,
              !.queuedAt = Without(@, ToSet(q.toDownload[p])),
              !.flyingAt = Without(@, ToSet(Hashes(q.inFlight[p])))]

(* "Detect stalled peers" (SendMessages).                                  *)
Stalling(q, p) ==
    /\ q.nFlying[p] # 0
    /\ q.received[p].before > Timeout
    /\ Head(q.inFlight[p]).time.before > 2 * Timeout

(* llLastBlockProcess moves past a stamp; time passes for it.              *)
Passed(t) == [t EXCEPT !.before = t.age]
Older(t) == [t EXCEPT !.age = IF @ < Oldest THEN @ + 1 ELSE @]

PassedEntries(entries) ==
    [i \in DOMAIN entries |-> [entries[i] EXCEPT !.time = Passed(@)]]
OlderEntries(entries) ==
    [i \in DOMAIN entries |-> [entries[i] EXCEPT !.time = Older(@)]]

ProcessedAll(q, p) ==
    [q EXCEPT !.inFlight[p] = PassedEntries(@), !.received[p] = Passed(@)]

ProcessedAndReset(q, p) == [ProcessedAll(q, p) EXCEPT !.received[p] = Fresh]

(* llLastBlockProcess of p becomes the time now.                           *)
Processed(q, p) == ProcessedAll(q, p)

(* A tick later.  received counts only while a block is in flight.         *)
TickLater(q) ==
    [q EXCEPT !.inFlight = [p \in Peer |-> OlderEntries(q.inFlight[p])],
              !.received = [p \in Peer |-> IF q.nFlying[p] = 0 THEN Fresh
                                           ELSE Older(q.received[p])]]

-----------------------------------------------------------------------------
(* Peers come and go.                                                      *)

(* The handlers of messages hold g_cs_main; pending is not empty only in   *)
(* the middle of ProcessBlock.                                             *)
Unlocked == pending = {}
Active(p) == p \in nodes \ closing

(* InitializeNode.                                                         *)
Connect(p) ==
    /\ Unlocked
    /\ p \notin nodes
    /\ nodes' = nodes \cup {p}
    /\ quiet' = [quiet EXCEPT ![p] = 0]
    /\ UNCHANGED <<closing, queues, vars>>

(* m_bDisconnect of p is set.                                              *)
Disconnect(p) ==
    /\ closing' = closing \cup {p}
    /\ quiet' = [quiet EXCEPT ![p] = 0]

(* The peer hangs up, it is banned, a message is malformed, ...            *)
CloseSocket(p) ==
    /\ Active(p)
    /\ Disconnect(p)
    /\ UNCHANGED <<nodes, queues, vars>>

(* The socket has bytes for ReceiveMsgBytes; they need not end a message.  *)
ReceiveBytes(p) ==
    /\ Active(p)
    /\ quiet' = [quiet EXCEPT ![p] = 0]
    /\ UNCHANGED <<nodes, closing, queues, vars>>

(* "socket inactivity timeout" (ThreadSocketHandler).                      *)
Inactive(p) ==
    /\ Active(p)
    /\ quiet[p] > Inactivity
    /\ Disconnect(p)
    /\ UNCHANGED <<nodes, queues, vars>>

(* FinalizeNode, once no thread refers to the node.                        *)
Finalize(p) ==
    /\ Unlocked
    /\ p \in closing
    /\ nodes' = nodes \ {p}
    /\ closing' = closing \ {p}
    /\ queues' = Forget(queues, p)
    /\ UNCHANGED <<quiet, vars>>

(* Time passes.  The socket thread looks at every node at least once in a  *)
(* tick.                                                                   *)
Tick ==
    /\ \A p \in nodes \ closing : quiet[p] <= Inactivity
    /\ quiet' = [p \in Peer |-> IF Active(p) THEN quiet[p] + 1 ELSE quiet[p]]
    /\ queues' = TickLater(queues)
    /\ UNCHANGED <<nodes, closing, vars>>

-----------------------------------------------------------------------------
(* The message thread.                                                     *)

(* A complete message of p with a good header and checksum, received now   *)
(* or before, comes to ProcessMessage.                                     *)
Heard(p) ==
    /\ Unlocked
    /\ Active(p)
    /\ UNCHANGED <<nodes, closing, quiet>>

(* Any message that is no "inv" of a block and no "block".                 *)
OtherMessage(p) ==
    /\ Heard(p)
    /\ queues' = Processed(queues, p)
    /\ UNCHANGED vars

(* An "inv" of one block.  "inv" of an orphan makes PushGetBlocks ask for  *)
(* announcements, which may come at any time here.                         *)
Announce(p, b) ==
    /\ Heard(p)
    /\ b \notin index \cup orphans
    /\ queues' = AddToQueue(Processed(queues, p), p, b)
    /\ UNCHANGED vars

(* ProcessBlock of a block that is a duplicate, fails CheckBlock, is above *)
(* all orphans when there is no room, or is refused before it is recorded. *)
Refuse == UNCHANGED vars

(* "block", asked for or not: MarkBlockAsReceived and ProcessBlock.  The   *)
(* announcements that are then asked for may come at any time here.        *)
Deliver(p, b) ==
    /\ Heard(p)
    /\ queues' = MarkReceived(Processed(queues, p), b, {p})
    /\ HoldOrphan(b) \/ AcceptBlock(b) \/ Refuse

(* SendMessages to p: it is found stalling, or asked for blocks.           *)
SendMessages(p) ==
    /\ Unlocked
    /\ Active(p)
    /\ IF Stalling(queues, p)
       THEN Disconnect(p) /\ UNCHANGED queues
       ELSE queues' = RequestAll(queues, p) /\ UNCHANGED <<closing, quiet>>
    /\ UNCHANGED <<nodes, vars>>

-----------------------------------------------------------------------------
(* The other threads.                                                      *)

(* The block comes from submitblock or from the miner: no peer is asked    *)
(* for the parent, so it is not held if that is unknown, and the queues    *)
(* are not told.                                                           *)
Submit(b) ==
    /\ AcceptBlock(b)
    /\ UNCHANGED peerVars

ResolveOrphans(b) ==
    /\ Resolve(b)
    /\ UNCHANGED peerVars

RestartNode ==
    /\ Restart
    /\ nodes' = {} /\ closing' = {}
    /\ queues' = NoQueues
    /\ quiet' = [p \in Peer |-> 0]

InitDownload ==
    /\ Init
    /\ nodes = {} /\ closing = {}
    /\ queues = NoQueues
    /\ quiet = [p \in Peer |-> 0]

NextDownload ==
    \/ \E p \in Peer :
          \/ Connect(p) \/ CloseSocket(p) \/ Inactive(p) \/ Finalize(p)
          \/ ReceiveBytes(p)
          \/ OtherMessage(p) \/ SendMessages(p)
          \/ \E b \in Block : Announce(p, b) \/ Deliver(p, b)
    \/ Tick
    \/ \E b \in Own : Submit(b)
    \/ \E b \in pending : ResolveOrphans(b)
    \/ RestartNode

(* The two threads run for ever, and each turn of their loops sees every   *)
(* node.  They wait for g_cs_main, which is released between two messages, *)
(* hence SF.  Nothing is assumed of the peers.                             *)
Fairness ==
    /\ WF_downloadVars(Tick)
    /\ WF_downloadVars(\E b \in pending : ResolveOrphans(b))
    /\ \A p \in Peer :
          /\ WF_downloadVars(Inactive(p))
          /\ SF_downloadVars(Finalize(p))
          /\ SF_downloadVars(SendMessages(p))

SpecDownload == InitDownload /\ [][NextDownload]_downloadVars
FairSpecDownload == SpecDownload /\ Fairness

-----------------------------------------------------------------------------
(* The lists and counters of the peers and the global map of a queue.      *)
Tracks(list, count, at) ==
    \A p \in Peer :
        /\ ToSet(list[p]) = {b \in DOMAIN at : at[b] = p}
        /\ IsInjective(list[p])
        /\ count[p] = Len(list[p])

Agree(q) ==
    /\ DOMAIN q.queuedAt \cap DOMAIN q.flyingAt = {}
    /\ Tracks(q.toDownload, q.nQueued, q.queuedAt)
    /\ Tracks([p \in Peer |-> Hashes(q.inFlight[p])], q.nFlying, q.flyingAt)
    /\ \A p \in Peer : q.nFlying[p] <= MaxInFlight

(* The lists, the counters and the global maps agree whatever comes from   *)
(* whom and whenever a peer goes: a block is wanted of one peer at most    *)
(* and in one place, and the state of that peer exists, so that State() in *)
(* MarkBlockAsReceived is never NULL and no iterator dangles.              *)
QueuesAgree ==
    /\ Agree(queues)
    /\ \A p \in Peer \ nodes : queues.nQueued[p] = 0 /\ queues.nFlying[p] = 0

Wanted == DOMAIN queues.queuedAt \cup DOMAIN queues.flyingAt
HeldAndWanted == Wanted \cap (index \cup orphans)

(* SendMessages does not look again whether a block is still missing when  *)
(* it asks for it.  It need not: no block is queued that was there before, *)
(* and one that comes is no longer queued, whichever peer it comes from    *)
(* and whatever waited for it, unless it comes from submitblock or the     *)
(* miner.                                                                  *)
HeldIsNotWanted ==
    [][\A b \in HeldAndWanted' \ HeldAndWanted : Submit(b)]_downloadVars

(* A message of p comes to ProcessMessage.                                 *)
Message(p) ==
    \/ OtherMessage(p)
    \/ \E b \in Block : Announce(p, b) \/ Deliver(p, b)

(* Bytes of p keep coming and no message of it is processed any more: each *)
(* is incomplete, is thrown away for its header or checksum, or waits in   *)
(* m_vRecvMsg because p does not take what is sent to it.                  *)
Trickles(p) ==
    /\ []<><<ReceiveBytes(p)>>_downloadVars
    /\ <>[][~Message(p)]_downloadVars

(* AddBlockToQueue turns away every peer but the first that announces a    *)
(* block, so the queue of the first must not stand still: a block queued   *)
(* at a peer is asked for, or comes from elsewhere, or the peer is dropped *)
(* and the block free for others.  The only peer that can hold up its      *)
(* queue for ever is one whose bytes keep coming and never make a message: *)
(* m_llLastRecv moves and llLastBlockProcess does not, so it is neither    *)
(* inactive nor stalling.                                                  *)
QueuedIsServed ==
    \A p \in Peer, b \in Block :
        \/ []<>(b \notin ToSet(queues.toDownload[p]))
        \/ Trickles(p)

(* The peer answers a request.                                             *)
Answer(p) ==
    \E b \in DOMAIN queues.flyingAt : queues.flyingAt[b] = p /\ Deliver(p, b)

(* A peer that stops answering does not keep a block for ever, even if it  *)
(* goes on to send other messages or blocks nobody asked it for; one that  *)
(* sends bytes and no message does.                                        *)
InFlightIsReleased ==
    \A p \in Peer, b \in Block :
        \/ []<>(b \notin ToSet(Hashes(queues.inFlight[p])))
        \/ []<><<Answer(p)>>_downloadVars
        \/ Trickles(p)
=============================================================================
