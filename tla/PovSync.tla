------------------------------- MODULE PovSync -------------------------------
(***************************************************************************)
(* The syncer of the proof-of-value chain: consensus/pov/pov_sync.go,      *)
(* pov_sync_pool.go and pov_sync_peer.go.                                  *)
(*                                                                         *)
(* Three threads share the state.  An actor keeps the table of peers from  *)
(* the streams and the status messages.  syncLoop runs the timers: it      *)
(* opens a round with the best peer, asks that peer for blocks, releases   *)
(* the queued blocks to the block processor in order of height, and closes *)
(* the round.  mainLoop takes the answers and queues their blocks one by   *)
(* one, so a timer can run between the check of an answer and the queueing *)
(* of its blocks.  Requests and answers are delayed, lost and, when a      *)
(* request is repeated after its time-out, duplicated; nothing in an       *)
(* answer says which round asked for it.                                   *)
(*                                                                         *)
(* Blocks form a tree of model values with a height and a total            *)
(* difficulty.  Wall-clock time is the age of a peer's last request: 0 for *)
(* less than the 15 seconds of a retry, 1 for more, 2 for more than the    *)
(* minute after which a silent peer counts as slow.                        *)
(***************************************************************************)
EXTENDS Naturals, Sequences, FiniteSets, Functions

CONSTANTS
    Peer,        \* identifiers of remote nodes
    NoPeer,      \* the empty string of syncPeerID
    Block,       \* the blocks that exist
    Genesis,     \* their common root
    Parent,      \* the parent of every block; the root is its own
    Height,      \* the height of every block
    TD,          \* the total difficulty of every block
    HasTxs,      \* the blocks that pack state blocks
    Own,         \* the chains the node may have at the start
    FirstHead,   \* the head of every peer's chain at the start
    Near,        \* a peer this few heights away needs no round (3)
    PerReq,      \* blocks in an answer, at most (maxSyncBlockPerReq)
    QueueFull,   \* no request when this many blocks wait (maxSyncBlockInQue)
    MaxMsgs,     \* bound: messages in flight between two nodes, one way
    MaxFaults    \* bound: lost messages, lost streams and silent peers

\* The blocks are a tree, no two blocks have the same difficulty, and a block
\* is heavier than its parent.
ASSUME TreeAssumption ==
    /\ Parent \in [Block -> Block] /\ Height \in [Block -> Nat] /\ TD \in [Block -> Nat]
    /\ Genesis \in Block /\ Parent[Genesis] = Genesis /\ Height[Genesis] = 0
    /\ \A b \in Block \ {Genesis} :
          Height[b] = Height[Parent[b]] + 1 /\ TD[b] > TD[Parent[b]]
    /\ \A b, c \in Block : TD[b] = TD[c] => b = c

\* The node starts with the blocks of some chain: whole, and with a head.
ASSUME OwnAssumption ==
    \A B \in Own :
        /\ Genesis \in B /\ B \subseteq Block /\ \A b \in B : Parent[b] \in B
        /\ \E b \in B : \A c \in B : TD[c] <= TD[b]

ASSUME PeerAssumption ==
    /\ NoPeer \notin Peer /\ FirstHead \in [Peer -> Block] /\ HasTxs \subseteq Block
    /\ PerReq \in Nat \ {0} /\ QueueFull \in Nat \ {0} /\ MaxMsgs \in Nat

VARIABLES
    \* the chain, the block processor and the ledger, seen from the syncer
    stored,      \* blocks of the local chain
    inbox,       \* blocks published to the processor and not stored yet
    confirmed,   \* blocks whose state blocks the ledger has confirmed
    asked,       \* whether frontiers were asked for in the last 15 seconds
    \* the syncer
    peers,       \* allPeers
    initSyncState, inSyncing, syncPeer, syncToHeight, syncCurHeight,
    syncRcvHeight, syncBlocks,
    opening,     \* syncLoop is inside syncWithPeer
    hand,        \* the answer mainLoop is queueing, and its peer
    \* the network and the remote nodes
    remote,      \* the head of every peer's chain
    rsps,        \* answers of every peer, under way
    faults,
    \* what the round has seen, for the properties only
    mixed,       \* it queued a block that an earlier round asked for
    reorged      \* its peer moved to another branch

chainVars == <<stored, inbox, confirmed, asked>>
roundVars == <<inSyncing, syncPeer, syncToHeight, syncCurHeight, syncRcvHeight,
               syncBlocks, opening>>
netVars == <<remote, rsps, faults>>
ghostVars == <<mixed, reorged>>
vars == <<chainVars, peers, initSyncState, roundVars, hand, netVars, ghostVars>>

------------------------------------------------------------------------------
(* The chain *)

\* The heaviest block of a set: the head of a chain that holds the set.
Heaviest(B) == CHOOSE b \in B : \A c \in B : TD[c] <= TD[b]

LatestBlock == Heaviest(stored)

\* A block and its ancestors: the blocks of the best chain with that head.
Path == [b \in Block |->
            {c \in Block : \A S \in SUBSET Block :
                (b \in S /\ \A x \in S : Parent[x] \in S) => c \in S}]

\* Every block descends from the root.
ASSUME RootAssumption == \A b \in Block : Genesis \in Path[b]

GetBlockLocator == Path[LatestBlock]

\* Mutant: a locator is looked up among all blocks, not on the best chain.
LocateBestBlockAnywhere(chain, locators) ==
    LET known == locators \cup {Genesis}
    IN CHOOSE b \in known : \A c \in known : Height[c] <= Height[b]

\* The highest of the locators that is on the best chain.
LocateBestBlock(chain, locators) ==
    LET known == (locators \cap chain) \cup {Genesis}
    IN CHOOSE b \in known : \A c \in known : Height[c] <= Height[b]

------------------------------------------------------------------------------
(* Peers *)

\* A PovSyncPeer as onAddP2PStream makes it.  current says that its syncSeqID
\* is the syncer's; seen is the head of its last status.
NewPeer(status) == [status |-> status, seen |-> Genesis, current |-> FALSE,
                    waitLocatorRsp |-> FALSE, waitSyncRspMsg |-> FALSE, age |-> 0]

GoodPeers == {p \in Peer : peers[p].status = "good"}

\* GetBestPeer may return any good peer with the greatest difficulty.
BestPeers == {p \in GoodPeers :
                 \A q \in GoodPeers : TD[peers[q].seen] <= TD[peers[p].seen]}

NoHand == [from |-> NoPeer, blocks |-> <<>>, old |-> FALSE,
           detached |-> FALSE, locating |-> FALSE]

Init ==
    /\ stored \in Own /\ inbox = {} /\ asked = FALSE
    /\ confirmed = (Block \ HasTxs) \cup stored
    /\ peers = [p \in Peer |-> NewPeer("gone")]
    /\ initSyncState = "notStart" /\ inSyncing = FALSE /\ opening = FALSE
    /\ syncPeer = NoPeer /\ syncBlocks = <<>>
    /\ syncToHeight = 0 /\ syncCurHeight = 0 /\ syncRcvHeight = 0
    /\ hand = NoHand
    /\ remote = FirstHead
    /\ rsps = [p \in Peer |-> <<>>] /\ faults = 0
    /\ mixed = FALSE /\ reorged = FALSE

onAddP2PStream(p) ==
    /\ peers[p].status = "gone"
    /\ peers' = [peers EXCEPT ![p] = NewPeer("init")]
    /\ UNCHANGED <<chainVars, initSyncState, roundVars, hand, netVars, ghostVars>>

\* mainLoop keeps the PovSyncPeer it looked up when the table drops it.
onDeleteP2PStream(p) ==
    /\ peers[p].status # "gone"
    /\ faults < MaxFaults /\ faults' = faults + 1
    /\ peers' = [peers EXCEPT ![p] = NewPeer("gone")]
    /\ hand' = IF hand.from = p /\ ~hand.detached
               THEN [hand EXCEPT !.detached = TRUE,
                                 !.locating = peers[p].waitLocatorRsp]
               ELSE hand
    /\ UNCHANGED <<chainVars, initSyncState, roundVars, remote, rsps, ghostVars>>

\* Mutant: a dead peer stays dead.
onPovStatusStaysDead(p) ==
    /\ peers[p].status # "gone"
    /\ peers' = [peers EXCEPT ![p].seen = remote[p],
                              ![p].status = IF @ \in {"slow", "dead"} THEN @ ELSE "good"]
    /\ peers' # peers
    /\ UNCHANGED <<chainVars, initSyncState, roundVars, hand, netVars, ghostVars>>

\* A slow peer stays slow.
onPovStatus(p) ==
    /\ peers[p].status # "gone"
    /\ peers' = [peers EXCEPT ![p].seen = remote[p],
                              ![p].status = IF @ = "slow" THEN @ ELSE "good"]
    /\ peers' # peers
    /\ UNCHANGED <<chainVars, initSyncState, roundVars, hand, netVars, ghostVars>>

\* No status of the peer has come for ten minutes.
checkAllPeers(p) ==
    /\ peers[p].status \notin {"gone", "dead"}
    /\ faults < MaxFaults /\ faults' = faults + 1
    /\ peers' = [peers EXCEPT ![p].status = "dead"]
    /\ UNCHANGED <<chainVars, initSyncState, roundVars, hand, remote, rsps, ghostVars>>

------------------------------------------------------------------------------
(* Requests *)

checkSyncQueueFull == Cardinality(DOMAIN syncBlocks) >= QueueFull

\* Whether requestSyncingBlocks sends: the queue has room, the last request
\* was answered or is 15 seconds old, and a height is left to ask for.
MayRequest(p, useLocator) ==
    /\ ~checkSyncQueueFull
    /\ peers[p].waitSyncRspMsg => peers[p].age > 0
    /\ useLocator \/ syncRcvHeight + 1 <= syncToHeight

\* n blocks of a chain, from a height on.
BlocksFrom(chain, h, n) == [i \in 1..n |-> CHOOSE b \in chain : Height[b] = h + i - 1]

\* processPovBulkPullReqByForward at the peer: the blocks of its best chain from
\* the best locator, or from a height on.  A long answer is cut at the size of
\* a message; an empty one is not listened to, and left out.
processPovBulkPullReqByForward(p, useLocator) ==
    LET chain == Path[remote[p]]
        found == LocateBestBlock(chain, GetBlockLocator)
        Sizes(h, max) == {n \in 0..max : /\ h + n - 1 <= Height[remote[p]]
                                         /\ n = 0 => max = 0 \/ h > Height[remote[p]]}
    IN IF useLocator
       THEN {<<found>> \o BlocksFrom(chain, Height[found] + 1, n) :
                n \in Sizes(Height[found] + 1, PerReq - 1)}
       ELSE {BlocksFrom(chain, syncRcvHeight + 1, n) :
                n \in Sizes(syncRcvHeight + 1, PerReq) \ {0}}

\* requestSyncingBlocks sends a request, and the peer answers; the delay of the
\* request is counted to the answer.  A message too many is lost.
Request(p, useLocator) ==
    LET answers == processPovBulkPullReqByForward(p, useLocator) IN
    IF answers = {} \/ Len(rsps[p]) >= MaxMsgs THEN UNCHANGED rsps
    ELSE \E a \in answers :
            rsps' = [rsps EXCEPT ![p] = Append(@, [blocks |-> a, old |-> FALSE])]

\* The peer after requestSyncingBlocks has sent it a request.
Requested(peer) == [peer EXCEPT !.waitSyncRspMsg = TRUE, !.age = 0]

onRequestSyncTimer ==
    LET p == syncPeer IN
    /\ inSyncing /\ ~opening
    /\ p \in GoodPeers
    /\ MayRequest(p, peers[p].waitLocatorRsp)
    /\ Request(p, peers[p].waitLocatorRsp)
    /\ peers' = [peers EXCEPT ![p] = Requested(@)]
    /\ UNCHANGED <<chainVars, initSyncState, roundVars, hand, remote, faults, ghostVars>>

------------------------------------------------------------------------------
(* Rounds *)

SyncOver(p) ==
    LET mine == LatestBlock
        best == peers[p].seen
    IN \/ TD[mine] >= TD[best]
       \/ Height[mine] <= Height[best] + Near /\ Height[best] <= Height[mine] + Near

\* setInitState: once done, always done.
setInitState(st) == initSyncState' = IF initSyncState = "done" THEN "done" ELSE st

\* onPeriodicSyncTimer when the best peer has nothing to give.
NoRoundNeeded ==
    /\ ~inSyncing /\ initSyncState # "done"
    /\ \E p \in BestPeers : SyncOver(p)
    /\ setInitState("done")
    /\ UNCHANGED <<chainVars, peers, roundVars, hand, netVars, ghostVars>>

\* onPeriodicSyncTimer, and syncWithPeer up to the new sequence number.
onPeriodicSyncTimer(p) ==
    /\ ~inSyncing
    /\ p \in BestPeers /\ ~SyncOver(p)
    /\ inSyncing' = TRUE /\ opening' = TRUE
    /\ setInitState("syncing")
    /\ syncPeer' = p
    /\ syncToHeight' = Height[peers[p].seen]
    /\ syncCurHeight' = 0 /\ syncRcvHeight' = 0 /\ syncBlocks' = <<>>
    /\ peers' = [q \in Peer |-> [peers[q] EXCEPT !.current = (q = p)]]
    /\ UNCHANGED <<chainVars, hand, netVars, ghostVars>>

\* The rest of syncWithPeer: the first request of the round.  It keeps the
\* PovSyncPeer it was called with when a new stream replaces that in the table.
syncWithPeer ==
    LET p == syncPeer IN
    /\ opening /\ opening' = FALSE
    /\ peers' = [peers EXCEPT ![p] =
                    IF ~@.current THEN @
                    ELSE LET found == [@ EXCEPT !.waitLocatorRsp = TRUE]
                         IN IF MayRequest(p, TRUE) THEN Requested(found) ELSE found]
    /\ IF peers[p].status # "gone" /\ (peers[p].current => MayRequest(p, TRUE))
       THEN Request(p, TRUE) ELSE UNCHANGED rsps
    /\ UNCHANGED <<chainVars, initSyncState, inSyncing, syncPeer, syncToHeight, syncCurHeight,
                   syncRcvHeight, syncBlocks, hand, remote, faults, ghostVars>>

\* A round is over.  onCheckChainTimer leaves the fields of the round as they
\* are; the next round sets them before anything reads them, so the model
\* clears them here.  What is still under way belongs to an earlier round now.
Close ==
    /\ inSyncing' = FALSE /\ syncPeer' = NoPeer /\ syncBlocks' = <<>>
    /\ syncToHeight' = 0 /\ syncCurHeight' = 0 /\ syncRcvHeight' = 0
    /\ rsps' = [q \in Peer |-> [i \in DOMAIN rsps[q] |-> [rsps[q][i] EXCEPT !.old = TRUE]]]
    /\ hand' = [hand EXCEPT !.old = hand # NoHand]
    /\ mixed' = FALSE /\ reorged' = FALSE
    /\ UNCHANGED <<opening, remote, faults>>

\* Mutant: a new stream of the peer is not told from the old one.
onSyncPeerTimerAnyStream ==
    LET p == syncPeer
        good == p \in GoodPeers
        slow == good /\ peers[p].current /\ peers[p].waitSyncRspMsg /\ peers[p].age = 2
    IN
    /\ inSyncing /\ ~opening
    /\ ~good \/ slow
    /\ peers' = IF good
                THEN [peers EXCEPT ![p].status = IF slow THEN "slow" ELSE @,
                                   ![p].waitLocatorRsp = FALSE,
                                   ![p].waitSyncRspMsg = FALSE, ![p].age = 0]
                ELSE peers
    /\ Close
    /\ UNCHANGED <<chainVars, initSyncState>>

\* onSyncPeerTimer gives the round up: its peer is lost, has a new stream, or
\* has not answered for a minute.  Only a peer that is still good is reset.
onSyncPeerTimer ==
    LET p == syncPeer
        good == p \in GoodPeers
        slow == good /\ peers[p].current /\ peers[p].waitSyncRspMsg /\ peers[p].age = 2
    IN
    /\ inSyncing /\ ~opening
    /\ ~good \/ ~peers[p].current \/ slow
    /\ peers' = IF good
                THEN [peers EXCEPT ![p].status = IF slow THEN "slow" ELSE @,
                                   ![p].waitLocatorRsp = FALSE,
                                   ![p].waitSyncRspMsg = FALSE, ![p].age = 0]
                ELSE peers
    /\ Close
    /\ UNCHANGED <<chainVars, initSyncState>>

onCheckChainTimer ==
    /\ inSyncing /\ ~opening
    /\ syncCurHeight >= syncToHeight /\ Height[LatestBlock] >= syncToHeight
    /\ setInitState("done")
    /\ Close
    /\ UNCHANGED <<chainVars, peers>>

------------------------------------------------------------------------------
(* The queue *)

\* mainLoop with an answer in its hand.
Taken(p, m) == [from |-> p, blocks |-> m.blocks, old |-> m.old,
                detached |-> FALSE, locating |-> FALSE]

\* mainLoop takes an answer; only the peer of the round is listened to.
processPovBulkPullRsp(p) ==
    LET m == Head(rsps[p]) IN
    /\ hand = NoHand /\ rsps[p] # <<>>
    /\ rsps' = [rsps EXCEPT ![p] = Tail(@)]
    /\ IF inSyncing /\ syncPeer = p /\ p \in GoodPeers /\ peers[p].current
       THEN /\ peers' = [peers EXCEPT ![p].waitSyncRspMsg = FALSE]
            /\ hand' = Taken(p, m)
       ELSE UNCHANGED <<peers, hand>>
    /\ UNCHANGED <<chainVars, initSyncState, roundVars, remote, faults, ghostVars>>

\* A block lower than the next one to release is not needed any more.
NotNeeded(b) == Height[b] < syncCurHeight

\* Mutant: a block is queued as the next one that is expected.
QueuedNext(b) ==
    [h \in DOMAIN syncBlocks \cup {syncRcvHeight + 1} |->
        IF h = syncRcvHeight + 1 THEN b ELSE syncBlocks[h]]

\* The queue with a block under its height.
Queued(b) ==
    [h \in DOMAIN syncBlocks \cup {Height[b]} |-> IF h = Height[b] THEN b ELSE syncBlocks[h]]

\* mainLoop queues the next block of the answer.  The first block of a round
\* says where the round starts.
addSyncBlock ==
    LET b == Head(hand.blocks)
        h == Height[b]
        locating == IF hand.detached THEN hand.locating
                    ELSE peers[hand.from].waitLocatorRsp
        rest == IF Len(hand.blocks) = 1 THEN NoHand
                ELSE [hand EXCEPT !.blocks = Tail(@), !.locating = @ /\ ~inSyncing]
    IN
    /\ hand # NoHand
    /\ hand' = rest
    /\ peers' = IF inSyncing /\ ~hand.detached
                THEN [peers EXCEPT ![hand.from].waitLocatorRsp = FALSE] ELSE peers
    /\ IF inSyncing /\ (locating \/ ~NotNeeded(b))
       THEN /\ syncBlocks' = Queued(b)
            /\ syncCurHeight' = IF locating THEN h ELSE syncCurHeight
            /\ syncRcvHeight' = IF locating \/ h = syncRcvHeight + 1
                                THEN h ELSE syncRcvHeight
            /\ mixed' = (mixed \/ hand.old)
       ELSE UNCHANGED <<syncBlocks, syncCurHeight, syncRcvHeight, mixed>>
    /\ UNCHANGED <<chainVars, initSyncState, inSyncing, syncPeer, syncToHeight, opening,
                   netVars, reorged>>

\* checkSyncBlock: the state blocks of a block are confirmed.
Ready(h) == h \in DOMAIN syncBlocks /\ syncBlocks[h] \in confirmed

\* Whether next is the first height that onCheckSyncBlockTimer does not release.
FirstHeld(next) ==
    /\ next <= syncRcvHeight => ~Ready(next)
    /\ \A h \in syncCurHeight..(next - 1) : Ready(h)

\* syncLoop releases the queued blocks, in order of height, up to one that is
\* missing or whose state blocks are; for those it asks for frontiers.
onCheckSyncBlockTimer ==
    /\ inSyncing /\ ~opening
    /\ syncCurHeight <= syncRcvHeight
    /\ \E next \in syncCurHeight..(syncRcvHeight + 1) :
           LET out == syncCurHeight..(next - 1)
               wants == next <= syncRcvHeight /\ next \in DOMAIN syncBlocks
           IN
           /\ FirstHeld(next)
           /\ syncCurHeight' = next
           /\ syncBlocks' = Restrict(syncBlocks, DOMAIN syncBlocks \ out)
           /\ inbox' = (inbox \cup {syncBlocks[h] : h \in out}) \ stored
           /\ asked' = (asked \/ (wants /\ GoodPeers # {}))
    /\ syncCurHeight' # syncCurHeight \/ asked' # asked
    /\ UNCHANGED <<stored, confirmed, peers, initSyncState, inSyncing, syncPeer, syncToHeight,
                   syncRcvHeight, opening, hand, netVars, mixed, reorged>>

------------------------------------------------------------------------------
(* The surroundings: processor, ledger, network, remote nodes *)

\* The processor stores a block whose parent is stored.
InsertBlock(b) ==
    /\ b \in inbox /\ Parent[b] \in stored
    /\ stored' = stored \cup {b} /\ inbox' = inbox \ {b}
    /\ UNCHANGED <<confirmed, asked, peers, initSyncState, roundVars, hand, netVars, ghostVars>>

\* The processor asks for the parent of an orphan, the answer is published.
requestBlocksByHashes(b) ==
    /\ b \in inbox /\ Parent[b] \notin stored \cup inbox
    /\ GoodPeers # {}
    /\ inbox' = inbox \cup {Parent[b]}
    /\ UNCHANGED <<stored, confirmed, asked, peers, initSyncState, roundVars, hand,
                   netVars, ghostVars>>

\* The frontier exchange has fetched the state blocks of the queued blocks.
FrontiersArrive ==
    /\ asked /\ asked' = FALSE
    /\ confirmed' = confirmed \cup Range(syncBlocks)
    /\ UNCHANGED <<stored, inbox, peers, initSyncState, roundVars, hand, netVars, ghostVars>>

\* A peer's chain gets a heavier head, on the same branch or on another.
NewRemoteHead(p) ==
    \E b \in Block :
        /\ TD[b] > TD[remote[p]]
        /\ remote' = [remote EXCEPT ![p] = b]
        /\ reorged' = (reorged \/ (inSyncing /\ p = syncPeer /\ remote[p] \notin Path[b]))
        /\ UNCHANGED <<chainVars, peers, initSyncState, roundVars, hand, rsps, faults, mixed>>

\* A request, an answer or a frontier exchange is lost.
Lose(p) ==
    /\ faults < MaxFaults /\ faults' = faults + 1
    /\ \/ rsps[p] # <<>> /\ rsps' = [rsps EXCEPT ![p] = Tail(@)] /\ UNCHANGED asked
       \/ asked /\ asked' = FALSE /\ UNCHANGED rsps
    /\ UNCHANGED <<stored, inbox, confirmed, peers, initSyncState, roundVars, hand, remote, ghostVars>>

\* Time passes.  The request timer runs every 2 seconds, so it has run before
\* a request that it repeats gets a minute old.
Tick(p) ==
    /\ peers[p].waitSyncRspMsg
    /\ peers[p].age < 2
    /\ peers[p].age = 1 => /\ inSyncing /\ p = syncPeer /\ p \in GoodPeers
                           /\ ~MayRequest(p, peers[p].waitLocatorRsp)
    /\ peers' = [peers EXCEPT ![p].age = @ + 1]
    /\ UNCHANGED <<chainVars, initSyncState, roundVars, hand, netVars, ghostVars>>

------------------------------------------------------------------------------
Rounds == \/ NoRoundNeeded \/ (\E p \in Peer : onPeriodicSyncTimer(p)) \/ syncWithPeer
          \/ onSyncPeerTimer \/ onCheckChainTimer \/ onCheckSyncBlockTimer

MainLoop == addSyncBlock \/ \E p \in Peer : processPovBulkPullRsp(p)

\* What the processor, the ledger and the peers do of themselves.
Surroundings ==
    \/ FrontiersArrive
    \/ \E b \in Block : InsertBlock(b) \/ requestBlocksByHashes(b)
    \/ \E p \in Peer : onAddP2PStream(p) \/ onPovStatus(p) \/ NewRemoteHead(p)

Next ==
    \/ Rounds \/ onRequestSyncTimer \/ MainLoop \/ Surroundings
    \/ \E p \in Peer : onDeleteP2PStream(p) \/ checkAllPeers(p) \/ Lose(p) \/ Tick(p)

Spec == Init /\ [][Next]_vars

\* The tickers of syncLoop, the channel of mainLoop, the processor and the
\* ledger are served again and again.  Peers answer, send their status every
\* 30 seconds, are connected again when their stream is lost, and their chains
\* grow; a message is lost only as often as MaxFaults allows.
FairSpec ==
    /\ Spec
    /\ WF_vars(Rounds) /\ WF_vars(onRequestSyncTimer)
    /\ WF_vars(MainLoop) /\ WF_vars(Surroundings)
    /\ \A p \in Peer : WF_vars(Tick(p))

------------------------------------------------------------------------------
(* Properties *)

\* Every field holds a value of the type the code declares for it.
TypeOK ==
    /\ stored \subseteq Block /\ inbox \subseteq Block /\ confirmed \subseteq Block
    /\ peers \in [Peer -> [status : {"gone", "init", "good", "dead", "slow"}, seen : Block,
                           current : BOOLEAN, waitLocatorRsp : BOOLEAN,
                           waitSyncRspMsg : BOOLEAN, age : 0..2]]
    /\ initSyncState \in {"notStart", "syncing", "done"}
    /\ syncPeer \in Peer \cup {NoPeer} /\ inSyncing => syncPeer \in Peer
    /\ opening => inSyncing
    /\ \A h \in DOMAIN syncBlocks : Height[syncBlocks[h]] = h
    /\ remote \in [Peer -> Block]
    /\ hand.from \in Peer \cup {NoPeer} /\ Range(hand.blocks) \subseteq Block
    /\ \A p \in Peer : Len(rsps[p]) <= MaxMsgs

\* A round hands the processor no orphans: the parent of every block that
\* onCheckSyncBlockTimer releases is stored or was released before it.  The two
\* exceptions are what the sequence number of a round does not tell apart: an
\* answer that an earlier round asked for, and a peer that changed its branch.
ReleasedAttach ==
    [][onCheckSyncBlockTimer =>
          \/ mixed \/ reorged
          \/ \A b \in inbox' \ inbox : Parent[b] \in stored \cup inbox']_vars

\* The initial sync ends, so that consensus, mining and the transaction pool
\* start.  Only when every peer has been marked slow, a mark that no status
\* takes back, may it last for ever.
InitSyncEnds == <>(initSyncState = "done" \/ \A p \in Peer : peers[p].status = "slow")

\* A round does not last for ever, whatever is lost.
RoundsEnd == inSyncing ~> ~inSyncing

==============================================================================
