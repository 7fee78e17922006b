---------------------------- MODULE PovProcessor ----------------------------
(***************************************************************************)
(* The PoV block processor of consensus/pov/pov_processor.go, with the     *)
(* engine actor of pov_impl.go that feeds it.                              *)
(*                                                                         *)
(* Four goroutines: the engine actor puts received and mined blocks into   *)
(* blockNormCh; the loop takes blocks from the two channels, parks those   *)
(* whose parent is missing (orphans) or whose transactions are missing     *)
(* (pending), and inserts the others; the ledger actor and the tx pending  *)
(* timer release pending blocks into blockHighCh, holding txPendingMux     *)
(* while they send.  blockInCh marks the blocks on their way to the loop.  *)
(*                                                                         *)
(* The chain is the set of stored blocks (PovChain models InsertBlock) and *)
(* the ledger is the set of confirmed transactions.  Blocks that wait are  *)
(* kept in sets: the code takes them out in the order of a list or of a Go *)
(* map, the model in any order.                                            *)
(***************************************************************************)
EXTENDS Integers, Sequences, FiniteSets

CONSTANTS
    Block, Genesis, Tx,
    Prev,          \* [Block -> Block \cup {Genesis}]
    Txs,           \* [Block -> SUBSET Tx], the account transactions
    Bad,           \* blocks VerifyFull refuses when nothing is missing
    Mined,         \* blocks this node mines
    NormCap, HighCap,   \* capacities of the channels (8192 and 819)
    MaxExpiry,     \* bound: orphans that grow older than an hour
    MaxFail        \* bound: blocks whose InsertBlock fails, once each

ASSUME BlockAssumption ==
    /\ Genesis \notin Block
    /\ Prev \in [Block -> Block \cup {Genesis}]
    /\ Txs \in [Block -> SUBSET Tx]
    /\ Mined \subseteq Block
\* A block holds the hash of its previous block: every set of blocks has one
\* that stands on none of the set.
ASSUME AcyclicAssumption ==
    \A S \in SUBSET Block : S # {} => \E b \in S : Prev[b] \notin S
ASSUME CapAssumption == NormCap \in Nat \ {0} /\ HighCap \in Nat \ {0}

VARIABLES
    chain,         \* stored blocks (GetBlockByHash)
    orphans,       \* orphanBlocks and parentOrphans: the sources that wait
    deOrphans,     \* deOrphanBlocks, and the copy being worked through
    pending,       \* pendingBlocks: [src, gap]
    inCh,          \* blockInCh
    normCh, highCh,
    pc, cur, gap,  \* the loop: where it is, its blockSrc, stat.GapTxs
    todo, sending, \* the holder of txPendingMux: blocks to release, one in send
    engine,        \* the engine actor
    template,      \* the block the miner works on
    seen,          \* blkRecvCache
    confirmed,     \* confirmed transactions
    events,        \* EventAddRelation in the ledger actor's mailbox
    requested,     \* blocks peers were asked for
    syncDone,      \* syncState
    rolledBack,    \* history: transactions rolled back (each once, a bound)
    expired, failed    \* history: orphans dropped by age, blocks with an error

queues == <<inCh, normCh, highCh>>
waiting == <<orphans, deOrphans>>
loop == <<pc, cur, gap>>
release == <<todo, sending>>
ledger == <<confirmed, events, rolledBack>>
network == <<seen, template, requested, syncDone>>
vars == <<chain, waiting, pending, queues, loop, release, engine, network,
          ledger, expired, failed>>

Src(b, r) == [block |-> b, reply |-> r]
Source == [block : Block, reply : BOOLEAN]
NoSrc == [block |-> Genesis, reply |-> FALSE]
Idle == [pc |-> "idle", src |-> NoSrc]

BlocksOf(S) == {src.block : src \in S}
PendingBlocks == {p.src.block : p \in pending}
InChannel(ch) == {ch[i].block : i \in DOMAIN ch}

HasPendingBlock(b) == b \in PendingBlocks
HasOrphanBlock(b) == b \in BlocksOf(orphans)

\* txPendingMux is held exactly while blocks are being released.
MuxFree == todo = {} /\ sending = NoSrc

Init ==
    /\ chain = {Genesis}
    /\ orphans = {} /\ deOrphans = {}
    /\ pending = {}
    /\ inCh = {} /\ normCh = <<>> /\ highCh = <<>>
    /\ pc = "select" /\ cur = NoSrc /\ gap = {}
    /\ todo = {} /\ sending = NoSrc
    /\ engine = Idle
    /\ seen = {} /\ template = Genesis /\ requested = {} /\ syncDone = FALSE
    /\ confirmed = {} /\ events = <<>> /\ rolledBack = {}
    /\ expired = {} /\ failed = {}

----------------------------------------------------------------------------
\* The engine actor.

\* AddBlock and checkAndSetBlockInChan: a marked block is dropped.
AddBlock(b) ==
    /\ engine = Idle
    /\ engine' = IF b \in inCh THEN Idle
                 ELSE [pc |-> "send", src |-> Src(b, FALSE)]
    /\ inCh' = inCh \cup {b}
    /\ UNCHANGED <<chain, waiting, pending, normCh, highCh, loop, release,
                   ledger, template, syncDone, expired, failed>>

\* onRecvPovBlock of a broadcast block.
RecvBroadcast(b) ==
    /\ b \notin seen \cup Mined
    /\ seen' = seen \cup {b}
    /\ AddBlock(b)
    /\ UNCHANGED requested

\* onRecvPovBlock of a block that was asked for, blkRecvCache is not
\* looked at; or the answer is lost.  No peer has a block of this node
\* before this node has mined it.
RecvFetched(b) ==
    /\ b \in requested \ {Genesis}
    /\ b \in Mined => b \in seen
    /\ requested' = requested \ {b}
    /\ AddBlock(b)
    /\ UNCHANGED seen

LoseRequest(b) ==
    /\ b \in requested
    /\ requested' = requested \ {b}
    /\ UNCHANGED <<chain, waiting, pending, queues, loop, release, engine,
                   seen, template, syncDone, ledger, expired, failed>>

\* Mutant: the template takes unconfirmed transactions.
NewTemplateUnconfirmed(b) ==
    /\ template = Genesis
    /\ b \in Mined \ seen /\ b \notin Bad
    /\ Prev[b] \in chain
    /\ template' = b
    /\ UNCHANGED <<chain, waiting, pending, queues, loop, release, engine,
                   seen, requested, syncDone, ledger, expired, failed>>

\* The miner takes a template on a stored block with transactions of the
\* pool, which learns of confirmations and never of rollbacks, and submits
\* the block later.
NewTemplate(b) ==
    /\ template = Genesis
    /\ b \in Mined \ seen /\ b \notin Bad
    /\ Prev[b] \in chain /\ Txs[b] \subseteq confirmed \cup rolledBack
    /\ template' = b
    /\ UNCHANGED <<chain, waiting, pending, queues, loop, release, engine,
                   seen, requested, syncDone, ledger, expired, failed>>

\* Mutant: a message without a block is not refused.
AddMinedNothing ==
    /\ engine = Idle
    /\ engine' = [pc |-> "send", src |-> Src(template, TRUE)]
    /\ seen' = seen \cup {template}
    /\ template' = Genesis
    /\ UNCHANGED <<chain, waiting, pending, queues, loop, release, requested,
                   syncDone, ledger, expired, failed>>

\* onRecvPovBlock of a local block: AddMinedBlock up to the send; it makes
\* no mark.
AddMinedBlock ==
    /\ template # Genesis
    /\ engine = Idle
    /\ engine' = [pc |-> "send", src |-> Src(template, TRUE)]
    /\ seen' = seen \cup {template}
    /\ template' = Genesis
    /\ UNCHANGED <<chain, waiting, pending, queues, loop, release, requested,
                   syncDone, ledger, expired, failed>>

\* The send on blockNormCh; AddMinedBlock then waits on replyCh.
SendNorm ==
    /\ engine.pc = "send"
    /\ Len(normCh) < NormCap
    /\ normCh' = Append(normCh, engine.src)
    /\ engine' = IF engine.src.reply THEN [engine EXCEPT !.pc = "await"] ELSE Idle
    /\ UNCHANGED <<chain, waiting, pending, inCh, highCh, loop, release,
                   network, ledger, expired, failed>>

----------------------------------------------------------------------------
\* The loop.

\* The select of loop takes a block from either channel.
TakeHigh ==
    /\ pc = "select" /\ highCh # <<>>
    /\ cur' = Head(highCh) /\ highCh' = Tail(highCh)
    /\ pc' = "unmark"
    /\ UNCHANGED <<chain, waiting, pending, inCh, normCh, gap, release,
                   engine, network, ledger, expired, failed>>

TakeNorm ==
    /\ pc = "select" /\ normCh # <<>>
    /\ cur' = Head(normCh) /\ normCh' = Tail(normCh)
    /\ pc' = "unmark"
    /\ UNCHANGED <<chain, waiting, pending, inCh, highCh, gap, release,
                   engine, network, ledger, expired, failed>>

\* Mutant: the mark stays.
UnmarkNothing ==
    /\ pc = "unmark"
    /\ pc' = "check"
    /\ UNCHANGED <<chain, waiting, pending, queues, cur, gap, release, engine,
                   network, ledger, expired, failed>>

\* processOneBlock deletes the mark before it processes the block.
Unmark ==
    /\ pc = "unmark"
    /\ inCh' = inCh \ {cur.block}
    /\ pc' = "check"
    /\ UNCHANGED <<chain, waiting, pending, normCh, highCh, cur, gap,
                   release, engine, network, ledger, expired, failed>>

\* addOrphanBlock: drops orphans older than an hour and adds the block.
addOrphanBlock(src) ==
    \E old \in SUBSET BlocksOf(orphans) :
        /\ Cardinality(expired \cup old) <= MaxExpiry
        /\ expired' = expired \cup old
        /\ orphans' = {o \in orphans : o.block \notin old} \cup {src}

\* processBlock up to VerifyFull.  HasPendingBlock needs txPendingMux;
\* whether a stored block is on the best chain is not modelled here.
Check ==
    /\ pc = "check"
    /\ \/ /\ HasOrphanBlock(cur.block)
          /\ pc' = "reply"
          /\ UNCHANGED <<orphans, expired>>
       \/ /\ ~HasOrphanBlock(cur.block) /\ MuxFree
          /\ HasPendingBlock(cur.block) \/ cur.block \in chain
          /\ pc' = "reply"
          /\ UNCHANGED <<orphans, expired>>
       \/ /\ ~HasOrphanBlock(cur.block) /\ MuxFree
          /\ ~HasPendingBlock(cur.block)
          /\ Prev[cur.block] \notin chain
          /\ addOrphanBlock(cur)
          /\ pc' = "reply"
       \/ /\ ~HasOrphanBlock(cur.block) /\ MuxFree
          /\ ~HasPendingBlock(cur.block)
          /\ Prev[cur.block] \in chain
          /\ pc' = "verify"
          /\ UNCHANGED <<orphans, expired>>
    /\ UNCHANGED <<chain, deOrphans, pending, queues, cur, gap, release,
                   engine, network, ledger, failed>>

\* Mutant: the children stay in orphanBlocks.
enqueueOrphanBlocksKeep(b) ==
    /\ deOrphans' = deOrphans \cup {o \in orphans : Prev[o.block] = b}
    /\ UNCHANGED orphans

\* enqueueOrphanBlocks: the children of b move to deOrphanBlocks.
enqueueOrphanBlocks(b) ==
    /\ deOrphans' = deOrphans \cup {o \in orphans : Prev[o.block] = b}
    /\ orphans' = {o \in orphans : Prev[o.block] # b}

\* verifyTransactions: what is missing in the ledger.
GapTxs(b) == Txs[b] \ confirmed

\* The rest of processBlock: VerifyFull, then a wait for the missing
\* transactions, an error of VerifyFull or InsertBlock, or the insert.
Verify ==
    /\ pc = "verify"
    /\ \/ /\ GapTxs(cur.block) # {}
          /\ gap' = GapTxs(cur.block)
          /\ pc' = "gap"
          /\ UNCHANGED <<chain, orphans, deOrphans, failed>>
       \/ /\ GapTxs(cur.block) = {}
          /\ cur.block \notin failed \/ cur.block \in Bad
          /\ failed' = failed \cup {cur.block}
          /\ Cardinality(failed' \ Bad) <= MaxFail
          /\ pc' = "reply"
          /\ UNCHANGED <<chain, orphans, deOrphans, gap>>
       \/ /\ GapTxs(cur.block) = {}
          /\ cur.block \notin Bad
          /\ chain' = chain \cup {cur.block}
          /\ enqueueOrphanBlocks(cur.block)
          /\ pc' = "reply"
          /\ UNCHANGED <<gap, failed>>
    /\ UNCHANGED <<pending, queues, cur, release, engine,
                   network, ledger, expired>>

\* addTxPendingBlock, with the gap VerifyFull saw.
addTxPendingBlock ==
    /\ pc = "gap" /\ MuxFree
    /\ pending' = pending \cup {[src |-> cur, gap |-> gap]}
    /\ gap' = {}
    /\ pc' = "reply"
    /\ UNCHANGED <<chain, waiting, queues, cur, release, engine,
                   network, ledger, expired, failed>>

\* processOneBlock goes on with the next block of deOrphanBlocks.
NextBlock ==
    \/ /\ deOrphans = {}
       /\ pc' = "select" /\ cur' = NoSrc
       /\ UNCHANGED deOrphans
    \/ /\ cur' \in deOrphans
       /\ deOrphans' = deOrphans \ {cur'}
       /\ pc' = "check"

Awaited(src) == engine.pc = "await" /\ engine.src = src

\* processOneBlock answers on replyCh, if there is one.  AddMinedBlock
\* closes replyCh after the first answer; a second one panics, and
\* common.Go recovers: the loop is gone.
Reply ==
    /\ pc = "reply"
    /\ \/ /\ ~cur.reply
          /\ NextBlock
          /\ UNCHANGED engine
       \/ /\ cur.reply /\ Awaited(cur)
          /\ engine' = Idle
          /\ NextBlock
       \/ /\ cur.reply /\ ~Awaited(cur)
          /\ pc' = "dead"
          /\ UNCHANGED <<cur, deOrphans, engine>>
    /\ UNCHANGED <<chain, orphans, pending, queues, gap,
                   release, network, ledger, expired, failed>>

\* GetOrphanRoot: the first ancestor that is not an orphan.
GetOrphanRoot(b) ==
    LET root[x \in Block \cup {Genesis}] ==
            IF x \in BlocksOf(orphans) THEN root[Prev[x]] ELSE x
    IN  root[b]

\* onRequestOrphanBlocksTimer and onCheckOrphanBlocksTimer.
OrphansTick ==
    /\ pc = "select" /\ orphans # {} /\ syncDone
    /\ pc' = "ask"
    /\ UNCHANGED <<chain, waiting, pending, queues, cur, gap, release, engine,
                   network, ledger, expired, failed>>

\* The timers ask peers for the roots of the orphans that are due (noted
\* by requestOrphanBlock, or not requested lately), except for roots that
\* wait for transactions.
requestBlocksByHashes(due) ==
    /\ pc = "ask" /\ MuxFree
    /\ due # {} /\ due \subseteq BlocksOf(orphans)
    /\ requested' = requested \cup {r \in {GetOrphanRoot(o) : o \in due} : ~HasPendingBlock(r)}
    /\ pc' = "select"
    /\ UNCHANGED <<chain, waiting, pending, queues, cur, gap, release, engine,
                   seen, template, syncDone, ledger, expired, failed>>

----------------------------------------------------------------------------
\* The ledger, its actor and the tx pending timer.

\* A transaction is confirmed: EventAddRelation goes to the mailbox.
Confirm(t) ==
    /\ t \notin confirmed
    /\ confirmed' = confirmed \cup {t}
    /\ events' = Append(events, t)
    /\ UNCHANGED <<chain, waiting, pending, queues, loop, release, engine,
                   network, rolledBack, expired, failed>>

\* A confirmed transaction loses its election and is rolled back.
Rollback(t) ==
    /\ t \in confirmed \ rolledBack
    /\ confirmed' = confirmed \ {t}
    /\ rolledBack' = rolledBack \cup {t}
    /\ UNCHANGED <<chain, waiting, pending, queues, loop, release, engine,
                   network, events, expired, failed>>

\* The transactions of ts leave the gaps of the pending blocks.
FillGaps(ts) == pending' = {[p EXCEPT !.gap = @ \ ts] : p \in pending}

\* onAddStateBlock: the blocks that waited only for the transaction are
\* released.
onAddStateBlock ==
    /\ events # <<>> /\ MuxFree
    /\ events' = Tail(events)
    /\ FillGaps({Head(events)})
    /\ todo' = {p.src : p \in {q \in pending : q.gap = {Head(events)}}}
    /\ UNCHANGED <<chain, waiting, queues, loop, sending, engine, network,
                   confirmed, rolledBack, expired, failed>>

\* Mutant: the timer does not ask the ledger.
CheckTxPendingBlocksWithoutLedger ==
    /\ pending # {} /\ MuxFree
    /\ todo' = {p.src : p \in {q \in pending : q.gap = {}}}
    /\ UNCHANGED <<chain, waiting, pending, queues, loop, sending, engine,
                   network, ledger, expired, failed>>

\* onCheckTxPendingBlocksTimer: asks the ledger for every missing
\* transaction.
onCheckTxPendingBlocksTimer ==
    /\ pending # {} /\ MuxFree
    /\ FillGaps(confirmed)
    /\ todo' = {p.src : p \in {q \in pending : q.gap \subseteq confirmed}}
    /\ UNCHANGED <<chain, waiting, queues, loop, sending, engine, network,
                   ledger, expired, failed>>

\* Mutant: the mark is not looked at.
releaseTxPendingBlockAlways ==
    /\ sending = NoSrc
    /\ \E src \in todo :
           /\ pending' = {p \in pending : p.src.block # src.block}
           /\ sending' = src
           /\ inCh' = inCh \cup {src.block}
           /\ todo' = todo \ {src}
    /\ UNCHANGED <<chain, waiting, normCh, highCh, loop, engine, network,
                   ledger, expired, failed>>

\* releaseTxPendingBlock: a block that is marked is on its way already.
releaseTxPendingBlock ==
    /\ sending = NoSrc
    /\ \E src \in todo :
           /\ pending' = {p \in pending : p.src.block # src.block}
           /\ sending' = IF src.block \in inCh THEN NoSrc ELSE src
           /\ inCh' = inCh \cup {src.block}
           /\ todo' = todo \ {src}
    /\ UNCHANGED <<chain, waiting, normCh, highCh, loop, engine, network,
                   ledger, expired, failed>>

\* The send on blockHighCh, with txPendingMux held.
SendHigh ==
    /\ sending # NoSrc
    /\ Len(highCh) < HighCap
    /\ highCh' = Append(highCh, sending)
    /\ sending' = NoSrc
    /\ UNCHANGED <<chain, waiting, pending, inCh, normCh, loop, todo, engine,
                   network, ledger, expired, failed>>

\* onPovSyncState
onPovSyncState ==
    /\ ~syncDone
    /\ syncDone' = TRUE
    /\ UNCHANGED <<chain, waiting, pending, queues, loop, release, engine,
                   seen, template, requested, ledger, expired, failed>>

----------------------------------------------------------------------------
Engine ==
    \/ \E b \in Block : \/ RecvBroadcast(b) \/ RecvFetched(b)
                        \/ NewTemplate(b)
    \/ \E b \in requested : LoseRequest(b)
    \/ AddMinedBlock \/ SendNorm

Loop ==
    \/ TakeHigh \/ TakeNorm \/ Unmark \/ Check \/ Verify
    \/ addTxPendingBlock \/ Reply
    \/ OrphansTick
    \/ \E due \in SUBSET BlocksOf(orphans) : requestBlocksByHashes(due)

Releasers ==
    \/ \E t \in Tx : Confirm(t) \/ Rollback(t)
    \/ onAddStateBlock \/ onCheckTxPendingBlocksTimer
    \/ releaseTxPendingBlock \/ SendHigh
    \/ onPovSyncState

Next == Engine \/ Loop \/ Releasers

Spec == Init /\ [][Next]_vars

\* Goroutines run, select takes every ready case and every ticker again
\* and again, every orphan comes due, a block that is requested again and
\* again arrives.  Sync ends and every transaction is confirmed.
Fairness ==
    /\ WF_vars(SendNorm) /\ WF_vars(AddMinedBlock)
    /\ SF_vars(TakeHigh) /\ SF_vars(TakeNorm)
    /\ SF_vars(requestBlocksByHashes(BlocksOf(orphans)))
    /\ SF_vars(OrphansTick)
    /\ WF_vars(Unmark \/ Check \/ Verify \/ addTxPendingBlock \/ Reply
                  \/ \E due \in SUBSET BlocksOf(orphans) : requestBlocksByHashes(due))
    /\ SF_vars(\E b \in Block : RecvFetched(b))
    /\ WF_vars(onAddStateBlock) /\ WF_vars(onCheckTxPendingBlocksTimer)
    /\ WF_vars(releaseTxPendingBlock \/ SendHigh)
    /\ WF_vars(onPovSyncState)
    /\ \A t \in Tx : WF_vars(Confirm(t))

FairSpec == Spec /\ Fairness

----------------------------------------------------------------------------
PendingEntry == [src : Source, gap : SUBSET Tx]

ProcessorTypes ==
    /\ chain \subseteq Block \cup {Genesis}
    /\ orphans \subseteq Source /\ deOrphans \subseteq Source
    /\ pending \subseteq PendingEntry
    /\ inCh \subseteq Block
    /\ normCh \in Seq(Source) /\ highCh \in Seq(Source)
    /\ pc \in {"select", "unmark", "check", "verify", "gap", "reply", "ask", "dead"}
    /\ cur \in Source \cup {NoSrc}
    /\ gap \subseteq Tx
    /\ todo \subseteq Source /\ sending \in Source \cup {NoSrc}
    /\ engine \in [pc : {"idle", "send", "await"}, src : Source \cup {NoSrc}]
    /\ seen \subseteq Block /\ template \in Block \cup {Genesis}
    /\ confirmed \subseteq Tx /\ events \in Seq(Tx) /\ rolledBack \subseteq Tx

\* Types: every queue holds block sources and every wait a gap.
TypeOK ==
    /\ ProcessorTypes
    /\ requested \subseteq Block \cup {Genesis} /\ syncDone \in BOOLEAN
    /\ expired \subseteq Block /\ failed \subseteq Block

\* A mark of blockInCh stands for a block that is still coming: in a
\* channel, in a send or just taken.  checkAndSetBlockInChan drops blocks
\* on the strength of it.
MarksAreComing ==
    \A b \in inCh :
        \/ b \in InChannel(normCh) \cup InChannel(highCh)
        \/ b = sending.block
        \/ engine.pc = "send" /\ engine.src.block = b
        \/ pc = "unmark" /\ cur.block = b

\* A block waits in one place only: for its parent, for its transactions
\* or in deOrphanBlocks, and there once (processBlock's duplicate checks).
WaitsOnce ==
    /\ BlocksOf(orphans) \cap BlocksOf(deOrphans) = {}
    /\ PendingBlocks \cap BlocksOf(orphans \cup deOrphans) = {}
    /\ \A p, q \in pending : p.src.block = q.src.block => p = q
    /\ \A o, u \in orphans \cup deOrphans : o.block = u.block => o = u

\* The loop dies on a closed replyCh only when a transaction of a mined
\* block was rolled back: AddMinedBlock relies on mined blocks never having
\* to wait.
DeathNeedsRollback ==
    pc = "dead" => \E b \in Mined : Txs[b] \cap rolledBack # {}

\* A releaser that holds txPendingMux waits for room in blockHighCh while
\* the loop waits for the mutex.
Jammed ==
    /\ sending # NoSrc /\ Len(highCh) = HighCap
    /\ \/ pc \in {"gap", "ask"}
       \/ pc = "check" /\ ~HasOrphanBlock(cur.block)

\* The jam takes more blocks than blockHighCh holds, all with stored
\* parents and missing transactions.
JamNeedsForks ==
    Jammed => Cardinality(InChannel(highCh) \cup {sending.block}) > HighCap

Held(b) ==
    \/ b \in BlocksOf(orphans) \cup BlocksOf(deOrphans) \cup PendingBlocks
    \/ b \in InChannel(normCh) \cup InChannel(highCh)

\* b or an ancestor of it is refused by VerifyFull.
Hopeless(b) ==
    LET bad[x \in Block \cup {Genesis}] ==
            x # Genesis /\ (x \in Bad \/ bad[Prev[x]])
    IN  bad[b]

\* Every block that the processor got hold of is stored at last, whatever
\* it has to wait for: a release, an insert or a request must not be
\* missed.  The exceptions are a refused ancestor, an expired orphan, a
\* failed insert, the jam and the death of the loop.
HeldBlocksAreStored ==
    \A b \in Block :
        Held(b) ~> \/ b \in chain \cup expired \cup failed
                   \/ Hopeless(b) \/ Jammed \/ pc = "dead"
=============================================================================
