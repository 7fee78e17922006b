----------------------------- MODULE PovChain -----------------------------
(***************************************************************************)
(* The chain of proof-of-work blocks (consensus/pov/pov_chain.go and its   *)
(* part of ledger/ledger_pov.go).                                          *)
(*                                                                         *)
(* One goroutine inserts blocks that were verified and whose previous      *)
(* block is known.  An insertion moves the head in memory while it fills a *)
(* transaction of the store, commits, and then, outside the transaction,   *)
(* brings the index from transactions to blocks and the daily statistics   *)
(* up to the new best chain.  A timer goroutine makes miner statistics     *)
(* next to it.  The process may crash between any two writes; the store    *)
(* keeps what was committed.                                               *)
(*                                                                         *)
(* The tree of all blocks that may arrive is a constant.  Headers, caches  *)
(* by hash (they hold what the store holds), the state trie and the        *)
(* published events are left out; the caches are never full.               *)
(***************************************************************************)
EXTENDS Integers, FiniteSets

CONSTANTS
    Block,
    Genesis,
    None,
    prev,          \* [Block \ {Genesis} -> Block]
    height,        \* [Block -> Nat]
    anc,           \* anc[b][h]: the block of height h that b stands on, or b
    td,            \* [Block -> Nat]: total difficulty
    Tx,            \* state blocks that PoV blocks pack
    txs,           \* [Block -> SUBSET Tx]
    PoVMaxForkHeight,
    POVChainBlocksPerDay,
    PovMinerRewardHeightGapToLatest,
    MaxCrash,      \* bound: crashes
    MaxFail        \* bound: transactions that the store refuses

ASSUME TreeAssumption ==
    /\ Genesis \in Block /\ None \notin Block
    /\ prev \in [Block \ {Genesis} -> Block]
    /\ height \in [Block -> Nat] /\ height[Genesis] = 0
    /\ \A b \in Block \ {Genesis} : height[b] = height[prev[b]] + 1
    /\ DOMAIN anc = Block
    /\ \A b \in Block : anc[b] \in [0 .. height[b] -> Block]
    /\ \A b \in Block : anc[b][0] = Genesis /\ anc[b][height[b]] = b
    /\ \A b \in Block \ {Genesis} : \A h \in 0 .. height[prev[b]] :
          anc[b][h] = anc[prev[b]][h]
    /\ \A b \in Block : \A h \in 1 .. height[b] :
          anc[b][h] # Genesis /\ prev[anc[b][h]] = anc[b][h - 1]
    /\ \A b \in Block : \A h \in 0 .. height[b] : height[anc[b][h]] = h
\* CalcTotalDifficulty: a block adds its work, which is positive.
ASSUME WorkAssumption ==
    /\ td \in [Block -> Nat]
    /\ \A b \in Block \ {Genesis} : td[b] > td[prev[b]]
ASSUME TxAssumption == txs \in [Block -> SUBSET Tx] /\ Tx \cap (Block \cup {None}) = {}
\* verifyTransactions: a transaction must follow the state of its account as
\* of the previous block, so no branch packs it twice.
ASSUME PackedOnceAssumption ==
    \A b \in Block : \A g, h \in 0 .. height[b] :
        g # h => txs[anc[b][g]] \cap txs[anc[b][h]] = {}
ASSUME ParamAssumption ==
    /\ PoVMaxForkHeight \in Nat /\ POVChainBlocksPerDay \in Nat \ {0}
    /\ PovMinerRewardHeightGapToLatest \in Nat
    /\ MaxCrash \in Nat /\ MaxFail \in Nat

VARIABLES
    \* in the store
    blocks,        \* block and total difficulty, by hash
    best,          \* PovBestHash: [Height -> Block \cup {None}]
    latestHeight,
    lookup,        \* PovTxLookup: [AllTx -> Block \cup {None}]
    cursor,        \* PovTxlScanCursor
    diffStat,      \* PovDiffStat: [Day -> SUBSET Block], {} when there is none
    minerStat,     \* PovMinerStat, likewise
    \* in memory
    latestBlock,
    heightBlockCache,
    proc,          \* the goroutine in InsertBlock or Init
    timer,         \* doingMinerStat of statLoop, with the height it read
    \* history and bounds
    torn,          \* a crash separated a fork from the reset of the cursor
    crashes,
    failures

store == <<blocks, best, latestHeight>>
indexes == <<lookup, cursor, diffStat, minerStat>>
memory == <<latestBlock, heightBlockCache>>
vars == <<blocks, best, latestHeight, lookup, cursor, diffStat, minerStat,
          latestBlock, heightBlockCache, proc, timer, torn, crashes, failures>>

Height == {height[b] : b \in Block}
\* The coinbase transaction of a block is represented by the block.
AllTx == Tx \cup Block
GetAllTxs(b) == {b} \cup txs[b]
DayOf(h) == h \div POVChainBlocksPerDay
\* The days that begin on some branch.
Day == {d \in Height : d * POVChainBlocksPerDay \in Height}
DayHeights(d) == d * POVChainBlocksPerDay .. (d + 1) * POVChainBlocksPerDay - 1
DayEnd(d) == (d + 1) * POVChainBlocksPerDay - 1

ProcType == [pc : {"idle", "commit", "cursor", "lookups", "mark", "stats"},
             block : Block, head : Block, fork : Block \cup {None}, next : Nat,
             init : BOOLEAN]
Idle == [pc |-> "idle", block |-> Genesis, head |-> Genesis, fork |-> None, next |-> 0,
         init |-> FALSE]

TypeOK ==
    /\ blocks \subseteq Block /\ Genesis \in blocks
    /\ best \in [Height -> Block \cup {None}]
    /\ latestHeight \in Height
    /\ lookup \in [AllTx -> Block \cup {None}]
    /\ cursor \in Height
    /\ diffStat \in [Day -> SUBSET Block]
    /\ minerStat \in [Day -> SUBSET Block]
    /\ latestBlock \in Block
    /\ heightBlockCache \in [Height -> Block \cup {None}]
    /\ proc \in ProcType
    /\ timer \in Height \cup {-1}
    /\ torn \in BOOLEAN
    /\ crashes \in 0 .. MaxCrash /\ failures \in 0 .. MaxFail

---------------------------------------------------------------------------
\* resetWithGenesisBlock on an empty store.
Init ==
    /\ blocks = {Genesis}
    /\ best = [h \in Height |-> IF h = 0 THEN Genesis ELSE None]
    /\ latestHeight = 0
    /\ lookup = [t \in AllTx |-> IF t \in GetAllTxs(Genesis) THEN Genesis ELSE None]
    /\ cursor = 0
    /\ diffStat = [d \in Day |-> {}]
    /\ minerStat = [d \in Day |-> {}]
    /\ latestBlock = Genesis
    /\ heightBlockCache = [h \in Height |-> IF h = 0 THEN Genesis ELSE None]
    /\ proc = Idle
    /\ timer = -1
    /\ torn = FALSE /\ crashes = 0 /\ failures = 0

HasBestBlock(b) == b \in blocks /\ best[height[b]] = b

\* Mutant: the scan goes on where the last one ended, also after a fork.
StartScanAtCursor(fork, init) ==
    [Idle EXCEPT !.pc = "lookups", !.next = cursor + 1, !.init = init]
\* batchUpdateTxLookupInSync begins at the fork, or where the last scan ended.
StartScan(fork, init) ==
    [pc |-> IF fork = None THEN "lookups" ELSE "cursor",
     block |-> Genesis, head |-> Genesis, fork |-> fork,
     next |-> IF fork = None THEN cursor + 1 ELSE height[fork] + 1,
     init |-> init]

\* Mutant: the longer chain wins.
MayBeBestByHeight(b) == height[b] > height[latestBlock]
\* insertBlock prefers more work, then less height, then tosses a coin.
MayBeBest(b) ==
    \/ td[b] > td[latestBlock]
    \/ td[b] = td[latestBlock] /\ height[b] <= height[latestBlock]
MayBeSide(b) ==
    \/ td[b] < td[latestBlock]
    \/ td[b] = td[latestBlock] /\ height[b] >= height[latestBlock]

\* The height processFork finds: it walks back from the lower of the two heads
\* until the previous blocks are the same.  It is -1 when the head in memory
\* has fallen back to genesis.
ForkHeight(b) ==
    IF prev[b] = latestBlock THEN height[latestBlock]
    ELSE LET Common == {-1} \cup {h \in 0 .. height[b] - 1 :
                            h < height[latestBlock] /\ anc[b][h] = anc[latestBlock][h]}
         IN CHOOSE h \in Common : \A g \in Common : g <= h
Detached(b) == {anc[latestBlock][h] : h \in ForkHeight(b) + 1 .. height[latestBlock]}
Attached(b) == {anc[b][h] : h \in ForkHeight(b) + 1 .. height[b]}
\* Mutant: the depth of the fork is counted from its first block.
CannotForkFromFirst(b) ==
    ForkHeight(b) = -1 \/ height[latestBlock] - (ForkHeight(b) + 1) > PoVMaxForkHeight
CannotFork(b) ==
    ForkHeight(b) = -1 \/ height[latestBlock] - ForkHeight(b) > PoVMaxForkHeight

\* StoreLatestBlock for every block from the old head, down to the fork and up
\* to m; disconnectBestBlock takes what it leaves out of the cache.
MoveHead(b, m) ==
    /\ latestBlock' = m
    /\ heightBlockCache' = [h \in Height |->
          IF h \in ForkHeight(b) .. height[m] THEN anc[m][h]
          ELSE IF h \in height[m] + 1 .. height[latestBlock] THEN None
          ELSE heightBlockCache[h]]
\* Where a write of the transaction may fail.
Waypoints(b) == (Detached(b) \cup Attached(b) \cup {anc[b][ForkHeight(b)]}) \ {b, latestBlock}

\* The head is not in the store (an earlier commit failed), or the fork is too
\* deep: the transaction is discarded.
InsertRefused(b) ==
    /\ latestBlock \notin blocks \/ (MayBeBest(b) /\ CannotFork(b))
    /\ proc' = StartScan(None, FALSE)
    /\ UNCHANGED <<store, indexes, memory, timer, torn, crashes, failures>>

InsertSide(b) ==
    /\ latestBlock \in blocks /\ MayBeSide(b)
    /\ blocks' = blocks \cup {b}
    /\ proc' = StartScan(None, FALSE)
    /\ UNCHANGED <<best, latestHeight, indexes, memory, timer, torn, crashes, failures>>

\* connectBestBlock, or processFork, in memory; the transaction is still open.
InsertBest(b) ==
    /\ latestBlock \in blocks /\ MayBeBest(b) /\ ~CannotFork(b)
    /\ MoveHead(b, b)
    /\ proc' = [pc |-> "commit", block |-> b, head |-> latestBlock,
                fork |-> IF prev[b] = latestBlock THEN None ELSE anc[b][ForkHeight(b)],
                next |-> ForkHeight(b) + 1, init |-> FALSE]
    /\ UNCHANGED <<store, indexes, timer, torn, crashes, failures>>

\* A write of the transaction fails on the way; memory stays where it is.
InsertBroken(b) ==
    /\ failures < MaxFail /\ latestBlock \in blocks /\ MayBeBest(b) /\ ~CannotFork(b)
    /\ \E m \in Waypoints(b) : MoveHead(b, m)
    /\ failures' = failures + 1
    /\ proc' = StartScan(None, FALSE)
    /\ UNCHANGED <<store, indexes, timer, torn, crashes>>

\* processBlock inserts what is not in the best chain and has its previous.
InsertBlock(b) ==
    /\ proc.pc = "idle"
    /\ prev[b] \in blocks /\ ~HasBestBlock(b)
    /\ InsertRefused(b) \/ InsertSide(b) \/ InsertBest(b) \/ InsertBroken(b)

\* Mutant: heights of the abandoned branch above the new head are left.
CommitKeepsTail ==
    /\ proc.pc = "commit"
    /\ LET b == proc.block
           joined == {anc[b][h] : h \in proc.next .. height[b]}
       IN /\ blocks' = blocks \cup {b}
          /\ best' = [h \in Height |->
                IF h \in proc.next .. height[b] THEN anc[b][h] ELSE best[h]]
          /\ latestHeight' = height[b]
          /\ lookup' = [t \in AllTx |-> IF t \in joined THEN t ELSE lookup[t]]
    /\ proc' = StartScan(proc.fork, FALSE)
    /\ UNCHANGED <<cursor, diffStat, minerStat, memory, timer, torn, crashes, failures>>
\* Mutant: disconnectBestBlock does not lower the latest height.
CommitKeepsHeight ==
    /\ proc.pc = "commit"
    /\ LET b == proc.block
       IN /\ blocks' = blocks \cup {b}
          /\ best' = [h \in Height |->
                IF h \in proc.next .. height[b] THEN anc[b][h]
                ELSE IF h \in proc.next .. height[proc.head] THEN None ELSE best[h]]
          /\ latestHeight' = IF height[b] > latestHeight THEN height[b] ELSE latestHeight
    /\ proc' = StartScan(proc.fork, FALSE)
    /\ UNCHANGED <<lookup, cursor, diffStat, minerStat, memory, timer, torn, crashes, failures>>

\* The transaction: the best hashes and coinbase lookups of the blocks that
\* left and joined the best chain, from the fork up.
Commit ==
    /\ proc.pc = "commit"
    /\ LET b == proc.block
           joined == {anc[b][h] : h \in proc.next .. height[b]}
           left == {anc[proc.head][h] : h \in proc.next .. height[proc.head]}
       IN /\ blocks' = blocks \cup {b}
          /\ best' = [h \in Height |->
                IF h \in proc.next .. height[b] THEN anc[b][h]
                ELSE IF h \in proc.next .. height[proc.head] THEN None ELSE best[h]]
          /\ latestHeight' = height[b]
          /\ lookup' = [t \in AllTx |-> IF t \in joined THEN t
                                        ELSE IF t \in left THEN None ELSE lookup[t]]
    /\ proc' = StartScan(proc.fork, FALSE)
    /\ UNCHANGED <<cursor, diffStat, minerStat, memory, timer, torn, crashes, failures>>

\* BatchWrite returns an error; InsertBlock goes on with the head it moved.
CommitFails ==
    /\ proc.pc = "commit" /\ failures < MaxFail
    /\ failures' = failures + 1
    /\ proc' = StartScan(None, FALSE)
    /\ UNCHANGED <<store, indexes, memory, timer, torn, crashes>>

---------------------------------------------------------------------------
\* batchUpdateTxLookupInSync, one write of the store at a time.
ResetCursor ==
    /\ proc.pc = "cursor"
    /\ cursor' = height[proc.fork]
    /\ proc' = [proc EXCEPT !.pc = "lookups"]
    /\ UNCHANGED <<store, lookup, diffStat, minerStat, memory, timer, torn, crashes, failures>>

GetBlockByHeight(h) ==
    IF heightBlockCache[h] # None THEN heightBlockCache[h] ELSE best[h]

WriteLookups ==
    /\ proc.pc = "lookups"
    /\ proc.next <= height[latestBlock]
    /\ LET b == GetBlockByHeight(proc.next)
       IN /\ b # None
          /\ lookup' = [t \in AllTx |-> IF t \in GetAllTxs(b) THEN b ELSE lookup[t]]
          /\ heightBlockCache' = [heightBlockCache EXCEPT ![proc.next] = b]
    /\ proc' = [proc EXCEPT !.pc = "mark"]
    /\ UNCHANGED <<store, cursor, diffStat, minerStat, latestBlock, timer, torn, crashes, failures>>

\* Mutant: the cursor is where the next scan begins.
AdvanceCursorPast ==
    /\ proc.pc = "mark"
    /\ cursor' = proc.next + 1
    /\ proc' = [proc EXCEPT !.pc = "lookups", !.next = proc.next + 1]
    /\ UNCHANGED <<store, lookup, diffStat, minerStat, memory, timer, torn, crashes, failures>>
AdvanceCursor ==
    /\ proc.pc = "mark"
    /\ cursor' = proc.next
    /\ proc' = [proc EXCEPT !.pc = "lookups", !.next = proc.next + 1]
    /\ UNCHANGED <<store, lookup, diffStat, minerStat, memory, timer, torn, crashes, failures>>

EndScan ==
    /\ proc.pc = "lookups"
    /\ proc.next <= height[latestBlock] => GetBlockByHeight(proc.next) = None
    /\ proc' = [proc EXCEPT !.pc = "stats"]
    /\ UNCHANGED <<store, indexes, memory, timer, torn, crashes, failures>>

---------------------------------------------------------------------------
\* The header of every height of the day, from the best chain in the store.
DayHeaders(d) == {best[h] : h \in DayHeights(d)}
HasHeaders(d) == DayHeights(d) \subseteq Height /\ None \notin DayHeaders(d)
\* The last day that has a statistic, or -1.
LastDay(stat) ==
    LET days == {d \in Day : stat[d] # {}} \cup {-1}
    IN CHOOSE d \in days : \A e \in days : e <= d
\* The days from start on that are written, until one lacks a header.
Written(stat, start, ready) ==
    [d \in Day |-> IF /\ start <= d
                      /\ \A e \in Day : start <= e /\ e <= d => e \in ready /\ HasHeaders(e)
                   THEN DayHeaders(d) ELSE stat[d]]

\* Mutant: a day is counted when it is over.
MinerStatsAtOnce(top) ==
    Written(minerStat, LastDay(minerStat) + 1, {d \in Day : DayEnd(d) <= top})
\* onMinerDayStatTimer, for a head of height top.
MinerStats(top) ==
    LET ready == {d \in Day : DayEnd(d) + PovMinerRewardHeightGapToLatest <= top}
    IN Written(minerStat, LastDay(minerStat) + 1, ready)

\* updateDiffDayStatInSync.  The division binds to the 1 only.
ForkDay(fork) == height[fork] + 1 \div POVChainBlocksPerDay
DiffStats(fork) ==
    LET top == height[latestBlock]
        endDay == DayOf(top)
        last == LastDay(diffStat)
        startDay == IF fork = None THEN endDay ELSE ForkDay(fork)
        start == IF last < startDay THEN last + 1 ELSE startDay
        kept == [d \in Day |-> IF d \in endDay .. last THEN {} ELSE diffStat[d]]
        ready == {d \in Day : d <= endDay /\ DayEnd(d) <= top}
    IN IF top < POVChainBlocksPerDay THEN diffStat ELSE Written(kept, start, ready)

\* The end of InsertBlock and of Init.
UpdateStats ==
    /\ proc.pc = "stats"
    /\ LET oneDayPoint == (height[latestBlock] + 1) % POVChainBlocksPerDay = 0
       IN /\ diffStat' = IF proc.init \/ oneDayPoint \/ proc.fork # None
                         THEN DiffStats(proc.fork) ELSE diffStat
          /\ minerStat' = IF (proc.init \/ oneDayPoint) /\ timer = -1
                          THEN MinerStats(height[latestBlock]) ELSE minerStat
    /\ proc' = Idle
    /\ UNCHANGED <<store, lookup, cursor, memory, timer, torn, crashes, failures>>

\* statLoop's tick reads the head, and then the headers.
StatTick ==
    /\ timer = -1 /\ ~proc.init
    /\ timer' = height[latestBlock]
    /\ UNCHANGED <<store, indexes, memory, proc, torn, crashes, failures>>

StatWrite ==
    /\ timer # -1
    /\ minerStat' = MinerStats(timer)
    /\ timer' = -1
    /\ UNCHANGED <<store, lookup, cursor, diffStat, memory, proc, torn, crashes, failures>>

\* The head comes from the store; the caches are empty.
loadLastState ==
    /\ latestBlock' = best[latestHeight]
    /\ heightBlockCache' = [h \in Height |-> IF h = latestHeight THEN best[h] ELSE None]

\* The process dies and starts again: the scan and the statistics run as Init
\* of the chain calls them.
Restart ==
    /\ crashes < MaxCrash
    /\ crashes' = crashes + 1
    /\ loadLastState
    /\ timer' = -1
    /\ proc' = StartScan(None, TRUE)
    /\ torn' = (torn \/ proc.pc = "cursor")
    /\ UNCHANGED <<store, indexes, failures>>

Next ==
    \/ \E b \in Block \ {Genesis} : InsertBlock(b)
    \/ Commit \/ CommitFails
    \/ ResetCursor \/ WriteLookups \/ AdvanceCursor \/ EndScan \/ UpdateStats
    \/ StatTick \/ StatWrite
    \/ Restart

Spec == Init /\ [][Next]_vars

---------------------------------------------------------------------------
\* The best hashes in the store are exactly the blocks that the head stands
\* on: after any sequence of forks no height of an abandoned branch is left and
\* none is missing (processFork, disconnectBlock, connectBlock).  This and the
\* next hold until a transaction fails: the head in memory is then a wrong place
\* to start the next fork from.
BestChainIsPath ==
    failures = 0 =>
        /\ best[latestHeight] # None
        /\ best = [h \in Height |->
                      IF h <= latestHeight THEN anc[best[latestHeight]][h] ELSE None]

\* No stored block has more work than the head, whatever order the blocks came
\* in (insertBlock); a branch that was refused as too deep is not stored.
HeaviestIsBest ==
    failures = 0 => \A b \in blocks : td[b] <= td[best[latestHeight]]

\* The promise of the chain: whatever is inserted and whenever the process dies,
\* the store moves from head to head as HeaviestChain allows (insertBlock,
\* processFork).
Promise == INSTANCE HeaviestChain
    WITH accepted <- blocks, head <- best[latestHeight], faulty <- failures > 0
KeepsPromise == Promise!Spec

\* Mutant: any lookup counts.
HasPovTxLookupAnywhere(t) == lookup[t] # None
HasPovTxLookup(t) == lookup[t] # None /\ best[height[lookup[t]]] = lookup[t]

\* A lookup is found only when it points into the best chain
\* (HasPovTxLookup).  When no insertion is going on, it is found for exactly
\* the transactions that the best chain packs: the pool relies on it to offer a
\* transaction once, and DPoS to roll back none that is packed.  A crash in the
\* middle of the scan does no harm; one before the cursor is reset to the fork
\* does.
LookupsAreComplete ==
    proc.pc = "idle" /\ ~torn /\ failures = 0 =>
        \A t \in AllTx : HasPovTxLookup(t) <=>
            \E h \in 0 .. latestHeight : t \in GetAllTxs(best[h])

\* A lookup that is found is right at every moment: while a scan is going on,
\* and after a transaction failed, whose lookups the scan writes all the same.
LookupsAreSound ==
    \A t \in AllTx : HasPovTxLookup(t) =>
        \E h \in Height : best[h] # None /\ t \in GetAllTxs(best[h])

\* loadLastState finds a block at the height of the head whenever the process
\* dies, also after failed transactions.
HeadIsLoadable ==
    best[latestHeight] \in blocks /\ height[best[latestHeight]] = latestHeight

\* Work is about equal: a stored block that is not lighter than another is not
\* lower.
EqualWork == \A a, b \in blocks : td[a] <= td[b] => height[a] <= height[b]

\* Rewards are paid by the miner statistic of a day, which is written once and
\* never again (onMinerDayStatTimer); so the blocks it counted stay in the best
\* chain for ever, until a transaction fails or a lower block outweighs a
\* higher one: the timer then sees a head in memory that is several blocks above
\* the one in the store, from which it takes the headers.
MinerStatsAreFinal ==
    failures = 0 /\ EqualWork =>
        \A d \in Day : minerStat[d] # {} => minerStat[d] = DayHeaders(d)

\* "day after fork point must be recalculated" (updateDiffDayStatInSync): when
\* an insertion has ended, a difficulty statistic is that of the best chain.
DiffStatsFollowForks ==
    proc.pc = "idle" => \A d \in Day : diffStat[d] # {} => diffStat[d] = DayHeaders(d)
=============================================================================
