------------------------- MODULE PovProcessorProofs -------------------------
(***************************************************************************)
(* For every set of blocks and transactions, every capacity of the         *)
(* channels and any number of expired orphans and failed inserts: the      *)
(* fields keep their types, the marks of blockInCh are true, a block       *)
(* waits in one place, the loop dies only after a rollback, and the loop   *)
(* and a releaser wait for each other only over more different blocks      *)
(* than blockHighCh holds.                                                 *)
(*                                                                         *)
(* WaitsOnce needs to know where the loop's own block cannot be.           *)
(* DeathNeedsRollback rests on following every source with a reply         *)
(* channel: as long as none of its block's transactions is rolled back it  *)
(* is in one place on its way to the first answer.  JamNeedsForks rests    *)
(* on following every block through the channels: it is in one place, and  *)
(* marked, unless the miner has just put its own block there.              *)
(***************************************************************************)
EXTENDS PovProcessor, FiniteSetTheorems, TLAPS

USE DEF vars, waiting, queues, loop, release, ledger, network

-----------------------------------------------------------------------------
\* What Append and Tail do to a channel and to its blocks.
LEMMA AppendAt ==
    ASSUME NEW ch \in Seq(Source), NEW s \in Source
    PROVE  /\ DOMAIN Append(ch, s) = 1 .. Len(ch) + 1 /\ DOMAIN ch = 1 .. Len(ch)
           /\ Len(ch) \in Nat
           /\ \A i \in 1 .. Len(ch) : Append(ch, s)[i] = ch[i]
           /\ Append(ch, s)[Len(ch) + 1] = s
OBVIOUS

LEMMA ChannelAppend ==
    ASSUME NEW ch \in Seq(Source), NEW s \in Source
    PROVE  /\ Append(ch, s) \in Seq(Source)
           /\ InChannel(Append(ch, s)) = InChannel(ch) \cup {s.block}
<1>1. Append(ch, s) \in Seq(Source)
  OBVIOUS
<1>2. DOMAIN Append(ch, s) = 1 .. Len(ch) + 1 /\ DOMAIN ch = 1 .. Len(ch) /\ Len(ch) \in Nat
  OBVIOUS
<1>3. \A i \in 1 .. Len(ch) : Append(ch, s)[i] = ch[i]
  OBVIOUS
<1>4. Append(ch, s)[Len(ch) + 1] = s
  OBVIOUS
<1>5. ASSUME NEW x \in InChannel(Append(ch, s)) PROVE x \in InChannel(ch) \cup {s.block}
  <2>1. PICK i \in 1 .. Len(ch) + 1 : x = Append(ch, s)[i].block
    BY <1>2, Zenon DEF InChannel
  <2> QED
    BY <2>1, <1>2, <1>3, <1>4 DEF InChannel
<1>6. ASSUME NEW x \in InChannel(ch) PROVE x \in InChannel(Append(ch, s))
  <2>1. PICK i \in 1 .. Len(ch) : x = ch[i].block
    BY <1>2, Zenon DEF InChannel
  <2> QED
    BY <2>1, <1>2, <1>3 DEF InChannel
<1>7. s.block \in InChannel(Append(ch, s))
  BY <1>2, <1>4 DEF InChannel
<1> QED
  BY <1>1, <1>5, <1>6, <1>7, Zenon

LEMMA ChannelTail ==
    ASSUME NEW ch \in Seq(Source), ch # <<>>
    PROVE  /\ Head(ch) \in Source /\ Tail(ch) \in Seq(Source)
           /\ \A b \in InChannel(ch) : b = Head(ch).block \/ b \in InChannel(Tail(ch))
<1>1. Head(ch) \in Source /\ Tail(ch) \in Seq(Source) /\ Head(ch) = ch[1]
  OBVIOUS
<1>2. /\ DOMAIN ch = 1 .. Len(ch) /\ Len(ch) \in Nat \ {0}
      /\ DOMAIN Tail(ch) = 1 .. Len(ch) - 1
      /\ \A i \in 1 .. Len(ch) - 1 : Tail(ch)[i] = ch[i + 1]
  OBVIOUS
<1>3. ASSUME NEW b \in InChannel(ch), b # Head(ch).block
      PROVE  b \in InChannel(Tail(ch))
  <2>1. PICK i \in 1 .. Len(ch) : b = ch[i].block
    BY <1>2, Zenon DEF InChannel
  <2>2. i # 1 /\ i - 1 \in 1 .. Len(ch) - 1 /\ (i - 1) + 1 = i
    BY <2>1, <1>1, <1>2, <1>3
  <2>3. Tail(ch)[i - 1] = ch[i]
    BY <2>2, <1>2, Zenon
  <2> QED
    BY <2>1, <2>2, <2>3, <1>2, Zenon DEF InChannel
<1> QED
  BY <1>1, <1>3, Zenon

Elems(ch) == {ch[i] : i \in DOMAIN ch}

LEMMA ChannelElems ==
    ASSUME NEW ch \in Seq(Source), NEW s \in Source
    PROVE  /\ Elems(Append(ch, s)) \subseteq Elems(ch) \cup {s}
           /\ ch # <<>> => Elems(Tail(ch)) \subseteq Elems(ch) /\ Head(ch) \in Elems(ch)
<1>1. /\ DOMAIN Append(ch, s) = 1 .. Len(ch) + 1 /\ DOMAIN ch = 1 .. Len(ch) /\ Len(ch) \in Nat
      /\ \A i \in 1 .. Len(ch) : Append(ch, s)[i] = ch[i]
      /\ Append(ch, s)[Len(ch) + 1] = s
  OBVIOUS
<1>2. Elems(Append(ch, s)) \subseteq Elems(ch) \cup {s}
  BY <1>1 DEF Elems
<1>3. ASSUME ch # <<>> PROVE Elems(Tail(ch)) \subseteq Elems(ch) /\ Head(ch) \in Elems(ch)
  <2>1. /\ Len(ch) \in Nat \ {0} /\ DOMAIN Tail(ch) = 1 .. Len(ch) - 1 /\ Head(ch) = ch[1]
        /\ \A i \in 1 .. Len(ch) - 1 : Tail(ch)[i] = ch[i + 1] /\ i + 1 \in 1 .. Len(ch)
    BY <1>3
  <2> QED
    BY <1>1, <2>1 DEF Elems
<1> QED
  BY <1>2, <1>3, Zenon

-----------------------------------------------------------------------------
\* The types, with what the loop and the engine hold while they are busy.
Busy == pc \notin {"select", "ask"}
Types ==
    /\ ProcessorTypes
    /\ Busy => cur \in Source
    /\ engine.pc # "idle" => engine.src \in Source

LEMMA TypesInit == Init => Types
BY BlockAssumption DEF Init, Types, ProcessorTypes, Busy, Idle, NoSrc

LEMMA SourceFacts ==
    /\ \A b \in Block, r \in BOOLEAN : Src(b, r) \in Source
    /\ \A s \in Source : s.block \in Block /\ s.reply \in BOOLEAN
    /\ NoSrc \notin Source /\ NoSrc.block = Genesis /\ NoSrc.reply = FALSE
BY BlockAssumption, Zenon DEF Src, Source, NoSrc

LEMMA EngineTypes == ASSUME Types, Engine PROVE Types'
<1>1. ASSUME NEW b \in Block, RecvBroadcast(b) PROVE Types'
  BY <1>1, SourceFacts, Zenon DEF Types, ProcessorTypes, Busy, RecvBroadcast, AddBlock, Idle
<1>2. ASSUME NEW b \in Block, RecvFetched(b) PROVE Types'
  BY <1>2, SourceFacts, Zenon DEF Types, ProcessorTypes, Busy, RecvFetched, AddBlock, Idle
<1>3. ASSUME NEW b \in Block, NewTemplate(b) PROVE Types'
  BY <1>3, Zenon DEF Types, ProcessorTypes, Busy, NewTemplate
<1>4. ASSUME NEW b \in requested, LoseRequest(b) PROVE Types'
  BY <1>4 DEF Types, ProcessorTypes, Busy, LoseRequest
<1>5. CASE AddMinedBlock
  BY <1>5, SourceFacts, Zenon DEF Types, ProcessorTypes, Busy, AddMinedBlock
<1>6. CASE SendNorm
  <2>1. normCh' \in Seq(Source)
    BY <1>6 DEF Types, ProcessorTypes, SendNorm
  <2>2. engine' \in [pc : {"idle", "send", "await"}, src : Source \cup {NoSrc}]
    BY <1>6, Zenon DEF Types, ProcessorTypes, SendNorm, Idle
  <2>3. engine'.pc # "idle" => engine'.src \in Source
    BY <1>6, Zenon DEF Types, ProcessorTypes, SendNorm, Idle
  <2> QED
    BY <1>6, <2>1, <2>2, <2>3, Zenon DEF Types, ProcessorTypes, Busy, SendNorm
<1> QED
  BY <1>1, <1>2, <1>3, <1>4, <1>5, <1>6, Zenon DEF Engine

LEMMA LoopTypes == ASSUME Types, Loop PROVE Types'
<1>1. CASE TakeHigh
  BY <1>1, ChannelTail, Zenon DEF Types, ProcessorTypes, Busy, TakeHigh
<1>2. CASE TakeNorm
  BY <1>2, ChannelTail, Zenon DEF Types, ProcessorTypes, Busy, TakeNorm
<1>3. CASE Unmark
  BY <1>3, Zenon DEF Types, ProcessorTypes, Busy, Unmark
<1>4. CASE Check
  BY <1>4, Zenon DEF Types, ProcessorTypes, Busy, Check, addOrphanBlock
<1>5. CASE Verify
  BY <1>5, SourceFacts, BlockAssumption
     DEF Types, ProcessorTypes, Busy, Verify, enqueueOrphanBlocks, GapTxs
<1>6. CASE addTxPendingBlock
  BY <1>6 DEF Types, ProcessorTypes, Busy, addTxPendingBlock, PendingEntry
<1>7. CASE Reply
  BY <1>7 DEF Types, ProcessorTypes, Busy, Reply, NextBlock, Idle
<1>8. CASE OrphansTick
  BY <1>8, Zenon DEF Types, ProcessorTypes, Busy, OrphansTick
<1>9. ASSUME NEW due, requestBlocksByHashes(due) PROVE Types'
  BY <1>9, Zenon DEF Types, ProcessorTypes, Busy, requestBlocksByHashes
<1> QED
  BY <1>1, <1>2, <1>3, <1>4, <1>5, <1>6, <1>7, <1>8, <1>9, Zenon DEF Loop

\* FillGaps changes gaps only.
LEMMA FillGapsKeeps ==
    ASSUME pending \subseteq PendingEntry, NEW ts, FillGaps(ts)
    PROVE  /\ pending' \subseteq PendingEntry
           /\ \A p \in pending' : \E q \in pending :
                  p.src = q.src /\ p = [q EXCEPT !.gap = @ \ ts]
<1> SUFFICES ASSUME NEW p \in pending'
             PROVE  /\ p \in PendingEntry
                    /\ \E q \in pending : p.src = q.src /\ p = [q EXCEPT !.gap = @ \ ts]
  BY Zenon
<1>1. PICK q \in pending : p = [q EXCEPT !.gap = @ \ ts]
  BY Zenon DEF FillGaps
<1>2. q \in PendingEntry
  BY Zenon
<1>3. p \in PendingEntry /\ p.src = q.src
  BY <1>1, <1>2, Zenon DEF PendingEntry
<1> QED
  BY <1>1, <1>3, Zenon

LEMMA ReleasersTypes == ASSUME Types, Releasers PROVE Types'
<1>1. ASSUME NEW t \in Tx, Confirm(t) PROVE Types'
  BY <1>1 DEF Types, ProcessorTypes, Busy, Confirm
<1>2. ASSUME NEW t \in Tx, Rollback(t) PROVE Types'
  BY <1>2, Zenon DEF Types, ProcessorTypes, Busy, Rollback
<1>3. CASE onAddStateBlock
  <2>1. pending' \subseteq PendingEntry
    BY <1>3, FillGapsKeeps, Zenon DEF onAddStateBlock, Types, ProcessorTypes
  <2>2. todo' \subseteq Source /\ events' \in Seq(Tx)
    BY <1>3 DEF onAddStateBlock, Types, ProcessorTypes, PendingEntry
  <2> QED
    BY <1>3, <2>1, <2>2, Zenon DEF Types, ProcessorTypes, Busy, onAddStateBlock
<1>4. CASE onCheckTxPendingBlocksTimer
  <2>1. pending' \subseteq PendingEntry
    BY <1>4, FillGapsKeeps, Zenon DEF onCheckTxPendingBlocksTimer, Types, ProcessorTypes
  <2>2. todo' \subseteq Source
    BY <1>4, Zenon DEF onCheckTxPendingBlocksTimer, Types, ProcessorTypes, PendingEntry
  <2> QED
    BY <1>4, <2>1, <2>2, Zenon DEF Types, ProcessorTypes, Busy, onCheckTxPendingBlocksTimer
<1>5. CASE releaseTxPendingBlock
  BY <1>5, SourceFacts DEF Types, ProcessorTypes, Busy, releaseTxPendingBlock
<1>6. CASE SendHigh
  BY <1>6 DEF Types, ProcessorTypes, Busy, SendHigh
<1>7. CASE onPovSyncState
  BY <1>7, Zenon DEF Types, ProcessorTypes, Busy, onPovSyncState
<1> QED
  BY <1>1, <1>2, <1>3, <1>4, <1>5, <1>6, <1>7, Zenon DEF Releasers

LEMMA TypesStep == ASSUME Types, [Next]_vars PROVE Types'
<1>1. CASE UNCHANGED vars
  BY <1>1, Zenon DEF Types, ProcessorTypes, Busy
<1> QED
  BY <1>1, EngineTypes, LoopTypes, ReleasersTypes, Zenon DEF Next

-----------------------------------------------------------------------------
\* An orphan's parent is missing: addOrphanBlock and enqueueOrphanBlocks
\* leave no orphan behind when its parent is stored.
OrphansMissParents == \A b \in BlocksOf(orphans) : Prev[b] \notin chain

\* What is true of the waiting blocks, with where the loop's own block is
\* not.
Waits ==
    /\ WaitsOnce
    /\ OrphansMissParents
    /\ pc \in {"select", "unmark", "ask"} => deOrphans = {}
    /\ pc \in {"check", "verify", "gap"} => cur.block \notin BlocksOf(deOrphans)
    /\ pc \in {"verify", "gap"} => cur.block \notin PendingBlocks \cup BlocksOf(orphans)

LEMMA WaitsInit == Init => Waits
BY Zenon DEF Init, Waits, WaitsOnce, OrphansMissParents, BlocksOf, PendingBlocks

\* Steps that leave the loop and what waits alone, or only take entries
\* out of pending.
LEMMA WaitsFrame ==
    ASSUME Waits, UNCHANGED <<chain, waiting, pc, cur>>,
           \A p \in pending' : \E q \in pending : p.src = q.src,
           \A p, q \in pending' : p.src.block = q.src.block => p = q
    PROVE  Waits'
<1>1. PendingBlocks' \subseteq PendingBlocks
  BY DEF PendingBlocks
<1> QED
  BY <1>1, Zenon DEF Waits, WaitsOnce, OrphansMissParents, BlocksOf

LEMMA WaitsLoop == ASSUME Types, Waits, Loop PROVE Waits'
<1> USE DEF BlocksOf
<1>1. CASE TakeHigh
  BY <1>1, Zenon DEF TakeHigh, Waits, WaitsOnce, OrphansMissParents, PendingBlocks
<1>2. CASE TakeNorm
  BY <1>2, Zenon DEF TakeNorm, Waits, WaitsOnce, OrphansMissParents, PendingBlocks
<1>3. CASE Unmark
  BY <1>3, Zenon DEF Unmark, Waits, WaitsOnce, OrphansMissParents, PendingBlocks
<1>4. CASE Check
  <2>1. CASE UNCHANGED orphans
    BY <1>4, <2>1,
       Zenon DEF Check, addOrphanBlock, Waits, WaitsOnce, OrphansMissParents, PendingBlocks,
                 HasOrphanBlock, HasPendingBlock
  <2>2. CASE /\ ~HasOrphanBlock(cur.block) /\ ~HasPendingBlock(cur.block)
             /\ Prev[cur.block] \notin chain /\ addOrphanBlock(cur) /\ pc' = "reply"
    <3>1. orphans' \subseteq orphans \cup {cur}
      BY <2>2, Zenon DEF addOrphanBlock
    <3>2. UNCHANGED <<chain, deOrphans, pending, cur>> /\ pc = "check"
      BY <1>4, Zenon DEF Check
    <3>3. cur.block \notin BlocksOf(orphans) \cup BlocksOf(deOrphans) \cup PendingBlocks
      BY <2>2, <3>2, Zenon DEF Waits, HasOrphanBlock, HasPendingBlock
    <3>4. WaitsOnce'
      BY <3>1, <3>2, <3>3 DEF Waits, WaitsOnce, PendingBlocks
    <3>5. OrphansMissParents'
      BY <2>2, <3>1, <3>2, Zenon DEF Waits, OrphansMissParents
    <3> QED
      BY <2>2, <3>2, <3>4, <3>5, Zenon DEF Waits
  <2> QED
    BY <1>4, <2>1, <2>2, Zenon DEF Check
<1>5. CASE Verify
  <2>1. CASE UNCHANGED <<chain, orphans, deOrphans>>
    BY <1>5, <2>1, Zenon DEF Verify, Waits, WaitsOnce, OrphansMissParents, PendingBlocks
  <2>2. CASE chain' = chain \cup {cur.block} /\ enqueueOrphanBlocks(cur.block) /\ pc' = "reply"
    <3>1. UNCHANGED <<pending, cur>>
      BY <1>5, Zenon DEF Verify
    <3>2. orphans' \cup deOrphans' = orphans \cup deOrphans
      BY <2>2, Zenon DEF enqueueOrphanBlocks
    <3>3. BlocksOf(orphans)' \cap BlocksOf(deOrphans)' = {}
      BY <2>2 DEF enqueueOrphanBlocks, Waits, WaitsOnce
    <3>4. WaitsOnce'
      <4>1. BlocksOf(orphans' \cup deOrphans') = BlocksOf(orphans \cup deOrphans)
        BY <3>2, Zenon
      <4>2. PendingBlocks' = PendingBlocks
        BY <3>1, Zenon DEF PendingBlocks
      <4> QED
        BY <3>1, <3>2, <3>3, <4>1, <4>2, Zenon DEF Waits, WaitsOnce
    <3>5. OrphansMissParents'
      BY <2>2, Zenon DEF enqueueOrphanBlocks, Waits, OrphansMissParents
    <3> QED
      BY <2>2, <3>4, <3>5, Zenon DEF Waits
  <2> QED
    BY <1>5, <2>1, <2>2, Zenon DEF Verify
<1>6. CASE addTxPendingBlock
  <2>1. /\ UNCHANGED <<chain, waiting, cur>> /\ pc = "gap" /\ pc' = "reply"
        /\ pending' = pending \cup {[src |-> cur, gap |-> gap]}
    BY <1>6, Zenon DEF addTxPendingBlock
  <2>2. cur.block \notin BlocksOf(orphans) \cup BlocksOf(deOrphans) \cup PendingBlocks
    BY <2>1, Zenon DEF Waits
  <2>3. WaitsOnce'
    BY <2>1, <2>2 DEF Waits, WaitsOnce, PendingBlocks
  <2> QED
    BY <2>1, <2>3, Zenon DEF Waits, OrphansMissParents
<1>7. CASE Reply
  <2>1. UNCHANGED <<chain, orphans, pending>> /\ deOrphans' \subseteq deOrphans
    BY <1>7, Zenon DEF Reply, NextBlock
  <2>2. WaitsOnce' /\ OrphansMissParents'
    <3>1. OrphansMissParents'
      BY <2>1, Zenon DEF Waits, OrphansMissParents
    <3>2. PendingBlocks' = PendingBlocks
      BY <2>1, Zenon DEF PendingBlocks
    <3>3. /\ BlocksOf(deOrphans)' \subseteq BlocksOf(deOrphans)
          /\ BlocksOf(orphans \cup deOrphans)' \subseteq BlocksOf(orphans \cup deOrphans)
      BY <2>1, Zenon
    <3>4. \A o, u \in orphans' \cup deOrphans' : o.block = u.block => o = u
      BY <2>1, Zenon DEF Waits, WaitsOnce
    <3> QED
      BY <2>1, <3>1, <3>2, <3>3, <3>4, Zenon DEF Waits, WaitsOnce
  <2>3. CASE NextBlock
    BY <2>2, <2>3, Zenon DEF NextBlock, Waits, WaitsOnce
  <2>4. CASE pc' = "dead"
    BY <2>2, <2>4, Zenon DEF Waits
  <2> QED
    BY <1>7, <2>3, <2>4, Zenon DEF Reply
<1>8. CASE OrphansTick
  BY <1>8, Zenon DEF OrphansTick, Waits, WaitsOnce, OrphansMissParents, PendingBlocks
<1>9. ASSUME NEW due, requestBlocksByHashes(due) PROVE Waits'
  BY <1>9, Zenon DEF requestBlocksByHashes, Waits, WaitsOnce, OrphansMissParents, PendingBlocks
<1> QED
  BY <1>1, <1>2, <1>3, <1>4, <1>5, <1>6, <1>7, <1>8, <1>9, Zenon DEF Loop

LEMMA WaitsStep == ASSUME Types, Waits, [Next]_vars PROVE Waits'
<1> HIDE DEF waiting
<1>1. CASE UNCHANGED vars \/ Engine
  <2>1. UNCHANGED <<chain, waiting, pc, cur, pending>>
    BY <1>1, Zenon DEF Engine, RecvBroadcast, RecvFetched, AddBlock, NewTemplate, LoseRequest,
                AddMinedBlock, SendNorm
  <2> QED
    BY <2>1, WaitsFrame, Zenon DEF Waits, WaitsOnce
<1>2. CASE Releasers
  <2>1. UNCHANGED <<chain, waiting, pc, cur>>
    BY <1>2,
       Zenon DEF Releasers, Confirm, Rollback, onAddStateBlock, onCheckTxPendingBlocksTimer,
                releaseTxPendingBlock, SendHigh, onPovSyncState
  <2>2. \/ \E ts : FillGaps(ts)
        \/ pending' \subseteq pending
    BY <1>2,
       Zenon DEF Releasers, Confirm, Rollback, onAddStateBlock, onCheckTxPendingBlocksTimer,
                releaseTxPendingBlock, SendHigh, onPovSyncState
  <2>3. CASE pending' \subseteq pending
    BY <2>1, <2>3, WaitsFrame, Zenon DEF Waits, WaitsOnce
  <2>4. ASSUME NEW ts, FillGaps(ts) PROVE Waits'
    <3>1. \A p \in pending' : \E q \in pending :
              p.src = q.src /\ p = [q EXCEPT !.gap = @ \ ts]
      BY <2>4, FillGapsKeeps, Zenon DEF Types, ProcessorTypes
    <3>2. \A p, q \in pending' : p.src.block = q.src.block => p = q
      <4> SUFFICES ASSUME NEW p \in pending', NEW q \in pending', p.src.block = q.src.block
                   PROVE  p = q
        BY Zenon
      <4>1. PICK p0 \in pending : p.src = p0.src /\ p = [p0 EXCEPT !.gap = @ \ ts]
        BY <3>1, Zenon
      <4>2. PICK q0 \in pending : q.src = q0.src /\ q = [q0 EXCEPT !.gap = @ \ ts]
        BY <3>1, Zenon
      <4>3. p0 = q0
        BY <4>1, <4>2, Zenon DEF Waits, WaitsOnce
      <4> QED
        BY <4>1, <4>2, <4>3, Zenon
    <3> QED
      BY <2>1, <3>1, <3>2, WaitsFrame, Zenon
  <2> QED
    BY <2>2, <2>3, <2>4, Zenon
<1> QED
  BY <1>1, <1>2, WaitsLoop, Zenon DEF Next

-----------------------------------------------------------------------------
LEMMA MarksInit == Init => MarksAreComing
BY Zenon DEF Init, MarksAreComing

\* Steps that add no mark and leave channels, senders and loop alone.
LEMMA MarksFrame ==
    ASSUME MarksAreComing, inCh' \subseteq inCh, UNCHANGED <<normCh, highCh, sending>>,
           engine.pc = "send" => UNCHANGED engine,
           pc = "unmark" => UNCHANGED <<pc, cur>>
    PROVE  MarksAreComing'
BY Zenon DEF MarksAreComing, InChannel

LEMMA MarksStep == ASSUME Types, MarksAreComing, [Next]_vars PROVE MarksAreComing'
<1>1. CASE UNCHANGED vars
  BY <1>1, MarksFrame, Zenon
<1>2. ASSUME NEW b \in Block, AddBlock(b) PROVE MarksAreComing'
  <2>1. engine = Idle /\ UNCHANGED <<normCh, highCh, sending, pc, cur>>
    BY <1>2, Zenon DEF AddBlock
  <2>2. CASE b \in inCh
    BY <1>2, <2>1, <2>2, MarksFrame, Zenon DEF AddBlock, Idle
  <2>3. CASE b \notin inCh
    <3>1. engine'.pc = "send" /\ engine'.src.block = b /\ inCh' = inCh \cup {b}
      BY <1>2, <2>3, Zenon DEF AddBlock, Src
    <3> QED
      BY <2>1, <3>1, Zenon DEF MarksAreComing, InChannel, Idle
  <2> QED
    BY <2>2, <2>3, Zenon
<1>3. CASE AddMinedBlock
  BY <1>3, MarksFrame, Zenon DEF AddMinedBlock, Idle
<1>4. CASE SendNorm
  <2>1. InChannel(normCh') = InChannel(normCh) \cup {engine.src.block}
    BY <1>4, ChannelAppend, Zenon DEF SendNorm, Types, ProcessorTypes
  <2>2. UNCHANGED <<inCh, highCh, sending, pc, cur>>
    BY <1>4, Zenon DEF SendNorm
  <2> QED
    BY <2>1, <2>2, Zenon DEF MarksAreComing, InChannel
<1>5. CASE TakeHigh
  <2>1. \A b \in InChannel(highCh) : b = cur'.block \/ b \in InChannel(highCh')
    BY <1>5, ChannelTail, Zenon DEF TakeHigh, Types, ProcessorTypes
  <2> QED
    BY <1>5, <2>1, Zenon DEF TakeHigh, MarksAreComing, InChannel
<1>6. CASE TakeNorm
  <2>1. \A b \in InChannel(normCh) : b = cur'.block \/ b \in InChannel(normCh')
    BY <1>6, ChannelTail, Zenon DEF TakeNorm, Types, ProcessorTypes
  <2> QED
    BY <1>6, <2>1 DEF TakeNorm, MarksAreComing, InChannel
<1>7. CASE Unmark
  BY <1>7, Zenon DEF Unmark, MarksAreComing, InChannel
<1>8. CASE Reply
  BY <1>8, MarksFrame, Zenon DEF Reply, Awaited
<1>9. CASE releaseTxPendingBlock
  <2>1. PICK src \in todo : /\ sending' = IF src.block \in inCh THEN NoSrc ELSE src
                            /\ inCh' = inCh \cup {src.block}
    BY <1>9, Zenon DEF releaseTxPendingBlock
  <2>2. UNCHANGED <<normCh, highCh, engine, pc, cur>> /\ sending.block \notin inCh
    BY <1>9, SourceFacts, BlockAssumption,
       Zenon DEF releaseTxPendingBlock, Types, ProcessorTypes
  <2> QED
    BY <2>1, <2>2, Zenon DEF MarksAreComing, InChannel
<1>10. CASE SendHigh
  <2>1. InChannel(highCh') = InChannel(highCh) \cup {sending.block}
    BY <1>10, ChannelAppend, Zenon DEF SendHigh, Types, ProcessorTypes
  <2> QED
    BY <1>10, <2>1, Zenon DEF SendHigh, MarksAreComing, InChannel
<1>11. CASE \/ \E b \in Block : NewTemplate(b)
            \/ \E b \in requested : LoseRequest(b)
            \/ Check \/ Verify \/ addTxPendingBlock \/ OrphansTick
            \/ \E due \in SUBSET BlocksOf(orphans) : requestBlocksByHashes(due)
            \/ \E t \in Tx : Confirm(t) \/ Rollback(t)
            \/ onAddStateBlock \/ onCheckTxPendingBlocksTimer \/ onPovSyncState
  <2>1. UNCHANGED <<inCh, normCh, highCh, sending, engine>> /\ (pc = "unmark" => UNCHANGED <<pc, cur>>)
    BY <1>11, Zenon DEF NewTemplate, LoseRequest, Check, Verify, addTxPendingBlock, OrphansTick,
                 requestBlocksByHashes, Confirm, Rollback, onAddStateBlock,
                 onCheckTxPendingBlocksTimer, onPovSyncState
  <2> QED
    BY <2>1, MarksFrame, Zenon
<1> QED
  BY <1>1, <1>2, <1>3, <1>4, <1>5, <1>6, <1>7, <1>8, <1>9, <1>10, <1>11, Zenon
     DEF Next, Engine, Loop, Releasers, RecvBroadcast, RecvFetched

\* A mark of blockInCh stands for a block that is still coming, whatever
\* the engine, the loop and the releasers do.
THEOREM MarksTrue == Spec => []MarksAreComing
<1>1. Init => Types /\ MarksAreComing
  BY TypesInit, MarksInit, Zenon
<1>2. Types /\ MarksAreComing /\ [Next]_vars => Types' /\ MarksAreComing'
  BY TypesStep, MarksStep, Zenon
<1> QED
  BY <1>1, <1>2, PTL DEF Spec

\* A block waits in one place only, once.
THEOREM BlocksWaitOnce == Spec => []WaitsOnce
<1>1. Init => Types /\ Waits
  BY TypesInit, WaitsInit, Zenon
<1>2. Types /\ Waits /\ [Next]_vars => Types' /\ Waits'
  BY TypesStep, WaitsStep, Zenon
<1>3. Waits => WaitsOnce
  BY Zenon DEF Waits
<1> QED
  BY <1>1, <1>2, <1>3, PTL DEF Spec

-----------------------------------------------------------------------------
\* A source is fresh when its miner may still wait for the answer and no
\* transaction of its block is rolled back.  Its block can be stored at
\* once, so it never waits: a fresh source is in the send, in blockNormCh
\* or with the loop, in one place, until the miner has its answer.
Fresh(s, rb) == s.reply /\ Txs[s.block] \cap rb = {}
Own(s, sn) == s.reply => s.block \in Mined \cap sn
Ready(b, ch, cf) == Prev[b] \in ch /\ Txs[b] \subseteq cf

Parked ==
    orphans \cup deOrphans \cup todo \cup {sending} \cup {p.src : p \in pending}
        \cup Elems(highCh)

TemplateOK ==
    template # Genesis =>
        /\ template \in Mined \ seen
        /\ Txs[template] \cap rolledBack # {} \/ Ready(template, chain, confirmed)

ParkedOK == \A s \in Parked : Own(s, seen) /\ ~Fresh(s, rolledBack)

NormOK ==
    \A i \in DOMAIN normCh :
        /\ Own(normCh[i], seen)
        /\ Fresh(normCh[i], rolledBack) =>
               /\ Ready(normCh[i].block, chain, confirmed)
               /\ Awaited(normCh[i])
               /\ Busy => cur # normCh[i]
               /\ \A j \in DOMAIN normCh : normCh[j] = normCh[i] => j = i

CurOK ==
    Busy =>
        /\ Own(cur, seen)
        /\ Fresh(cur, rolledBack) =>
               pc # "gap" /\ Ready(cur.block, chain, confirmed) /\ Awaited(cur)

SendOK ==
    engine.pc = "send" =>
        /\ Own(engine.src, seen)
        /\ Fresh(engine.src, rolledBack) =>
               /\ Ready(engine.src.block, chain, confirmed)
               /\ Busy => cur # engine.src
               /\ \A i \in DOMAIN normCh : normCh[i] # engine.src

Answers == TemplateOK /\ ParkedOK /\ NormOK /\ CurOK /\ SendOK /\ DeathNeedsRollback

LEMMA AnswersInit == Init => Answers
<1> SUFFICES ASSUME Init PROVE Answers
  BY Zenon
<1>0. /\ orphans = {} /\ deOrphans = {} /\ todo = {} /\ pending = {} /\ sending = NoSrc
      /\ highCh = <<>> /\ normCh = <<>> /\ pc = "select" /\ engine.pc = "idle"
      /\ template = Genesis
  BY Zenon DEF Init, Idle
<1>1. ParkedOK
  <2>1. Elems(highCh) = {} /\ {p.src : p \in pending} = {}
    BY <1>0 DEF Elems
  <2>2. Parked = {NoSrc}
    BY <1>0, <2>1, Zenon DEF Parked
  <2> QED
    BY <2>2, SourceFacts, Zenon DEF ParkedOK, Own, Fresh
<1>2. NormOK /\ CurOK /\ SendOK
  BY <1>0 DEF NormOK, CurOK, SendOK, Busy
<1>3. TemplateOK /\ DeathNeedsRollback
  BY <1>0, Zenon DEF TemplateOK, DeathNeedsRollback
<1> QED
  BY <1>1, <1>2, <1>3, Zenon DEF Answers

\* Blocks stay stored and seen; a transaction leaves the ledger by a
\* rollback only.
LEMMA Monotone ==
    ASSUME Types, [Next]_vars
    PROVE  /\ seen \subseteq seen' /\ chain \subseteq chain' /\ rolledBack \subseteq rolledBack'
           /\ confirmed \subseteq confirmed' \cup rolledBack'
<1>1. CASE UNCHANGED vars
  BY <1>1, Zenon
<1>2. CASE Engine
  BY <1>2, Zenon DEF Engine, RecvBroadcast, RecvFetched, AddBlock, NewTemplate, LoseRequest,
              AddMinedBlock, SendNorm
<1>3. CASE Loop
  BY <1>3, Zenon DEF Loop, TakeHigh, TakeNorm, Unmark, Check, Verify, addTxPendingBlock, Reply,
              OrphansTick, requestBlocksByHashes
<1>4. CASE Releasers
  BY <1>4, Zenon DEF Releasers, Confirm, Rollback, onAddStateBlock, onCheckTxPendingBlocksTimer,
              releaseTxPendingBlock, SendHigh, onPovSyncState
<1> QED
  BY <1>1, <1>2, <1>3, <1>4, Zenon DEF Next

LEMMA Keeps ==
    ASSUME Types, [Next]_vars
    PROVE  /\ \A s : Own(s, seen) => Own(s, seen')
           /\ \A s : Fresh(s, rolledBack') => Fresh(s, rolledBack)
           /\ \A b : Ready(b, chain, confirmed) =>
                     Ready(b, chain', confirmed') \/ Txs[b] \cap rolledBack' # {}
           /\ \A b : Txs[b] \cap rolledBack # {} => Txs[b] \cap rolledBack' # {}
           /\ \A s : Fresh(s, rolledBack') => Txs[s.block] \cap rolledBack' = {}
<1>1. /\ seen \subseteq seen' /\ chain \subseteq chain' /\ rolledBack \subseteq rolledBack'
      /\ confirmed \subseteq confirmed' \cup rolledBack'
  BY Monotone, Zenon
<1> QED
  BY <1>1, Zenon DEF Own, Fresh, Ready

\* The loop keeps its block, or takes one that is not fresh, or none.
CurKeeps ==
    Busy' => \/ Busy /\ UNCHANGED cur
             \/ Own(cur', seen') /\ ~Fresh(cur', rolledBack')

LEMMA NormFrame ==
    ASSUME Types, NormOK, [Next]_vars, UNCHANGED normCh, CurKeeps,
           engine.pc = "await" => UNCHANGED engine
    PROVE  NormOK'
<1> SUFFICES ASSUME NEW i \in DOMAIN normCh
             PROVE  /\ Own(normCh[i], seen')
                    /\ Fresh(normCh[i], rolledBack') =>
                           /\ Ready(normCh[i].block, chain', confirmed')
                           /\ Awaited(normCh[i])'
                           /\ Busy' => cur' # normCh[i]
                           /\ \A j \in DOMAIN normCh : normCh[j] = normCh[i] => j = i
  BY Zenon DEF NormOK, Awaited
<1>1. Own(normCh[i], seen')
  BY Keeps, Zenon DEF NormOK
<1>2. SUFFICES ASSUME Fresh(normCh[i], rolledBack')
               PROVE  /\ Ready(normCh[i].block, chain', confirmed')
                      /\ Awaited(normCh[i])'
                      /\ Busy' => cur' # normCh[i]
                      /\ \A j \in DOMAIN normCh : normCh[j] = normCh[i] => j = i
  BY <1>1, Zenon
<1>3. Fresh(normCh[i], rolledBack) /\ Txs[normCh[i].block] \cap rolledBack' = {}
  BY <1>2, Keeps, Zenon
<1>4. Ready(normCh[i].block, chain', confirmed')
  BY <1>3, Keeps, Zenon DEF NormOK
<1>5. Awaited(normCh[i])'
  BY <1>3, Zenon DEF NormOK, Awaited
<1>6. Busy' => cur' # normCh[i]
  BY <1>2, <1>3, Zenon DEF NormOK, CurKeeps
<1> QED
  BY <1>3, <1>4, <1>5, <1>6, Zenon DEF NormOK

LEMMA CurFrame ==
    ASSUME Types, CurOK, [Next]_vars, CurKeeps,
           engine.pc = "await" => UNCHANGED engine,
           pc' = "gap" => pc = "gap" \/ ~Fresh(cur', rolledBack')
    PROVE  CurOK'
<1> SUFFICES ASSUME Busy'
             PROVE  /\ Own(cur', seen')
                    /\ Fresh(cur', rolledBack') =>
                           pc' # "gap" /\ Ready(cur'.block, chain', confirmed') /\ Awaited(cur)'
  BY Zenon DEF CurOK
<1>1. CASE Own(cur', seen') /\ ~Fresh(cur', rolledBack')
  BY <1>1, Zenon
<1>2. CASE Busy /\ cur' = cur
  <2>1. Own(cur, seen')
    BY <1>2, Keeps, Zenon DEF CurOK
  <2>2. ASSUME Fresh(cur, rolledBack')
        PROVE  pc' # "gap" /\ Ready(cur.block, chain', confirmed') /\ Awaited(cur)'
    <3>1. Fresh(cur, rolledBack) /\ Txs[cur.block] \cap rolledBack' = {}
      BY <2>2, Keeps, Zenon
    <3>2. pc # "gap" /\ Ready(cur.block, chain, confirmed) /\ Awaited(cur)
      BY <1>2, <3>1, Zenon DEF CurOK
    <3>3. Ready(cur.block, chain', confirmed')
      BY <3>1, <3>2, Keeps, Zenon
    <3> QED
      BY <1>2, <2>2, <3>2, <3>3, Zenon DEF Awaited
  <2> QED
    BY <1>2, <2>1, <2>2, Zenon
<1> QED
  BY <1>1, <1>2, Zenon DEF CurKeeps

LEMMA SendFrame ==
    ASSUME Types, SendOK, [Next]_vars, UNCHANGED normCh, CurKeeps,
           engine'.pc = "send" => UNCHANGED engine
    PROVE  SendOK'
<1> SUFFICES ASSUME engine'.pc = "send"
             PROVE  /\ Own(engine'.src, seen')
                    /\ Fresh(engine'.src, rolledBack') =>
                           /\ Ready(engine'.src.block, chain', confirmed')
                           /\ Busy' => cur' # engine'.src
                           /\ \A i \in DOMAIN normCh : normCh[i] # engine'.src
  BY Zenon DEF SendOK
<1>0. engine' = engine
  BY Zenon
<1>1. Own(engine.src, seen')
  BY <1>0, Keeps, Zenon DEF SendOK
<1>2. ASSUME Fresh(engine.src, rolledBack')
      PROVE  /\ Ready(engine.src.block, chain', confirmed')
             /\ Busy' => cur' # engine.src
             /\ \A i \in DOMAIN normCh : normCh[i] # engine.src
  <2>1. Fresh(engine.src, rolledBack) /\ Txs[engine.src.block] \cap rolledBack' = {}
    BY <1>2, Keeps, Zenon
  <2>2. Ready(engine.src.block, chain', confirmed')
    BY <1>0, <2>1, Keeps, Zenon DEF SendOK
  <2>3. Busy' => cur' # engine.src
    BY <1>0, <1>2, <2>1, Zenon DEF SendOK, CurKeeps
  <2> QED
    BY <1>0, <2>1, <2>2, <2>3, Zenon DEF SendOK
<1> QED
  BY <1>0, <1>1, <1>2, Zenon

LEMMA TemplateFrame ==
    ASSUME Types, TemplateOK, [Next]_vars, template' \in {template, Genesis},
           Mined \cap seen' = Mined \cap seen
    PROVE  TemplateOK'
<1>1. CASE template' = Genesis
  BY <1>1, Zenon DEF TemplateOK
<1>2. CASE template' = template /\ template # Genesis
  BY <1>2, Keeps, Zenon DEF TemplateOK
<1> QED
  BY <1>1, <1>2, Zenon

\* What waits comes from what waited and from the loop.
LEMMA ParkedFrame ==
    ASSUME Types, ParkedOK, [Next]_vars,
           \A s \in Parked' : s \in Parked \/ (Own(s, seen) /\ ~Fresh(s, rolledBack))
    PROVE  ParkedOK'
BY Keeps, Zenon DEF ParkedOK

LEMMA DeathFrame ==
    ASSUME Types, DeathNeedsRollback, [Next]_vars, pc' = "dead" => pc = "dead"
    PROVE  DeathNeedsRollback'
BY Monotone, Zenon DEF DeathNeedsRollback

LEMMA AnswersEngine == ASSUME Types, Answers, Engine PROVE Answers'
<1>0. [Next]_vars
  BY Zenon DEF Next
<1> USE <1>0 DEF Answers
<1>1. ASSUME NEW b \in Block, AddBlock(b), seen' \subseteq seen \cup (Block \ Mined), seen \subseteq seen'
      PROVE  Answers'
  <2>1. /\ engine.pc = "idle" /\ engine.pc # "await"
        /\ UNCHANGED <<normCh, highCh, pending, waiting, todo, sending, template, pc, cur>>
    BY <1>1, Zenon DEF AddBlock, Idle
  <2>2. CurKeeps
    BY <2>1, Zenon DEF CurKeeps, Busy
  <2>3. TemplateOK'
    BY <1>1, <2>1, TemplateFrame, Zenon
  <2>4. ParkedOK'
    BY <2>1, ParkedFrame, Zenon DEF Parked
  <2>5. NormOK' /\ CurOK'
    BY <2>1, <2>2, NormFrame, CurFrame, Zenon
  <2>6. SendOK'
    BY <1>1, Zenon DEF AddBlock, SendOK, Src, Idle, Own, Fresh
  <2>7. DeathNeedsRollback'
    BY <2>1, DeathFrame, Zenon
  <2> QED
    BY <2>3, <2>4, <2>5, <2>6, <2>7, Zenon
<1>2. ASSUME NEW b \in Block, RecvBroadcast(b) PROVE Answers'
  <2>1. AddBlock(b) /\ seen' \subseteq seen \cup (Block \ Mined) /\ seen \subseteq seen'
    BY <1>2, Zenon DEF RecvBroadcast
  <2> QED
    BY <1>1, <2>1, Zenon
<1>3. ASSUME NEW b \in Block, RecvFetched(b) PROVE Answers'
  <2>1. AddBlock(b) /\ seen' \subseteq seen \cup (Block \ Mined) /\ seen \subseteq seen'
    BY <1>3, Zenon DEF RecvFetched
  <2> QED
    BY <1>1, <2>1, Zenon
<1>4. ASSUME NEW b \in Block, NewTemplate(b) PROVE Answers'
  <2>1. UNCHANGED <<normCh, highCh, pending, waiting, todo, sending, engine, seen, pc, cur, chain,
                    confirmed, rolledBack>>
    BY <1>4, Zenon DEF NewTemplate
  <2>2. TemplateOK'
    BY <1>4, <2>1, Zenon DEF NewTemplate, TemplateOK, Ready
  <2>3. CurKeeps
    BY <2>1, Zenon DEF CurKeeps, Busy
  <2> QED
    BY <2>1, <2>2, <2>3, ParkedFrame, NormFrame, CurFrame, SendFrame, DeathFrame,
       Zenon DEF Parked
<1>5. ASSUME NEW b \in requested, LoseRequest(b) PROVE Answers'
  <2>1. UNCHANGED <<normCh, highCh, pending, waiting, todo, sending, engine, seen, template, pc, cur>>
    BY <1>5, Zenon DEF LoseRequest
  <2>2. CurKeeps
    BY <2>1, Zenon DEF CurKeeps, Busy
  <2> QED
    BY <2>1, <2>2, TemplateFrame, ParkedFrame, NormFrame, CurFrame, SendFrame, DeathFrame,
       Zenon DEF Parked
<1>6. CASE AddMinedBlock
  <2>1. /\ engine.pc = "idle" /\ engine.pc # "await"
        /\ UNCHANGED <<normCh, highCh, pending, waiting, todo, sending, pc, cur, chain, confirmed, rolledBack>>
        /\ template # Genesis /\ template' = Genesis /\ seen' = seen \cup {template}
    BY <1>6, Zenon DEF AddMinedBlock, Idle
  <2>2. CurKeeps
    BY <2>1, Zenon DEF CurKeeps, Busy
  <2>3. TemplateOK'
    BY <2>1, Zenon DEF TemplateOK
  <2>4. ParkedOK'
    BY <2>1, ParkedFrame, Zenon DEF Parked
  <2>5. NormOK' /\ CurOK'
    BY <2>1, <2>2, NormFrame, CurFrame, Zenon
  <2>6. SendOK'
    <3>1. engine'.src.block = template /\ engine'.src.reply = TRUE
      BY <1>6, Zenon DEF AddMinedBlock, Src
    <3>2. template \in Mined \ seen
      BY <2>1, Zenon DEF TemplateOK
    <3>3. Busy => cur # engine'.src
      BY <3>1, <3>2, Zenon DEF CurOK, Own
    <3>4. \A i \in DOMAIN normCh : normCh[i] # engine'.src
      BY <3>1, <3>2, Zenon DEF NormOK, Own
    <3>5. Own(engine'.src, seen')
      BY <2>1, <3>1, <3>2, Zenon DEF Own
    <3>6. Fresh(engine'.src, rolledBack') => Ready(engine'.src.block, chain', confirmed')
      BY <2>1, <3>1, Zenon DEF TemplateOK, Fresh
    <3>7. Busy' = Busy
      BY <2>1, Zenon DEF Busy
    <3> QED
      BY <2>1, <3>3, <3>4, <3>5, <3>6, <3>7, Zenon DEF SendOK
  <2>7. DeathNeedsRollback'
    BY <2>1, DeathFrame, Zenon
  <2> QED
    BY <2>3, <2>4, <2>5, <2>6, <2>7, Zenon
<1>7. CASE SendNorm
  <2>1. /\ engine.pc = "send" /\ normCh' = Append(normCh, engine.src)
        /\ UNCHANGED <<highCh, pending, waiting, todo, sending, template, pc, cur, chain, seen,
                       confirmed, rolledBack>>
        /\ engine.src \in Source /\ normCh \in Seq(Source)
    BY <1>7, Zenon DEF SendNorm, Types, ProcessorTypes
  <2>2. CurKeeps
    BY <2>1, Zenon DEF CurKeeps, Busy
  <2>3. TemplateOK' /\ ParkedOK' /\ CurOK' /\ DeathNeedsRollback'
    BY <2>1, <2>2, TemplateFrame, ParkedFrame, CurFrame, DeathFrame, Zenon DEF Parked
  <2>4. SendOK'
    BY <1>7, Zenon DEF SendNorm, SendOK, Idle, Types, ProcessorTypes
  <2>5. NormOK'
    <3> HIDE <1>0
    <3>1. /\ DOMAIN normCh' = 1 .. Len(normCh) + 1 /\ DOMAIN normCh = 1 .. Len(normCh)
          /\ Len(normCh) \in Nat
          /\ \A i \in 1 .. Len(normCh) : normCh'[i] = normCh[i]
          /\ normCh'[Len(normCh) + 1] = engine.src
      BY <2>1, AppendAt, Zenon
    <3>2. engine.src.reply => engine' = [engine EXCEPT !.pc = "await"]
      BY <1>7, Zenon DEF SendNorm
    <3>3. Busy' = Busy
      BY <2>1, Zenon DEF Busy
    <3>4. \A i \in 1 .. Len(normCh) : ~Fresh(normCh[i], rolledBack)
      BY <2>1, <3>1, Zenon DEF NormOK, Awaited
    <3>5. Fresh(engine.src, rolledBack) => engine'.pc = "await" /\ engine'.src = engine.src
      BY <3>2, Zenon DEF Fresh, Types, ProcessorTypes
    <3>6. Own(engine.src, seen)
      BY <2>1, Zenon DEF SendOK
    <3>7. Fresh(engine.src, rolledBack) =>
              /\ Ready(engine.src.block, chain, confirmed)
              /\ Busy => cur # engine.src
              /\ \A i \in DOMAIN normCh : normCh[i] # engine.src
      BY <2>1, Zenon DEF SendOK
    <3> SUFFICES ASSUME NEW i \in DOMAIN normCh'
                 PROVE  /\ Own(normCh'[i], seen)
                        /\ Fresh(normCh'[i], rolledBack) =>
                               /\ Ready(normCh'[i].block, chain, confirmed)
                               /\ Awaited(normCh[i])'
                               /\ Busy => cur # normCh'[i]
                               /\ \A j \in DOMAIN normCh' : normCh'[j] = normCh'[i] => j = i
      BY <2>1, <3>3, Zenon DEF NormOK, Awaited
    <3>8. CASE i \in 1 .. Len(normCh)
      BY <3>1, <3>4, <3>8, Zenon DEF NormOK
    <3>9. CASE i = Len(normCh) + 1
      <4>1. normCh'[i] = engine.src
        BY <3>1, <3>9, Zenon
      <4>2. Fresh(engine.src, rolledBack) =>
                \A j \in DOMAIN normCh' : normCh'[j] = engine.src => j = i
        <5> SUFFICES ASSUME Fresh(engine.src, rolledBack), NEW j \in DOMAIN normCh', j # i
                     PROVE  normCh'[j] # engine.src
          BY Zenon
        <5>1. j \in 1 .. Len(normCh) /\ normCh'[j] = normCh[j]
          BY <3>1, <3>9
        <5> QED
          BY <3>1, <3>7, <5>1, Zenon
      <4>3. Fresh(engine.src, rolledBack) => Awaited(normCh[i])'
        BY <3>5, <4>1, Zenon DEF Awaited
      <4>4. Own(normCh'[i], seen)
        BY <3>6, <4>1, Zenon
      <4>5. Fresh(normCh'[i], rolledBack) =>
                /\ Fresh(engine.src, rolledBack) /\ Ready(normCh'[i].block, chain, confirmed)
                /\ Busy => cur # normCh'[i]
        BY <3>7, <4>1, Zenon
      <4>6. Fresh(normCh'[i], rolledBack) =>
                \A j \in DOMAIN normCh' : normCh'[j] = normCh'[i] => j = i
        BY <4>1, <4>2, Zenon
      <4> QED
        BY <4>3, <4>4, <4>5, <4>6, Zenon
    <3>10. i \in 1 .. Len(normCh) \/ i = Len(normCh) + 1
      BY <3>1
    <3> QED
      BY <3>8, <3>9, <3>10, Zenon
  <2> QED
    BY <2>3, <2>4, <2>5, Zenon
<1> QED
  BY <1>2, <1>3, <1>4, <1>5, <1>6, <1>7, Zenon DEF Engine

LEMMA AnswersLoop == ASSUME Types, Answers, Loop PROVE Answers'
<1>0. [Next]_vars
  BY Zenon DEF Next
<1> USE <1>0 DEF Answers
<1>1. CASE TakeHigh
  <2>1. /\ UNCHANGED <<normCh, pending, waiting, todo, sending, engine, template, seen, rolledBack>>
        /\ highCh # <<>> /\ cur' = Head(highCh) /\ highCh' = Tail(highCh) /\ pc' = "unmark"
        /\ highCh \in Seq(Source)
    BY <1>1, Zenon DEF TakeHigh, Types, ProcessorTypes
  <2>2. Elems(highCh') \subseteq Elems(highCh) /\ cur' \in Elems(highCh)
    BY <2>1, ChannelElems, ChannelTail, Zenon
  <2>3. CurKeeps
    BY <2>1, <2>2, Zenon DEF CurKeeps, ParkedOK, Parked
  <2>4. ParkedOK'
    BY <2>1, <2>2, ParkedFrame, Zenon DEF Parked
  <2> QED
    BY <2>1, <2>3, <2>4, TemplateFrame, NormFrame, CurFrame, SendFrame, DeathFrame, Zenon
<1>2. CASE TakeNorm
  <2>1. /\ UNCHANGED <<highCh, pending, waiting, todo, sending, engine, template, seen, chain,
                       confirmed, rolledBack>>
        /\ normCh # <<>> /\ cur' = Head(normCh) /\ normCh' = Tail(normCh) /\ pc' = "unmark"
        /\ normCh \in Seq(Source)
    BY <1>2, Zenon DEF TakeNorm, Types, ProcessorTypes
  <2>2. /\ DOMAIN normCh = 1 .. Len(normCh) /\ Len(normCh) \in Nat \ {0}
        /\ DOMAIN normCh' = 1 .. Len(normCh) - 1 /\ cur' = normCh[1]
        /\ \A i \in 1 .. Len(normCh) - 1 : normCh'[i] = normCh[i + 1]
    BY <2>1
  <2>3. TemplateOK' /\ ParkedOK' /\ DeathNeedsRollback'
    BY <2>1, TemplateFrame, ParkedFrame, DeathFrame, Zenon DEF Parked
  <2>4. 1 \in DOMAIN normCh
    BY <2>2
  <2>5. CurOK'
    <3>1. Own(normCh[1], seen) /\ (Fresh(normCh[1], rolledBack) =>
              Ready(normCh[1].block, chain, confirmed) /\ engine.pc = "await" /\ engine.src = normCh[1])
      BY <2>4, Zenon DEF NormOK, Awaited
    <3> QED
      BY <2>1, <2>2, <3>1, Zenon DEF CurOK, Awaited
  <2>6. NormOK'
    <3> SUFFICES ASSUME NEW i \in DOMAIN normCh'
                 PROVE  /\ Own(normCh'[i], seen')
                        /\ Fresh(normCh'[i], rolledBack') =>
                               /\ Ready(normCh'[i].block, chain', confirmed')
                               /\ Awaited(normCh[i])'
                               /\ Busy' => cur' # normCh'[i]
                               /\ \A j \in DOMAIN normCh' : normCh'[j] = normCh'[i] => j = i
      BY Zenon DEF NormOK
    <3>0. i \in 1 .. Len(normCh) - 1 /\ normCh'[i] = normCh[i + 1]
      BY <2>2, Zenon
    <3>1. i + 1 \in DOMAIN normCh /\ i + 1 # 1
      BY <2>2, <3>0
    <3>2. \A j \in 1 .. Len(normCh) - 1 : j + 1 \in DOMAIN normCh /\ (j + 1 = i + 1 => j = i)
      BY <2>2, <3>0
    <3>3. Own(normCh[i + 1], seen)
      BY <3>1, Zenon DEF NormOK
    <3>4. Fresh(normCh[i + 1], rolledBack) =>
              /\ Ready(normCh[i + 1].block, chain, confirmed) /\ Awaited(normCh[i + 1])
              /\ \A j \in DOMAIN normCh : normCh[j] = normCh[i + 1] => j = i + 1
      BY <3>1, Zenon DEF NormOK
    <3>5. Fresh(normCh[i + 1], rolledBack) => normCh[1] # normCh[i + 1]
      BY <2>4, <3>1, <3>4, Zenon
    <3>6. Fresh(normCh[i + 1], rolledBack) =>
              \A j \in DOMAIN normCh' : normCh'[j] = normCh[i + 1] => j = i
      BY <2>2, <3>2, <3>4, Zenon
    <3>7. Fresh(normCh[i + 1], rolledBack) => Awaited(normCh[i])'
      BY <2>1, <3>0, <3>4, Zenon DEF Awaited
    <3> QED
      BY <2>1, <2>2, <3>0, <3>3, <3>4, <3>5, <3>6, <3>7, Zenon
  <2>7. SendOK'
    <3>1. engine.pc = "send" => \A i \in DOMAIN normCh' : \E j \in DOMAIN normCh : normCh'[i] = normCh[j]
      BY <2>2
    <3> QED
      BY <2>1, <2>2, <2>4, <3>1, Zenon DEF SendOK
  <2> QED
    BY <2>3, <2>5, <2>6, <2>7, Zenon
<1>3. CASE Unmark
  <2>1. /\ UNCHANGED <<normCh, highCh, pending, waiting, todo, sending, engine, template, seen, cur>>
        /\ pc = "unmark" /\ pc' = "check"
    BY <1>3, Zenon DEF Unmark
  <2>2. CurKeeps
    BY <2>1, Zenon DEF CurKeeps, Busy
  <2> QED
    BY <2>1, <2>2, TemplateFrame, ParkedFrame, NormFrame, CurFrame, SendFrame, DeathFrame,
       Zenon DEF Parked
<1>4. CASE Check
  <2>1. /\ UNCHANGED <<normCh, highCh, pending, deOrphans, todo, sending, engine, template, seen, cur>>
        /\ pc = "check" /\ pc' \in {"reply", "verify"}
    BY <1>4, Zenon DEF Check
  <2>2. CurKeeps
    BY <2>1, Zenon DEF CurKeeps, Busy
  <2>3. orphans' \subseteq orphans
        \/ (orphans' \subseteq orphans \cup {cur} /\ Prev[cur.block] \notin chain)
    BY <1>4, Zenon DEF Check, addOrphanBlock
  <2>4. Prev[cur.block] \notin chain => Own(cur, seen) /\ ~Fresh(cur, rolledBack)
    BY <2>1, Zenon DEF CurOK, Busy, Ready
  <2>5. ParkedOK'
    BY <2>1, <2>3, <2>4, ParkedFrame, Zenon DEF Parked
  <2> QED
    BY <2>1, <2>2, <2>5, TemplateFrame, NormFrame, CurFrame, SendFrame, DeathFrame, Zenon
<1>5. CASE Verify
  <2>1. /\ UNCHANGED <<normCh, highCh, pending, todo, sending, engine, template, seen, cur,
                       confirmed, rolledBack>>
        /\ pc = "verify" /\ pc' \in {"reply", "gap"}
    BY <1>5, Zenon DEF Verify
  <2>2. CurKeeps
    BY <2>1, Zenon DEF CurKeeps, Busy
  <2>3. orphans' \cup deOrphans' = orphans \cup deOrphans
    BY <1>5, Zenon DEF Verify, enqueueOrphanBlocks
  <2>4. ParkedOK'
    BY <2>1, <2>3, ParkedFrame, Zenon DEF Parked
  <2>5. pc' = "gap" => ~Fresh(cur', rolledBack')
    <3>1. pc' = "gap" => Txs[cur.block] \ confirmed # {}
      BY <1>5, Zenon DEF Verify, GapTxs
    <3> QED
      BY <2>1, <3>1, Zenon DEF CurOK, Busy, Ready
  <2> QED
    BY <2>1, <2>2, <2>4, <2>5, TemplateFrame, NormFrame, CurFrame, SendFrame, DeathFrame, Zenon
<1>6. CASE addTxPendingBlock
  <2>1. /\ UNCHANGED <<normCh, highCh, waiting, todo, sending, engine, template, seen, cur>>
        /\ pc = "gap" /\ pc' = "reply"
        /\ pending' = pending \cup {[src |-> cur, gap |-> gap]}
    BY <1>6, Zenon DEF addTxPendingBlock
  <2>2. CurKeeps
    BY <2>1, Zenon DEF CurKeeps, Busy
  <2>3. Own(cur, seen) /\ ~Fresh(cur, rolledBack)
    BY <2>1, Zenon DEF CurOK, Busy
  <2>4. {p.src : p \in pending'} \subseteq {p.src : p \in pending} \cup {cur}
    <3> HIDE <1>0
    <3>1. ASSUME NEW p \in pending' PROVE p.src \in {q.src : q \in pending} \cup {cur}
      <4>1. CASE p \in pending
        BY <4>1, Zenon
      <4>2. CASE p = [src |-> cur, gap |-> gap]
        BY <4>2, Zenon
      <4> QED
        BY <2>1, <4>1, <4>2, Zenon
    <3> QED
      BY <3>1, Zenon
  <2>5. ParkedOK'
    BY <2>1, <2>3, <2>4, ParkedFrame, Zenon DEF Parked
  <2> QED
    BY <2>1, <2>2, <2>5, TemplateFrame, NormFrame, CurFrame, SendFrame, DeathFrame, Zenon
<1>7. CASE Reply
  <2>1. /\ UNCHANGED <<normCh, highCh, orphans, pending, todo, sending, template, seen, chain,
                       confirmed, rolledBack>>
        /\ pc = "reply" /\ deOrphans' \subseteq deOrphans
    BY <1>7, Zenon DEF Reply, NextBlock
  <2>2. ParkedOK'
    BY <2>1, ParkedFrame, Zenon DEF Parked
  <2>3. TemplateOK'
    BY <2>1, TemplateFrame, Zenon
  <2>4. ASSUME NextBlock PROVE CurKeeps /\ pc' \notin {"gap", "dead"}
    BY <2>1, <2>4, Zenon DEF NextBlock, CurKeeps, Busy, ParkedOK, Parked
  <2>5. CASE NextBlock /\ UNCHANGED engine
    BY <2>1, <2>2, <2>3, <2>4, <2>5, NormFrame, CurFrame, SendFrame, DeathFrame, Zenon
  <2>6. CASE NextBlock /\ cur.reply /\ Awaited(cur) /\ engine' = Idle
    <3>1. engine.pc = "await" /\ engine.src = cur /\ engine'.pc = "idle"
      BY <2>6, Zenon DEF Awaited, Idle
    <3>2. \A i \in DOMAIN normCh : ~Fresh(normCh[i], rolledBack)
      BY <2>1, <3>1, Zenon DEF NormOK, Awaited, Busy
    <3>3. NormOK'
      BY <2>1, <3>2, Zenon DEF NormOK
    <3>4. SendOK'
      BY <3>1, Zenon DEF SendOK
    <3>5. CurOK'
      BY <2>1, <2>6, Zenon DEF NextBlock, CurOK, Busy, ParkedOK, Parked
    <3> QED
      BY <2>1, <2>2, <2>3, <2>4, <2>6, <3>3, <3>4, <3>5, DeathFrame, Zenon
  <2>7. CASE cur.reply /\ ~Awaited(cur) /\ pc' = "dead" /\ UNCHANGED <<cur, engine>>
    <3>1. CurKeeps
      BY <2>1, <2>7, Zenon DEF CurKeeps, Busy
    <3>2. cur.block \in Mined /\ Txs[cur.block] \cap rolledBack # {}
      BY <2>1, <2>7, Zenon DEF CurOK, Busy, Own, Fresh
    <3>3. DeathNeedsRollback'
      BY <2>1, <3>2, Zenon DEF DeathNeedsRollback
    <3> QED
      BY <2>1, <2>2, <2>3, <2>7, <3>1, <3>3, NormFrame, CurFrame, SendFrame, Zenon
  <2> QED
    BY <1>7, <2>5, <2>6, <2>7, Zenon DEF Reply
<1>8. CASE OrphansTick \/ \E due \in SUBSET BlocksOf(orphans) : requestBlocksByHashes(due)
  <2>1. /\ UNCHANGED <<normCh, highCh, pending, waiting, todo, sending, engine, template, seen, cur>>
        /\ pc' \in {"select", "ask"}
    BY <1>8, Zenon DEF OrphansTick, requestBlocksByHashes
  <2>2. CurKeeps
    BY <2>1, Zenon DEF CurKeeps, Busy
  <2> QED
    BY <2>1, <2>2, TemplateFrame, ParkedFrame, NormFrame, CurFrame, SendFrame, DeathFrame,
       Zenon DEF Parked
<1> QED
  BY <1>1, <1>2, <1>3, <1>4, <1>5, <1>6, <1>7, <1>8, Zenon DEF Loop

LEMMA AnswersReleasers == ASSUME Types, Answers, Releasers PROVE Answers'
<1>0. [Next]_vars
  BY Zenon DEF Next
<1> USE <1>0 DEF Answers
<1>1. UNCHANGED <<normCh, waiting, engine, template, seen, pc, cur>>
  BY Zenon DEF Releasers, Confirm, Rollback, onAddStateBlock, onCheckTxPendingBlocksTimer,
         releaseTxPendingBlock, SendHigh, onPovSyncState
<1>2. CurKeeps
  BY <1>1, Zenon DEF CurKeeps, Busy
<1>3. \A s \in Parked' : s \in Parked \/ (Own(s, seen) /\ ~Fresh(s, rolledBack))
  <2>1. CASE \/ \E t \in Tx : Confirm(t) \/ Rollback(t)
             \/ onPovSyncState
    <3>1. UNCHANGED <<pending, todo, sending, highCh>>
      BY <2>1, Zenon DEF Confirm, Rollback, onPovSyncState
    <3> QED
      BY <1>1, <3>1, Zenon DEF Parked
  <2>2. ASSUME NEW ts, FillGaps(ts), UNCHANGED <<sending, highCh>>,
               todo' \subseteq {p.src : p \in pending}
        PROVE  \A s \in Parked' : s \in Parked
    <3>1. {p.src : p \in pending'} \subseteq {p.src : p \in pending}
      BY <2>2, FillGapsKeeps DEF Types, ProcessorTypes
    <3> QED
      BY <1>1, <2>2, <3>1, Zenon DEF Parked
  <2>3. CASE onAddStateBlock
    <3>1. FillGaps({Head(events)}) /\ UNCHANGED <<sending, highCh>>
          /\ todo' \subseteq {p.src : p \in pending}
      BY <2>3, Zenon DEF onAddStateBlock
    <3> QED
      BY <2>2, <3>1, Zenon
  <2>4. CASE onCheckTxPendingBlocksTimer
    <3>1. FillGaps(confirmed) /\ UNCHANGED <<sending, highCh>>
          /\ todo' \subseteq {p.src : p \in pending}
      BY <2>4, Zenon DEF onCheckTxPendingBlocksTimer
    <3> QED
      BY <2>2, <3>1, Zenon
  <2>5. CASE releaseTxPendingBlock
    <3>1. /\ todo' \subseteq todo /\ pending' \subseteq pending /\ UNCHANGED highCh
          /\ sending = NoSrc /\ (sending' = NoSrc \/ sending' \in todo)
      BY <2>5, Zenon DEF releaseTxPendingBlock
    <3> QED
      BY <1>1, <3>1, Zenon DEF Parked
  <2>6. CASE SendHigh
    <3>1. /\ sending \in Source /\ highCh \in Seq(Source) /\ highCh' = Append(highCh, sending)
          /\ sending' = NoSrc /\ UNCHANGED <<todo, pending>>
      BY <2>6, Zenon DEF SendHigh, Types, ProcessorTypes
    <3>2. Elems(highCh') \subseteq Elems(highCh) \cup {sending}
      BY <3>1, ChannelElems, Zenon
    <3>3. Own(NoSrc, seen) /\ ~Fresh(NoSrc, rolledBack)
      BY SourceFacts, Zenon DEF Own, Fresh
    <3> QED
      BY <1>1, <3>1, <3>2, <3>3, Zenon DEF Parked
  <2> QED
    BY <2>1, <2>3, <2>4, <2>5, <2>6, Zenon DEF Releasers
<1> QED
  BY <1>1, <1>2, <1>3, TemplateFrame, ParkedFrame, NormFrame, CurFrame, SendFrame, DeathFrame,
     Zenon

LEMMA AnswersStep == ASSUME Types, Answers, [Next]_vars PROVE Types' /\ Answers'
<1>1. CASE UNCHANGED vars
  BY <1>1, TypesStep, Zenon
     DEF Answers, TemplateOK, ParkedOK, Parked, NormOK, CurOK, SendOK, DeathNeedsRollback,
         Awaited, Busy
<1>2. CASE Next
  BY <1>2, TypesStep, AnswersEngine, AnswersLoop, AnswersReleasers, Zenon DEF Next
<1> QED
  BY <1>1, <1>2, Zenon

\* The loop ends on a closed replyCh only after a transaction of a mined
\* block was rolled back: until then AddMinedBlock's block is answered
\* once, by the loop's first look at it.
THEOREM DeathFollowsRollback == Spec => []DeathNeedsRollback
<1>1. Init => Types /\ Answers
  BY TypesInit, AnswersInit, Zenon
<1>2. Types /\ Answers /\ [Next]_vars => Types' /\ Answers'
  BY AnswersStep, Zenon
<1>3. Answers => DeathNeedsRollback
  BY Zenon DEF Answers
<1> QED
  BY <1>1, <1>2, <1>3, PTL DEF Spec

-----------------------------------------------------------------------------
\* Where the walk of GetOrphanRoot may end: outside O, at r, with orphans of O
\* only on the way.
Roots(O, x) ==
    {r \in (Block \cup {Genesis}) \ O :
        x = r \/ \E S \in SUBSET O : x \in S /\ \A y \in S : Prev[y] \in S \cup {r}}

\* An orphan's root is that of its parent.
LEMMA RootsStep ==
    ASSUME NEW O \in SUBSET Block, NEW x \in O
    PROVE  Roots(O, x) = Roots(O, Prev[x])
<1>1. ASSUME NEW r \in Roots(O, x) PROVE r \in Roots(O, Prev[x])
  <2>1. r \notin O /\ x # r
    BY <1>1, Zenon DEF Roots
  <2>2. PICK S \in SUBSET O : x \in S /\ \A y \in S : Prev[y] \in S \cup {r}
    BY <1>1, <2>1, Zenon DEF Roots
  <2>3. Prev[x] = r \/ Prev[x] \in S
    BY <2>2, Zenon
  <2> QED BY <1>1, <2>2, <2>3, Zenon DEF Roots
<1>2. ASSUME NEW r \in Roots(O, Prev[x]) PROVE r \in Roots(O, x)
  <2>1. CASE Prev[x] = r
    <3>1. {x} \in SUBSET O /\ \A y \in {x} : Prev[y] \in {x} \cup {r}
      BY <2>1, Zenon
    <3> QED BY <1>2, <3>1, Zenon DEF Roots
  <2>2. CASE Prev[x] # r
    <3>1. PICK S \in SUBSET O : Prev[x] \in S /\ \A y \in S : Prev[y] \in S \cup {r}
      BY <1>2, <2>2, Zenon DEF Roots
    <3> DEFINE T == S \cup {x}
    <3>2. T \in SUBSET O /\ x \in T /\ \A y \in T : Prev[y] \in T \cup {r}
      BY <3>1, Zenon
    <3> HIDE DEF T
    <3> QED BY <1>2, <3>2, Zenon DEF Roots
  <2> QED BY <2>1, <2>2, Zenon
<1> QED BY <1>1, <1>2, Zenon

\* GetOrphanRoot finds a block, or genesis.
LEMMA RootTyped ==
    ASSUME orphans \subseteq Source, NEW b \in Block
    PROVE  GetOrphanRoot(b) \in Block \cup {Genesis}
<1> DEFINE O == BlocksOf(orphans)
           D == Block \cup {Genesis}
           F(f) == [x \in D |-> IF x \in O THEN f[Prev[x]] ELSE x]
           root == CHOOSE f : f = F(f)
           Pick(R) == CHOOSE r : r \in R
           g == [x \in D |-> Pick(Roots(O, x))]
<1>1. O \in SUBSET Block
  BY SourceFacts, Zenon DEF BlocksOf
<1>2. \A x \in O : x \in D /\ Prev[x] \in D
  BY <1>1, BlockAssumption, Zenon
<1> HIDE DEF O
<1>3. g = F(g)
  <2>1. \A x \in D : Pick({x}) = x
    BY Zenon
  <2> HIDE DEF Pick
  <2>2. \A x \in D : g[x] = Pick(Roots(O, x))
    BY Zenon
  <2>3. \A x \in D \ O : Roots(O, x) = {x}
    BY <1>1, Zenon DEF Roots
  <2>4. \A x \in O : Roots(O, x) = Roots(O, Prev[x])
    BY <1>1, RootsStep, Zenon
  <2>5. ASSUME NEW x \in D PROVE Pick(Roots(O, x)) = IF x \in O THEN g[Prev[x]] ELSE x
    <3>1. CASE x \in O
      BY <1>2, <2>2, <2>4, <3>1, Zenon
    <3>2. CASE x \notin O
      BY <2>1, <2>3, <3>2, Zenon
    <3> QED BY <3>1, <3>2, Zenon
  <2>6. F(g) = [x \in D |-> Pick(Roots(O, x))]
    <3> HIDE DEF g
    <3> QED BY <2>5, Zenon
  <2> QED BY <2>6, Zenon
<1>4. root = F(root)
  <2> HIDE DEF g, F
  <2> QED BY <1>3, Zenon
<1> HIDE DEF root, g
<1>5. \A x \in D : root[x] = IF x \in O THEN root[Prev[x]] ELSE x
  BY <1>4, Zenon
<1> DEFINE T == {x \in O : root[x] \notin D}
<1>6. T = {}
  <2> SUFFICES ASSUME T # {} PROVE FALSE
    BY Zenon
  <2>1. T \in SUBSET Block
    BY <1>1, Zenon
  <2>2. PICK y \in T : Prev[y] \notin T
    <3> HIDE DEF T
    <3> QED BY <2>1, AcyclicAssumption, Zenon
  <2>3. root[y] = root[Prev[y]] /\ Prev[y] \in D
    BY <1>2, <1>5, <2>2, Zenon
  <2> QED BY <1>5, <2>2, <2>3, Zenon
<1>7. root[b] \in D
  BY <1>5, <1>6, Zenon
<1> QED BY <1>7, Zenon DEF GetOrphanRoot, root, O

\* The types that ProcessorTypes leaves out.
LEMMA MoreTypes == Types /\ TypeOK /\ [Next]_vars => TypeOK'
<1> SUFFICES ASSUME Types, TypeOK, [Next]_vars PROVE TypeOK'
  BY Zenon
<1>1. ProcessorTypes'
  BY TypesStep, Zenon DEF Types
<1>2. /\ requested \subseteq Block \cup {Genesis} /\ syncDone \in BOOLEAN
      /\ expired \subseteq Block /\ failed \subseteq Block
  BY Zenon DEF TypeOK
<1>3. orphans \subseteq Source /\ (Busy => cur \in Source)
  BY Zenon DEF Types, ProcessorTypes
<1>4. BlocksOf(orphans) \subseteq Block
  BY <1>3, SourceFacts, Zenon DEF BlocksOf
<1>5. CASE Engine
  BY <1>1, <1>2, <1>5, Zenon DEF TypeOK, Engine, RecvBroadcast, RecvFetched, AddBlock, NewTemplate,
       LoseRequest, AddMinedBlock, SendNorm
<1>6. CASE Releasers
  BY <1>1, <1>2, <1>6, Zenon DEF TypeOK, Releasers, Confirm, Rollback, onAddStateBlock,
       onCheckTxPendingBlocksTimer, releaseTxPendingBlock, SendHigh, onPovSyncState
<1>7. CASE Loop
  <2>1. CASE TakeHigh \/ TakeNorm \/ Unmark \/ addTxPendingBlock \/ Reply \/ OrphansTick
    BY <1>1, <1>2, <2>1, Zenon DEF TypeOK, TakeHigh, TakeNorm, Unmark, addTxPendingBlock, Reply,
         OrphansTick
  <2>2. CASE Check
    BY <1>1, <1>2, <1>4, <2>2, Zenon DEF TypeOK, Check, addOrphanBlock
  <2>3. CASE Verify
    <3>1. cur.block \in Block
      BY <1>3, <2>3, SourceFacts, Zenon DEF Verify, Busy
    <3> QED BY <1>1, <1>2, <2>3, <3>1, Zenon DEF TypeOK, Verify
  <2>4. ASSUME NEW due \in SUBSET BlocksOf(orphans), requestBlocksByHashes(due) PROVE TypeOK'
    <3>1. \A o \in due : GetOrphanRoot(o) \in Block \cup {Genesis}
      BY <1>3, <1>4, RootTyped, Zenon
    <3> QED BY <1>1, <1>2, <2>4, <3>1, Zenon DEF TypeOK, requestBlocksByHashes
  <2> QED BY <1>7, <2>1, <2>2, <2>3, <2>4, Zenon DEF Loop
<1>8. CASE UNCHANGED vars
  BY <1>1, <1>2, <1>8, Zenon DEF TypeOK
<1> QED BY <1>5, <1>6, <1>7, <1>8, Zenon DEF Next

\* Every channel, list and map of the processor holds what its type says,
\* and the blocks that peers are asked for are blocks (GetOrphanRoot ends).
THEOREM ProcessorKeepsTypes == Spec => []TypeOK
<1>1. Init => Types /\ TypeOK
  <2>1. Init => TypeOK
    BY TypesInit, Zenon DEF Types, TypeOK, Init
  <2> QED BY <2>1, TypesInit, Zenon
<1>2. Types /\ TypeOK /\ [Next]_vars => (Types /\ TypeOK)'
  BY TypesStep, MoreTypes, Zenon
<1> QED BY <1>1, <1>2, PTL DEF Spec

-----------------------------------------------------------------------------
\* The blocks on their way to the loop are all different, and marked but for
\* the one that AddMinedBlock waits for.
NormB == InChannel(normCh)
HighB == InChannel(highCh)
SendB == {sending.block} \ {Genesis}
EngB == IF engine.pc = "send" THEN {engine.src.block} ELSE {}
TakenB == IF pc = "unmark" THEN {cur.block} ELSE {}
HandB == IF pc \in {"check", "verify", "gap", "reply", "dead"} THEN {cur.block} ELSE {}
Waiting == BlocksOf(orphans) \cup BlocksOf(deOrphans) \cup PendingBlocks \cup BlocksOf(todo)

Inj(ch) == \A i, j \in DOMAIN ch : ch[i].block = ch[j].block => i = j
Apart(N, H, S, E, T) ==
    /\ N \cap H = {} /\ N \cap S = {} /\ N \cap E = {} /\ N \cap T = {}
    /\ H \cap S = {} /\ H \cap E = {} /\ H \cap T = {}
    /\ S \cap E = {} /\ S \cap T = {}
    /\ E \cap T = {}
Distinct == Inj(normCh) /\ Inj(highCh) /\ Apart(NormB, HighB, SendB, EngB, TakenB)
\* A block this node mines is here only after it was mined.
MinedSeen == (NormB \cup HighB \cup SendB \cup EngB \cup TakenB \cup Waiting \cup HandB) \cap Mined
                 \subseteq seen
Unmarked ==
    \A b \in (NormB \cup HighB \cup SendB \cup EngB \cup TakenB) \ inCh :
        /\ engine.src.reply /\ engine.src.block = b
        /\ b \notin HighB \cup SendB \cup Waiting \cup HandB
Travel == Distinct /\ MinedSeen /\ Unmarked

\* Channels with different blocks, when a block is added or taken.
LEMMA InjAppend ==
    ASSUME NEW ch \in Seq(Source), NEW s \in Source, Inj(ch), s.block \notin InChannel(ch)
    PROVE  Inj(Append(ch, s))
<1>1. /\ DOMAIN Append(ch, s) = 1 .. Len(ch) + 1 /\ DOMAIN ch = 1 .. Len(ch)
      /\ Len(ch) \in Nat
      /\ \A i \in 1 .. Len(ch) : Append(ch, s)[i] = ch[i]
      /\ Append(ch, s)[Len(ch) + 1] = s
  BY AppendAt, Zenon
<1>2. \A i \in 1 .. Len(ch) : ch[i].block # s.block
  BY <1>1, Zenon DEF InChannel
<1>3. \A i \in 1 .. Len(ch) + 1 : i \in 1 .. Len(ch) \/ i = Len(ch) + 1
  BY <1>1
<1>4. \A i, j \in 1 .. Len(ch) : ch[i].block = ch[j].block => i = j
  BY <1>1, Zenon DEF Inj
<1> QED BY <1>1, <1>2, <1>3, <1>4, Zenon DEF Inj

LEMMA InjTail ==
    ASSUME NEW ch \in Seq(Source), ch # <<>>, Inj(ch)
    PROVE  /\ Inj(Tail(ch)) /\ Head(ch).block \notin InChannel(Tail(ch))
           /\ InChannel(ch) = InChannel(Tail(ch)) \cup {Head(ch).block}
<1>1. /\ DOMAIN ch = 1 .. Len(ch) /\ Len(ch) \in Nat \ {0} /\ Head(ch) = ch[1]
      /\ DOMAIN Tail(ch) = 1 .. Len(ch) - 1
      /\ \A i \in 1 .. Len(ch) - 1 : Tail(ch)[i] = ch[i + 1]
  OBVIOUS
<1>2. \A i, j \in 1 .. Len(ch) : ch[i].block = ch[j].block => i = j
  BY <1>1, Zenon DEF Inj
<1>3. \A i \in 1 .. Len(ch) - 1 : i + 1 \in 1 .. Len(ch) /\ i + 1 # 1 /\ 1 \in 1 .. Len(ch)
  BY <1>1
<1>4. \A i, j \in 1 .. Len(ch) - 1 : i + 1 = j + 1 => i = j
  BY <1>1
<1>5. Inj(Tail(ch))
  BY <1>1, <1>2, <1>3, <1>4 DEF Inj
<1>6. Head(ch).block \notin InChannel(Tail(ch))
  BY <1>1, <1>2, <1>3 DEF InChannel
<1>7. InChannel(Tail(ch)) \subseteq InChannel(ch) /\ Head(ch).block \in InChannel(ch)
  <2>1. 1 \in 1 .. Len(ch)
    BY <1>1
  <2> QED BY <1>1, <1>3, <2>1 DEF InChannel
<1>8. InChannel(ch) \subseteq InChannel(Tail(ch)) \cup {Head(ch).block}
  BY ChannelTail, Zenon
<1> QED BY <1>5, <1>6, <1>7, <1>8, Zenon

\* Nothing is on its way at first.
LEMMA TravelInit == Init => Travel
<1> SUFFICES ASSUME Init PROVE Travel
  BY Zenon
<1>1. normCh = <<>> /\ highCh = <<>> /\ sending.block = Genesis /\ engine.pc = "idle" /\ pc = "select"
  BY SourceFacts, Zenon DEF Init, Idle
<1>2. NormB = {} /\ HighB = {} /\ Inj(normCh) /\ Inj(highCh)
  BY <1>1 DEF NormB, HighB, InChannel, Inj
<1>3. SendB = {} /\ EngB = {} /\ TakenB = {} /\ HandB = {}
  BY <1>1, Zenon DEF SendB, EngB, TakenB, HandB
<1>4. Waiting = {}
  BY Zenon DEF Init, Waiting, BlocksOf, PendingBlocks
<1> QED BY <1>2, <1>3, <1>4, Zenon DEF Travel, Distinct, MinedSeen, Unmarked, Apart

\* A step that moves no block on its way, and lets none appear elsewhere.
LEMMA TravelFrame ==
    ASSUME Travel, UNCHANGED <<normCh, highCh, sending, engine, inCh, TakenB>>, seen \subseteq seen',
           (Waiting \cup HandB)' \subseteq Waiting \cup HandB
    PROVE  Travel'
<1>1. UNCHANGED <<NormB, HighB, SendB, EngB>>
  BY Zenon DEF NormB, HighB, SendB, EngB
<1>2. Distinct'
  BY <1>1, Zenon DEF Travel, Distinct, Apart, Inj
<1>3. MinedSeen'
  BY <1>1, Zenon DEF Travel, MinedSeen
<1>4. Unmarked'
  BY <1>1, Zenon DEF Travel, Unmarked
<1> QED BY <1>2, <1>3, <1>4, Zenon DEF Travel

\* While the engine is idle, every block on its way is marked.
LEMMA IdleMarks ==
    ASSUME Types, Travel, engine = Idle
    PROVE  NormB \cup HighB \cup SendB \cup EngB \cup TakenB \subseteq inCh
  BY Zenon DEF Travel, Unmarked, Idle, NoSrc

\* The engine actor.
LEMMA TravelEngine == ASSUME Types, Travel, TemplateOK, Engine PROVE Travel'
<1>1. Distinct /\ MinedSeen /\ Unmarked
  BY Zenon DEF Travel
<1>2. ASSUME NEW b \in Block, AddBlock(b), seen \subseteq seen', b \in Mined => b \in seen'
      PROVE  Travel'
  <2>1. engine = Idle /\ NormB \cup HighB \cup SendB \cup TakenB \subseteq inCh
    BY <1>2, IdleMarks, Zenon DEF AddBlock
  <2>2. UNCHANGED <<normCh, highCh, NormB, HighB, SendB, TakenB, Waiting, HandB>>
    BY <1>2, Zenon DEF AddBlock, NormB, HighB, SendB, TakenB, Waiting, HandB, BlocksOf, PendingBlocks
  <2>3. inCh' = inCh \cup {b} /\ EngB = {} /\ EngB' \subseteq {b} /\ (EngB' = {} \/ b \notin inCh)
    <3>a. engine.pc # "send"
      BY <2>1, Zenon DEF Idle
    <3>1. EngB = {} /\ inCh' = inCh \cup {b}
      BY <1>2, <3>a, Zenon DEF AddBlock, EngB
    <3>2. CASE b \in inCh
      BY <1>2, <3>1, <3>2, Zenon DEF AddBlock, EngB, Idle
    <3>3. CASE b \notin inCh
      BY <1>2, <3>1, <3>3, Zenon DEF AddBlock, EngB, Src
    <3> QED BY <3>1, <3>2, <3>3, Zenon
  <2>4. Distinct'
    <3>1. Apart(NormB, HighB, SendB, {}, TakenB) /\ Inj(normCh) /\ Inj(highCh)
      BY <1>1, <2>3, Zenon DEF Distinct
    <3>2. Apart(NormB, HighB, SendB, EngB', TakenB)
      BY <2>1, <2>3, <3>1, Zenon DEF Apart
    <3> QED BY <2>2, <3>1, <3>2, Zenon DEF Distinct, Inj
  <2>5. MinedSeen'
    BY <1>1, <1>2, <2>2, <2>3, Zenon DEF MinedSeen
  <2>6. Unmarked'
    BY <2>1, <2>2, <2>3, Zenon DEF Unmarked
  <2> QED BY <2>4, <2>5, <2>6, Zenon DEF Travel
<1>3. ASSUME NEW b \in Block, RecvBroadcast(b) PROVE Travel'
  BY <1>2, <1>3, Zenon DEF RecvBroadcast
<1>4. ASSUME NEW b \in Block, RecvFetched(b) PROVE Travel'
  BY <1>2, <1>4, Zenon DEF RecvFetched
<1>5. ASSUME NEW b, NewTemplate(b) \/ LoseRequest(b) PROVE Travel'
  <2>1. UNCHANGED <<normCh, highCh, sending, engine, inCh, pc, cur, seen, orphans, deOrphans,
                    pending, todo>>
    BY <1>5, Zenon DEF NewTemplate, LoseRequest
  <2>2. UNCHANGED <<TakenB, Waiting, HandB>>
    BY <2>1, Zenon DEF TakenB, Waiting, HandB, BlocksOf, PendingBlocks
  <2> QED BY <2>1, <2>2, TravelFrame, Zenon
<1>6. CASE AddMinedBlock
  <2>1. engine = Idle /\ NormB \cup HighB \cup SendB \cup TakenB \subseteq inCh /\ EngB = {}
    BY <1>6, IdleMarks, Zenon DEF AddMinedBlock, EngB, Idle
  <2>2. UNCHANGED <<normCh, highCh, inCh, NormB, HighB, SendB, TakenB, Waiting, HandB>>
    BY <1>6, Zenon DEF AddMinedBlock, NormB, HighB, SendB, TakenB, Waiting, HandB, BlocksOf,
         PendingBlocks
  <2>3. template \in Mined \ seen /\ seen' = seen \cup {template}
        /\ EngB' = {template} /\ engine'.src.reply /\ engine'.src.block = template
    BY <1>6, Zenon DEF AddMinedBlock, TemplateOK, EngB, Src
  <2>4. template \notin NormB \cup HighB \cup SendB \cup TakenB \cup Waiting \cup HandB
    BY <1>1, <2>3, Zenon DEF MinedSeen
  <2>5. Distinct'
    <3>1. Apart(NormB, HighB, SendB, {}, TakenB) /\ Inj(normCh) /\ Inj(highCh)
      BY <1>1, <2>1, Zenon DEF Distinct
    <3>2. Apart(NormB, HighB, SendB, {template}, TakenB)
      BY <2>4, <3>1, Zenon DEF Apart
    <3> QED BY <2>2, <2>3, <3>1, <3>2, Zenon DEF Distinct, Inj
  <2>6. MinedSeen'
    BY <1>1, <2>2, <2>3, Zenon DEF MinedSeen
  <2>7. Unmarked'
    BY <2>1, <2>2, <2>3, <2>4, Zenon DEF Unmarked
  <2> QED BY <2>5, <2>6, <2>7, Zenon DEF Travel
<1>7. CASE SendNorm
  <2>1. /\ normCh \in Seq(Source) /\ engine.src \in Source /\ engine.pc = "send"
        /\ normCh' = Append(normCh, engine.src)
        /\ engine' = IF engine.src.reply THEN [engine EXCEPT !.pc = "await"] ELSE Idle
    BY <1>7, Zenon DEF SendNorm, Types, ProcessorTypes
  <2>2. EngB = {engine.src.block} /\ EngB' = {} /\ NormB' = NormB \cup EngB
    <3>1. engine'.pc # "send"
      BY <2>1, Zenon DEF Types, ProcessorTypes, Idle
    <3> QED BY <2>1, <3>1, ChannelAppend, Zenon DEF EngB, NormB
  <2>3. engine.src.reply => engine'.src = engine.src
    BY <2>1, Zenon DEF Types, ProcessorTypes
  <2>4. UNCHANGED <<highCh, inCh, HighB, SendB, TakenB, Waiting, HandB, seen>>
    BY <1>7, Zenon DEF SendNorm, HighB, SendB, TakenB, Waiting, HandB, BlocksOf, PendingBlocks
  <2>5. Inj(normCh)'
    BY <1>1, <2>1, <2>2, InjAppend, Zenon DEF Distinct, Apart, NormB
  <2>6. Distinct'
    <3>1. Apart(NormB \cup EngB, HighB, SendB, {}, TakenB)
      BY <1>1, Zenon DEF Distinct, Apart
    <3> QED BY <1>1, <2>2, <2>4, <2>5, <3>1, Zenon DEF Distinct, Inj
  <2>7. MinedSeen'
    BY <1>1, <2>2, <2>4, Zenon DEF MinedSeen
  <2>8. Unmarked'
    BY <1>1, <2>2, <2>3, <2>4, Zenon DEF Unmarked
  <2> QED BY <2>6, <2>7, <2>8, Zenon DEF Travel
<1> QED BY <1>3, <1>4, <1>5, <1>6, <1>7, Zenon DEF Engine

\* The loop takes blocks from the channels, and parks them.
LEMMA TravelLoop == ASSUME Types, Travel, Loop PROVE Travel'
<1>1. Distinct /\ MinedSeen /\ Unmarked
  BY Zenon DEF Travel
<1>2. CASE TakeHigh
  <2>1. /\ highCh \in Seq(Source) /\ highCh # <<>> /\ pc = "select" /\ pc' = "unmark"
        /\ cur' = Head(highCh) /\ highCh' = Tail(highCh)
    BY <1>2, Zenon DEF TakeHigh, Types, ProcessorTypes
  <2>2. UNCHANGED <<normCh, inCh, engine, seen, NormB, SendB, EngB, Waiting>>
    BY <1>2, Zenon DEF TakeHigh, NormB, SendB, EngB, Waiting, BlocksOf, PendingBlocks
  <2>3. TakenB = {} /\ HandB = {} /\ HandB' = {} /\ TakenB' = {cur'.block}
    BY <2>1, Zenon DEF TakenB, HandB
  <2>4. /\ Inj(highCh') /\ cur'.block \notin HighB' /\ HighB = HighB' \cup TakenB'
    BY <1>1, <2>1, <2>3, InjTail, Zenon DEF Distinct, HighB
  <2>5. Distinct'
    <3>1. Apart(NormB, HighB', SendB, EngB, TakenB')
      BY <1>1, <2>3, <2>4, Zenon DEF Distinct, Apart
    <3> QED BY <1>1, <2>2, <2>4, <3>1, Zenon DEF Distinct, Inj
  <2>6. MinedSeen'
    BY <1>1, <2>2, <2>3, <2>4, Zenon DEF MinedSeen
  <2>7. Unmarked'
    BY <1>1, <2>2, <2>3, <2>4, Zenon DEF Unmarked
  <2> QED BY <2>5, <2>6, <2>7, Zenon DEF Travel
<1>3. CASE TakeNorm
  <2>1. /\ normCh \in Seq(Source) /\ normCh # <<>> /\ pc = "select" /\ pc' = "unmark"
        /\ cur' = Head(normCh) /\ normCh' = Tail(normCh)
    BY <1>3, Zenon DEF TakeNorm, Types, ProcessorTypes
  <2>2. UNCHANGED <<highCh, inCh, engine, seen, HighB, SendB, EngB, Waiting>>
    BY <1>3, Zenon DEF TakeNorm, HighB, SendB, EngB, Waiting, BlocksOf, PendingBlocks
  <2>3. TakenB = {} /\ HandB = {} /\ HandB' = {} /\ TakenB' = {cur'.block}
    BY <2>1, Zenon DEF TakenB, HandB
  <2>4. /\ Inj(normCh') /\ cur'.block \notin NormB' /\ NormB = NormB' \cup TakenB'
    BY <1>1, <2>1, <2>3, InjTail, Zenon DEF Distinct, NormB
  <2>5. Distinct'
    <3>1. Apart(NormB', HighB, SendB, EngB, TakenB')
      BY <1>1, <2>3, <2>4, Zenon DEF Distinct, Apart
    <3> QED BY <1>1, <2>2, <2>4, <3>1, Zenon DEF Distinct, Inj
  <2>6. MinedSeen'
    BY <1>1, <2>2, <2>3, <2>4, Zenon DEF MinedSeen
  <2>7. Unmarked'
    BY <1>1, <2>2, <2>3, <2>4, Zenon DEF Unmarked
  <2> QED BY <2>5, <2>6, <2>7, Zenon DEF Travel
<1>4. CASE Unmark
  <2>1. pc = "unmark" /\ pc' = "check" /\ cur' = cur /\ inCh' = inCh \ {cur.block}
    BY <1>4, Zenon DEF Unmark
  <2>2. UNCHANGED <<normCh, highCh, engine, seen, NormB, HighB, SendB, EngB, Waiting>>
    BY <1>4, Zenon DEF Unmark, NormB, HighB, SendB, EngB, Waiting, BlocksOf, PendingBlocks
  <2>3. TakenB = {cur.block} /\ TakenB' = {} /\ HandB' = {cur.block}
    BY <2>1, Zenon DEF TakenB, HandB
  <2>4. Distinct'
    <3>1. Apart(NormB, HighB, SendB, EngB, {})
      BY <1>1, Zenon DEF Distinct, Apart
    <3> QED BY <1>1, <2>2, <2>3, <3>1, Zenon DEF Distinct, Inj
  <2>5. MinedSeen'
    BY <1>1, <2>2, <2>3, Zenon DEF MinedSeen
  <2>6. cur.block \notin NormB \cup HighB \cup SendB \cup EngB
    BY <1>1, <2>3, Zenon DEF Distinct, Apart
  <2>7. Unmarked'
    BY <1>1, <2>1, <2>2, <2>3, <2>6, Zenon DEF Unmarked
  <2> QED BY <2>4, <2>5, <2>7, Zenon DEF Travel
<1>5. CASE Check \/ Verify \/ addTxPendingBlock
  <2>1. /\ pc \in {"check", "verify", "gap"} /\ pc' \in {"verify", "gap", "reply"} /\ cur' = cur
        /\ UNCHANGED <<normCh, highCh, sending, engine, inCh, seen, todo>>
    BY <1>5, Zenon DEF Check, Verify, addTxPendingBlock
  <2>2. TakenB = {} /\ TakenB' = {} /\ HandB = {cur.block} /\ HandB' = {cur.block}
    BY <2>1, Zenon DEF TakenB, HandB
  <2>3. /\ orphans' \cup deOrphans' \subseteq orphans \cup deOrphans \cup {cur}
        /\ \A p \in pending' : p \in pending \/ p.src = cur
    <3>1. CASE Check
      BY <3>1, Zenon DEF Check, addOrphanBlock
    <3>2. CASE Verify
      BY <3>2, Zenon DEF Verify, enqueueOrphanBlocks
    <3>3. CASE addTxPendingBlock
      <4>1. [src |-> cur, gap |-> gap].src = cur
        BY Zenon
      <4>2. /\ pending' = pending \cup {[src |-> cur, gap |-> gap]}
            /\ orphans' = orphans /\ deOrphans' = deOrphans
        BY <3>3, Zenon DEF addTxPendingBlock
      <4> QED BY <4>1, <4>2, Zenon
    <3> QED BY <1>5, <3>1, <3>2, <3>3, Zenon
  <2>4. (Waiting \cup HandB)' \subseteq Waiting \cup HandB
    BY <2>1, <2>2, <2>3, Zenon DEF Waiting, BlocksOf, PendingBlocks
  <2> QED BY <2>1, <2>2, <2>4, TravelFrame, Zenon
<1>6. ASSUME OrphansTick \/ \E due \in SUBSET BlocksOf(orphans) : requestBlocksByHashes(due)
      PROVE  Travel'
  <2>1. /\ pc \in {"select", "ask"} /\ pc' \in {"select", "ask"}
        /\ UNCHANGED <<normCh, highCh, sending, engine, inCh, seen, orphans, deOrphans, pending, todo>>
    BY <1>6, Zenon DEF OrphansTick, requestBlocksByHashes
  <2>2. TakenB = {} /\ TakenB' = {} /\ HandB = {} /\ HandB' = {} /\ Waiting' = Waiting
    BY <2>1, Zenon DEF TakenB, HandB, Waiting, BlocksOf, PendingBlocks
  <2> QED BY <2>1, <2>2, TravelFrame, Zenon
<1>7. CASE Reply
  <2>1. /\ pc = "reply" /\ UNCHANGED <<normCh, highCh, sending, inCh, seen, orphans, pending, todo>>
        /\ engine' = engine \/ (Awaited(cur) /\ engine' = Idle)
    BY <1>7, Zenon DEF Reply
  <2>2. /\ \/ pc' = "select"
           \/ pc' = "check" /\ cur' \in deOrphans
           \/ pc' = "dead" /\ cur' = cur
        /\ deOrphans' \subseteq deOrphans
    BY <1>7, Zenon DEF Reply, NextBlock
  <2>3. TakenB = {} /\ TakenB' = {} /\ HandB = {cur.block}
    BY <2>1, <2>2, Zenon DEF TakenB, HandB
  <2>4. HandB' \subseteq BlocksOf(deOrphans) \cup HandB
    BY <2>2, <2>3, Zenon DEF HandB, BlocksOf
  <2>5. (Waiting \cup HandB)' \subseteq Waiting \cup HandB
    BY <2>1, <2>2, <2>4, Zenon DEF Waiting, BlocksOf, PendingBlocks
  <2>6. CASE engine' = engine
    BY <2>1, <2>3, <2>5, <2>6, TravelFrame, Zenon
  <2>7. CASE Awaited(cur) /\ engine' = Idle
    <3>1. EngB = {} /\ EngB' = {} /\ engine.src.block \in HandB
      BY <2>3, <2>7, Zenon DEF Awaited, EngB, Idle
    <3>2. UNCHANGED <<NormB, HighB, SendB>>
      BY <2>1, Zenon DEF NormB, HighB, SendB
    <3>3. Distinct'
      BY <1>1, <2>1, <2>3, <3>1, <3>2, Zenon DEF Distinct, Apart, Inj
    <3>4. MinedSeen'
      BY <1>1, <2>1, <2>3, <2>5, <3>1, <3>2, Zenon DEF MinedSeen
    <3>5. Unmarked'
      BY <1>1, <2>1, <2>3, <2>5, <3>1, <3>2, Zenon DEF Unmarked
    <3> QED BY <3>3, <3>4, <3>5, Zenon DEF Travel
  <2> QED BY <2>1, <2>6, <2>7, Zenon
<1> QED BY <1>2, <1>3, <1>4, <1>5, <1>6, <1>7, Zenon DEF Loop

\* The holder of txPendingMux.
LEMMA TravelReleasers == ASSUME Types, Travel, Releasers PROVE Travel'
<1>1. Distinct /\ MinedSeen /\ Unmarked /\ pending \subseteq PendingEntry
  BY Zenon DEF Travel, Types, ProcessorTypes
<1>2. CASE releaseTxPendingBlock
  <2>1. PICK src \in todo :
           /\ pending' = {p \in pending : p.src.block # src.block}
           /\ sending' = IF src.block \in inCh THEN NoSrc ELSE src
           /\ inCh' = inCh \cup {src.block}
           /\ todo' = todo \ {src}
    BY <1>2, Zenon DEF releaseTxPendingBlock
  <2>2. /\ sending = NoSrc /\ src \in Source /\ src.block \in Block
        /\ UNCHANGED <<normCh, highCh, engine, seen, orphans, deOrphans, pc, cur>>
    BY <1>2, SourceFacts, Zenon DEF releaseTxPendingBlock, Types, ProcessorTypes
  <2>3. UNCHANGED <<NormB, HighB, EngB, TakenB, HandB>> /\ Waiting' \subseteq Waiting
        /\ src.block \in Waiting
    BY <2>1, <2>2, Zenon DEF NormB, HighB, EngB, TakenB, HandB, Waiting, BlocksOf, PendingBlocks
  <2>4. SendB = {} /\ src.block # Genesis
    BY <2>2, SourceFacts, BlockAssumption, Zenon DEF SendB
  <2>5. CASE src.block \in inCh
    <3>1. SendB' = {}
      BY <2>1, <2>5, SourceFacts, Zenon DEF SendB
    <3>2. Distinct'
      BY <1>1, <2>2, <2>3, <2>4, <3>1, Zenon DEF Distinct, Apart, Inj
    <3>3. MinedSeen'
      BY <1>1, <2>2, <2>3, <3>1, Zenon DEF MinedSeen
    <3>4. Unmarked'
      BY <1>1, <2>1, <2>2, <2>3, <3>1, Zenon DEF Unmarked
    <3> QED BY <3>2, <3>3, <3>4, Zenon DEF Travel
  <2>6. CASE src.block \notin inCh
    <3>1. SendB' = {src.block}
      BY <2>1, <2>4, <2>6, Zenon DEF SendB
    <3>2. src.block \notin NormB \cup HighB \cup EngB \cup TakenB
      BY <1>1, <2>3, <2>6, Zenon DEF Unmarked
    <3>3. Distinct'
      <4>1. Apart(NormB, HighB, {src.block}, EngB, TakenB)
        BY <1>1, <3>2, Zenon DEF Distinct, Apart
      <4> QED BY <1>1, <2>2, <2>3, <3>1, <4>1, Zenon DEF Distinct, Inj
    <3>4. MinedSeen'
      BY <1>1, <2>2, <2>3, <3>1, Zenon DEF MinedSeen
    <3>5. Unmarked'
      BY <1>1, <2>1, <2>2, <2>3, <3>1, Zenon DEF Unmarked
    <3> QED BY <3>3, <3>4, <3>5, Zenon DEF Travel
  <2> QED BY <2>5, <2>6, Zenon
<1>3. CASE SendHigh
  <2>1. /\ highCh \in Seq(Source) /\ sending \in Source /\ sending' = NoSrc
        /\ highCh' = Append(highCh, sending)
        /\ UNCHANGED <<normCh, inCh, engine, seen, orphans, deOrphans, pending, todo, pc, cur>>
    BY <1>3, Zenon DEF SendHigh, Types, ProcessorTypes
  <2>2. UNCHANGED <<NormB, EngB, TakenB, HandB, Waiting>>
    BY <2>1, Zenon DEF NormB, EngB, TakenB, HandB, Waiting, BlocksOf, PendingBlocks
  <2>3. SendB = {sending.block} /\ SendB' = {}
    BY <2>1, SourceFacts, BlockAssumption, Zenon DEF SendB
  <2>4. HighB' = HighB \cup SendB /\ Inj(highCh)'
    <3>1. sending.block \notin InChannel(highCh) /\ Inj(highCh)
      BY <1>1, <2>3, Zenon DEF Distinct, Apart, HighB
    <3>2. Inj(Append(highCh, sending)) /\ InChannel(highCh') = InChannel(highCh) \cup {sending.block}
      BY <2>1, <3>1, InjAppend, ChannelAppend, Zenon
    <3> QED BY <2>1, <2>3, <3>2, Zenon DEF HighB
  <2>5. Distinct'
    <3>1. Apart(NormB, HighB \cup SendB, {}, EngB, TakenB)
      BY <1>1, Zenon DEF Distinct, Apart
    <3> QED BY <1>1, <2>1, <2>2, <2>3, <2>4, <3>1, Zenon DEF Distinct, Inj
  <2>6. MinedSeen'
    BY <1>1, <2>1, <2>2, <2>3, <2>4, Zenon DEF MinedSeen
  <2>7. Unmarked'
    BY <1>1, <2>1, <2>2, <2>3, <2>4, Zenon DEF Unmarked
  <2> QED BY <2>5, <2>6, <2>7, Zenon DEF Travel
<1>4. CASE onAddStateBlock \/ onCheckTxPendingBlocksTimer
  <2>1. UNCHANGED <<normCh, highCh, sending, engine, inCh, seen, orphans, deOrphans, pc, cur>>
    BY <1>4, Zenon DEF onAddStateBlock, onCheckTxPendingBlocksTimer
  <2>2. PICK ts : pending' = {[p EXCEPT !.gap = @ \ ts] : p \in pending}
    BY <1>4, Zenon DEF onAddStateBlock, onCheckTxPendingBlocksTimer, FillGaps
  <2>3. \A p \in pending : [p EXCEPT !.gap = @ \ ts].src = p.src
    BY <1>1, Zenon DEF PendingEntry
  <2>4. PendingBlocks' \subseteq PendingBlocks
    BY <2>2, <2>3, Zenon DEF PendingBlocks
  <2>5. BlocksOf(todo') \subseteq PendingBlocks
    BY <1>4, Zenon DEF onAddStateBlock, onCheckTxPendingBlocksTimer, BlocksOf, PendingBlocks
  <2>6. UNCHANGED <<TakenB, HandB>> /\ Waiting' \subseteq Waiting
    BY <2>1, <2>4, <2>5, Zenon DEF TakenB, HandB, Waiting, BlocksOf
  <2> QED BY <2>1, <2>6, TravelFrame, Zenon
<1>5. ASSUME onPovSyncState \/ \E t \in Tx : Confirm(t) \/ Rollback(t) PROVE Travel'
  <2>1. UNCHANGED <<normCh, highCh, sending, engine, inCh, seen, orphans, deOrphans, pending, todo,
                    pc, cur>>
    BY <1>5, Zenon DEF onPovSyncState, Confirm, Rollback
  <2>2. UNCHANGED <<TakenB, HandB, Waiting>>
    BY <2>1, Zenon DEF TakenB, HandB, Waiting, BlocksOf, PendingBlocks
  <2> QED BY <2>1, <2>2, TravelFrame, Zenon
<1> QED BY <1>2, <1>3, <1>4, <1>5, Zenon DEF Releasers

\* A channel of different blocks has as many blocks as entries.
LEMMA InjCounts ==
    ASSUME NEW ch \in Seq(Source), Inj(ch), NEW x, x \notin InChannel(ch)
    PROVE  Cardinality(InChannel(ch) \cup {x}) = Len(ch) + 1
<1> DEFINE f == [i \in 1 .. Len(ch) |-> ch[i].block]
<1>1. DOMAIN ch = 1 .. Len(ch) /\ Len(ch) \in Nat
  OBVIOUS
<1>2. f \in Bijection(1 .. Len(ch), InChannel(ch))
  <2>1. f \in [1 .. Len(ch) -> InChannel(ch)]
    BY <1>1, Zenon DEF InChannel
  <2>2. \A i, j \in 1 .. Len(ch) : f[i] = f[j] => i = j
    BY <1>1, Zenon DEF Inj
  <2>3. \A b \in InChannel(ch) : \E i \in 1 .. Len(ch) : f[i] = b
    BY <1>1, Zenon DEF InChannel
  <2> HIDE DEF f
  <2> QED BY <2>1, <2>2, <2>3, Zenon DEF Bijection, Injection, Surjection, IsInjective
<1> HIDE DEF f
<1>3. IsFiniteSet(1 .. Len(ch)) /\ Cardinality(1 .. Len(ch)) = Len(ch)
  BY <1>1, FS_Interval
<1>4. IsFiniteSet(InChannel(ch)) /\ Cardinality(InChannel(ch)) = Len(ch)
  BY <1>2, <1>3, FS_Bijection, Zenon DEF ExistsBijection
<1>5. Cardinality(InChannel(ch) \cup {x}) = Cardinality(InChannel(ch)) + 1
  BY <1>4, FS_AddElement, Zenon
<1> QED BY <1>4, <1>5, Zenon

\* The loop and a releaser wait for each other only when more blocks than
\* blockHighCh holds have been released (releaseTxPendingBlock): no block is in
\* the channel twice, because the mark of blockInCh keeps the second away.
THEOREM JamTakesForks == Spec => []JamNeedsForks
<1> DEFINE Inv == Types /\ Answers /\ Travel
<1>1. Init => Inv
  BY TypesInit, AnswersInit, TravelInit, Zenon
<1>2. Inv /\ [Next]_vars => Inv'
  <2> SUFFICES ASSUME Inv, [Next]_vars PROVE Inv'
    BY Zenon
  <2>1. Types' /\ Answers'
    BY AnswersStep, Zenon
  <2>2. CASE UNCHANGED vars
    <3>1. UNCHANGED <<TakenB, HandB, Waiting>>
      BY <2>2, Zenon DEF TakenB, HandB, Waiting, BlocksOf, PendingBlocks
    <3> QED BY <2>1, <2>2, <3>1, TravelFrame, Zenon
  <2>3. TemplateOK
    BY Zenon DEF Answers
  <2> QED BY <2>1, <2>2, <2>3, TravelEngine, TravelLoop, TravelReleasers, Zenon DEF Next
<1>3. Inv => JamNeedsForks
  <2> SUFFICES ASSUME Inv, Jammed
               PROVE  Cardinality(InChannel(highCh) \cup {sending.block}) > HighCap
    BY Zenon DEF JamNeedsForks
  <2>1. highCh \in Seq(Source) /\ sending \in Source /\ Len(highCh) = HighCap
    BY Zenon DEF Jammed, Types, ProcessorTypes
  <2>2. sending.block \in SendB
    BY <2>1, SourceFacts, BlockAssumption, Zenon DEF SendB
  <2>3. Inj(highCh) /\ sending.block \notin InChannel(highCh)
    BY <2>2, Zenon DEF Travel, Distinct, Apart, HighB
  <2>4. Cardinality(InChannel(highCh) \cup {sending.block}) = HighCap + 1
    BY <2>1, <2>3, InjCounts, Zenon
  <2> QED BY <2>4, CapAssumption
<1> QED BY <1>1, <1>2, <1>3, PTL DEF Spec
=============================================================================
