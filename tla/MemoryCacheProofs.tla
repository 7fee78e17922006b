------------------------- MODULE MemoryCacheProofs -------------------------
(***************************************************************************)
(* Theorems about MemoryCache, for any number of writers, caches and       *)
(* batches per writer: its types, the three safety invariants, and that    *)
(* the ring of caches implements WriteBehind.  The invariant behind them   *)
(* is that of MemoryCacheStepProofs; this module shows that Control holds  *)
(* of every execution and puts the steps together.                         *)
(***************************************************************************)
EXTENDS MemoryCacheStepProofs, MemoryCacheBehind, FiniteSetTheorems

\* The counter of a slot counts at most the writers.
LEMMA AnnouncedFinite ==
    ASSUME NEW i \in Slot
    PROVE  /\ IsFiniteSet(Announced(i)) /\ Cardinality(Announced(i)) \in Nat
           /\ Cardinality(Announced(i)) <= Cardinality(Writer)
           /\ IsFiniteSet(Announced(i)') /\ Cardinality(Announced(i)') \in Nat
           /\ Cardinality(Announced(i)') <= Cardinality(Writer)
<1>1. Announced(i) \subseteq Writer /\ Announced(i)' \subseteq Writer
  BY Zenon DEF Announced
<1> QED BY <1>1, WriterAssumption, FS_Subset, FS_CardinalityType, Zenon

\* The steps in which no writer announces itself or takes its announcement back
\* leave the writers of every slot alone.
LEMMA AnnouncedSame ==
    ASSUME \A w \in Writer : \/ pc'[w] = pc[w] /\ target'[w] = target[w]
                             \/ pc[w] \notin Putting /\ pc'[w] \notin Putting
                             \/ pc[w] \in Putting /\ pc'[w] \in Putting /\ target'[w] = target[w]
    PROVE  \A i \in Slot : Announced(i)' = Announced(i)
BY Zenon DEF Announced

\* Every step keeps the counters right.
LEMMA QuotesNext ==
    ASSUME Control, [Next]_vars
    PROVE  \A i \in Slot : quote'[i] = Cardinality(Announced(i)')
<1> USE DEF Putting
<1> DEFINE Same == quote' = quote /\ \A i \in Slot : Announced(i)' = Announced(i)
<1>   /\ pc = [q \in Proc |-> pc[q]] /\ Writer \subseteq Proc /\ Flusher \notin Writer
      /\ quote \in [Slot -> Int] /\ target \in [Writer -> Slot]
      /\ \A i \in Slot : quote[i] = Cardinality(Announced(i))
      /\ pc[Flusher] \notin Putting
  BY WriterAssumption, FS_CardinalityType DEF Control, Types, Places, TypeOK, Proc
<1>1. SUFFICES ASSUME ~Same
               PROVE  \A i \in Slot : quote'[i] = Cardinality(Announced(i)')
  BY Zenon
<1>2. ASSUME NEW w \in Writer, Begin(w)
      PROVE  FALSE
  BY <1>1, <1>2, AnnouncedSame, Zenon DEF Begin, Goto, ring
<1>3. ASSUME NEW p \in Proc, GetCache(p)
      PROVE  FALSE
  BY <1>1, <1>3, AnnouncedSame, GetCacheFrame, Zenon DEF Critical
<1>4. CASE \E w \in Writer : Put(w)
  BY <1>1, <1>4, AnnouncedSame, Zenon DEF Put, PutKey, Goto
<1>5. CASE Tick \/ Stop \/ Flush
  <2>1. quote' = quote /\ target' = target
    BY <1>5,
       Zenon DEF Tick, Stop, Flush, Receive, FlushDone, WaitQuote, Dump, Purge, Flushed, ring
  <2>2. \A w \in Writer : pc'[w] = pc[w]
    BY <1>5,
       Zenon DEF Tick, Stop, Flush, Receive, FlushDone, WaitQuote, Dump, Purge, Flushed, Goto
  <2> QED BY <1>1, <2>1, <2>2, AnnouncedSame, Zenon
<1>6. CASE (\E k \in Key : GetStart(k)) \/ Get \/ UNCHANGED vars
  <2>1. quote' = quote /\ target' = target /\ pc' = pc
    BY <1>6, Zenon DEF GetStart, Get, GetReadIndex, Walk, GetDone, ring, vars
  <2> QED BY <1>1, <2>1, AnnouncedSame, Zenon
<1>7. CASE \E w \in Writer : Quoted(w)
  <2> PICK w \in Writer : Quoted(w)
    BY <1>7, Zenon
  <2>1. /\ Announced(target[w])' = Announced(target[w]) \cup {w}
        /\ w \notin Announced(target[w])
        /\ \A i \in Slot \ {target[w]} : Announced(i)' = Announced(i)
    BY Zenon DEF Quoted, Goto, Announced
  <2>2. Cardinality(Announced(target[w])') = Cardinality(Announced(target[w])) + 1
    BY <2>1, AnnouncedFinite, FS_AddElement
  <2> QED BY <2>1, <2>2, Zenon DEF Quoted
<1>8. CASE \E w \in Writer : Release(w)
  <2> PICK w \in Writer : Release(w)
    BY <1>8, Zenon
  <2>1. /\ Announced(target[w])' = Announced(target[w]) \ {w}
        /\ w \in Announced(target[w])
        /\ \A i \in Slot \ {target[w]} : Announced(i)' = Announced(i)
    BY Zenon DEF Release, Goto, Announced
  <2>2. Cardinality(Announced(target[w])') = Cardinality(Announced(target[w])) - 1
    <3>1. IsFiniteSet(Announced(target[w])) /\ target[w] \in Slot
      BY AnnouncedFinite, Zenon
    <3>2. Cardinality(Announced(target[w]) \ {w}) = Cardinality(Announced(target[w])) - 1
      BY <2>1, <3>1, FS_RemoveElement, Zenon
    <3> QED BY <2>1, <3>2, Zenon
  <2> QED BY <2>1, <2>2, Zenon DEF Release
<1>9. CASE Crash
  <2>1. \A i \in Slot : Announced(i)' = {}
    BY <1>9, Zenon DEF Crash, Fresh, Announced
  <2> QED BY <2>1, <1>9, FS_EmptySet, Zenon DEF Crash, Fresh
<1> QED
  BY <1>2, <1>3, <1>4, <1>5, <1>6, <1>7, <1>8, <1>9 DEF Next, BatchUpdate, Proc

\* Every step keeps the goroutines and the indices in their places.
LEMMA PlacesNext ==
    ASSUME Control, [Next]_vars
    PROVE  Places'
<1> USE DEF Critical, Flushing, Putting
<1>   /\ pc = [q \in Proc |-> pc[q]] /\ Writer \subseteq Proc /\ Flusher \notin Writer
      /\ Flusher \in Proc /\ NoProc \notin Proc
      /\ Places /\ writeIndex \in Slot /\ readIndex \in Slot
  BY WriterAssumption, Zenon DEF Control, Types, TypeOK, Proc, Flusher, NoProc
<1>r. /\ \A i, j \in Slot : Next1(i) = Next1(j) => i = j
      /\ \A i \in Slot : Next1(i) # i /\ Next1(i) \in Slot
  BY RingSteps, CacheCountAssumption DEF Slot
<1>1. ASSUME NEW w \in Writer, Begin(w)
      PROVE  Places'
  BY <1>1, Zenon DEF Begin, Goto, ring, Places, Closing
<1>2. ASSUME NEW p \in Proc, Lock(p)
      PROVE  Places'
  BY <1>2, Zenon DEF Lock, Goto, ring, Places, Closing
<1>3. ASSUME NEW p \in Proc, Stay(p)
      PROVE  Places'
  BY <1>3 DEF Stay, Return, Goto, ring, Places, Closing
<1>4. ASSUME NEW p \in Proc, NeedsFlush(p)
      PROVE  Places'
  BY <1>4, Zenon DEF NeedsFlush, Goto, ring, Places, Closing
<1>5. ASSUME NEW p \in Proc, Rotate(p)
      PROVE  Places'
  BY <1>5 DEF Rotate, Goto, ring, Places, Closing
<1>6. ASSUME NEW p \in Proc, Drain(p)
      PROVE  Places'
  BY <1>6, Zenon DEF Drain, Goto, ring, Places, Closing
<1>7. ASSUME NEW p \in Proc, Advance(p)
      PROVE  Places'
  <2>1. \A q \in Proc : q # p => pc[q] \notin Critical /\ pc'[q] = pc[q]
    BY <1>7, Zenon DEF Advance, Return, Goto, Places
  <2>2. ~Closing /\ ~Closing' /\ pc[Flusher] # "closed"
    BY <1>7, Zenon DEF Advance, Return, Goto, Places, Closing, Proc
  <2>3. writeIndex' # readIndex /\ (pc[Flusher] \in {"dump", "purge"} => flushing # writeIndex')
    BY <1>r, <1>7, <2>2, Zenon DEF Advance, Places
  <2>4. pc'[p] \in {"idle", "got"} /\ (p = Flusher => pc'[p] = "idle") /\ lock' = NoProc
    BY <1>7, Zenon DEF Advance, Return, Goto
  <2>5. UNCHANGED <<readIndex, flushing>>
    BY <1>7, Zenon DEF Advance
  <2> QED BY <2>1, <2>2, <2>3, <2>4, <2>5, Zenon DEF Places
<1>8. ASSUME NEW w \in Writer, Quoted(w) \/ Put(w) \/ Release(w)
      PROVE  Places'
  BY <1>8 DEF Quoted, Put, PutKey, Release, Goto, ring, Places, Closing
<1>9. CASE Tick \/ Receive \/ Stop \/ FlushDone \/ WaitQuote
  <2>1. CASE Tick
    BY <2>1, Zenon DEF Tick, Goto, ring, Places, Closing
  <2>2. CASE Receive
    BY <2>2, Zenon DEF Receive, Goto, ring, Places, Closing
  <2>3. CASE Stop
    BY <2>3, Zenon DEF Stop, Goto, ring, Places, Closing
  <2>4. CASE FlushDone
    BY <2>4, Zenon DEF FlushDone, Goto, ring, Places, Closing
  <2>5. CASE WaitQuote
    BY <2>5, Zenon DEF WaitQuote, Goto, ring, Places, Closing
  <2> QED BY <1>9, <2>1, <2>2, <2>3, <2>4, <2>5, Zenon
<1>10. ASSUME Flushed, pc[Flusher] \in {"dump", "purge"}
       PROVE  Places'
  BY <1>r, <1>10 DEF Flushed, Goto, ring, Places, Closing
<1>11. CASE Dump /\ ~Flushed
  BY <1>11 DEF Dump, Goto, ring, Places, Closing
<1>12. CASE (\E k \in Key : GetStart(k)) \/ Get \/ UNCHANGED vars
  BY <1>12, Zenon DEF GetStart, Get, GetReadIndex, Walk, GetDone, ring, vars, Places, Closing
<1>13. CASE Crash
  BY <1>r, <1>13, RingSteps DEF Crash, Fresh, Places, Closing
<1> QED
  BY <1>1, <1>2, <1>3, <1>4, <1>5, <1>6, <1>7, <1>8, <1>9, <1>10, <1>11, <1>12, <1>13
  DEF Next, BatchUpdate, GetCache, Flush, Dump, Purge

\* Every step leaves every variable with its type, given the bound of the counters.
LEMMA TypesNext ==
    ASSUME Control, [Next]_vars, Cardinality(Writer) \in Nat
    PROVE  /\ quote' \in [Slot -> Int]
           /\ quote' \in [Slot -> 0 .. Cardinality(Writer)] => Types'
<1> DEFINE Data == /\ caches \in [Slot -> [Key -> Batch]]
                   /\ store \in [Key -> Batch] /\ put \in [Key -> Batch]
           Begun == /\ batch \in [Writer -> Batch]
                    /\ deps \in [Writer -> Seq([Writer -> Batch])]
                    /\ \A w \in Writer : Len(deps[w]) = batch[w]
           Indices == /\ writeIndex \in Slot /\ readIndex \in Slot /\ flushing \in Slot
                      /\ flushChan \in 0 .. 2 /\ target \in [Writer -> Slot]
           Rest == /\ lock \in Proc \cup {NoProc} /\ pc \in [Proc -> Label]
                   /\ overtaken \in BOOLEAN /\ load \in Load
<1>a. /\ Flusher \in Proc /\ Writer \subseteq Proc /\ Flusher \notin Writer
      /\ \A i \in Slot : Next1(i) \in Slot /\ Prev1(i) \in Slot
      /\ 0 \in Slot /\ 1 \in Slot /\ MaxBatch \in Nat /\ Empty \in [Key -> Batch]
      /\ Key = Writer \X {1, 2}
  BY RingSteps, WriterAssumption, CacheCountAssumption, BoundAssumption
  DEF Slot, Proc, Batch, Empty, Key
<1>   Data /\ Begun /\ Indices /\ Rest /\ reader \in Reader
  BY Zenon DEF Control, Types, TypeOK, Label, Reader
<1>b. pc[Flusher] \in Label /\ \A w \in Writer : pc[w] \in Label
  BY <1>a, Zenon
<1>1. Begun'
  <2>1. CASE UNCHANGED <<batch, deps>>
    BY <2>1, Zenon
  <2>2. ASSUME NEW w \in Writer, Begin(w)
        PROVE  Begun'
    <3>1. batch[w] + 1 \in Batch
      <4>1. load.batches[w] \in Batch
        BY BoundAssumption, Zenon
      <4> QED BY <1>a, <2>2, <4>1 DEF Begin, Batch
    <3>2. [v \in Writer |-> put[<<v, 1>>]] \in [Writer -> Batch]
      BY <1>a, Zenon
    <3>3. PICK d \in [Writer -> Batch] : deps' = [deps EXCEPT ![w] = Append(@, d)]
      BY <2>2, <3>2, Zenon DEF Begin
    <3>4. deps' \in [Writer -> Seq([Writer -> Batch])] /\ Len(deps'[w]) = Len(deps[w]) + 1
      BY <3>3
    <3> QED BY <2>2, <3>1, <3>3, <3>4, Zenon DEF Begin
  <2>3. UNCHANGED <<batch, deps>> \/ \E w \in Writer : Begin(w)
    BY GetCacheFrame, <1>a, Zenon
    DEF Next, BatchUpdate, Quoted, Put, PutKey, Release, Tick, Flush, Receive, FlushDone,
        WaitQuote, Dump, Purge, Flushed, Stop, GetStart, Get, GetReadIndex, Walk, GetDone,
        Crash, Fresh, vars, history
  <2> QED BY <2>1, <2>2, <2>3, Zenon
<1>2. /\ Data /\ UNCHANGED <<caches, store, put>> => Data'
      /\ Indices /\ UNCHANGED <<writeIndex, readIndex, flushing, flushChan, target>> => Indices'
      /\ Rest /\ UNCHANGED <<lock, pc, overtaken, load>> => Rest'
  BY Zenon
<1>3. Data' /\ Indices' /\ Rest' /\ reader' \in Reader /\ quote' \in [Slot -> Int]
  <2>q. quote \in [Slot -> Int]
    BY DEF Control, Types, TypeOK
  <2>1. CASE \E w \in Writer : Begin(w)
    BY <1>a, <1>2, <2>1, <2>q, Zenon DEF Begin, Goto, ring, Label
  <2>2. ASSUME NEW p \in Proc, GetCache(p)
        PROVE  Data' /\ Indices' /\ Rest' /\ reader' \in Reader /\ quote' \in [Slot -> Int]
    <3>1. UNCHANGED <<caches, store, put, overtaken, load, readIndex, flushing, reader, quote>>
      BY <2>2, GetCacheFrame, Zenon DEF history
    <3>2. lock' \in Proc \cup {NoProc} /\ pc' \in [Proc -> Label]
      <4>1. pc'[p] \in Label /\ pc' = [pc EXCEPT ![p] = pc'[p]]
        BY <2>2, GetCacheFrame, Zenon DEF Critical, Label
      <4>2. lock' \in Proc \cup {NoProc}
        BY <2>2, Zenon
        DEF GetCache, Lock, Stay, NeedsFlush, Rotate, Drain, Advance, Return
      <4> QED BY <4>1, <4>2, Zenon
    <3>3. writeIndex' \in Slot /\ flushChan' \in 0 .. 2 /\ target' \in [Writer -> Slot]
      <4>1. CASE Lock(p) \/ NeedsFlush(p) \/ Drain(p)
        BY <4>1, Zenon DEF Lock, NeedsFlush, Drain, ring
      <4>2. CASE Stay(p) \/ Advance(p)
        <5>1. writeIndex' \in Slot /\ flushChan' = flushChan
          BY <1>a, <4>2, Zenon DEF Stay, Advance, ring
        <5>2. Return(p, writeIndex')
          BY <4>2, Zenon DEF Stay, Advance, ring
        <5>3. target' \in [Writer -> Slot]
          BY <5>1, <5>2, Zenon DEF Return
        <5> QED BY <5>1, <5>3, Zenon
      <4>3. CASE Rotate(p)
        BY <4>3 DEF Rotate
      <4> QED BY <2>2, <4>1, <4>2, <4>3, Zenon DEF GetCache
    <3> QED BY <2>q, <3>1, <3>2, <3>3, Zenon
  <2>3. ASSUME NEW w \in Writer, Quoted(w) \/ Release(w)
        PROVE  Data' /\ Indices' /\ Rest' /\ reader' \in Reader /\ quote' \in [Slot -> Int]
    <3>1. Data' /\ Indices' /\ reader' \in Reader
      BY <1>2, <2>3, Zenon DEF Quoted, Release, history
    <3>2. Rest'
      BY <1>a, <2>3, Zenon DEF Quoted, Release, Goto, history, Label
    <3>3. quote' \in [Slot -> Int]
      BY <2>q, <2>3 DEF Quoted, Release
    <3> QED BY <3>1, <3>2, <3>3, Zenon
  <2>4. ASSUME NEW w \in Writer, Put(w)
        PROVE  Data' /\ Indices' /\ Rest' /\ reader' \in Reader /\ quote' \in [Slot -> Int]
    <3>0. PICK n \in {1, 2}, l \in Label : PutKey(w, n, l)
      BY <2>4, Zenon DEF Put, Label
    <3>1. <<w, n>> \in Key /\ batch[w] \in Batch /\ target[w] \in Slot
      BY <1>a, Zenon
    <3>2. Data'
      BY <3>0, <3>1, Zenon DEF PutKey
    <3>3. Indices' /\ Rest' /\ reader' \in Reader /\ quote' \in [Slot -> Int]
      BY <1>a, <2>q, <3>0, Zenon DEF PutKey, Goto
    <3> QED BY <3>2, <3>3, Zenon
  <2>5. CASE Tick \/ Receive \/ Stop \/ FlushDone \/ WaitQuote
    <3>1. Data' /\ reader' \in Reader /\ quote' \in [Slot -> Int]
      BY <1>2, <2>q, <2>5, Zenon DEF Tick, Receive, Stop, FlushDone, WaitQuote, ring, history
    <3>2. Indices'
      BY <1>a, <2>5 DEF Tick, Receive, Stop, FlushDone, WaitQuote, ring
    <3>3. Rest'
      BY <1>a, <2>5, Zenon
      DEF Tick, Receive, Stop, FlushDone, WaitQuote, ring, history, Goto, Label
    <3> QED BY <3>1, <3>2, <3>3, Zenon
  <2>6. CASE Dump \/ Purge
    <3>1. Data'
      <4>1. CASE Purge
        BY <1>a, <4>1, Zenon DEF Purge, Flushed, history
      <4>2. CASE Dump /\ caches[flushing] = Empty
        BY <4>2, Zenon DEF Dump, Flushed, history
      <4>3. CASE Dump /\ caches[flushing] # Empty
        <5>1. \A k \in Key : caches[flushing][k] \in Batch /\ store[k] \in Batch
          BY Zenon
        <5>2. store' = [k \in Key |-> IF caches[flushing][k] # 0
                                      THEN caches[flushing][k] ELSE store[k]]
          BY <4>3, Zenon DEF Dump
        <5>3. store' \in [Key -> Batch]
          BY <5>1, <5>2, Zenon
        <5> QED BY <4>3, <5>3, Zenon DEF Dump, ring, history
      <4> QED BY <2>6, <4>1, <4>2, <4>3, Zenon
    <3>2. Indices'
      BY <1>a, <2>6 DEF Dump, Purge, Flushed, ring
    <3>3. Rest' /\ reader' \in Reader /\ quote' \in [Slot -> Int]
      <4>1. CASE Flushed
        BY <1>a, <4>1, <2>q, Zenon DEF Flushed, history, Goto, Label
      <4>2. CASE Dump /\ ~Flushed
        BY <1>a, <4>2, <2>q, Zenon DEF Dump, ring, history, Goto, Label
      <4> QED BY <2>6, <4>1, <4>2, Zenon DEF Purge
    <3> QED BY <3>1, <3>2, <3>3, Zenon
  <2>7. CASE (\E k \in Key : GetStart(k)) \/ Get
    <3>1. Data' /\ Indices' /\ Rest' /\ quote' \in [Slot -> Int]
      BY <1>2, <2>7, <2>q, Zenon DEF GetStart, Get, GetReadIndex, Walk, GetDone, ring, history
    <3>2. reader' \in Reader
      <4>1. ASSUME NEW k \in Key, GetStart(k)
            PROVE  reader' \in Reader
        BY <4>1, NoReaderType, Zenon DEF GetStart, Reader
      <4>2. CASE GetReadIndex
        BY <4>2, Zenon DEF GetReadIndex, Reader
      <4>3. CASE Walk
        <5>1. /\ reader.key \in Key /\ reader.index \in Slot /\ Prev1(reader.index) \in Slot
              /\ store[reader.key] \in Batch /\ caches[reader.index][reader.key] \in Batch
          BY <1>a DEF Reader
        <5> QED BY <4>3, <5>1, Zenon DEF Walk, Reader
      <4>4. CASE GetDone
        BY <4>4, NoReaderType, Zenon DEF GetDone
      <4> QED BY <2>7, <4>1, <4>2, <4>3, <4>4, Zenon DEF Get
    <3> QED BY <3>1, <3>2, Zenon
  <2>8. CASE Crash
    <3>1. Data'
      BY <1>a, <2>8, Zenon DEF Crash, Fresh
    <3>2. Indices' /\ Rest' /\ quote' \in [Slot -> Int]
      BY <1>a, <2>8 DEF Crash, Fresh, Label
    <3> QED BY <2>8, <3>1, <3>2, NoReaderType, Zenon DEF Crash, Fresh
  <2>9. CASE UNCHANGED vars
    BY <1>2, <2>9, <2>q, Zenon DEF vars, ring, history
  <2> QED
    BY <1>a, <2>1, <2>2, <2>3, <2>4, <2>5, <2>6, <2>7, <2>8, <2>9,
       Zenon DEF Next, BatchUpdate, Flush
<1>5. writeIndex' = readIndex' => pc'[Flusher] = "closed"
  BY PlacesNext, Zenon DEF Places
<1>6. \A w \in Writer : deps'[w] \in [1 .. batch'[w] -> [Writer -> Batch]]
  BY <1>1
<1> QED BY <1>1, <1>3, <1>5, <1>6, Zenon DEF Types, TypeOK, Label, Reader

\* The first state.
LEMMA InitControl == Init => Control
<1> SUFFICES ASSUME Init PROVE Control
  BY Zenon
<1>1. /\ Flusher \in Proc /\ Flusher \notin Writer /\ NoProc \notin Proc
      /\ Writer \subseteq Proc /\ 0 \in Slot /\ 1 \in Slot /\ 0 \in Batch
      /\ Key = Writer \X {1, 2}
  BY WriterAssumption, CacheCountAssumption, BoundAssumption
  DEF Slot, Proc, Batch, Key, NoProc, Flusher
<1>2. Places
  BY <1>1, CacheCountAssumption DEF Init, Places, Closing, Critical, Flushing, Putting
<1>3. \A i \in Slot : Announced(i) = {} /\ quote[i] = Cardinality(Announced(i))
  <2>1. \A i \in Slot : Announced(i) = {}
    BY <1>1, Zenon DEF Init, Announced, Putting
  <2> QED BY <2>1, FS_EmptySet, Zenon DEF Init
<1>4. quote \in [Slot -> 0 .. Cardinality(Writer)]
  BY FS_CardinalityType, WriterAssumption DEF Init
<1>5. /\ deps \in [Writer -> Seq([Writer -> Batch])] /\ batch \in [Writer -> Batch]
      /\ \A w \in Writer : Len(deps[w]) = batch[w]
  BY <1>1 DEF Init
<1>6. \A w \in Writer : deps[w] \in [1 .. batch[w] -> [Writer -> Batch]]
  BY <1>5
<1>7. TypeOK
  <2>1. caches \in [Slot -> [Key -> Batch]] /\ store \in [Key -> Batch] /\ put \in [Key -> Batch]
    BY <1>1, Zenon DEF Init, Empty
  <2>2. reader \in Reader
    BY NoReaderType, Zenon DEF Init
  <2>3. /\ writeIndex \in Slot /\ readIndex \in Slot /\ flushing \in Slot
        /\ writeIndex # readIndex /\ target \in [Writer -> Slot] /\ flushChan \in 0 .. 2
    BY <1>1 DEF Init
  <2>4. lock \in Proc \cup {NoProc} /\ overtaken \in BOOLEAN /\ load \in Load
    BY <1>1, Zenon DEF Init
  <2>5. pc \in [Proc -> Label]
    BY <1>1, Zenon DEF Init, Label
  <2> QED BY <1>4, <1>5, <1>6, <2>1, <2>2, <2>3, <2>4, <2>5, Zenon DEF TypeOK, Reader, Label
<1> QED BY <1>2, <1>3, <1>5, <1>7, Zenon DEF Control, Types

\* Every step keeps the goroutines, the indices and the counters right.
LEMMA NextControl == Control /\ [Next]_vars => Control'
<1> SUFFICES ASSUME Control, [Next]_vars PROVE Control'
  BY Zenon
<1>1. \A i \in Slot : quote'[i] = Cardinality(Announced(i)')
  BY QuotesNext, Zenon
<1>2. Cardinality(Writer) \in Nat
  BY FS_CardinalityType, WriterAssumption, Zenon
<1>3. quote' \in [Slot -> Int]
  BY <1>2, TypesNext, Zenon
<1>4. quote' \in [Slot -> 0 .. Cardinality(Writer)]
  BY <1>1, <1>2, <1>3, AnnouncedFinite
<1>5. Types' /\ Places'
  BY <1>2, <1>4, TypesNext, PlacesNext, Zenon
<1> QED BY <1>1, <1>5, Zenon DEF Control

\* When the flusher finds the counter of its cache at zero nobody writes to it.
LEMMA WaitQuoteAlone ==
    ASSUME Control, WaitQuote
    PROVE  Announced(flushing) = {}
<1>1. flushing \in Slot /\ Cardinality(Announced(flushing)) = 0
  BY Zenon DEF Control, Types, TypeOK, WaitQuote
<1> QED BY <1>1, AnnouncedFinite, FS_EmptySet, Zenon

\* Nothing is written yet.
LEMMA InitInv == Init => Inv
<1> SUFFICES ASSUME Init PROVE Inv
  BY Zenon
<1>   /\ \A i \in Slot : caches[i] = Empty /\ \A k \in Key : caches[i][k] = 0
      /\ pc[Flusher] = "idle" /\ \A w \in Writer : pc[w] = "idle"
      /\ \A w \in Writer : \A n \in {1, 2} : Part(w, n) \in Key
      /\ \A k \in Key : put[k] = 0 /\ store[k] = 0 /\ Owner(k) \in Writer
      /\ \A w \in Writer : batch[w] = 0
  BY Keys, Zenon DEF Empty, Proc, Init
<1>1. Free /\ Targets /\ Newest /\ Whole
  BY Zenon DEF Free, Targets, Newest, Whole, Putting
<1>2. Order
  BY DEF Order
<1>3. Rests
  BY Zenon DEF Rests, Putting
<1>4. Reading
  BY NoReaderType, Zenon DEF Reading, Init
<1> QED BY <1>1, <1>2, <1>3, <1>4, InitControl, Zenon DEF Contents, Inv

\* The induction step.
LEMMA NextInv == Inv /\ [Next]_vars => Inv'
<1> SUFFICES ASSUME Inv, [Next]_vars PROVE Inv'
  BY Zenon
<1>1. Control /\ Control'
  BY NextControl, Zenon DEF Inv
<1> SUFFICES ASSUME ~overtaken' PROVE Contents' /\ Reading'
  BY <1>1, Zenon DEF Inv
<1>2. overtaken => overtaken'
  BY <1>1, OvertakenStays, Zenon
<1>3. Contents /\ Reading
  BY <1>2, Zenon DEF Inv
<1>4. ASSUME Moves, UNCHANGED reader
      PROVE  Contents' /\ Reading'
  <2>1. UNCHANGED <<caches, store, readIndex, reader>>
    BY <1>4, Zenon DEF Moves
  <2>2. Reading'
    BY <1>3, <2>1, Zenon DEF Reading, Ahead
  <2> QED BY <1>1, <1>3, <1>4, <2>2, MovesContents, Zenon
<1>5. ASSUME UNCHANGED <<caches, store, readIndex, reader>>
      PROVE  Reading'
  BY <1>3, <1>5, Zenon DEF Reading, Ahead
<1>6. ASSUME NEW w \in Writer, Begin(w)
      PROVE  Contents' /\ Reading'
  BY <1>1, <1>3, <1>5, <1>6, BeginContents, Zenon DEF Begin, ring
<1>7. ASSUME NEW w \in Writer, Quoted(w)
      PROVE  Contents' /\ Reading'
  BY <1>1, <1>3, <1>5, <1>7, QuotedContents, Zenon DEF Quoted
<1>8. ASSUME NEW w \in Writer, Put(w)
      PROVE  Contents' /\ Reading'
  <2>1. UNCHANGED <<readIndex, reader, store>>
    BY <1>8, Zenon DEF Put, PutKey
  <2>2. /\ \A i \in Slot : caches[i][reader.key] <= caches'[i][reader.key]
        /\ store[reader.key] <= store'[reader.key]
    BY <1>1, <1>3, <1>8, <2>1, PutGrows, Basics
  <2> QED BY <1>1, <1>3, <1>8, <2>1, <2>2, PutContents, GrowReading, Zenon
<1>9. CASE Dump \/ Purge
  <2>1. CASE Done
    BY <1>1, <1>3, <1>9, <2>1, FlushSteps, DoneContents, DoneReading, Zenon
  <2>2. CASE ~Done
    <3>1. /\ pc[Flusher] = "dump" /\ pc' = [pc EXCEPT ![Flusher] = "purge"]
          /\ store' = [k \in Key |-> IF caches[flushing][k] # 0
                                     THEN caches[flushing][k] ELSE store[k]]
          /\ UNCHANGED <<caches, put, readIndex, writeIndex, flushing, target, batch, deps>>
          /\ UNCHANGED reader
      BY <1>1, <1>3, <1>9, <2>2, FlushSteps, Zenon
    <3>2. Contents' /\ \A k \in Key : store[k] <= store'[k]
      BY <1>1, <1>3, <3>1, DumpContents, Zenon
    <3>3. /\ \A i \in Slot : caches[i][reader.key] <= caches'[i][reader.key]
          /\ store[reader.key] <= store'[reader.key]
      BY <1>1, <3>1, <3>2, Basics
    <3> QED BY <1>1, <1>3, <3>1, <3>2, <3>3, GrowReading, Zenon
  <2> QED BY <2>1, <2>2, Zenon
<1>10. CASE (\E k \in Key : GetStart(k)) \/ Get
  <2>1. Moves
    BY <1>10, Zenon
    DEF GetStart, Get, GetReadIndex, Walk, GetDone, Moves, ring, history
  <2> QED BY <1>1, <1>3, <1>10, <2>1, MovesContents, GetReading, Zenon
<1>11. CASE UNCHANGED vars
  <2>1. Moves /\ UNCHANGED reader
    BY <1>11, Zenon DEF vars, ring, history, Moves
  <2> QED BY <1>4, <2>1, Zenon
<1>12. CASE \/ \E p \in Proc : GetCache(p)
            \/ \E w \in Writer : Release(w)
            \/ Tick \/ Receive \/ Stop \/ FlushDone \/ WaitQuote
  BY <1>1, <1>4, <1>12, WaitsMove, WaitQuoteAlone, Zenon
<1>13. CASE Crash
  BY <1>1, <1>3, <1>13, CrashContents, Zenon
<1> QED
  BY <1>6, <1>7, <1>8, <1>9, <1>10, <1>11, <1>12, <1>13,
     Zenon DEF Next, BatchUpdate, Flush, Proc


-----------------------------------------------------------------------------
(***************************************************************************)
(* Theorems.                                                               *)
(***************************************************************************)
\* The variables keep their types: in particular writeIndex never meets
\* readIndex before close is done, no more than two signals are outstanding,
\* and a quote counter counts at most the writers.
THEOREM CacheTypes == Spec => []TypeOK
<1>1. Inv => TypeOK
  BY Zenon DEF Inv, Control, Types
<1> QED BY <1>1, InitInv, NextInv, PTL DEF Spec

\* The caches that GetCache may hand out next are empty, for any ring of four
\* caches or more and any number of writers, unless a writer was overtaken.
THEOREM FreeCachesStayEmpty == Spec => []FreeCachesAreEmpty
<1>1. Inv => FreeCachesAreEmpty
  BY Basics, RingLive, Zenon DEF Inv, Contents, Free, FreeCachesAreEmpty
<1> QED BY <1>1, InitInv, NextInv, PTL DEF Spec

\* Get, which walks the ring without the mutex, returns nothing older than what
\* had been written when it was called, however far the writers and the flusher
\* get meanwhile.
THEOREM GetStaysFresh == Spec => []GetIsFresh
<1>1. Inv => GetIsFresh
  BY Basics, Zenon DEF Inv, Reading, GetIsFresh
<1> QED BY <1>1, InitInv, NextInv, PTL DEF Spec


\* The invariant says what close leaves.
LEMMA CloseInv == Inv => CloseLosesNothing
BY ClosedStore, Zenon DEF Inv, CloseLosesNothing

\* After close everything that was written is in the store.
THEOREM CloseKeepsAll == Spec => []CloseLosesNothing
<1> QED BY CloseInv, InitInv, NextInv, PTL DEF Spec

-----------------------------------------------------------------------------
(***************************************************************************)
(* The ring of caches implements WriteBehind.                              *)
(***************************************************************************)
\* The refinement mapping, of a store that holds whole batches.
Written == [w \in Writer |-> put[<<w, 1>>]]
Durable == [w \in Writer |-> IF store[<<w, 1>>] = store[<<w, 2>>]
                             THEN store[<<w, 1>>] ELSE -1]

\* The mapping in terms of the keys of the batches.
LEMMA MappedValues ==
    /\ Written = [w \in Writer |-> put[Part(w, 1)]]
    /\ Whole => Durable = [w \in Writer |-> store[Part(w, 1)]]
BY Zenon DEF Written, Durable, Part, Whole

\* Steps that write nothing and do not end close change nothing in WriteBehind.
LEMMA QuietSteps ==
    ASSUME Control,
           \/ \E p \in Proc : GetCache(p)
           \/ \E w \in Writer : Release(w) \/ Quoted(w)
           \/ Tick \/ Receive \/ Stop \/ FlushDone \/ WaitQuote
           \/ (\E k \in Key : GetStart(k)) \/ Get \/ UNCHANGED vars
    PROVE  /\ UNCHANGED <<batch, put, store, deps>>
           /\ pc'[Flusher] = "closed" <=> pc[Flusher] = "closed"
<1>   /\ pc = [q \in Proc |-> pc[q]] /\ Writer \subseteq Proc /\ Flusher \in Proc
      /\ Flusher \notin Writer
  BY Basics, Zenon
<1>1. CASE \E p \in Proc : GetCache(p)
  <2> PICK p \in Proc : GetCache(p)
    BY <1>1, Zenon
  <2>1. /\ UNCHANGED <<batch, store, history>>
        /\ \A q \in Proc \ {p} : pc'[q] = pc[q]
        /\ pc[p] \in Critical \cup {"lock"} /\ pc'[p] \in Critical \cup {"idle", "got"}
    BY GetCacheFrame, Zenon
  <2> QED BY <2>1, Zenon DEF Critical, history
<1>2. CASE \E w \in Writer : Release(w) \/ Quoted(w)
  BY <1>2, Zenon DEF Release, Quoted, Goto, history
<1>3. CASE Tick \/ Receive \/ Stop \/ FlushDone \/ WaitQuote
  BY <1>3, Zenon DEF Tick, Receive, Stop, FlushDone, WaitQuote, Goto, history
<1>4. CASE (\E k \in Key : GetStart(k)) \/ Get \/ UNCHANGED vars
  BY <1>4, Zenon DEF GetStart, Get, GetReadIndex, Walk, GetDone, vars, history
<1> QED BY <1>1, <1>2, <1>3, <1>4, Zenon

\* Initial states map to initial states.
LEMMA InitBehind == Init => Behind!Init
<1> SUFFICES ASSUME Init PROVE Behind!Init
  BY Zenon
<1>1. \A w \in Writer : \A n \in {1, 2} : <<w, n>> \in Key
  BY Zenon DEF Key
<1>2. \A w \in Writer : put[<<w, 1>>] = 0 /\ store[<<w, 1>>] = 0 /\ store[<<w, 2>>] = 0
  BY <1>1, Zenon DEF Init, Empty
<1>3. pc[Flusher] # "closed" /\ ~overtaken
  BY Zenon DEF Init, Proc
<1> QED BY <1>2, <1>3, Zenon DEF Init, Behind!Init, Behind!None

\* Every step maps to a step of WriteBehind or to none.
LEMMA NextBehind == Inv /\ Inv' /\ [Next]_vars => [Behind!Next]_Behind!vars
<1> SUFFICES ASSUME Inv, Inv', [Next]_vars
             PROVE  Behind!Next \/ UNCHANGED <<batch, Written, Durable, deps,
                                               pc[Flusher] = "closed", overtaken>>
  BY Zenon DEF Behind!vars, Written, Durable
<1>1. CASE overtaken'
  BY <1>1, Zenon DEF Behind!Next, Behind!Break
<1>2. CASE ~overtaken'
  <2>0. /\ Control /\ Control' /\ Contents' /\ ~overtaken /\ Contents
    <3>1. overtaken => overtaken'
      BY OvertakenStays, Zenon DEF Inv
    <3> QED BY <1>2, <3>1, Zenon DEF Inv
  <2>1. /\ Durable = [w \in Writer |-> store[Part(w, 1)]]
        /\ Durable' = [w \in Writer |-> store'[Part(w, 1)]]
        /\ Written = [w \in Writer |-> put[Part(w, 1)]]
        /\ Written' = [w \in Writer |-> put'[Part(w, 1)]]
    <3>1. Whole /\ Whole'
      BY <2>0, Zenon DEF Contents
    <3>2. Durable = [w \in Writer |-> store[Part(w, 1)]] /\ Written = [w \in Writer |-> put[Part(w, 1)]]
      BY <3>1, MappedValues, Zenon
    <3>3. /\ Durable' = [w \in Writer |-> store'[Part(w, 1)]]
          /\ Written' = [w \in Writer |-> put'[Part(w, 1)]]
      BY <3>1, Zenon DEF Written, Durable, Part, Whole
    <3> QED BY <3>2, <3>3, Zenon
  <2>2. ASSUME UNCHANGED <<batch, put, store, deps>>,
               pc'[Flusher] = "closed" <=> pc[Flusher] = "closed"
        PROVE  UNCHANGED <<batch, Written, Durable, deps, pc[Flusher] = "closed", overtaken>>
    <3>1. overtaken' = overtaken
      BY <1>2, <2>0, Zenon DEF Control, Types, TypeOK
    <3>2. (pc[Flusher] = "closed")' = (pc[Flusher] = "closed")
      BY <2>2, Zenon
    <3>3. Written' = Written /\ Durable' = Durable
      BY <2>1, <2>2, Zenon
    <3> QED BY <2>2, <3>1, <3>2, <3>3, Zenon
  <2>3. ASSUME NEW w \in Writer, Begin(w)
        PROVE  Behind!Next
    <3>1. /\ batch' = [batch EXCEPT ![w] = @ + 1]
          /\ deps' = [deps EXCEPT ![w] = Append(@, [v \in Writer |-> put[<<v, 1>>]])]
          /\ UNCHANGED <<store, put, overtaken>>
      BY <2>3, Zenon DEF Begin
    <3>2. pc'[Flusher] = pc[Flusher]
      BY <2>0, <2>3, Basics, Zenon DEF Begin, Goto
    <3>3. Behind!Begin(w)
      BY <3>1, <3>2, Zenon DEF Behind!Begin
    <3> QED BY <3>3, Zenon DEF Behind!Next
  <2>4. ASSUME NEW w \in Writer, Put(w)
        PROVE  Behind!Next \/ UNCHANGED <<batch, Written, Durable, deps,
                                           pc[Flusher] = "closed", overtaken>>
    <3>1. PICK n \in {1, 2}, l \in Label : PutKey(w, n, l) /\ pc[w] # "idle"
      BY <2>4, Zenon DEF Put, Label
    <3>2. UNCHANGED <<batch, store, deps, overtaken>> /\ pc'[Flusher] = pc[Flusher]
      BY <2>0, <3>1, Basics, Zenon DEF PutKey, Goto
    <3>3. pc[Flusher] # "closed"
      BY <2>0, <3>1, Zenon DEF Control, Places, Closing
    <3>4. put' = [put EXCEPT ![Part(w, n)] = batch[w]] /\ put \in [Key -> Batch]
      BY <2>0, <3>1, Zenon DEF PutKey, Part, Control, Types, TypeOK
    <3>5. CASE n = 1
      <4>1. Written' = [Written EXCEPT ![w] = batch[w]]
        <5>1. \A v \in Writer : put'[Part(v, 1)] = IF v = w THEN batch[w] ELSE put[Part(v, 1)]
          BY <3>4, <3>5, Keys, Zenon
        <5> QED BY <2>1, <5>1, Zenon
      <4>2. Behind!Write(w)
        BY <3>2, <3>3, <4>1, Zenon DEF Behind!Write, Written
      <4> QED BY <4>2, Zenon DEF Behind!Next
    <3>6. CASE n = 2
      <4>1. \A v \in Writer : put'[Part(v, 1)] = put[Part(v, 1)]
        BY <3>4, <3>6, Keys
      <4>2. Written' = Written /\ Durable' = Durable
        BY <2>1, <3>2, <4>1, Zenon
      <4> QED BY <3>2, <4>2, Zenon
    <3> QED BY <3>5, <3>6, Zenon
  <2>5. CASE Dump \/ Purge
    <3>1. CASE Done
      <4>1. UNCHANGED <<batch, put, store, deps, overtaken>> /\ pc[Flusher] # "closed"
        BY <2>0, <2>5, <3>1, FlushSteps, Zenon DEF Done
      <4>2. Written' = Written /\ Durable' = Durable
        BY <2>1, <4>1, Zenon
      <4>3. CASE pc'[Flusher] # "closed"
        BY <4>1, <4>2, <4>3, Zenon
      <4>4. CASE pc'[Flusher] = "closed"
        <5>1. store' = put'
          <6>1. CloseLosesNothing'
            BY CloseInv, PTL
          <6> QED BY <1>2, <4>4, <6>1, Zenon DEF CloseLosesNothing
        <5>2. Durable = Written
          BY <2>1, <4>1, <5>1, Zenon
        <5>3. Behind!Close
          BY <4>1, <4>2, <4>4, <5>2, Zenon DEF Behind!Close, Written, Durable
        <5> QED BY <5>3, Zenon DEF Behind!Next
      <4> QED BY <4>3, <4>4, Zenon
    <3>2. CASE ~Done
      <4>1. /\ pc[Flusher] = "dump" /\ pc' = [pc EXCEPT ![Flusher] = "purge"]
            /\ store' = [k \in Key |-> IF caches[flushing][k] # 0
                                       THEN caches[flushing][k] ELSE store[k]]
            /\ UNCHANGED <<caches, put, readIndex, writeIndex, flushing, target, batch, deps>>
            /\ UNCHANGED overtaken
        BY <2>0, <2>5, <3>2, FlushSteps, Zenon
      <4>2. \A k \in Key : store[k] <= store'[k]
        BY <2>0, <4>1, DumpContents, Zenon
      <4>3. pc'[Flusher] = "purge"
        BY <2>0, <4>1, Basics
      <4>4. /\ store' \in [Key -> Batch] /\ \A w \in Writer : Part(w, 1) \in Key
            /\ \A k \in Key : store'[k] \in Nat /\ store[k] \in Nat /\ put[k] \in Nat
            /\ \A k \in Key : store'[k] <= put[k]
        BY <2>0, <4>1, Basics, Keys, BoundAssumption
        DEF Control, Types, TypeOK, Batch, Contents, Order
      <4>5. Durable' \in [Writer -> Batch]
        BY <2>1, <4>4, Zenon
      <4>6. \A w \in Writer : Durable'[w] \in Durable[w] .. Written[w]
        BY <2>1, <4>2, <4>4
      <4>7. \A v, w \in Writer : Durable'[w] > 0 => Durable'[v] >= deps[w][Durable'[w]][v]
        <5> TAKE v, w \in Writer
        <5>1. store'[Part(w, 1)] # 0 => deps[w][store'[Part(w, 1)]][v] <= store'[Part(v, 1)]
          BY <2>0, <4>1, Zenon DEF Contents, Rests
        <5>2. Durable'[w] = store'[Part(w, 1)] /\ Durable'[v] = store'[Part(v, 1)]
          BY <2>1, Zenon
        <5>3. store'[Part(w, 1)] \in Nat /\ store'[Part(v, 1)] \in Nat
          BY <4>4, Zenon
        <5>4. store'[Part(w, 1)] # 0 => deps[w][store'[Part(w, 1)]][v] \in Nat
          <6> SUFFICES ASSUME store'[Part(w, 1)] # 0
                       PROVE  deps[w][store'[Part(w, 1)]][v] \in Nat
            BY Zenon
          <6>1. put[Part(w, 1)] <= batch[w] /\ batch[w] \in Nat
            BY <2>0, Keys, Basics, Zenon DEF Contents, Order
          <6>2. store'[Part(w, 1)] \in 1 .. batch[w]
            BY <4>4, <6>1
          <6> QED BY <2>0, <6>2, Basics, Zenon
        <5> QED BY <5>1, <5>2, <5>3, <5>4
      <4>8. Behind!Persist
        <5>1. Written' = Written
          BY <2>1, <4>1, Zenon
        <5> QED
          BY <4>1, <4>3, <4>5, <4>6, <4>7, <5>1, Zenon
          DEF Behind!Persist, Behind!Causal, Behind!Batch, Batch, Written, Durable
      <4> QED BY <4>8, Zenon DEF Behind!Next
    <3> QED BY <3>1, <3>2, Zenon
  <2>6. CASE Crash
    <3>1. put' = store /\ UNCHANGED <<batch, store, deps, overtaken>> /\ pc'[Flusher] = "idle"
      BY <2>6, <2>0, Basics, Zenon DEF Crash, Fresh
    <3>2. Written' = Durable /\ Durable' = Durable
      BY <2>1, <3>1, Zenon
    <3>3. Behind!Crash
      BY <3>1, <3>2, Zenon DEF Behind!Crash, Written, Durable
    <3> QED BY <3>3, Zenon DEF Behind!Next
  <2>7. CASE \/ \E p \in Proc : GetCache(p)
             \/ \E w \in Writer : Release(w) \/ Quoted(w)
             \/ Tick \/ Receive \/ Stop \/ FlushDone \/ WaitQuote
             \/ (\E k \in Key : GetStart(k)) \/ Get \/ UNCHANGED vars
    BY <2>0, <2>2, <2>7, QuietSteps, Zenon
  <2> QED
    BY <2>3, <2>4, <2>5, <2>6, <2>7, Zenon DEF Next, BatchUpdate, Flush, Proc
<1> QED BY <1>1, <1>2, Zenon

\* The ring of caches, with its flusher, its mutex and its lock-free readers,
\* implements WriteBehind: at every moment a crash finds whole batches in the
\* store together with all that was written before they began, and no flush puts
\* an older batch over a newer one, unless a writer was overtaken.
THEOREM RingImplementsWriteBehind == Spec => WritesBehind
<1>1. Init => Behind!Init
  BY InitBehind, Zenon
<1>2. Inv /\ Inv' /\ [Next]_vars => [Behind!Next]_Behind!vars
  BY NextBehind, Zenon
<1> QED BY <1>1, <1>2, InitInv, NextInv, PTL DEF Spec, WritesBehind, Behind!Spec
=============================================================================
