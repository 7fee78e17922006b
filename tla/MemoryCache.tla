---------------------------- MODULE MemoryCache ----------------------------
(***************************************************************************)
(* The write-behind cache of ledger/cache.go, between the ledger and the   *)
(* badger store.                                                           *)
(*                                                                         *)
(* A ring of caches: batches are written to the cache at writeIndex, a     *)
(* flusher goroutine writes the caches after readIndex to the store, in    *)
(* order, and readers look from writeIndex back to readIndex and then in   *)
(* the store.  GetCache moves writeIndex on when the flush interval is     *)
(* over; it and close hold a mutex, nothing else does.                     *)
(*                                                                         *)
(* Every writer owns two keys, which all of its batches write: writers of  *)
(* the same key exclude each other (one processor per account, one mutex   *)
(* per representative).  The values are the numbers of the batches.        *)
(***************************************************************************)
EXTENDS Integers, FiniteSets, Sequences

CONSTANTS
    Writer,       \* goroutines that call BatchUpdate
    CacheCount,   \* caches in the ring (6 in the code)
    MaxBatch,     \* bound: batches per writer
    Load          \* bounds: per execution, the batches of every writer and the keys read

ASSUME CacheCountAssumption == CacheCount \in Nat /\ CacheCount >= 4

Flusher == "flusher"
Proc == Writer \cup {Flusher}
NoProc == "none"

ASSUME WriterAssumption ==
    /\ Writer # {} /\ IsFiniteSet(Writer)
    /\ Flusher \notin Writer /\ NoProc \notin Writer

Slot == 0 .. CacheCount - 1
Key == Writer \X {1, 2}
Batch == 0 .. MaxBatch          \* 0: no value
Empty == [k \in Key |-> 0]

ASSUME BoundAssumption ==
    /\ MaxBatch \in Nat
    /\ Load \subseteq [batches : [Writer -> Batch], gets : SUBSET Key]

VARIABLES
    caches,       \* per slot, the value of every key
    quote,        \* per slot, writers that announced themselves
    writeIndex, readIndex,
    flushChan,    \* number of signals in flushChan
    lock,         \* who holds lc.lock
    pc,           \* where every goroutine is
    target,       \* per writer, the cache GetCache returned
    batch,        \* per writer, the number of its last batch
    flushing,     \* index in flush and close
    store,        \* badger
    reader,       \* one Get
    put,          \* history: the value last written to a key
    deps,         \* history: per batch, the batches that were written when it began
    overtaken,    \* history: a writer was overtaken by GetCache before Quoted
    load          \* the bounds of this execution

ring == <<caches, quote, writeIndex, readIndex, flushChan>>
history == <<put, deps, overtaken, load>>
vars == <<ring, lock, pc, target, batch, flushing, store, reader, history>>

Next1(i) == (i + 1) % CacheCount
Prev1(i) == (i - 1) % CacheCount

TypeOK ==
    /\ caches \in [Slot -> [Key -> Batch]]
    /\ quote \in [Slot -> 0 .. Cardinality(Writer)]
    /\ writeIndex \in Slot /\ readIndex \in Slot /\ flushing \in Slot
    /\ writeIndex = readIndex => pc[Flusher] = "closed"
    /\ flushChan \in 0 .. 2
    /\ lock \in Proc \cup {NoProc}
    /\ pc \in [Proc -> {"idle", "lock", "decide", "rotate", "drain", "advance", "got",
                        "put1", "put2", "release", "flush", "dump", "purge", "closed"}]
    /\ target \in [Writer -> Slot]
    /\ batch \in [Writer -> Batch]
    /\ store \in [Key -> Batch] /\ put \in [Key -> Batch]
    /\ \A w \in Writer : deps[w] \in [1 .. batch[w] -> [Writer -> Batch]]
    /\ reader \in [pc : {"idle", "read", "walk", "done"}, key : Key, index : Slot,
                   read : Slot, since : Batch, value : Batch]
    /\ overtaken \in BOOLEAN
    /\ load \in Load

NoReader == [pc |-> "idle", key |-> CHOOSE k \in Key : TRUE, index |-> 0, read |-> 0,
             since |-> 0, value |-> 0]

\* NewMemoryCache
Fresh ==
    /\ caches' = [i \in Slot |-> Empty]
    /\ quote' = [i \in Slot |-> 0]
    /\ writeIndex' = 1 /\ readIndex' = 0 /\ flushing' = 1
    /\ flushChan' = 0
    /\ lock' = NoProc
    /\ pc' = [p \in Proc |-> "idle"]
    /\ target' = [w \in Writer |-> 1]
    /\ reader' = NoReader

Init ==
    /\ caches = [i \in Slot |-> Empty]
    /\ quote = [i \in Slot |-> 0]
    /\ writeIndex = 1 /\ readIndex = 0 /\ flushing = 1
    /\ flushChan = 0
    /\ lock = NoProc
    /\ pc = [p \in Proc |-> "idle"]
    /\ target = [w \in Writer |-> 1]
    /\ reader = NoReader
    /\ batch = [w \in Writer |-> 0]
    /\ store = Empty /\ put = Empty
    /\ deps = [w \in Writer |-> <<>>]
    /\ overtaken = FALSE
    /\ load \in Load

\* close has been called
Closing ==
    \/ pc[Flusher] = "closed"
    \/ lock = Flusher /\ pc[Flusher] \in {"flush", "dump", "purge"}

Goto(p, l) == pc' = [pc EXCEPT ![p] = l]

-----------------------------------------------------------------------------
(***************************************************************************)
(* GetCache, called by BatchUpdate and by the ticker of flushCache.        *)
(***************************************************************************)
\* BatchUpdate builds its changes in a temporary cache and asks for the cache
\* to copy them to.
Begin(w) ==
    /\ pc[w] = "idle" /\ batch[w] < load.batches[w] /\ ~Closing
    /\ batch' = [batch EXCEPT ![w] = @ + 1]
    /\ deps' = [deps EXCEPT ![w] = Append(@, [v \in Writer |-> put[<<v, 1>>]])]
    /\ Goto(w, "lock")
    /\ UNCHANGED <<ring, lock, target, flushing, store, reader, put, overtaken,
                   load>>

Tick ==
    /\ pc[Flusher] = "idle"
    /\ Goto(Flusher, "lock")
    /\ UNCHANGED <<ring, lock, target, batch, flushing, store, reader, history>>

Lock(p) ==
    /\ pc[p] = "lock" /\ lock = NoProc
    /\ lock' = p
    /\ Goto(p, "decide")
    /\ UNCHANGED <<ring, target, batch, flushing, store, reader, history>>

\* Unlock and return the cache at writeIndex i; the ticker drops the result.
Return(p, i) ==
    /\ lock' = NoProc
    /\ IF p = Flusher
       THEN Goto(p, "idle") /\ UNCHANGED target
       ELSE Goto(p, "got") /\ target' = [target EXCEPT ![p] = i]

\* needsFlush: the interval is not over or nothing was written.
Stay(p) ==
    /\ pc[p] = "decide"
    /\ Return(p, writeIndex)
    /\ UNCHANGED <<ring, batch, flushing, store, reader, history>>

NeedsFlush(p) ==
    /\ pc[p] = "decide" /\ caches[writeIndex] # Empty
    /\ Goto(p, "rotate")
    /\ UNCHANGED <<ring, lock, target, batch, flushing, store, reader, history>>

\* Mutant: the next cache need not have been flushed.
RotateAtOnce(p) ==
    /\ pc[p] = "rotate"
    /\ IF flushChan > 1
       THEN Goto(p, "drain") /\ UNCHANGED flushChan
       ELSE Goto(p, "advance") /\ flushChan' = flushChan + 1
    /\ UNCHANGED <<caches, quote, writeIndex, readIndex, lock, target, batch, flushing,
                   store, reader, history>>

\* Mutant: the flusher is not told.
RotateSilently(p) ==
    /\ pc[p] = "rotate" /\ Next1(writeIndex) # readIndex
    /\ Goto(p, "advance")
    /\ UNCHANGED <<ring, lock, target, batch, flushing, store, reader, history>>

\* Wait, holding the mutex, until the next cache has been flushed, then signal
\* the flusher.  With two signals outstanding one is taken back first.
Rotate(p) ==
    /\ pc[p] = "rotate" /\ Next1(writeIndex) # readIndex
    /\ IF flushChan > 1
       THEN Goto(p, "drain") /\ UNCHANGED flushChan
       ELSE Goto(p, "advance") /\ flushChan' = flushChan + 1
    /\ UNCHANGED <<caches, quote, writeIndex, readIndex, lock, target, batch, flushing,
                   store, reader, history>>

\* The length was read before: the receive blocks if the flusher was faster.
Drain(p) ==
    /\ pc[p] = "drain" /\ flushChan > 0
    /\ Goto(p, "advance")
    /\ UNCHANGED <<ring, lock, target, batch, flushing, store, reader, history>>

\* writeIndex moves after the signal was sent.
Advance(p) ==
    /\ pc[p] = "advance"
    /\ writeIndex' = Next1(writeIndex)
    /\ Return(p, writeIndex')
    /\ UNCHANGED <<caches, quote, readIndex, flushChan, batch, flushing, store, reader,
                   history>>

-----------------------------------------------------------------------------
(***************************************************************************)
(* The rest of BatchUpdate: announce the writer, copy the changes key by   *)
(* key, and take the announcement back.                                    *)
(***************************************************************************)
Quoted(w) ==
    /\ pc[w] = "got"
    /\ Goto(w, "put1")
    /\ quote' = [quote EXCEPT ![target[w]] = @ + 1]
    /\ overtaken' = (overtaken \/ target[w] # writeIndex)
    /\ UNCHANGED <<caches, writeIndex, readIndex, flushChan, lock, target, batch,
                   flushing, store, reader, put, deps, load>>

PutKey(w, part, next) ==
    /\ caches' = [caches EXCEPT ![target[w]][<<w, part>>] = batch[w]]
    /\ put' = [put EXCEPT ![<<w, part>>] = batch[w]]
    /\ Goto(w, next)
    /\ UNCHANGED <<quote, writeIndex, readIndex, flushChan, lock, target, batch,
                   flushing, store, reader, deps, overtaken, load>>

Put(w) ==
    \/ pc[w] = "put1" /\ PutKey(w, 1, "put2")
    \/ pc[w] = "put2" /\ PutKey(w, 2, "release")

\* Mutant: the announcement stays.
ReleaseForgotten(w) ==
    /\ pc[w] = "release"
    /\ Goto(w, "idle")
    /\ UNCHANGED <<ring, lock, target, batch, flushing, store, reader, history>>

Release(w) ==
    /\ pc[w] = "release"
    /\ quote' = [quote EXCEPT ![target[w]] = @ - 1]
    /\ Goto(w, "idle")
    /\ UNCHANGED <<caches, writeIndex, readIndex, flushChan, lock, target, batch,
                   flushing, store, reader, history>>

-----------------------------------------------------------------------------
(***************************************************************************)
(* The flusher: flush on a signal, close when the ledger's context ends.   *)
(* The services that write are stopped before the ledger is closed.        *)
(***************************************************************************)
Receive ==
    /\ pc[Flusher] = "idle" /\ flushChan > 0
    /\ flushChan' = flushChan - 1
    /\ flushing' = Next1(readIndex)
    /\ Goto(Flusher, "flush")
    /\ UNCHANGED <<caches, quote, writeIndex, readIndex, lock, target, batch, store,
                   reader, history>>

Stop ==
    /\ pc[Flusher] = "idle" /\ lock = NoProc
    /\ \A w \in Writer : pc[w] = "idle"
    /\ lock' = Flusher
    /\ flushing' = Next1(readIndex)
    /\ Goto(Flusher, "flush")
    /\ UNCHANGED <<ring, target, batch, store, reader, history>>

\* flush stops before the cache that is written, close after it.
FlushDone ==
    /\ pc[Flusher] = "flush" /\ flushing = writeIndex /\ ~Closing
    /\ Goto(Flusher, "idle")
    /\ UNCHANGED <<ring, lock, target, batch, flushing, store, reader, history>>

\* Mutant: announced writers are not waited for.
QuoteIgnored ==
    /\ pc[Flusher] = "flush" /\ (Closing \/ flushing # writeIndex)
    /\ Goto(Flusher, "dump")
    /\ UNCHANGED <<ring, lock, target, batch, flushing, store, reader, history>>

\* Mutant: close stops where flush does.
CloseLikeFlush ==
    /\ pc[Flusher] = "flush"
    /\ IF flushing # writeIndex
       THEN quote[flushing] = 0 /\ Goto(Flusher, "dump")
       ELSE Closing /\ Goto(Flusher, "closed")
    /\ UNCHANGED <<ring, lock, target, batch, flushing, store, reader, history>>

WaitQuote ==
    /\ pc[Flusher] = "flush" /\ (Closing \/ flushing # writeIndex)
    /\ quote[flushing] = 0
    /\ Goto(Flusher, "dump")
    /\ UNCHANGED <<ring, lock, target, batch, flushing, store, reader, history>>

\* The cache at flushing is done: move readIndex and go on to the next one.
Flushed ==
    /\ readIndex' = flushing
    /\ flushing' = Next1(flushing)
    /\ IF Closing /\ flushing = writeIndex
       THEN Goto(Flusher, "closed") /\ lock' = NoProc
       ELSE Goto(Flusher, "flush") /\ UNCHANGED lock
    /\ UNCHANGED <<quote, writeIndex, flushChan, target, batch, reader, history>>

\* One batch of the store, written in one transaction; nothing to do for an
\* empty cache.
Dump ==
    /\ pc[Flusher] = "dump"
    /\ IF caches[flushing] = Empty
       THEN Flushed /\ UNCHANGED <<caches, store>>
       ELSE /\ store' = [k \in Key |-> IF caches[flushing][k] # 0
                                       THEN caches[flushing][k] ELSE store[k]]
            /\ Goto(Flusher, "purge")
            /\ UNCHANGED <<ring, lock, target, batch, flushing, reader, history>>

\* Mutant: the cache is not emptied.
PurgeNothing ==
    /\ pc[Flusher] = "purge"
    /\ Flushed
    /\ UNCHANGED <<caches, store>>

Purge ==
    /\ pc[Flusher] = "purge"
    /\ Flushed
    /\ caches' = [caches EXCEPT ![flushing] = Empty]
    /\ UNCHANGED store

-----------------------------------------------------------------------------
(***************************************************************************)
(* Get, which takes no lock.                                               *)
(***************************************************************************)
GetStart(k) ==
    /\ k \in load.gets /\ reader.pc = "idle"
    /\ reader' = [NoReader EXCEPT !.pc = "read", !.key = k, !.since = put[k],
                                  !.index = writeIndex]
    /\ UNCHANGED <<ring, lock, pc, target, batch, flushing, store, history>>

GetReadIndex ==
    /\ reader.pc = "read"
    /\ reader' = [reader EXCEPT !.pc = "walk", !.read = readIndex]
    /\ UNCHANGED <<ring, lock, pc, target, batch, flushing, store, history>>

\* Mutant: the oldest cache is looked at first.
WalkUp ==
    /\ reader.pc = "walk"
    /\ reader' =
         IF reader.index = reader.read
         THEN [reader EXCEPT !.pc = "done", !.value = store[reader.key]]
         ELSE IF caches[Next1(reader.read)][reader.key] # 0
              THEN [reader EXCEPT !.pc = "done",
                                  !.value = caches[Next1(reader.read)][reader.key]]
              ELSE [reader EXCEPT !.read = Next1(@)]
    /\ UNCHANGED <<ring, lock, pc, target, batch, flushing, store, history>>

Walk ==
    /\ reader.pc = "walk"
    /\ reader' =
         IF reader.index = reader.read
         THEN [reader EXCEPT !.pc = "done", !.value = store[reader.key]]
         ELSE IF caches[reader.index][reader.key] # 0
              THEN [reader EXCEPT !.pc = "done",
                                  !.value = caches[reader.index][reader.key]]
              ELSE [reader EXCEPT !.index = Prev1(@)]
    /\ UNCHANGED <<ring, lock, pc, target, batch, flushing, store, history>>

GetDone ==
    /\ reader.pc = "done"
    /\ reader' = NoReader
    /\ UNCHANGED <<ring, lock, pc, target, batch, flushing, store, history>>

\* The process ends, at any moment or after close, and starts again.
Crash ==
    /\ Fresh
    /\ put' = store
    /\ UNCHANGED <<batch, store, deps, overtaken, load>>

GetCache(p) ==
    \/ Lock(p) \/ Stay(p) \/ NeedsFlush(p)
    \/ Rotate(p) \/ Drain(p) \/ Advance(p)

BatchUpdate(w) == GetCache(w) \/ Quoted(w) \/ Put(w) \/ Release(w)

Flush == Receive \/ FlushDone \/ WaitQuote \/ Dump \/ Purge

Get == GetReadIndex \/ Walk \/ GetDone

Next ==
    \/ \E w \in Writer : Begin(w) \/ BatchUpdate(w)
    \/ Tick \/ GetCache(Flusher) \/ Flush \/ Stop
    \/ (\E k \in Key : GetStart(k)) \/ Get
    \/ Crash

Spec == Init /\ [][Next]_vars

-----------------------------------------------------------------------------
(***************************************************************************)
(* Safety.  GetCache and Quoted are two steps: a writer stopped between    *)
(* them long enough for GetCache to move on is overtaken, and may write to *)
(* a cache the flusher has finished with.  The properties hold of the      *)
(* executions in which that does not happen; NextCacheIsFlushed shows what *)
(* happens when it does.                                                   *)
(***************************************************************************)
\* The caches readers look at, from writeIndex down to the one after readIndex.
Live(i) == (i - readIndex - 1) % CacheCount <= (writeIndex - readIndex - 1) % CacheCount

\* A cache that GetCache may hand out next holds nothing that was left over: not
\* a value that was flushed before and would shadow a newer one in the store.
FreeCachesAreEmpty ==
    ~overtaken => \A i \in Slot \ {readIndex} : ~Live(i) => caches[i] = Empty

\* Get, which walks the ring without the mutex while writers move writeIndex
\* and the flusher moves readIndex and empties caches, never returns a value
\* older than the one that had been written when it was called.
GetIsFresh ==
    ~overtaken /\ reader.pc = "done" => reader.value >= reader.since

\* After Close everything that was written is in the store.
CloseLosesNothing ==
    ~overtaken /\ pc[Flusher] = "closed" => store = put

\* What the comment in GetCache says of the cache it moves to ("next write cache
\* index must flush done"), here of the moment it does: it holds nothing.
NextCacheIsFlushed ==
    \A p \in Proc : pc[p] = "advance" => caches[Next1(writeIndex)] = Empty

-----------------------------------------------------------------------------
(***************************************************************************)
(* Liveness.  Every goroutine keeps running; the mutex and the select of   *)
(* the flusher are fair; the flush interval passes.                        *)
(***************************************************************************)
Fairness ==
    /\ \A w \in Writer : WF_vars(BatchUpdate(w)) /\ SF_vars(Lock(w))
    /\ WF_vars(Tick \/ GetCache(Flusher) \/ Flush)
    /\ SF_vars(Lock(Flusher)) /\ SF_vars(Tick) /\ SF_vars(Receive)
    /\ SF_vars(NeedsFlush(Flusher))

FairSpec == Spec /\ Fairness

\* Nobody can move any more: the holder of the mutex waits for a signal that the
\* flusher has taken, or for a cache that only a flusher waiting for the mutex,
\* or for itself, would flush.
Stalled ==
    \E p \in Proc :
      \/ pc[p] = "drain" /\ flushChan = 0
      \/ /\ pc[p] = "rotate" /\ Next1(writeIndex) = readIndex
         /\ pc[Flusher] \in {"lock", "rotate"}

\* Every BatchUpdate ends, unless the ring is full or the signals are taken back
\* at the one moment in which GetCache cannot go on.
BatchesEnd ==
    \A w \in Writer : pc[w] # "idle" ~> pc[w] = "idle" \/ Stalled

\* What is written is stored, without a clean stop, even when the flusher takes
\* the signal before GetCache moves writeIndex and finds nothing to flush.
WritesAreStored ==
    \A k \in Key : \A b \in Batch :
      put[k] = b ~> \/ store[k] >= b \/ put[k] < b
                    \/ overtaken \/ Stalled
=============================================================================
