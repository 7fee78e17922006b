----------------------- MODULE MemoryCacheStepProofs -----------------------
(***************************************************************************)
(* The inductive invariant of MemoryCache, and what each step of the       *)
(* writers, the flusher and the readers does to it, for any number of      *)
(* writers, caches and batches per writer.                                 *)
(*                                                                         *)
(* The invariant has three parts.  Control says where the goroutines and   *)
(* the two indices can be; it holds of every execution.  Contents says how *)
(* the caches, the store and the history fit together, and Reading what a  *)
(* reader on its way through the ring can count on; these two hold as long *)
(* as no writer was overtaken.                                             *)
(***************************************************************************)
EXTENDS MemoryCache, TLAPS

Critical == {"decide", "rotate", "drain", "advance"}
Putting == {"put1", "put2", "release"}
Flushing == {"flush", "dump", "purge"}

\* Steps up the ring from slot a to slot b.
Up(a, b) == IF a <= b THEN b - a ELSE b - a + CacheCount

\* The writers that announced themselves for slot i.
Announced(i) == {w \in Writer : pc[w] \in Putting /\ target[w] = i}

\* Types, with what they do not say of the sequences deps.
Types ==
    /\ TypeOK
    /\ deps \in [Writer -> Seq([Writer -> Batch])]
    /\ \A w \in Writer : Len(deps[w]) = batch[w]

\* Who can be where, and where the indices are then.
Places ==
    /\ \A w \in Writer : pc[w] \notin Flushing \cup {"closed"}
    /\ pc[Flusher] \notin Putting \cup {"got"}
    /\ \A p \in Proc : pc[p] \in Critical => lock = p
    /\ lock = Flusher => pc[Flusher] \in Critical \cup Flushing
    /\ Closing => \A w \in Writer : pc[w] = "idle"
    /\ pc[Flusher] \in Flushing => flushing = Next1(readIndex)
    /\ pc[Flusher] \in {"dump", "purge"} => Closing \/ flushing # writeIndex
    /\ pc[Flusher] = "closed" <=> writeIndex = readIndex
    /\ \A p \in Proc : pc[p] \in {"drain", "advance"} => Next1(writeIndex) # readIndex

Control ==
    /\ Types /\ Places
    /\ \A i \in Slot : quote[i] = Cardinality(Announced(i))

\* The keys of a writer, and the writer of a key.
Part(w, n) == <<w, n>>
Owner(k) == k[1]

\* Only the caches above readIndex, up to writeIndex, hold anything.
Free ==
    \A i \in Slot :
      i = readIndex \/ Up(readIndex, i) > Up(readIndex, writeIndex) => caches[i] = Empty

\* An announced writer writes to a cache the flusher has not come to, above
\* which there is nothing of its own.
Targets ==
    \A w \in Writer : pc[w] \in Putting =>
      /\ target[w] # readIndex
      /\ Up(readIndex, target[w]) <= Up(readIndex, writeIndex)
      /\ pc[Flusher] \in {"dump", "purge"} => target[w] # flushing
      /\ \A n \in {1, 2} : \A j \in Slot :
           Up(readIndex, j) > Up(readIndex, target[w]) => caches[j][Part(w, n)] = 0

\* Values grow from the store up the ring, to the one last written ...
Order ==
    /\ \A k \in Key : \A i, j \in Slot :
         Up(readIndex, i) <= Up(readIndex, j) /\ caches[j][k] # 0
           => caches[i][k] <= caches[j][k]
    /\ \A k \in Key : \A i \in Slot :
         caches[i][k] # 0 => store[k] <= caches[i][k] /\ caches[i][k] <= put[k]
    /\ \A k \in Key : store[k] <= put[k] /\ put[k] <= batch[Owner(k)]
    /\ pc[Flusher] = "purge" =>
         \A k \in Key : caches[flushing][k] # 0 => store[k] = caches[flushing][k]

\* ... which is there.
Newest ==
    \A k \in Key : put[k] = store[k] \/ \E i \in Slot : caches[i][k] = put[k]

\* A batch is in the store, and in a cache, with both of its keys; in the cache
\* it is being copied to it may be with the first one only.
Whole ==
    /\ \A w \in Writer : store[Part(w, 1)] = store[Part(w, 2)]
    /\ \A w \in Writer : \A i \in Slot :
         \/ caches[i][Part(w, 1)] = caches[i][Part(w, 2)]
         \/ pc[w] = "put2" /\ target[w] = i
    /\ \A w \in Writer : pc[w] = "put2" => caches[target[w]][Part(w, 1)] = batch[w]

\* Batch x of writer v, or a later one, is in the store s or in a cache of c that
\* is no higher than i, seen from r.
Covered(c, s, r, i, v, x) ==
    \/ x <= s[Part(v, 1)]
    \/ \E j \in Slot : Up(r, j) <= Up(r, i) /\ x <= c[j][Part(v, 1)]

\* What a batch rests on reaches the store before it or with it.
Rests ==
    \A w, v \in Writer :
      /\ pc[w] # "idle" => batch[w] > 0 /\ deps[w][batch[w]][v] <= put[Part(v, 1)]
      /\ pc[w] \in Putting =>
           Covered(caches, store, readIndex, target[w], v, deps[w][batch[w]][v])
      /\ \A i \in Slot : caches[i][Part(w, 1)] # 0 =>
           Covered(caches, store, readIndex, i, v, deps[w][caches[i][Part(w, 1)]][v])
      /\ store[Part(w, 1)] # 0 => deps[w][store[Part(w, 1)]][v] <= store[Part(v, 1)]

Contents == Free /\ Targets /\ Order /\ Newest /\ Whole /\ Rests

\* The reader can still find what it looks for in cache j.
Ahead(j) ==
    /\ caches[j][reader.key] # 0 /\ reader.since <= caches[j][reader.key]
    /\ reader.pc = "read" => Up(readIndex, j) <= Up(readIndex, reader.index)
    /\ reader.pc = "walk" => /\ Up(reader.read, readIndex) <= Up(reader.read, j)
                             /\ Up(reader.read, j) <= Up(reader.read, reader.index)

Reading ==
    /\ reader.pc = "done" => reader.since <= reader.value
    /\ reader.pc \in {"read", "walk"} =>
         reader.since <= store[reader.key] \/ \E j \in Slot : Ahead(j)

Inv == Control /\ (~overtaken => Contents /\ Reading)


-----------------------------------------------------------------------------
(***************************************************************************)
(* The ring.                                                               *)
(***************************************************************************)
\* The indices of the code, without remainders.
LEMMA RingSteps ==
    ASSUME NEW i \in Slot
    PROVE  /\ Next1(i) = IF i = CacheCount - 1 THEN 0 ELSE i + 1
           /\ Prev1(i) = IF i = 0 THEN CacheCount - 1 ELSE i - 1
           /\ Next1(i) \in Slot /\ Prev1(i) \in Slot
<1>1. CacheCount \in Nat /\ CacheCount >= 4 /\ i \in Int /\ 0 <= i /\ i <= CacheCount - 1
  BY CacheCountAssumption DEF Slot
<1>2. \A n \in Nat \ {0} : n % n = 0
  BY SMT
<1>3. \A n \in Nat \ {0} : \A x \in (0 - n) .. (0 - 1) : x % n = x + n
  BY SMT
<1>4. \A n \in Nat \ {0} : \A x \in 0 .. n - 1 : x % n = x
  BY SMT
<1>5. Next1(i) = IF i = CacheCount - 1 THEN 0 ELSE i + 1
  BY <1>1, <1>2, <1>4 DEF Next1
<1>6. Prev1(i) = IF i = 0 THEN CacheCount - 1 ELSE i - 1
  <2>1. CASE i = 0
    <3>1. i - 1 \in (0 - CacheCount) .. (0 - 1) /\ i - 1 + CacheCount = CacheCount - 1
      BY <1>1, <2>1
    <3> QED BY <1>1, <1>3, <2>1, <3>1 DEF Prev1
  <2>2. CASE i # 0
    <3>1. i - 1 \in 0 .. CacheCount - 1
      BY <1>1, <2>2
    <3> QED BY <1>1, <1>4, <2>2, <3>1 DEF Prev1
  <2> QED BY <2>1, <2>2, Zenon
<1> QED BY <1>1, <1>5, <1>6 DEF Slot

\* Where a slot is, seen from readIndex.
LEMMA RingUp ==
    ASSUME NEW a \in Slot, NEW b \in Slot
    PROVE  /\ Up(a, b) \in Nat /\ Up(a, b) < CacheCount
           /\ Up(a, b) = 0 <=> a = b
           /\ Up(a, Next1(a)) = 1
           /\ a # b => Up(Next1(a), b) = Up(a, b) - 1
           /\ a # b => Up(a, Prev1(b)) = Up(a, b) - 1
           /\ a # Next1(b) => Up(a, Next1(b)) = Up(a, b) + 1
BY CacheCountAssumption, RingSteps, SMT DEF Up, Slot

\* Distances from one slot tell slots apart.
LEMMA RingSame ==
    ASSUME NEW a \in Slot, NEW b \in Slot, NEW c \in Slot, Up(a, b) = Up(a, c)
    PROVE  b = c
BY CacheCountAssumption, SMT DEF Up, Slot

\* Who is not behind r and not at r is not behind the next slot.
LEMMA RingPast ==
    ASSUME NEW a \in Slot, NEW r \in Slot, NEW j \in Slot, j # r, Up(a, r) <= Up(a, j)
    PROVE  Up(a, Next1(r)) <= Up(a, j)
BY CacheCountAssumption, RingSteps, SMT DEF Up, Slot

\* Live is what lies above readIndex, up to writeIndex.
LEMMA RingLive ==
    ASSUME NEW i \in Slot, writeIndex \in Slot, readIndex \in Slot,
           i # readIndex, ~Live(i)
    PROVE  Up(readIndex, i) > Up(readIndex, writeIndex)
<1>1. CacheCount \in Nat /\ CacheCount >= 4
  BY CacheCountAssumption, Zenon
<1>2. \A n \in Nat \ {0} : \A x \in 0 .. n - 1 : x % n = x
  BY SMT
<1>3. \A n \in Nat \ {0} : \A x \in (0 - n) .. (0 - 1) : x % n = x + n
  BY SMT
<1>4. \A j \in Slot : (j - readIndex - 1) % CacheCount
                        = IF j = readIndex THEN CacheCount - 1 ELSE Up(readIndex, j) - 1
  <2> TAKE j \in Slot
  <2>1. CASE j - readIndex - 1 >= 0
    BY <1>1, <1>2, <2>1 DEF Slot, Up
  <2>2. CASE j - readIndex - 1 < 0
    BY <1>1, <1>3, <2>2 DEF Slot, Up
  <2> QED BY <1>1, <2>1, <2>2 DEF Slot
<1>5. CASE writeIndex = readIndex
  BY <1>1, <1>4, <1>5 DEF Live, Slot, Up
<1>6. CASE writeIndex # readIndex
  BY <1>1, <1>4, <1>6 DEF Live, Slot, Up
<1> QED BY <1>5, <1>6, Zenon

-----------------------------------------------------------------------------
(***************************************************************************)
(* Control.                                                                *)
(***************************************************************************)
\* GetCache, whoever calls it, changes the state of its caller only.
LEMMA GetCacheFrame ==
    ASSUME Control, NEW p \in Proc, GetCache(p)
    PROVE  /\ UNCHANGED <<caches, quote, readIndex, batch, flushing, store, reader, history>>
           /\ \A q \in Proc \ {p} : pc'[q] = pc[q]
           /\ \A w \in Writer \ {p} : target'[w] = target[w]
           /\ pc[p] \in Critical \cup {"lock"}
           /\ pc'[p] \in Critical \cup {"idle", "got"}
           /\ p \in Writer => pc'[p] # "idle"
           /\ p = Flusher => pc'[p] # "got" /\ target' = target
           /\ pc' = [pc EXCEPT ![p] = pc'[p]]
<1>1. pc = [q \in Proc |-> pc[q]] /\ target \in [Writer -> Slot] /\ Writer \subseteq Proc
  BY Zenon DEF Control, Types, TypeOK, Proc
<1>2. Flusher \notin Writer
  BY WriterAssumption, Zenon
<1>3. CASE Lock(p)
  BY <1>1, <1>3, <1>2, Zenon DEF Lock, Goto, Critical, ring, history, Proc
<1>4. CASE Stay(p)
  BY <1>1, <1>4, <1>2, Zenon DEF Stay, Return, Goto, Critical, ring, history, Proc
<1>5. CASE NeedsFlush(p)
  BY <1>1, <1>5, <1>2, Zenon DEF NeedsFlush, Goto, Critical, ring, history, Proc
<1>6. CASE Rotate(p)
  BY <1>1, <1>6, <1>2, Zenon DEF Rotate, Goto, Critical, ring, history, Proc
<1>7. CASE Drain(p)
  BY <1>1, <1>7, <1>2, Zenon DEF Drain, Goto, Critical, ring, history, Proc
<1>8. CASE Advance(p)
  BY <1>1, <1>8, <1>2, Zenon DEF Advance, Return, Goto, Critical, ring, history, Proc
<1> QED BY <1>3, <1>4, <1>5, <1>6, <1>7, <1>8, Zenon DEF GetCache

\* The labels of pc, and the readers, of TypeOK.
Label == {"idle", "lock", "decide", "rotate", "drain", "advance", "got",
          "put1", "put2", "release", "flush", "dump", "purge", "closed"}
Reader == [pc : {"idle", "read", "walk", "done"}, key : Key, index : Slot,
           read : Slot, since : Batch, value : Batch]

\* The reader between two calls.
LEMMA NoReaderType == NoReader \in Reader /\ NoReader.pc = "idle"
<1>1. (CHOOSE k \in Key : TRUE) \in Key
  <2>1. \E k \in Key : TRUE
    <3> PICK w \in Writer : TRUE
      BY WriterAssumption, Zenon
    <3>1. <<w, 1>> \in Key
      BY Zenon DEF Key
    <3> QED BY <3>1, Zenon
  <2> QED BY <2>1, Zenon
<1>2. 0 \in Slot /\ 0 \in Batch
  BY CacheCountAssumption, BoundAssumption DEF Slot, Batch
<1> QED BY <1>1, <1>2, Zenon DEF NoReader, Reader


-----------------------------------------------------------------------------
(***************************************************************************)
(* Contents and Reading, as long as no writer was overtaken.               *)
(***************************************************************************)
\* Keys.
LEMMA Keys ==
    /\ \A w \in Writer : \A n \in {1, 2} : Part(w, n) \in Key /\ Owner(Part(w, n)) = w
    /\ \A k \in Key : Owner(k) \in Writer /\ \E n \in {1, 2} : k = Part(Owner(k), n)
    /\ \A v, w \in Writer : \A m, n \in {1, 2} : Part(v, m) = Part(w, n) => v = w /\ m = n
BY DEF Part, Owner, Key

\* The types the proofs below keep using.
LEMMA Basics ==
    ASSUME Control
    PROVE  /\ \A i \in Slot : \A k \in Key : caches[i][k] \in Nat
           /\ \A k \in Key : store[k] \in Nat /\ put[k] \in Nat
           /\ \A w \in Writer : batch[w] \in Nat /\ target[w] \in Slot
           /\ \A w, v \in Writer : \A b \in 1 .. batch[w] : deps[w][b][v] \in Nat
           /\ writeIndex \in Slot /\ readIndex \in Slot /\ flushing \in Slot
           /\ reader.key \in Key /\ reader.index \in Slot /\ reader.read \in Slot
           /\ reader.since \in Nat /\ reader.value \in Nat
           /\ pc \in [Proc -> Label] /\ Flusher \in Proc /\ Writer \subseteq Proc
           /\ Flusher \notin Writer
<1>1. TypeOK
  BY Zenon DEF Control, Types
<1>2. Batch \subseteq Nat
  BY BoundAssumption DEF Batch
<1>3. /\ \A i \in Slot : \A k \in Key : caches[i][k] \in Batch
      /\ \A k \in Key : store[k] \in Batch /\ put[k] \in Batch
      /\ \A w \in Writer : batch[w] \in Batch /\ target[w] \in Slot
  BY <1>1, Zenon DEF TypeOK
<1>4. \A w, v \in Writer : \A b \in 1 .. batch[w] : deps[w][b][v] \in Batch
  <2> TAKE w, v \in Writer
  <2>1. deps[w] \in [1 .. batch[w] -> [Writer -> Batch]]
    BY <1>1, Zenon DEF TypeOK
  <2> QED BY <2>1, Zenon
<1>5. /\ writeIndex \in Slot /\ readIndex \in Slot /\ flushing \in Slot
      /\ reader.key \in Key /\ reader.index \in Slot /\ reader.read \in Slot
      /\ reader.since \in Batch /\ reader.value \in Batch
  BY <1>1, Zenon DEF TypeOK
<1>6. pc \in [Proc -> Label]
  BY <1>1, Zenon DEF TypeOK, Label
<1> QED BY <1>2, <1>3, <1>4, <1>5, <1>6, WriterAssumption, Zenon DEF Proc

\* What a step does that moves goroutines, and perhaps writeIndex, but no data.
Moves ==
    /\ UNCHANGED <<caches, store, put, batch, deps, readIndex>>
    /\ \/ writeIndex' = writeIndex
       \/ writeIndex' = Next1(writeIndex) /\ writeIndex' # readIndex
    /\ \A w \in Writer : pc'[w] \in Putting => pc[w] \in Putting /\ target'[w] = target[w]
    /\ \A w \in Writer : /\ pc[w] = "put2" <=> pc'[w] = "put2"
                         /\ pc[w] = "put2" => target'[w] = target[w]
    /\ \A w \in Writer : pc'[w] # "idle" => pc[w] # "idle"
    /\ pc'[Flusher] \in {"dump", "purge"} =>
         \/ pc[Flusher] \in {"dump", "purge"} /\ flushing' = flushing
         \/ \A w \in Writer : pc'[w] \in Putting => target'[w] # flushing'
    /\ pc'[Flusher] = "purge" => pc[Flusher] = "purge" /\ flushing' = flushing

\* Such a step keeps Contents.
LEMMA MovesContents ==
    ASSUME Control, Contents, Moves
    PROVE  Contents'
<1>0. writeIndex \in Slot /\ readIndex \in Slot /\ \A w \in Writer : target[w] \in Slot
  BY Basics, Zenon
<1>1. /\ \A i \in Slot : Up(readIndex, i) \in Nat
      /\ Up(readIndex, writeIndex') >= Up(readIndex, writeIndex)
      /\ Up(readIndex, writeIndex') \in Nat /\ Up(readIndex, writeIndex) \in Nat
  BY <1>0, RingUp, RingSteps DEF Moves
<1>2. Free'
  BY <1>0, <1>1 DEF Contents, Free, Moves
<1>3. Targets'
  <2> SUFFICES ASSUME NEW w \in Writer, pc'[w] \in Putting
               PROVE  /\ target'[w] # readIndex'
                      /\ Up(readIndex, target[w]) <= Up(readIndex, writeIndex')
                      /\ pc'[Flusher] \in {"dump", "purge"} => target'[w] # flushing'
                      /\ \A n \in {1, 2} : \A j \in Slot :
                           Up(readIndex, j) > Up(readIndex, target[w]) => caches[j][Part(w, n)] = 0
    BY Zenon DEF Targets, Moves
  <2>1. pc[w] \in Putting /\ target'[w] = target[w] /\ readIndex' = readIndex
    BY Zenon DEF Moves
  <2>2. /\ target[w] # readIndex
        /\ Up(readIndex, target[w]) <= Up(readIndex, writeIndex)
        /\ pc[Flusher] \in {"dump", "purge"} => target[w] # flushing
        /\ \A n \in {1, 2} : \A j \in Slot :
             Up(readIndex, j) > Up(readIndex, target[w]) => caches[j][Part(w, n)] = 0
    BY <2>1, Zenon DEF Contents, Targets
  <2>3. Up(readIndex, target[w]) \in Nat
    BY <1>0, <1>1, Zenon
  <2>4. Up(readIndex, target[w]) <= Up(readIndex, writeIndex')
    BY <1>1, <2>2, <2>3
  <2>5. pc'[Flusher] \in {"dump", "purge"} => target'[w] # flushing'
    BY <2>1, <2>2, Zenon DEF Moves
  <2> QED BY <2>1, <2>2, <2>4, <2>5, Zenon
<1>4. Order' /\ Newest' /\ Whole'
  BY DEF Contents, Order, Newest, Whole, Moves
<1>5. Rests'
  BY DEF Contents, Rests, Covered, Moves
<1> QED BY <1>2, <1>3, <1>4, <1>5, Zenon DEF Contents

\* GetCache, the release of a writer, and the flusher between two caches.
LEMMA WaitsMove ==
    ASSUME Control,
           \/ \E p \in Proc : GetCache(p)
           \/ \E w \in Writer : Release(w)
           \/ Tick \/ Receive \/ Stop \/ FlushDone \/ WaitQuote,
           WaitQuote => Announced(flushing) = {}
    PROVE  Moves /\ UNCHANGED <<overtaken, reader>>
<1> USE DEF Putting
<1>   /\ pc = [q \in Proc |-> pc[q]] /\ Writer \subseteq Proc /\ Flusher \in Proc
      /\ Flusher \notin Writer
  BY Basics, Zenon
<1>1. ASSUME NEW p \in Proc, GetCache(p)
      PROVE  Moves /\ UNCHANGED <<overtaken, reader>>
  <2>1. /\ UNCHANGED <<caches, readIndex, batch, flushing, store, reader, history>>
        /\ \A q \in Proc \ {p} : pc'[q] = pc[q]
        /\ \A w \in Writer \ {p} : target'[w] = target[w]
        /\ pc[p] \in Critical \cup {"lock"}
        /\ pc'[p] \in Critical \cup {"idle", "got"}
    BY <1>1, GetCacheFrame, Zenon
  <2>2. \/ writeIndex' = writeIndex
        \/ writeIndex' = Next1(writeIndex) /\ writeIndex' # readIndex
    <3>1. CASE Advance(p)
      BY <3>1, Zenon DEF Advance, Control, Places
    <3>2. CASE Lock(p) \/ Stay(p) \/ NeedsFlush(p) \/ Drain(p)
      BY <3>2, Zenon DEF Lock, Stay, NeedsFlush, Drain, ring
    <3>3. CASE Rotate(p)
      BY <3>3, Zenon DEF Rotate
    <3> QED BY <1>1, <3>1, <3>2, <3>3, Zenon DEF GetCache
  <2> QED BY <2>1, <2>2, Zenon DEF Moves, Critical, history
<1>2. ASSUME NEW w \in Writer, Release(w)
      PROVE  Moves /\ UNCHANGED <<overtaken, reader>>
  BY <1>2, Zenon DEF Release, Goto, history, Moves
<1>3. CASE Tick \/ Receive \/ Stop \/ FlushDone
  BY <1>3, Zenon DEF Tick, Receive, Stop, FlushDone, Goto, ring, history, Moves
<1>4. CASE WaitQuote
  <2>1. Announced(flushing) = {}
    BY <1>4, Zenon
  <2>2. \A w \in Writer : pc'[w] \in Putting => target'[w] # flushing'
    BY <1>4, <2>1, Zenon DEF WaitQuote, Goto, Announced
  <2> QED BY <1>4, <2>2, Zenon DEF WaitQuote, Goto, ring, history, Moves
<1> QED BY <1>1, <1>2, <1>3, <1>4, Zenon

\* A writer announces itself for the cache at writeIndex.
LEMMA QuotedContents ==
    ASSUME Control, Contents, NEW w \in Writer, Quoted(w), ~overtaken'
    PROVE  Contents'
<1> USE DEF Putting
<1>   /\ pc = [q \in Proc |-> pc[q]] /\ Writer \subseteq Proc /\ Flusher \in Proc
      /\ Flusher \notin Writer /\ writeIndex \in Slot /\ readIndex \in Slot
      /\ \A i \in Slot : Up(readIndex, i) \in Nat
      /\ Empty = [k \in Key |-> 0]
      /\ \A v \in Writer : \A n \in {1, 2} : Part(v, n) \in Key
  BY Basics, Keys, RingUp, Zenon DEF Empty
<1>1. /\ UNCHANGED <<caches, store, put, batch, deps, readIndex, writeIndex, flushing, target>>
      /\ pc[w] = "got" /\ pc'[w] = "put1" /\ target[w] = writeIndex
      /\ \A q \in Proc : q # w => pc'[q] = pc[q]
  BY Zenon DEF Quoted, Goto
<1>2. ~Closing /\ writeIndex # readIndex
  BY <1>1, Zenon DEF Control, Places, Closing
<1>3. Free' /\ Newest' /\ Order' /\ Whole'
  BY <1>1 DEF Contents, Free, Newest, Order, Whole
<1>4. Targets'
  <2>1. /\ pc[Flusher] \in {"dump", "purge"} => target[w] # flushing
        /\ \A n \in {1, 2} : \A j \in Slot :
             Up(readIndex, j) > Up(readIndex, target[w]) => caches[j][Part(w, n)] = 0
    BY <1>1, <1>2 DEF Contents, Free, Control, Places
  <2> QED BY <1>1, <1>2, <2>1 DEF Contents, Targets
<1>5. \A v \in Writer : Covered(caches, store, readIndex, writeIndex, v, deps[w][batch[w]][v])
  <2> TAKE v \in Writer
  <2>1. batch[w] > 0 /\ deps[w][batch[w]][v] <= put[Part(v, 1)]
    BY <1>1, Zenon DEF Contents, Rests
  <2>2. CASE put[Part(v, 1)] = store[Part(v, 1)]
    BY <2>1, <2>2, Zenon DEF Covered
  <2>3. CASE put[Part(v, 1)] # store[Part(v, 1)]
    <3>1. PICK i \in Slot : caches[i][Part(v, 1)] = put[Part(v, 1)]
      BY <2>3, Zenon DEF Contents, Newest
    <3>2. caches[i] # Empty
      BY <2>3, <3>1, Basics DEF Contents, Order
    <3>3. Up(readIndex, i) <= Up(readIndex, writeIndex)
      BY <3>2 DEF Contents, Free
    <3> QED BY <2>1, <3>1, <3>3, Zenon DEF Covered
  <2> QED BY <2>2, <2>3, Zenon
<1>6. Rests'
  BY <1>1, <1>5 DEF Contents, Rests, Covered
<1> QED BY <1>3, <1>4, <1>6, Zenon DEF Contents

\* A batch begins.
LEMMA BeginContents ==
    ASSUME Control, Contents, NEW w \in Writer, Begin(w)
    PROVE  Contents'
<1> USE DEF Putting
<1>   /\ pc = [q \in Proc |-> pc[q]] /\ Writer \subseteq Proc /\ Flusher \in Proc
      /\ Flusher \notin Writer
      /\ \A v \in Writer : Part(v, 1) \in Key /\ Owner(Part(v, 1)) = v /\ batch[v] \in Nat
      /\ \A k \in Key : Owner(k) \in Writer /\ store[k] \in Nat /\ put[k] \in Nat
      /\ \A i \in Slot : \A k \in Key : caches[i][k] \in Nat
  BY Basics, Keys, Zenon
<1>1. /\ UNCHANGED <<caches, store, put, readIndex, writeIndex, flushing, target>>
      /\ pc[w] = "idle" /\ pc'[w] = "lock"
      /\ \A q \in Proc : q # w => pc'[q] = pc[q]
  BY Zenon DEF Begin, Goto, ring
<1>2. /\ batch'[w] = batch[w] + 1 /\ \A v \in Writer : v # w => batch'[v] = batch[v]
  BY Zenon DEF Begin, Control, Types, TypeOK
<1>3. /\ \A v \in Writer : v # w => deps'[v] = deps[v]
      /\ \A b \in 1 .. batch[w] : deps'[w][b] = deps[w][b]
      /\ \A v \in Writer : deps'[w][batch'[w]][v] = put[Part(v, 1)]
  <2> DEFINE d == [v \in Writer |-> put[Part(v, 1)]]
  <2>1. deps[w] \in Seq([Writer -> Batch]) /\ Len(deps[w]) = batch[w] /\ d \in [Writer -> Batch]
    BY Zenon DEF Control, Types, TypeOK, Part, Key
  <2>2. deps' = [deps EXCEPT ![w] = Append(@, d)] /\ deps \in [Writer -> Seq([Writer -> Batch])]
    BY Zenon DEF Begin, Control, Types, Part
  <2> HIDE DEF d
  <2>3. /\ \A b \in 1 .. batch[w] : Append(deps[w], d)[b] = deps[w][b]
        /\ Append(deps[w], d)[batch[w] + 1] = d
    BY <2>1
  <2>4. deps'[w] = Append(deps[w], d)
    BY <2>2, Zenon
  <2> QED BY <1>2, <2>2, <2>3, <2>4, Zenon DEF d
<1>4. Free' /\ Newest' /\ Targets' /\ Whole'
  BY <1>1, <1>2 DEF Contents, Free, Newest, Targets, Whole
<1>5. Order'
  <2>1. \A v \in Writer : batch[v] <= batch'[v] /\ batch'[v] \in Nat
    BY <1>2
  <2>2. \A k \in Key : put[k] <= batch'[Owner(k)]
    BY <2>1 DEF Contents, Order
  <2> QED BY <1>1, <2>2, Zenon DEF Contents, Order
<1>6. Rests'
  <2>1. \A v \in Writer : \A b \in 1 .. batch[v] : deps'[v][b] = deps[v][b]
    BY <1>3, Zenon
  <2>2. /\ \A v \in Writer : \A i \in Slot :
             caches[i][Part(v, 1)] # 0 => caches[i][Part(v, 1)] \in 1 .. batch[v]
        /\ \A v \in Writer : store[Part(v, 1)] # 0 => store[Part(v, 1)] \in 1 .. batch[v]
    <3> SUFFICES ASSUME NEW v \in Writer
                 PROVE  /\ \A i \in Slot : caches[i][Part(v, 1)] # 0
                                             => caches[i][Part(v, 1)] \in 1 .. batch[v]
                        /\ store[Part(v, 1)] # 0 => store[Part(v, 1)] \in 1 .. batch[v]
      BY Zenon
    <3>1. Owner(Part(v, 1)) = v /\ Part(v, 1) \in Key
      BY Zenon
    <3>2. put[Part(v, 1)] <= batch[v] /\ store[Part(v, 1)] <= put[Part(v, 1)]
      BY <3>1, Zenon DEF Contents, Order
    <3>3. \A i \in Slot : caches[i][Part(v, 1)] # 0 => caches[i][Part(v, 1)] <= put[Part(v, 1)]
      BY <3>1, Zenon DEF Contents, Order
    <3> QED BY <3>1, <3>2, <3>3
  <2> SUFFICES ASSUME NEW u \in Writer, NEW v \in Writer
      PROVE /\ pc'[u] # "idle" => batch'[u] > 0 /\ deps'[u][batch'[u]][v] <= put[Part(v, 1)]
            /\ pc'[u] \in Putting =>
                 Covered(caches, store, readIndex, target[u], v, deps'[u][batch'[u]][v])
            /\ \A i \in Slot : caches[i][Part(u, 1)] # 0 =>
                 Covered(caches, store, readIndex, i, v, deps'[u][caches[i][Part(u, 1)]][v])
            /\ store[Part(u, 1)] # 0 => deps'[u][store[Part(u, 1)]][v] <= store[Part(v, 1)]
    BY <1>1 DEF Rests, Covered
  <2>3. CASE u = w
    BY <1>1, <1>2, <1>3, <2>1, <2>2, <2>3 DEF Contents, Rests
  <2>4. CASE u # w
    BY <1>1, <1>2, <1>3, <2>4, Zenon DEF Contents, Rests
  <2> QED BY <2>3, <2>4, Zenon
<1> QED BY <1>4, <1>5, <1>6, Zenon DEF Contents

\* A writer copies a key.
LEMMA PutContents ==
    ASSUME Control, Contents, NEW w \in Writer, Put(w)
    PROVE  Contents'
<1> USE DEF Putting
<1>   /\ Writer \subseteq Proc /\ Flusher \in Proc /\ Flusher \notin Writer
      /\ pc \in [Proc -> Label]
      /\ \A v \in Writer : \A n \in {1, 2} : Part(v, n) \in Key /\ Owner(Part(v, n)) = v
      /\ \A v \in Writer : batch[v] \in Nat /\ target[v] \in Slot
      /\ \A k \in Key : Owner(k) \in Writer /\ store[k] \in Nat /\ put[k] \in Nat
      /\ \A i \in Slot : \A k \in Key : caches[i][k] \in Nat
      /\ readIndex \in Slot /\ flushing \in Slot /\ writeIndex \in Slot
      /\ \A i \in Slot : Up(readIndex, i) \in Nat
  BY Basics, Keys, RingUp, Zenon
<1>1. PICK n \in {1, 2} : /\ PutKey(w, n, IF n = 1 THEN "put2" ELSE "release")
                          /\ pc[w] = IF n = 1 THEN "put1" ELSE "put2"
  BY DEF Put
<1> DEFINE t == target[w]
           x == Part(w, n)
           b == batch[w]
<1>2. t \in Slot /\ x \in Key /\ b \in Nat /\ Owner(x) = w
  BY Zenon
<1>3. /\ UNCHANGED <<store, readIndex, writeIndex, flushing, target, batch, deps>>
      /\ \A q \in Proc : q # w => pc'[q] = pc[q]
      /\ pc'[w] = IF n = 1 THEN "put2" ELSE "release"
  BY <1>1, Zenon DEF PutKey, Goto
<1>4. /\ caches'[t][x] = b /\ put'[x] = b
      /\ \A k \in Key : k # x => caches'[t][k] = caches[t][k] /\ put'[k] = put[k]
      /\ \A i \in Slot : i # t => caches'[i] = caches[i]
  BY <1>1, <1>2, Zenon DEF PutKey, Part, Control, Types, TypeOK
<1>5. /\ t # readIndex /\ Up(readIndex, t) <= Up(readIndex, writeIndex)
      /\ pc[Flusher] \in {"dump", "purge"} => t # flushing
      /\ \A j \in Slot : Up(readIndex, j) > Up(readIndex, t) => caches[j][x] = 0
  BY <1>1, Zenon DEF Contents, Targets
<1>6. /\ put[x] <= b /\ store[x] <= b /\ b # 0
      /\ \A i \in Slot : caches[i][x] <= b
  <2>1. put[x] <= b /\ store[x] <= put[x]
    BY <1>2, Zenon DEF Contents, Order
  <2>2. b # 0
    BY <1>1 DEF Contents, Rests
  <2>3. \A i \in Slot : caches[i][x] # 0 => caches[i][x] <= put[x]
    BY <1>2, Zenon DEF Contents, Order
  <2> HIDE DEF x, b
  <2> QED BY <1>2, <2>1, <2>2, <2>3
<1> HIDE DEF t, x, b
<1>7. Free'
  BY <1>2, <1>3, <1>4, <1>5 DEF Contents, Free
<1>8. Targets'
  <2> SUFFICES ASSUME NEW v \in Writer, pc'[v] \in Putting
               PROVE  /\ target[v] # readIndex
                      /\ Up(readIndex, target[v]) <= Up(readIndex, writeIndex)
                      /\ pc'[Flusher] \in {"dump", "purge"} => target[v] # flushing
                      /\ \A m \in {1, 2} : \A j \in Slot :
                           Up(readIndex, j) > Up(readIndex, target[v])
                             => caches'[j][Part(v, m)] = 0
    BY <1>3 DEF Targets
  <2>1. pc[v] \in Putting /\ pc'[Flusher] = pc[Flusher]
    BY <1>1, <1>3, Zenon
  <2>2. \A m \in {1, 2} : \A j \in Slot :
          Up(readIndex, j) > Up(readIndex, target[v]) => caches[j][Part(v, m)] = 0
    BY <2>1, Zenon DEF Contents, Targets
  <2>3. \A m \in {1, 2} : \A j \in Slot :
          Up(readIndex, j) > Up(readIndex, target[v]) => caches'[j][Part(v, m)] = 0
    <3> SUFFICES ASSUME NEW m \in {1, 2}, NEW j \in Slot,
                        Up(readIndex, j) > Up(readIndex, target[v])
                 PROVE  caches'[j][Part(v, m)] = 0
      BY Zenon
    <3>1. caches[j][Part(v, m)] = 0
      BY <2>2, Zenon
    <3>2. ~(j = t /\ Part(v, m) = x)
      <4> SUFFICES ASSUME j = t, Part(v, m) = x PROVE FALSE
        BY Zenon
      <4>1. v = w
        BY <1>2, Zenon
      <4> QED BY <1>2, <4>1 DEF t
    <3> QED BY <1>4, <3>1, <3>2, Zenon
  <2> QED BY <2>1, <2>3, Zenon DEF Contents, Targets
<1>9. Order'
  <2>1. ASSUME NEW k \in Key, NEW i \in Slot, NEW j \in Slot,
               Up(readIndex, i) <= Up(readIndex, j), caches'[j][k] # 0
        PROVE  caches'[i][k] <= caches'[j][k]
    <3>1. CASE k # x
      BY <1>4, <2>1, <3>1 DEF Contents, Order
    <3>2. CASE k = x
      <4>1. caches'[j][x] = caches[j][x] \/ j = t
        BY <1>4, Zenon
      <4>2. CASE j = t
        BY <1>2, <1>4, <1>6, <3>2, <4>2
      <4>3. CASE j # t
        <5>1. caches[j][x] # 0 /\ Up(readIndex, j) <= Up(readIndex, t)
          BY <1>2, <1>4, <1>5, <2>1, <3>2, <4>3
        <5>2. i # t
          <6>1. SUFFICES ASSUME i = t PROVE FALSE
            BY Zenon
          <6>2. Up(readIndex, j) = Up(readIndex, t)
            BY <1>2, <2>1, <5>1, <6>1
          <6> QED BY <1>2, <4>3, <6>2, RingSame, Zenon
        <5> QED BY <1>4, <2>1, <3>2, <4>3, <5>1, <5>2, Zenon DEF Contents, Order
      <4> QED BY <4>2, <4>3, Zenon
    <3> QED BY <3>1, <3>2, Zenon
  <2>2. ASSUME NEW k \in Key, NEW i \in Slot, caches'[i][k] # 0
        PROVE  store[k] <= caches'[i][k] /\ caches'[i][k] <= put'[k]
    <3>1. CASE k # x
      BY <1>4, <2>2, <3>1 DEF Contents, Order
    <3>2. CASE k = x /\ i = t
      BY <1>2, <1>4, <1>6, <3>2
    <3>3. CASE k = x /\ i # t
      BY <1>4, <1>6, <2>2, <3>3 DEF Contents, Order
    <3> QED BY <3>1, <3>2, <3>3, Zenon
  <2>3. \A k \in Key : store[k] <= put'[k] /\ put'[k] <= batch[Owner(k)]
    <3> TAKE k \in Key
    <3>1. CASE k # x
      BY <1>4, <3>1, Zenon DEF Contents, Order
    <3>2. CASE k = x
      BY <1>2, <1>4, <1>6, <3>2 DEF b
    <3> QED BY <3>1, <3>2, Zenon
  <2>4. pc'[Flusher] = "purge" =>
          \A k \in Key : caches'[flushing][k] # 0 => store[k] = caches'[flushing][k]
    <3>1. pc'[Flusher] = "purge" => pc[Flusher] = "purge" /\ caches'[flushing] = caches[flushing]
      BY <1>3, <1>4, <1>5, Zenon
    <3> QED BY <3>1, Zenon DEF Contents, Order
  <2> QED BY <1>3, <2>1, <2>2, <2>3, <2>4, Zenon DEF Order
<1>10. Newest'
  <2> SUFFICES ASSUME NEW k \in Key
               PROVE  put'[k] = store[k] \/ \E i \in Slot : caches'[i][k] = put'[k]
    BY <1>3, Zenon DEF Newest
  <2>1. CASE k # x
    BY <1>4, <2>1 DEF Contents, Newest
  <2>2. CASE k = x
    BY <1>2, <1>4, <2>2, Zenon
  <2> QED BY <2>1, <2>2, Zenon
<1>11. Whole'
  <2>0. \A v \in Writer : pc'[v] = "put2" => caches'[target[v]][Part(v, 1)] = batch[v]
    <3> SUFFICES ASSUME NEW v \in Writer, pc'[v] = "put2"
                 PROVE  caches'[target[v]][Part(v, 1)] = batch[v]
      BY Zenon
    <3>1. CASE v = w
      BY <1>3, <1>4, <3>1, Zenon DEF t, x, b
    <3>2. CASE v # w
      <4>1. Part(v, 1) # x
        BY <1>2, <3>2, Zenon
      <4> QED BY <1>3, <1>4, <3>2, <4>1 DEF Contents, Whole
    <3> QED BY <3>1, <3>2, Zenon
  <2> SUFFICES ASSUME NEW v \in Writer, NEW i \in Slot
               PROVE  \/ caches'[i][Part(v, 1)] = caches'[i][Part(v, 2)]
                      \/ pc'[v] = "put2" /\ target[v] = i
    BY <1>3, <2>0 DEF Contents, Whole
  <2>1. CASE v # w
    <3>1. Part(v, 1) # x /\ Part(v, 2) # x
      BY <1>2, <2>1, Zenon
    <3> QED BY <1>3, <1>4, <2>1, <3>1 DEF Contents, Whole
  <2>2. CASE v = w /\ i # t
    BY <1>3, <1>4, <2>2 DEF Contents, Whole, t
  <2>3. CASE v = w /\ i = t /\ n = 1
    BY <1>3, <2>3, Zenon DEF t
  <2>4. CASE v = w /\ i = t /\ n = 2
    <3>1. Part(v, 1) # x /\ Part(v, 2) = x
      BY <2>4, Keys DEF x
    <3>2. caches[t][Part(w, 1)] = b
      BY <2>4, <1>1 DEF Contents, Whole, t, b
    <3> QED BY <1>4, <2>4, <3>1, <3>2, Zenon
  <2> QED BY <1>1, <2>1, <2>2, <2>3, <2>4, Zenon
<1>12. Rests'
  <2>1. \A i \in Slot : \A k \in Key : caches[i][k] <= caches'[i][k]
    BY <1>2, <1>4, <1>6
  <2>2. \A k \in Key : put[k] <= put'[k] /\ put'[k] \in Nat
    BY <1>2, <1>4, <1>6
  <2>3. ASSUME NEW i \in Slot, NEW v \in Writer, NEW d \in Nat,
               Covered(caches, store, readIndex, i, v, d)
        PROVE  Covered(caches', store', readIndex', i, v, d)
    <3>1. CASE d <= store[Part(v, 1)]
      BY <1>3, <3>1, Zenon DEF Covered
    <3>2. ASSUME NEW j \in Slot, Up(readIndex, j) <= Up(readIndex, i), d <= caches[j][Part(v, 1)]
          PROVE  Covered(caches', store', readIndex', i, v, d)
      <4>1. Part(v, 1) \in Key /\ caches'[j][Part(v, 1)] \in Nat
        BY <1>2, <1>4, Zenon
      <4>2. d <= caches'[j][Part(v, 1)]
        BY <2>1, <3>2, <4>1
      <4> QED BY <1>3, <3>2, <4>2, Zenon DEF Covered
    <3> QED BY <2>3, <3>1, <3>2, Zenon DEF Covered
  <2> SUFFICES ASSUME NEW u \in Writer, NEW v \in Writer
      PROVE /\ pc'[u] # "idle" => batch[u] > 0 /\ deps[u][batch[u]][v] <= put'[Part(v, 1)]
            /\ pc'[u] \in Putting =>
                 Covered(caches', store', readIndex', target[u], v, deps[u][batch[u]][v])
            /\ \A i \in Slot : caches'[i][Part(u, 1)] # 0 =>
                 Covered(caches', store', readIndex', i, v, deps[u][caches'[i][Part(u, 1)]][v])
            /\ store[Part(u, 1)] # 0 => deps[u][store[Part(u, 1)]][v] <= store[Part(v, 1)]
    BY <1>3 DEF Rests, Covered
  <2>4. \A m \in 1 .. batch[u] : deps[u][m][v] \in Nat
    BY Basics, Zenon
  <2>5. /\ pc'[u] # "idle" => pc[u] # "idle"
        /\ pc'[u] \in Putting => pc[u] \in Putting
    BY <1>1, <1>3, Zenon
  <2>6. pc'[u] # "idle" => batch[u] \in 1 .. batch[u] /\ deps[u][batch[u]][v] <= put'[Part(v, 1)]
    <3> SUFFICES ASSUME pc'[u] # "idle"
                 PROVE  batch[u] \in 1 .. batch[u] /\ deps[u][batch[u]][v] <= put'[Part(v, 1)]
      BY Zenon
    <3>1. batch[u] > 0 /\ deps[u][batch[u]][v] <= put[Part(v, 1)]
      BY <2>5, Zenon DEF Contents, Rests
    <3>2. batch[u] \in 1 .. batch[u]
      BY <3>1
    <3>3. deps[u][batch[u]][v] \in Nat
      BY <2>4, <3>2, Zenon
    <3> QED BY <2>2, <3>1, <3>2, <3>3
  <2>7. pc'[u] \in Putting =>
          Covered(caches', store', readIndex', target[u], v, deps[u][batch[u]][v])
    <3> SUFFICES ASSUME pc'[u] \in Putting
                 PROVE  Covered(caches', store', readIndex', target[u], v, deps[u][batch[u]][v])
      BY Zenon
    <3>1. Covered(caches, store, readIndex, target[u], v, deps[u][batch[u]][v])
      BY <2>5, Zenon DEF Contents, Rests
    <3>2. PICK d \in Nat : d = deps[u][batch[u]][v]
      BY <2>4, <2>6, Zenon
    <3>3. Covered(caches', store', readIndex', target[u], v, d)
      BY <2>3, <3>1, <3>2, Zenon
    <3> QED BY <1>3, <3>2, <3>3, Zenon DEF Covered
  <2>8. ASSUME NEW i \in Slot, caches'[i][Part(u, 1)] # 0
        PROVE  Covered(caches', store', readIndex', i, v, deps[u][caches'[i][Part(u, 1)]][v])
    <3>1. CASE i = t /\ Part(u, 1) = x
      <4>1. u = w /\ pc'[w] \in Putting /\ caches'[i][Part(u, 1)] = batch[u] /\ target[u] = i
        BY <1>2, <1>3, <1>4, <3>1, Zenon DEF t, b
      <4> QED BY <2>7, <4>1, <1>3, Zenon DEF Covered
    <3>2. CASE ~(i = t /\ Part(u, 1) = x)
      <4>1. caches'[i][Part(u, 1)] = caches[i][Part(u, 1)]
        BY <1>4, <3>2, Zenon
      <4>2. Covered(caches, store, readIndex, i, v, deps[u][caches[i][Part(u, 1)]][v])
        BY <2>8, <4>1, Zenon DEF Contents, Rests
      <4>3. caches[i][Part(u, 1)] \in 1 .. batch[u]
        <5>1. caches[i][Part(u, 1)] <= put[Part(u, 1)] /\ put[Part(u, 1)] <= batch[u]
          BY <2>8, <4>1, Zenon DEF Contents, Order
        <5> QED BY <2>8, <4>1, <5>1
      <4>4. PICK d \in Nat : d = deps[u][caches[i][Part(u, 1)]][v]
        BY <2>4, <4>3, Zenon
      <4>5. Covered(caches', store', readIndex', i, v, d)
        BY <2>3, <4>2, <4>4, Zenon
      <4> QED BY <1>3, <4>1, <4>4, <4>5, Zenon DEF Covered
    <3> QED BY <3>1, <3>2, Zenon
  <2>9. store[Part(u, 1)] # 0 => deps[u][store[Part(u, 1)]][v] <= store[Part(v, 1)]
    BY Zenon DEF Contents, Rests
  <2> QED BY <2>5, <2>6, <2>7, <2>8, <2>9, Zenon DEF Contents, Rests
<1> QED BY <1>7, <1>8, <1>9, <1>10, <1>11, <1>12, Zenon DEF Contents

\* The flusher writes a cache to the store.
LEMMA DumpContents ==
    ASSUME Control, Contents, pc[Flusher] = "dump", pc' = [pc EXCEPT ![Flusher] = "purge"],
           store' = [k \in Key |-> IF caches[flushing][k] # 0
                                   THEN caches[flushing][k] ELSE store[k]],
           UNCHANGED <<caches, put, readIndex, writeIndex, flushing, target, batch, deps>>
    PROVE  Contents' /\ \A k \in Key : store[k] <= store'[k]
<1> USE DEF Putting
<1>   /\ Writer \subseteq Proc /\ Flusher \in Proc /\ Flusher \notin Writer
      /\ pc \in [Proc -> Label]
      /\ \A v \in Writer : \A n \in {1, 2} : Part(v, n) \in Key /\ Owner(Part(v, n)) = v
      /\ \A v \in Writer : batch[v] \in Nat /\ target[v] \in Slot
      /\ \A k \in Key : Owner(k) \in Writer /\ store[k] \in Nat /\ put[k] \in Nat
      /\ \A i \in Slot : \A k \in Key : caches[i][k] \in Nat
      /\ readIndex \in Slot /\ flushing \in Slot /\ writeIndex \in Slot
      /\ \A i \in Slot : Up(readIndex, i) \in Nat
  BY Basics, Keys, RingUp, Zenon
<1>1. /\ \A w \in Writer : pc'[w] = pc[w]
      /\ pc'[Flusher] = "purge"
  BY Zenon
<1>2. \A k \in Key : store'[k] = IF caches[flushing][k] # 0 THEN caches[flushing][k] ELSE store[k]
  BY Zenon
<1>3. flushing = Next1(readIndex) /\ flushing # readIndex /\ Up(readIndex, flushing) = 1
  BY RingUp DEF Control, Places, Flushing
<1>4. \A k \in Key : store[k] <= store'[k] /\ store'[k] <= put[k] /\ store'[k] \in Nat
  BY <1>2 DEF Contents, Order
<1>5. Free' /\ Targets'
  BY <1>1 DEF Contents, Free, Targets
<1>6. \A k \in Key : \A i \in Slot : caches[i][k] # 0 => store'[k] <= caches[i][k]
  <2> TAKE k \in Key
  <2> TAKE i \in Slot
  <2> SUFFICES ASSUME caches[i][k] # 0 PROVE store'[k] <= caches[i][k]
    BY Zenon
  <2>1. CASE caches[flushing][k] = 0
    BY <1>2, <2>1, Zenon DEF Contents, Order
  <2>2. CASE caches[flushing][k] # 0
    <3>1. i # readIndex
      <4>1. Empty[k] = 0
        BY Zenon DEF Empty
      <4> QED BY <4>1, Zenon DEF Contents, Free
    <3>2. Up(readIndex, i) >= 1
      BY <3>1, RingUp
    <3>3. caches[flushing][k] <= caches[i][k]
      BY <1>3, <3>2, Zenon DEF Contents, Order
    <3> QED BY <1>2, <2>2, <3>3, Zenon
  <2> QED BY <2>1, <2>2, Zenon
<1>7. Order'
  <2>1. pc'[Flusher] = "purge" =>
          \A k \in Key : caches[flushing][k] # 0 => store'[k] = caches[flushing][k]
    BY <1>2, Zenon
  <2> QED BY <1>4, <1>6, <2>1, Zenon DEF Contents, Order
<1>8. Newest'
  <2> SUFFICES ASSUME NEW k \in Key
               PROVE  put[k] = store'[k] \/ \E i \in Slot : caches[i][k] = put[k]
    BY Zenon DEF Newest
  <2>1. put[k] = store[k] => put[k] = store'[k]
    BY <1>4
  <2> QED BY <2>1, Zenon DEF Contents, Newest
<1>9. Whole'
  <2>1. \A w \in Writer : store'[Part(w, 1)] = store'[Part(w, 2)]
    <3> TAKE w \in Writer
    <3>1. caches[flushing][Part(w, 1)] = caches[flushing][Part(w, 2)]
      BY DEF Contents, Whole, Targets
    <3>2. store[Part(w, 1)] = store[Part(w, 2)] /\ Part(w, 1) \in Key /\ Part(w, 2) \in Key
      BY Zenon DEF Contents, Whole
    <3> QED BY <1>2, <3>1, <3>2, Zenon
  <2> QED BY <1>1, <2>1, Zenon DEF Contents, Whole
<1>10. Rests'
  <2>0. \A v \in Writer : Part(v, 1) \in Key
    BY Zenon
  <2>1. ASSUME NEW i \in Slot, NEW v \in Writer, NEW d \in Nat,
               Covered(caches, store, readIndex, i, v, d)
        PROVE  Covered(caches, store', readIndex, i, v, d)
    <3>1. d <= store[Part(v, 1)] => d <= store'[Part(v, 1)]
      BY <1>4, <2>0
    <3> QED BY <2>1, <3>1, Zenon DEF Covered
  <2>2. \A w, v \in Writer : \A m \in 1 .. batch[w] : deps[w][m][v] \in Nat
    BY Basics, Zenon
  <2> SUFFICES ASSUME NEW u \in Writer, NEW v \in Writer
      PROVE /\ pc[u] \in Putting =>
                 Covered(caches, store', readIndex, target[u], v, deps[u][batch[u]][v])
            /\ \A i \in Slot : caches[i][Part(u, 1)] # 0 =>
                 Covered(caches, store', readIndex, i, v, deps[u][caches[i][Part(u, 1)]][v])
            /\ store'[Part(u, 1)] # 0 => deps[u][store'[Part(u, 1)]][v] <= store'[Part(v, 1)]
    BY <1>1, Zenon DEF Contents, Rests
  <2>3. pc[u] \in Putting =>
          Covered(caches, store', readIndex, target[u], v, deps[u][batch[u]][v])
    <3> SUFFICES ASSUME pc[u] \in Putting
                 PROVE  Covered(caches, store', readIndex, target[u], v, deps[u][batch[u]][v])
      BY Zenon
    <3>1. /\ Covered(caches, store, readIndex, target[u], v, deps[u][batch[u]][v])
          /\ batch[u] > 0
      BY Zenon DEF Contents, Rests
    <3>2. PICK d \in Nat : d = deps[u][batch[u]][v]
      BY <2>2, <3>1
    <3> QED BY <2>1, <3>1, <3>2, Zenon
  <2>4. ASSUME NEW i \in Slot, caches[i][Part(u, 1)] # 0
        PROVE  /\ Covered(caches, store', readIndex, i, v, deps[u][caches[i][Part(u, 1)]][v])
               /\ deps[u][caches[i][Part(u, 1)]][v] \in Nat
    <3>1. Covered(caches, store, readIndex, i, v, deps[u][caches[i][Part(u, 1)]][v])
      BY <2>4, Zenon DEF Contents, Rests
    <3>2. caches[i][Part(u, 1)] \in 1 .. batch[u]
      <4>1. caches[i][Part(u, 1)] <= put[Part(u, 1)] /\ put[Part(u, 1)] <= batch[u]
        BY <2>4, Zenon DEF Contents, Order
      <4> QED BY <2>0, <2>4, <4>1
    <3>3. PICK d \in Nat : d = deps[u][caches[i][Part(u, 1)]][v]
      BY <2>2, <3>2, Zenon
    <3> QED BY <2>1, <3>1, <3>3, Zenon
  <2>5. store'[Part(u, 1)] # 0 => deps[u][store'[Part(u, 1)]][v] <= store'[Part(v, 1)]
    <3> SUFFICES ASSUME store'[Part(u, 1)] # 0
                 PROVE  deps[u][store'[Part(u, 1)]][v] <= store'[Part(v, 1)]
      BY Zenon
    <3>1. CASE caches[flushing][Part(u, 1)] = 0
      <4>1. store'[Part(u, 1)] = store[Part(u, 1)]
        BY <1>2, <2>0, <3>1, Zenon
      <4>2. deps[u][store[Part(u, 1)]][v] <= store[Part(v, 1)]
        BY <4>1, Zenon DEF Contents, Rests
      <4>3. store[Part(u, 1)] \in 1 .. batch[u]
        <5>1. store[Part(u, 1)] <= put[Part(u, 1)] /\ put[Part(u, 1)] <= batch[u]
          BY Zenon DEF Contents, Order
        <5> QED BY <2>0, <4>1, <5>1
      <4>4. PICK d \in Nat : d = deps[u][store[Part(u, 1)]][v]
        BY <2>2, <4>3, Zenon
      <4> QED BY <1>4, <2>0, <4>1, <4>2, <4>4
    <3>2. CASE caches[flushing][Part(u, 1)] # 0
      <4>1. PICK d \in Nat : d = deps[u][caches[flushing][Part(u, 1)]][v]
        BY <2>4, <3>2, Zenon
      <4>2. store'[Part(u, 1)] = caches[flushing][Part(u, 1)]
        BY <1>2, <2>0, <3>2, Zenon
      <4>3. Covered(caches, store', readIndex, flushing, v, d)
        BY <2>4, <3>2, <4>1, Zenon
      <4>4. CASE d <= store'[Part(v, 1)]
        BY <4>1, <4>2, <4>4, Zenon
      <4>5. ASSUME NEW j \in Slot, Up(readIndex, j) <= 1, d <= caches[j][Part(v, 1)]
            PROVE  d <= store'[Part(v, 1)]
        <5>1. j = flushing \/ j = readIndex
          BY <1>3, <4>5, RingSame, RingUp
        <5>2. CASE j = readIndex
          <6>1. caches[j][Part(v, 1)] = 0
            BY <2>0, <5>2, Zenon DEF Contents, Free, Empty
          <6> QED BY <1>4, <2>0, <4>5, <6>1
        <5>3. CASE j = flushing
          <6>1. caches[flushing][Part(v, 1)] <= store'[Part(v, 1)]
            BY <1>2, <1>4, <2>0
          <6> QED BY <1>4, <2>0, <4>5, <5>3, <6>1
        <5> QED BY <5>1, <5>2, <5>3, Zenon
      <4> QED BY <1>3, <4>1, <4>2, <4>3, <4>4, <4>5, Zenon DEF Covered
    <3> QED BY <3>1, <3>2, Zenon
  <2> QED BY <2>3, <2>4, <2>5, Zenon
<1> QED BY <1>4, <1>5, <1>7, <1>8, <1>9, <1>10, Zenon DEF Contents

\* The flusher is done with a cache: it was empty, or its values are in the store.
Done ==
    /\ pc[Flusher] \in {"dump", "purge"} /\ pc'[Flusher] \in {"flush", "closed"}
    /\ \A w \in Writer : pc'[w] = pc[w]
    /\ readIndex' = flushing
    /\ \A i \in Slot : caches'[i] = IF i = flushing THEN Empty ELSE caches[i]
    /\ \A k \in Key : caches[flushing][k] # 0 => store[k] = caches[flushing][k]
    /\ UNCHANGED <<store, put, writeIndex, target, batch, deps>>

\* Seen from the next readIndex, all slots but the old one are a step nearer.
LEMMA DoneRing ==
    ASSUME Control, Contents, Done
    PROVE  /\ flushing \in Slot /\ readIndex \in Slot /\ flushing # readIndex
           /\ Up(flushing, readIndex) = CacheCount - 1
           /\ \A i \in Slot : /\ Up(readIndex, i) \in Nat /\ Up(flushing, i) \in Nat
                              /\ i # readIndex => Up(flushing, i) = Up(readIndex, i) - 1
           /\ \A k \in Key : /\ Empty[k] = 0 /\ caches[readIndex][k] = 0
                             /\ caches'[flushing][k] = 0 /\ caches'[readIndex][k] = 0
<1>1. flushing \in Slot /\ readIndex \in Slot /\ flushing = Next1(readIndex)
  BY Basics, Zenon DEF Control, Places, Flushing, Done
<1>2. flushing # readIndex /\ Up(flushing, readIndex) = CacheCount - 1
  BY <1>1, RingSteps, CacheCountAssumption DEF Up, Slot
<1>3. \A i \in Slot : /\ Up(readIndex, i) \in Nat /\ Up(flushing, i) \in Nat
                      /\ i # readIndex => Up(flushing, i) = Up(readIndex, i) - 1
  BY <1>1, RingUp, Zenon
<1>4. \A k \in Key : /\ Empty[k] = 0 /\ caches[readIndex][k] = 0
                     /\ caches'[flushing][k] = 0 /\ caches'[readIndex][k] = 0
  BY <1>1, <1>2 DEF Contents, Free, Empty, Done
<1> QED BY <1>1, <1>2, <1>3, <1>4, Zenon

\* The flusher leaves a cache and readIndex moves up to it.
LEMMA DoneContents ==
    ASSUME Control, Contents, Done
    PROVE  Contents'
<1> USE DEF Putting
<1> DEFINE r == readIndex
           f == flushing
<1>0. /\ \A v \in Writer : Part(v, 1) \in Key /\ Part(v, 2) \in Key
      /\ \A v \in Writer : \A n \in {1, 2} : Part(v, n) \in Key
      /\ \A v \in Writer : batch[v] \in Nat /\ target[v] \in Slot
      /\ \A k \in Key : Owner(k) \in Writer /\ store[k] \in Nat /\ put[k] \in Nat
      /\ \A i \in Slot : \A k \in Key : caches[i][k] \in Nat
      /\ writeIndex \in Slot /\ writeIndex # readIndex
  BY Basics, Keys, Zenon DEF Control, Places, Done
<1>1. /\ f \in Slot /\ r \in Slot /\ f # r /\ Up(f, r) = CacheCount - 1
      /\ \A i \in Slot : /\ Up(r, i) \in Nat /\ Up(f, i) \in Nat
                         /\ i # r => Up(f, i) = Up(r, i) - 1
      /\ \A k \in Key : /\ Empty[k] = 0 /\ caches[r][k] = 0
                        /\ caches'[f][k] = 0 /\ caches'[r][k] = 0
  BY DoneRing, Zenon
<1>2. /\ UNCHANGED <<store, put, writeIndex, target, batch, deps>>
      /\ readIndex' = f
      /\ \A i \in Slot : i # f => caches'[i] = caches[i]
      /\ caches'[f] = Empty
      /\ \A w \in Writer : pc'[w] = pc[w]
      /\ pc'[Flusher] \notin {"dump", "purge"}
      /\ \A k \in Key : caches[f][k] # 0 => store[k] = caches[f][k]
  BY <1>1, Zenon DEF Done
<1>3. \A w \in Writer : pc[w] \in Putting => target[w] # r /\ target[w] # f
  BY Zenon DEF Contents, Targets, Done
<1> HIDE DEF r, f
<1>4. Free'
  <2>1. ASSUME NEW i \in Slot, i # f, Up(f, i) > Up(f, writeIndex)
        PROVE  caches[i] = Empty
    <3>1. CASE i = r
      BY <3>1, Zenon DEF Contents, Free, r
    <3>2. CASE i # r
      <4>1. Up(r, i) > Up(r, writeIndex)
        BY <1>0, <1>1, <2>1, <3>2 DEF r
      <4> QED BY <4>1, Zenon DEF Contents, Free, r
    <3> QED BY <3>1, <3>2, Zenon
  <2> QED BY <1>2, <2>1, Zenon DEF Free
<1>5. Targets'
  <2> SUFFICES ASSUME NEW w \in Writer, pc[w] \in Putting
               PROVE  /\ Up(f, target[w]) <= Up(f, writeIndex)
                      /\ \A n \in {1, 2} : \A j \in Slot :
                           Up(f, j) > Up(f, target[w]) => caches'[j][Part(w, n)] = 0
    BY <1>2, <1>3, Zenon DEF Targets
  <2>1. /\ Up(r, target[w]) <= Up(r, writeIndex)
        /\ \A n \in {1, 2} : \A j \in Slot :
             Up(r, j) > Up(r, target[w]) => caches[j][Part(w, n)] = 0
    BY Zenon DEF Contents, Targets, r
  <2>2. Up(f, target[w]) <= Up(f, writeIndex)
    BY <1>0, <1>1, <1>3, <2>1 DEF r
  <2>3. ASSUME NEW n \in {1, 2}, NEW j \in Slot, Up(f, j) > Up(f, target[w])
        PROVE  caches'[j][Part(w, n)] = 0
    <3>1. CASE j = r \/ j = f
      BY <1>0, <1>1, <3>1, Zenon
    <3>2. CASE j # r /\ j # f
      <4>1. Up(r, j) > Up(r, target[w])
        BY <1>0, <1>1, <1>3, <2>3, <3>2
      <4> QED BY <1>2, <2>1, <3>2, <4>1, Zenon
    <3> QED BY <3>1, <3>2, Zenon
  <2> QED BY <2>2, <2>3, Zenon
<1>6. Order'
  <2>1. ASSUME NEW k \in Key, NEW i \in Slot, NEW j \in Slot, Up(f, i) <= Up(f, j),
               caches'[j][k] # 0
        PROVE  caches'[i][k] <= caches'[j][k]
    <3>1. j # f /\ j # r /\ caches'[j] = caches[j]
      BY <1>1, <1>2, <2>1, Zenon
    <3>2. CASE i = f \/ i = r
      BY <1>0, <1>1, <3>1, <3>2
    <3>3. CASE i # f /\ i # r
      <4>1. Up(r, i) <= Up(r, j)
        BY <1>1, <2>1, <3>1, <3>3
      <4> QED BY <1>2, <2>1, <3>1, <3>3, <4>1, Zenon DEF Contents, Order, r
    <3> QED BY <3>2, <3>3, Zenon
  <2>2. \A k \in Key : \A i \in Slot :
          caches'[i][k] # 0 => store[k] <= caches'[i][k] /\ caches'[i][k] <= put[k]
    BY <1>1, <1>2, Zenon DEF Contents, Order
  <2> QED BY <1>2, <2>1, <2>2, Zenon DEF Contents, Order
<1>7. Newest'
  <2> SUFFICES ASSUME NEW k \in Key, put[k] # store[k]
               PROVE  \E i \in Slot : caches'[i][k] = put[k]
    BY <1>2, Zenon DEF Newest
  <2>1. PICK i \in Slot : caches[i][k] = put[k]
    BY Zenon DEF Contents, Newest
  <2>2. put[k] # 0
    BY <1>0 DEF Contents, Order
  <2>3. i # f
    BY <1>2, <2>1, <2>2, Zenon
  <2> QED BY <1>2, <2>1, <2>3, Zenon
<1>8. Whole'
  <2>1. \A w \in Writer : \A i \in Slot :
          \/ caches'[i][Part(w, 1)] = caches'[i][Part(w, 2)]
          \/ pc[w] = "put2" /\ target[w] = i
    BY <1>0, <1>1, <1>2 DEF Contents, Whole
  <2>2. \A w \in Writer : pc[w] = "put2" => caches'[target[w]][Part(w, 1)] = batch[w]
    BY <1>0, <1>2, <1>3, Zenon DEF Contents, Whole
  <2> QED BY <1>2, <2>1, <2>2, Zenon DEF Contents, Whole
<1>9. Rests'
  <2>1. ASSUME NEW i \in Slot, NEW v \in Writer, NEW d \in Nat, i # r,
               Covered(caches, store, r, i, v, d)
        PROVE  Covered(caches', store, f, i, v, d)
    <3>1. CASE d <= store[Part(v, 1)]
      BY <3>1, Zenon DEF Covered
    <3>2. ASSUME NEW j \in Slot, Up(r, j) <= Up(r, i), d <= caches[j][Part(v, 1)]
          PROVE  Covered(caches', store, f, i, v, d)
      <4>1. CASE j = r \/ j = f
        <5>1. caches[j][Part(v, 1)] <= store[Part(v, 1)]
          BY <1>0, <1>1, <1>2, <4>1
        <5>2. d <= store[Part(v, 1)]
          BY <1>0, <3>2, <5>1
        <5> QED BY <5>2, Zenon DEF Covered
      <4>2. CASE j # r /\ j # f
        <5>1. Up(f, j) <= Up(f, i)
          BY <1>1, <2>1, <3>2, <4>2
        <5> QED BY <1>2, <3>2, <4>2, <5>1, Zenon DEF Covered
      <4> QED BY <4>1, <4>2, Zenon
    <3> QED BY <2>1, <3>1, <3>2, Zenon DEF Covered
  <2>2. \A w, v \in Writer : \A m \in 1 .. batch[w] : deps[w][m][v] \in Nat
    BY Basics, Zenon
  <2> SUFFICES ASSUME NEW u \in Writer, NEW v \in Writer
      PROVE /\ pc[u] \in Putting =>
                 Covered(caches', store, f, target[u], v, deps[u][batch[u]][v])
            /\ \A i \in Slot : caches'[i][Part(u, 1)] # 0 =>
                 Covered(caches', store, f, i, v, deps[u][caches'[i][Part(u, 1)]][v])
    BY <1>2, Zenon DEF Contents, Rests
  <2>3. pc[u] \in Putting => Covered(caches', store, f, target[u], v, deps[u][batch[u]][v])
    <3> SUFFICES ASSUME pc[u] \in Putting
                 PROVE  Covered(caches', store, f, target[u], v, deps[u][batch[u]][v])
      BY Zenon
    <3>1. /\ Covered(caches, store, r, target[u], v, deps[u][batch[u]][v])
          /\ batch[u] > 0
      BY Zenon DEF Contents, Rests, r
    <3>2. batch[u] \in 1 .. batch[u]
      BY <1>0, <3>1
    <3>3. PICK d \in Nat : d = deps[u][batch[u]][v]
      BY <2>2, <3>2, Zenon
    <3> QED BY <1>0, <1>3, <2>1, <3>1, <3>3, Zenon
  <2>4. ASSUME NEW i \in Slot, caches'[i][Part(u, 1)] # 0
        PROVE  Covered(caches', store, f, i, v, deps[u][caches'[i][Part(u, 1)]][v])
    <3>0. i # r /\ i # f /\ caches'[i] = caches[i] /\ Part(u, 1) \in Key
      BY <1>0, <1>1, <1>2, <2>4, Zenon
    <3>1. Covered(caches, store, r, i, v, deps[u][caches[i][Part(u, 1)]][v])
      BY <2>4, <3>0, Zenon DEF Contents, Rests, r
    <3>2. caches[i][Part(u, 1)] \in 1 .. batch[u]
      <4>1. caches[i][Part(u, 1)] <= put[Part(u, 1)] /\ put[Part(u, 1)] <= batch[u]
        BY <2>4, <3>0, Keys, Zenon DEF Contents, Order
      <4> QED BY <1>0, <2>4, <3>0, <4>1
    <3>3. PICK d \in Nat : d = deps[u][caches[i][Part(u, 1)]][v]
      BY <2>2, <3>2, Zenon
    <3> QED BY <2>1, <3>0, <3>1, <3>3, Zenon
  <2> QED BY <2>3, <2>4, Zenon
<1> QED BY <1>4, <1>5, <1>6, <1>7, <1>8, <1>9, Zenon DEF Contents

\* Dump and Purge, as steps of the two kinds above.
LEMMA FlushSteps ==
    ASSUME Control, Contents, Dump \/ Purge
    PROVE  /\ UNCHANGED <<overtaken, reader>>
           /\ \/ Done
              \/ /\ pc[Flusher] = "dump" /\ pc' = [pc EXCEPT ![Flusher] = "purge"]
                 /\ store' = [k \in Key |-> IF caches[flushing][k] # 0
                                            THEN caches[flushing][k] ELSE store[k]]
                 /\ UNCHANGED <<caches, put, readIndex, writeIndex, flushing, target,
                                batch, deps>>
<1>0. /\ Writer \subseteq Proc /\ Flusher \in Proc /\ Flusher \notin Writer
      /\ pc \in [Proc -> Label] /\ flushing \in Slot
      /\ caches \in [Slot -> [Key -> Batch]]
  BY Basics, Zenon DEF Control, Types, TypeOK
<1>1. ASSUME Flushed, pc[Flusher] \in {"dump", "purge"}
      PROVE  /\ pc'[Flusher] \in {"flush", "closed"}
             /\ \A w \in Writer : pc'[w] = pc[w]
             /\ readIndex' = flushing
             /\ UNCHANGED <<put, writeIndex, target, batch, deps, overtaken, reader>>
  BY <1>0, <1>1, Zenon DEF Flushed, Goto, history
<1>2. CASE Purge
  <2>1. \A i \in Slot : caches'[i] = IF i = flushing THEN Empty ELSE caches[i]
    BY <1>0, <1>2, Zenon DEF Purge
  <2>2. \A k \in Key : caches[flushing][k] # 0 => store[k] = caches[flushing][k]
    BY <1>2, Zenon DEF Purge, Contents, Order
  <2> QED BY <1>1, <1>2, <2>1, <2>2, Zenon DEF Purge, Done
<1>3. CASE Dump /\ caches[flushing] = Empty
  <2>1. \A i \in Slot : caches'[i] = IF i = flushing THEN Empty ELSE caches[i]
    BY <1>3, Zenon DEF Dump
  <2>2. \A k \in Key : caches[flushing][k] # 0 => store[k] = caches[flushing][k]
    BY <1>3, Zenon DEF Empty
  <2> QED BY <1>1, <1>3, <2>1, <2>2, Zenon DEF Dump, Done
<1>4. CASE Dump /\ caches[flushing] # Empty
  BY <1>4, Zenon DEF Dump, Goto, ring, history
<1> QED BY <1>2, <1>3, <1>4, Zenon

\* A reader is not disturbed by values that grow where they are ...
LEMMA GrowReading ==
    ASSUME Control, Control', Reading, UNCHANGED <<readIndex, reader>>,
           \A i \in Slot : caches[i][reader.key] <= caches'[i][reader.key],
           store[reader.key] <= store'[reader.key]
    PROVE  Reading'
<1>0. /\ reader.key \in Key /\ reader.since \in Nat
      /\ store[reader.key] \in Nat /\ store'[reader.key] \in Nat
      /\ \A i \in Slot : caches[i][reader.key] \in Nat /\ caches'[i][reader.key] \in Nat
  <2>1. /\ \A i \in Slot : \A k \in Key : caches'[i][k] \in Nat
        /\ \A k \in Key : store'[k] \in Nat
    <3>1. caches' \in [Slot -> [Key -> Batch]] /\ store' \in [Key -> Batch]
      BY Zenon DEF Control, Types, TypeOK
    <3> QED BY <3>1, BoundAssumption DEF Batch
  <2> QED BY <2>1, Basics, Zenon
<1>1. reader.since <= store[reader.key] => reader.since <= store'[reader.key]
  BY <1>0
<1>2. ASSUME NEW j \in Slot, Ahead(j)
      PROVE  Ahead(j)'
  <2>1. caches'[j][reader.key] # 0 /\ reader.since <= caches'[j][reader.key]
    BY <1>0, <1>2 DEF Ahead
  <2> QED BY <1>2, <2>1, Zenon DEF Ahead
<1> QED BY <1>1, <1>2, Zenon DEF Reading

\* ... nor by the flusher, which moves values to the store in the order in which
\* the reader would find them last.
LEMMA DoneReading ==
    ASSUME Control, Contents, Reading, Done, UNCHANGED reader
    PROVE  Reading'
<1> DEFINE r == readIndex
           f == flushing
           k == reader.key
<1>0. /\ k \in Key /\ reader.since \in Nat /\ store[k] \in Nat
      /\ \A i \in Slot : caches[i][k] \in Nat
      /\ reader.read \in Slot /\ reader.index \in Slot
  BY Basics, Zenon
<1>1. /\ f \in Slot /\ r \in Slot /\ f # r
      /\ \A i \in Slot : /\ Up(r, i) \in Nat /\ Up(f, i) \in Nat
                         /\ i # r => Up(f, i) = Up(r, i) - 1
      /\ caches[r][k] = 0
  BY <1>0, DoneRing, Zenon
<1>2. /\ store' = store /\ readIndex' = f /\ reader' = reader
      /\ \A i \in Slot : i # f => caches'[i] = caches[i]
      /\ caches[f][k] # 0 => store[k] = caches[f][k]
      /\ f = Next1(r)
  BY <1>0, <1>1, Zenon DEF Done, Control, Places, Flushing
<1> HIDE DEF r, f, k
<1>3. ASSUME NEW j \in Slot, Ahead(j), reader.pc \in {"read", "walk"}
      PROVE  reader.since <= store[k] \/ Ahead(j)'
  <2>1. caches[j][k] # 0 /\ reader.since <= caches[j][k] /\ j # r
    BY <1>1, <1>3, Zenon DEF Ahead, k
  <2>2. CASE j = f
    BY <1>2, <2>1, <2>2, Zenon
  <2>3. CASE j # f
    <3>1. caches'[j] = caches[j]
      BY <1>2, <2>3, Zenon
    <3>2. CASE reader.pc = "read"
      <4>1. Up(r, j) <= Up(r, reader.index)
        BY <1>3, <3>2, Zenon DEF Ahead, r
      <4>2. Up(r, j) # 0
        BY <1>1, <2>1, RingUp, Zenon
      <4>3. reader.index # r
        BY <1>0, <1>1, <4>1, <4>2, RingUp
      <4>4. Up(f, j) <= Up(f, reader.index)
        BY <1>0, <1>1, <2>1, <4>1, <4>3
      <4> QED BY <1>2, <2>1, <3>1, <3>2, <4>4, Zenon DEF Ahead, k
    <3>3. CASE reader.pc = "walk"
      <4>1. /\ Up(reader.read, r) <= Up(reader.read, j)
            /\ Up(reader.read, j) <= Up(reader.read, reader.index)
        BY <1>3, <3>3, Zenon DEF Ahead, r
      <4>2. Up(reader.read, f) <= Up(reader.read, j)
        BY <1>0, <1>1, <1>2, <2>1, <4>1, RingPast
      <4> QED BY <1>2, <2>1, <3>1, <3>3, <4>1, <4>2, Zenon DEF Ahead, k
    <3> QED BY <1>3, <3>2, <3>3, Zenon
  <2> QED BY <2>2, <2>3, Zenon
<1> QED BY <1>2, <1>3, Zenon DEF Reading, k

\* Get.
LEMMA GetReading ==
    ASSUME Control, Contents, Reading, (\E x \in Key : GetStart(x)) \/ Get
    PROVE  Reading'
<1>   /\ \A i \in Slot : \A x \in Key : caches[i][x] \in Nat
      /\ \A x \in Key : store[x] \in Nat /\ put[x] \in Nat
      /\ writeIndex \in Slot /\ readIndex \in Slot
      /\ \A i \in Slot : Up(readIndex, i) \in Nat
      /\ reader.key \in Key /\ reader.index \in Slot /\ reader.read \in Slot
      /\ reader.since \in Nat
      /\ reader \in Reader
  BY Basics, RingUp, Zenon DEF Control, Types, TypeOK, Reader
<1>1. ASSUME NEW x \in Key, GetStart(x)
      PROVE  Reading'
  <2>1. /\ reader'.pc = "read" /\ reader'.key = x /\ reader'.since = put[x]
        /\ reader'.index = writeIndex /\ UNCHANGED <<caches, readIndex, store>>
    BY <1>1, NoReaderType, Zenon DEF GetStart, ring, Reader
  <2>2. CASE put[x] = store[x]
    BY <2>1, <2>2 DEF Reading
  <2>3. CASE put[x] # store[x]
    <3>1. PICK i \in Slot : caches[i][x] = put[x]
      BY <2>3, Zenon DEF Contents, Newest
    <3>2. caches[i][x] # 0
      BY <2>3, <3>1 DEF Contents, Order
    <3>3. Up(readIndex, i) <= Up(readIndex, writeIndex)
      BY <3>2 DEF Contents, Free, Empty
    <3>4. Ahead(i)'
      BY <2>1, <3>1, <3>2, <3>3 DEF Ahead
    <3> QED BY <2>1, <3>4, Zenon DEF Reading
  <2> QED BY <2>2, <2>3, Zenon
<1>2. CASE GetReadIndex
  <2>1. /\ reader.pc = "read" /\ reader'.pc = "walk" /\ reader'.key = reader.key
        /\ reader'.since = reader.since /\ reader'.read = readIndex
        /\ reader'.index = reader.index /\ UNCHANGED <<caches, readIndex, store>>
    BY <1>2, Zenon DEF GetReadIndex, ring, Reader
  <2>2. \A j \in Slot : Ahead(j) => Ahead(j)'
    <3>1. Up(readIndex, readIndex) = 0
      BY RingUp, Zenon
    <3> QED BY <2>1, <3>1 DEF Ahead
  <2> QED BY <2>1, <2>2, Zenon DEF Reading
<1>3. CASE Walk
  <2> DEFINE x == reader.index
             k == reader.key
  <2>1. reader.pc = "walk" /\ UNCHANGED <<caches, readIndex, store>>
    BY <1>3, Zenon DEF Walk, ring
  <2>2. ASSUME NEW j \in Slot, Ahead(j)
        PROVE  /\ x # reader.read
               /\ caches[x][k] # 0 => reader.since <= caches[x][k]
               /\ caches[x][k] = 0 => Up(reader.read, j) <= Up(reader.read, Prev1(x))
    <3>1. /\ caches[j][k] # 0 /\ reader.since <= caches[j][k]
          /\ Up(reader.read, readIndex) <= Up(reader.read, j)
          /\ Up(reader.read, j) <= Up(reader.read, x)
      BY <2>1, <2>2, Zenon DEF Ahead
    <3>2. j # readIndex
      BY <3>1, Zenon DEF Contents, Free, Empty
    <3>3. x # reader.read
      BY <3>1, <3>2, RingUp, CacheCountAssumption DEF Up, Slot
    <3>4. Up(readIndex, j) <= Up(readIndex, x)
      BY <3>1, CacheCountAssumption DEF Up, Slot
    <3>5. caches[x][k] # 0 => reader.since <= caches[x][k]
      <4>1. caches[x][k] # 0 => caches[j][k] <= caches[x][k]
        BY <3>4, Zenon DEF Contents, Order
      <4> QED BY <3>1, <4>1
    <3>6. caches[x][k] = 0 => Up(reader.read, j) <= Up(reader.read, Prev1(x))
      <4> SUFFICES ASSUME caches[x][k] = 0 PROVE Up(reader.read, j) <= Up(reader.read, Prev1(x))
        BY Zenon
      <4>1. Up(reader.read, j) # Up(reader.read, x)
        BY <3>1, RingSame, Zenon
      <4>2. Up(reader.read, Prev1(x)) = Up(reader.read, x) - 1
        BY <3>3, RingUp, Zenon
      <4>3. Up(reader.read, j) \in Nat /\ Up(reader.read, x) \in Nat
        BY RingUp, Zenon
      <4> QED BY <3>1, <4>1, <4>2, <4>3
    <3> QED BY <3>3, <3>5, <3>6, Zenon
  <2>3. CASE reader.index = reader.read
    <3>1. reader'.pc = "done" /\ reader'.value = store[k] /\ reader'.since = reader.since
      BY <1>3, <2>3, Zenon DEF Walk, Reader
    <3>2. reader.since <= store[k]
      BY <2>1, <2>2, <2>3, Zenon DEF Reading
    <3> QED BY <3>1, <3>2, Zenon DEF Reading
  <2>4. CASE reader.index # reader.read /\ caches[x][k] # 0
    <3>1. reader'.pc = "done" /\ reader'.value = caches[x][k] /\ reader'.since = reader.since
      BY <1>3, <2>4, Zenon DEF Walk, Reader
    <3>2. reader.since <= caches[x][k]
      <4>1. store[k] <= caches[x][k]
        BY <2>4, Zenon DEF Contents, Order
      <4>2. reader.since <= store[k] => reader.since <= caches[x][k]
        BY <4>1
      <4> QED BY <2>1, <2>2, <2>4, <4>2, Zenon DEF Reading
    <3> QED BY <3>1, <3>2, Zenon DEF Reading
  <2>5. CASE reader.index # reader.read /\ caches[x][k] = 0
    <3>1. /\ reader'.pc = "walk" /\ reader'.key = k /\ reader'.since = reader.since
          /\ reader'.read = reader.read /\ reader'.index = Prev1(x)
      BY <1>3, <2>5, Zenon DEF Walk, Reader
    <3>2. \A j \in Slot : Ahead(j) => Ahead(j)'
      BY <2>1, <2>2, <2>5, <3>1, Zenon DEF Ahead
    <3> QED BY <2>1, <3>1, <3>2, Zenon DEF Reading
  <2> QED BY <2>3, <2>4, <2>5, Zenon
<1>4. CASE GetDone
  BY <1>4, NoReaderType, Zenon DEF GetDone, Reading
<1> QED BY <1>1, <1>2, <1>3, <1>4, Zenon DEF Get

\* A restart begins with empty caches and with what is in the store.
LEMMA FreshContents ==
    ASSUME caches' = [i \in Slot |-> Empty], pc' = [p \in Proc |-> "idle"],
           reader' = NoReader, put' = store',
           store' \in [Key -> Nat],
           \A k \in Key : store'[k] <= batch'[Owner(k)],
           \A w \in Writer : store'[Part(w, 1)] = store'[Part(w, 2)],
           \A w, v \in Writer :
             store'[Part(w, 1)] # 0 => deps'[w][store'[Part(w, 1)]][v] <= store'[Part(v, 1)]
    PROVE  Contents' /\ Reading'
<1>   /\ \A i \in Slot : caches'[i] = Empty /\ \A k \in Key : caches'[i][k] = 0
      /\ pc'[Flusher] = "idle" /\ \A w \in Writer : pc'[w] = "idle"
      /\ \A w \in Writer : \A n \in {1, 2} : Part(w, n) \in Key
  BY Keys, Zenon DEF Empty, Proc
<1>1. Free' /\ Targets' /\ Newest' /\ Whole'
  BY Zenon DEF Free, Targets, Newest, Whole, Putting
<1>2. Order'
  BY DEF Order
<1>3. Rests'
  BY Zenon DEF Rests, Putting
<1>4. Reading'
  BY NoReaderType, Zenon DEF Reading
<1> QED BY <1>1, <1>2, <1>3, <1>4, Zenon DEF Contents

\* Crash.
LEMMA CrashContents ==
    ASSUME Control, Contents, Crash
    PROVE  Contents' /\ Reading'
<1>1. /\ caches' = [i \in Slot |-> Empty] /\ pc' = [p \in Proc |-> "idle"]
      /\ reader' = NoReader /\ put' = store' /\ UNCHANGED <<store, batch, deps>>
  BY Zenon DEF Crash, Fresh
<1>2. store \in [Key -> Nat]
  BY BoundAssumption DEF Control, Types, TypeOK, Batch
<1>3. \A k \in Key : store[k] <= batch[Owner(k)]
  BY Basics, Keys DEF Contents, Order
<1>4. /\ \A w \in Writer : store[Part(w, 1)] = store[Part(w, 2)]
      /\ \A w, v \in Writer :
           store[Part(w, 1)] # 0 => deps[w][store[Part(w, 1)]][v] <= store[Part(v, 1)]
  BY Zenon DEF Contents, Whole, Rests
<1> QED BY <1>1, <1>2, <1>3, <1>4, FreshContents, Zenon

\* A writer's next batch is newer than all it wrote.
LEMMA PutGrows ==
    ASSUME Control, Contents, NEW w \in Writer, Put(w)
    PROVE  \A i \in Slot : \A k \in Key : caches[i][k] <= caches'[i][k]
<1>   /\ \A i \in Slot : \A k \in Key : caches[i][k] \in Nat
      /\ \A k \in Key : put[k] \in Nat /\ batch[w] \in Nat
      /\ target[w] \in Slot
  BY Basics, Zenon
<1>1. PICK n \in {1, 2} : caches' = [caches EXCEPT ![target[w]][Part(w, n)] = batch[w]]
  BY Zenon DEF Put, PutKey, Part
<1>2. Part(w, n) \in Key /\ Owner(Part(w, n)) = w
  BY Keys, Zenon
<1>3. caches[target[w]][Part(w, n)] <= batch[w]
  <2>1. put[Part(w, n)] <= batch[w]
    BY <1>2, Zenon DEF Contents, Order
  <2>2. caches[target[w]][Part(w, n)] # 0 => caches[target[w]][Part(w, n)] <= put[Part(w, n)]
    BY <1>2, Zenon DEF Contents, Order
  <2> QED BY <1>2, <2>1, <2>2
<1>4. caches \in [Slot -> [Key -> Batch]]
  BY Zenon DEF Control, Types, TypeOK
<1> QED BY <1>1, <1>2, <1>3, <1>4

\* An overtaken writer is never forgotten.
LEMMA OvertakenStays ==
    ASSUME Control, [Next]_vars
    PROVE  overtaken => overtaken'
<1>1. CASE \E w \in Writer : Begin(w) \/ Quoted(w) \/ Put(w) \/ Release(w)
  BY <1>1, Zenon DEF Begin, Quoted, Put, PutKey, Release, history
<1>2. CASE \E p \in Proc : GetCache(p)
  BY <1>2, GetCacheFrame, Zenon DEF history
<1>3. CASE Tick \/ Flush \/ Stop \/ Crash
  BY <1>3, Zenon
  DEF Tick, Flush, Receive, FlushDone, WaitQuote, Dump, Purge, Flushed, Stop, Crash, history
<1>4. CASE (\E k \in Key : GetStart(k)) \/ Get \/ UNCHANGED vars
  BY <1>4, Zenon DEF GetStart, Get, GetReadIndex, Walk, GetDone, vars, history
<1> QED BY <1>1, <1>2, <1>3, <1>4, Zenon DEF Next, BatchUpdate, Proc

\* When the indices have met all caches are empty.
LEMMA ClosedStore ==
    ASSUME Control, Contents, pc[Flusher] = "closed"
    PROVE  store = put
<1>1. \A i \in Slot : caches[i] = Empty
  <2>1. writeIndex = readIndex /\ readIndex \in Slot
    BY Basics, Zenon DEF Control, Places
  <2>2. \A i \in Slot : i # readIndex => Up(readIndex, i) > Up(readIndex, writeIndex)
    BY <2>1, RingUp
  <2> QED BY <2>2, Zenon DEF Contents, Free
<1>2. \A k \in Key : store[k] = put[k]
  <2> TAKE k \in Key
  <2>1. \A i \in Slot : caches[i][k] = 0
    BY <1>1, Zenon DEF Empty
  <2> QED BY <2>1, Basics DEF Contents, Newest, Order
<1> QED BY <1>2 DEF Control, Types, TypeOK
=============================================================================
