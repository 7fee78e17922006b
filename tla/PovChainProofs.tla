-------------------------- MODULE PovChainProofs --------------------------
(***************************************************************************)
(* The best chain of PovChain, for every tree of blocks: it is a path, it  *)
(* is the heaviest, the miner statistics made from it stay true, and the   *)
(* index from transactions to blocks follows it.                           *)
(***************************************************************************)
EXTENDS PovChain, WellFoundedInduction, TLAPS

\* Every non-empty set of naturals has a least element.
LEMMA NatMin ==
    ASSUME NEW T, T \subseteq Nat, T # {}
    PROVE  \E x \in T : \A y \in T : x <= y
<1> DEFINE R == OpToRel(<, Nat)
<1>1. IsWellFoundedOn(R, Nat)
  BY NatLessThanWellFounded, Zenon
<1>2. \A x, y \in Nat : <<y, x>> \in R <=> y < x
  BY Zenon DEF OpToRel
<1> HIDE DEF R
<1>3. PICK x \in T : \A y \in T : ~(<<y, x>> \in R)
  BY <1>1, WFMin, Zenon
<1>4. \A y \in T : ~(y < x)
  BY <1>2, <1>3, Zenon
<1>5. \A y \in T : x <= y
  BY <1>4
<1> QED BY <1>5, Zenon

\* Every non-empty bounded set of naturals has a greatest element.
LEMMA BoundedMax ==
    ASSUME NEW n \in Nat, NEW T, T \subseteq 0 .. n, T # {}
    PROVE  \E x \in T : \A y \in T : y <= x
<1> DEFINE U == {k \in Nat : \E t \in T : k = n - t}
<1>1. \A t \in T : n - t \in U /\ t \in Int
  OBVIOUS
<1>2. U \subseteq Nat /\ U # {}
  BY <1>1, Zenon
<1>3. PICK u \in U : \A v \in U : u <= v
  <2> HIDE DEF U
  <2> QED BY <1>2, NatMin, Zenon
<1>4. PICK x \in T : u = n - x
  BY <1>3, Zenon
<1>5. \A y \in T : n - x <= n - y
  BY <1>1, <1>3, <1>4, Zenon
<1>6. \A y \in T : y <= x
  BY <1>1, <1>5
<1> QED BY <1>6, Zenon

\* Heights and ancestors have their types.
LEMMA Heights ==
    /\ Height \subseteq Nat
    /\ \A b \in Block : height[b] \in Height /\ 0 .. height[b] \subseteq Height
<1>1. Height \subseteq Nat /\ \A b \in Block : height[b] \in Height
  BY TreeAssumption DEF Height
<1>2. ASSUME NEW b \in Block, NEW h \in 0 .. height[b]
      PROVE  h \in Height
  <2>1. anc[b] \in [0 .. height[b] -> Block] /\ height[anc[b][h]] = h
    BY TreeAssumption, Zenon
  <2>2. anc[b][h] \in Block
    BY <2>1, Zenon
  <2> QED BY <2>1, <2>2, Zenon DEF Height
<1> QED BY <1>1, <1>2, Zenon

\* Two branches that meet at a height are the same below it.
LEMMA BranchesMeet ==
    ASSUME NEW b \in Block, NEW c \in Block, NEW f \in Nat,
           f <= height[b], f <= height[c], anc[b][f] = anc[c][f]
    PROVE  \A h \in 0 .. f : anc[b][h] = anc[c][h]
<1> DEFINE D == {h \in 0 .. f : anc[b][h] # anc[c][h]}
<1>1. SUFFICES ASSUME D # {} PROVE FALSE
  BY Zenon
<1>2. PICK x \in D : \A y \in D : y <= x
  <2>1. D \subseteq 0 .. f
    BY Zenon
  <2> HIDE DEF D
  <2> QED BY <1>1, <2>1, BoundedMax, Zenon
<1>3. x \in 0 .. f /\ x # f /\ x + 1 \in 1 .. f /\ ~(x + 1 <= x)
  BY <1>2
<1>4. anc[b][x + 1] = anc[c][x + 1]
  BY <1>2, <1>3
<1>5. height[b] \in Nat /\ height[c] \in Nat
  BY TreeAssumption, Zenon
<1>6. prev[anc[b][x + 1]] = anc[b][x + 1 - 1] /\ prev[anc[c][x + 1]] = anc[c][x + 1 - 1]
  <2>1. x + 1 \in 1 .. height[b] /\ x + 1 \in 1 .. height[c]
    BY <1>3, <1>5
  <2>2. \A a \in Block : \A h \in 1 .. height[a] : prev[anc[a][h]] = anc[a][h - 1]
    BY TreeAssumption
  <2> QED BY <2>1, <2>2
<1>7. anc[b][x] = anc[c][x]
  BY <1>3, <1>4, <1>6
<1> QED BY <1>2, <1>7, Zenon

\* What processFork finds: a height below both heads, up to which the branches
\* are one.
LEMMA ForkFound ==
    ASSUME NEW b \in Block \ {Genesis}, latestBlock \in Block, ~CannotFork(b)
    PROVE  /\ ForkHeight(b) \in 0 .. height[b] - 1
           /\ ForkHeight(b) <= height[latestBlock]
           /\ \A h \in 0 .. ForkHeight(b) : anc[b][h] = anc[latestBlock][h]
           /\ height[latestBlock] - ForkHeight(b) <= PoVMaxForkHeight
<1> DEFINE f == ForkHeight(b)
           Common == {-1} \cup {h \in 0 .. height[b] - 1 :
                        h < height[latestBlock] /\ anc[b][h] = anc[latestBlock][h]}
<1>1. height[b] \in Nat /\ height[latestBlock] \in Nat /\ PoVMaxForkHeight \in Nat
  BY TreeAssumption, ParamAssumption
<1>2. f \in 0 .. height[b] - 1 /\ f <= height[latestBlock]
      /\ anc[b][f] = anc[latestBlock][f]
  <2>1. CASE prev[b] = latestBlock
    <3>0. height[b] = height[prev[b]] + 1
      BY TreeAssumption, Zenon
    <3>1. f = height[latestBlock] /\ height[b] = height[latestBlock] + 1
      BY <2>1, <3>0, Zenon DEF ForkHeight
    <3>2. \A h \in 0 .. height[prev[b]] : anc[b][h] = anc[prev[b]][h]
      BY TreeAssumption, Zenon
    <3> HIDE DEF f
    <3> QED BY <1>1, <2>1, <3>1, <3>2
  <2>2. CASE prev[b] # latestBlock
    <3>1. f = CHOOSE h \in Common : \A g \in Common : g <= h
      BY <2>2, Zenon DEF ForkHeight
    <3>2. \E h \in Common : \A g \in Common : g <= h
      <4> DEFINE C == Common \ {-1}
      <4>1. CASE C = {}
        <5>1. Common = {-1}
          BY <4>1, Zenon
        <5> QED BY <5>1
      <4>2. CASE C # {}
        <5>1. C \subseteq 0 .. height[b] /\ \A g \in Common : g = -1 \/ g \in C
          BY <1>1
        <5>2. PICK x \in C : \A y \in C : y <= x
          <6> HIDE DEF C
          <6> QED BY <1>1, <4>2, <5>1, BoundedMax, Zenon
        <5>3. x \in Common /\ x \in Nat
          BY <5>2
        <5>4. \A g \in Common : g <= x
          BY <5>1, <5>2, <5>3
        <5> QED BY <5>3, <5>4, Zenon
      <4> QED BY <4>1, <4>2, Zenon
    <3>3. f \in Common
      <4> HIDE DEF Common, f
      <4> QED BY <3>1, <3>2, Zenon
    <3>4. f # -1
      BY Zenon DEF CannotFork
    <3> QED BY <1>1, <3>3, <3>4
  <2> QED BY <2>1, <2>2, Zenon
<1>3. \A h \in 0 .. f : anc[b][h] = anc[latestBlock][h]
  <2> HIDE DEF f
  <2> QED BY <1>1, <1>2, BranchesMeet
<1>4. height[latestBlock] - f <= PoVMaxForkHeight
  BY <1>1, <1>2 DEF CannotFork
<1> QED BY <1>2, <1>3, <1>4, Zenon

---------------------------------------------------------------------------
\* What also holds after a transaction failed.
Head == best[latestHeight]
PathTo(b) == [h \in Height |-> IF h <= height[b] THEN anc[b][h] ELSE None]

\* The goroutine knows where it is in a scan or what it is going to commit.
ScanOK ==
    /\ proc.pc = "commit" => proc.next \in 1 .. height[proc.block]
    /\ proc.pc = "cursor" => proc.fork \in Block
    /\ proc.pc \in {"cursor", "lookups", "mark"} => proc.next >= 1
    /\ proc.pc = "mark" => proc.next \in Height

\* A lookup points to a block that packs the transaction.
LookupsMatch == \A t \in AllTx : lookup[t] # None => t \in GetAllTxs(lookup[t])

Sane == TypeOK /\ ScanOK /\ HeadIsLoadable /\ LookupsMatch

\* Genesis is loadable and packs what it is looked up for.
LEMMA SaneInit == Init => Sane
<1> SUFFICES ASSUME Init PROVE Sane
  BY Zenon
<1>1. Genesis \in Block /\ height[Genesis] = 0 /\ 0 \in Height
  BY TreeAssumption, Heights, Zenon
<1>2. TypeOK
  <2>1. lookup \in [AllTx -> Block \cup {None}]
    BY <1>1, Zenon DEF Init
  <2>2. best \in [Height -> Block \cup {None}] /\ heightBlockCache \in [Height -> Block \cup {None}]
    BY <1>1, Zenon DEF Init
  <2>3. crashes \in 0 .. MaxCrash /\ failures \in 0 .. MaxFail
    BY ParamAssumption DEF Init
  <2>4. diffStat \in [Day -> SUBSET Block] /\ minerStat \in [Day -> SUBSET Block]
    BY Zenon DEF Init
  <2>5. proc \in ProcType
    BY <1>1, Zenon DEF Init, Idle, ProcType
  <2> QED BY <1>1, <2>1, <2>2, <2>3, <2>4, <2>5, Zenon DEF Init, TypeOK
<1>3. ScanOK
  BY Zenon DEF Init, Idle, ScanOK
<1>4. HeadIsLoadable
  BY <1>1, Zenon DEF Init, HeadIsLoadable
<1>5. LookupsMatch
  BY Zenon DEF Init, LookupsMatch
<1> QED BY <1>2, <1>3, <1>4, <1>5, Zenon DEF Sane

\* Where a scan starts.
LEMMA ScanStarts ==
    ASSUME cursor \in Height, NEW fork \in Block \cup {None}, NEW init \in BOOLEAN
    PROVE  LET s == StartScan(fork, init)
           IN /\ s \in ProcType
              /\ s.pc \in {"cursor", "lookups"} /\ s.next >= 1
              /\ s.pc = "cursor" => s.fork \in Block
<1>1. Genesis \in Block /\ None \notin Block /\ cursor \in Nat
  BY TreeAssumption, Heights, Zenon
<1>2. fork # None => height[fork] \in Nat
  BY TreeAssumption, Zenon
<1>3. CASE fork = None
  <2>1. StartScan(fork, init) =
          [pc |-> "lookups", block |-> Genesis, head |-> Genesis, fork |-> None,
           next |-> cursor + 1, init |-> init]
    BY <1>3, Zenon DEF StartScan
  <2> QED BY <1>1, <1>3, <2>1 DEF ProcType
<1>4. CASE fork # None
  <2>1. StartScan(fork, init) =
          [pc |-> "cursor", block |-> Genesis, head |-> Genesis, fork |-> fork,
           next |-> height[fork] + 1, init |-> init]
    BY <1>4, Zenon DEF StartScan
  <2> QED BY <1>1, <1>2, <1>4, <2>1 DEF ProcType
<1> QED BY <1>3, <1>4, Zenon

\* A scan that starts is one that ScanOK allows.
LEMMA ScanStartsSane ==
    ASSUME TypeOK, NEW fork \in Block \cup {None}, NEW init \in BOOLEAN,
           proc' = StartScan(fork, init)
    PROVE  proc' \in ProcType /\ ScanOK' /\ proc'.pc \in {"cursor", "lookups"}
<1> DEFINE s == StartScan(fork, init)
<1>1. s \in ProcType /\ s.pc \in {"cursor", "lookups"} /\ s.next >= 1
      /\ (s.pc = "cursor" => s.fork \in Block)
  BY ScanStarts, Zenon DEF TypeOK
<1>2. proc' = s
  BY Zenon
<1> HIDE DEF s
<1> QED BY <1>1, <1>2, Zenon DEF ScanOK

\* Wherever an insertion leaves the head in memory, it is a block, and so is
\* every entry of the cache.
LEMMA MoveTyped ==
    ASSUME TypeOK, NEW b \in Block \ {Genesis}, NEW m \in Block, ~CannotFork(b), MoveHead(b, m)
    PROVE  /\ latestBlock' = m
           /\ heightBlockCache' \in [Height -> Block \cup {None}]
<1> DEFINE f == ForkHeight(b)
<1>1. f \in 0 .. height[b] - 1
  BY ForkFound, Zenon DEF TypeOK
<1>2. height[b] \in Nat /\ height[m] \in Nat /\ anc[m] \in [0 .. height[m] -> Block]
  BY TreeAssumption, Zenon
<1>3. heightBlockCache' = [h \in Height |->
        IF h \in f .. height[m] THEN anc[m][h]
        ELSE IF h \in height[m] + 1 .. height[latestBlock] THEN None
        ELSE heightBlockCache[h]]
  BY Zenon DEF MoveHead
<1> HIDE DEF f
<1>4. \A h \in f .. height[m] : anc[m][h] \in Block
  BY <1>1, <1>2
<1>5. \A h \in Height : heightBlockCache[h] \in Block \cup {None}
  BY Zenon DEF TypeOK
<1> QED BY <1>3, <1>4, <1>5, Zenon DEF MoveHead

\* A step that writes nothing but blocks to the store keeps what is there.
LEMMA StoreAside ==
    ASSUME Sane, blocks \subseteq blocks', UNCHANGED <<best, latestHeight, lookup>>
    PROVE  HeadIsLoadable' /\ LookupsMatch'
  BY Zenon DEF Sane, HeadIsLoadable, LookupsMatch

\* An insertion, refused, aside, best or broken on the way.
LEMMA InsertSane ==
    ASSUME Sane, NEW b \in Block \ {Genesis}, InsertBlock(b)
    PROVE  Sane'
<1>1. TypeOK /\ ScanOK /\ failures \in 0 .. MaxFail
  BY Zenon DEF Sane, TypeOK
<1>2. ASSUME proc' = StartScan(None, FALSE)
      PROVE  proc' \in ProcType /\ ScanOK'
  BY <1>1, <1>2, ScanStartsSane, Zenon
<1>3. CASE InsertRefused(b)
  <2>1. TypeOK'
    BY <1>1, <1>2, <1>3, Zenon DEF InsertRefused, TypeOK, store, indexes, memory
  <2> QED BY <1>2, <1>3, <2>1, StoreAside, Zenon DEF InsertRefused, Sane, store, indexes
<1>4. CASE InsertSide(b)
  <2>1. TypeOK'
    BY <1>1, <1>2, <1>4, Zenon DEF InsertSide, TypeOK, indexes, memory
  <2> QED BY <1>2, <1>4, <2>1, StoreAside, Zenon DEF InsertSide, Sane, indexes
<1>5. CASE InsertBest(b)
  <2> DEFINE f == ForkHeight(b)
  <2>1. f \in 0 .. height[b] - 1 /\ height[b] \in Nat /\ anc[b] \in [0 .. height[b] -> Block]
    <3>1. f \in 0 .. height[b] - 1
      BY <1>1, <1>5, ForkFound, Zenon DEF InsertBest, TypeOK
    <3> QED BY <3>1, TreeAssumption, Zenon
  <2>2. latestBlock' = b /\ heightBlockCache' \in [Height -> Block \cup {None}]
    BY <1>1, <1>5, MoveTyped, Zenon DEF InsertBest
  <2>3. proc' = [pc |-> "commit", block |-> b, head |-> latestBlock,
                 fork |-> IF prev[b] = latestBlock THEN None ELSE anc[b][f],
                 next |-> f + 1, init |-> FALSE]
    BY <1>5, Zenon DEF InsertBest
  <2> HIDE DEF f
  <2>4. anc[b][f] \in Block /\ f + 1 \in Nat /\ f + 1 \in 1 .. height[b]
    BY <2>1
  <2>5. proc' \in ProcType
    BY <1>1, <2>3, <2>4, Zenon DEF ProcType, TypeOK
  <2>6. TypeOK'
    BY <1>1, <1>5, <2>2, <2>5, Zenon DEF InsertBest, TypeOK, store, indexes
  <2>7. ScanOK'
    BY <2>3, <2>4, Zenon DEF ScanOK
  <2> QED BY <1>5, <2>6, <2>7, StoreAside, Zenon DEF InsertBest, Sane, store, indexes
<1>6. CASE InsertBroken(b)
  <2>1. ~CannotFork(b) /\ ForkHeight(b) \in 0 .. height[b] - 1
    BY <1>1, <1>6, ForkFound, Zenon DEF InsertBroken, TypeOK
  <2>2. Waypoints(b) \subseteq Block
    <3> DEFINE f == ForkHeight(b)
    <3>1. \A c \in Block : height[c] \in Nat /\ anc[c] \in [0 .. height[c] -> Block]
      BY TreeAssumption, Zenon
    <3>2. latestBlock \in Block /\ b \in Block /\ f \in 0 .. height[b] - 1
      BY <1>1, <2>1, Zenon DEF TypeOK
    <3> HIDE DEF f
    <3>3. ASSUME NEW c \in {b, latestBlock}, NEW h \in f + 1 .. height[c]
          PROVE  anc[c][h] \in Block
      <4>1. height[c] \in Nat /\ height[b] \in Nat /\ anc[c] \in [0 .. height[c] -> Block]
        BY <3>1, <3>2, Zenon
      <4>2. h \in 0 .. height[c]
        BY <3>2, <4>1
      <4> QED BY <4>1, <4>2, Zenon
    <3>4. anc[b][f] \in Block
      <4>1. f \in 0 .. height[b]
        BY <3>1, <3>2
      <4> QED BY <3>1, <3>2, <4>1, Zenon
    <3> QED BY <3>3, <3>4, Zenon DEF Waypoints, Detached, Attached, f
  <2>3. PICK m \in Waypoints(b) : MoveHead(b, m)
    BY <1>6, Zenon DEF InsertBroken
  <2>4. latestBlock' = m /\ m \in Block /\ heightBlockCache' \in [Height -> Block \cup {None}]
    BY <1>1, <2>1, <2>2, <2>3, MoveTyped, Zenon
  <2>5. failures' \in 0 .. MaxFail
    BY <1>1, <1>6, ParamAssumption DEF InsertBroken
  <2>6. TypeOK'
    BY <1>1, <1>2, <1>6, <2>4, <2>5, Zenon DEF InsertBroken, TypeOK, store, indexes
  <2> QED BY <1>2, <1>6, <2>6, StoreAside, Zenon DEF InsertBroken, Sane, store, indexes
<1> QED BY <1>3, <1>4, <1>5, <1>6, Zenon DEF InsertBlock

\* A commit makes a stored block the head, and looks up the coinbases of the
\* blocks that join.
LEMMA CommitSane ==
    ASSUME Sane, Commit
    PROVE  Sane'
<1> DEFINE b == proc.block
           joined == {anc[b][h] : h \in proc.next .. height[b]}
           left == {anc[proc.head][h] : h \in proc.next .. height[proc.head]}
<1>1. TypeOK /\ b \in Block /\ proc.next \in 1 .. height[b] /\ proc.fork \in Block \cup {None}
  BY Zenon DEF Sane, TypeOK, ProcType, ScanOK, Commit
<1>2. height[b] \in Nat /\ height[b] \in Height /\ anc[b] \in [0 .. height[b] -> Block]
      /\ anc[b][height[b]] = b
  BY <1>1, Heights, TreeAssumption, Zenon
<1>3. /\ blocks' = blocks \cup {b}
      /\ best' = [h \in Height |->
            IF h \in proc.next .. height[b] THEN anc[b][h]
            ELSE IF h \in proc.next .. height[proc.head] THEN None ELSE best[h]]
      /\ latestHeight' = height[b]
      /\ lookup' = [t \in AllTx |-> IF t \in joined THEN t
                                    ELSE IF t \in left THEN None ELSE lookup[t]]
      /\ proc' = StartScan(proc.fork, FALSE)
      /\ UNCHANGED <<cursor, diffStat, minerStat, memory, timer, torn, crashes, failures>>
  BY Zenon DEF Commit
<1>4. proc' \in ProcType /\ ScanOK'
  BY <1>1, <1>3, ScanStartsSane, Zenon
<1>5. joined \subseteq Block
  <2> DEFINE first == proc.next
             last == height[b]
  <2>1. first \in 1 .. last /\ last \in Nat /\ anc[b] \in [0 .. last -> Block]
    BY <1>1, <1>2, Zenon
  <2> HIDE DEF first, last
  <2>2. \A h \in first .. last : h \in 0 .. last
    BY <2>1
  <2>3. \A h \in first .. last : anc[b][h] \in Block
    BY <2>1, <2>2, Zenon
  <2> QED BY <2>3, Zenon DEF first, last
<1>6. best' \in [Height -> Block \cup {None}]
  <2>1. \A h \in proc.next .. height[b] : anc[b][h] \in Block
    BY <1>5, Zenon
  <2>2. \A h \in Height : best[h] \in Block \cup {None}
    BY <1>1, Zenon DEF TypeOK
  <2> QED BY <1>3, <2>1, <2>2, Zenon
<1>7. best'[latestHeight'] = b
  <2> DEFINE first == proc.next
             last == height[b]
  <2>1. first \in 1 .. last /\ last \in Nat
    BY <1>1, <1>2, Zenon
  <2> HIDE DEF first, last
  <2>2. last \in first .. last
    BY <2>1
  <2> QED BY <1>2, <1>3, <2>2, Zenon DEF first, last
<1> HIDE DEF joined, left
<1>8. TypeOK'
  <2>1. \A t \in AllTx : lookup[t] \in Block \cup {None}
    BY <1>1, Zenon DEF TypeOK
  <2>2. lookup' \in [AllTx -> Block \cup {None}]
    BY <1>3, <1>5, <2>1, Zenon
  <2>3. blocks' \subseteq Block /\ Genesis \in blocks'
    BY <1>1, <1>3, Zenon DEF TypeOK
  <2> QED BY <1>1, <1>2, <1>3, <1>4, <1>6, <2>2, <2>3, Zenon DEF TypeOK, memory
<1>9. HeadIsLoadable'
  <2>1. b \in blocks' /\ height[b] = latestHeight'
    BY <1>3, Zenon
  <2> HIDE DEF b
  <2> QED BY <1>7, <2>1, Zenon DEF HeadIsLoadable
<1>10. LookupsMatch'
  BY <1>3, Zenon DEF LookupsMatch, GetAllTxs, Sane
<1> QED BY <1>4, <1>8, <1>9, <1>10, Zenon DEF Sane

\* A scan looks up what the block packs, wherever it reads the block.
LEMMA ScanSane ==
    ASSUME Sane, ResetCursor \/ WriteLookups \/ AdvanceCursor \/ EndScan
    PROVE  Sane'
<1>1. TypeOK /\ ScanOK /\ proc \in ProcType /\ latestBlock \in Block
  BY Zenon DEF Sane, TypeOK
<1>2. CASE ResetCursor
  <2>1. height[proc.fork] \in Height
    BY <1>1, <1>2, Heights, Zenon DEF ResetCursor, ScanOK
  <2>2. proc' \in ProcType /\ proc'.pc = "lookups" /\ proc'.next = proc.next
    BY <1>1, <1>2, Zenon DEF ResetCursor, ProcType
  <2>3. TypeOK'
    BY <1>1, <1>2, <2>1, <2>2, Zenon DEF TypeOK, ResetCursor, store, memory
  <2>4. ScanOK'
    BY <1>1, <1>2, <2>2, Zenon DEF ScanOK, ResetCursor
  <2> QED BY <1>2, <2>3, <2>4, StoreAside, Zenon DEF ResetCursor, Sane, store
<1>3. CASE WriteLookups
  <2> DEFINE b == GetBlockByHeight(proc.next)
  <2>1. proc.next \in Height
    <3>1. proc.next \in 0 .. height[latestBlock]
      BY <1>1, <1>3, Heights DEF WriteLookups, ScanOK, ProcType
    <3> QED BY <1>1, <3>1, Heights, Zenon
  <2>2. b \in Block
    BY <1>1, <1>3, <2>1, Zenon DEF WriteLookups, GetBlockByHeight, TypeOK
  <2>3. proc' \in ProcType /\ proc'.pc = "mark" /\ proc'.next = proc.next
    BY <1>1, <1>3, Zenon DEF WriteLookups, ProcType
  <2>4. /\ lookup' = [t \in AllTx |-> IF t \in GetAllTxs(b) THEN b ELSE lookup[t]]
        /\ heightBlockCache' = [heightBlockCache EXCEPT ![proc.next] = b]
    BY <1>3, Zenon DEF WriteLookups
  <2>5. /\ lookup' \in [AllTx -> Block \cup {None}]
        /\ heightBlockCache' \in [Height -> Block \cup {None}]
    <3> HIDE DEF b
    <3> QED BY <1>1, <2>2, <2>4, Zenon DEF TypeOK
  <2>6. TypeOK'
    BY <1>1, <1>3, <2>3, <2>5, Zenon DEF TypeOK, WriteLookups, store
  <2>7. ScanOK'
    BY <1>1, <1>3, <2>1, <2>3, Zenon DEF ScanOK, WriteLookups
  <2>8. LookupsMatch'
    <3> HIDE DEF b
    <3> QED BY <2>4, Zenon DEF LookupsMatch, Sane, GetAllTxs
  <2>9. HeadIsLoadable'
    BY <1>3, Zenon DEF HeadIsLoadable, Sane, WriteLookups, store
  <2> QED BY <2>6, <2>7, <2>8, <2>9, Zenon DEF Sane
<1>4. CASE AdvanceCursor
  <2>1. proc.next \in Height /\ proc.next \in Nat /\ proc.next >= 1
    BY <1>1, <1>4, Zenon DEF AdvanceCursor, ScanOK, ProcType
  <2>2. proc' \in ProcType /\ proc'.pc = "lookups" /\ proc'.next = proc.next + 1
    <3>1. proc' = [proc EXCEPT !.pc = "lookups", !.next = proc.next + 1]
      BY <1>4, Zenon DEF AdvanceCursor
    <3>2. proc.next + 1 \in Nat
      BY <2>1
    <3> QED BY <1>1, <3>1, <3>2, Zenon DEF ProcType
  <2>3. TypeOK'
    BY <1>1, <1>4, <2>1, <2>2, Zenon DEF TypeOK, AdvanceCursor, store, memory
  <2>4. ScanOK'
    BY <2>1, <2>2 DEF ScanOK
  <2> QED BY <1>4, <2>3, <2>4, StoreAside, Zenon DEF AdvanceCursor, Sane, store
<1>5. CASE EndScan
  <2>1. proc' \in ProcType /\ proc'.pc = "stats"
    BY <1>1, <1>5, Zenon DEF EndScan, ProcType
  <2>2. TypeOK'
    BY <1>1, <1>5, <2>1, Zenon DEF TypeOK, EndScan, store, memory, indexes
  <2>3. ScanOK'
    BY <2>1, Zenon DEF ScanOK
  <2> QED BY <1>5, <2>2, <2>3, StoreAside, Zenon DEF EndScan, Sane, store, indexes
<1> QED BY <1>2, <1>3, <1>4, <1>5, Zenon

\* The statistics hold sets of blocks.
LEMMA WrittenTyped ==
    ASSUME best \in [Height -> Block \cup {None}],
           NEW stat \in [Day -> SUBSET Block], NEW start, NEW ready
    PROVE  Written(stat, start, ready) \in [Day -> SUBSET Block]
<1>1. \A d \in Day : HasHeaders(d) => DayHeaders(d) \subseteq Block
  BY Zenon DEF HasHeaders, DayHeaders
<1>2. Day \subseteq Int
  <2>1. Day \subseteq Height /\ Height \subseteq Nat
    BY Heights, Zenon DEF Day
  <2> QED BY <2>1
<1>3. ASSUME NEW d \in Day, start <= d,
             \A e \in Day : start <= e /\ e <= d => e \in ready /\ HasHeaders(e)
      PROVE  DayHeaders(d) \subseteq Block
  <2>1. d <= d
    BY <1>2
  <2> QED BY <1>1, <1>3, <2>1, Zenon
<1> QED BY <1>3, Zenon DEF Written

\* The statistics write nothing else.
LEMMA StatsSane ==
    ASSUME Sane, UpdateStats \/ StatTick \/ StatWrite
    PROVE  Sane'
<1>1. TypeOK /\ ScanOK
  BY Zenon DEF Sane
<1>2. \A top : MinerStats(top) \in [Day -> SUBSET Block]
  BY <1>1, WrittenTyped, Zenon DEF MinerStats, TypeOK
<1>3. CASE UpdateStats
  <2>1. DiffStats(proc.fork) \in [Day -> SUBSET Block]
    <3> DEFINE top == height[latestBlock]
               endDay == DayOf(top)
               last == LastDay(diffStat)
               startDay == IF proc.fork = None THEN endDay ELSE ForkDay(proc.fork)
               start == IF last < startDay THEN last + 1 ELSE startDay
               kept == [d \in Day |-> IF d \in endDay .. last THEN {} ELSE diffStat[d]]
               ready == {d \in Day : d <= endDay /\ DayEnd(d) <= top}
    <3>1. kept \in [Day -> SUBSET Block]
      BY <1>1, Zenon DEF TypeOK
    <3>2. DiffStats(proc.fork) = IF top < POVChainBlocksPerDay THEN diffStat
                                 ELSE Written(kept, start, ready)
      BY Zenon DEF DiffStats
    <3> HIDE DEF top, start, kept, ready
    <3>3. Written(kept, start, ready) \in [Day -> SUBSET Block]
      BY <1>1, <3>1, WrittenTyped, Zenon DEF TypeOK
    <3> QED BY <1>1, <3>2, <3>3, Zenon DEF TypeOK
  <2>2. diffStat' \in [Day -> SUBSET Block] /\ minerStat' \in [Day -> SUBSET Block]
    BY <1>1, <1>2, <1>3, <2>1, Zenon DEF UpdateStats, TypeOK
  <2>3. proc' \in ProcType /\ proc'.pc = "idle"
    BY <1>3, TreeAssumption, Zenon DEF UpdateStats, Idle, ProcType
  <2>4. TypeOK'
    BY <1>1, <1>3, <2>2, <2>3, Zenon DEF TypeOK, UpdateStats, store, memory
  <2>5. ScanOK'
    BY <2>3, Zenon DEF ScanOK
  <2> QED BY <1>3, <2>4, <2>5, StoreAside, Zenon DEF UpdateStats, Sane, store
<1>4. ASSUME StatTick \/ StatWrite PROVE Sane'
  <2>1. UNCHANGED <<store, lookup, proc>>
    BY <1>4, Zenon DEF StatTick, StatWrite, indexes
  <2>2. TypeOK'
    <3>1. CASE StatTick
      BY <1>1, <3>1, Heights, Zenon DEF TypeOK, StatTick, store, memory, indexes
    <3>2. CASE StatWrite
      BY <1>1, <1>2, <3>2, Zenon DEF TypeOK, StatWrite, store, memory
    <3> QED BY <1>4, <3>1, <3>2, Zenon
  <2>3. ScanOK'
    BY <1>1, <2>1, Zenon DEF ScanOK
  <2> QED BY <2>1, <2>2, <2>3, StoreAside, Zenon DEF Sane, store
<1> QED BY <1>3, <1>4, Zenon

\* A restart finds the head that it loads.
LEMMA RestartSane ==
    ASSUME Sane, Restart
    PROVE  Sane'
<1>1. TypeOK /\ best[latestHeight] \in Block
  BY Zenon DEF Sane, HeadIsLoadable, TypeOK
<1>2. proc' \in ProcType /\ ScanOK'
  BY <1>1, ScanStartsSane, Zenon DEF Restart
<1>3. latestBlock' \in Block /\ heightBlockCache' \in [Height -> Block \cup {None}]
  BY <1>1, Zenon DEF Restart, loadLastState, TypeOK
<1>4. crashes' \in 0 .. MaxCrash
  <2>1. crashes \in 0 .. MaxCrash /\ crashes < MaxCrash /\ crashes' = crashes + 1
    BY <1>1, Zenon DEF Restart, TypeOK
  <2>2. MaxCrash \in Nat
    BY ParamAssumption, Zenon
  <2> QED BY <2>1, <2>2
<1>5. timer' \in Height \cup {-1} /\ torn' \in BOOLEAN
  BY <1>1, Zenon DEF Restart, TypeOK
<1>6. TypeOK'
  BY <1>1, <1>2, <1>3, <1>4, <1>5, Zenon DEF Restart, TypeOK, store, indexes
<1> QED BY <1>2, <1>6, StoreAside, Zenon DEF Restart, Sane, store, indexes

\* Every step, a failing transaction included, leaves the state sane.
LEMMA SaneStep == Sane /\ [Next]_vars => Sane'
<1> SUFFICES ASSUME Sane, [Next]_vars PROVE Sane'
  BY Zenon
<1>1. CASE CommitFails
  <2>1. TypeOK /\ failures \in 0 .. MaxFail
    BY Zenon DEF Sane, TypeOK
  <2>2. proc' \in ProcType /\ ScanOK'
    BY <1>1, <2>1, ScanStartsSane, Zenon DEF CommitFails
  <2>3. failures' \in 0 .. MaxFail
    BY <1>1, <2>1, ParamAssumption DEF CommitFails
  <2>4. TypeOK'
    BY <1>1, <2>1, <2>2, <2>3, Zenon DEF CommitFails, TypeOK, store, indexes, memory
  <2> QED BY <1>1, <2>2, <2>4, StoreAside, Zenon DEF CommitFails, Sane, store, indexes
<1>2. CASE UNCHANGED vars
  BY <1>2, Zenon DEF vars, Sane, TypeOK, ScanOK, HeadIsLoadable, LookupsMatch
<1> QED BY <1>1, <1>2, InsertSane, CommitSane, ScanSane, StatsSane, RestartSane, Zenon DEF Next

\* Every field of the chain has its type, also after failed transactions.
THEOREM ChainTypes == Spec => []TypeOK
<1>1. Sane => TypeOK
  BY Zenon DEF Sane
<1> QED BY <1>1, SaneInit, SaneStep, PTL DEF Spec

\* Whenever the process dies, also after failed transactions, loadLastState
\* finds a stored block at the height of the head.
THEOREM HeadStaysLoadable == Spec => []HeadIsLoadable
<1>1. Sane => HeadIsLoadable
  BY Zenon DEF Sane
<1> QED BY <1>1, SaneInit, SaneStep, PTL DEF Spec

\* A lookup that HasPovTxLookup finds leads to a block of the best chain that
\* packs the transaction, in the middle of a scan and after a failed
\* transaction whose blocks the scan looked up.
THEOREM LookupsStaySound == Spec => []LookupsAreSound
<1>1. Sane => LookupsAreSound
  <2> SUFFICES ASSUME Sane, NEW t \in AllTx, HasPovTxLookup(t)
               PROVE  \E h \in Height : best[h] # None /\ t \in GetAllTxs(best[h])
    BY Zenon DEF LookupsAreSound
  <2>1. lookup[t] \in Block /\ t \in GetAllTxs(lookup[t]) /\ best[height[lookup[t]]] = lookup[t]
    BY Zenon DEF Sane, TypeOK, LookupsMatch, HasPovTxLookup
  <2>2. height[lookup[t]] \in Height /\ lookup[t] # None
    BY <2>1, Heights, TreeAssumption, Zenon
  <2> QED BY <2>1, <2>2, Zenon
<1> QED BY <1>1, SaneInit, SaneStep, PTL DEF Spec
---------------------------------------------------------------------------
\* The store is whole: the head is stored, at its height, and is the heaviest.
StoreOK ==
    /\ Head \in blocks
    /\ height[Head] = latestHeight
    /\ best = PathTo(Head)
    /\ \A b \in blocks : td[b] <= td[Head]

\* Memory agrees with the store, or is ahead of it by the open transaction.
MemoryOK ==
    IF proc.pc # "commit" THEN latestBlock = Head
    ELSE /\ latestBlock = proc.block /\ proc.head = Head
         /\ proc.block # Genesis /\ prev[proc.block] \in blocks
         /\ td[proc.block] >= td[Head]
         /\ proc.next \in 1 .. height[proc.block] /\ proc.next <= latestHeight + 1
         /\ \A h \in 0 .. proc.next - 1 : anc[proc.block][h] = anc[Head][h]
         /\ latestHeight + 1 - proc.next <= PoVMaxForkHeight

IndInv == Sane /\ StoreOK /\ MemoryOK

\* The chain starts with genesis in store and memory.
LEMMA InitEstablishes == Init => IndInv
<1> SUFFICES ASSUME Init PROVE IndInv
  BY Zenon
<1>1. Genesis \in Block /\ height[Genesis] = 0 /\ anc[Genesis][0] = Genesis /\ 0 \in Height
  BY TreeAssumption, Heights, Zenon
<1>2. Head = Genesis /\ latestHeight = 0
  BY <1>1, Zenon DEF Init, Head
<1>3. StoreOK
  <2>1. \A h \in Height : (h <= 0) <=> (h = 0)
    BY Heights
  <2>2. best = PathTo(Genesis)
    BY <1>1, <2>1, Zenon DEF Init, PathTo
  <2>3. td[Genesis] <= td[Genesis]
    BY <1>1, WorkAssumption
  <2> QED BY <1>1, <1>2, <2>2, <2>3, Zenon DEF StoreOK, Init
<1>4. MemoryOK
  BY <1>2, Zenon DEF Init, Idle, MemoryOK
<1> QED BY <1>3, <1>4, SaneInit, Zenon DEF IndInv

\* A step that leaves the store and the head in memory alone, and ends or
\* carries on a scan.
LEMMA QuietStep ==
    ASSUME IndInv, UNCHANGED <<store, latestBlock>>, proc.pc # "commit", proc'.pc # "commit",
           Sane'
    PROVE  IndInv'
<1>1. Head' = Head
  BY Zenon DEF store, Head
<1>2. StoreOK'
  BY <1>1, Zenon DEF IndInv, StoreOK, store, PathTo
<1>3. MemoryOK'
  BY <1>1, Zenon DEF IndInv, MemoryOK
<1> QED BY <1>2, <1>3, Zenon DEF IndInv

\* An insertion moves memory at most to the block it is going to commit.
LEMMA InsertKeeps ==
    ASSUME failures' = 0, IndInv, NEW b \in Block \ {Genesis}, InsertBlock(b)
    PROVE  IndInv'
<1>1. TypeOK /\ StoreOK /\ latestBlock = Head /\ Head \in blocks /\ Head \in Block
  BY Zenon DEF IndInv, Sane, StoreOK, MemoryOK, InsertBlock, TypeOK
<1>2. height[b] \in Nat /\ height[latestBlock] \in Nat /\ td[b] \in Int /\ td[latestBlock] \in Int
  BY <1>1, TreeAssumption, WorkAssumption
<1>3. Sane'
  BY InsertSane, Zenon DEF IndInv
<1>a. proc' = StartScan(None, FALSE) => proc'.pc # "commit"
  BY <1>1, ScanStartsSane, Zenon
<1>4. CASE InsertRefused(b)
  BY <1>3, <1>4, <1>a, QuietStep, Zenon DEF InsertRefused, memory, InsertBlock
<1>5. CASE InsertSide(b)
  <2>1. proc'.pc # "commit" /\ blocks' = blocks \cup {b}
        /\ UNCHANGED <<best, latestHeight, memory>>
    BY <1>5, <1>a, Zenon DEF InsertSide
  <2>4. Head' = Head
    BY <2>1, Zenon DEF Head
  <2>5. td[b] <= td[Head]
    BY <1>1, <1>2, <1>5 DEF InsertSide, MayBeSide
  <2>6. StoreOK'
    BY <1>1, <2>1, <2>4, <2>5, Zenon DEF StoreOK, PathTo
  <2>7. MemoryOK'
    BY <1>1, <2>1, <2>4, Zenon DEF MemoryOK, memory
  <2> QED BY <1>3, <2>6, <2>7, Zenon DEF IndInv
<1>6. CASE InsertBest(b)
  <2> DEFINE f == ForkHeight(b)
  <2>1. ~CannotFork(b)
    BY <1>6, Zenon DEF InsertBest
  <2>2. /\ f \in 0 .. height[b] - 1
        /\ f <= height[latestBlock]
        /\ \A h \in 0 .. f : anc[b][h] = anc[latestBlock][h]
        /\ height[latestBlock] - f <= PoVMaxForkHeight
    BY <1>1, <2>1, ForkFound, Zenon
  <2>3. latestBlock' = b /\ UNCHANGED <<store, indexes, timer, torn, crashes, failures>>
    BY <1>6, Zenon DEF InsertBest, MoveHead
  <2>5. proc' = [pc |-> "commit", block |-> b, head |-> latestBlock,
                 fork |-> IF prev[b] = latestBlock THEN None ELSE anc[b][f],
                 next |-> f + 1, init |-> FALSE]
    BY <1>6, Zenon DEF InsertBest
  <2> HIDE DEF f
  <2>9. Head' = Head /\ StoreOK'
    <3>1. Head' = Head
      BY <2>3, Zenon DEF Head, store
    <3> QED BY <1>1, <2>3, <3>1, Zenon DEF StoreOK, store, PathTo
  <2>10. td[b] >= td[Head]
    BY <1>1, <1>2, <1>6 DEF InsertBest, MayBeBest
  <2>11. latestHeight' = latestHeight /\ latestHeight = height[latestBlock]
         /\ blocks' = blocks /\ prev[b] \in blocks
    BY <1>1, <2>3, Zenon DEF store, StoreOK, InsertBlock
  <2>12. MemoryOK'
    <3>1. proc'.pc = "commit" /\ proc'.block = b /\ proc'.head = Head' /\ proc'.next = f + 1
      BY <1>1, <2>5, <2>9, Zenon
    <3>2. f + 1 \in 1 .. height[b] /\ f + 1 <= latestHeight' + 1 /\ 0 .. (f + 1) - 1 = 0 .. f
      BY <1>2, <2>2, <2>11
    <3>3. latestHeight' + 1 - (f + 1) <= PoVMaxForkHeight
      BY <1>2, <2>2, <2>11, ParamAssumption
    <3> QED BY <1>1, <2>2, <2>3, <2>9, <2>10, <2>11, <3>1, <3>2, <3>3, Zenon DEF MemoryOK
  <2> QED BY <1>3, <2>9, <2>12, Zenon DEF IndInv
<1>7. CASE InsertBroken(b)
  BY <1>1, <1>7 DEF InsertBroken, TypeOK
<1> QED BY <1>4, <1>5, <1>6, <1>7, Zenon DEF InsertBlock

\* The commit brings the store to where memory is.
LEMMA CommitKeeps ==
    ASSUME IndInv, Commit
    PROVE  IndInv' /\ Head' = proc.block
<1> DEFINE b == proc.block
           s == StartScan(proc.fork, FALSE)
<1>1. /\ TypeOK /\ StoreOK
      /\ b \in Block /\ b # Genesis /\ latestBlock = b /\ proc.head = Head
      /\ td[b] >= td[Head]
      /\ proc.next \in 1 .. height[b] /\ proc.next <= latestHeight + 1
      /\ \A h \in 0 .. proc.next - 1 : anc[b][h] = anc[Head][h]
      /\ Head \in Block
  BY Zenon DEF IndInv, Sane, MemoryOK, StoreOK, Commit, TypeOK
<1>2. height[b] \in Nat /\ latestHeight \in Nat /\ proc.next \in Nat /\ height[Head] = latestHeight
      /\ Height \subseteq Nat
  <2>1. Height \subseteq Nat /\ height[b] \in Nat
    BY <1>1, Heights, Zenon
  <2>2. latestHeight \in Height /\ height[Head] = latestHeight
    BY <1>1, Zenon DEF StoreOK, TypeOK
  <2>3. proc.next \in Nat
    BY <1>1, <2>1
  <2> QED BY <2>1, <2>2, <2>3, Zenon
<1>3. /\ blocks' = blocks \cup {b}
      /\ best' = [h \in Height |->
            IF h \in proc.next .. height[b] THEN anc[b][h]
            ELSE IF h \in proc.next .. height[Head] THEN None ELSE best[h]]
      /\ latestHeight' = height[b]
      /\ proc' = s
      /\ UNCHANGED <<cursor, diffStat, minerStat, memory, timer, torn, crashes, failures>>
  BY <1>1, Zenon DEF Commit
<1>4. best' = PathTo(b)
  <2>1. ASSUME NEW h \in Height
        PROVE  best'[h] = IF h <= height[b] THEN anc[b][h] ELSE None
    <3>1. h \in Nat /\ best[h] = IF h <= latestHeight THEN anc[Head][h] ELSE None
      BY <1>1, <1>2, Zenon DEF StoreOK, PathTo
    <3>2. CASE h < proc.next
      <4>1. h <= latestHeight /\ h <= height[b] /\ h \in 0 .. proc.next - 1
        BY <1>1, <1>2, <3>1, <3>2
      <4>2. best'[h] = best[h]
        BY <1>2, <1>3, <3>1, <3>2
      <4> QED BY <1>1, <3>1, <4>1, <4>2, Zenon
    <3>3. CASE h >= proc.next
      <4> DEFINE n == proc.next
                 top == height[b]
      <4>1. /\ n \in Nat /\ top \in Nat /\ latestHeight \in Nat /\ h \in Nat /\ h >= n
            /\ best[h] = IF h <= latestHeight THEN anc[Head][h] ELSE None
        BY <1>2, <3>1, <3>3, Zenon
      <4>2. best'[h] = IF h \in n .. top THEN anc[b][h]
                       ELSE IF h \in n .. latestHeight THEN None ELSE best[h]
        BY <1>2, <1>3, Zenon
      <4> HIDE DEF n, top
      <4>3. (h \in n .. top <=> h <= top) /\ (h \in n .. latestHeight <=> h <= latestHeight)
        BY <4>1
      <4>4. best'[h] = IF h <= top THEN anc[b][h] ELSE None
        BY <4>1, <4>2, <4>3, Zenon
      <4> QED BY <4>4, Zenon DEF top
    <3> DEFINE n == proc.next
    <3>4. n \in Nat /\ h \in Nat
      BY <1>2, <3>1, Zenon
    <3> HIDE DEF n
    <3>5. h < n \/ h >= n
      BY <3>4
    <3> QED BY <3>2, <3>3, <3>5, Zenon DEF n
  <2> QED BY <1>3, <2>1, Zenon DEF PathTo
<1>5. Head' = b
  <2>1. height[b] \in Height /\ height[b] <= height[b]
    BY <1>1, <1>2, Heights
  <2>2. anc[b][height[b]] = b
    BY <1>1, TreeAssumption, Zenon
  <2> QED BY <1>3, <1>4, <2>1, <2>2, Zenon DEF Head, PathTo
<1>6. StoreOK'
  <2>1. \A c \in blocks \cup {b} : td[c] <= td[b]
    <3>1. \A c \in Block : td[c] \in Int
      BY WorkAssumption
    <3>2. \A c \in blocks : td[c] <= td[Head] /\ c \in Block
      BY <1>1, Zenon DEF StoreOK, TypeOK
    <3> QED BY <1>1, <3>1, <3>2
  <2>2. best' = PathTo(Head')
    BY <1>4, <1>5, Zenon
  <2>3. PathTo(Head') = PathTo(Head)'
    BY Zenon DEF PathTo
  <2> QED BY <1>3, <1>5, <2>1, <2>2, <2>3, Zenon DEF StoreOK
<1>7. Sane' /\ proc'.pc # "commit"
  <2>1. proc.fork \in Block \cup {None}
    BY <1>1, Zenon DEF TypeOK, ProcType
  <2>2. proc'.pc # "commit"
    BY <1>1, <1>3, <2>1, ScanStartsSane, Zenon
  <2> QED BY <2>2, CommitSane, Zenon DEF IndInv
<1>8. MemoryOK'
  BY <1>1, <1>3, <1>5, <1>7, Zenon DEF MemoryOK, memory
<1> QED BY <1>5, <1>6, <1>7, <1>8, Zenon DEF IndInv

\* The scan touches lookups and cursor only.
LEMMA ScanKeeps ==
    ASSUME IndInv, ResetCursor \/ WriteLookups \/ AdvanceCursor \/ EndScan
    PROVE  IndInv'
<1>1. Sane' /\ proc \in ProcType
  BY ScanSane, Zenon DEF IndInv, Sane, TypeOK
<1>2. UNCHANGED <<store, latestBlock>> /\ proc.pc # "commit"
  BY Zenon DEF ResetCursor, WriteLookups, AdvanceCursor, EndScan, memory
<1>3. proc'.pc # "commit"
  BY <1>1, Zenon DEF ResetCursor, WriteLookups, AdvanceCursor, EndScan, ProcType
<1> QED BY <1>1, <1>2, <1>3, QuietStep, Zenon

\* The statistics touch no block.
LEMMA StatsKeep ==
    ASSUME IndInv, UpdateStats \/ StatTick \/ StatWrite
    PROVE  IndInv'
<1>1. StoreOK /\ MemoryOK /\ Sane'
  BY StatsSane, Zenon DEF IndInv
<1>2. CASE UpdateStats
  BY <1>1, <1>2, QuietStep, Zenon DEF UpdateStats, Idle, memory
<1>3. ASSUME StatTick \/ StatWrite PROVE IndInv'
  <2>1. UNCHANGED <<store, memory, proc>>
    BY <1>3, Zenon DEF StatTick, StatWrite
  <2>2. Head' = Head
    BY <2>1, Zenon DEF store, Head
  <2>3. StoreOK'
    BY <1>1, <2>1, <2>2, Zenon DEF StoreOK, store, PathTo
  <2>4. MemoryOK'
    BY <1>1, <2>1, <2>2, Zenon DEF MemoryOK, store, memory
  <2> QED BY <1>1, <2>3, <2>4, Zenon DEF IndInv
<1> QED BY <1>2, <1>3, Zenon

\* A restart takes memory back to the store.
LEMMA RestartKeeps ==
    ASSUME IndInv, Restart
    PROVE  IndInv'
<1>1. TypeOK /\ StoreOK /\ Sane'
  BY RestartSane, Zenon DEF IndInv, Sane
<1>2. proc'.pc # "commit"
  BY <1>1, ScanStartsSane, Zenon DEF Restart
<1>3. latestBlock' = Head /\ UNCHANGED store
  BY Zenon DEF Restart, loadLastState, Head
<1>4. Head' = Head
  BY <1>3, Zenon DEF Head, store
<1>5. StoreOK'
  BY <1>1, <1>3, <1>4, Zenon DEF StoreOK, store, PathTo
<1>6. MemoryOK'
  BY <1>2, <1>3, <1>4, Zenon DEF MemoryOK
<1> QED BY <1>1, <1>5, <1>6, Zenon DEF IndInv

\* Every step until a failure keeps the invariant.
LEMMA IndInvInductive ==
    ASSUME failures' = 0, IndInv, [Next]_vars
    PROVE  IndInv'
<1>1. CASE \E b \in Block \ {Genesis} : InsertBlock(b)
  BY <1>1, InsertKeeps, Zenon
<1>2. CASE Commit
  BY <1>2, CommitKeeps, Zenon
<1>3. CASE CommitFails
  BY <1>3 DEF CommitFails, IndInv, Sane, TypeOK
<1>4. CASE ResetCursor \/ WriteLookups \/ AdvanceCursor \/ EndScan
  BY <1>4, ScanKeeps, Zenon
<1>5. CASE UpdateStats \/ StatTick \/ StatWrite
  BY <1>5, StatsKeep, Zenon
<1>6. CASE Restart
  BY <1>6, RestartKeeps, Zenon
<1>7. CASE UNCHANGED vars
  <2>1. Sane'
    BY <1>7, SaneStep, Zenon DEF IndInv
  <2> QED BY <1>7, <2>1, Zenon DEF vars, IndInv, StoreOK, MemoryOK, Head, PathTo
<1> QED BY <1>1, <1>2, <1>3, <1>4, <1>5, <1>6, <1>7, Zenon DEF Next

\* A failure is never forgotten.
LEMMA FailuresStay ==
    ASSUME failures \in Nat, [Next]_vars
    PROVE  failures' \in Nat /\ (failures' = 0 => failures = 0)
<1>1. failures' = failures \/ failures' = failures + 1
  <2>1. CASE \E b \in Block \ {Genesis} : InsertBlock(b)
    BY <2>1, Zenon DEF InsertBlock, InsertRefused, InsertSide, InsertBest, InsertBroken
  <2>2. CASE Commit \/ CommitFails \/ ResetCursor \/ WriteLookups \/ AdvanceCursor \/ EndScan
    BY <2>2, Zenon DEF Commit, CommitFails, ResetCursor, WriteLookups, AdvanceCursor, EndScan
  <2>3. CASE UpdateStats \/ StatTick \/ StatWrite \/ Restart \/ UNCHANGED vars
    BY <2>3, Zenon DEF UpdateStats, StatTick, StatWrite, Restart, vars
  <2> QED BY <2>1, <2>2, <2>3, Zenon DEF Next
<1> QED BY <1>1

\* What holds until a transaction fails.
UntilFailure == failures \in Nat /\ (failures = 0 => IndInv)

\* It holds at the start.
LEMMA UntilFailureInit == Init => UntilFailure
<1> SUFFICES ASSUME Init PROVE UntilFailure
  BY Zenon
<1>1. failures = 0
  BY Zenon DEF Init
<1> QED BY <1>1, InitEstablishes, Zenon DEF UntilFailure

\* Every step keeps it.
LEMMA UntilFailureStep == UntilFailure /\ [Next]_vars => UntilFailure'
<1> SUFFICES ASSUME UntilFailure, [Next]_vars PROVE UntilFailure'
  BY Zenon
<1> QED BY FailuresStay, IndInvInductive, Zenon DEF UntilFailure

\* After every sequence of insertions, forks and crashes the best hashes in the
\* store are the path from genesis to the head (connectBestBlock, processFork),
\* as long as the store accepts what it is given.
THEOREM BestChainStaysPath == Spec => []BestChainIsPath
<1>1. UntilFailure => BestChainIsPath
  <2> SUFFICES ASSUME IndInv PROVE BestChainIsPath
    BY Zenon DEF UntilFailure, BestChainIsPath
  <2>1. StoreOK /\ Head \in Block
    BY Zenon DEF IndInv, Sane, TypeOK, StoreOK
  <2>2. Head # None
    BY <2>1, TreeAssumption, Zenon
  <2> QED BY <2>1, <2>2, Zenon DEF StoreOK, PathTo, Head, BestChainIsPath
<1> QED BY <1>1, UntilFailureInit, UntilFailureStep, PTL DEF Spec

\* The head outweighs, or is as heavy as, every block that was ever stored
\* (insertBlock), as long as the store accepts what it is given.
THEOREM HeaviestStaysBest == Spec => []HeaviestIsBest
<1>1. UntilFailure => HeaviestIsBest
  BY Zenon DEF UntilFailure, IndInv, StoreOK, Head, HeaviestIsBest
<1> QED BY <1>1, UntilFailureInit, UntilFailureStep, PTL DEF Spec

---------------------------------------------------------------------------
\* A step that leaves the store alone is a stutter of the promise.
LEMMA QuietKeepsPromise ==
    ASSUME UNCHANGED <<store, failures>>
    PROVE  UNCHANGED Promise!vars
  BY Zenon DEF store, Promise!vars

\* A block that is stored beside the best chain is accepted aside.
LEMMA SideKeepsPromise ==
    ASSUME IndInv, NEW b \in Block \ {Genesis}, InsertBlock(b), InsertSide(b)
    PROVE  Promise!Next
<1>1. MemoryOK /\ proc.pc = "idle" /\ prev[b] \in blocks
  BY Zenon DEF IndInv, InsertBlock
<1>2. latestBlock = Head /\ Head \in Block
  BY <1>1, Zenon DEF MemoryOK, IndInv, Sane, StoreOK, TypeOK
<1>3. td[b] <= td[Head]
  <2>1. td[b] \in Nat /\ td[Head] \in Nat
    BY <1>2, WorkAssumption, Zenon
  <2>2. td[b] < td[Head] \/ td[b] = td[Head]
    BY <1>2, Zenon DEF InsertSide, MayBeSide
  <2> DEFINE mine == td[b]
             top == td[Head]
  <2>3. mine \in Nat /\ top \in Nat /\ (mine < top \/ mine = top)
    BY <2>1, <2>2, Zenon
  <2> HIDE DEF mine, top
  <2>4. mine <= top
    BY <2>3
  <2> QED BY <2>4, Zenon DEF mine, top
<1>4. blocks' = blocks \cup {b} /\ UNCHANGED <<best, latestHeight, failures>>
  BY Zenon DEF InsertSide
<1>5. Promise!AcceptAside(b)
  BY <1>1, <1>3, <1>4, Zenon DEF Promise!AcceptAside, Head
<1> QED BY <1>5, Zenon DEF Promise!Next

\* The commit of a block that joins the best chain makes it the head.
LEMMA CommitKeepsPromise ==
    ASSUME IndInv, Commit
    PROVE  Promise!Next
<1> DEFINE b == proc.block
           h == proc.next - 1
<1>1. /\ b \in Block \ {Genesis} /\ prev[b] \in blocks
      /\ td[b] >= td[Head]
      /\ proc.next \in 1 .. height[b] /\ proc.next <= latestHeight + 1
      /\ \A g \in 0 .. proc.next - 1 : anc[b][g] = anc[Head][g]
      /\ latestHeight + 1 - proc.next <= PoVMaxForkHeight
      /\ height[Head] = latestHeight /\ Head \in Block
  BY Zenon DEF IndInv, Sane, MemoryOK, StoreOK, Commit, TypeOK, ProcType
<1>2. /\ h \in 0 .. height[Head] /\ h < height[b]
      /\ height[Head] - h <= PoVMaxForkHeight /\ h \in 0 .. proc.next - 1
  <2>1. height[b] \in Nat /\ height[Head] \in Nat /\ latestHeight = height[Head]
    BY <1>1, TreeAssumption
  <2> DEFINE top == height[Head]
             n == proc.next
             m == height[b]
  <2>2. /\ m \in Nat /\ top \in Nat /\ n \in 1 .. m /\ n <= top + 1
        /\ top + 1 - n <= PoVMaxForkHeight
    BY <1>1, <2>1, Zenon
  <2>3. PoVMaxForkHeight \in Nat
    BY ParamAssumption, Zenon
  <2> HIDE DEF top, n, m
  <2>4. n - 1 \in 0 .. top /\ n - 1 < m /\ top - (n - 1) <= PoVMaxForkHeight /\ n - 1 \in 0 .. n - 1
    BY <2>2, <2>3
  <2> QED BY <2>4, Zenon DEF top, n, m
<1>3. Promise!JoinsNearTop(b)
  <2> HIDE DEF h
  <2>1. h \in 0 .. height[Head] /\ h < height[b] /\ anc[b][h] = anc[Head][h]
        /\ height[Head] - h <= PoVMaxForkHeight
    BY <1>1, <1>2, Zenon
  <2> QED BY <2>1, Zenon DEF Promise!JoinsNearTop, Head
<1>4. Head' = b
  BY CommitKeeps, Zenon
<1>5. blocks' = blocks \cup {b} /\ failures' = failures
  BY Zenon DEF Commit
<1>6. Promise!AcceptAsHead(b)
  BY <1>1, <1>3, <1>4, <1>5, Zenon DEF Promise!AcceptAsHead, Head
<1> QED BY <1>1, <1>6, Zenon DEF Promise!Next

\* Every step of the chain is one that the promise allows, or a stutter.
LEMMA StepKeepsPromise ==
    ASSUME UntilFailure, [Next]_vars
    PROVE  [Promise!Next]_(Promise!vars)
<1>1. CASE failures' # 0
  <2>1. failures' > 0
    BY <1>1, FailuresStay DEF UntilFailure
  <2> QED BY <2>1, Zenon DEF Promise!Next, Promise!Fail
<1>2. CASE failures' = 0
  <2>1. failures = 0 /\ IndInv
    BY <1>2, FailuresStay, Zenon DEF UntilFailure
  <2>2. CASE \E b \in Block \ {Genesis} : InsertBlock(b)
    <3>1. PICK b \in Block \ {Genesis} : InsertBlock(b)
      BY <2>2, Zenon
    <3>2. CASE InsertSide(b)
      BY <2>1, <3>1, <3>2, SideKeepsPromise, Zenon
    <3>3. CASE InsertRefused(b) \/ InsertBest(b)
      BY <3>3, QuietKeepsPromise, Zenon DEF InsertRefused, InsertBest
    <3>4. CASE InsertBroken(b)
      BY <1>2, <2>1, <3>4 DEF InsertBroken
    <3> QED BY <3>1, <3>2, <3>3, <3>4, Zenon DEF InsertBlock
  <2>3. CASE Commit
    BY <2>1, <2>3, CommitKeepsPromise, Zenon
  <2>4. CASE CommitFails
    BY <1>2, <2>1, <2>4 DEF CommitFails
  <2>5. CASE ResetCursor \/ WriteLookups \/ AdvanceCursor \/ EndScan
    BY <2>5, QuietKeepsPromise, Zenon DEF ResetCursor, WriteLookups, AdvanceCursor, EndScan
  <2>6. CASE UpdateStats \/ StatTick \/ StatWrite \/ Restart
    BY <2>6, QuietKeepsPromise, Zenon DEF UpdateStats, StatTick, StatWrite, Restart
  <2>7. CASE UNCHANGED vars
    BY <2>7, QuietKeepsPromise, Zenon DEF vars, store
  <2> QED BY <2>2, <2>3, <2>4, <2>5, <2>6, <2>7, Zenon DEF Next
<1> QED BY <1>1, <1>2, Zenon

\* The chain with its transactions, scans, timers and crashes (insertBlock,
\* processFork, loadLastState) implements the abstract chain that only moves to
\* a heaviest block near the top.
THEOREM ChainKeepsPromise == Spec => KeepsPromise
<1>1. Init => Promise!Init
  <2> SUFFICES ASSUME Init PROVE Promise!Init
    BY Zenon
  <2>1. 0 \in Height
    BY Heights, TreeAssumption, Zenon
  <2>2. best[latestHeight] = Genesis /\ blocks = {Genesis} /\ ~(failures > 0)
    BY <2>1 DEF Init
  <2> QED BY <2>2, Zenon DEF Promise!Init
<1> QED BY <1>1, UntilFailureInit, UntilFailureStep, StepKeepsPromise, PTL
        DEF Spec, KeepsPromise, Promise!Spec

---------------------------------------------------------------------------
\* What miner statistics rest on besides EqualWork: forks are shallower than the
\* distance at which a day is counted.
GapExceedsForks == PoVMaxForkHeight < PovMinerRewardHeightGapToLatest

Counted(stat) ==
    \A d \in Day : stat[d] # {} =>
        /\ stat[d] = DayHeaders(d)
        /\ DayEnd(d) + PovMinerRewardHeightGapToLatest <= latestHeight + 1
FinalInv == Counted(minerStat) /\ timer <= latestHeight + 1

\* A block is never removed from the store, so that work that is equal now was
\* equal before.
LEMMA WorkWasEqual ==
    ASSUME [Next]_vars, EqualWork'
    PROVE  EqualWork
<1>1. blocks \subseteq blocks'
  <2>1. CASE \E b \in Block \ {Genesis} : InsertBlock(b)
    BY <2>1, Zenon DEF InsertBlock, InsertRefused, InsertSide, InsertBest, InsertBroken, store
  <2>2. CASE Commit \/ CommitFails \/ ResetCursor \/ WriteLookups \/ AdvanceCursor \/ EndScan
    BY <2>2,
       Zenon DEF Commit, CommitFails, ResetCursor, WriteLookups, AdvanceCursor, EndScan, store
  <2>3. CASE UpdateStats \/ StatTick \/ StatWrite \/ Restart \/ UNCHANGED vars
    BY <2>3, Zenon DEF UpdateStats, StatTick, StatWrite, Restart, vars, store
  <2> QED BY <2>1, <2>2, <2>3, Zenon DEF Next
<1> QED BY <1>1, Zenon DEF EqualWork

\* The heights of a day are at most its last.
LEMMA Days ==
    \A d \in Day : /\ d \in Nat /\ DayEnd(d) \in Nat
                   /\ DayHeights(d) \subseteq 0 .. DayEnd(d)
<1> SUFFICES ASSUME NEW d \in Day
             PROVE  d \in Nat /\ DayEnd(d) \in Nat /\ DayHeights(d) \subseteq 0 .. DayEnd(d)
  BY Zenon
<1> DEFINE P == POVChainBlocksPerDay
<1>1. P \in Nat \ {0}
  BY ParamAssumption, Zenon
<1>2. d \in Nat
  BY Heights, Zenon DEF Day
<1> HIDE DEF P
<1>3. d * P \in Nat /\ (d + 1) * P \in Nat /\ (d + 1) * P = d * P + P
  BY <1>1, <1>2
<1>4. DayEnd(d) = (d + 1) * P - 1 /\ DayHeights(d) = d * P .. (d + 1) * P - 1
  BY Zenon DEF DayEnd, DayHeights, P
<1> QED BY <1>1, <1>2, <1>3, <1>4

\* The head in memory is at most one block ahead of the store.
LEMMA TopIsNear ==
    ASSUME IndInv, EqualWork
    PROVE  height[latestBlock] \in Nat /\ height[latestBlock] <= latestHeight + 1
<1>1. TypeOK /\ StoreOK /\ MemoryOK /\ Head \in Block /\ latestHeight \in Nat
  <2>1. TypeOK /\ StoreOK /\ MemoryOK
    BY Zenon DEF IndInv, Sane
  <2>2. Head \in blocks /\ blocks \subseteq Block /\ latestHeight \in Height
    BY <2>1, Zenon DEF TypeOK, StoreOK
  <2>3. Height \subseteq Nat
    BY Heights, Zenon
  <2> QED BY <2>1, <2>2, <2>3, Zenon
<1>2. height[latestBlock] \in Nat
  BY <1>1, TreeAssumption DEF TypeOK
<1>3. CASE proc.pc # "commit"
  <2>1. latestBlock = Head
    BY <1>1, <1>3, Zenon DEF MemoryOK
  <2>2. height[Head] = latestHeight
    BY <1>1, Zenon DEF StoreOK
  <2> HIDE DEF Head
  <2> QED BY <1>1, <1>2, <2>1, <2>2
<1>4. CASE proc.pc = "commit"
  <2> DEFINE b == latestBlock
  <2>1. b \in Block \ {Genesis} /\ prev[b] \in blocks
    BY <1>1, <1>4, Zenon DEF MemoryOK, TypeOK
  <2>2. prev[b] \in Block /\ td[prev[b]] <= td[Head]
    BY <1>1, <2>1, Zenon DEF StoreOK, TypeOK
  <2>3. height[prev[b]] <= latestHeight
    BY <1>1, <2>1, <2>2, Zenon DEF EqualWork, StoreOK
  <2>4. height[b] = height[prev[b]] + 1 /\ height[prev[b]] \in Nat
    BY <2>1, <2>2, TreeAssumption, Zenon
  <2>5. latestHeight \in Nat
    BY <1>1, Zenon
  <2> DEFINE below == height[prev[b]]
             above == height[b]
  <2>6. below <= latestHeight /\ above = below + 1 /\ below \in Nat /\ above \in Nat
    BY <1>2, <2>3, <2>4, Zenon
  <2> HIDE DEF below, above
  <2>7. above <= latestHeight + 1
    BY <2>5, <2>6
  <2> QED BY <1>2, <2>7, Zenon DEF above
<1> QED BY <1>3, <1>4, Zenon

\* What onMinerDayStatTimer adds is deep enough.
LEMMA MinerStatsCounted ==
    ASSUME Counted(minerStat), latestHeight \in Nat, NEW top \in Int, top <= latestHeight + 1
    PROVE  Counted(MinerStats(top))
<1> SUFFICES ASSUME NEW d \in Day, MinerStats(top)[d] # {}
             PROVE  /\ MinerStats(top)[d] = DayHeaders(d)
                    /\ DayEnd(d) + PovMinerRewardHeightGapToLatest <= latestHeight + 1
  BY Zenon DEF Counted
<1> DEFINE ready == {e \in Day : DayEnd(e) + PovMinerRewardHeightGapToLatest <= top}
           start == LastDay(minerStat) + 1
           fresh == /\ start <= d
                    /\ \A e \in Day : start <= e /\ e <= d => e \in ready /\ HasHeaders(e)
<1>1. MinerStats(top)[d] = IF fresh THEN DayHeaders(d) ELSE minerStat[d]
  BY Zenon DEF MinerStats, Written
<1>2. CASE fresh
  <2>1. d <= d /\ DayEnd(d) \in Nat /\ PovMinerRewardHeightGapToLatest \in Nat
    BY Days, ParamAssumption
  <2>2. d \in ready
    BY <1>2, <2>1, Zenon
  <2>3. MinerStats(top)[d] = DayHeaders(d)
    BY <1>1, <1>2, Zenon
  <2> DEFINE deep == DayEnd(d) + PovMinerRewardHeightGapToLatest
  <2>4. deep \in Nat /\ deep <= top
    BY <2>1, <2>2
  <2> HIDE DEF deep
  <2>5. deep <= latestHeight + 1
    BY <2>4
  <2> QED BY <2>3, <2>5, Zenon DEF deep
<1>3. CASE ~fresh
  <2> HIDE DEF fresh
  <2> QED BY <1>1, <1>3, Zenon DEF Counted
<1> QED BY <1>2, <1>3, Zenon

\* Every step keeps what was counted, while work is equal.
LEMMA FinalInvInductive ==
    ASSUME EqualWork, EqualWork', GapExceedsForks, IndInv, FinalInv, [Next]_vars
    PROVE  FinalInv'
<1>1. TypeOK /\ StoreOK /\ MemoryOK /\ latestHeight \in Nat /\ timer \in Int
  BY Heights DEF IndInv, Sane, TypeOK
<1>2. ASSUME UNCHANGED <<best, latestHeight, minerStat, timer>> PROVE FinalInv'
  BY <1>2, Zenon DEF FinalInv, Counted, DayHeaders
<1>3. CASE \E b \in Block \ {Genesis} : InsertBlock(b)
  BY <1>2, <1>3, Zenon DEF InsertBlock, InsertRefused, InsertSide, InsertBest, InsertBroken,
                    store, indexes
<1>4. CASE Commit
  <2> DEFINE b == proc.block
             next == proc.next
  <2>1. /\ b \in Block /\ td[b] >= td[Head] /\ Head \in Block /\ height[Head] = latestHeight
        /\ next \in Nat /\ next <= latestHeight + 1
        /\ latestHeight + 1 - next <= PoVMaxForkHeight
    <3>1. proc.pc = "commit"
      BY <1>4, Zenon DEF Commit
    <3>2. Head \in blocks /\ height[Head] = latestHeight
      BY <1>1, Zenon DEF StoreOK
    <3>3. blocks \subseteq Block /\ latestBlock \in Block
      BY <1>1, Zenon DEF TypeOK
    <3>4. /\ latestBlock = b /\ td[b] >= td[Head] /\ next \in 1 .. height[b]
          /\ next <= latestHeight + 1 /\ latestHeight + 1 - next <= PoVMaxForkHeight
      BY <1>1, <3>1, Zenon DEF MemoryOK
    <3>5. height[b] \in Nat
      BY <3>3, <3>4, TreeAssumption, Zenon
    <3> HIDE DEF b, next
    <3> QED BY <3>2, <3>3, <3>4, <3>5
  <2>2. latestHeight' = height[b] /\ height[b] \in Nat /\ latestHeight <= height[b]
    <3>1. td[Head] <= td[b]
      BY <2>1, WorkAssumption, Zenon
    <3>2. Head \in blocks' /\ b \in blocks'
      BY <1>1, <1>4, Zenon DEF StoreOK, Commit
    <3>3. height[Head] <= height[b]
      <4> DEFINE top == Head
      <4>1. top \in blocks' /\ td[top] <= td[b]
        BY <3>1, <3>2, Zenon
      <4> HIDE DEF top
      <4>2. height[top] <= height[b]
        BY <3>2, <4>1, Zenon DEF EqualWork
      <4> QED BY <4>2, Zenon DEF top
    <3> QED BY <1>4, <2>1, <3>3, TreeAssumption, Zenon DEF Commit
  <2>3. \A h \in Height : h < next => best'[h] = best[h]
    <3>1. \A h \in Height : ~(h \in next .. height[b]) /\ ~(h \in next .. height[proc.head])
                             => best'[h] = best[h]
      BY <1>4, Zenon DEF Commit
    <3>2. \A h \in Height : h < next => \A m : ~(h \in next .. m)
      <4> HIDE DEF next
      <4> QED BY <2>1, Heights
    <3> HIDE DEF next, b
    <3> QED BY <3>1, <3>2, Zenon
  <2>4. ASSUME NEW d \in Day, minerStat[d] # {}
        PROVE  /\ minerStat[d] = DayHeaders(d)'
               /\ DayEnd(d) + PovMinerRewardHeightGapToLatest <= latestHeight' + 1
    <3>1. minerStat[d] = DayHeaders(d)
          /\ DayEnd(d) + PovMinerRewardHeightGapToLatest <= latestHeight + 1
      BY <2>4, Zenon DEF FinalInv, Counted
    <3>2. DayEnd(d) \in Nat /\ DayHeights(d) \subseteq 0 .. DayEnd(d)
      BY Days, Zenon
    <3>3. PovMinerRewardHeightGapToLatest \in Nat /\ PoVMaxForkHeight \in Nat
      BY ParamAssumption, Zenon
    <3>4. DayEnd(d) < next /\ DayEnd(d) <= latestHeight
      <4> DEFINE end == DayEnd(d)
      <4>1. /\ end \in Nat
            /\ end + PovMinerRewardHeightGapToLatest <= latestHeight + 1
            /\ PoVMaxForkHeight < PovMinerRewardHeightGapToLatest
        BY <3>1, <3>2, Zenon DEF GapExceedsForks
      <4>2. /\ latestHeight \in Nat /\ next \in Nat
            /\ latestHeight + 1 - next <= PoVMaxForkHeight
        BY <1>1, <2>1, Zenon
      <4> HIDE DEF end, next
      <4>3. end < next /\ end <= latestHeight
        BY <3>3, <4>1, <4>2
      <4> QED BY <4>3, Zenon DEF end
    <3>5. \A h \in DayHeights(d) : h \in Height /\ h < next
      <4>1. \A h \in 0 .. latestHeight : h \in Height
        BY <2>1, Heights, Zenon
      <4> DEFINE end == DayEnd(d)
                 days == DayHeights(d)
      <4>2. /\ end \in Nat /\ days \subseteq 0 .. end /\ end < next /\ end <= latestHeight
            /\ latestHeight \in Nat /\ next \in Nat
        BY <1>1, <2>1, <3>2, <3>4, Zenon
      <4> HIDE DEF end, days, next
      <4>3. \A h \in days : h \in 0 .. latestHeight /\ h < next
        BY <4>2
      <4> QED BY <4>1, <4>3, Zenon DEF days
    <3>6. \A h \in DayHeights(d) : best'[h] = best[h]
      BY <2>3, <3>5, Zenon
    <3>7. DayHeaders(d)' = DayHeaders(d)
      BY <3>6, Zenon DEF DayHeaders
    <3>8. DayEnd(d) + PovMinerRewardHeightGapToLatest <= latestHeight' + 1
      <4> DEFINE end == DayEnd(d)
                 top == latestHeight'
      <4>1. /\ end \in Nat /\ latestHeight \in Nat /\ top \in Nat /\ latestHeight <= top
            /\ end + PovMinerRewardHeightGapToLatest <= latestHeight + 1
        BY <1>1, <2>2, <3>1, <3>2, Zenon
      <4> HIDE DEF end, top
      <4>2. end + PovMinerRewardHeightGapToLatest <= top + 1
        BY <3>3, <4>1
      <4> QED BY <4>2, Zenon DEF end, top
    <3> QED BY <3>1, <3>7, <3>8, Zenon
  <2>5. minerStat' = minerStat /\ timer' = timer
    BY <1>4, Zenon DEF Commit
  <2>6. timer' <= latestHeight' + 1
    BY <1>1, <2>2, <2>5 DEF FinalInv
  <2> QED BY <2>4, <2>5, <2>6, Zenon DEF FinalInv, Counted
<1>5. CASE CommitFails \/ ResetCursor \/ WriteLookups \/ AdvanceCursor \/ EndScan
  BY <1>2, <1>5, Zenon DEF CommitFails, ResetCursor, WriteLookups, AdvanceCursor, EndScan,
                    store, indexes
<1>6. ASSUME UNCHANGED <<best, latestHeight>>, timer' <= latestHeight + 1,
             NEW top \in Int, top <= latestHeight + 1,
             minerStat' = minerStat \/ minerStat' = MinerStats(top)
      PROVE  FinalInv'
  <2>1. Counted(minerStat) /\ Counted(MinerStats(top))
    BY <1>1, <1>6, MinerStatsCounted, Zenon DEF FinalInv
  <2>2. \A d \in Day : DayHeaders(d)' = DayHeaders(d)
    BY <1>6, Zenon DEF DayHeaders
  <2>3. \A d \in Day : minerStat'[d] # {} =>
            /\ minerStat'[d] = DayHeaders(d)
            /\ DayEnd(d) + PovMinerRewardHeightGapToLatest <= latestHeight + 1
    BY <1>6, <2>1, Zenon DEF Counted
  <2> QED BY <1>6, <2>2, <2>3, Zenon DEF FinalInv, Counted
<1>7. CASE UpdateStats
  <2> DEFINE top == height[latestBlock]
  <2>1. top \in Nat /\ top <= latestHeight + 1 /\ timer <= latestHeight + 1
    BY <1>1, TopIsNear, Zenon DEF FinalInv
  <2>2. UNCHANGED <<best, latestHeight, timer>>
    BY <1>7, Zenon DEF UpdateStats, store
  <2>3. minerStat' = minerStat \/ minerStat' = MinerStats(top)
    BY <1>7, Zenon DEF UpdateStats
  <2> HIDE DEF top
  <2> QED BY <1>6, <2>1, <2>2, <2>3
<1>8. CASE StatTick
  BY <1>1, <1>6, <1>8, TopIsNear DEF StatTick, store, indexes
<1>9. CASE StatWrite
  BY <1>1, <1>6, <1>9 DEF StatWrite, store, FinalInv
<1>10. CASE Restart
  BY <1>1, <1>6, <1>10 DEF Restart, store, indexes
<1>11. CASE UNCHANGED vars
  BY <1>2, <1>11, Zenon DEF vars
<1> QED BY <1>3, <1>4, <1>5, <1>7, <1>8, <1>9, <1>10, <1>11, Zenon DEF Next

\* The blocks that a miner statistic counted stay in the best chain for ever,
\* through forks, crashes and ticks of the timer in the middle of an insertion
\* (onMinerDayStatTimer, with PoVMaxForkHeight below
\* PovMinerRewardHeightGapToLatest), as long as the work of the stored blocks is
\* about equal and the store accepts what it is given.
THEOREM MinerStatsStayFinal ==
    ASSUME GapExceedsForks
    PROVE  Spec => []MinerStatsAreFinal
<1> DEFINE Inv == UntilFailure /\ (failures = 0 /\ EqualWork => FinalInv)
<1>1. Init => Inv
  BY UntilFailureInit DEF Init, FinalInv, Counted
<1>2. Inv => MinerStatsAreFinal
  BY Zenon DEF FinalInv, Counted, MinerStatsAreFinal
<1>3. Inv /\ [Next]_vars => Inv'
  <2> SUFFICES ASSUME Inv, [Next]_vars PROVE Inv'
    BY Zenon
  <2>1. UntilFailure' /\ (failures' = 0 => failures = 0 /\ IndInv)
    BY UntilFailureStep, FailuresStay, Zenon DEF UntilFailure
  <2>2. ASSUME failures' = 0, EqualWork' PROVE FinalInv'
    <3>1. EqualWork
      BY <2>2, WorkWasEqual, Zenon
    <3>2. IndInv /\ FinalInv
      BY <2>1, <2>2, <3>1, Zenon
    <3> QED BY <2>2, <3>1, <3>2, FinalInvInductive, Zenon
  <2> QED BY <2>1, <2>2, Zenon
<1> QED BY <1>1, <1>2, <1>3, PTL DEF Spec

---------------------------------------------------------------------------
\* The index from transactions to blocks: everything that the best chain packs
\* below the height that the scan has reached is looked up.
Indexed(h) == \A t \in GetAllTxs(best[h]) : lookup[t] = best[h]
Reached ==
    IF proc.pc \in {"idle", "commit", "stats"} THEN latestHeight + 1
    ELSE IF proc.pc = "mark" THEN proc.next + 1 ELSE proc.next
IndexOK ==
    /\ proc.pc \in {"idle", "commit", "stats"} => cursor = latestHeight
    /\ proc.pc = "commit" =>
         proc.next = IF proc.fork = None THEN latestHeight + 1 ELSE height[proc.fork] + 1
    /\ proc.pc = "cursor" => proc.next = height[proc.fork] + 1
    /\ proc.pc \in {"lookups", "mark"} => proc.next = cursor + 1
    /\ Reached <= latestHeight + 1
    /\ \A h \in Height : h < Reached => Indexed(h)
\* The cache by height holds blocks that the head in memory stands on.
CacheOK == \A h \in Height : heightBlockCache[h] \in {None, PathTo(latestBlock)[h]}

\* The best chain, height by height.
LEMMA BestAt ==
    ASSUME IndInv
    PROVE  /\ latestHeight \in Nat /\ 0 .. latestHeight \subseteq Height
           /\ \A h \in Height : /\ h <= latestHeight => /\ best[h] = anc[Head][h] /\ best[h] \in Block
                                                        /\ height[best[h]] = h /\ best[h] # None
                                /\ ~(h <= latestHeight) => best[h] = None
<1>1. Head \in Block /\ height[Head] = latestHeight /\ best = PathTo(Head)
  BY Zenon DEF IndInv, Sane, TypeOK, StoreOK
<1>2. latestHeight \in Nat /\ 0 .. latestHeight \subseteq Height /\ Height \subseteq Nat
  BY <1>1, Heights, Zenon
<1>3. ASSUME NEW h \in Height, h <= latestHeight
      PROVE  /\ best[h] = anc[Head][h] /\ best[h] \in Block
             /\ height[best[h]] = h /\ best[h] # None
  <2>1. h \in 0 .. height[Head]
    BY <1>1, <1>2, <1>3
  <2>2. anc[Head] \in [0 .. height[Head] -> Block] /\ height[anc[Head][h]] = h /\ None \notin Block
    BY <1>1, <2>1, TreeAssumption, Zenon
  <2>3. best[h] = anc[Head][h]
    BY <1>1, <1>3, Zenon DEF PathTo
  <2> QED BY <2>1, <2>2, <2>3, Zenon
<1>4. ASSUME NEW h \in Height, ~(h <= latestHeight)
      PROVE  best[h] = None
  BY <1>1, <1>4, Zenon DEF PathTo
<1> QED BY <1>2, <1>3, <1>4, Zenon

\* No two blocks of the best chain pack the same transaction.
LEMMA BestPacksOnce ==
    ASSUME IndInv, NEW g \in Height, NEW h \in Height, g <= latestHeight, h <= latestHeight, g # h
    PROVE  GetAllTxs(best[g]) \cap GetAllTxs(best[h]) = {}
<1>1. /\ best[g] = anc[Head][g] /\ best[g] \in Block /\ height[best[g]] = g
      /\ best[h] = anc[Head][h] /\ best[h] \in Block /\ height[best[h]] = h
  BY BestAt, Zenon
<1>2. Head \in Block /\ height[Head] = latestHeight
  BY Zenon DEF IndInv, Sane, TypeOK, StoreOK
<1>3. g \in 0 .. height[Head] /\ h \in 0 .. height[Head]
  BY <1>2, Heights
<1>4. txs[best[g]] \cap txs[best[h]] = {}
  BY <1>1, <1>2, <1>3, PackedOnceAssumption, Zenon
<1>5. txs[best[g]] \cap Block = {} /\ txs[best[h]] \cap Block = {}
  BY <1>1, TxAssumption, Zenon
<1> QED BY <1>1, <1>4, <1>5, Zenon DEF GetAllTxs

\* The cache follows the head.
LEMMA CacheFollows ==
    ASSUME failures' = 0, IndInv, CacheOK, [Next]_vars
    PROVE  CacheOK'
<1>1. TypeOK /\ StoreOK /\ MemoryOK
  BY Zenon DEF IndInv, Sane
<1>2. CASE UNCHANGED memory
  BY <1>2, Zenon DEF memory, CacheOK, PathTo
<1>3. ASSUME NEW b \in Block \ {Genesis}, InsertBlock(b), InsertBest(b) PROVE CacheOK'
  <2> DEFINE f == ForkHeight(b)
  <2>1. /\ f \in 0 .. height[b] - 1
        /\ f <= height[latestBlock]
        /\ \A h \in 0 .. f : anc[b][h] = anc[latestBlock][h]
    BY <1>1, <1>3, ForkFound, Zenon DEF InsertBest, TypeOK
  <2>2. /\ latestBlock' = b
        /\ heightBlockCache' = [h \in Height |->
            IF h \in f .. height[b] THEN anc[b][h]
            ELSE IF h \in height[b] + 1 .. height[latestBlock] THEN None
            ELSE heightBlockCache[h]]
    BY <1>3, Zenon DEF InsertBest, MoveHead
  <2>3. height[b] \in Nat /\ height[latestBlock] \in Nat /\ Height \subseteq Nat
    BY <1>1, Heights, Zenon DEF TypeOK
  <2> HIDE DEF f
  <2>4. ASSUME NEW h \in Height
        PROVE  heightBlockCache'[h] \in {None, PathTo(b)[h]}
    <3> DEFINE top == height[latestBlock]
               new == height[b]
    <3>1. h \in Nat /\ top \in Nat /\ new \in Nat /\ f \in 0 .. new - 1 /\ f <= top
      BY <2>1, <2>3, Zenon
    <3>2. heightBlockCache[h] \in {None, IF h <= top THEN anc[latestBlock][h] ELSE None}
      BY Zenon DEF CacheOK, PathTo
    <3>3. heightBlockCache'[h] = IF h \in f .. new THEN anc[b][h]
                                 ELSE IF h \in new + 1 .. top THEN None ELSE heightBlockCache[h]
      BY <2>2, Zenon
    <3>4. PathTo(b)[h] = IF h <= new THEN anc[b][h] ELSE None
      BY Zenon DEF PathTo
    <3>5. h \in 0 .. f => anc[b][h] = anc[latestBlock][h]
      BY <2>1, Zenon
    <3> HIDE DEF top, new
    <3>6. /\ h \in f .. new => h <= new
          /\ h \notin f .. new /\ h \notin new + 1 .. top /\ h <= top => h \in 0 .. f /\ h <= new
      BY <3>1
    <3> QED BY <3>2, <3>3, <3>4, <3>5, <3>6, Zenon
  <2> QED BY <2>2, <2>4, Zenon DEF CacheOK, PathTo
<1>4. CASE WriteLookups
  <2> DEFINE b == GetBlockByHeight(proc.next)
  <2>1. /\ heightBlockCache' = [heightBlockCache EXCEPT ![proc.next] = b]
        /\ latestBlock' = latestBlock /\ latestBlock = Head /\ proc.next <= height[latestBlock]
    BY <1>1, <1>4, Zenon DEF WriteLookups, MemoryOK
  <2>2. proc.next \in Height => b \in {None, PathTo(latestBlock)[proc.next]}
    BY <1>1, <2>1, Zenon DEF GetBlockByHeight, CacheOK, StoreOK
  <2> HIDE DEF b
  <2> QED BY <1>1, <2>1, <2>2, Zenon DEF CacheOK, PathTo, TypeOK
<1>5. CASE Restart
  <2>1. /\ heightBlockCache' = [h \in Height |-> IF h = latestHeight THEN best[h] ELSE None]
        /\ latestBlock' = Head
    BY <1>5, Zenon DEF Restart, loadLastState, Head
  <2>2. PathTo(latestBlock)' = PathTo(latestBlock')
    BY Zenon DEF PathTo
  <2>3. PathTo(latestBlock)' = best
    BY <1>1, <2>1, <2>2, Zenon DEF StoreOK
  <2> QED BY <2>1, <2>3, Zenon DEF CacheOK
<1>6. ASSUME failures' = failures + 1 PROVE FALSE
  BY <1>1, <1>6 DEF TypeOK
<1>7. CASE \E b \in Block \ {Genesis} : InsertBlock(b)
  BY <1>2, <1>3, <1>6, <1>7, Zenon DEF InsertBlock, InsertRefused, InsertSide, InsertBroken
<1>8. CASE Commit \/ CommitFails \/ ResetCursor \/ AdvanceCursor \/ EndScan
  BY <1>2, <1>6, <1>8, Zenon DEF Commit, CommitFails, ResetCursor, AdvanceCursor, EndScan
<1>9. CASE UpdateStats \/ StatTick \/ StatWrite \/ UNCHANGED vars
  BY <1>2, <1>9, Zenon DEF UpdateStats, StatTick, StatWrite, vars, memory
<1> QED BY <1>4, <1>5, <1>7, <1>8, <1>9, Zenon DEF Next

\* A step that leaves best chain and lookups alone, and claims no more than was
\* reached.
LEMMA ReachedStays ==
    ASSUME IndInv, IndexOK, UNCHANGED <<best, latestHeight, lookup>>,
           Reached \in Nat, Reached' \in Nat, Reached' <= Reached
    PROVE  /\ Reached' <= latestHeight' + 1
           /\ \A h \in Height : h < Reached' => Indexed(h)'
<1>1. Height \subseteq Nat /\ latestHeight \in Nat /\ Reached <= latestHeight + 1
  BY Heights, BestAt, Zenon DEF IndexOK
<1> DEFINE old == Reached
           new == Reached'
<1>2. \A h \in Height : h < old => Indexed(h)
  BY Zenon DEF IndexOK
<1>3. new <= old /\ old \in Nat /\ new \in Nat /\ old <= latestHeight + 1
  BY <1>1, Zenon
<1> HIDE DEF old, new
<1>4. new <= latestHeight + 1 /\ \A h \in Height : h < new => h < old
  BY <1>1, <1>3
<1>5. \A h : Indexed(h) => Indexed(h)'
  BY Zenon DEF Indexed
<1> QED BY <1>2, <1>4, <1>5, Zenon DEF new

\* A scan that starts without a fork goes on from the cursor.
LEMMA ScanResumes ==
    ASSUME IndInv, IndexOK, UNCHANGED <<best, latestHeight, lookup, cursor>>, proc.pc # "cursor",
           NEW init \in BOOLEAN, proc' = StartScan(None, init)
    PROVE  IndexOK'
<1>1. cursor \in Nat /\ latestHeight \in Nat /\ proc.next \in Nat
      /\ proc.pc \in {"idle", "commit", "cursor", "lookups", "mark", "stats"}
  BY Heights, BestAt, Zenon DEF IndInv, Sane, TypeOK, ProcType
<1>2. proc'.pc = "lookups" /\ proc'.next = cursor + 1
  BY Zenon DEF StartScan
<1>3. Reached' = cursor + 1
  BY <1>2, Zenon DEF Reached
<1>4. /\ proc.pc \in {"idle", "commit", "stats"} => cursor = latestHeight
      /\ proc.pc \in {"lookups", "mark"} => proc.next = cursor + 1
  BY Zenon DEF IndexOK
<1>5. Reached \in Nat /\ cursor + 1 \in Nat /\ cursor + 1 <= Reached
  BY <1>1, <1>4 DEF Reached
<1>6. /\ Reached' <= latestHeight' + 1
      /\ \A h \in Height : h < Reached' => Indexed(h)'
  BY <1>3, <1>5, ReachedStays, Zenon
<1> QED BY <1>2, <1>6, Zenon DEF IndexOK

\* The commit takes no lookup from the blocks below the fork.
LEMMA CommitIndexes ==
    ASSUME IndInv, IndexOK, Commit
    PROVE  IndexOK'
<1> DEFINE b == proc.block
           n == proc.next
           joined == {anc[b][h] : h \in n .. height[b]}
           left == {anc[proc.head][h] : h \in n .. height[proc.head]}
<1>1. /\ TypeOK /\ b \in Block /\ proc.head = Head /\ Head \in Block
      /\ n \in 1 .. height[b] /\ n <= latestHeight + 1
      /\ height[Head] = latestHeight
      /\ cursor = latestHeight
      /\ proc.fork \in Block \cup {None}
      /\ n = IF proc.fork = None THEN latestHeight + 1 ELSE height[proc.fork] + 1
      /\ \A h \in Height : h < latestHeight + 1 => Indexed(h)
  BY Zenon DEF IndInv, Sane, MemoryOK, StoreOK, Commit, TypeOK, ProcType, IndexOK, Reached
<1>2. /\ latestHeight' = height[b]
      /\ lookup' = [t \in AllTx |-> IF t \in joined THEN t
                                    ELSE IF t \in left THEN None ELSE lookup[t]]
      /\ best' = [h \in Height |->
            IF h \in n .. height[b] THEN anc[b][h]
            ELSE IF h \in n .. height[proc.head] THEN None ELSE best[h]]
      /\ proc' = StartScan(proc.fork, FALSE) /\ cursor' = cursor
  BY Zenon DEF Commit
<1>3. height[b] \in Nat /\ latestHeight \in Nat /\ Height \subseteq Nat
  BY <1>1, Heights, BestAt, Zenon
<1>4. /\ proc'.next = n
      /\ proc'.pc = IF proc.fork = None THEN "lookups" ELSE "cursor"
      /\ proc'.fork = proc.fork
  BY <1>1, <1>2, Zenon DEF StartScan
<1>5. Reached' = n
  BY <1>4, Zenon DEF Reached
<1>6. ASSUME NEW c \in Block, NEW h \in n .. height[c]
      PROVE  anc[c][h] \in Block /\ height[anc[c][h]] = h
  <2>1. height[c] \in Nat /\ anc[c] \in [0 .. height[c] -> Block]
    BY TreeAssumption, Zenon
  <2>2. h \in 0 .. height[c]
    BY <1>1, <1>3, <2>1
  <2> QED BY <2>1, <2>2, TreeAssumption, Zenon
<1>7. \A t \in joined \cup left : t \in Block /\ \E h \in Int : h >= n /\ height[t] = h
  <2>1. ASSUME NEW c \in Block, NEW h \in n .. height[c]
        PROVE  anc[c][h] \in Block /\ height[anc[c][h]] = h /\ h \in Int /\ h >= n
    BY <1>1, <1>3, <1>6
  <2>2. ASSUME NEW t \in joined
        PROVE  t \in Block /\ \E h \in Int : h >= n /\ height[t] = h
    <3>1. PICK h \in n .. height[b] : t = anc[b][h]
      BY <2>2, Zenon
    <3>2. b \in Block
      BY <1>1, Zenon
    <3>3. anc[b][h] \in Block /\ height[anc[b][h]] = h /\ h \in Int /\ h >= n
      BY <2>1, <3>2, Zenon
    <3> QED BY <3>1, <3>3, Zenon
  <2>3. ASSUME NEW t \in left
        PROVE  t \in Block /\ \E h \in Int : h >= n /\ height[t] = h
    <3>1. PICK h \in n .. height[proc.head] : t = anc[proc.head][h]
      BY <2>3, Zenon
    <3>2. proc.head \in Block
      BY <1>1, Zenon
    <3>3. anc[proc.head][h] \in Block /\ height[anc[proc.head][h]] = h /\ h \in Int /\ h >= n
      BY <2>1, <3>2, Zenon
    <3> QED BY <3>1, <3>3, Zenon
  <2> QED BY <2>2, <2>3, Zenon
<1>9. ASSUME NEW h \in Height, h < n
      PROVE  Indexed(h)'
  <2>1. h < latestHeight + 1 /\ h <= latestHeight /\ h \notin n .. height[b]
        /\ h \notin n .. height[proc.head]
    BY <1>1, <1>3, <1>9
  <2>2. best'[h] = best[h] /\ best[h] \in Block /\ height[best[h]] = h /\ Indexed(h)
    BY <1>1, <1>2, <2>1, BestAt, Zenon
  <2>3. \A t \in joined \cup left : t \in Block /\ height[t] # h
    <3>1. \A g \in Int : g >= n => g # h
      BY <1>1, <1>3, <1>9
    <3> HIDE DEF n, joined, left
    <3> QED BY <1>7, <3>1, Zenon
  <2> HIDE DEF joined, left
  <2>4. \A t \in GetAllTxs(best[h]) : t \in AllTx /\ t \notin joined /\ t \notin left
    BY <2>2, <2>3, TxAssumption, Zenon DEF GetAllTxs, AllTx
  <2> QED BY <1>2, <2>2, <2>4, Zenon DEF Indexed
<1>10. Reached' <= latestHeight' + 1
  BY <1>1, <1>2, <1>3, <1>5
<1> HIDE DEF n
<1>11. \A h \in Height : h < Reached' => Indexed(h)'
  BY <1>5, <1>9, Zenon
<1>12. /\ proc'.pc = "cursor" => proc'.next = height[proc'.fork] + 1
       /\ proc'.pc \in {"lookups", "mark"} => proc'.next = cursor' + 1
       /\ proc'.pc \notin {"idle", "commit", "stats"}
  BY <1>1, <1>2, <1>4, Zenon
<1> QED BY <1>10, <1>11, <1>12, Zenon DEF IndexOK

\* The scan finds the block of the best chain at every height up to the head.
LEMMA ScanFinds ==
    ASSUME IndInv, CacheOK, proc.pc = "lookups", proc.next <= latestHeight
    PROVE  /\ latestBlock = Head /\ height[latestBlock] = latestHeight
           /\ proc.next \in Height
           /\ GetBlockByHeight(proc.next) = best[proc.next] /\ best[proc.next] # None
<1>1. /\ latestBlock = Head /\ height[latestBlock] = latestHeight /\ best = PathTo(Head)
      /\ proc.next \in Nat
  BY Zenon DEF IndInv, Sane, MemoryOK, StoreOK, TypeOK, ProcType
<1>2. proc.next \in Height
  <2>1. proc.next \in 0 .. latestHeight
    BY <1>1, BestAt
  <2> QED BY <2>1, BestAt, Zenon
<1>3. heightBlockCache[proc.next] \in {None, best[proc.next]}
  BY <1>1, <1>2, Zenon DEF CacheOK
<1> QED BY <1>1, <1>2, <1>3, BestAt, Zenon DEF GetBlockByHeight

\* The scan looks up one height after the other, and moves the cursor after it.
LEMMA ScanIndexes ==
    ASSUME IndInv, CacheOK, IndexOK, ResetCursor \/ WriteLookups \/ AdvanceCursor \/ EndScan
    PROVE  IndexOK'
<1>1. cursor \in Nat /\ latestHeight \in Nat /\ proc.next \in Nat /\ Height \subseteq Nat
      /\ proc \in ProcType
  BY Heights, BestAt, Zenon DEF IndInv, Sane, TypeOK, ProcType
<1>2. CASE ResetCursor
  <2>1. /\ proc.pc = "cursor" /\ proc' = [proc EXCEPT !.pc = "lookups"] /\ cursor' = height[proc.fork]
        /\ UNCHANGED <<best, latestHeight, lookup>>
        /\ proc.next = height[proc.fork] + 1
    BY <1>2, Zenon DEF ResetCursor, store, IndexOK
  <2>2. proc'.pc = "lookups" /\ proc'.next = proc.next
    BY <1>1, <2>1, Zenon DEF ProcType
  <2>3. Reached = proc.next /\ Reached' = proc.next /\ proc.next <= proc.next
    BY <1>1, <2>1, <2>2 DEF Reached
  <2>4. /\ Reached' <= latestHeight' + 1
        /\ \A h \in Height : h < Reached' => Indexed(h)'
    BY <1>1, <2>1, <2>3, ReachedStays, Zenon
  <2> QED BY <2>1, <2>2, <2>4, Zenon DEF IndexOK
<1>3. CASE WriteLookups
  <2> DEFINE n == proc.next
             b == best[n]
  <2>1. proc.pc = "lookups" /\ proc' = [proc EXCEPT !.pc = "mark"]
        /\ UNCHANGED <<best, latestHeight, cursor, latestBlock>>
        /\ n = cursor + 1
    BY <1>3, Zenon DEF WriteLookups, store, IndexOK
  <2>2. proc'.pc = "mark" /\ proc'.next = n
    BY <1>1, <2>1, Zenon DEF ProcType
  <2>3. Reached = n /\ Reached' = n + 1
    BY <2>1, <2>2, Zenon DEF Reached
  <2>4. n <= latestHeight
    BY <1>3, <2>1, Zenon DEF WriteLookups, IndInv, MemoryOK, StoreOK
  <2>5. GetBlockByHeight(n) = b /\ n \in Height
    BY <2>1, <2>4, ScanFinds, Zenon
  <2>6. lookup' = [t \in AllTx |-> IF t \in GetAllTxs(b) THEN b ELSE lookup[t]]
    BY <1>3, <2>5, Zenon DEF WriteLookups
  <2> HIDE DEF n
  <2>7. Reached' <= latestHeight' + 1
    BY <1>1, <2>1, <2>3, <2>4 DEF n
  <2>8. \A h \in Height : best[h] \in Block => GetAllTxs(best[h]) \subseteq AllTx
    BY TxAssumption, Zenon DEF GetAllTxs, AllTx
  <2>9. ASSUME NEW h \in Height, h < Reached'
        PROVE  Indexed(h)'
    <3>1. h <= latestHeight /\ (h # n => h < Reached)
      BY <1>1, <2>3, <2>4, <2>9 DEF n
    <3>2. best'[h] = best[h] /\ GetAllTxs(best[h]) \subseteq AllTx
      BY <2>1, <2>8, <3>1, BestAt, Zenon
    <3>3. CASE h = n
      BY <2>6, <3>2, <3>3, Zenon DEF Indexed
    <3>4. CASE h # n
      <4>1. Indexed(h)
        BY <3>1, <3>4, Zenon DEF IndexOK
      <4>2. GetAllTxs(best[h]) \cap GetAllTxs(b) = {}
        BY <2>4, <2>5, <3>1, <3>4, BestPacksOnce, Zenon
      <4> HIDE DEF b
      <4> QED BY <2>6, <3>2, <4>1, <4>2, Zenon DEF Indexed
    <3> QED BY <3>3, <3>4, Zenon
  <2> QED BY <2>1, <2>2, <2>7, <2>9, Zenon DEF IndexOK
<1>4. CASE AdvanceCursor
  <2>1. proc.pc = "mark" /\ cursor' = proc.next
        /\ proc' = [proc EXCEPT !.pc = "lookups", !.next = proc.next + 1]
        /\ UNCHANGED <<best, latestHeight, lookup>>
    BY <1>4, Zenon DEF AdvanceCursor, store
  <2>2. proc'.pc = "lookups" /\ proc'.next = proc.next + 1
    BY <1>1, <2>1, Zenon DEF ProcType
  <2>3. Reached = proc.next + 1 /\ Reached' = proc.next + 1 /\ proc.next + 1 \in Nat
        /\ proc.next + 1 <= proc.next + 1
    BY <1>1, <2>1, <2>2 DEF Reached
  <2>4. /\ Reached' <= latestHeight' + 1
        /\ \A h \in Height : h < Reached' => Indexed(h)'
    BY <2>1, <2>3, ReachedStays, Zenon
  <2> QED BY <2>1, <2>2, <2>4, Zenon DEF IndexOK
<1>5. CASE EndScan
  <2>1. proc.pc = "lookups" /\ proc' = [proc EXCEPT !.pc = "stats"]
        /\ UNCHANGED <<best, latestHeight, lookup, cursor>>
        /\ proc.next = cursor + 1
    BY <1>5, Zenon DEF EndScan, store, indexes, IndexOK
  <2>2. proc'.pc = "stats"
    BY <1>1, <2>1, Zenon DEF ProcType
  <2>3. ~(proc.next <= latestHeight)
    BY <1>5, <2>1, ScanFinds, Zenon DEF EndScan
  <2>4. Reached = proc.next /\ Reached' = latestHeight + 1 /\ Reached <= latestHeight + 1
    BY <2>1, <2>2, Zenon DEF Reached, IndexOK
  <2>5. cursor = latestHeight /\ Reached \in Nat /\ Reached' \in Nat /\ Reached' <= Reached
    BY <1>1, <2>1, <2>3, <2>4
  <2>6. /\ Reached' <= latestHeight' + 1
        /\ \A h \in Height : h < Reached' => Indexed(h)'
    BY <2>1, <2>5, ReachedStays, Zenon
  <2> QED BY <2>1, <2>2, <2>5, <2>6, Zenon DEF IndexOK
<1> QED BY <1>2, <1>3, <1>4, <1>5, Zenon

\* Every step until a failure keeps the index, unless it tears a fork from its
\* scan.
LEMMA IndexFollows ==
    ASSUME failures' = 0, ~torn', IndInv, CacheOK, IndexOK, [Next]_vars
    PROVE  IndexOK'
<1>1. /\ TypeOK /\ StoreOK /\ MemoryOK /\ latestHeight \in Nat /\ cursor \in Nat
      /\ proc.next \in Nat
  BY Heights, BestAt, Zenon DEF IndInv, Sane, TypeOK, ProcType
<1>2. ASSUME NEW b \in Block \ {Genesis}, InsertBlock(b) PROVE IndexOK'
  <2>1. proc.pc = "idle" /\ cursor = latestHeight /\ latestBlock = Head
        /\ height[latestBlock] = latestHeight
    BY <1>1, <1>2, Zenon DEF InsertBlock, IndexOK, MemoryOK, StoreOK
  <2>2. CASE InsertRefused(b) \/ InsertSide(b)
    <3>1. proc' = StartScan(None, FALSE) /\ UNCHANGED <<best, latestHeight, lookup, cursor>>
      BY <2>2, Zenon DEF InsertRefused, InsertSide, store, indexes
    <3> QED BY <2>1, <3>1, ScanResumes, Zenon
  <2>3. CASE InsertBest(b)
    <3> DEFINE f == ForkHeight(b)
    <3>1. f \in 0 .. height[b] - 1 /\ (prev[b] = latestBlock => f = latestHeight)
      BY <1>1, <2>1, <2>3, ForkFound, Zenon DEF InsertBest, TypeOK, ForkHeight
    <3>2. proc' = [pc |-> "commit", block |-> b, head |-> latestBlock,
                   fork |-> IF prev[b] = latestBlock THEN None ELSE anc[b][f],
                   next |-> f + 1, init |-> FALSE]
          /\ UNCHANGED <<best, latestHeight, lookup, cursor>>
      BY <2>3, Zenon DEF InsertBest, store, indexes
    <3> HIDE DEF f
    <3>3. anc[b][f] \in Block /\ height[anc[b][f]] = f
      <4>1. height[b] \in Nat /\ anc[b] \in [0 .. height[b] -> Block]
        BY TreeAssumption, Zenon
      <4>2. f \in 0 .. height[b]
        BY <3>1, <4>1
      <4> QED BY <4>1, <4>2, TreeAssumption, Zenon
    <3>4. proc'.next = IF proc'.fork = None THEN latestHeight' + 1 ELSE height[proc'.fork] + 1
      BY <3>1, <3>2, <3>3, TreeAssumption, Zenon
    <3>5. Reached = latestHeight + 1 /\ Reached' = latestHeight + 1
      BY <2>1, <3>2, Zenon DEF Reached
    <3>6. latestHeight + 1 \in Nat /\ latestHeight + 1 <= latestHeight + 1
      BY <1>1
    <3>7. /\ Reached' <= latestHeight' + 1
          /\ \A h \in Height : h < Reached' => Indexed(h)'
      BY <3>2, <3>5, <3>6, ReachedStays, Zenon
    <3> QED BY <2>1, <3>2, <3>4, <3>7, Zenon DEF IndexOK
  <2>4. CASE InsertBroken(b)
    BY <1>1, <2>4 DEF InsertBroken, TypeOK
  <2> QED BY <1>2, <2>2, <2>3, <2>4, Zenon DEF InsertBlock
<1>3. CASE CommitFails
  BY <1>1, <1>3 DEF CommitFails, TypeOK
<1>4. CASE UpdateStats \/ StatTick \/ StatWrite \/ UNCHANGED vars
  <2>1. /\ UNCHANGED <<best, latestHeight, lookup, cursor>>
        /\ \/ proc' = proc
           \/ proc.pc = "stats" /\ proc'.pc = "idle"
    <3>1. CASE UpdateStats
      BY <3>1, Zenon DEF UpdateStats, store, Idle
    <3>2. CASE StatTick \/ StatWrite
      BY <3>2, Zenon DEF StatTick, StatWrite, store, indexes
    <3>3. CASE UNCHANGED vars
      BY <3>3, Zenon DEF vars
    <3> QED BY <1>4, <3>1, <3>2, <3>3, Zenon
  <2>2. Reached' = Reached
    BY <2>1, Zenon DEF Reached
  <2>3. Reached \in Nat /\ Reached <= Reached
    BY <1>1 DEF Reached
  <2>4. /\ Reached' <= latestHeight' + 1
        /\ \A h \in Height : h < Reached' => Indexed(h)'
    BY <2>1, <2>2, <2>3, ReachedStays, Zenon
  <2> QED BY <2>1, <2>4, Zenon DEF IndexOK
<1>5. CASE Restart
  <2>1. proc.pc # "cursor" /\ proc' = StartScan(None, TRUE)
        /\ UNCHANGED <<best, latestHeight, lookup, cursor>>
    BY <1>5, Zenon DEF Restart, store, indexes
  <2> QED BY <2>1, ScanResumes, Zenon
<1> QED BY <1>2, <1>3, <1>4, <1>5, CommitIndexes, ScanIndexes, Zenon DEF Next

\* A crash that tore a fork from its scan is never forgotten.
LEMMA TornStays ==
    ASSUME [Next]_vars, ~torn'
    PROVE  ~torn
<1>1. CASE \E b \in Block \ {Genesis} : InsertBlock(b)
  BY <1>1, Zenon DEF InsertBlock, InsertRefused, InsertSide, InsertBest, InsertBroken
<1>2. CASE Commit \/ CommitFails \/ ResetCursor \/ WriteLookups \/ AdvanceCursor \/ EndScan
  BY <1>2, Zenon DEF Commit, CommitFails, ResetCursor, WriteLookups, AdvanceCursor, EndScan
<1>3. CASE UpdateStats \/ StatTick \/ StatWrite \/ Restart \/ UNCHANGED vars
  BY <1>3, Zenon DEF UpdateStats, StatTick, StatWrite, Restart, vars
<1> QED BY <1>1, <1>2, <1>3, Zenon DEF Next

\* What holds of the index until a transaction fails, and until a crash comes
\* between a fork and its scan.
IndexInv == failures = 0 => CacheOK /\ (~torn => IndexOK)

\* Genesis is indexed.
LEMMA IndexInit == Init => IndexInv
<1> SUFFICES ASSUME Init PROVE IndexInv
  BY Zenon
<1>1. Genesis \in Block /\ height[Genesis] = 0 /\ anc[Genesis][0] = Genesis /\ 0 \in Height
      /\ Height \subseteq Nat
  BY TreeAssumption, Heights, Zenon
<1>2. 0 <= 0 /\ (\A h \in Height : h < 0 + 1 => h = 0) /\ 0 + 1 <= 0 + 1
  BY <1>1
<1>3. CacheOK
  <2>1. PathTo(Genesis)[0] = Genesis
    BY <1>1, <1>2, Zenon DEF PathTo
  <2> QED BY <2>1, Zenon DEF CacheOK, Init
<1>4. proc.pc = "idle" /\ cursor = 0 /\ latestHeight = 0 /\ best[0] = Genesis
  BY <1>1, Zenon DEF Init, Idle
<1>5. Reached = 0 + 1
  BY <1>4, Zenon DEF Reached
<1>6. Indexed(0)
  <2>1. GetAllTxs(Genesis) \subseteq AllTx
    BY <1>1, TxAssumption, Zenon DEF GetAllTxs, AllTx
  <2> QED BY <1>4, <2>1, Zenon DEF Indexed, Init
<1>7. IndexOK
  BY <1>2, <1>4, <1>5, <1>6, Zenon DEF IndexOK
<1> QED BY <1>3, <1>7, Zenon DEF IndexInv

\* When no insertion is going on, HasPovTxLookup finds exactly the transactions
\* that the best chain packs, after every sequence of forks and of crashes in
\* the middle of a scan (batchUpdateTxLookupInSync), until a transaction fails or
\* a crash comes between a fork and the reset of the cursor.
THEOREM LookupsStayComplete == Spec => []LookupsAreComplete
<1> DEFINE Inv == UntilFailure /\ IndexInv
<1>1. Init => Inv
  BY UntilFailureInit, IndexInit, Zenon
<1>2. Inv /\ [Next]_vars => Inv'
  <2> SUFFICES ASSUME Inv, [Next]_vars PROVE Inv'
    BY Zenon
  <2>1. UntilFailure' /\ (failures' = 0 => failures = 0 /\ IndInv)
    BY UntilFailureStep, FailuresStay, Zenon DEF UntilFailure
  <2>2. ASSUME failures' = 0 PROVE CacheOK' /\ (~torn' => IndexOK')
    BY <2>1, <2>2, CacheFollows, IndexFollows, TornStays, Zenon DEF IndexInv
  <2> QED BY <2>1, <2>2, Zenon DEF IndexInv
<1>3. Inv => LookupsAreComplete
  <2> SUFFICES ASSUME IndInv, IndexOK, proc.pc = "idle", NEW t \in AllTx
               PROVE  HasPovTxLookup(t) <=> \E h \in 0 .. latestHeight : t \in GetAllTxs(best[h])
    BY Zenon DEF UntilFailure, IndexInv, LookupsAreComplete
  <2>1. latestHeight \in Nat /\ 0 .. latestHeight \subseteq Height /\ Height \subseteq Nat
    BY BestAt, Heights, Zenon
  <2>2. ASSUME HasPovTxLookup(t)
        PROVE  \E h \in 0 .. latestHeight : t \in GetAllTxs(best[h])
    <3> DEFINE c == lookup[t]
    <3>1. c \in Block /\ c # None /\ t \in GetAllTxs(c) /\ best[height[c]] = c
      BY <2>2, Zenon DEF IndInv, Sane, TypeOK, LookupsMatch, HasPovTxLookup
    <3>2. height[c] \in Height /\ height[c] <= latestHeight
      BY <3>1, BestAt, Heights, Zenon
    <3>3. height[c] \in 0 .. latestHeight
      <4> DEFINE x == height[c]
      <4>1. x \in Nat /\ x <= latestHeight
        BY <2>1, <3>2, Zenon
      <4> HIDE DEF x
      <4>2. x \in 0 .. latestHeight
        BY <2>1, <4>1
      <4> QED BY <4>2, Zenon DEF x
    <3> QED BY <3>1, <3>3, Zenon
  <2>3. ASSUME NEW h \in 0 .. latestHeight, t \in GetAllTxs(best[h])
        PROVE  HasPovTxLookup(t)
    <3>1. h \in Height /\ h <= latestHeight /\ h < latestHeight + 1
      BY <2>1, <2>3
    <3>2. Reached = latestHeight + 1
      BY Zenon DEF Reached
    <3>3. Indexed(h) /\ best[h] # None /\ height[best[h]] = h
      BY <3>1, <3>2, BestAt, Zenon DEF IndexOK
    <3> QED BY <2>3, <3>3, Zenon DEF Indexed, HasPovTxLookup
  <2> QED BY <2>2, <2>3, Zenon
<1> QED BY <1>1, <1>2, <1>3, PTL DEF Spec
=============================================================================
