---------------------------- MODULE PovSyncProofs ----------------------------
(***************************************************************************)
(* For every tree of blocks, set of peers, size of an answer and of the    *)
(* queue, and any number of faults: the fields of the syncer keep their    *)
(* types, and a round releases no orphans.                                 *)
(***************************************************************************)
EXTENDS PovSync, TLAPS

USE DEF vars, chainVars, roundVars, netVars, ghostVars

------------------------------------------------------------------------------
(* The chain under a head *)

\* A block is on its own chain, with its parent and all of the parent's chain.
LEMMA PathFacts ==
    ASSUME NEW b \in Block
    PROVE  /\ Path[b] \subseteq Block /\ b \in Path[b]
           /\ \A c \in Path[b] : Parent[c] \in Path[b]
           /\ \A S \in SUBSET Block : b \in S /\ (\A x \in S : Parent[x] \in S) => Path[b] \subseteq S
<1>1. Path[b] = {c \in Block : \A S \in SUBSET Block :
                    (b \in S /\ \A x \in S : Parent[x] \in S) => c \in S}
  BY Zenon DEF Path
<1>2. \A c \in Block : Parent[c] \in Block
  BY TreeAssumption, Zenon
<1> QED BY <1>1, <1>2, Zenon

\* A chain holds the chain of each of its blocks.
LEMMA PathWhole ==
    ASSUME NEW b \in Block, NEW c \in Path[b]
    PROVE  c \in Block /\ Path[c] \subseteq Path[b]
  BY PathFacts, Zenon

\* A head is the highest of its chain.
LEMMA PathBelow ==
    ASSUME NEW b \in Block, NEW c \in Path[b]
    PROVE  c = b \/ Height[c] < Height[b]
<1> DEFINE S == {x \in Block : x = b \/ Height[x] < Height[b]}
<1>1. ASSUME NEW x \in S PROVE Parent[x] \in S
  <2>1. CASE x = Genesis
    BY <1>1, <2>1, TreeAssumption, Zenon
  <2>2. CASE x # Genesis
    <3>1. /\ Parent[x] \in Block /\ Height[x] = Height[Parent[x]] + 1
          /\ Height[Parent[x]] \in Nat /\ Height[x] \in Nat /\ Height[b] \in Nat
      BY <1>1, <2>2, TreeAssumption, Zenon
    <3>2. Height[Parent[x]] < Height[b]
      BY <1>1, <3>1
    <3> QED BY <3>1, <3>2, Zenon
  <2> QED BY <2>1, <2>2, Zenon
<1>2. S \in SUBSET Block /\ b \in S
  BY Zenon
<1>3. Path[b] \subseteq S
  BY <1>1, <1>2, PathFacts, Zenon
<1> QED BY <1>3, Zenon

\* The chain of a block is the block and the chain of its parent.
LEMMA PathSplits ==
    ASSUME NEW b \in Block, NEW c \in Path[b], c # b
    PROVE  c \in Path[Parent[b]]
<1> DEFINE S == {b} \cup Path[Parent[b]]
<1>1. Parent[b] \in Block
  BY TreeAssumption, Zenon
<1>2. S \in SUBSET Block /\ b \in S /\ \A x \in S : Parent[x] \in S
  BY <1>1, PathFacts, Zenon
<1>3. Path[b] \subseteq S
  BY <1>2, PathFacts, Zenon
<1> QED BY <1>3, Zenon

\* Two blocks of a chain have different heights.
LEMMA PathUnique ==
    ASSUME NEW b \in Block, NEW c \in Path[b], NEW d \in Path[b], Height[c] = Height[d]
    PROVE  c = d
<1> DEFINE S == {x \in Path[b] : \A y \in Path[b] : Height[x] < Height[y] \/ y \in Path[x]}
<1>1. ASSUME NEW x \in S PROVE Parent[x] \in S
  <2>1. CASE x = Genesis
    BY <1>1, <2>1, TreeAssumption, Zenon
  <2>2. CASE x # Genesis
    <3>1. x \in Block /\ Parent[x] \in Path[b] /\ Path[b] \subseteq Block
      BY <1>1, PathFacts, Zenon
    <3>2. ASSUME NEW y \in Path[b] PROVE Height[Parent[x]] < Height[y] \/ y \in Path[Parent[x]]
      <4>1. /\ Height[x] = Height[Parent[x]] + 1
            /\ Height[Parent[x]] \in Nat /\ Height[x] \in Nat /\ Height[y] \in Nat
        BY <2>2, <3>1, <3>2, TreeAssumption, Zenon
      <4>2. CASE Height[x] < Height[y]
        BY <4>1, <4>2
      <4>3. CASE y = x
        BY <4>1, <4>3
      <4>4. CASE y \in Path[x] /\ y # x
        BY <3>1, <4>4, PathSplits, Zenon
      <4> QED BY <1>1, <3>2, <4>2, <4>3, <4>4, Zenon
    <3> QED BY <3>1, <3>2, Zenon
  <2> QED BY <2>1, <2>2, Zenon
<1>2. S \in SUBSET Block /\ b \in S
  BY PathFacts, Zenon
<1>3. Path[b] \subseteq S
  BY <1>1, <1>2, PathFacts, Zenon
<1>4. c \in Block /\ (Height[c] < Height[d] \/ d \in Path[c])
  BY <1>3, PathFacts, Zenon
<1>5. Height[c] \in Nat
  BY <1>4, TreeAssumption, Zenon
<1>6. d \in Path[c]
  BY <1>4, <1>5
<1>7. d = c \/ Height[d] < Height[c]
  BY <1>4, <1>6, PathBelow, Zenon
<1> QED BY <1>5, <1>7

\* A chain has a block at every height up to its head.
LEMMA PathDense ==
    ASSUME NEW b \in Block, NEW n \in Nat, n <= Height[b]
    PROVE  \E c \in Path[b] : Height[c] = n
<1> SUFFICES ASSUME \A c \in Path[b] : Height[c] # n PROVE FALSE
  BY Zenon
<1> DEFINE S == {x \in Path[b] : n < Height[x]}
<1>1. ASSUME NEW x \in S PROVE Parent[x] \in S
  <2>1. /\ x \in Block /\ Parent[x] \in Path[b] /\ Parent[x] \in Block
        /\ Height[Parent[x]] # n
    BY <1>1, PathFacts, Zenon
  <2>2. n < Height[x] /\ x # Genesis
    BY <1>1, TreeAssumption
  <2>3. /\ Height[x] = Height[Parent[x]] + 1
        /\ Height[Parent[x]] \in Nat /\ Height[x] \in Nat
    BY <2>1, <2>2, TreeAssumption, Zenon
  <2>4. n < Height[Parent[x]]
    BY <2>1, <2>2, <2>3
  <2> QED BY <2>1, <2>4, Zenon
<1>2. n < Height[b]
  BY PathFacts, TreeAssumption
<1>3. S \in SUBSET Block /\ b \in S
  BY <1>2, PathFacts, Zenon
<1>4. Path[b] \subseteq S
  BY <1>1, <1>3, PathFacts, Zenon
<1>5. n < Height[Genesis]
  BY <1>4, RootAssumption, Zenon
<1> QED BY <1>5, TreeAssumption

\* A set of blocks of a chain has a highest one.
LEMMA PathHighest ==
    ASSUME NEW b \in Block, NEW K \in SUBSET Path[b], K # {}
    PROVE  \E k \in K : \A c \in K : Height[c] <= Height[k]
<1> SUFFICES ASSUME \A k \in K : \E c \in K : ~(Height[c] <= Height[k]) PROVE FALSE
  BY Zenon
<1>1. ASSUME NEW k \in K, K \subseteq Path[k] PROVE FALSE
  <2>1. PICK c \in K : ~(Height[c] <= Height[k])
    BY <1>1, Zenon
  <2>2. k \in Block /\ c \in Block /\ (c = k \/ Height[c] < Height[k])
    BY <1>1, <2>1, PathFacts, PathBelow, Zenon
  <2>3. Height[c] \in Nat /\ Height[k] \in Nat
    BY <2>2, TreeAssumption, Zenon
  <2> QED BY <2>1, <2>2, <2>3
<1> DEFINE S == {x \in Path[b] : K \subseteq Path[x]}
<1>2. ASSUME NEW x \in S PROVE Parent[x] \in S
  <2>1. x \in Block /\ Parent[x] \in Path[b] /\ x \notin K
    BY <1>1, <1>2, PathFacts, Zenon
  <2>2. K \subseteq Path[Parent[x]]
    BY <1>2, <2>1, PathSplits, Zenon
  <2> QED BY <2>1, <2>2, Zenon
<1>3. S \in SUBSET Block /\ b \in S
  BY PathFacts, Zenon
<1>4. Path[b] \subseteq S
  BY <1>2, <1>3, PathFacts, Zenon
<1> QED BY <1>1, <1>4, Zenon

------------------------------------------------------------------------------
(* Answers *)

\* The local chain is whole and has a head.
StoredOK ==
    /\ Genesis \in stored /\ stored \subseteq Block /\ \A b \in stored : Parent[b] \in stored
    /\ \E b \in stored : \A c \in stored : TD[c] <= TD[b]

\* The blocks of the locator are stored.
LEMMA LocatorStored == ASSUME StoredOK PROVE GetBlockLocator \subseteq stored
<1>1. LatestBlock \in stored
  BY Zenon DEF StoredOK, LatestBlock, Heaviest
<1>2. stored \in SUBSET Block /\ \A b \in stored : Parent[b] \in stored
  BY Zenon DEF StoredOK
<1> QED BY <1>1, <1>2, PathFacts, Zenon DEF GetBlockLocator

\* A peer finds a block that is on its own best chain and stored here.
LEMMA LocateFacts ==
    ASSUME StoredOK, NEW r \in Block, NEW f, f = LocateBestBlock(Path[r], GetBlockLocator)
    PROVE  f \in Path[r] /\ f \in stored /\ f \in Block /\ Height[f] \in Nat
<1> DEFINE K == GetBlockLocator \cap Path[r]
           known == K \cup {Genesis}
           IsBest(b) == \A c \in known : Height[c] <= Height[b]
<1>1. Genesis \in Path[r] /\ Path[r] \subseteq Block
  BY RootAssumption, PathFacts, Zenon
<1>2. known \subseteq stored /\ known \subseteq Path[r]
  BY <1>1, LocatorStored, Zenon DEF StoredOK
<1>3. known \in SUBSET Path[r] /\ known # {}
  BY <1>2, Zenon
<1>4. \E b \in known : IsBest(b)
  <2> HIDE DEF known
  <2> QED BY <1>3, PathHighest, Zenon
<1>5. f = CHOOSE b \in known : IsBest(b)
  BY Zenon DEF LocateBestBlock
<1>6. f \in known
  <2> HIDE DEF known, IsBest
  <2> QED BY <1>4, <1>5, Zenon
<1>7. f \in Path[r] /\ f \in stored /\ f \in Block
  BY <1>1, <1>2, <1>6, Zenon
<1> QED BY <1>7, TreeAssumption, Zenon

\* A function on 1..n is a sequence.
LEMMA SeqOf ==
    ASSUME NEW n \in Nat, NEW S, NEW s \in [1..n -> S]
    PROVE  s \in Seq(S) /\ Len(s) = n /\ DOMAIN s = 1..n
OBVIOUS

\* The blocks of a chain from a height on.
LEMMA FromFacts ==
    ASSUME NEW r \in Block, NEW h \in Nat, NEW n \in Nat, h + n - 1 <= Height[r],
           NEW s, s = BlocksFrom(Path[r], h, n)
    PROVE  s \in Seq(Block) /\ Len(s) = n /\ \A i \in 1..n : s[i] \in Path[r]
<1>1. ASSUME NEW i \in 1..n PROVE s[i] \in Path[r]
  <2>1. h + i - 1 \in Nat /\ h + i - 1 <= Height[r]
    BY TreeAssumption
  <2> DEFINE g == h + i - 1
             At(b) == Height[b] = g
  <2>2. s[i] = CHOOSE b \in Path[r] : At(b)
    BY Zenon DEF BlocksFrom
  <2>3. \E b \in Path[r] : At(b)
    BY <2>1, PathDense, Zenon
  <2> HIDE DEF At
  <2> QED BY <2>2, <2>3, Zenon
<1>2. Path[r] \subseteq Block
  BY PathFacts, Zenon
<1>3. s \in [1..n -> Block]
  BY <1>1, <1>2, Zenon DEF BlocksFrom
<1> QED BY <1>1, <1>3, SeqOf, Zenon

\* An answer is not empty and holds blocks of the peer's chain; one to a locator
\* starts with a block that is stored here.
LEMMA AnswerFacts ==
    ASSUME StoredOK, remote \in [Peer -> Block], syncRcvHeight \in Nat,
           NEW p \in Peer, NEW useLocator,
           NEW a \in processPovBulkPullReqByForward(p, useLocator)
    PROVE  /\ a \in Seq(Block) \ {<<>>} /\ \A i \in DOMAIN a : a[i] \in Path[remote[p]]
           /\ useLocator => Head(a) \in stored
<1> DEFINE r == remote[p]
           f == LocateBestBlock(Path[r], GetBlockLocator)
           Sizes(h, max) == {n \in 0..max : /\ h + n - 1 <= Height[r]
                                            /\ n = 0 => max = 0 \/ h > Height[r]}
<1>1. r \in Block /\ Height[r] \in Nat /\ PerReq \in Nat /\ PerReq > 0
  BY TreeAssumption, PeerAssumption
<1>2. f \in Path[r] /\ f \in stored /\ f \in Block /\ Height[f] \in Nat
  BY <1>1, LocateFacts, Zenon
<1>3. CASE useLocator
  <2>1. PICK n \in Sizes(Height[f] + 1, PerReq - 1) : a = <<f>> \o BlocksFrom(Path[r], Height[f] + 1, n)
    BY <1>3, Zenon DEF processPovBulkPullReqByForward
  <2>2. PICK h \in Nat : h = Height[f] + 1
    BY <1>2
  <2>3. n \in Nat /\ h + n - 1 <= Height[r]
    BY <1>1, <2>1, <2>2
  <2>a. PICK s : s = BlocksFrom(Path[r], h, n)
    BY Zenon
  <2>4. s \in Seq(Block) /\ Len(s) = n /\ \A i \in 1..n : s[i] \in Path[r]
    <3> HIDE DEF r, f, Sizes
    <3> QED BY <1>1, <2>3, <2>a, FromFacts, Zenon
  <2>5. a = <<f>> \o s
    BY <2>1, <2>2, <2>a, Zenon
  <2> HIDE DEF f, r
  <2>6. a \in Seq(Block) /\ Len(a) = n + 1 /\ a[1] = f
    BY <1>2, <2>3, <2>4, <2>5
  <2>7. \A i \in 2..(n + 1) : a[i] = s[i - 1]
    BY <1>2, <2>3, <2>4, <2>5
  <2>8. \A i \in DOMAIN a : a[i] \in Path[r]
    <3>1. DOMAIN a = 1..(n + 1)
      BY <2>3, <2>6
    <3>2. ASSUME NEW i \in 2..(n + 1) PROVE a[i] \in Path[r]
      <4>1. i - 1 \in 1..n
        BY <2>3
      <4> QED BY <2>4, <2>7, <4>1, Zenon
    <3>3. \A i \in 1..(n + 1) : i = 1 \/ i \in 2..(n + 1)
      BY <2>3
    <3> QED BY <1>2, <2>6, <3>1, <3>2, <3>3, Zenon
  <2>9. a # <<>> /\ Head(a) = f
    BY <2>3, <2>6
  <2> QED BY <1>2, <2>6, <2>8, <2>9, Zenon DEF r
<1>4. CASE ~useLocator
  <2>1. PICK n \in Sizes(syncRcvHeight + 1, PerReq) \ {0} : a = BlocksFrom(Path[r], syncRcvHeight + 1, n)
    BY <1>4, Zenon DEF processPovBulkPullReqByForward
  <2>a. PICK h \in Nat : h = syncRcvHeight + 1
    OBVIOUS
  <2>2. n \in Nat /\ n > 0 /\ h + n - 1 <= Height[r]
    BY <1>1, <2>1, <2>a
  <2>b. a = BlocksFrom(Path[r], h, n)
    BY <2>1, <2>a, Zenon
  <2>3. a \in Seq(Block) /\ Len(a) = n /\ \A i \in 1..n : a[i] \in Path[r]
    <3> HIDE DEF r, f, Sizes
    <3> QED BY <1>1, <2>2, <2>b, FromFacts, Zenon
  <2> HIDE DEF r
  <2>4. a # <<>> /\ DOMAIN a = 1..n
    BY <2>2, <2>3
  <2> QED BY <1>4, <2>3, <2>4, Zenon DEF r
<1> QED BY <1>3, <1>4, Zenon

------------------------------------------------------------------------------
(* Types *)

PeerRec == [status : {"gone", "init", "good", "dead", "slow"}, seen : Block, current : BOOLEAN,
            waitLocatorRsp : BOOLEAN, waitSyncRspMsg : BOOLEAN, age : 0..2]
Answer == [blocks : Seq(Block) \ {<<>>}, old : BOOLEAN]
Hand == [from : Peer \cup {NoPeer}, blocks : Seq(Block), old : BOOLEAN, detached : BOOLEAN,
         locating : BOOLEAN]

ChainTypes == StoredOK /\ inbox \subseteq Block /\ confirmed \subseteq Block
PeerTypes == peers \in [Peer -> PeerRec] /\ initSyncState \in {"notStart", "syncing", "done"}
QueueTypes == \A h \in DOMAIN syncBlocks : syncBlocks[h] \in Block /\ Height[syncBlocks[h]] = h
RoundTypes ==
    /\ syncPeer \in Peer \cup {NoPeer} /\ (inSyncing => syncPeer \in Peer) /\ (opening => inSyncing)
    /\ syncCurHeight \in Nat /\ syncRcvHeight \in Nat
HandTypes == hand \in Hand /\ (hand = NoHand \/ (hand.from \in Peer /\ hand.blocks # <<>>))
NetTypes ==
    /\ remote \in [Peer -> Block] /\ rsps \in [Peer -> Seq(Answer)]
    /\ \A p \in Peer : Len(rsps[p]) <= MaxMsgs
Types == ChainTypes /\ PeerTypes /\ QueueTypes /\ RoundTypes /\ HandTypes /\ NetTypes

\* Steps that leave a part alone.
LEMMA ChainKept == ASSUME ChainTypes, UNCHANGED <<stored, inbox, confirmed>> PROVE ChainTypes'
BY Zenon DEF ChainTypes, StoredOK
LEMMA PeersKept == ASSUME PeerTypes, UNCHANGED <<peers, initSyncState>> PROVE PeerTypes'
BY Zenon DEF PeerTypes
LEMMA QueueKept == ASSUME QueueTypes, UNCHANGED syncBlocks PROVE QueueTypes'
BY Zenon DEF QueueTypes
LEMMA RoundKept ==
    ASSUME RoundTypes, UNCHANGED <<inSyncing, syncPeer, opening, syncCurHeight, syncRcvHeight>>
    PROVE  RoundTypes'
BY Zenon DEF RoundTypes
LEMMA HandKept == ASSUME HandTypes, UNCHANGED hand PROVE HandTypes'
BY Zenon DEF HandTypes
LEMMA NetKept == ASSUME NetTypes, UNCHANGED <<remote, rsps>> PROVE NetTypes'
BY Zenon DEF NetTypes

\* A new peer is one.
LEMMA NewPeerTyped ==
    ASSUME NEW st \in {"gone", "init"} PROVE NewPeer(st) \in PeerRec
BY TreeAssumption DEF NewPeer, PeerRec

\* A request adds at most one answer of the peer.
LEMMA RequestFacts ==
    ASSUME Types, NEW p \in Peer, NEW u, Request(p, u)
    PROVE  \/ rsps' = rsps
           \/ \E m \in Answer :
                 /\ Len(rsps[p]) < MaxMsgs /\ rsps' = [rsps EXCEPT ![p] = Append(@, m)]
                 /\ ~m.old /\ (\A i \in DOMAIN m.blocks : m.blocks[i] \in Path[remote[p]])
                 /\ u => Head(m.blocks) \in stored
<1> SUFFICES ASSUME rsps' # rsps
             PROVE  \E m \in Answer :
                 /\ Len(rsps[p]) < MaxMsgs /\ rsps' = [rsps EXCEPT ![p] = Append(@, m)]
                 /\ ~m.old /\ (\A i \in DOMAIN m.blocks : m.blocks[i] \in Path[remote[p]])
                 /\ u => Head(m.blocks) \in stored
  BY Zenon
<1>1. PICK a \in processPovBulkPullReqByForward(p, u) :
         /\ ~(Len(rsps[p]) >= MaxMsgs)
         /\ rsps' = [rsps EXCEPT ![p] = Append(@, [blocks |-> a, old |-> FALSE])]
  BY Zenon DEF Request
<1>2. Len(rsps[p]) < MaxMsgs
  <2>1. rsps[p] \in Seq(Answer)
    BY Zenon DEF Types, NetTypes
  <2>2. Len(rsps[p]) \in Nat /\ MaxMsgs \in Nat
    BY <2>1, PeerAssumption
  <2> QED BY <1>1, <2>2
<1>3. /\ a \in Seq(Block) \ {<<>>} /\ \A i \in DOMAIN a : a[i] \in Path[remote[p]]
      /\ u => Head(a) \in stored
  BY AnswerFacts, Zenon DEF Types, ChainTypes, RoundTypes, NetTypes
<1> DEFINE m == [blocks |-> a, old |-> FALSE]
<1>4. m \in Answer /\ m.blocks = a /\ ~m.old
  BY <1>3, Zenon DEF Answer
<1> QED BY <1>1, <1>2, <1>3, <1>4, Zenon

LEMMA RequestTyped == ASSUME Types, NEW p \in Peer, NEW u, Request(p, u), remote' = remote PROVE NetTypes'
<1>1. CASE rsps' = rsps
  BY <1>1, NetKept, Zenon DEF Types
<1>2. CASE rsps' # rsps
  <2>1. PICK m \in Answer : Len(rsps[p]) < MaxMsgs /\ rsps' = [rsps EXCEPT ![p] = Append(@, m)]
    BY <1>2, RequestFacts, Zenon
  <2>2. rsps \in [Peer -> Seq(Answer)] /\ \A q \in Peer : Len(rsps[q]) <= MaxMsgs
    BY Zenon DEF Types, NetTypes
  <2>3. /\ Append(rsps[p], m) \in Seq(Answer) /\ Len(Append(rsps[p], m)) <= MaxMsgs
    BY <2>1, <2>2, PeerAssumption
  <2> QED BY <2>1, <2>2, <2>3, Zenon DEF Types, NetTypes
<1> QED BY <1>1, <1>2, Zenon

LEMMA NoHandFacts == NoHand \in Hand /\ NoHand.from = NoPeer /\ NoHand.old = FALSE
BY DEF NoHand, Hand

\* Answers and the hand when a round is closed.
LEMMA AnswerAged ==
    ASSUME NEW S, NEW m \in [blocks : S, old : BOOLEAN]
    PROVE  /\ [m EXCEPT !.old = TRUE] \in [blocks : S, old : BOOLEAN]
           /\ [m EXCEPT !.old = TRUE].old /\ [m EXCEPT !.old = TRUE].blocks = m.blocks
BY Zenon

LEMMA HandAged ==
    ASSUME NEW P, NEW S, NEW o \in BOOLEAN,
           NEW h \in [from : P, blocks : S, old : BOOLEAN, detached : BOOLEAN, locating : BOOLEAN]
    PROVE  /\ [h EXCEPT !.old = o] \in [from : P, blocks : S, old : BOOLEAN, detached : BOOLEAN,
                                        locating : BOOLEAN]
           /\ [h EXCEPT !.old = o].old = o /\ [h EXCEPT !.old = o].blocks = h.blocks
           /\ [h EXCEPT !.old = o].from = h.from
           /\ h.old = o => [h EXCEPT !.old = o] = h
BY Zenon

\* A round is closed.
LEMMA CloseTyped ==
    ASSUME Types, Close, ~opening
    PROVE  QueueTypes' /\ RoundTypes' /\ HandTypes' /\ NetTypes'
<1>1. QueueTypes'
  BY DEF Close, QueueTypes
<1>2. RoundTypes'
  BY Zenon DEF Close, RoundTypes
<1>3. HandTypes'
  <2>1. hand \in Hand /\ (hand = NoHand \/ (hand.from \in Peer /\ hand.blocks # <<>>))
    BY Zenon DEF Types, HandTypes
  <2>2. PICK o \in BOOLEAN : o = (hand # NoHand)
    BY Zenon
  <2>3. hand' = [hand EXCEPT !.old = o]
    BY <2>2, Zenon DEF Close
  <2>4. /\ hand' \in Hand /\ hand'.blocks = hand.blocks /\ hand'.from = hand.from
        /\ hand.old = o => hand' = hand
    BY <2>1, <2>3, HandAged, Zenon DEF Hand
  <2>5. hand = NoHand => hand.old = o
    BY <2>2, NoHandFacts, Zenon
  <2> QED BY <2>1, <2>4, <2>5, Zenon DEF HandTypes
<1>4. NetTypes'
  <2>1. rsps \in [Peer -> Seq(Answer)] /\ \A q \in Peer : Len(rsps[q]) <= MaxMsgs
    BY Zenon DEF Types, NetTypes
  <2>2. ASSUME NEW q \in Peer
        PROVE  rsps'[q] \in Seq(Answer) /\ Len(rsps'[q]) <= MaxMsgs
    <3>1. PICK s : s = rsps[q]
      BY Zenon
    <3>2. s \in Seq(Answer) /\ Len(s) \in Nat /\ DOMAIN s = 1..Len(s)
      BY <2>1, <3>1
    <3>3. rsps'[q] = [i \in DOMAIN s |-> [s[i] EXCEPT !.old = TRUE]]
      BY <3>1, Zenon DEF Close
    <3>4. \A i \in DOMAIN s : [s[i] EXCEPT !.old = TRUE] \in Answer
      <4>1. ASSUME NEW i \in DOMAIN s PROVE s[i] \in Answer
        BY <3>2
      <4> QED BY <4>1, AnswerAged, Zenon DEF Answer
    <3>5. rsps'[q] \in [1..Len(s) -> Answer]
      BY <3>2, <3>3, <3>4, Zenon
    <3>6. rsps'[q] \in Seq(Answer) /\ Len(rsps'[q]) = Len(s)
      BY <3>2, <3>5, SeqOf, Zenon
    <3> QED BY <2>1, <3>1, <3>6, Zenon
  <2>3. rsps' \in [Peer -> Seq(Answer)]
    <3>1. rsps' = [q \in Peer |-> rsps'[q]]
      BY Zenon DEF Close
    <3> QED BY <2>2, <3>1, Zenon
  <2> QED BY <2>2, <2>3, Zenon DEF Close, Types, NetTypes
<1> QED BY <1>1, <1>2, <1>3, <1>4, Zenon

LEMMA TypesInit == Init => Types
<1> SUFFICES ASSUME Init PROVE Types
  BY Zenon
<1>1. ChainTypes
  BY OwnAssumption, PeerAssumption, Zenon DEF Init, ChainTypes, StoredOK
<1>2. PeerTypes
  <2>1. NewPeer("gone") \in PeerRec
    BY NewPeerTyped, Zenon
  <2> QED BY <2>1, Zenon DEF Init, PeerTypes
<1>3. QueueTypes
  BY DEF Init, QueueTypes
<1>4. RoundTypes
  BY Zenon DEF Init, RoundTypes
<1>5. HandTypes
  BY NoHandFacts, Zenon DEF Init, HandTypes
<1>6. NetTypes
  BY PeerAssumption DEF Init, NetTypes
<1> QED BY <1>1, <1>2, <1>3, <1>4, <1>5, <1>6, Zenon DEF Types

\* A peer after a request, and when a round with it starts or is given up.
LEMMA RequestedFacts ==
    ASSUME NEW x \in PeerRec
    PROVE  Requested(x) \in PeerRec /\ Requested(x).waitLocatorRsp = x.waitLocatorRsp
<1>1. PICK y : y = [x EXCEPT !.waitSyncRspMsg = TRUE]
  BY Zenon
<1>2. y \in PeerRec /\ y.waitLocatorRsp = x.waitLocatorRsp
  BY <1>1, Zenon DEF PeerRec
<1>3. PICK z : z = [y EXCEPT !.age = 0]
  BY Zenon
<1>4. z \in PeerRec /\ z.waitLocatorRsp = y.waitLocatorRsp
  BY <1>2, <1>3 DEF PeerRec
<1>5. Requested(x) = z
  BY <1>1, <1>3, Zenon DEF Requested
<1> QED BY <1>2, <1>4, <1>5, Zenon

LEMMA LocatingFacts ==
    ASSUME NEW x \in PeerRec, NEW y, y = [x EXCEPT !.waitLocatorRsp = TRUE]
    PROVE  y \in PeerRec /\ y.waitLocatorRsp
BY Zenon DEF PeerRec

LEMMA GivenUpTyped ==
    ASSUME NEW x \in PeerRec, NEW st \in {"gone", "init", "good", "dead", "slow"}
    PROVE  [x EXCEPT !.status = st, !.waitLocatorRsp = FALSE, !.waitSyncRspMsg = FALSE, !.age = 0]
               \in PeerRec
<1>1. PICK y : y = [x EXCEPT !.status = st]
  BY Zenon
<1>2. y \in PeerRec
  BY <1>1, Zenon DEF PeerRec
<1>3. PICK z : z = [y EXCEPT !.waitLocatorRsp = FALSE]
  BY Zenon
<1>4. z \in PeerRec
  BY <1>2, <1>3, Zenon DEF PeerRec
<1>5. PICK w : w = [z EXCEPT !.waitSyncRspMsg = FALSE]
  BY Zenon
<1>6. w \in PeerRec
  BY <1>4, <1>5, Zenon DEF PeerRec
<1>7. [w EXCEPT !.age = 0] \in PeerRec
  BY <1>6 DEF PeerRec
<1> QED BY <1>1, <1>3, <1>5, <1>7, Zenon

\* A peer with one field changed.
LEMMA FieldTyped ==
    ASSUME NEW x \in PeerRec
    PROVE  /\ \A st \in {"gone", "init", "good", "dead", "slow"} : [x EXCEPT !.status = st] \in PeerRec
           /\ \A b \in Block : [x EXCEPT !.seen = b] \in PeerRec
           /\ \A v \in BOOLEAN : [x EXCEPT !.current = v] \in PeerRec
           /\ \A v \in BOOLEAN : [x EXCEPT !.waitLocatorRsp = v] \in PeerRec
           /\ \A v \in BOOLEAN : [x EXCEPT !.waitSyncRspMsg = v] \in PeerRec
<1>1. \A st \in {"gone", "init", "good", "dead", "slow"} : [x EXCEPT !.status = st] \in PeerRec
  BY Zenon DEF PeerRec
<1>2. \A b \in Block : [x EXCEPT !.seen = b] \in PeerRec
  BY Zenon DEF PeerRec
<1>3. \A v \in BOOLEAN : [x EXCEPT !.current = v] \in PeerRec
  BY Zenon DEF PeerRec
<1>4. \A v \in BOOLEAN : [x EXCEPT !.waitLocatorRsp = v] \in PeerRec
  BY Zenon DEF PeerRec
<1>5. \A v \in BOOLEAN : [x EXCEPT !.waitSyncRspMsg = v] \in PeerRec
  BY Zenon DEF PeerRec
<1> QED BY <1>1, <1>2, <1>3, <1>4, <1>5, Zenon

\* What a step does to the table of peers.
LEMMA PeerStepTyped ==
    ASSUME Types, Next PROVE peers' \in [Peer -> PeerRec]
<1>1. /\ peers \in [Peer -> PeerRec] /\ remote \in [Peer -> Block]
      /\ inSyncing => syncPeer \in Peer
      /\ opening => inSyncing
  BY Zenon DEF Types, PeerTypes, NetTypes, RoundTypes
<1>2. CASE peers' = peers
  BY <1>1, <1>2, Zenon
<1>3. ASSUME NEW p \in Peer, onAddP2PStream(p) \/ onDeleteP2PStream(p) PROVE peers' \in [Peer -> PeerRec]
  <2>1. PICK st \in {"gone", "init"} : peers' = [peers EXCEPT ![p] = NewPeer(st)]
    BY <1>3, Zenon DEF onAddP2PStream, onDeleteP2PStream
  <2> QED BY <1>1, <2>1, NewPeerTyped, Zenon
<1>4. ASSUME NEW p \in Peer, onPovStatus(p) PROVE peers' \in [Peer -> PeerRec]
  <2>1. peers[p] \in PeerRec /\ remote[p] \in Block
    BY <1>1, Zenon
  <2>2. peers[p].status \in {"gone", "init", "good", "dead", "slow"}
    BY <2>1, Zenon DEF PeerRec
  <2>3. PICK st \in {"gone", "init", "good", "dead", "slow"} :
           peers' = [peers EXCEPT ![p].seen = remote[p], ![p].status = st]
    BY <1>4, <2>2, Zenon DEF onPovStatus
  <2>4. PICK y : y = [peers[p] EXCEPT !.seen = remote[p]]
    BY Zenon
  <2>5. PICK z : z = [y EXCEPT !.status = st]
    BY Zenon
  <2>6. y \in PeerRec
    BY <2>1, <2>4, FieldTyped, Zenon
  <2>7. z \in PeerRec
    BY <2>5, <2>6, FieldTyped, Zenon
  <2>8. peers' = [peers EXCEPT ![p] = z]
    BY <1>1, <2>3, <2>4, <2>5, Zenon
  <2> QED BY <1>1, <2>7, <2>8, Zenon
<1>5. ASSUME NEW p \in Peer, checkAllPeers(p) PROVE peers' \in [Peer -> PeerRec]
  <2>1. PICK z : z = [peers[p] EXCEPT !.status = "dead"]
    BY Zenon
  <2>2. z \in PeerRec
    BY <1>1, <2>1, FieldTyped, Zenon
  <2>3. peers' = [peers EXCEPT ![p] = z]
    BY <1>1, <1>5, <2>1, Zenon DEF checkAllPeers
  <2> QED BY <1>1, <2>2, <2>3, Zenon
<1>6. ASSUME NEW p \in Peer, Tick(p) PROVE peers' \in [Peer -> PeerRec]
  BY <1>1, <1>6 DEF Tick, PeerRec
<1>7. CASE onRequestSyncTimer
  <2>1. syncPeer \in Peer /\ peers' = [peers EXCEPT ![syncPeer] = Requested(peers[syncPeer])]
    BY <1>1, <1>7, Zenon DEF onRequestSyncTimer
  <2> QED BY <1>1, <2>1, RequestedFacts, Zenon
<1>8. ASSUME NEW p \in Peer, onPeriodicSyncTimer(p) PROVE peers' \in [Peer -> PeerRec]
  <2>1. peers' = [q \in Peer |-> [peers[q] EXCEPT !.current = (q = p)]]
    BY <1>8, Zenon DEF onPeriodicSyncTimer
  <2>2. ASSUME NEW q \in Peer PROVE [peers[q] EXCEPT !.current = (q = p)] \in PeerRec
    <3>1. PICK v \in BOOLEAN : v = (q = p)
      BY Zenon
    <3>2. [peers[q] EXCEPT !.current = v] \in PeerRec
      BY <1>1, FieldTyped, Zenon
    <3> QED BY <3>1, <3>2, Zenon
  <2> QED BY <2>1, <2>2, Zenon
<1>9. CASE syncWithPeer
  <2> DEFINE found == [peers[syncPeer] EXCEPT !.waitLocatorRsp = TRUE]
  <2>2. peers' = [peers EXCEPT ![syncPeer] =
                    IF ~peers[syncPeer].current THEN peers[syncPeer]
                    ELSE IF MayRequest(syncPeer, TRUE) THEN Requested(found) ELSE found]
    BY <1>9, Zenon DEF syncWithPeer
  <2>3. syncPeer \in Peer /\ peers[syncPeer] \in PeerRec
    BY <1>1, <1>9, Zenon DEF syncWithPeer
  <2>4. found \in PeerRec /\ Requested(found) \in PeerRec
    BY <2>3, RequestedFacts, LocatingFacts, Zenon
  <2> HIDE DEF found
  <2> QED BY <1>1, <2>2, <2>3, <2>4, Zenon
<1>10. CASE onSyncPeerTimer
  <2>1. ASSUME peers' # peers
        PROVE  \E st \in {"gone", "init", "good", "dead", "slow"} :
                  /\ syncPeer \in Peer
                  /\ peers' = [peers EXCEPT ![syncPeer].status = st, ![syncPeer].waitLocatorRsp = FALSE,
                                            ![syncPeer].waitSyncRspMsg = FALSE, ![syncPeer].age = 0]
    <3>1. syncPeer \in Peer /\ peers[syncPeer].status \in {"gone", "init", "good", "dead", "slow"}
      BY <1>1, <1>10, Zenon DEF onSyncPeerTimer, PeerRec
    <3> QED BY <1>10, <2>1, <3>1, Zenon DEF onSyncPeerTimer
  <2>2. ASSUME peers' # peers PROVE peers' \in [Peer -> PeerRec]
    <3>1. PICK st \in {"gone", "init", "good", "dead", "slow"} :
                  /\ syncPeer \in Peer
                  /\ peers' = [peers EXCEPT ![syncPeer].status = st, ![syncPeer].waitLocatorRsp = FALSE,
                                            ![syncPeer].waitSyncRspMsg = FALSE, ![syncPeer].age = 0]
      BY <2>1, <2>2, Zenon
    <3> DEFINE y == [peers[syncPeer] EXCEPT !.status = st, !.waitLocatorRsp = FALSE,
                                            !.waitSyncRspMsg = FALSE, !.age = 0]
    <3>2. peers' = [peers EXCEPT ![syncPeer] = y]
      BY <1>1, <3>1, Zenon
    <3>3. y \in PeerRec
      BY <1>1, <3>1, GivenUpTyped, Zenon
    <3> HIDE DEF y
    <3> QED BY <1>1, <3>2, <3>3, Zenon
  <2> QED BY <1>2, <2>2, Zenon
<1>11. ASSUME NEW p \in Peer, processPovBulkPullRsp(p) PROVE peers' \in [Peer -> PeerRec]
  <2>1. peers' = peers \/ peers' = [peers EXCEPT ![p].waitSyncRspMsg = FALSE]
    BY <1>11, Zenon DEF processPovBulkPullRsp
  <2>2. PICK z : z = [peers[p] EXCEPT !.waitSyncRspMsg = FALSE]
    BY Zenon
  <2>3. z \in PeerRec
    BY <1>1, <1>11, <2>2, FieldTyped, Zenon
  <2>4. peers' = peers \/ peers' = [peers EXCEPT ![p] = z]
    BY <1>1, <1>11, <2>1, <2>2, Zenon
  <2> QED BY <1>1, <1>11, <2>3, <2>4, Zenon
<1>12. CASE addSyncBlock
  <2>1. PICK z : z = [peers[hand.from] EXCEPT !.waitLocatorRsp = FALSE]
    BY Zenon
  <2>2. hand.from \in Peer
    BY <1>12, Zenon DEF addSyncBlock, Types, HandTypes
  <2>3. z \in PeerRec
    BY <1>1, <2>1, <2>2, FieldTyped, Zenon
  <2>4. peers' = peers \/ peers' = [peers EXCEPT ![hand.from] = z]
    BY <1>1, <1>12, <2>1, <2>2, Zenon DEF addSyncBlock
  <2> QED BY <1>1, <2>2, <2>3, <2>4, Zenon
<1>13. CASE NoRoundNeeded \/ onCheckChainTimer \/ onCheckSyncBlockTimer \/ FrontiersArrive
  BY <1>2, <1>13, Zenon DEF NoRoundNeeded, onCheckChainTimer, onCheckSyncBlockTimer, FrontiersArrive
<1>14. ASSUME NEW b \in Block, InsertBlock(b) \/ requestBlocksByHashes(b) PROVE peers' \in [Peer -> PeerRec]
  BY <1>2, <1>14, Zenon DEF InsertBlock, requestBlocksByHashes
<1>15. ASSUME NEW p \in Peer, NewRemoteHead(p) \/ Lose(p) PROVE peers' \in [Peer -> PeerRec]
  BY <1>2, <1>15, Zenon DEF NewRemoteHead, Lose
<1> QED BY <1>3, <1>4, <1>5, <1>6, <1>7, <1>8, <1>9, <1>10, <1>11, <1>12, <1>13, <1>14, <1>15, Zenon
        DEF Next, Rounds, MainLoop, Surroundings

\* The hand after an answer is taken, a block is queued, a stream is lost.
LEMMA HandNew ==
    ASSUME NEW p \in Peer, NEW m \in Answer
    PROVE  /\ Taken(p, m) \in Hand /\ Taken(p, m).blocks # <<>> /\ Taken(p, m).from = p
           /\ Taken(p, m).blocks = m.blocks
           /\ Taken(p, m).old = m.old /\ Taken(p, m).detached = FALSE
<1>1. PICK bs \in Seq(Block), o \in BOOLEAN : bs = m.blocks /\ o = m.old /\ bs # <<>>
  BY Zenon DEF Answer
<1>2. PICK f : f = [from |-> p, blocks |-> bs, old |-> o, detached |-> FALSE, locating |-> FALSE]
  BY Zenon
<1>3. f \in Hand /\ f.blocks = bs /\ f.from = p /\ f.old = o /\ f.detached = FALSE
  BY <1>2, Zenon DEF Hand
<1>4. Taken(p, m) = f
  BY <1>1, <1>2, Zenon DEF Taken
<1> QED BY <1>1, <1>3, <1>4, Zenon

LEMMA HandRest ==
    ASSUME NEW P, NEW S, NEW t \in S, NEW l \in BOOLEAN,
           NEW h \in [from : P, blocks : S, old : BOOLEAN, detached : BOOLEAN, locating : BOOLEAN],
           NEW g, g = [h EXCEPT !.blocks = t, !.locating = l]
    PROVE  /\ g \in [from : P, blocks : S, old : BOOLEAN, detached : BOOLEAN, locating : BOOLEAN]
           /\ g.blocks = t /\ g.locating = l /\ g.from = h.from /\ g.old = h.old
           /\ g.detached = h.detached
<1>1. PICK f : f = [h EXCEPT !.blocks = t]
  BY Zenon
<1>2. /\ f \in [from : P, blocks : S, old : BOOLEAN, detached : BOOLEAN, locating : BOOLEAN]
      /\ f.blocks = t /\ f.from = h.from /\ f.old = h.old /\ f.detached = h.detached
  BY <1>1, Zenon
<1>3. g = [f EXCEPT !.locating = l]
  BY <1>1, Zenon
<1> QED BY <1>2, <1>3, Zenon

LEMMA HandDetached ==
    ASSUME NEW P, NEW S, NEW l \in BOOLEAN,
           NEW h \in [from : P, blocks : S, old : BOOLEAN, detached : BOOLEAN, locating : BOOLEAN],
           NEW g, g = [h EXCEPT !.detached = TRUE, !.locating = l]
    PROVE  /\ g \in [from : P, blocks : S, old : BOOLEAN, detached : BOOLEAN, locating : BOOLEAN]
           /\ g.blocks = h.blocks /\ g.locating = l /\ g.from = h.from /\ g.old = h.old
           /\ g.detached = TRUE
<1>1. PICK f : f = [h EXCEPT !.detached = TRUE]
  BY Zenon
<1>2. /\ f \in [from : P, blocks : S, old : BOOLEAN, detached : BOOLEAN, locating : BOOLEAN]
      /\ f.blocks = h.blocks /\ f.from = h.from /\ f.old = h.old /\ f.detached = TRUE
  BY <1>1, Zenon
<1>3. g = [f EXCEPT !.locating = l]
  BY <1>1, Zenon
<1> QED BY <1>2, <1>3, Zenon

\* mainLoop's hand when the stream of a peer is lost.
LEMMA DeleteHand ==
    ASSUME Types, NEW p \in Peer, onDeleteP2PStream(p), hand' # hand
    PROVE  /\ hand # NoHand /\ hand.from = p /\ hand.detached = FALSE
           /\ hand' \in Hand /\ hand'.blocks = hand.blocks /\ hand'.from = p
           /\ hand'.locating = peers[p].waitLocatorRsp
           /\ hand'.old = hand.old /\ hand'.detached = TRUE
<1>1. hand \in Hand /\ peers[p] \in PeerRec
  BY Zenon DEF Types, HandTypes, PeerTypes
<1>2. hand.from = p /\ hand.detached = FALSE
  BY <1>1, Zenon DEF onDeleteP2PStream, Hand
<1>3. hand # NoHand
  BY <1>2, NoHandFacts, PeerAssumption, Zenon
<1>4. PICK l \in BOOLEAN : l = peers[p].waitLocatorRsp
  BY <1>1, Zenon DEF PeerRec
<1>5. hand' = [hand EXCEPT !.detached = TRUE, !.locating = l]
  BY <1>4, Zenon DEF onDeleteP2PStream
<1> QED BY <1>1, <1>2, <1>3, <1>4, <1>5, HandDetached, Zenon DEF Hand

\* mainLoop takes an answer of a peer.
LEMMA TakenFacts ==
    ASSUME Types, NEW p \in Peer, processPovBulkPullRsp(p)
    PROVE  /\ Head(rsps[p]) \in Answer /\ rsps[p] \in Seq(Answer) /\ rsps[p] # <<>>
           /\ NetTypes' /\ HandTypes'
<1>1. rsps \in [Peer -> Seq(Answer)] /\ (\A q \in Peer : Len(rsps[q]) <= MaxMsgs) /\ rsps[p] # <<>>
  BY Zenon DEF Types, NetTypes, processPovBulkPullRsp
<1>2. rsps[p] \in Seq(Answer) /\ Head(rsps[p]) \in Answer /\ Tail(rsps[p]) \in Seq(Answer)
      /\ Len(Tail(rsps[p])) <= MaxMsgs
  BY <1>1, PeerAssumption
<1>3. NetTypes'
  BY <1>1, <1>2, Zenon DEF Types, NetTypes, processPovBulkPullRsp
<1>4. HandTypes'
  <2>1. CASE hand' = hand
    BY <2>1, HandKept, Zenon DEF Types
  <2>2. CASE hand' # hand
    <3>1. PICK m \in Answer : hand' = Taken(p, m)
      BY <1>2, <2>2, Zenon DEF processPovBulkPullRsp
    <3>2. hand' \in Hand /\ hand'.from = p /\ hand'.blocks # <<>>
      BY <3>1, HandNew, Zenon
    <3> QED BY <3>2, Zenon DEF HandTypes
  <2> QED BY <2>1, <2>2, Zenon
<1> QED BY <1>1, <1>2, <1>3, <1>4, Zenon

\* A block in the queue.
LEMMA QueuedFacts ==
    ASSUME QueueTypes, NEW b \in Block
    PROVE  /\ DOMAIN Queued(b) = DOMAIN syncBlocks \cup {Height[b]} /\ Queued(b)[Height[b]] = b
           /\ \A h \in DOMAIN Queued(b) :
                 h = Height[b] \/ (h \in DOMAIN syncBlocks /\ Queued(b)[h] = syncBlocks[h])
BY Zenon DEF Queued

\* mainLoop queues a block of the answer in its hand.
LEMMA AddFacts ==
    ASSUME Types, addSyncBlock
    PROVE  /\ hand # NoHand /\ Head(hand.blocks) \in Block /\ Height[Head(hand.blocks)] \in Nat
           /\ hand' = NoHand \/ /\ hand' \in Hand /\ hand'.blocks = Tail(hand.blocks)
                                /\ hand'.blocks # <<>>
                                /\ hand'.locating = (hand.locating /\ ~inSyncing)
                                /\ hand'.from = hand.from /\ hand'.old = hand.old
                                /\ hand'.detached = hand.detached
<1>1. hand \in Hand /\ hand # NoHand /\ hand.from \in Peer /\ hand.blocks # <<>>
  BY Zenon DEF Types, HandTypes, addSyncBlock
<1>2. hand.blocks \in Seq(Block)
  BY <1>1, Zenon DEF Hand
<1>3. PICK s : s = hand.blocks
  BY Zenon
<1>4. Head(s) \in Block /\ Tail(s) \in Seq(Block) /\ (Len(s) # 1 => Tail(s) # <<>>)
  <2>1. s \in Seq(Block) /\ s # <<>>
    BY <1>1, <1>2, <1>3, Zenon
  <2>2. Len(s) \in Nat /\ Len(s) # 0
    BY <2>1
  <2>3. Head(s) \in Block /\ Tail(s) \in Seq(Block) /\ Len(Tail(s)) = Len(s) - 1
    BY <2>1, <2>2
  <2>4. ASSUME Len(s) # 1 PROVE Tail(s) # <<>>
    <3>1. Len(Tail(s)) # 0
      BY <2>2, <2>3, <2>4
    <3> QED BY <3>1
  <2> QED BY <2>3, <2>4, Zenon
<1>5. Height[Head(hand.blocks)] \in Nat
  BY <1>3, <1>4, TreeAssumption, Zenon
<1>6. PICK l \in BOOLEAN : l = (hand.locating /\ ~inSyncing)
  BY Zenon
<1>7. CASE Len(s) = 1
  <2>1. hand' = NoHand
    BY <1>3, <1>7, Zenon DEF addSyncBlock
  <2> QED BY <1>1, <1>3, <1>4, <1>5, <2>1, Zenon
<1>8. CASE Len(s) # 1
  <2>1. hand' = [hand EXCEPT !.blocks = Tail(s), !.locating = l]
    BY <1>3, <1>6, <1>8, Zenon DEF addSyncBlock
  <2>2. /\ hand' \in Hand /\ hand'.blocks = Tail(s) /\ hand'.locating = l
        /\ hand'.from = hand.from /\ hand'.old = hand.old /\ hand'.detached = hand.detached
    BY <1>1, <1>4, <2>1, HandRest, Zenon DEF Hand
  <2> QED BY <1>1, <1>3, <1>4, <1>5, <1>6, <1>8, <2>2, Zenon
<1> QED BY <1>7, <1>8, Zenon

\* The parts that a step leaves alone keep their types.
LEMMA TypesStep == ASSUME Types, [Next]_vars PROVE Types'
<1>1. ChainTypes /\ PeerTypes /\ QueueTypes /\ RoundTypes /\ HandTypes /\ NetTypes
  BY Zenon DEF Types
<1>2. CASE UNCHANGED vars
  BY <1>1, <1>2, ChainKept, PeersKept, QueueKept, RoundKept, HandKept, NetKept, Zenon DEF Types
<1>3. ASSUME Next PROVE PeerTypes'
  <2>1. peers' \in [Peer -> PeerRec]
    BY <1>3, PeerStepTyped, Zenon
  <2>2. initSyncState' = initSyncState \/ initSyncState' \in {"done", "syncing"}
    <3>1. CASE NoRoundNeeded \/ onCheckChainTimer \/ \E p \in Peer : onPeriodicSyncTimer(p)
      BY <3>1, Zenon DEF NoRoundNeeded, onCheckChainTimer, onPeriodicSyncTimer, setInitState
    <3>2. CASE \/ syncWithPeer \/ onSyncPeerTimer \/ onCheckSyncBlockTimer \/ onRequestSyncTimer
               \/ addSyncBlock \/ FrontiersArrive
      BY <3>2, Zenon DEF syncWithPeer, onSyncPeerTimer, onCheckSyncBlockTimer, onRequestSyncTimer,
         addSyncBlock, FrontiersArrive
    <3>3. CASE \E p \in Peer :
                 \/ processPovBulkPullRsp(p) \/ onAddP2PStream(p) \/ onPovStatus(p)
                 \/ NewRemoteHead(p) \/ onDeleteP2PStream(p) \/ checkAllPeers(p) \/ Lose(p) \/ Tick(p)
      BY <3>3, Zenon DEF processPovBulkPullRsp, onAddP2PStream, onPovStatus, NewRemoteHead,
         onDeleteP2PStream, checkAllPeers, Lose, Tick
    <3>4. CASE \E b \in Block : InsertBlock(b) \/ requestBlocksByHashes(b)
      BY <3>4, Zenon DEF InsertBlock, requestBlocksByHashes
    <3> QED BY <1>3, <3>1, <3>2, <3>3, <3>4, Zenon DEF Next, Rounds, MainLoop, Surroundings
  <2> QED BY <1>1, <2>1, <2>2, Zenon DEF PeerTypes
<1>4. ASSUME NEW p \in Peer, onAddP2PStream(p) \/ onPovStatus(p) \/ checkAllPeers(p) \/ Tick(p)
      PROVE  ChainTypes' /\ QueueTypes' /\ RoundTypes' /\ HandTypes' /\ NetTypes'
  BY <1>1, <1>4, ChainKept, QueueKept, RoundKept, HandKept, NetKept, Zenon
     DEF onAddP2PStream, onPovStatus, checkAllPeers, Tick
<1>5. ASSUME NEW p \in Peer, onDeleteP2PStream(p)
      PROVE  ChainTypes' /\ QueueTypes' /\ RoundTypes' /\ HandTypes' /\ NetTypes'
  <2>1. HandTypes'
    <3>1. CASE hand' # hand
      <4>1. hand \in Hand /\ hand # NoHand /\ hand.blocks # <<>>
        BY <1>1, <1>5, <3>1, DeleteHand, Zenon DEF HandTypes
      <4> QED BY <1>5, <3>1, <4>1, DeleteHand, Zenon DEF HandTypes
    <3> QED BY <1>1, <3>1, HandKept, Zenon
  <2> QED BY <1>1, <1>5, <2>1, ChainKept, QueueKept, RoundKept, NetKept, Zenon DEF onDeleteP2PStream
<1>6. CASE onRequestSyncTimer
  <2>1. NetTypes'
    <3>1. syncPeer \in Peer /\ remote' = remote
      BY <1>1, <1>6, Zenon DEF onRequestSyncTimer, RoundTypes
    <3> QED BY <1>6, <3>1, RequestTyped, Zenon DEF onRequestSyncTimer
  <2> QED BY <1>1, <1>3, <1>6, <2>1, ChainKept, QueueKept, RoundKept, HandKept, Zenon
          DEF Types, onRequestSyncTimer, Next
<1>7. CASE NoRoundNeeded
  BY <1>1, <1>3, <1>7, ChainKept, QueueKept, RoundKept, HandKept, NetKept, Zenon
     DEF Types, NoRoundNeeded, Next, Rounds
<1>8. ASSUME NEW p \in Peer, onPeriodicSyncTimer(p)
      PROVE  ChainTypes' /\ QueueTypes' /\ RoundTypes' /\ HandTypes' /\ NetTypes'
  <2>1. QueueTypes'
    BY <1>8 DEF onPeriodicSyncTimer, QueueTypes
  <2>2. RoundTypes'
    BY <1>8, Zenon DEF onPeriodicSyncTimer, RoundTypes
  <2> QED BY <1>1, <1>8, <2>1, <2>2, ChainKept, HandKept, NetKept, Zenon DEF onPeriodicSyncTimer
<1>9. CASE syncWithPeer
  <2>1. NetTypes'
    <3>1. syncPeer \in Peer /\ remote' = remote
      BY <1>1, <1>9, Zenon DEF syncWithPeer, RoundTypes
    <3> QED BY <1>1, <1>9, <3>1, RequestTyped, NetKept, Zenon DEF syncWithPeer
  <2>2. RoundTypes'
    BY <1>1, <1>9, Zenon DEF syncWithPeer, RoundTypes
  <2> QED BY <1>1, <1>3, <1>9, <2>1, <2>2, ChainKept, QueueKept, HandKept, Zenon
          DEF Types, syncWithPeer, Next, Rounds
<1>10. CASE onSyncPeerTimer \/ onCheckChainTimer
  <2>1. Close /\ ~opening /\ UNCHANGED <<stored, inbox, confirmed>>
    BY <1>10, Zenon DEF onSyncPeerTimer, onCheckChainTimer
  <2> QED BY <1>1, <1>3, <1>10, <2>1, CloseTyped, ChainKept, Zenon DEF Types, Next, Rounds
<1>11. ASSUME NEW p \in Peer, processPovBulkPullRsp(p)
       PROVE  ChainTypes' /\ QueueTypes' /\ RoundTypes' /\ HandTypes' /\ NetTypes'
  BY <1>1, <1>11, TakenFacts, ChainKept, QueueKept, RoundKept, Zenon DEF processPovBulkPullRsp
<1>12. CASE addSyncBlock
  <2>1. PICK b : b = Head(hand.blocks)
    BY Zenon
  <2>2. b \in Block /\ Height[b] \in Nat
    BY <1>12, <2>1, AddFacts, Zenon
  <2>3. /\ \/ UNCHANGED <<syncBlocks, syncCurHeight, syncRcvHeight>>
           \/ /\ syncBlocks' = Queued(b) /\ syncCurHeight' \in {Height[b], syncCurHeight}
              /\ syncRcvHeight' \in {Height[b], syncRcvHeight}
        /\ UNCHANGED <<stored, inbox, confirmed, inSyncing, syncPeer, opening, remote, rsps>>
    BY <1>12, <2>1, Zenon DEF addSyncBlock
  <2>4. QueueTypes'
    <3>1. CASE syncBlocks' = Queued(b)
      <4>1. ASSUME NEW h \in DOMAIN Queued(b)
            PROVE  Queued(b)[h] \in Block /\ Height[Queued(b)[h]] = h
        <5>1. CASE h = Height[b]
          <6>1. Queued(b)[h] = b
            BY <1>1, <2>2, <4>1, <5>1, QueuedFacts, Zenon
          <6> QED BY <2>2, <5>1, <6>1, Zenon
        <5>2. CASE h # Height[b]
          <6>1. Queued(b)[h] = syncBlocks[h] /\ h \in DOMAIN syncBlocks
            BY <1>1, <2>2, <4>1, <5>2, QueuedFacts, Zenon
          <6> QED BY <1>1, <6>1, Zenon DEF QueueTypes
        <5> QED BY <5>1, <5>2, Zenon
      <4> QED BY <3>1, <4>1, Zenon DEF QueueTypes
    <3> QED BY <1>1, <2>3, <3>1, QueueKept, Zenon
  <2>5. RoundTypes'
    BY <1>1, <2>2, <2>3, Zenon DEF RoundTypes
  <2>6. HandTypes'
    <3>1. hand.from \in Peer
      BY <1>1, <1>12, Zenon DEF HandTypes, addSyncBlock
    <3> QED BY <1>12, <3>1, AddFacts, NoHandFacts, Zenon DEF HandTypes
  <2> QED BY <1>1, <1>3, <1>12, <2>3, <2>4, <2>5, <2>6, ChainKept, NetKept, Zenon
          DEF Types, Next, MainLoop
<1>13. CASE onCheckSyncBlockTimer
  <2>1. PICK next \in syncCurHeight..(syncRcvHeight + 1) :
           /\ FirstHeld(next) /\ syncCurHeight' = next
           /\ syncBlocks' = Restrict(syncBlocks, DOMAIN syncBlocks \ (syncCurHeight..(next - 1)))
           /\ inbox' = (inbox \cup {syncBlocks[h] : h \in syncCurHeight..(next - 1)}) \ stored
    BY <1>13, Zenon DEF onCheckSyncBlockTimer
  <2>2. UNCHANGED <<stored, confirmed, inSyncing, syncPeer, opening, syncRcvHeight, hand, remote, rsps>>
    BY <1>13, Zenon DEF onCheckSyncBlockTimer
  <2>3. QueueTypes'
    <3>1. \A h \in DOMAIN syncBlocks' : h \in DOMAIN syncBlocks /\ syncBlocks'[h] = syncBlocks[h]
      BY <2>1 DEF Restrict
    <3> QED BY <1>1, <3>1, Zenon DEF QueueTypes
  <2>4. inbox' \subseteq Block
    <3>1. \A h \in syncCurHeight..(next - 1) : syncBlocks[h] \in Block
      BY <1>1, <2>1, Zenon DEF FirstHeld, Ready, QueueTypes
    <3> QED BY <1>1, <2>1, <3>1, Zenon DEF ChainTypes
  <2>5. RoundTypes'
    <3>1. next \in Nat
      BY <1>1, <2>1 DEF RoundTypes
    <3> QED BY <1>1, <2>1, <2>2, <3>1, Zenon DEF RoundTypes
  <2>6. ChainTypes'
    BY <1>1, <2>2, <2>4, Zenon DEF ChainTypes, StoredOK
  <2> QED BY <1>1, <1>3, <1>13, <2>2, <2>3, <2>5, <2>6, HandKept, NetKept, Zenon DEF Types, Next, Rounds
<1>14. ASSUME NEW b \in Block, InsertBlock(b)
       PROVE  ChainTypes' /\ QueueTypes' /\ RoundTypes' /\ HandTypes' /\ NetTypes'
  <2>1. /\ stored' = stored \cup {b} /\ inbox' = inbox \ {b} /\ confirmed' = confirmed
        /\ Parent[b] \in stored
    BY <1>14, Zenon DEF InsertBlock
  <2>2. \E x \in stored' : \A c \in stored' : TD[c] <= TD[x]
    <3>1. PICK x \in stored : \A c \in stored : TD[c] <= TD[x]
      BY <1>1, Zenon DEF ChainTypes, StoredOK
    <3>2. stored \subseteq Block
      BY <1>1, Zenon DEF ChainTypes, StoredOK
    <3>3. TD[x] \in Nat /\ TD[b] \in Nat /\ \A c \in stored : TD[c] \in Nat
      BY <3>1, <3>2, TreeAssumption, Zenon
    <3>4. CASE TD[b] <= TD[x]
      BY <2>1, <3>1, <3>4, Zenon
    <3>5. CASE TD[x] < TD[b]
      <4>1. \A c \in stored : TD[c] <= TD[b]
        BY <3>1, <3>3, <3>5
      <4>2. TD[b] <= TD[b]
        BY <3>3
      <4> QED BY <2>1, <4>1, <4>2, Zenon
    <3> QED BY <3>3, <3>4, <3>5
  <2>3. ChainTypes'
    BY <1>1, <2>1, <2>2, Zenon DEF ChainTypes, StoredOK
  <2> QED BY <1>1, <1>14, <2>3, QueueKept, RoundKept, HandKept, NetKept, Zenon DEF InsertBlock
<1>15. ASSUME NEW b \in Block, requestBlocksByHashes(b)
       PROVE  ChainTypes' /\ QueueTypes' /\ RoundTypes' /\ HandTypes' /\ NetTypes'
  <2>1. ChainTypes'
    BY <1>1, <1>15, TreeAssumption, Zenon DEF ChainTypes, StoredOK, requestBlocksByHashes
  <2> QED BY <1>1, <1>15, <2>1, QueueKept, RoundKept, HandKept, NetKept, Zenon DEF requestBlocksByHashes
<1>16. CASE FrontiersArrive
  <2>1. ChainTypes'
    BY <1>1, <1>16, Zenon DEF ChainTypes, StoredOK, FrontiersArrive, QueueTypes, Range
  <2> QED BY <1>1, <1>3, <1>16, <2>1, QueueKept, RoundKept, HandKept, NetKept, Zenon
          DEF Types, FrontiersArrive, Next, Surroundings
<1>17. ASSUME NEW p \in Peer, NewRemoteHead(p)
       PROVE  ChainTypes' /\ QueueTypes' /\ RoundTypes' /\ HandTypes' /\ NetTypes'
  <2>1. NetTypes'
    BY <1>1, <1>17, Zenon DEF NetTypes, NewRemoteHead
  <2> QED BY <1>1, <1>17, <2>1, ChainKept, QueueKept, RoundKept, HandKept, Zenon DEF NewRemoteHead
<1>18. ASSUME NEW p \in Peer, Lose(p)
       PROVE  ChainTypes' /\ QueueTypes' /\ RoundTypes' /\ HandTypes' /\ NetTypes'
  <2>1. NetTypes'
    <3>1. CASE rsps' # rsps
      <4>1. rsps[p] # <<>> /\ rsps' = [rsps EXCEPT ![p] = Tail(rsps[p])] /\ remote' = remote
        BY <1>18, <3>1, Zenon DEF Lose
      <4>2. rsps[p] \in Seq(Answer) /\ Len(rsps[p]) <= MaxMsgs
        BY <1>1, Zenon DEF NetTypes
      <4>3. Tail(rsps[p]) \in Seq(Answer) /\ Len(Tail(rsps[p])) <= MaxMsgs
        BY <4>1, <4>2, PeerAssumption
      <4> QED BY <1>1, <4>1, <4>3, Zenon DEF NetTypes
    <3> QED BY <1>1, <1>18, <3>1, NetKept, Zenon DEF Lose
  <2> QED BY <1>1, <1>18, <2>1, ChainKept, QueueKept, RoundKept, HandKept, Zenon DEF Lose
<1> QED BY <1>2, <1>3, <1>4, <1>5, <1>6, <1>7, <1>8, <1>9, <1>10, <1>11, <1>12, <1>13, <1>14, <1>15,
           <1>16, <1>17, <1>18, Zenon DEF Next, Rounds, MainLoop, Surroundings, Types

\* The fields of the syncer keep the types that pov_sync.go and pov_sync_peer.go
\* declare, and the queue keeps every block under its height (addSyncBlock).
THEOREM SyncerKeepsTypes == Spec => []TypeOK
<1>1. Types => TypeOK
  <2> SUFFICES ASSUME Types PROVE TypeOK
    BY Zenon
  <2>1. hand \in Hand /\ hand.from \in Peer \cup {NoPeer} /\ hand.blocks \in Seq(Block)
    BY Zenon DEF Types, HandTypes, Hand
  <2>2. Range(hand.blocks) \subseteq Block
    <3>1. PICK s \in Seq(Block) : s = hand.blocks
      BY <2>1, Zenon
    <3>2. \A i \in DOMAIN s : s[i] \in Block
      BY <3>1
    <3> QED BY <3>1, <3>2, Zenon DEF Range
  <2> QED BY <2>1, <2>2, Zenon
      DEF Types, ChainTypes, StoredOK, PeerTypes, PeerRec, QueueTypes, RoundTypes, NetTypes, TypeOK
<1> QED BY <1>1, TypesInit, TypesStep, PTL DEF Spec

------------------------------------------------------------------------------
(* Rounds *)

\* An answer that was asked for in this round comes from the peer of the round.
FreshOK ==
    /\ \A p \in Peer : \A m \in Range(rsps[p]) :
          m.old \/ (inSyncing /\ ~opening /\ p = syncPeer)
    /\ hand = NoHand \/ hand.old \/ (inSyncing /\ ~opening /\ hand.from = syncPeer)

\* The best chain of the peer of the round.
PeerPath == Path[remote[syncPeer]]

\* Whether the next block that mainLoop queues is where the round starts.
Locating == IF hand.detached THEN hand.locating ELSE peers[hand.from].waitLocatorRsp

\* The blocks that this round asked for are on the chain of its peer, and an
\* answer to a locator starts with a block that is stored.
RspsOn ==
    \A m \in Range(rsps[syncPeer]) :
        \/ m.old
        \/ /\ Range(m.blocks) \subseteq PeerPath
           /\ peers[syncPeer].waitLocatorRsp => Head(m.blocks) \in stored
HandOn ==
    \/ hand = NoHand \/ hand.old
    \/ Range(hand.blocks) \subseteq PeerPath /\ (Locating => Head(hand.blocks) \in stored)
QueueOn == \A h \in DOMAIN syncBlocks : syncBlocks[h] \in PeerPath

\* The block to be released next is stored, or stands on one that is stored or
\* was released.
BaseOn ==
    \/ syncCurHeight = 0
    \/ \E c \in PeerPath : \/ c \in stored /\ Height[c] = syncCurHeight
                           \/ c \in stored \cup inbox /\ Height[c] + 1 = syncCurHeight

Clean == inSyncing /\ ~mixed /\ ~reorged
RoundOK == Clean => RspsOn /\ HandOn /\ QueueOn /\ BaseOn

\* What Append and Tail do to the members of a sequence.
LEMMA RangeAppend ==
    ASSUME NEW S, NEW s \in Seq(S), NEW x \in S
    PROVE  Range(Append(s, x)) = Range(s) \cup {x}
<1>1. /\ DOMAIN Append(s, x) = 1..(Len(s) + 1) /\ DOMAIN s = 1..Len(s) /\ Len(s) \in Nat
      /\ \A i \in 1..Len(s) : Append(s, x)[i] = s[i]
      /\ Append(s, x)[Len(s) + 1] = x
  OBVIOUS
<1>2. ASSUME NEW y \in Range(Append(s, x)) PROVE y \in Range(s) \cup {x}
  <2>1. PICK i \in DOMAIN Append(s, x) : y = Append(s, x)[i]
    BY <1>2, Zenon DEF Range
  <2>2. i \in 1..Len(s) \/ i = Len(s) + 1
    BY <1>1, <2>1
  <2> QED BY <1>1, <2>1, <2>2, Zenon DEF Range
<1>3. ASSUME NEW y \in Range(s) PROVE y \in Range(Append(s, x))
  <2>1. PICK i \in DOMAIN s : y = s[i]
    BY <1>3, Zenon DEF Range
  <2>2. i \in DOMAIN Append(s, x)
    BY <1>1, <2>1
  <2> QED BY <1>1, <2>1, <2>2, Zenon DEF Range
<1>4. x \in Range(Append(s, x))
  <2>1. Len(s) + 1 \in DOMAIN Append(s, x)
    BY <1>1
  <2> QED BY <1>1, <2>1, Zenon DEF Range
<1> QED BY <1>2, <1>3, <1>4, Zenon

LEMMA RangeTail ==
    ASSUME NEW S, NEW s \in Seq(S), s # <<>>
    PROVE  Range(Tail(s)) \subseteq Range(s) /\ Head(s) \in Range(s)
<1>1. /\ DOMAIN Tail(s) = 1..(Len(s) - 1) /\ DOMAIN s = 1..Len(s) /\ Len(s) \in Nat /\ Len(s) > 0
      /\ \A i \in 1..(Len(s) - 1) : Tail(s)[i] = s[i + 1]
      /\ Head(s) = s[1]
  OBVIOUS
<1>2. ASSUME NEW y \in Range(Tail(s)) PROVE y \in Range(s)
  <2>1. PICK i \in DOMAIN Tail(s) : y = Tail(s)[i]
    BY <1>2, Zenon DEF Range
  <2>2. i + 1 \in DOMAIN s /\ y = s[i + 1]
    BY <1>1, <2>1
  <2> QED BY <2>2, Zenon DEF Range
<1>3. 1 \in DOMAIN s
  BY <1>1
<1> QED BY <1>1, <1>2, <1>3, Zenon DEF Range

\* Steps that leave a part alone, or take something from it.
LEMMA RspsOnKept ==
    ASSUME RspsOn, syncPeer' = syncPeer, PeerPath \subseteq PeerPath', stored \subseteq stored',
           Range(rsps[syncPeer])' \subseteq Range(rsps[syncPeer]),
           peers[syncPeer].waitLocatorRsp' => peers[syncPeer].waitLocatorRsp
    PROVE  RspsOn'
BY Zenon DEF RspsOn
LEMMA HandOnKept ==
    ASSUME HandOn, UNCHANGED hand, PeerPath \subseteq PeerPath', stored \subseteq stored',
           hand = NoHand \/ (Locating' => Locating)
    PROVE  HandOn'
BY Zenon DEF HandOn
LEMMA QueueOnKept ==
    ASSUME QueueOn, UNCHANGED syncBlocks, PeerPath \subseteq PeerPath' PROVE QueueOn'
BY Zenon DEF QueueOn
LEMMA BaseOnKept ==
    ASSUME BaseOn, UNCHANGED syncCurHeight, PeerPath \subseteq PeerPath', stored \subseteq stored',
           stored \cup inbox \subseteq stored' \cup inbox'
    PROVE  BaseOn'
<1>1. CASE syncCurHeight = 0
  BY <1>1, Zenon DEF BaseOn
<1>2. ASSUME NEW c \in PeerPath,
             \/ c \in stored /\ Height[c] = syncCurHeight
             \/ c \in stored \cup inbox /\ Height[c] + 1 = syncCurHeight
      PROVE  BaseOn'
  BY <1>2, Zenon DEF BaseOn
<1> QED BY <1>1, <1>2, Zenon DEF BaseOn
LEMMA FreshKept ==
    ASSUME FreshOK, UNCHANGED <<inSyncing, opening, syncPeer, hand>>,
           \A p \in Peer : Range(rsps'[p]) \subseteq Range(rsps[p])
    PROVE  FreshOK'
BY Zenon DEF FreshOK

\* Steps beside the round.
LEMMA AttachFrame ==
    ASSUME Types, FreshOK, RoundOK,
           UNCHANGED <<inSyncing, opening, syncPeer, hand, syncBlocks, syncCurHeight, mixed, reorged,
                       remote>>,
           stored \subseteq stored', stored \cup inbox \subseteq stored' \cup inbox',
           \A p \in Peer : Range(rsps'[p]) \subseteq Range(rsps[p]),
           \A p \in Peer : peers'[p].waitLocatorRsp => peers[p].waitLocatorRsp
    PROVE  FreshOK' /\ RoundOK'
<1>1. FreshOK'
  BY FreshKept, Zenon
<1>2. ASSUME Clean' PROVE RspsOn' /\ HandOn' /\ QueueOn' /\ BaseOn'
  <2>1. Clean /\ syncPeer \in Peer
    BY <1>2, Zenon DEF Clean, Types, RoundTypes
  <2>2. RspsOn /\ HandOn /\ QueueOn /\ BaseOn
    BY <2>1, Zenon DEF RoundOK
  <2>3. PeerPath' = PeerPath
    BY Zenon DEF PeerPath
  <2>4. hand = NoHand \/ (Locating' => Locating)
    BY Zenon DEF Locating, Types, HandTypes
  <2> QED BY <2>1, <2>2, <2>3, <2>4, RspsOnKept, HandOnKept, QueueOnKept, BaseOnKept, Zenon
<1> QED BY <1>1, <1>2, Zenon DEF RoundOK

LEMMA AttachBeside ==
    ASSUME Types, FreshOK, RoundOK, NEW p \in Peer, NEW b \in Block,
           \/ onAddP2PStream(p) \/ onPovStatus(p) \/ checkAllPeers(p) \/ Tick(p) \/ Lose(p)
           \/ NoRoundNeeded \/ InsertBlock(b) \/ requestBlocksByHashes(b) \/ FrontiersArrive
    PROVE  FreshOK' /\ RoundOK'
<1>1. peers \in [Peer -> PeerRec] /\ rsps[p] \in Seq(Answer) /\ rsps \in [Peer -> Seq(Answer)]
  BY Zenon DEF Types, PeerTypes, NetTypes
<1>2. CASE onAddP2PStream(p)
  <2>1. peers' = [peers EXCEPT ![p] = NewPeer("init")] /\ NewPeer("init").waitLocatorRsp = FALSE
    BY <1>2, Zenon DEF onAddP2PStream, NewPeer
  <2>2. \A q \in Peer : peers'[q].waitLocatorRsp => peers[q].waitLocatorRsp
    BY <1>1, <2>1, Zenon
  <2> QED BY <1>2, <2>2, AttachFrame, Zenon DEF onAddP2PStream
<1>3. CASE onPovStatus(p) \/ checkAllPeers(p) \/ Tick(p)
  <2>1. \A q \in Peer : peers'[q].waitLocatorRsp = peers[q].waitLocatorRsp
    <3>1. CASE onPovStatus(p)
      BY <1>1, <3>1, Zenon DEF onPovStatus, PeerRec
    <3>2. CASE checkAllPeers(p)
      BY <1>1, <3>2, Zenon DEF checkAllPeers, PeerRec
    <3>3. CASE Tick(p)
      BY <1>1, <3>3, Zenon DEF Tick, PeerRec
    <3> QED BY <1>3, <3>1, <3>2, <3>3, Zenon
  <2> QED BY <1>3, <2>1, AttachFrame, Zenon DEF onPovStatus, checkAllPeers, Tick
<1>4. CASE Lose(p)
  <2>1. \A q \in Peer : Range(rsps'[q]) \subseteq Range(rsps[q])
    <3>1. CASE rsps' # rsps
      <4>1. rsps[p] # <<>> /\ rsps' = [rsps EXCEPT ![p] = Tail(rsps[p])]
        BY <1>4, <3>1, Zenon DEF Lose
      <4>2. Range(Tail(rsps[p])) \subseteq Range(rsps[p])
        BY <1>1, <4>1, RangeTail, Zenon
      <4> QED BY <1>1, <4>1, <4>2, Zenon
    <3> QED BY <3>1, Zenon
  <2> QED BY <1>4, <2>1, AttachFrame, Zenon DEF Lose
<1>5. CASE NoRoundNeeded \/ InsertBlock(b) \/ requestBlocksByHashes(b) \/ FrontiersArrive
  <2>1. /\ UNCHANGED <<inSyncing, opening, syncPeer, hand, syncBlocks, syncCurHeight, mixed, reorged,
                       remote, rsps, peers>>
        /\ stored \subseteq stored' /\ stored \cup inbox \subseteq stored' \cup inbox'
    BY <1>5, Zenon DEF NoRoundNeeded, InsertBlock, requestBlocksByHashes, FrontiersArrive
  <2> QED BY <2>1, AttachFrame, Zenon
<1> QED BY <1>2, <1>3, <1>4, <1>5, Zenon

\* The peer of the round gets a heavier head on its branch.
LEMMA AttachHead ==
    ASSUME Types, FreshOK, RoundOK, NEW p \in Peer, NewRemoteHead(p)
    PROVE  FreshOK' /\ RoundOK'
<1>1. PICK b \in Block :
         /\ remote' = [remote EXCEPT ![p] = b]
         /\ reorged' = (reorged \/ (inSyncing /\ p = syncPeer /\ remote[p] \notin Path[b]))
         /\ UNCHANGED <<chainVars, peers, initSyncState, roundVars, hand, rsps, faults, mixed>>
  BY Zenon DEF NewRemoteHead
<1>2. FreshOK'
  BY <1>1, FreshKept, Zenon
<1>3. ASSUME Clean' PROVE RspsOn' /\ HandOn' /\ QueueOn' /\ BaseOn'
  <2>1. Clean /\ syncPeer \in Peer /\ (p = syncPeer => remote[p] \in Path[b])
    BY <1>1, <1>3, Zenon DEF Clean, Types, RoundTypes
  <2>2. RspsOn /\ HandOn /\ QueueOn /\ BaseOn
    BY <2>1, Zenon DEF RoundOK
  <2>3. remote \in [Peer -> Block]
    BY Zenon DEF Types, NetTypes
  <2>4. PeerPath \subseteq PeerPath'
    <3>1. CASE p = syncPeer
      <4>1. PeerPath = Path[remote[p]] /\ PeerPath' = Path[b]
        BY <1>1, <2>3, <3>1, Zenon DEF PeerPath
      <4> QED BY <2>1, <3>1, <4>1, PathWhole, Zenon
    <3>2. CASE p # syncPeer
      BY <1>1, <2>1, <2>3, <3>2, Zenon DEF PeerPath
    <3> QED BY <3>1, <3>2, Zenon
  <2>5. Locating' => Locating
    BY <1>1, Zenon DEF Locating
  <2> QED BY <1>1, <2>2, <2>4, <2>5, RspsOnKept, HandOnKept, QueueOnKept, BaseOnKept, Zenon
<1> QED BY <1>2, <1>3, Zenon DEF RoundOK

\* The stream of a peer is lost; mainLoop keeps what it has of it.
LEMMA AttachDelete ==
    ASSUME Types, FreshOK, RoundOK, NEW p \in Peer, onDeleteP2PStream(p)
    PROVE  FreshOK' /\ RoundOK'
<1>1. /\ peers' = [peers EXCEPT ![p] = NewPeer("gone")]
      /\ UNCHANGED <<chainVars, initSyncState, roundVars, remote, rsps, ghostVars>>
  BY Zenon DEF onDeleteP2PStream
<1>2. \A q \in Peer : peers'[q].waitLocatorRsp => peers[q].waitLocatorRsp
  <2>1. NewPeer("gone").waitLocatorRsp = FALSE
    BY Zenon DEF NewPeer
  <2> QED BY <1>1, <2>1, Zenon DEF Types, PeerTypes
<1>3. CASE hand' = hand
  BY <1>1, <1>2, <1>3, AttachFrame, Zenon
<1>4. CASE hand' # hand
  <2>1. /\ hand # NoHand /\ hand.from = p /\ hand.detached = FALSE
        /\ hand'.blocks = hand.blocks /\ hand'.from = p
        /\ hand'.locating = peers[p].waitLocatorRsp
        /\ hand'.old = hand.old /\ hand'.detached = TRUE
    BY <1>4, DeleteHand, Zenon
  <2>2. FreshOK'
    BY <1>1, <2>1, Zenon DEF FreshOK
  <2>3. ASSUME Clean' PROVE RspsOn' /\ HandOn' /\ QueueOn' /\ BaseOn'
    <3>1. Clean /\ syncPeer \in Peer
      BY <1>1, <2>3, Zenon DEF Clean, Types, RoundTypes
    <3>2. RspsOn /\ HandOn /\ QueueOn /\ BaseOn
      BY <3>1, Zenon DEF RoundOK
    <3>3. PeerPath' = PeerPath
      BY <1>1, Zenon DEF PeerPath
    <3>4. Locating' => Locating
      BY <2>1, Zenon DEF Locating
    <3>5. HandOn'
      BY <1>1, <2>1, <3>2, <3>3, <3>4, Zenon DEF HandOn
    <3> QED BY <1>1, <1>2, <3>1, <3>2, <3>3, <3>5, RspsOnKept, QueueOnKept, BaseOnKept, Zenon
  <2> QED BY <2>2, <2>3, Zenon DEF RoundOK
<1> QED BY <1>3, <1>4, Zenon

\* The syncer asks the peer of the round, and marks it as asked; with a locator
\* while it waits for the start of the round.
LEMMA AttachRequest ==
    ASSUME Types, FreshOK, RoundOK, NEW u, inSyncing, ~opening',
           UNCHANGED <<chainVars, inSyncing, syncPeer, syncBlocks, syncCurHeight, hand, remote, ghostVars>>,
           rsps' = rsps \/ Request(syncPeer, u),
           peers[syncPeer].waitLocatorRsp' => u \/ rsps' = rsps,
           \/ opening
           \/ \A p \in Peer : peers'[p].waitLocatorRsp => peers[p].waitLocatorRsp
    PROVE  FreshOK' /\ RoundOK'
<1>1. syncPeer \in Peer /\ rsps \in [Peer -> Seq(Answer)]
  BY Zenon DEF Types, RoundTypes, NetTypes
<1>2. \A p \in Peer : \A m \in Range(rsps'[p]) :
         \/ m \in Range(rsps[p])
         \/ /\ p = syncPeer /\ ~m.old /\ Range(m.blocks) \subseteq PeerPath
            /\ peers[syncPeer].waitLocatorRsp' => Head(m.blocks) \in stored
  <2>1. CASE rsps' # rsps
    <3>1. PICK m \in Answer :
             /\ rsps' = [rsps EXCEPT ![syncPeer] = Append(@, m)] /\ ~m.old
             /\ \A i \in DOMAIN m.blocks : m.blocks[i] \in Path[remote[syncPeer]]
             /\ u => Head(m.blocks) \in stored
      BY <1>1, <2>1, RequestFacts, Zenon
    <3>2. Range(m.blocks) \subseteq PeerPath
      BY <3>1, Zenon DEF Range, PeerPath
    <3>3. rsps'[syncPeer] = Append(rsps[syncPeer], m) /\ \A p \in Peer : p = syncPeer \/ rsps'[p] = rsps[p]
      BY <1>1, <3>1, Zenon
    <3>4. Range(rsps'[syncPeer]) = Range(rsps[syncPeer]) \cup {m}
      <4>1. rsps[syncPeer] \in Seq(Answer)
        BY <1>1, Zenon
      <4>2. Range(Append(rsps[syncPeer], m)) = Range(rsps[syncPeer]) \cup {m}
        BY <4>1, RangeAppend
      <4> QED BY <3>3, <4>2, Zenon
    <3> QED BY <2>1, <3>1, <3>2, <3>3, <3>4, Zenon
  <2> QED BY <2>1, Zenon
<1>3. FreshOK'
  <2>1. \A p \in Peer : \A m \in Range(rsps'[p]) : m.old \/ p = syncPeer
    BY <1>2, Zenon DEF FreshOK
  <2>2. hand = NoHand \/ hand.old \/ hand.from = syncPeer
    BY Zenon DEF FreshOK
  <2> QED BY <2>1, <2>2, Zenon DEF FreshOK
<1>4. ASSUME Clean' PROVE RspsOn' /\ HandOn' /\ QueueOn' /\ BaseOn'
  <2>1. Clean
    BY <1>4, Zenon DEF Clean
  <2>2. RspsOn /\ HandOn /\ QueueOn /\ BaseOn
    BY <2>1, Zenon DEF RoundOK
  <2>3. PeerPath' = PeerPath
    BY Zenon DEF PeerPath
  <2>4. RspsOn'
    <3> SUFFICES ASSUME NEW m \in Range(rsps'[syncPeer]), ~m.old
                 PROVE  /\ Range(m.blocks) \subseteq PeerPath
                        /\ peers[syncPeer].waitLocatorRsp' => Head(m.blocks) \in stored
      BY <2>3, Zenon DEF RspsOn
    <3>1. CASE m \in Range(rsps[syncPeer])
      <4>1. ~opening
        BY <1>1, <3>1, Zenon DEF FreshOK
      <4>2. peers[syncPeer].waitLocatorRsp' => peers[syncPeer].waitLocatorRsp
        BY <1>1, <4>1, Zenon
      <4> QED BY <2>2, <3>1, <4>2, Zenon DEF RspsOn
    <3>2. CASE m \notin Range(rsps[syncPeer])
      BY <1>1, <1>2, <3>2, Zenon
    <3> QED BY <3>1, <3>2, Zenon
  <2>5. HandOn'
    <3>1. CASE hand = NoHand \/ hand.old
      BY <3>1, Zenon DEF HandOn
    <3>2. CASE ~(hand = NoHand \/ hand.old)
      <4>1. ~opening /\ hand.from = syncPeer
        BY <3>2, Zenon DEF FreshOK
      <4>2. Locating' => Locating
        BY <1>1, <4>1, Zenon DEF Locating
      <4> QED BY <2>2, <2>3, <4>2, HandOnKept, Zenon
    <3> QED BY <3>1, <3>2, Zenon
  <2> QED BY <2>2, <2>3, <2>4, <2>5, QueueOnKept, BaseOnKept, Zenon
<1> QED BY <1>3, <1>4, Zenon DEF RoundOK

LEMMA AttachAsk ==
    ASSUME Types, FreshOK, RoundOK, onRequestSyncTimer \/ syncWithPeer
    PROVE  FreshOK' /\ RoundOK'
<1>1. inSyncing /\ syncPeer \in Peer /\ peers \in [Peer -> PeerRec] /\ peers[syncPeer] \in PeerRec
  BY Zenon DEF Types, RoundTypes, PeerTypes, onRequestSyncTimer, syncWithPeer
<1>2. CASE onRequestSyncTimer
  <2>1. peers' = [peers EXCEPT ![syncPeer] = Requested(peers[syncPeer])]
    BY <1>2, Zenon DEF onRequestSyncTimer
  <2>2. \A p \in Peer : peers'[p].waitLocatorRsp = peers[p].waitLocatorRsp
    BY <1>1, <2>1, RequestedFacts, Zenon
  <2>3. PICK u : u = peers[syncPeer].waitLocatorRsp
    BY Zenon
  <2>4. ~opening' /\ Request(syncPeer, u)
    BY <1>2, <2>3, Zenon DEF onRequestSyncTimer
  <2> QED BY <1>1, <1>2, <2>2, <2>3, <2>4, AttachRequest, Zenon DEF onRequestSyncTimer
<1>3. CASE syncWithPeer
  <2>1. opening /\ ~opening' /\ (rsps' = rsps \/ Request(syncPeer, TRUE))
    BY <1>3, Zenon DEF syncWithPeer
  <2> QED BY <1>1, <1>3, <2>1, AttachRequest, Zenon DEF syncWithPeer
<1> QED BY <1>2, <1>3, Zenon

\* A round starts with nothing of its own under way.
LEMMA AttachStart ==
    ASSUME Types, FreshOK, RoundOK, NEW p \in Peer, onPeriodicSyncTimer(p)
    PROVE  FreshOK' /\ RoundOK'
<1>1. /\ ~inSyncing /\ syncBlocks' = <<>> /\ syncCurHeight' = 0
      /\ UNCHANGED <<rsps, hand>> /\ syncPeer' = p
  BY Zenon DEF onPeriodicSyncTimer
<1>2. (\A q \in Peer : \A m \in Range(rsps[q]) : m.old) /\ (hand = NoHand \/ hand.old)
  BY <1>1, Zenon DEF FreshOK
<1>3. FreshOK'
  BY <1>1, <1>2, Zenon DEF FreshOK
<1>4. RspsOn' /\ HandOn'
  BY <1>1, <1>2, Zenon DEF RspsOn, HandOn
<1>5. QueueOn'
  BY <1>1 DEF QueueOn
<1>6. BaseOn'
  BY <1>1, Zenon DEF BaseOn
<1> QED BY <1>3, <1>4, <1>5, <1>6, Zenon DEF RoundOK

\* What is under way when a round ends is old.
LEMMA AttachClose ==
    ASSUME Types, FreshOK, Close PROVE FreshOK' /\ RoundOK'
<1>1. ~inSyncing'
  BY Zenon DEF Close
<1>2. ASSUME NEW p \in Peer, NEW m \in Range(rsps'[p]) PROVE m.old
  <2>1. PICK s : s = rsps[p]
    BY Zenon
  <2>2. rsps'[p] = [i \in DOMAIN s |-> [s[i] EXCEPT !.old = TRUE]]
    BY <2>1, Zenon DEF Close
  <2>3. PICK i \in DOMAIN s : m = [s[i] EXCEPT !.old = TRUE]
    BY <1>2, <2>2, Zenon DEF Range
  <2>4. s \in Seq(Answer)
    BY <2>1, Zenon DEF Types, NetTypes
  <2>5. s[i] \in Answer
    BY <2>3, <2>4
  <2> QED BY <2>3, <2>5, AnswerAged, Zenon DEF Answer
<1>3. hand' = NoHand \/ hand'.old
  <2>1. hand \in Hand
    BY Zenon DEF Types, HandTypes
  <2>2. PICK o \in BOOLEAN : o = (hand # NoHand)
    BY Zenon
  <2>3. hand' = [hand EXCEPT !.old = o]
    BY <2>2, Zenon DEF Close
  <2>4. hand'.old = o /\ (hand.old = o => hand' = hand)
    BY <2>1, <2>3, HandAged, Zenon DEF Hand
  <2> QED BY <2>2, <2>4, NoHandFacts, Zenon
<1>4. FreshOK'
  BY <1>2, <1>3, Zenon DEF FreshOK
<1> QED BY <1>1, <1>4, Zenon DEF RoundOK, Clean

\* mainLoop takes an answer.
LEMMA AttachTake ==
    ASSUME Types, FreshOK, RoundOK, NEW p \in Peer, processPovBulkPullRsp(p)
    PROVE  FreshOK' /\ RoundOK'
<1>1. /\ rsps[p] \in Seq(Answer) /\ rsps[p] # <<>> /\ Head(rsps[p]) \in Answer
      /\ rsps \in [Peer -> Seq(Answer)] /\ peers \in [Peer -> PeerRec]
  BY TakenFacts, Zenon DEF Types, NetTypes, PeerTypes
<1>2. /\ rsps' = [rsps EXCEPT ![p] = Tail(rsps[p])] /\ hand = NoHand
      /\ UNCHANGED <<chainVars, initSyncState, roundVars, remote, faults, ghostVars>>
  BY Zenon DEF processPovBulkPullRsp
<1>3. Range(Tail(rsps[p])) \subseteq Range(rsps[p]) /\ Head(rsps[p]) \in Range(rsps[p])
  BY <1>1, RangeTail, Zenon
<1>4. \A q \in Peer : Range(rsps'[q]) \subseteq Range(rsps[q])
  BY <1>1, <1>2, <1>3, Zenon
<1>5. \A q \in Peer : peers'[q].waitLocatorRsp = peers[q].waitLocatorRsp
  <2>1. peers' = peers \/ peers' = [peers EXCEPT ![p].waitSyncRspMsg = FALSE]
    BY Zenon DEF processPovBulkPullRsp
  <2>2. PICK z : z = [peers[p] EXCEPT !.waitSyncRspMsg = FALSE]
    BY Zenon
  <2>3. z.waitLocatorRsp = peers[p].waitLocatorRsp
    BY <1>1, <2>2, Zenon DEF PeerRec
  <2>4. peers' = peers \/ peers' = [peers EXCEPT ![p] = z]
    BY <1>1, <2>1, <2>2, Zenon
  <2> QED BY <1>1, <2>3, <2>4, Zenon
<1>6. CASE hand' = hand
  BY <1>2, <1>4, <1>5, <1>6, AttachFrame, Zenon
<1>7. CASE hand' # hand
  <2>1. PICK m \in Answer : m = Head(rsps[p]) /\ hand' = Taken(p, m) /\ inSyncing /\ syncPeer = p
    BY <1>1, <1>7, Zenon DEF processPovBulkPullRsp
  <2>2. hand'.from = p /\ hand'.blocks = m.blocks /\ hand'.old = m.old /\ hand'.detached = FALSE
    BY <2>1, HandNew, Zenon
  <2>3. m \in Range(rsps[p])
    BY <1>3, <2>1, Zenon
  <2>4. FreshOK'
    <3>1. hand'.old \/ (inSyncing' /\ ~opening' /\ hand'.from = syncPeer')
      BY <1>2, <2>1, <2>2, <2>3, Zenon DEF FreshOK
    <3>2. \A q \in Peer : \A x \in Range(rsps'[q]) : x.old \/ (inSyncing' /\ ~opening' /\ q = syncPeer')
      BY <1>2, <1>4, Zenon DEF FreshOK
    <3> QED BY <3>1, <3>2, Zenon DEF FreshOK
  <2>5. ASSUME Clean' PROVE RspsOn' /\ HandOn' /\ QueueOn' /\ BaseOn'
    <3>1. Clean
      BY <1>2, <2>5, Zenon DEF Clean
    <3>2. RspsOn /\ HandOn /\ QueueOn /\ BaseOn
      BY <3>1, Zenon DEF RoundOK
    <3>3. PeerPath' = PeerPath
      BY <1>2, Zenon DEF PeerPath
    <3>4. HandOn'
      <4>1. m.old \/ /\ Range(m.blocks) \subseteq PeerPath
                     /\ peers[p].waitLocatorRsp => Head(m.blocks) \in stored
        BY <2>1, <2>3, <3>2, Zenon DEF RspsOn
      <4>2. Locating' => peers[p].waitLocatorRsp
        BY <1>5, <2>2, Zenon DEF Locating
      <4> QED BY <1>2, <2>2, <3>3, <4>1, <4>2, Zenon DEF HandOn
    <3> QED BY <1>2, <1>4, <1>5, <2>1, <3>2, <3>3, <3>4, RspsOnKept, QueueOnKept, BaseOnKept, Zenon
  <2> QED BY <2>4, <2>5, Zenon DEF RoundOK
<1> QED BY <1>6, <1>7, Zenon

\* mainLoop queues a block.
LEMMA AttachAdd ==
    ASSUME Types, FreshOK, RoundOK, addSyncBlock
    PROVE  FreshOK' /\ RoundOK'
<1>1. PICK b : b = Head(hand.blocks)
  BY Zenon
<1>2. /\ hand # NoHand /\ b \in Block /\ Height[b] \in Nat
      /\ hand' = NoHand \/ /\ hand'.blocks = Tail(hand.blocks)
                           /\ hand'.locating = (hand.locating /\ ~inSyncing)
                           /\ hand'.from = hand.from /\ hand'.old = hand.old
                           /\ hand'.detached = hand.detached
  BY <1>1, AddFacts, Zenon
<1>3. hand \in Hand /\ hand.from \in Peer /\ hand.blocks # <<>> /\ peers \in [Peer -> PeerRec]
  BY <1>2, Zenon DEF Types, HandTypes, PeerTypes
<1>4. UNCHANGED <<chainVars, inSyncing, syncPeer, opening, netVars, reorged>>
  BY Zenon DEF addSyncBlock
<1>5. /\ \A q \in Peer : peers'[q].waitLocatorRsp => peers[q].waitLocatorRsp
      /\ inSyncing /\ ~hand.detached => ~peers'[hand.from].waitLocatorRsp
  <2>1. peers' = IF inSyncing /\ ~hand.detached
                 THEN [peers EXCEPT ![hand.from].waitLocatorRsp = FALSE] ELSE peers
    BY Zenon DEF addSyncBlock
  <2>2. CASE inSyncing /\ ~hand.detached
    <3>1. PICK p \in Peer : p = hand.from
      BY <1>3, Zenon
    <3>2. peers' = [peers EXCEPT ![p].waitLocatorRsp = FALSE]
      BY <2>1, <2>2, <3>1, Zenon
    <3>3. ~peers'[p].waitLocatorRsp /\ \A q \in Peer : q = p \/ peers'[q] = peers[q]
      BY <1>3, <3>2, Zenon DEF PeerRec
    <3> QED BY <3>1, <3>3, Zenon
  <2>3. CASE ~(inSyncing /\ ~hand.detached)
    BY <2>1, <2>3, Zenon
  <2> QED BY <2>2, <2>3, Zenon
<1>6. FreshOK'
  BY <1>2, <1>4, Zenon DEF FreshOK
<1>7. ASSUME Clean' PROVE RspsOn' /\ HandOn' /\ QueueOn' /\ BaseOn'
  <2>1. \/ UNCHANGED <<syncBlocks, syncCurHeight, mixed>>
        \/ /\ syncBlocks' = Queued(b) /\ mixed' = (mixed \/ hand.old)
           /\ syncCurHeight' = IF Locating THEN Height[b] ELSE syncCurHeight
    BY <1>1, Zenon DEF addSyncBlock, Locating
  <2>2. Clean /\ inSyncing /\ syncPeer \in Peer
    <3>1. inSyncing' /\ ~mixed' /\ ~reorged'
      BY <1>7, Zenon DEF Clean
    <3>2. ~mixed
      BY <2>1, <3>1, Zenon
    <3>3. inSyncing /\ ~reorged
      BY <1>4, <3>1, Zenon
    <3> QED BY <3>2, <3>3, Zenon DEF Clean, Types, RoundTypes
  <2>3. RspsOn /\ HandOn /\ QueueOn /\ BaseOn
    BY <2>2, Zenon DEF RoundOK
  <2>4. PeerPath' = PeerPath
    BY <1>4, Zenon DEF PeerPath
  <2>5. RspsOn'
    BY <1>4, <1>5, <2>2, <2>3, <2>4, RspsOnKept, Zenon
  <2>6. hand.blocks \in Seq(Block)
    BY <1>3, Zenon DEF Hand
  <2>7. Range(Tail(hand.blocks)) \subseteq Range(hand.blocks) /\ b \in Range(hand.blocks)
    BY <1>1, <1>3, <2>6, RangeTail, Zenon
  <2>8. HandOn'
    <3>1. CASE hand' = NoHand \/ hand.old
      BY <1>2, <3>1, Zenon DEF HandOn
    <3>2. CASE hand' # NoHand /\ ~hand.old
      <4>1. Range(hand'.blocks) \subseteq PeerPath
        BY <1>2, <2>3, <2>7, <3>2, Zenon DEF HandOn
      <4>2. ~Locating'
        BY <1>2, <1>5, <2>2, <3>2, Zenon DEF Locating
      <4> QED BY <2>4, <4>1, <4>2, Zenon DEF HandOn
    <3> QED BY <3>1, <3>2, Zenon
  <2>9. CASE UNCHANGED <<syncBlocks, syncCurHeight, mixed>>
    BY <1>4, <2>3, <2>4, <2>5, <2>8, <2>9, QueueOnKept, BaseOnKept, Zenon
  <2>10. CASE /\ syncBlocks' = Queued(b) /\ mixed' = (mixed \/ hand.old)
              /\ syncCurHeight' = IF Locating THEN Height[b] ELSE syncCurHeight
    <3>1. ~hand.old
      BY <1>7, <2>10, Zenon DEF Clean
    <3>2. b \in PeerPath /\ (Locating => b \in stored)
      BY <1>1, <1>2, <2>3, <2>7, <3>1, Zenon DEF HandOn
    <3>3. QueueOn'
      <4>1. QueueTypes
        BY Zenon DEF Types
      <4>2. \A h \in DOMAIN Queued(b) : Queued(b)[h] \in PeerPath
        <5>1. b \in Block
          BY <1>2, Zenon
        <5>2. \A h \in DOMAIN syncBlocks : syncBlocks[h] \in PeerPath
          BY <2>3, Zenon DEF QueueOn
        <5>3. \A h \in DOMAIN Queued(b) :
                 Queued(b)[h] = b \/ (h \in DOMAIN syncBlocks /\ Queued(b)[h] = syncBlocks[h])
          BY <4>1, <5>1, QueuedFacts, Zenon
        <5> QED BY <3>2, <5>2, <5>3, Zenon
      <4> QED BY <2>4, <2>10, <4>2, Zenon DEF QueueOn
    <3>4. BaseOn'
      <4>1. CASE Locating
        BY <1>4, <2>4, <2>10, <3>2, <4>1, Zenon DEF BaseOn
      <4>2. CASE ~Locating
        BY <1>4, <2>3, <2>4, <2>10, <4>2, BaseOnKept, Zenon
      <4> QED BY <4>1, <4>2, Zenon
    <3> QED BY <2>5, <2>8, <3>3, <3>4, Zenon
  <2> QED BY <2>1, <2>9, <2>10, Zenon
<1> QED BY <1>6, <1>7, Zenon DEF RoundOK

\* syncLoop releases the queued blocks up to the first that is missing.
LEMMA ReleaseFacts ==
    ASSUME Types, onCheckSyncBlockTimer
    PROVE  \E next \in Nat :
              /\ syncCurHeight <= next /\ syncCurHeight' = next
              /\ \A h \in syncCurHeight..(next - 1) :
                    /\ h \in Nat /\ h \in DOMAIN syncBlocks /\ syncBlocks[h] \in Block
                    /\ Height[syncBlocks[h]] = h
                    /\ syncBlocks[h] \in stored \cup inbox'
              /\ \A h \in DOMAIN syncBlocks' : h \in DOMAIN syncBlocks /\ syncBlocks'[h] = syncBlocks[h]
              /\ stored \cup inbox \subseteq stored \cup inbox'
              /\ \A b \in inbox' : b \notin stored /\ (b \in inbox \/ \E h \in syncCurHeight..(next - 1) : b = syncBlocks[h])
<1>1. PICK next \in syncCurHeight..(syncRcvHeight + 1) :
         /\ FirstHeld(next) /\ syncCurHeight' = next
         /\ syncBlocks' = Restrict(syncBlocks, DOMAIN syncBlocks \ (syncCurHeight..(next - 1)))
         /\ inbox' = (inbox \cup {syncBlocks[h] : h \in syncCurHeight..(next - 1)}) \ stored
  BY Zenon DEF onCheckSyncBlockTimer
<1>2. next \in Nat /\ syncCurHeight <= next /\ syncCurHeight \in Nat
  BY <1>1 DEF Types, RoundTypes
<1>3. ASSUME NEW h \in syncCurHeight..(next - 1)
      PROVE  /\ h \in Nat /\ h \in DOMAIN syncBlocks /\ syncBlocks[h] \in Block
             /\ Height[syncBlocks[h]] = h
             /\ syncBlocks[h] \in stored \cup inbox'
  <2>1. h \in Nat
    BY <1>2, <1>3
  <2>2. h \in DOMAIN syncBlocks
    BY <1>1, <1>3, Zenon DEF FirstHeld, Ready
  <2>3. syncBlocks[h] \in Block /\ Height[syncBlocks[h]] = h
    BY <2>2, Zenon DEF Types, QueueTypes
  <2>4. syncBlocks[h] \in stored \cup inbox'
    BY <1>1, <1>3, Zenon
  <2> QED BY <2>1, <2>2, <2>3, <2>4, Zenon
<1>4. \A h \in DOMAIN syncBlocks' : h \in DOMAIN syncBlocks /\ syncBlocks'[h] = syncBlocks[h]
  BY <1>1, Zenon DEF Restrict
<1>5. stored \cup inbox \subseteq stored \cup inbox'
  BY <1>1, Zenon
<1>6. ASSUME NEW b \in inbox'
      PROVE  b \notin stored /\ (b \in inbox \/ \E h \in syncCurHeight..(next - 1) : b = syncBlocks[h])
  BY <1>1, <1>6, Zenon
<1> QED BY <1>1, <1>2, <1>3, <1>4, <1>5, <1>6, Zenon

LEMMA AttachRelease ==
    ASSUME Types, FreshOK, RoundOK, onCheckSyncBlockTimer
    PROVE  FreshOK' /\ RoundOK'
<1>1. PICK next \in Nat :
              /\ syncCurHeight <= next /\ syncCurHeight' = next
              /\ \A h \in syncCurHeight..(next - 1) :
                    /\ h \in Nat /\ h \in DOMAIN syncBlocks /\ syncBlocks[h] \in Block
                    /\ Height[syncBlocks[h]] = h
                    /\ syncBlocks[h] \in stored \cup inbox'
              /\ \A h \in DOMAIN syncBlocks' : h \in DOMAIN syncBlocks /\ syncBlocks'[h] = syncBlocks[h]
              /\ stored \cup inbox \subseteq stored \cup inbox'
  BY ReleaseFacts, Zenon
<1>2. UNCHANGED <<stored, confirmed, peers, inSyncing, syncPeer, opening, hand, netVars, mixed, reorged>>
  BY Zenon DEF onCheckSyncBlockTimer
<1>3. FreshOK'
  BY <1>2, FreshKept, Zenon
<1>4. ASSUME Clean' PROVE RspsOn' /\ HandOn' /\ QueueOn' /\ BaseOn'
  <2>1. Clean
    BY <1>2, <1>4, Zenon DEF Clean
  <2>2. RspsOn /\ HandOn /\ QueueOn /\ BaseOn
    BY <2>1, Zenon DEF RoundOK
  <2>3. PeerPath' = PeerPath /\ (Locating' => Locating)
    BY <1>2, Zenon DEF PeerPath, Locating
  <2>4. RspsOn' /\ HandOn'
    BY <1>2, <2>2, <2>3, RspsOnKept, HandOnKept, Zenon
  <2>5. QueueOn'
    BY <1>1, <2>2, <2>3, Zenon DEF QueueOn
  <2>6. BaseOn'
    <3>1. CASE syncCurHeight' = syncCurHeight
      BY <1>1, <1>2, <2>2, <2>3, <3>1, BaseOnKept, Zenon
    <3>2. CASE syncCurHeight' # syncCurHeight
      <4>1. PICK h : h = next - 1
        BY Zenon
      <4>2. h \in syncCurHeight..(next - 1) /\ h + 1 = next
        <5>1. syncCurHeight \in Nat
          BY Zenon DEF Types, RoundTypes
        <5> QED BY <1>1, <3>2, <4>1, <5>1
      <4>3. syncBlocks[h] \in PeerPath /\ Height[syncBlocks[h]] + 1 = next
            /\ syncBlocks[h] \in stored \cup inbox'
        BY <1>1, <2>2, <4>2, Zenon DEF QueueOn
      <4> QED BY <1>1, <1>2, <2>3, <4>3, Zenon DEF BaseOn
    <3> QED BY <3>1, <3>2, Zenon
  <2> QED BY <2>4, <2>5, <2>6, Zenon
<1> QED BY <1>3, <1>4, Zenon DEF RoundOK

\* The parent of a block that is released is stored or was released.
LEMMA ReleaseAttaches ==
    ASSUME Types, RoundOK, onCheckSyncBlockTimer, ~mixed, ~reorged, NEW b \in inbox' \ inbox
    PROVE  Parent[b] \in stored \cup inbox'
<1>1. PICK next \in Nat :
              /\ syncCurHeight <= next /\ syncCurHeight' = next
              /\ \A h \in syncCurHeight..(next - 1) :
                    /\ h \in Nat /\ h \in DOMAIN syncBlocks /\ syncBlocks[h] \in Block
                    /\ Height[syncBlocks[h]] = h
                    /\ syncBlocks[h] \in stored \cup inbox'
              /\ stored \cup inbox \subseteq stored \cup inbox'
              /\ \A x \in inbox' : x \notin stored /\ (x \in inbox \/ \E h \in syncCurHeight..(next - 1) : x = syncBlocks[h])
  BY ReleaseFacts, Zenon
<1>2. inSyncing /\ syncPeer \in Peer /\ syncCurHeight \in Nat /\ remote[syncPeer] \in Block
  BY Zenon DEF onCheckSyncBlockTimer, Types, RoundTypes, NetTypes
<1>3. QueueOn /\ BaseOn
  BY <1>2, Zenon DEF RoundOK, Clean
<1>4. PICK h \in syncCurHeight..(next - 1) : b = syncBlocks[h]
  BY <1>1, Zenon
<1>5. b \in PeerPath /\ b \in Block /\ Height[b] = h /\ b \notin stored /\ h \in Nat
  BY <1>1, <1>3, <1>4, Zenon DEF QueueOn
<1>6. b # Genesis
  BY <1>5, Zenon DEF Types, ChainTypes, StoredOK
<1>7. /\ Parent[b] \in PeerPath /\ Parent[b] \in Block /\ Height[b] = Height[Parent[b]] + 1
      /\ Height[Parent[b]] \in Nat
  BY <1>2, <1>5, <1>6, PathFacts, TreeAssumption, Zenon DEF PeerPath
<1>8. ASSUME NEW c \in PeerPath, Height[c] + 1 = h PROVE Parent[b] = c
  <2>1. c \in Block
    BY <1>2, PathFacts, Zenon DEF PeerPath
  <2>2. Height[c] \in Nat
    BY <2>1, TreeAssumption, Zenon
  <2>3. Height[c] = Height[Parent[b]]
    BY <1>5, <1>7, <1>8, <2>2
  <2> QED BY <1>2, <1>7, <2>3, PathUnique, Zenon DEF PeerPath
<1>9. CASE h = syncCurHeight
  <2>1. CASE syncCurHeight = 0
    <3>1. PICK k \in Nat : k = Height[Parent[b]]
      BY <1>7, Zenon
    <3>2. k + 1 = 0
      BY <1>5, <1>7, <1>9, <2>1, <3>1, Zenon
    <3> QED BY <3>1, <3>2
  <2>2. ASSUME NEW c \in PeerPath, c \in stored, Height[c] = syncCurHeight PROVE FALSE
    <3>1. c = b
      BY <1>2, <1>5, <1>9, <2>2, PathUnique, Zenon DEF PeerPath
    <3> QED BY <1>5, <2>2, <3>1, Zenon
  <2>3. ASSUME NEW c \in PeerPath, c \in stored \cup inbox, Height[c] + 1 = syncCurHeight
        PROVE  Parent[b] \in stored \cup inbox'
    BY <1>1, <1>8, <1>9, <2>3, Zenon
  <2> QED BY <1>3, <2>1, <2>2, <2>3, Zenon DEF BaseOn
<1>10. CASE h # syncCurHeight
  <2>1. PICK g : g = h - 1
    BY Zenon
  <2>2. g \in syncCurHeight..(next - 1) /\ g + 1 = h
    BY <1>2, <1>4, <1>10, <2>1
  <2>3. /\ syncBlocks[g] \in PeerPath /\ Height[syncBlocks[g]] + 1 = h
        /\ syncBlocks[g] \in stored \cup inbox'
    BY <1>1, <1>3, <2>2, Zenon DEF QueueOn
  <2> QED BY <1>8, <2>3, Zenon
<1> QED BY <1>9, <1>10, Zenon

LEMMA AttachStep == ASSUME Types, FreshOK, RoundOK, [Next]_vars PROVE FreshOK' /\ RoundOK'
<1>1. CASE UNCHANGED vars
  BY <1>1, AttachFrame, Zenon
<1>2. CASE Rounds
  <2>1. CASE onSyncPeerTimer \/ onCheckChainTimer
    BY <2>1, AttachClose, Zenon DEF onSyncPeerTimer, onCheckChainTimer
  <2>2. CASE NoRoundNeeded
    <3>1. PICK p \in Peer : TRUE
      BY <2>2, Zenon DEF NoRoundNeeded, BestPeers, GoodPeers
    <3> QED BY <2>2, TreeAssumption, AttachBeside, Zenon
  <2> QED BY <1>2, <2>1, <2>2, AttachStart, AttachAsk, AttachRelease, Zenon DEF Rounds
<1>3. CASE MainLoop
  BY <1>3, AttachTake, AttachAdd, Zenon DEF MainLoop
<1>4. CASE FrontiersArrive \/ \E b \in Block : InsertBlock(b) \/ requestBlocksByHashes(b)
  <2>1. /\ UNCHANGED <<inSyncing, opening, syncPeer, hand, syncBlocks, syncCurHeight, mixed, reorged,
                       remote, rsps, peers>>
        /\ stored \subseteq stored' /\ stored \cup inbox \subseteq stored' \cup inbox'
    BY <1>4, Zenon DEF InsertBlock, requestBlocksByHashes, FrontiersArrive
  <2> QED BY <2>1, AttachFrame, Zenon
<1>5. ASSUME NEW p \in Peer,
             \/ onAddP2PStream(p) \/ onPovStatus(p) \/ checkAllPeers(p) \/ Tick(p) \/ Lose(p)
             \/ NewRemoteHead(p) \/ onDeleteP2PStream(p)
      PROVE  FreshOK' /\ RoundOK'
  BY <1>5, TreeAssumption, AttachBeside, AttachHead, AttachDelete, Zenon
<1> QED BY <1>1, <1>2, <1>3, <1>4, <1>5, AttachAsk, Zenon DEF Next, Surroundings

\* A round hands the processor no orphans (onCheckSyncBlockTimer), unless it got
\* an answer of an earlier round or its peer changed its branch: for every tree,
\* order of arrival, size of the answers and number of lost messages.
THEOREM RoundsReleaseNoOrphans == Spec => ReleasedAttach
<1> DEFINE Inv == Types /\ FreshOK /\ RoundOK
<1>1. Init => Inv
  <2> SUFFICES ASSUME Init PROVE Inv
    BY Zenon
  <2>1. \A p \in Peer : Range(rsps[p]) = {}
    BY DEF Init, Range
  <2> QED BY <2>1, TypesInit, Zenon DEF Init, FreshOK, RoundOK, Clean
<1>2. Inv /\ [Next]_vars => Inv'
  BY TypesStep, AttachStep, Zenon
<1>3. Inv /\ [Next]_vars =>
         [onCheckSyncBlockTimer =>
             \/ mixed \/ reorged
             \/ \A b \in inbox' \ inbox : Parent[b] \in stored \cup inbox']_vars
  BY ReleaseAttaches, Zenon
<1> QED BY <1>1, <1>2, <1>3, PTL DEF Spec, ReleasedAttach

==============================================================================
