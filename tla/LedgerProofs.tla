---------------------------- MODULE LedgerProofs ----------------------------
(***************************************************************************)
(* Proofs that the structure of the ledger survives every sequence of      *)
(* Process, Rollback and Restart, for any set of blocks.                   *)
(***************************************************************************)
EXTENDS Ledger, TLAPS, WellFoundedInduction

USE DEF NoAmount, HashOrNone, Chains

\* Every non-empty set of naturals has a least element.
LEMMA LeastNat ==
    ASSUME NEW T, T \subseteq Nat, T # {}
    PROVE  \E x \in T : \A y \in T : x <= y
<1>1. PICK x \in T : \A y \in T : ~(<<y, x>> \in OpToRel(<, Nat))
  BY NatLessThanWellFounded, WFMin, Zenon
<1>2. \A y \in T : <<y, x>> \in OpToRel(<, Nat) <=> y < x
  BY Zenon DEF OpToRel
<1>3. \A y \in T : ~(y < x)
  BY <1>1, <1>2, Zenon
<1>4. x \in Nat /\ \A y \in T : y \in Nat
  BY Zenon
<1>5. \A y \in T : x <= y
  BY <1>3, <1>4, SMT
<1> QED BY <1>5, Zenon

\* What the constants say of a single block.
LEMMA BlockFacts ==
    ASSUME NEW b \in Block
    PROVE  /\ blk[b] \in StateBlock
           /\ Chain(b) \in Chains
           /\ blk[b].height \in Nat /\ blk[b].bal \in Nat
           /\ blk[b].amt \in Nat \cup {NoAmount}
           /\ blk[b].prev \in HashOrNone /\ blk[b].link \in HashOrNone
           /\ b # NoHash
           /\ blk[b].type \in BlockType
  BY ContentAssumption, NoHashAssumption, Zenon DEF StateBlock, Chain

\* A block is above the block it extends, on the same chain.
LEMMA PrevFacts ==
    ASSUME NEW b \in Block, ~IsOpen(b)
    PROVE  /\ blk[b].prev \in Block /\ blk[b].prev # b
           /\ Chain(blk[b].prev) = Chain(b)
           /\ blk[b].height = blk[blk[b].prev].height + 1
  BY BlockFacts, ChainAssumption DEF IsOpen

\* The lowest blocks are at height one.
LEMMA HeightsArePositive ==
    ASSUME NEW b \in Block
    PROVE  blk[b].height \in Nat /\ blk[b].height >= 1
<1>1. blk[b].height \in Nat
  BY BlockFacts, Zenon
<1>2. CASE IsOpen(b)
  BY <1>1, <1>2, OpenAssumption
<1>3. CASE ~IsOpen(b)
  <2> DEFINE p == blk[b].prev
  <2>1. p \in Block /\ blk[b].height = blk[p].height + 1
    BY <1>3, PrevFacts, Zenon
  <2> HIDE DEF p
  <2>2. blk[p].height \in Nat
    BY <2>1, BlockFacts, Zenon
  <2> QED BY <1>1, <2>1, <2>2
<1> QED BY <1>2, <1>3, Zenon

\* The chain of a confirmed block has a confirmed head.
LEMMA HeaderFacts ==
    ASSUME IndInv, NEW b \in blocks
    PROVE  /\ b \in Block /\ Chain(b) \in Chains
           /\ header[Chain(b)] \in blocks /\ header[Chain(b)] \in Block
           /\ Chain(header[Chain(b)]) = Chain(b)
<1>1. b \in Block /\ Chain(b) \in Chains
  BY BlockFacts, Zenon DEF IndInv, IndexType
<1> QED BY <1>1, Zenon DEF IndInv, ChainShape, IndexType

\* The initial ledger, Genesis, satisfies the invariant.
LEMMA InitIndInv == Init => IndInv
<1> SUFFICES ASSUME Init PROVE IndInv
  BY Zenon
<1> USE GenesisAssumption
<1>1. \A g \in Genesis : g \in Block /\ header[Chain(g)] = g
  <2> TAKE g \in Genesis
  <2>1. g \in Block /\ Chain(g) \in Chains
    BY BlockFacts, Zenon
  <2> QED BY <2>1, Zenon DEF Init
<1>2. \A c \in Chains : header[c] # NoHash => header[c] \in Genesis /\ Chain(header[c]) = c
  BY Zenon DEF Init
<1>3. IndexType
  BY <1>2, Zenon DEF Init, IndexType
<1>4. ChainShape
  <2>1. \A b \in blocks : /\ HasTokenMeta(Chain(b)) /\ IsOpen(b)
                          /\ header[Chain(b)] = b /\ blk[b].height \in Nat
    BY <1>1, BlockFacts, Zenon DEF Init, HasTokenMeta
  <2>2. \A c \in Chains : HasTokenMeta(c) =>
          /\ header[c] \in blocks /\ Chain(header[c]) = c
          /\ openBlock[c] = header[c] /\ IsOpen(openBlock[c])
    BY <1>2, Zenon DEF Init, HasTokenMeta
  <2>3. Genesis = blocks
    BY Zenon DEF Init
  <2> QED BY <2>1, <2>2, <2>3 DEF ChainShape
<1>5. Credits
  BY Zenon DEF Init, Credits
<1>6. FrontiersAreHeads
  BY <1>1, <1>2, Zenon DEF Init, FrontiersAreHeads
<1>7. ReceivesMatchSends /\ PendingIsUnreceived
  BY <1>1, OpenAssumption, Zenon DEF Init, ReceivesMatchSends, PendingIsUnreceived, HasPending,
     IsSendBlock
<1> QED BY <1>3, <1>4, <1>5, <1>6, <1>7, Zenon DEF IndInv

-----------------------------------------------------------------------------
(***************************************************************************)
(* Process.                                                                *)
(***************************************************************************)

\* What BlockCheck establishes of a block it lets through.
LEMMA CheckFacts ==
    ASSUME IndInv, NEW b \in Block, BlockCheck(b) = "Progress"
    PROVE  /\ b \notin blocks
           /\ IsOpen(b) => ~HasTokenMeta(Chain(b))
           /\ ~IsOpen(b) => blk[b].prev \in blocks /\ header[Chain(b)] = blk[b].prev
           /\ blk[b].type = "Send" => blk[blk[b].prev].bal > blk[b].bal
           /\ IsReceiveBlock(b) => /\ blk[b].link \in blocks
                                   /\ blk[b].link \in Block /\ IsSendBlock(blk[b].link)
                                   /\ link[blk[b].link] = NoHash
           /\ blk[b].type \in {"Open", "Receive"} =>
                 SendAmount(blk[b].link) # NoAmount
           /\ blk[b].type = "Receive" => blk[b].bal >= blk[blk[b].prev].bal
           /\ IsReceiveBlock(b) =>
                 (HasPending(blk[b].link) => blk[blk[b].link].to = blk[b].addr)
<1> DEFINE s == blk[b].link
<1>1. baseInfo(b) = "Progress" /\ fork(b) = "Progress"
  BY BlockFacts, Zenon DEF BlockCheck, Then, BlockType
<1>2. /\ b \notin blocks
      /\ IsOpen(b) => ~HasTokenMeta(Chain(b))
      /\ ~IsOpen(b) => /\ blk[b].prev \in blocks
                       /\ HasTokenMeta(Chain(b)) => header[Chain(b)] = blk[b].prev
      /\ blk[b].type = "ContractReward" => s \in blocks
  BY <1>1, Zenon DEF baseInfo, fork, Then, Require
<1>3. ~IsOpen(b) => header[Chain(b)] = blk[b].prev
  BY <1>2, PrevFacts, Zenon DEF IndInv, ChainShape
<1>4. blk[b].type = "Send" => blk[blk[b].prev].bal > blk[b].bal
  <2> SUFFICES ASSUME blk[b].type = "Send" PROVE blk[blk[b].prev].bal > blk[b].bal
    BY Zenon
  <2>1. balance(b) = "Progress"
    BY Zenon DEF BlockCheck, Then
  <2> QED BY <2>1, Zenon DEF balance, Then, Require
<1>5. b \notin Genesis
  BY <1>2, Zenon DEF IndInv, ChainShape
<1>6. IsReceiveBlock(b) => s \in Block /\ IsSendBlock(s)
  BY <1>5, LinkAssumption, Zenon
<1>7. ASSUME blk[b].type \in {"Open", "Receive"}
      PROVE  /\ s \in blocks /\ HasPending(s) /\ blk[s].to = blk[b].addr
             /\ blk[b].type = "Receive" =>
                   pending[s] = blk[b].bal - blk[header[Chain(b)]].bal
  <2>1. source(b) = "Progress" /\ pendingCheck(b) = "Progress"
    BY <1>7, Zenon DEF BlockCheck, Then
  <2>2. s \in blocks
    BY <2>1, Zenon DEF source, Require
  <2>3. Receivable(b)
    BY <1>7, <2>1, Zenon DEF pendingCheck, Then, Require
  <2>4. blk[b].type = "Receive" => pending[s] = blk[b].bal - blk[header[Chain(b)]].bal
    <3> SUFFICES ASSUME blk[b].type = "Receive"
                 PROVE  pending[s] = blk[b].bal - blk[header[Chain(b)]].bal
      BY Zenon
    <3>1. ~IsOpen(b)
      BY OpenAssumption, Zenon
    <3> QED BY <2>1, <2>3, <3>1, Zenon DEF pendingCheck, Then, Require
  <2> QED BY <2>2, <2>3, <2>4, Zenon DEF Receivable
<1>8. ASSUME blk[b].type = "ContractReward"
      PROVE  /\ link[s] = NoHash
             /\ blk[s].to = blk[b].addr
  <2>1. contract(b) = "Progress"
    BY <1>8, Zenon DEF BlockCheck, Then
  <2> QED BY <1>8, <2>1, Zenon DEF contract, Then, Require
<1>9. ASSUME blk[b].type \in {"Open", "Receive"}
      PROVE  SendAmount(s) # NoAmount /\ link[s] = NoHash
  <2>1. s \in Block /\ HasPending(s)
    BY <1>6, <1>7, <1>9, Zenon DEF IsReceiveBlock
  <2> QED BY <2>1, Zenon DEF IndInv, PendingIsUnreceived
<1>10. ASSUME blk[b].type = "Receive"
       PROVE  blk[b].bal >= blk[blk[b].prev].bal
  <2>1. ~IsOpen(b)
    BY <1>10, OpenAssumption, Zenon
  <2>2. s \in Block /\ HasPending(s) /\ pending[s] = blk[b].bal - blk[blk[b].prev].bal
    BY <1>3, <1>6, <1>7, <1>10, <2>1, Zenon DEF IsReceiveBlock
  <2>3. pending[s] \in Nat
    BY <2>2, Zenon DEF IndInv, IndexType, HasPending
  <2>4. blk[b].bal \in Nat /\ blk[blk[b].prev].bal \in Nat
    BY <2>1, PrevFacts, BlockFacts, Zenon
  <2> QED BY <2>2, <2>3, <2>4
<1> QED BY <1>2, <1>3, <1>4, <1>6, <1>7, <1>8, <1>9, <1>10, Zenon DEF IsReceiveBlock

\* Only a confirmed block has a receive in the link index.
LEMMA LinkedIsConfirmed ==
    ASSUME IndInv, NEW s \in Block, link[s] # NoHash
    PROVE  s \in blocks /\ link[s] \in blocks \ Genesis /\ IsReceiveBlock(link[s])
           /\ blk[link[s]].link = s
<1>1. link[s] \in blocks /\ blk[link[s]].link = s /\ link[s] \in Block
  BY Zenon DEF IndInv, ReceivesMatchSends, IndexType
<1>2. s # NoHash
  BY BlockFacts, Zenon
<1>3. link[s] \notin Genesis /\ IsReceiveBlock(link[s])
  BY <1>1, <1>2, GenesisAssumption, LinkAssumption, Zenon
<1> QED BY <1>1, <1>3, Zenon DEF IndInv, ReceivesMatchSends

\* Processing a block that passed its checks preserves the invariant.
LEMMA ProcessIndInv ==
    ASSUME IndInv, NEW b \in Block, Process(b)
    PROVE  IndInv'
<1> DEFINE c == Chain(b)
           s == blk[b].link
<1>0. BlockCheck(b) = "Progress" /\ BlockProcess(b)
  BY Zenon DEF Process
<1>a. /\ b \notin blocks /\ b # NoHash /\ b \notin Genesis
      /\ c \in Chains
      /\ IsOpen(b) => header[c] = NoHash
      /\ ~IsOpen(b) => /\ blk[b].prev \in blocks /\ header[c] = blk[b].prev
                       /\ blk[b].prev \in Block /\ blk[b].prev # NoHash
                       /\ Chain(blk[b].prev) = c
                       /\ blk[b].height = blk[blk[b].prev].height + 1
  BY <1>0, CheckFacts, BlockFacts, PrevFacts, Zenon DEF HasTokenMeta, IndInv, ChainShape
<1>b. /\ blocks' = blocks \cup {b}
      /\ header' = [header EXCEPT ![c] = b]
      /\ openBlock' = [openBlock EXCEPT ![c] = OpenBlockOf(b)]
      /\ frontier' = updateFrontier(b)
      /\ child' = setBlockChild(b)
      /\ link' = setBlockLink(b)
      /\ pending' = updatePending(b)
  BY <1>0, Zenon DEF BlockProcess
<1>c. /\ OpenBlockOf(b) \in blocks \cup {b} /\ OpenBlockOf(b) \in Block
      /\ IsOpen(OpenBlockOf(b)) /\ Chain(OpenBlockOf(b)) = c
  BY <1>a, Zenon DEF OpenBlockOf, HasTokenMeta, IndInv, IndexType, ChainShape
<1>d. \A d \in blocks : Chain(d) = c => ~IsOpen(b) /\ blk[d].height <= blk[blk[b].prev].height
  BY <1>a DEF IndInv, ChainShape, HasTokenMeta
<1>e. IndexType
  BY Zenon DEF IndInv
<1>1. IndexType'
  <2>1. blocks' \subseteq Block /\ child' \in [Block -> HashOrNone]
    BY <1>a, <1>b, <1>e, Zenon DEF IndexType, setBlockChild
  <2>2. link' \in [Block -> HashOrNone]
    BY <1>b, <1>e, Zenon DEF IndexType, setBlockLink
  <2>3. header' \in [Chains -> HashOrNone] /\ openBlock' \in [Chains -> HashOrNone]
    BY <1>a, <1>b, <1>c, <1>e, Zenon DEF IndexType
  <2>4. frontier' \in [Block -> HashOrNone]
    BY <1>b, <1>c, <1>e, Zenon DEF IndexType, updateFrontier
  <2>5. IsSendBlock(b) => SendAmount(b) \in Nat \cup {NoAmount}
    <3>1. ASSUME blk[b].type = "Send" PROVE SendAmount(b) \in Nat
      <4>1. blk[b].prev \in Block /\ blk[blk[b].prev].bal > blk[b].bal
        BY <3>1, <1>0, <1>a, CheckFacts, OpenAssumption, Zenon
      <4>2. blk[b].bal \in Nat /\ blk[blk[b].prev].bal \in Nat
        BY <4>1, BlockFacts, Zenon
      <4> QED BY <3>1, <4>1, <4>2 DEF SendAmount
    <3> QED BY <3>1, BlockFacts, Zenon DEF SendAmount
  <2>6. pending' \in [Block -> Nat \cup {NoAmount}]
    <3>1. CASE IsSendBlock(b)
      BY <3>1, <2>5, <1>b, <1>e, Zenon DEF IndexType, updatePending
    <3>2. CASE ~IsSendBlock(b) /\ IsReceiveBlock(b)
      BY <3>2, <1>b, <1>e, Zenon DEF IndexType, updatePending
    <3>3. CASE ~IsSendBlock(b) /\ ~IsReceiveBlock(b)
      BY <3>3, <1>b, <1>e, Zenon DEF IndexType, updatePending
    <3> QED BY <3>1, <3>2, <3>3, Zenon
  <2> QED BY <2>1, <2>2, <2>3, <2>4, <2>6, Zenon DEF IndexType
<1>2. ChainShape'
  <2>1. (Genesis \subseteq blocks)'
    BY <1>b, Zenon DEF IndInv, ChainShape
  <2>h. header'[c] = b /\ \A e \in Chains : e # c => header'[e] = header[e]
    BY <1>a, <1>b, <1>e, Zenon DEF IndexType
  <2>o. openBlock'[c] = OpenBlockOf(b) /\ \A e \in Chains : e # c => openBlock'[e] = openBlock[e]
    BY <1>a, <1>b, <1>e, Zenon DEF IndexType
  <2>2. ASSUME NEW d \in blocks'
        PROVE  /\ header'[Chain(d)] # NoHash
               /\ ~IsOpen(d) => blk[d].prev \in blocks'
               /\ blk[d].height <= blk[header'[Chain(d)]].height
               /\ header'[Chain(d)] # d => \E e \in blocks' : blk[e].prev = d
    <3>t. d \in Block /\ Chain(d) \in Chains /\ blk[d].height \in Nat /\ blk[b].height \in Nat
      BY <1>b, <1>e, BlockFacts, Zenon DEF IndexType
    <3>1. CASE d = b
      BY <3>1, <3>t, <1>a, <1>b, <2>h
    <3>2. CASE d # b /\ Chain(d) = c
      <4>1. d \in blocks /\ ~IsOpen(b) /\ blk[d].height <= blk[blk[b].prev].height
        BY <3>2, <1>b, <1>d, Zenon
      <4>2. blk[blk[b].prev].height \in Nat
        BY <4>1, <1>a, BlockFacts, Zenon
      <4>3. blk[d].height <= blk[b].height
        BY <4>1, <4>2, <3>t, <1>a
      <4>4. \E e \in blocks' : blk[e].prev = d
        BY <4>1, <3>2, <1>a, <1>b, Zenon DEF IndInv, ChainShape
      <4> QED BY <4>1, <4>3, <4>4, <3>2, <1>a, <1>b, <2>h, Zenon DEF IndInv, ChainShape
    <3>3. CASE Chain(d) # c
      BY <3>3, <3>t, <1>b, <2>h, Zenon DEF IndInv, ChainShape, HasTokenMeta
    <3> QED BY <3>1, <3>2, <3>3, Zenon
  <2>3. ASSUME NEW d \in blocks', NEW e \in blocks', Chain(d) = Chain(e),
               blk[d].height = blk[e].height
        PROVE  d = e
    <3>1. \A x \in blocks : Chain(x) = c => blk[x].height # blk[b].height
      <4> SUFFICES ASSUME NEW x \in blocks, Chain(x) = c PROVE blk[x].height # blk[b].height
        BY Zenon
      <4>1. ~IsOpen(b) /\ blk[x].height <= blk[blk[b].prev].height
        BY <1>d, Zenon
      <4>2. x \in Block /\ blk[b].prev \in Block
        BY <4>1, <1>a, <1>e, Zenon DEF IndexType
      <4>3. blk[x].height \in Nat /\ blk[blk[b].prev].height \in Nat
        BY <4>2, BlockFacts, Zenon
      <4> QED BY <4>1, <4>3, <1>a
    <3> QED BY <2>3, <3>1, <1>b, Zenon DEF IndInv, ChainShape
  <2>4. ASSUME NEW e \in Chains, header'[e] # NoHash
        PROVE  /\ header'[e] \in blocks' /\ Chain(header'[e]) = e
               /\ openBlock'[e] \in blocks' /\ Chain(openBlock'[e]) = e
               /\ IsOpen(openBlock'[e])
    BY <2>4, <2>h, <2>o, <1>b, <1>c DEF IndInv, ChainShape, HasTokenMeta
  <2> QED BY <2>1, <2>2, <2>3, <2>4, Zenon DEF ChainShape, HasTokenMeta, Chain, IsOpen
<1>3. Credits'
  BY <1>0, <1>b, CheckFacts, Zenon DEF IndInv, Credits, SendAmount
<1>4. FrontiersAreHeads'
  <2> SUFFICES ASSUME NEW f \in Block
               PROVE  IF f \in blocks' /\ header'[Chain(f)] = f
                      THEN /\ frontier'[f] = openBlock'[Chain(f)]
                           /\ frontier'[f] \in blocks' /\ IsOpen(frontier'[f])
                           /\ Chain(frontier'[f]) = Chain(f)
                      ELSE frontier'[f] = NoHash
    BY Zenon DEF FrontiersAreHeads, Chain, IsOpen
  <2>t. Chain(f) \in Chains
    BY BlockFacts, Zenon
  <2>1. CASE f = b
    BY <2>1, <1>a, <1>b, <1>c, <1>e, Zenon DEF IndexType, updateFrontier
  <2>2. CASE f # b /\ Chain(f) = c
    <3>1. header'[c] = b
      BY <1>a, <1>b, <1>e, Zenon DEF IndexType
    <3>2. frontier'[f] = NoHash
      BY <2>2, <1>b, Zenon DEF updateFrontier, IndInv, FrontiersAreHeads
    <3> QED BY <2>2, <3>1, <3>2, Zenon
  <2>3. CASE Chain(f) # c
    <3>1. header'[Chain(f)] = header[Chain(f)] /\ openBlock'[Chain(f)] = openBlock[Chain(f)]
      BY <2>3, <2>t, <1>a, <1>b, <1>e, Zenon DEF IndexType
    <3>2. f # header[c]
      BY <2>3, <1>a, BlockFacts, Zenon DEF IndInv, ChainShape, HasTokenMeta
    <3>3. frontier'[f] = frontier[f]
      BY <2>3, <3>2, <1>b, Zenon DEF updateFrontier
    <3> QED BY <2>3, <3>1, <3>3, <1>b, Zenon DEF IndInv, FrontiersAreHeads
  <2> QED BY <2>1, <2>2, <2>3, Zenon
<1>5. IsReceiveBlock(b) => /\ s \in blocks /\ s \in Block /\ s # b /\ link[s] = NoHash
                           /\ link' = [link EXCEPT ![s] = b]
                           /\ pending' = [pending EXCEPT ![s] = NoAmount]
  <2> SUFFICES ASSUME IsReceiveBlock(b)
               PROVE  /\ s \in blocks /\ s \in Block /\ s # b /\ link[s] = NoHash
                      /\ link' = [link EXCEPT ![s] = b]
                      /\ pending' = [pending EXCEPT ![s] = NoAmount]
    BY Zenon
  <2>1. /\ s \in blocks /\ s \in Block /\ s # b /\ link[s] = NoHash
        /\ pending[s] # NoAmount => blk[s].to = blk[b].addr
    BY <1>0, <1>a, CheckFacts, Zenon DEF HasPending
  <2>2. ~IsSendBlock(b)
    BY Zenon DEF IsSendBlock, IsReceiveBlock
  <2>3. pending' = [pending EXCEPT ![s] = IF blk[s].to = blk[b].addr THEN NoAmount ELSE @]
    BY <1>b, <2>2, Zenon DEF updatePending
  <2> QED BY <2>1, <2>3, <1>b, <1>e, Zenon DEF setBlockLink, IndexType
<1>6. ~IsReceiveBlock(b) => link' = link
  BY <1>b, Zenon DEF setBlockLink
<1>7. ReceivesMatchSends'
  <2>1. ASSUME NEW r \in blocks' \ Genesis, IsReceiveBlock(r)
        PROVE  blk[r].link \in blocks' /\ link'[blk[r].link] = r
    <3>1. CASE r = b
      BY <3>1, <2>1, <1>5, <1>b, <1>e, Zenon DEF IndexType
    <3>2. CASE r # b
      <4>1. r \in blocks \ Genesis /\ r # NoHash /\ blk[r].link \in blocks
            /\ link[blk[r].link] = r /\ blk[r].link \in Block
        BY <3>2, <2>1, <1>b, <1>e, BlockFacts, Zenon DEF IndInv, ReceivesMatchSends, IndexType
      <4>2. CASE IsReceiveBlock(b)
        BY <4>1, <4>2, <1>5, <1>b, <1>e, Zenon DEF IndexType
      <4>3. CASE ~IsReceiveBlock(b)
        BY <4>1, <4>3, <1>6, <1>b, Zenon
      <4> QED BY <4>2, <4>3, Zenon
    <3> QED BY <3>1, <3>2, Zenon
  <2>2. ASSUME NEW x \in Block, link'[x] # NoHash
        PROVE  link'[x] \in blocks' /\ blk[link'[x]].link = x
    <3>1. CASE IsReceiveBlock(b) /\ x = s
      BY <3>1, <1>5, <1>b, <1>e, Zenon DEF IndexType
    <3>2. CASE ~(IsReceiveBlock(b) /\ x = s)
      <4>1. link'[x] = link[x]
        BY <3>2, <1>5, <1>6, <1>e, Zenon DEF IndexType
      <4> QED BY <4>1, <2>2, <1>b, Zenon DEF IndInv, ReceivesMatchSends
    <3> QED BY <3>1, <3>2, Zenon
  <2> QED BY <2>1, <2>2, Zenon DEF ReceivesMatchSends, IsReceiveBlock
<1>8. PendingIsUnreceived'
  <2> SUFFICES ASSUME NEW x \in Block
               PROVE  pending'[x] # NoAmount <=>
                         /\ x \in blocks' /\ IsSendBlock(x)
                         /\ SendAmount(x) # NoAmount /\ link'[x] = NoHash
    BY Zenon DEF PendingIsUnreceived, HasPending, IsSendBlock, SendAmount
  <2>0. pending[x] # NoAmount <=> /\ x \in blocks /\ IsSendBlock(x)
                                  /\ SendAmount(x) # NoAmount /\ link[x] = NoHash
    BY Zenon DEF IndInv, PendingIsUnreceived, HasPending
  <2>1. CASE IsSendBlock(b)
    <3>1. ~IsReceiveBlock(b)
      BY <2>1, Zenon DEF IsSendBlock, IsReceiveBlock
    <3>2. pending' = [pending EXCEPT ![b] = SendAmount(b)] /\ link' = link
      BY <2>1, <3>1, <1>b, <1>6, Zenon DEF updatePending
    <3>3. link[b] = NoHash
      BY <1>a, LinkedIsConfirmed, Zenon
    <3> QED BY <2>0, <2>1, <3>2, <3>3, <1>b, <1>e, Zenon DEF IndexType
  <2>2. CASE IsReceiveBlock(b)
    <3>1. ~IsSendBlock(b)
      BY <2>2, Zenon DEF IsSendBlock, IsReceiveBlock
    <3> QED BY <2>0, <2>2, <3>1, <1>5, <1>a, <1>b, <1>e DEF IndexType
  <2>3. CASE ~IsSendBlock(b) /\ ~IsReceiveBlock(b)
    BY <2>0, <2>3, <1>6, <1>b, Zenon DEF updatePending
  <2> QED BY <2>1, <2>2, <2>3, Zenon
<1> QED BY <1>1, <1>2, <1>3, <1>4, <1>7, <1>8, Zenon DEF IndInv

-----------------------------------------------------------------------------
(***************************************************************************)
(* Rollback.                                                               *)
(***************************************************************************)

\* What is packed by PoV is never in a closed set that leaves it out: nothing
\* above it leads below it.
LEMMA GenesisIsBelow ==
    ASSUME IndInv
    PROVE  ClosedForRollback(blocks \ Genesis)
<1> SUFFICES ASSUME NEW b \in blocks \ Genesis
             PROVE  /\ \A d \in blocks : NotOlder(d, b) => d \notin Genesis
                    /\ link[b] # NoHash => link[b] \in blocks \ Genesis
  BY Zenon DEF ClosedForRollback
<1>1. b \in Block
  BY Zenon DEF IndInv, IndexType
<1>2. ASSUME NEW d \in blocks, NotOlder(d, b), d \in Genesis
      PROVE  FALSE
  <2>1. d \in Block /\ IsOpen(d) /\ blk[d].height = 1
    BY <1>2, GenesisAssumption, OpenAssumption, Zenon
  <2>2. Chain(d) = Chain(b) /\ blk[b].height <= 1
    BY <1>2, <2>1, Zenon DEF NotOlder
  <2>3. blk[b].height # 1
    BY <1>2, <2>1, <2>2, Zenon DEF IndInv, ChainShape
  <2>4. ~IsOpen(b)
    BY <2>3, <1>1, OpenAssumption, Zenon
  <2>5. /\ blk[b].height = blk[blk[b].prev].height + 1
        /\ blk[b].prev \in Block /\ blk[b].prev \in blocks /\ Chain(blk[b].prev) = Chain(b)
    BY <2>4, <1>1, PrevFacts, Zenon DEF IndInv, ChainShape
  <2>6. blk[b].height \in Nat /\ blk[blk[b].prev].height \in Nat
    BY <1>1, <2>5, BlockFacts, Zenon
  <2> QED BY <2>2, <2>3, <2>5, <2>6
<1>3. link[b] # NoHash => link[b] \in blocks \ Genesis
  BY <1>1, LinkedIsConfirmed, Zenon
<1> QED BY <1>2, <1>3, Zenon

\* The walk of Rollback stops above the blocks packed by PoV, and what it
\* removes is closed under both of its steps.
LEMMA RollbackSetClosed ==
    ASSUME IndInv, NEW h \in blocks \ Genesis
    PROVE  /\ h \in RollbackSet(h)
           /\ RollbackSet(h) \subseteq blocks \ Genesis
           /\ ClosedForRollback(RollbackSet(h))
<1> DEFINE closed == {T \in SUBSET (blocks \ Genesis) : h \in T /\ ClosedForRollback(T)}
           S == RollbackSet(h)
<1>1. S = {b \in blocks : \A T \in closed : b \in T}
  BY Zenon DEF RollbackSet
<1>2. blocks \ Genesis \in closed
  BY GenesisIsBelow, Zenon
<1>3. h \in S /\ S \subseteq blocks \ Genesis
  BY <1>1, <1>2, Zenon
<1>4. ClosedForRollback(S)
  <2> SUFFICES ASSUME NEW b \in S
               PROVE  /\ \A d \in blocks : NotOlder(d, b) => d \in S
                      /\ IsSendBlock(b) /\ link[b] # NoHash => link[b] \in S
    BY Zenon DEF ClosedForRollback
  <2>1. \A T \in closed :
            /\ \A d \in blocks : NotOlder(d, b) => d \in T
            /\ IsSendBlock(b) /\ link[b] # NoHash => link[b] \in T
    BY <1>1, Zenon DEF ClosedForRollback
  <2>2. link[b] # NoHash => link[b] \in blocks
    BY <1>3, LinkedIsConfirmed, Zenon DEF IndInv, IndexType
  <2> HIDE DEF closed, S
  <2>3. \A d \in blocks : (\A T \in closed : d \in T) => d \in S
    BY <1>1, Zenon
  <2>4. \A d \in blocks : NotOlder(d, b) => d \in S
    BY <2>1, <2>3, Zenon
  <2>5. IsSendBlock(b) /\ link[b] # NoHash => link[b] \in S
    BY <2>1, <2>2, <2>3, Zenon
  <2> QED BY <2>4, <2>5, Zenon
<1> QED BY <1>3, <1>4, Zenon

\* On every chain it touches, Rollback removes exactly the blocks from the
\* oldest one up.
LEMMA OldestFacts ==
    ASSUME IndInv, NEW S, S \subseteq blocks \ Genesis, ClosedForRollback(S),
           NEW c \in ChainsOf(S)
    PROVE  /\ Oldest(S, c) \in S /\ Oldest(S, c) \in Block
           /\ Chain(Oldest(S, c)) = c
           /\ \A d \in blocks : Chain(d) = c =>
                 (d \in S <=> blk[d].height >= blk[Oldest(S, c)].height)
<1> DEFINE On == {b \in S : Chain(b) = c}
           H == {blk[b].height : b \in On}
<1>1. On # {} /\ On \subseteq Block
  BY Zenon DEF ChainsOf, IndInv, IndexType
<1>2. H # {} /\ H \subseteq Nat
  BY <1>1, BlockFacts
<1>3. PICK x \in H : \A y \in H : x <= y
  <2> HIDE DEF H
  <2> QED BY <1>2, LeastNat, Zenon
<1>4. PICK o \in On : blk[o].height = x
  BY <1>3, Zenon
<1>5. \A d \in S : Chain(d) = c => NotOlder(d, o)
  BY <1>2, <1>3, <1>4, Zenon DEF NotOlder
<1>6. /\ Oldest(S, c) \in S /\ Chain(Oldest(S, c)) = c
      /\ \A d \in S : Chain(d) = c => NotOlder(d, Oldest(S, c))
  BY <1>4, <1>5, Zenon DEF Oldest
<1>7. Oldest(S, c) \in Block
  BY <1>6, Zenon DEF IndInv, IndexType
<1> QED BY <1>6, <1>7, Zenon DEF ClosedForRollback, NotOlder

\* With one token per account no update of a token meta is lost.
LEMMA NothingLost ==
    ASSUME OneTokenPerAccount, NEW S, S \subseteq Block,
           NEW lost \in SUBSET ChainsOf(S), LostUpdates(S, lost)
    PROVE  lost = {}
<1> SUFFICES ASSUME NEW c \in lost PROVE FALSE
  BY Zenon
<1>1. PICK d \in Removed(S) \ lost : d[1] = c[1]
  BY Zenon DEF LostUpdates
<1>2. c \in ChainsOf(S) /\ d \in ChainsOf(S)
  BY Zenon DEF Removed
<1>3. PICK b \in S, e \in S : c = Chain(b) /\ d = Chain(e)
  BY <1>2, Zenon DEF ChainsOf
<1>4. blk[b].addr = blk[e].addr
  BY <1>1, <1>3, Zenon DEF Chain
<1>5. c = d
  BY <1>3, <1>4, Zenon DEF OneTokenPerAccount, Chain
<1> QED BY <1>5, Zenon

\* A rollback preserves the invariant.
LEMMA RollbackIndInv ==
    ASSUME OneTokenPerAccount, IndInv, NEW h \in Block, Rollback(h)
    PROVE  IndInv'
<1> DEFINE S == RollbackSet(h)
           old(c) == Oldest(S, c)
<1>a. /\ h \in S /\ S \subseteq blocks \ Genesis /\ ClosedForRollback(S)
      /\ S \subseteq Block /\ rollbackBlocks(S)
  BY RollbackSetClosed, Zenon DEF Rollback, IndInv, IndexType
<1>b. /\ \A c \in ChainsOf(S) : /\ old(c) \in S /\ old(c) \in Block /\ Chain(old(c)) = c
                                /\ c \in Chains
      /\ \A d \in blocks : Chain(d) \in ChainsOf(S) =>
            (d \in S <=> blk[d].height >= blk[old(Chain(d))].height)
      /\ \A d \in S : Chain(d) \in ChainsOf(S)
  <2>1. \A d \in S : Chain(d) \in ChainsOf(S)
    BY Zenon DEF ChainsOf
  <2>2. \A c \in ChainsOf(S) : c \in Chains
    BY <1>a, BlockFacts DEF ChainsOf
  <2> HIDE DEF S
  <2> QED BY <1>a, <2>1, <2>2, OldestFacts, Zenon
<1>c. PICK lost \in SUBSET ChainsOf(S) : /\ LostUpdates(S, lost)
                                         /\ header' = rollBackHeader(S, lost)
                                         /\ openBlock' = rollBackOpenBlock(S, lost)
  BY <1>a, Zenon DEF rollbackBlocks
<1>d. lost = {}
  BY <1>a, <1>c, NothingLost, Zenon
<1> HIDE DEF S
<1>e. /\ header' = [c \in Chains |-> IF c \in ChainsOf(S) THEN blk[old(c)].prev ELSE header[c]]
      /\ openBlock' = [c \in Chains |-> IF c \in Removed(S) THEN NoHash ELSE openBlock[c]]
  BY <1>c, <1>d, Zenon DEF rollBackHeader, rollBackOpenBlock
<1>r. Removed(S) = {c \in ChainsOf(S) : IsOpen(old(c))}
  BY Zenon DEF Removed
<1> HIDE DEF old
<1>f. /\ blocks' = blocks \ S
      /\ child' = [p \in Block |-> IF \E b \in S : Parent(b) = p THEN NoHash ELSE child[p]]
      /\ link' = [s \in Block |-> IF \E b \in S : blk[b].link = s THEN NoHash ELSE link[s]]
      /\ frontier' = rollBackFrontier(S)
      /\ pending' = rollBackPending(S)
  BY <1>a, Zenon DEF rollbackBlocks, DeleteStateBlocks
<1>g. IndexType /\ blocks' \subseteq blocks
  BY <1>f, Zenon DEF IndInv
\* The chains that are only shortened: the new head is below the oldest block
\* removed and above every block that stays.
<1>h. ASSUME NEW c \in ChainsOf(S), ~IsOpen(old(c))
      PROVE  /\ blk[old(c)].prev \in blocks' /\ blk[old(c)].prev \in Block
             /\ blk[old(c)].prev # NoHash
             /\ Chain(blk[old(c)].prev) = c
             /\ header'[c] = blk[old(c)].prev
             /\ \A d \in blocks' : Chain(d) = c =>
                   blk[d].height <= blk[blk[old(c)].prev].height
  <2>1. old(c) \in Block /\ old(c) \in blocks /\ Chain(old(c)) = c /\ c \in Chains
    BY <1>a, <1>b, Zenon
  <2> DEFINE p == blk[old(c)].prev
  <2>2. p \in Block /\ Chain(p) = c /\ p \in blocks /\ blk[old(c)].height = blk[p].height + 1
        /\ p # NoHash
    BY <1>h, <2>1, PrevFacts, BlockFacts, Zenon DEF IndInv, ChainShape
  <2>3. blk[p].height \in Nat /\ \A d \in blocks : blk[d].height \in Nat
    BY <2>2, <1>g, BlockFacts, Zenon DEF IndexType
  <2>6. header'[c] = p
    BY <1>e, <2>1, Zenon
  <2> HIDE DEF p
  <2>s. \A d \in blocks : Chain(d) = c => (d \in S <=> blk[d].height >= blk[p].height + 1)
    BY <1>b, <2>2, Zenon
  <2>4. p \notin S
    BY <2>s, <2>2, <2>3
  <2>5. \A d \in blocks' : Chain(d) = c => blk[d].height <= blk[p].height
    BY <2>s, <1>f, <2>3
  <2> QED BY <1>f, <2>2, <2>4, <2>5, <2>6, Zenon DEF p
\* The chains that are removed have no block left.
<1>i. ASSUME NEW c \in ChainsOf(S), IsOpen(old(c))
      PROVE  header'[c] = NoHash /\ \A d \in blocks' : Chain(d) # c
  <2>1. old(c) \in Block /\ blk[old(c)].height = 1
    BY <1>b, <1>i, OpenAssumption, Zenon
  <2>2. \A d \in blocks : d \in Block /\ blk[d].height \in Nat
    BY <1>g, BlockFacts, Zenon DEF IndexType
  <2>3. \A d \in blocks : blk[d].height >= 1
    BY <2>2, HeightsArePositive, Zenon
  <2>4. header'[c] = NoHash
    BY <1>b, <1>e, <1>i, Zenon DEF IsOpen
  <2> QED BY <1>b, <1>f, <2>1, <2>3, <2>4, Zenon
<1>1. IndexType'
  <2>1. \A c \in ChainsOf(S) : blk[old(c)].prev \in HashOrNone
    BY <1>b, BlockFacts, Zenon
  <2>2. blocks' \subseteq Block /\ child' \in [Block -> HashOrNone]
        /\ link' \in [Block -> HashOrNone]
    BY <1>f, <1>g, Zenon DEF IndexType
  <2>3. header' \in [Chains -> HashOrNone] /\ openBlock' \in [Chains -> HashOrNone]
    BY <1>e, <1>g, <2>1, Zenon DEF IndexType
  <2>4. frontier' \in [Block -> HashOrNone]
    <3> SUFFICES ASSUME NEW f \in Block PROVE rollBackFrontier(S)[f] \in HashOrNone
      BY <1>f, Zenon DEF rollBackFrontier
    <3>1. CASE f \in S
      BY <3>1, Zenon DEF rollBackFrontier
    <3>2. CASE f \notin S /\ \E c \in ChainsOf(S) : blk[Oldest(S, c)].prev = f
      <4>1. PICK c \in ChainsOf(S) : blk[old(c)].prev = f
        BY <3>2, Zenon DEF old
      <4>2. ~IsOpen(old(c))
        BY <4>1, BlockFacts, Zenon DEF IsOpen
      <4>3. f \in blocks
        BY <4>1, <4>2, <1>h, <1>g, Zenon
      <4>4. header[Chain(f)] \in Block
        BY <4>3, HeaderFacts, Zenon
      <4> QED BY <3>2, <4>4, <1>g, Zenon DEF rollBackFrontier, IndexType
    <3>3. CASE f \notin S /\ ~\E c \in ChainsOf(S) : blk[Oldest(S, c)].prev = f
      BY <3>3, <1>g, Zenon DEF rollBackFrontier, IndexType
    <3> QED BY <3>1, <3>2, <3>3, Zenon
  <2>5. ASSUME NEW r \in S, IsReceiveBlock(r)
        PROVE  RestoredAmount(r) \in Nat \cup {NoAmount}
    <3>1. r \in Block /\ r \in blocks /\ r \notin Genesis
      BY <1>a, Zenon
    <3>2. CASE blk[r].type = "Open"
      <4>1. header[Chain(r)] \in Block
        BY <3>1, HeaderFacts, Zenon
      <4> QED BY <3>2, <4>1, BlockFacts, Zenon DEF RestoredAmount
    <3>3. CASE blk[r].type = "Receive"
      <4>1. blk[r].prev \in Block
        BY <3>1, <3>3, PrevFacts, OpenAssumption, Zenon
      <4>2. blk[r].bal \in Nat /\ blk[blk[r].prev].bal \in Nat
        BY <3>1, <4>1, BlockFacts, Zenon
      <4>3. blk[r].bal >= blk[blk[r].prev].bal
        BY <3>1, <3>3, Zenon DEF IndInv, Credits
      <4> QED BY <3>3, <4>2, <4>3 DEF RestoredAmount
    <3>4. CASE blk[r].type = "ContractReward"
      <4>1. blk[r].link \in Block
        BY <2>5, <3>1, LinkAssumption, Zenon
      <4> QED BY <3>4, <4>1, BlockFacts, Zenon DEF RestoredAmount
    <3> QED BY <2>5, <3>2, <3>3, <3>4, Zenon DEF IsReceiveBlock
  <2>6. pending' \in [Block -> Nat \cup {NoAmount}]
    <3> SUFFICES ASSUME NEW s \in Block PROVE rollBackPending(S)[s] \in Nat \cup {NoAmount}
      BY <1>f, Zenon DEF rollBackPending
    <3>1. CASE s \in S
      BY <3>1, Zenon DEF rollBackPending
    <3>2. CASE s \notin S /\ \E r \in S : IsReceiveBlock(r) /\ blk[r].link = s
      BY <3>2, <2>5, Zenon DEF rollBackPending
    <3>3. CASE s \notin S /\ ~\E r \in S : IsReceiveBlock(r) /\ blk[r].link = s
      BY <3>3, <1>g, Zenon DEF rollBackPending, IndexType
    <3> QED BY <3>1, <3>2, <3>3, Zenon
  <2> QED BY <2>2, <2>3, <2>4, <2>6, Zenon DEF IndexType
<1>j. \A c \in Chains : c \notin ChainsOf(S) =>
          header'[c] = header[c] /\ openBlock'[c] = openBlock[c]
  BY <1>e, <1>r, Zenon
<1>k. \A c \in Chains : ~(c \in ChainsOf(S) /\ IsOpen(old(c))) => openBlock'[c] = openBlock[c]
  BY <1>e, <1>r, Zenon
<1>2. ChainShape'
  <2>1. (Genesis \subseteq blocks)'
    BY <1>a, <1>f, Zenon DEF IndInv, ChainShape
  <2>2. ASSUME NEW b \in blocks'
        PROVE  /\ header'[Chain(b)] # NoHash
               /\ ~IsOpen(b) => blk[b].prev \in blocks'
               /\ blk[b].height <= blk[header'[Chain(b)]].height
               /\ header'[Chain(b)] # b => \E d \in blocks' : blk[d].prev = b
    <3>t. b \in blocks /\ b \in Block /\ b \notin S /\ Chain(b) \in Chains /\ blk[b].height \in Nat
      BY <1>f, <1>g, BlockFacts, Zenon DEF IndexType
    <3>0. ~IsOpen(b) => blk[b].prev \in blocks'
      <4> SUFFICES ASSUME ~IsOpen(b), blk[b].prev \in S PROVE FALSE
        BY <3>t, <1>f, Zenon DEF IndInv, ChainShape
      <4> DEFINE p == blk[b].prev
      <4>1. p \in S /\ p \in Block /\ Chain(p) = Chain(b) /\ blk[b].height = blk[p].height + 1
        BY <3>t, PrevFacts, Zenon
      <4> HIDE DEF p
      <4>2. blk[p].height \in Nat
        BY <4>1, BlockFacts, Zenon
      <4>3. blk[b].height >= blk[p].height
        BY <4>1, <4>2
      <4> QED BY <4>1, <4>3, <3>t, <1>a, Zenon DEF ClosedForRollback, NotOlder
    <3>1. CASE Chain(b) \notin ChainsOf(S)
      <4>1. header'[Chain(b)] = header[Chain(b)]
        BY <3>1, <3>t, <1>j, Zenon
      <4>2. ASSUME NEW d \in blocks, blk[d].prev = b PROVE d \in blocks'
        <5>1. d \in Block /\ Chain(d) = Chain(b)
          BY <4>2, <3>t, <1>g, PrevFacts, BlockFacts, Zenon DEF IsOpen, IndexType
        <5> QED BY <5>1, <3>1, <1>b, <1>f, Zenon
      <4> QED BY <4>1, <4>2, <3>0, <3>t, Zenon DEF IndInv, ChainShape, HasTokenMeta
    <3>2. CASE Chain(b) \in ChainsOf(S)
      <4> DEFINE c == Chain(b)
                 p == blk[old(c)].prev
      <4>1. ~IsOpen(old(c))
        BY <3>2, <1>i, Zenon
      <4>2. /\ p \in blocks' /\ p \in Block /\ p # NoHash /\ Chain(p) = c /\ header'[c] = p
            /\ blk[b].height <= blk[p].height
        BY <3>2, <4>1, <1>h, Zenon
      <4>3. ASSUME p # b PROVE \E d \in blocks' : blk[d].prev = b
        <5>o. /\ old(c) \in Block /\ old(c) \in blocks /\ old(c) \in S
              /\ Chain(old(c)) = c
          BY <3>2, <1>a, <1>b, Zenon
        <5>1. blk[old(c)].height = blk[p].height + 1 /\ blk[p].height \in Nat
          BY <5>o, <4>1, <4>2, PrevFacts, BlockFacts, Zenon
        <5> HIDE DEF p
        <5>2. blk[b].height < blk[p].height
          <6>1. p \in blocks
            BY <4>2, <1>g, Zenon
          <6>2. blk[b].height # blk[p].height
            <7>1. \A e, g \in blocks : Chain(e) = Chain(g) /\ blk[e].height = blk[g].height => e = g
              BY Zenon DEF IndInv, ChainShape
            <7> QED BY <6>1, <7>1, <4>2, <4>3, <3>t, Zenon
          <6> QED BY <6>2, <4>2, <5>1, <3>t
        <5>3. header[c] # b
          <6>1. blk[old(c)].height <= blk[header[c]].height
            BY <5>o, Zenon DEF IndInv, ChainShape
          <6> QED BY <6>1, <5>1, <5>2, <3>t
        <5>4. PICK d \in blocks : blk[d].prev = b
          BY <5>3, <3>t, Zenon DEF IndInv, ChainShape
        <5>5. /\ d \in Block /\ Chain(d) = c /\ blk[d].height = blk[b].height + 1
          BY <5>4, <3>t, <1>g, PrevFacts, BlockFacts, Zenon DEF IsOpen, IndexType
        <5>6. ~(blk[d].height >= blk[old(c)].height)
          BY <5>1, <5>2, <5>5, <3>t
        <5>7. d \notin S
          BY <5>5, <5>6, <3>2, <1>b, Zenon
        <5> QED BY <5>4, <5>7, <1>f, Zenon
      <4> QED BY <4>2, <4>3, <3>0, Zenon
    <3> QED BY <3>1, <3>2, Zenon
  <2>3. \A b, d \in blocks' : Chain(b) = Chain(d) /\ blk[b].height = blk[d].height => b = d
    BY <1>g, Zenon DEF IndInv, ChainShape
  <2>4. ASSUME NEW c \in Chains, header'[c] # NoHash
        PROVE  /\ header'[c] \in blocks' /\ Chain(header'[c]) = c
               /\ openBlock'[c] \in blocks' /\ Chain(openBlock'[c]) = c
               /\ IsOpen(openBlock'[c])
    <3>1. CASE c \notin ChainsOf(S)
      <4>1. header'[c] = header[c] /\ openBlock'[c] = openBlock[c]
        BY <3>1, <1>j, Zenon
      <4>2. /\ header[c] \in blocks /\ Chain(header[c]) = c
            /\ openBlock[c] \in blocks /\ Chain(openBlock[c]) = c /\ IsOpen(openBlock[c])
        BY <4>1, <2>4, Zenon DEF IndInv, ChainShape, HasTokenMeta
      <4>3. \A d \in blocks : Chain(d) = c => d \in blocks'
        BY <3>1, <1>b, <1>f, Zenon
      <4> QED BY <4>1, <4>2, <4>3, Zenon
    <3>2. CASE c \in ChainsOf(S)
      <4>1. ~IsOpen(old(c))
        BY <3>2, <2>4, <1>i, Zenon
      <4>2. header'[c] \in blocks' /\ Chain(header'[c]) = c /\ header'[c] \in Block
            /\ header'[c] \in blocks
        BY <3>2, <4>1, <1>h, <1>g, Zenon
      <4>3. openBlock'[c] = openBlock[c]
        BY <4>1, <1>k, Zenon
      <4>4. HasTokenMeta(c)
        BY <4>2 DEF IndInv, ChainShape
      <4>5. /\ openBlock[c] \in blocks /\ Chain(openBlock[c]) = c /\ IsOpen(openBlock[c])
            /\ openBlock[c] \in Block
        BY <4>4, <1>g, Zenon DEF IndInv, ChainShape, IndexType
      <4>6. blk[openBlock[c]].height = 1
        BY <4>5, OpenAssumption, Zenon
      <4>7. openBlock[c] \notin S
        <5>1. /\ old(c) \in Block /\ blk[old(c)].prev \in Block
              /\ blk[old(c)].height = blk[blk[old(c)].prev].height + 1
          BY <3>2, <4>1, <1>b, PrevFacts, Zenon
        <5> DEFINE p == blk[old(c)].prev
        <5>2. blk[p].height \in Nat /\ blk[p].height >= 1
          BY <5>1, HeightsArePositive, Zenon
        <5>3. blk[old(c)].height = blk[p].height + 1
          BY <5>1, Zenon
        <5> HIDE DEF p
        <5>4. ~(1 >= blk[old(c)].height)
          BY <5>2, <5>3
        <5> QED BY <5>4, <4>5, <4>6, <3>2, <1>b, Zenon
      <4> QED BY <4>2, <4>3, <4>5, <4>7, <1>f, Zenon
    <3> QED BY <3>1, <3>2, Zenon
  <2> QED BY <2>1, <2>2, <2>3, <2>4, Zenon DEF ChainShape, HasTokenMeta, Chain, IsOpen
<1>3. Credits'
  BY <1>g, Zenon DEF IndInv, Credits, SendAmount
<1>4. FrontiersAreHeads'
  <2> SUFFICES ASSUME NEW f \in Block
               PROVE  IF f \in blocks' /\ header'[Chain(f)] = f
                      THEN frontier'[f] = openBlock'[Chain(f)]
                      ELSE frontier'[f] = NoHash
    <3>1. \A f \in Block : f \in blocks' /\ header'[Chain(f)] = f =>
            /\ openBlock'[Chain(f)] \in blocks' /\ IsOpen(openBlock'[Chain(f)])
            /\ Chain(openBlock'[Chain(f)]) = Chain(f)
      BY <1>2, BlockFacts, Zenon DEF ChainShape, HasTokenMeta, Chain, IsOpen
    <3> QED BY <3>1 DEF FrontiersAreHeads, Chain, IsOpen
  <2> DEFINE c == Chain(f)
  <2>t. c \in Chains /\ f # NoHash
    BY BlockFacts, Zenon
  <2>1. CASE f \in S
    BY <2>1, <1>f, Zenon DEF rollBackFrontier
  <2>2. CASE f \notin S /\ \E e \in ChainsOf(S) : blk[Oldest(S, e)].prev = f
    <3>1. PICK e \in ChainsOf(S) : blk[old(e)].prev = f
      BY <2>2, Zenon DEF old
    <3>2. ~IsOpen(old(e))
      BY <3>1, <2>t, Zenon DEF IsOpen
    <3>3. f \in blocks' /\ e = c /\ header'[c] = f
      BY <3>1, <3>2, <1>h, Zenon
    <3>4. openBlock'[c] = openBlock[c]
      BY <3>2, <3>3, <2>t, <1>k, Zenon
    <3>5. /\ header[c] \in Block /\ header[c] \in blocks
          /\ Chain(header[c]) = c
      BY <3>3, <1>g, HeaderFacts, Zenon
    <3>6. frontier[header[c]] = openBlock[c]
      BY <3>5, Zenon DEF IndInv, FrontiersAreHeads
    <3>7. frontier'[f] = frontier[header[c]]
      BY <2>2, <1>f, Zenon DEF rollBackFrontier
    <3> QED BY <3>3, <3>4, <3>6, <3>7, Zenon
  <2>3. CASE f \notin S /\ ~\E e \in ChainsOf(S) : blk[Oldest(S, e)].prev = f
    <3>1. frontier'[f] = frontier[f]
      BY <2>3, <1>f, Zenon DEF rollBackFrontier
    <3>2. CASE c \notin ChainsOf(S)
      <4>1. header'[c] = header[c] /\ openBlock'[c] = openBlock[c]
        BY <3>2, <2>t, <1>j, Zenon
      <4> QED BY <3>1, <4>1, <2>3, <1>f, Zenon DEF IndInv, FrontiersAreHeads
    <3>3. CASE c \in ChainsOf(S)
      <4>1. header'[c] # f
        BY <3>3, <2>3, <2>t, <1>e, Zenon DEF old
      <4>2. ~(f \in blocks /\ header[c] = f)
        <5>1. old(c) \in blocks /\ Chain(old(c)) = c
          BY <3>3, <1>a, <1>b, Zenon
        <5>2. blk[old(c)].height <= blk[header[c]].height
          BY <5>1, Zenon DEF IndInv, ChainShape
        <5>3. blk[old(c)].height \in Nat /\ blk[f].height \in Nat
          BY <3>3, <1>b, BlockFacts, Zenon
        <5>4. f \in blocks /\ header[c] = f => blk[f].height >= blk[old(c)].height
          BY <5>2, <5>3, Zenon
        <5> QED BY <5>4, <3>3, <2>3, <1>b, Zenon
      <4> QED BY <3>1, <4>1, <4>2, Zenon DEF IndInv, FrontiersAreHeads
    <3> QED BY <3>2, <3>3, Zenon
  <2> QED BY <2>1, <2>2, <2>3, Zenon
\* A removed block with a source is a receive, and the one in the link index.
<1>l. ASSUME NEW r \in S, NEW s \in Block, blk[r].link = s
      PROVE  IsReceiveBlock(r) /\ s \in blocks /\ link[s] = r
  <2>1. r \in Block /\ r \in blocks /\ r \notin Genesis /\ s # NoHash
    BY <1>a, BlockFacts, Zenon
  <2>2. IsReceiveBlock(r)
    BY <2>1, <1>l, LinkAssumption, Zenon
  <2> QED BY <2>1, <2>2, <1>l, Zenon DEF IndInv, ReceivesMatchSends
<1>5. ReceivesMatchSends'
  <2>1. ASSUME NEW r \in blocks' \ Genesis, IsReceiveBlock(r)
        PROVE  blk[r].link \in blocks' /\ link'[blk[r].link] = r
    <3> DEFINE s == blk[r].link
    <3>1. /\ r \in blocks \ Genesis /\ r \notin S /\ r \in Block
          /\ s \in blocks /\ s \in Block /\ link[s] = r
      BY <2>1, <1>f, <1>g, Zenon DEF IndInv, ReceivesMatchSends, IndexType
    <3>2. IsSendBlock(s) /\ r # NoHash
      BY <3>1, <2>1, LinkAssumption, BlockFacts, Zenon
    <3>3. s \notin S
      BY <3>1, <3>2, <1>a, Zenon DEF ClosedForRollback
    <3>4. ~\E b \in S : blk[b].link = s
      BY <3>1, <1>l, Zenon
    <3> QED BY <3>1, <3>3, <3>4, <1>f, Zenon
  <2>2. ASSUME NEW s \in Block, link'[s] # NoHash
        PROVE  link'[s] \in blocks' /\ blk[link'[s]].link = s
    <3>1. link'[s] = link[s] /\ ~\E b \in S : blk[b].link = s
      BY <2>2, <1>f, Zenon
    <3>2. link[s] \in blocks /\ blk[link[s]].link = s
      BY <2>2, <3>1, Zenon DEF IndInv, ReceivesMatchSends
    <3> QED BY <3>1, <3>2, <1>f, Zenon
  <2> QED BY <2>1, <2>2, Zenon DEF ReceivesMatchSends, IsReceiveBlock
<1>6. PendingIsUnreceived'
  <2> SUFFICES ASSUME NEW s \in Block
               PROVE  pending'[s] # NoAmount <=>
                         /\ s \in blocks' /\ IsSendBlock(s)
                         /\ SendAmount(s) # NoAmount /\ link'[s] = NoHash
    BY Zenon DEF PendingIsUnreceived, HasPending, IsSendBlock, SendAmount
  <2>1. CASE s \in S
    BY <2>1, <1>f, Zenon DEF rollBackPending
  <2>2. CASE s \notin S /\ \E r \in S : IsReceiveBlock(r) /\ blk[r].link = s
    <3> DEFINE r == CHOOSE r \in S : IsReceiveBlock(r) /\ blk[r].link = s
    <3>1. r \in S /\ IsReceiveBlock(r) /\ blk[r].link = s
      BY <2>2, Zenon
    <3>2. pending'[s] = RestoredAmount(r)
      BY <2>2, <1>f, Zenon DEF rollBackPending
    <3> HIDE DEF r
    <3>3. s \in blocks' /\ link'[s] = NoHash /\ r \in Block /\ r \in blocks /\ r \notin Genesis
      BY <3>1, <2>2, <1>a, <1>f, <1>l, Zenon
    <3>4. IsSendBlock(s)
      BY <3>1, <3>3, LinkAssumption, Zenon
    <3>c. blk[r].type \in {"Open", "Receive"} => SendAmount(s) # NoAmount
      BY <3>1, <3>3, Zenon DEF IndInv, Credits
    <3>n. NoAmount \notin Nat
      BY DEF NoAmount
    <3>5. RestoredAmount(r) # NoAmount <=> SendAmount(s) # NoAmount
      <4>1. CASE blk[r].type = "Open"
        <5>1. header[Chain(r)] \in Block
          BY <3>3, HeaderFacts, Zenon
        <5>2. RestoredAmount(r) \in Nat
          BY <4>1, <5>1, BlockFacts, Zenon DEF RestoredAmount
        <5> QED BY <4>1, <5>2, <3>c, <3>n, Zenon
      <4>2. CASE blk[r].type = "Receive"
        <5>1. blk[r].prev \in Block
          BY <3>3, <4>2, PrevFacts, OpenAssumption, Zenon
        <5>2. blk[r].bal \in Nat /\ blk[blk[r].prev].bal \in Nat
              /\ blk[r].bal >= blk[blk[r].prev].bal
          BY <3>3, <4>2, <5>1, BlockFacts, Zenon DEF IndInv, Credits
        <5>3. RestoredAmount(r) \in Nat
          BY <4>2, <5>2 DEF RestoredAmount
        <5> QED BY <4>2, <5>3, <3>c, <3>n, Zenon
      <4>3. CASE blk[r].type = "ContractReward"
        <5>1. blk[s].type = "ContractSend"
          BY <4>3, <3>1, <3>3, LinkAssumption, Zenon DEF IsReceiveBlock
        <5> QED BY <4>3, <5>1, <3>1, Zenon DEF RestoredAmount, SendAmount
      <4> QED BY <3>1, <4>1, <4>2, <4>3, Zenon DEF IsReceiveBlock
    <3> QED BY <3>2, <3>3, <3>4, <3>5, Zenon
  <2>3. CASE s \notin S /\ ~\E r \in S : IsReceiveBlock(r) /\ blk[r].link = s
    <3>1. pending'[s] = pending[s]
      BY <2>3, <1>f, Zenon DEF rollBackPending
    <3>2. link'[s] = link[s]
      BY <2>3, <1>f, <1>l, Zenon
    <3> QED BY <2>3, <3>1, <3>2, <1>f, Zenon DEF IndInv, PendingIsUnreceived, HasPending
  <2> QED BY <2>1, <2>2, <2>3, Zenon
<1> QED BY <1>1, <1>2, <1>3, <1>4, <1>5, <1>6, Zenon DEF IndInv

-----------------------------------------------------------------------------
(***************************************************************************)
(* The theorems.                                                           *)
(***************************************************************************)

\* Every step of the ledger preserves the invariant.
LEMMA NextIndInv ==
    ASSUME OneTokenPerAccount, IndInv, [Next]_vars
    PROVE  IndInv'
<1>1. CASE \E b \in Block : Process(b)
  BY <1>1, ProcessIndInv, Zenon
<1>2. CASE \E h \in Block : Rollback(h)
  BY <1>2, RollbackIndInv, Zenon
<1>3. CASE UNCHANGED <<blocks, child, link, header, openBlock, frontier, pending>>
  BY <1>3, Zenon DEF IndInv, IndexType, ChainShape, Credits, FrontiersAreHeads,
     ReceivesMatchSends, PendingIsUnreceived, HasTokenMeta, HasPending, Chain, IsOpen,
     IsReceiveBlock, IsSendBlock, SendAmount
<1> QED BY <1>1, <1>2, <1>3, Zenon DEF Next, Restart, vars

\* With heights that grow along a chain and no two blocks at the same height, a
\* chain is linear and ends at its head.
LEMMA ShapeIsLinear ==
    ASSUME IndInv
    PROVE  ChainsAreLinear
<1>1. ASSUME NEW b \in blocks
      PROVE  IF header[Chain(b)] = b THEN Successors(b) = {}
                                     ELSE \E d \in blocks : Successors(b) = {d}
  <2>1. \A d \in blocks : blk[d].prev = b =>
            /\ d \in Block /\ b \in Block /\ Chain(d) = Chain(b)
            /\ blk[d].height = blk[b].height + 1 /\ blk[b].height \in Nat
    BY HeaderFacts, PrevFacts, BlockFacts DEF IsOpen
  <2>2. CASE header[Chain(b)] = b
    <3>0. \A d \in blocks : blk[d].height <= blk[header[Chain(d)]].height
      BY Zenon DEF IndInv, ChainShape
    <3>1. \A d \in blocks : blk[d].prev = b => blk[d].height <= blk[b].height
      BY <2>1, <2>2, <3>0, Zenon
    <3> QED BY <2>1, <2>2, <3>1 DEF Successors
  <2>3. CASE header[Chain(b)] # b
    <3>1. PICK d \in blocks : blk[d].prev = b
      BY <2>3, Zenon DEF IndInv, ChainShape
    <3>0. \A e, g \in blocks : Chain(e) = Chain(g) /\ blk[e].height = blk[g].height => e = g
      BY Zenon DEF IndInv, ChainShape
    <3>2. \A e \in blocks : blk[e].prev = b => e = d
      BY <2>1, <3>0, <3>1, Zenon
    <3>3. Successors(b) = {d}
      BY <3>1, <3>2, Zenon DEF Successors
    <3> QED BY <2>3, <3>3, Zenon
  <2> QED BY <2>2, <2>3, Zenon
<1>2. \A b, d \in blocks : IsOpen(b) /\ IsOpen(d) /\ Chain(b) = Chain(d) => b = d
  <2>1. \A b \in blocks : IsOpen(b) => blk[b].height = 1
    BY HeaderFacts, OpenAssumption, Zenon
  <2> QED BY <2>1, Zenon DEF IndInv, ChainShape
<1> QED BY <1>1, <1>2, Zenon DEF ChainsAreLinear, IndInv, ChainShape

\* Whatever blocks are processed and rolled back, in any order, with restarts in
\* between: every chain is one line of blocks up to the head in its token meta.
THEOREM ChainsStayLinear ==
    ASSUME OneTokenPerAccount
    PROVE  Spec => []ChainsAreLinear
<1>1. Init => IndInv
  BY InitIndInv, Zenon
<1>2. IndInv /\ [Next]_vars => IndInv'
  BY NextIndInv, Zenon
<1>3. IndInv => ChainsAreLinear
  BY ShapeIsLinear, Zenon
<1> QED BY <1>1, <1>2, <1>3, PTL DEF Spec

\* ... the frontier table offered to peers is exactly the set of heads, each with
\* the block that opened its chain.
THEOREM FrontiersStayHeads ==
    ASSUME OneTokenPerAccount
    PROVE  Spec => []FrontiersAreHeads
<1>1. Init => IndInv
  BY InitIndInv, Zenon
<1>2. IndInv /\ [Next]_vars => IndInv'
  BY NextIndInv, Zenon
<1>3. IndInv => FrontiersAreHeads
  BY Zenon DEF IndInv
<1> QED BY <1>1, <1>2, <1>3, PTL DEF Spec

\* ... a receive has its own confirmed source, however often either of the two
\* was rolled back.
THEOREM TransfersStayMatched ==
    ASSUME OneTokenPerAccount
    PROVE  Spec => []ReceivesMatchSends
<1>1. Init => IndInv
  BY InitIndInv, Zenon
<1>2. IndInv /\ [Next]_vars => IndInv'
  BY NextIndInv, Zenon
<1>3. IndInv => ReceivesMatchSends
  BY Zenon DEF IndInv
<1> QED BY <1>1, <1>2, <1>3, PTL DEF Spec

\* ... and a send is in the pending table exactly while it is confirmed and
\* nothing confirmed receives it.
THEOREM PendingStaysUnreceived ==
    ASSUME OneTokenPerAccount
    PROVE  Spec => []PendingIsUnreceived
<1>1. Init => IndInv
  BY InitIndInv, Zenon
<1>2. IndInv /\ [Next]_vars => IndInv'
  BY NextIndInv, Zenon
<1>3. IndInv => PendingIsUnreceived
  BY Zenon DEF IndInv
<1> QED BY <1>1, <1>2, <1>3, PTL DEF Spec
=============================================================================
