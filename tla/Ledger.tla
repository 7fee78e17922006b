------------------------------- MODULE Ledger -------------------------------
(***************************************************************************)
(* The confirmed block-lattice ledger of ledger/ and the verifier of       *)
(* ledger/process that is the only writer of it.                           *)
(*                                                                         *)
(* Every (account, token) pair owns a chain of state blocks.  Value moves  *)
(* between chains in two steps: a send on the sender's chain leaves an     *)
(* entry in the pending table, a receive (or the open of a new chain, or a *)
(* contract reward) on the receiver's chain consumes it.  Next to the      *)
(* blocks the ledger keeps indexes that must agree with them: the child of *)
(* a block, the receive of a send, the token meta (head and open block of  *)
(* a chain), the frontiers, and the voting weight of every representative. *)
(* All of them are written in one batch, which is applied or dropped as a  *)
(* whole (ledger/cache.go BatchUpdate), so one call of the verifier is one *)
(* step here.                                                              *)
(*                                                                         *)
(* Block contents are data: a block is a hash, and the constant blk gives  *)
(* the fields of the block a hash stands for.                              *)
(***************************************************************************)
EXTENDS Integers, FiniteSetsExt

CONSTANTS
    Block,       \* hashes of the blocks the node may be given
    Genesis,     \* per initial chain, its last block packed by PoV
    Account,     \* addresses
    Token,       \* token ids
    ChainToken,  \* config.ChainToken(), the token that carries voting weight
    NoHash,      \* types.ZeroHash
    blk          \* the fields of every block

NoAmount == -1

BlockType == {"Open", "Send", "Receive", "Change", "Online",
              "ContractSend", "ContractReward"}

(***************************************************************************)
(* types.StateBlock.  link is the source of a block that receives, to the  *)
(* account a send goes to.  Of a ContractSend, amt is the amount of the    *)
(* pending entry its contract asks for (NoAmount when it asks for none)    *)
(* and gain the amount of the reward the contract computes for it.  vote   *)
(* stands for Vote + Network and other for Oracle + Storage.  height is    *)
(* the position in the chain, which the hashes of the ancestors determine. *)
(***************************************************************************)
StateBlock ==
    [type : BlockType, addr : Account, token : Token, rep : Account,
     prev : Block \cup {NoHash}, link : Block \cup {NoHash}, to : Account,
     bal : Nat, vote : Nat, other : Nat, amt : Nat \cup {NoAmount},
     gain : Nat, height : Nat]

IsOpen(b) == blk[b].prev = NoHash
IsSendBlock(b) == blk[b].type \in {"Send", "ContractSend"}
IsReceiveBlock(b) == blk[b].type \in {"Open", "Receive", "ContractReward"}
Chain(b) == <<blk[b].addr, blk[b].token>>
TotalBalance(b) == blk[b].bal + blk[b].vote + blk[b].other
VoteWeight(b) == blk[b].bal + blk[b].vote
Parent(b) == IF IsOpen(b) THEN blk[b].link ELSE blk[b].prev

ASSUME NoHashAssumption == NoHash \notin Block

ASSUME ContentAssumption == blk \in [Block -> StateBlock]

\* A block extends a block of its own chain, one position higher, as every
\* block built by Generate*Block (ledger.go) does.
ASSUME ChainAssumption ==
    \A b \in Block :
        ~IsOpen(b) => /\ Chain(blk[b].prev) = Chain(b)
                      /\ blk[b].height = blk[blk[b].prev].height + 1

ASSUME OpenAssumption ==
    \A b \in Block :
        /\ blk[b].type = "Open" => IsOpen(b)
        /\ blk[b].type \notin {"Open", "ContractReward"} => ~IsOpen(b)
        /\ IsOpen(b) => blk[b].height = 1

\* Only blocks that receive have a source, and the source is a block that sends:
\* of a reward the call of the contract it is the reward of.
ASSUME LinkAssumption ==
    \A b \in Block :
        /\ b \notin Genesis /\ IsReceiveBlock(b) =>
               /\ blk[b].link \in Block /\ IsSendBlock(blk[b].link)
               /\ blk[b].type = "ContractReward" => blk[blk[b].link].type = "ContractSend"
        /\ ~IsReceiveBlock(b) => blk[b].link = NoHash

\* The bottom block of a chain that exists when the model starts: what is
\* below it is packed by PoV and never rolled back.
ASSUME GenesisAssumption ==
    /\ Genesis \subseteq Block
    /\ \A g \in Genesis : /\ IsOpen(g)
                          /\ blk[g].type = "ContractReward"
                          /\ blk[g].link = NoHash
    /\ \A g, h \in Genesis : Chain(g) = Chain(h) => g = h
    /\ IsFiniteSet(Genesis)

-----------------------------------------------------------------------------
VARIABLES
    blocks,          \* KeyPrefixBlock: the confirmed blocks
    child,           \* KeyPrefixChild: the block that extends a block
    link,            \* KeyPrefixLink: the block that receives a send
    header,          \* TokenMeta.Header of a chain
    openBlock,       \* TokenMeta.OpenBlock of a chain
    frontier,        \* KeyPrefixFrontier: header block -> open block
    pending,         \* KeyPrefixPending: send -> amount not yet received
    representation   \* KeyPrefixRepresentation: account -> delegated weight

vars == <<blocks, child, link, header, openBlock, frontier, pending,
          representation>>

HashOrNone == Block \cup {NoHash}
Chains == Account \X Token

IndexType ==
    /\ blocks \subseteq Block
    /\ child \in [Block -> HashOrNone]
    /\ link \in [Block -> HashOrNone]
    /\ header \in [Chains -> HashOrNone]
    /\ openBlock \in [Chains -> HashOrNone]
    /\ frontier \in [Block -> HashOrNone]
    /\ pending \in [Block -> Nat \cup {NoAmount}]

TypeOK ==
    /\ IndexType
    /\ representation \in [Account -> Int]

HasTokenMeta(c) == header[c] # NoHash
HasPending(s) == pending[s] # NoAmount

Sum(w, S) == MapThenSumSet(LAMBDA b : w[b], S)

\* The weight delegated to r, as updateRepresentation adds it up from the
\* accounts when the ledger is opened.  am.Coin* and tm.Balance are the fields
\* of the chain's head: they are always assigned together with tm.Header.
DelegatedTo(r, weight) ==
    Sum(weight, {b \in blocks : /\ blk[b].token = ChainToken
                                /\ header[Chain(b)] = b
                                /\ blk[b].rep = r})

Init ==
    /\ blocks = Genesis
    /\ child = [b \in Block |-> NoHash]
    /\ link = [b \in Block |-> NoHash]
    /\ header = [c \in Chains |->
                    IF \E g \in Genesis : Chain(g) = c
                    THEN CHOOSE g \in Genesis : Chain(g) = c ELSE NoHash]
    /\ openBlock = header
    /\ frontier = [b \in Block |-> IF b \in Genesis THEN b ELSE NoHash]
    /\ pending = [b \in Block |-> NoAmount]
    /\ representation = [r \in Account |-> DelegatedTo(r, [b \in Block |-> TotalBalance(b)])]

-----------------------------------------------------------------------------
(***************************************************************************)
(* BlockCheck: each check returns a ProcessResult and a block type runs    *)
(* its checks in order, stopping at the first that is not Progress.        *)
(***************************************************************************)
Then(first, second) == IF first # "Progress" THEN first ELSE second
Require(cond, otherwise) == IF cond THEN "Progress" ELSE otherwise

\* Work and signatures are valid and no block is private.
baseInfo(b) ==
    Then(Require(b \notin blocks, "Old"),
         Require(blk[b].type = "ContractReward" => blk[b].link \in blocks,
                 "GapSource"))

fork(b) ==
    IF IsOpen(b)
    THEN Require(~HasTokenMeta(Chain(b)), "Fork")
    ELSE Then(Require(blk[b].prev \in blocks, "GapPrevious"),
              Require(HasTokenMeta(Chain(b)) =>
                          header[Chain(b)] = blk[b].prev, "Fork"))

SameStake(b, p) == blk[b].vote = blk[p].vote /\ blk[b].other = blk[p].other

balance(b) ==
    LET p == blk[b].prev
        ok == CASE blk[b].type = "Send" ->
                       blk[p].bal > blk[b].bal /\ SameStake(b, p)
                [] blk[b].type = "ContractSend" ->
                       TotalBalance(p) >= TotalBalance(b)
                [] OTHER -> blk[p].bal = blk[b].bal /\ SameStake(b, p)
    IN Then(Require(p \in blocks, "GapPrevious"),
            Require(ok, "BalanceMismatch"))

source(b) == Require(blk[b].link \in blocks, "GapSource")

\* GetPending with the key (address of b, source of b)
Receivable(b) == HasPending(blk[b].link) /\ blk[blk[b].link].to = blk[b].addr

pendingCheck(b) ==
    LET s == blk[b].link
        amountOK ==
            IF IsOpen(b)
            THEN /\ pending[s] = blk[b].bal
                 /\ blk[b].vote = 0 /\ blk[b].other = 0
            ELSE /\ pending[s] = blk[b].bal - blk[header[Chain(b)]].bal
                 /\ SameStake(b, blk[b].prev)
    IN IF blk[b].type = "ContractReward"
       THEN Require(blk[s].amt # NoAmount => Receivable(b), "UnReceivable")
       ELSE Then(Require(Receivable(b), "UnReceivable"),
                 Require(amountOK /\ blk[s].token = blk[b].token,
                         "BalanceMismatch"))

\* CalculateAmount of a contract reward
RewardAmount(b) ==
    TotalBalance(b) - (IF IsOpen(b) THEN 0 ELSE TotalBalance(blk[b].prev))

\* DoSend and DoReceive are the contract's: a send's data is accepted; a reward
\* is accepted once per send, of which the contract keeps a record in its
\* storage, and must credit the account and the amount the contract computes.
contract(b) ==
    LET s == blk[b].link
    IN Then(Require(blk[b].type = "ContractReward" => link[s] = NoHash, "Other"),
            Require(blk[b].type = "ContractReward" =>
                        blk[b].addr = blk[s].to /\ RewardAmount(b) = blk[s].gain,
                    "InvalidData"))

BlockCheck(b) ==
    CASE blk[b].type = "Send" ->
            Then(baseInfo(b), Then(fork(b), balance(b)))
      [] blk[b].type = "ContractSend" ->
            Then(baseInfo(b), Then(fork(b), Then(balance(b), contract(b))))
      [] blk[b].type = "Receive" ->
            Then(baseInfo(b), Then(fork(b), Then(source(b), pendingCheck(b))))
      [] blk[b].type = "ContractReward" ->
            Then(baseInfo(b), Then(fork(b), Then(pendingCheck(b), contract(b))))
      [] blk[b].type = "Open" ->
            Then(baseInfo(b), Then(source(b), Then(fork(b), pendingCheck(b))))
      [] OTHER ->
            Then(Require(blk[b].token = ChainToken, "Other"),
                 Then(baseInfo(b), Then(fork(b), balance(b))))

-----------------------------------------------------------------------------
(***************************************************************************)
(* BlockProcess: one batch that either applies all of these or, when a     *)
(* step returns an error, none.                                            *)
(***************************************************************************)
\* Mutant: the subtraction the wrong way round.
SendAmountReversed(b) ==
    IF blk[b].type = "Send" THEN blk[b].bal - blk[blk[b].prev].bal ELSE blk[b].amt

\* The amount a send leaves in the pending table: of a Send what its balance
\* drops by, of a ContractSend what DoPending or ProcessSend returns.
SendAmount(b) ==
    IF blk[b].type = "Send" THEN blk[blk[b].prev].bal - blk[b].bal
                            ELSE blk[b].amt

\* Mutant: a receive leaves its source receivable.
updatePendingKept(b) ==
    IF IsSendBlock(b) THEN [pending EXCEPT ![b] = SendAmount(b)] ELSE pending

updatePending(b) ==
    CASE IsSendBlock(b) -> [pending EXCEPT ![b] = SendAmount(b)]
      [] IsReceiveBlock(b) ->
            [pending EXCEPT ![blk[b].link] =
                IF blk[blk[b].link].to = blk[b].addr THEN NoAmount ELSE @]
      [] OTHER -> pending

setBlockChild(b) == IF IsOpen(b) THEN child ELSE [child EXCEPT ![blk[b].prev] = b]

setBlockLink(b) ==
    IF IsReceiveBlock(b) THEN [link EXCEPT ![blk[b].link] = b] ELSE link

\* tm.OpenBlock of the chain once b is on it
OpenBlockOf(b) ==
    IF HasTokenMeta(Chain(b)) THEN openBlock[Chain(b)] ELSE b

\* Mutant: the frontier of the old head stays.
updateFrontierKept(b) == [frontier EXCEPT ![b] = OpenBlockOf(b)]

updateFrontier(b) ==
    [f \in Block |-> CASE f = b -> OpenBlockOf(b)
                       [] f # b /\ f = header[Chain(b)] -> NoHash
                       [] OTHER -> frontier[f]]

\* What block b adds to r's weight while it is the head of a chain
BenefitOf(b, r) ==
    IF b # NoHash /\ blk[b].token = ChainToken /\ blk[b].rep = r
    THEN TotalBalance(b) ELSE 0

\* Mutant: the old weight is taken from the new representative.
updateRepresentativeOfNew(b) ==
    [r \in Account |-> representation[r] + BenefitOf(b, r)
        - (IF BenefitOf(b, r) = 0 THEN 0 ELSE TotalBalance(header[Chain(b)]))]

updateRepresentative(b) ==
    [r \in Account |->
        representation[r] - BenefitOf(header[Chain(b)], r) + BenefitOf(b, r)]

\* The errors that make the batch fail: the parent is unknown or has a child
\* already, the frontier of the old head is missing.
Processable(b) ==
    /\ ~IsOpen(b) => blk[b].prev \in blocks /\ child[blk[b].prev] = NoHash
    /\ HasTokenMeta(Chain(b)) => frontier[header[Chain(b)]] # NoHash

BlockProcess(b) ==
    /\ Processable(b)
    /\ blocks' = blocks \cup {b}
    /\ child' = setBlockChild(b)
    /\ link' = setBlockLink(b)
    /\ pending' = updatePending(b)
    /\ frontier' = updateFrontier(b)
    /\ header' = [header EXCEPT ![Chain(b)] = b]
    /\ openBlock' = [openBlock EXCEPT ![Chain(b)] = OpenBlockOf(b)]
    /\ representation' = updateRepresentative(b)

Process(b) == BlockCheck(b) = "Progress" /\ BlockProcess(b)

-----------------------------------------------------------------------------
(***************************************************************************)
(* Rollback.  The code collects, per chain, the oldest block to remove:    *)
(* starting from the given hash it walks every chain in its map from the   *)
(* head down to that block, and the receive of every send it meets is put  *)
(* in the map in turn.  What it removes is the least set of blocks that    *)
(* holds the hash and is closed under both steps.                          *)
(***************************************************************************)
NotOlder(d, b) == Chain(d) = Chain(b) /\ blk[d].height >= blk[b].height

\* Mutant: the receives of the sends it meets are not followed.
ClosedOnChain(S) == \A b \in S : \A d \in blocks : NotOlder(d, b) => d \in S

ClosedForRollback(S) ==
    \A b \in S : /\ \A d \in blocks : NotOlder(d, b) => d \in S
                 /\ IsSendBlock(b) /\ link[b] # NoHash => link[b] \in S

RollbackSet(h) ==
    LET closed == {S \in SUBSET (blocks \ Genesis) :
                      h \in S /\ ClosedForRollback(S)}
    IN {b \in blocks : \A S \in closed : b \in S}

\* rollbackMap[c]: the oldest block of chain c to remove
Oldest(S, c) ==
    CHOOSE b \in S : Chain(b) = c /\ \A d \in S : Chain(d) = c => NotOlder(d, b)

ChainsOf(S) == {Chain(b) : b \in S}
\* the chains of which nothing is left (rollBackTokenDel)
Removed(S) == {c \in ChainsOf(S) : IsOpen(Oldest(S, c))}

\* GetBlockLink answers a send without a receive with an error that Rollback
\* does not tell from any other: it gives up.
LinksFound(S) == \A b \in S : IsSendBlock(b) => link[b] # NoHash

\* rollBackTokenDel writes the account it read before the batch, without the
\* deleted token: what the batch did before to the account's other tokens is
\* lost.  The chains are visited in the order of a Go map, which is any order.
LostUpdates(S, lost) ==
    /\ \A c \in lost : \E d \in Removed(S) \ lost : d[1] = c[1]
    /\ \A d, e \in Removed(S) \ lost : d[1] = e[1] => d = e

\* Mutant: off by one, the token meta is left at the oldest block removed.
rollBackHeaderTooHigh(S, lost) ==
    [c \in Chains |-> IF c \in ChainsOf(S) \ lost /\ ~IsOpen(Oldest(S, c))
                      THEN Oldest(S, c) ELSE header[c]]

rollBackHeader(S, lost) ==
    [c \in Chains |-> IF c \in ChainsOf(S) \ lost
                      THEN blk[Oldest(S, c)].prev ELSE header[c]]

rollBackOpenBlock(S, lost) ==
    [c \in Chains |-> IF c \in Removed(S) \ lost THEN NoHash ELSE openBlock[c]]

rollBackFrontier(S) ==
    [f \in Block |->
        CASE f \in S -> NoHash
          [] f \notin S /\ \E c \in ChainsOf(S) : blk[Oldest(S, c)].prev = f ->
                frontier[header[Chain(f)]]
          [] OTHER -> frontier[f]]

\* Mutant: the balance after the receive instead of what it received.
RestoredBalance(r) ==
    IF blk[r].type = "ContractReward" THEN 0 ELSE blk[r].bal

\* The amount rollBackPendingAdd restores for the source of r: the balance in
\* the token meta for an open, the difference to the previous block for a
\* receive, the contract's amount for a reward.
RestoredAmount(r) ==
    CASE blk[r].type = "Open" -> blk[header[Chain(r)]].bal
      [] blk[r].type = "Receive" -> blk[r].bal - blk[blk[r].prev].bal
      [] OTHER -> blk[blk[r].link].amt

\* Mutant: the source of a removed receive is not made receivable again.
rollBackPendingDelOnly(S) == [s \in Block |-> IF s \in S THEN NoAmount ELSE pending[s]]

rollBackPending(S) ==
    [s \in Block |->
        CASE s \in S -> NoAmount
          [] s \notin S /\ \E r \in S : IsReceiveBlock(r) /\ blk[r].link = s ->
                RestoredAmount(CHOOSE r \in S : IsReceiveBlock(r) /\ blk[r].link = s)
          [] OTHER -> pending[s]]

\* rollBackRep and rollBackRepChange: what removing b adds to r's weight.
\* Contract blocks do not touch the weights.
rollBackRep(b, r) ==
    LET p == blk[b].prev
        of(a) == IF blk[b].token = ChainToken /\ a = r THEN 1 ELSE 0
    IN CASE blk[b].type = "Open" -> -of(blk[b].rep) * TotalBalance(b)
         [] blk[b].type \in {"Send", "Receive"} ->
                of(blk[b].rep) * (TotalBalance(p) - TotalBalance(b))
         [] blk[b].type \in {"Change", "Online"} ->
                (of(blk[p].rep) - of(blk[b].rep)) * TotalBalance(b)
         [] OTHER -> 0

\* Mutant: the child index keeps the removed blocks.
DeleteWithoutChild(S) ==
    /\ blocks' = blocks \ S
    /\ UNCHANGED child
    /\ link' = [s \in Block |->
                    IF \E b \in S : blk[b].link = s THEN NoHash ELSE link[s]]

DeleteStateBlocks(S) ==
    /\ blocks' = blocks \ S
    /\ child' = [p \in Block |->
                    IF \E b \in S : Parent(b) = p THEN NoHash ELSE child[p]]
    /\ link' = [s \in Block |->
                    IF \E b \in S : blk[b].link = s THEN NoHash ELSE link[s]]

rollbackBlocks(S) ==
    /\ LinksFound(S)
    /\ \A c \in ChainsOf(S) : frontier[header[c]] # NoHash
    /\ \E lost \in SUBSET ChainsOf(S) :
          /\ LostUpdates(S, lost)
          /\ header' = rollBackHeader(S, lost)
          /\ openBlock' = rollBackOpenBlock(S, lost)
    /\ DeleteStateBlocks(S)
    /\ frontier' = rollBackFrontier(S)
    /\ pending' = rollBackPending(S)
    /\ representation' =
          [r \in Account |->
              representation[r] + Sum([b \in S |-> rollBackRep(b, r)], S)]

Rollback(h) == h \in blocks \ Genesis /\ rollbackBlocks(RollbackSet(h))

\* Opening the ledger again recomputes the weights from the accounts.
Restart ==
    /\ representation' = [r \in Account |-> DelegatedTo(r, [b \in Block |-> VoteWeight(b)])]
    /\ UNCHANGED <<blocks, child, link, header, openBlock, frontier, pending>>

Next ==
    \/ \E b \in Block : Process(b)
    \/ \E h \in Block : Rollback(h)
    \/ Restart

Spec == Init /\ [][Next]_vars

-----------------------------------------------------------------------------
(***************************************************************************)
(* Properties.                                                             *)
(***************************************************************************)
Successors(b) == {d \in blocks : blk[d].prev = b}

\* The confirmed blocks of an (account, token) pair form one chain without
\* gaps or forks that ends at the head in its token meta, whatever blocks were
\* processed and rolled back in between (setBlockChild, rollBackToken).
ChainsAreLinear ==
    /\ \A b \in blocks :
          /\ HasTokenMeta(Chain(b))
          /\ ~IsOpen(b) => blk[b].prev \in blocks
          /\ IF header[Chain(b)] = b THEN Successors(b) = {}
                                     ELSE \E d \in blocks : Successors(b) = {d}
    /\ \A b, d \in blocks : IsOpen(b) /\ IsOpen(d) /\ Chain(b) = Chain(d) => b = d
    /\ \A c \in Chains : HasTokenMeta(c) => header[c] \in blocks /\ Chain(header[c]) = c

\* The frontier table, which is what a node offers its peers when they
\* synchronise, holds exactly the heads of the chains, each with the block that
\* opened its chain (updateFrontier, rollBackFrontier).
FrontiersAreHeads ==
    \A f \in Block :
        IF f \in blocks /\ header[Chain(f)] = f
        THEN /\ frontier[f] = openBlock[Chain(f)]
             /\ frontier[f] \in blocks /\ IsOpen(frontier[f])
             /\ Chain(frontier[f]) = Chain(f)
        ELSE frontier[f] = NoHash

\* No value comes from nowhere or twice: the source of every confirmed receive
\* is confirmed, no other confirmed block receives it, and the link index leads
\* from the source to it, also after a rollback removed one of the two sides.
ReceivesMatchSends ==
    /\ \A r \in blocks \ Genesis :
          IsReceiveBlock(r) => blk[r].link \in blocks /\ link[blk[r].link] = r
    /\ \A s \in Block : link[s] # NoHash => link[s] \in blocks /\ blk[link[s]].link = s

\* A send is in the pending table exactly while it is confirmed and nothing
\* confirmed receives it: a rollback of the receive puts it back, a rollback of
\* the send takes it away (rollBackPendingAdd, rollBackPendingDel).
PendingIsUnreceived ==
    \A s \in Block :
        HasPending(s) <=> /\ s \in blocks /\ IsSendBlock(s)
                          /\ SendAmount(s) # NoAmount /\ link[s] = NoHash

\* No block changes the balance of a chain that an Open may have started.  The
\* amount that the rollback of an Open restores is the balance in the token meta
\* that was read before the later blocks of the chain were undone; where one of
\* them changed it, the amount is wrong.
OpensKeepBalance ==
    \A b, d \in Block :
        blk[b].type = "Open" /\ Chain(d) = Chain(b) /\ ~IsOpen(d) =>
            blk[d].bal = blk[blk[d].prev].bal

\* The pending table holds the amount the send took from the sender, so that
\* it can be received again after a rollback (rollBackPendingAdd); this needs
\* OpensKeepBalance.
PendingAmountIsSent ==
    OpensKeepBalance => \A s \in Block : HasPending(s) => pending[s] = SendAmount(s)

Heads(t) == {b \in blocks : blk[b].token = t /\ header[Chain(b)] = b}

\* No contract makes or destroys value: the pending entry and the reward of a
\* call are worth what the call takes from its chain, in the same token.  (The
\* verifier asks a contract for both amounts and compares neither with the
\* balance of the call.)
ContractsConserve ==
    \A b \in Block \ Genesis :
        /\ blk[b].type = "ContractSend" =>
               /\ blk[b].gain = IF blk[b].amt = NoAmount THEN 0 ELSE blk[b].amt
               /\ RewardAmount(b) = -blk[b].gain
        /\ blk[b].type = "ContractReward" => blk[blk[b].link].token = blk[b].token

\* For every token, what the accounts own and what is on its way to them adds
\* up to what they owned at the start, also after rollbacks that make sends
\* receivable again; this needs OpensKeepBalance and ContractsConserve.
SupplyIsConserved ==
    OpensKeepBalance /\ ContractsConserve => \A t \in Token :
        LET total == [b \in Block |-> TotalBalance(b)]
        IN Sum(total, Heads(t)) + Sum(pending, {s \in Block : HasPending(s) /\ blk[s].token = t})
           = Sum(total, {g \in Genesis : blk[g].token = t})

\* Rolling back a block of the chain token gives r back the weight the block
\* took from it: no contract block touches it (rollBackRep is not called for
\* contract blocks), and a block that moves value keeps the representative of
\* its chain, as every block built by Generate*Block does (rollBackRep moves the
\* difference of the balances only).  And nothing that updateRepresentation
\* leaves out is delegated to r.
Steady(r) ==
    \A b \in {d \in Block : blk[d].token = ChainToken} :
        /\ blk[b].rep = r => blk[b].other = 0
        /\ b \notin Genesis /\ blk[b].type \in {"ContractSend", "ContractReward"} =>
               r # blk[b].rep /\ (IsOpen(b) \/ r # blk[blk[b].prev].rep)
        /\ blk[b].type \in {"Send", "Receive"} =>
               (blk[b].rep = r <=> blk[blk[b].prev].rep = r)

\* The weight of a representative, kept up to date by increments on every block
\* and every rollback, is what the accounts that chose it own now; this needs
\* Steady.
WeightIsDelegated ==
    \A r \in Account :
        Steady(r) => representation[r] = DelegatedTo(r, [b \in Block |-> TotalBalance(b)])

\* The child index, by which a second block on the same parent is refused and
\* the rival of a forked block is found, is the successor relation.  (Of blocks
\* that no chain is opened from: DeleteStateBlock takes the source of an opening
\* block for its parent.)
ChildIsSuccessor ==
    \A b, d \in Block :
        (\A o \in Block \ Genesis : IsOpen(o) => blk[o].link # b) =>
            (child[b] = d <=> d \in blocks /\ blk[d].prev = b)

\* Any confirmed block can be rolled back: a send nobody has received yet does
\* not make Rollback fail.
RollbackFindsLinks ==
    \A h \in blocks \ Genesis : LinksFound(RollbackSet(h))

-----------------------------------------------------------------------------
(***************************************************************************)
(* The inductive invariant behind the structural properties.  A chain is   *)
(* linear because no two of its blocks are at the same height and none is  *)
(* above the head; a restored pending amount is an amount because of what  *)
(* was checked when the receive was processed.                             *)
(***************************************************************************)
ChainShape ==
    /\ Genesis \subseteq blocks
    /\ \A b \in blocks :
          /\ HasTokenMeta(Chain(b))
          /\ ~IsOpen(b) => blk[b].prev \in blocks
          /\ blk[b].height <= blk[header[Chain(b)]].height
          /\ header[Chain(b)] # b => \E d \in blocks : blk[d].prev = b
    /\ \A b, d \in blocks :
          Chain(b) = Chain(d) /\ blk[b].height = blk[d].height => b = d
    /\ \A c \in Chains : HasTokenMeta(c) =>
          /\ header[c] \in blocks /\ Chain(header[c]) = c
          /\ openBlock[c] \in blocks /\ Chain(openBlock[c]) = c
          /\ IsOpen(openBlock[c])

Credits ==
    \A b \in blocks :
        /\ blk[b].type = "Send" => blk[blk[b].prev].bal > blk[b].bal
        /\ blk[b].type = "Receive" => blk[b].bal >= blk[blk[b].prev].bal
        /\ blk[b].type \in {"Open", "Receive"} => SendAmount(blk[b].link) # NoAmount

IndInv ==
    /\ IndexType /\ ChainShape /\ Credits
    /\ FrontiersAreHeads /\ ReceivesMatchSends /\ PendingIsUnreceived

\* No account owns two tokens: rollBackTokenDel then has no other token to
\* overwrite.
OneTokenPerAccount ==
    \A b, d \in Block : blk[b].addr = blk[d].addr => blk[b].token = blk[d].token
=============================================================================
