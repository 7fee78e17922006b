------------------------------- MODULE Dpos -------------------------------
(***************************************************************************)
(* Delegated voting on the blocks of one account chain (consensus/dpos).   *)
(*                                                                         *)
(* Every node runs, for the account, one processor goroutine that handles  *)
(* blocks and acks one at a time, and one timer goroutine, checkVotes,     *)
(* that gives up elections.  Blocks with the same previous block are       *)
(* rivals and share one election.  A representative of the node votes for  *)
(* the first of them it sees; a block is written to the ledger when the    *)
(* votes for it weigh more than half of the supply, and rivals that were   *)
(* written before are rolled back.                                         *)
(*                                                                         *)
(* The network loses, repeats and reorders: what was sent may arrive any   *)
(* number of times, at any moment.  The ledger is reduced to the blocks of *)
(* the account above Root, a block that every node has; module Ledger has  *)
(* the rest.  Blocks that come from synchronisation are not in this module.*)
(***************************************************************************)
EXTENDS Integers, FiniteSets

CONSTANTS
    Node,
    Rep,          \* representatives
    Elsewhere,    \* stands for the nodes that are not modelled
    Home,         \* [Rep -> Node \cup {Elsewhere}]: who votes for it
    Quorum,       \* sets of representatives with more than voteThreshold
    Block,
    Root,
    prev,         \* [Block -> Block \cup {Root}]
    Author,       \* [Block -> Node \cup {Elsewhere}]: where it is generated
    NoBlock,
    Unreceived,   \* sends that no block has received: Rollback fails on them
    MaxGiveUp,    \* bound: elections given up
    MaxRestart,   \* bound: restarts
    Packing       \* whether PoV packs confirmed blocks

ASSUME QuorumAssumption ==
    /\ Quorum \subseteq SUBSET Rep
    /\ \A P, Q \in Quorum : P \cap Q # {}
ASSUME BlockAssumption ==
    /\ Root \notin Block /\ NoBlock \notin Block \cup {Root}
    /\ prev \in [Block -> Block \cup {Root}]
    /\ Elsewhere \notin Node
    /\ Author \in [Block -> Node \cup {Elsewhere}]
    /\ Home \in [Rep -> Node \cup {Elsewhere}]
    /\ \A q, r \in Rep : Home[q] = Home[r] /\ q # r => Home[q] = Elsewhere
    /\ Unreceived \subseteq Block
ASSUME BoundAssumption == MaxGiveUp \in Nat /\ MaxRestart \in Nat /\ Packing \in BOOLEAN

VoteKey == Block \cup {Root}
getVoteKey(b) == prev[b]
Rivals(b, c) == b # c /\ prev[b] = prev[c]

\* A block with everything it stands on: the least set that holds the block and
\* the previous block of each of its members.
Chain ==
    [b \in Block |->
       {c \in Block : \A S \in SUBSET Block :
          b \in S /\ (\A d \in S : prev[d] \in S \cup {Root}) => c \in S}]

Election ==
    {el \in [blocks : SUBSET Block, repVotes : [Rep -> Block \cup {NoBlock}],
             winner : Block \cup {NoBlock}, voteHash : Block \cup {NoBlock},
             valid : BOOLEAN] : el.valid => el.winner # NoBlock}
NoElection ==
    [blocks |-> {}, repVotes |-> [r \in Rep |-> NoBlock], winner |-> NoBlock,
     voteHash |-> NoBlock, valid |-> FALSE]

Message ==
    [type : {"publish", "confirmReq"}, block : Block]
    \cup [type : {"ack"}, rep : Rep, block : Block]

Idle == [pc |-> "idle", key |-> Root, blocks |-> {}, winner |-> NoBlock]

NodeState ==
    [ledger : SUBSET Block,                       \* confirmed blocks
     packed : SUBSET Block,                       \* blocks with a PoV lookup
     unchecked : [Block -> Block \cup {NoBlock}], \* by the missing previous block
     blocksAcked : SUBSET Block,
     roots : [VoteKey -> Election],
     hash2el : SUBSET Block,                      \* hashes that lead to roots[key]
     timer : {Idle} \cup
             [pc : {"delete", "clean"}, key : VoteKey, blocks : SUBSET Block,
              winner : Block],
     sent : SUBSET Message]

VARIABLES
    node,         \* [Node -> NodeState]
    generated,    \* blocks that users have made
    giveUps, restarts

bounds == <<giveUps, restarts>>
vars == <<node, generated, bounds>>

\* Nodes elsewhere may have sent any block and any vote.
FromElsewhere ==
    [type : {"publish", "confirmReq"}, block : {b \in Block : Author[b] = Elsewhere}]
    \cup [type : {"ack"}, rep : {r \in Rep : Home[r] = Elsewhere}, block : Block]

msgs == FromElsewhere \cup UNION {node[n].sent : n \in Node}

TypeOK ==
    /\ node \in [Node -> NodeState]
    /\ generated \subseteq Block
    /\ giveUps \in 0 .. MaxGiveUp /\ restarts \in 0 .. MaxRestart

Init ==
    /\ node = [n \in Node |->
                 [ledger |-> {}, packed |-> {}, unchecked |-> [b \in Block |-> NoBlock],
                  blocksAcked |-> {}, roots |-> [k \in VoteKey |-> NoElection],
                  hash2el |-> {}, timer |-> Idle, sent |-> {}]]
    /\ generated = {}
    /\ giveUps = 0 /\ restarts = 0

-----------------------------------------------------------------------------
(***************************************************************************)
(* The ledger, as far as consensus sees it.  s is the state of a node.     *)
(***************************************************************************)
HasBlock(s, b) == b = Root \/ b \in s.ledger
Children(s, k) == {c \in s.ledger : prev[c] = k}

BlockCheck(s, b) ==
    IF b \in s.ledger THEN "Old"
    ELSE IF ~HasBlock(s, prev[b]) THEN "GapPrevious"
    ELSE IF Children(s, prev[b]) # {} THEN "Fork" ELSE "Progress"

\* Rollback takes a block away with all that stands on it, or fails.
Rollback(s, b) ==
    LET above == {c \in s.ledger : b \in Chain[c]}
    IN  IF above \cap Unreceived # {} THEN s ELSE [s EXCEPT !.ledger = @ \ above]

\* rollBack goes on with the next block when one fails.
rollBack(s, losers) ==
    LET gone == {c \in s.ledger :
                   \E b \in losers : /\ b \in Chain[c]
                                     /\ Rollback(s, b) # s}
    IN  [s EXCEPT !.ledger = @ \ gone]

\* Mutant: no look at the block below or beside it.
ProcessBlindly(s, b) == [s EXCEPT !.ledger = @ \cup {b}]

\* BlockProcess does not check the block again; setBlockChild refuses a block
\* without its previous block or with a rival.
BlockProcess(s, b) ==
    IF HasBlock(s, prev[b]) /\ Children(s, prev[b]) = {}
    THEN [s EXCEPT !.ledger = @ \cup {b}]
    ELSE s

-----------------------------------------------------------------------------
(***************************************************************************)
(* Elections.                                                              *)
(***************************************************************************)
Voting(s, b) == s.roots[getVoteKey(b)] # NoElection

\* Mutant: the status of the election is not set.
newElectionBare(b) ==
    [blocks |-> {b}, repVotes |-> [r \in Rep |-> NoBlock], winner |-> NoBlock,
     voteHash |-> NoBlock, valid |-> TRUE]

newElection(b) ==
    [blocks |-> {b}, repVotes |-> [r \in Rep |-> NoBlock], winner |-> b,
     voteHash |-> NoBlock, valid |-> TRUE]

addToRoots(s, b) ==
    IF Voting(s, b) THEN s
    ELSE [s EXCEPT !.roots[getVoteKey(b)] = newElection(b), !.hash2el = @ \cup {b}]

\* processFork and the election of the block it found: a rival joins.
Join(s, k, b) ==
    [s EXCEPT !.roots[k].blocks = @ \cup {b}, !.hash2el = @ \cup {b}]

VotesFor(el, b) == {r \in Rep : el.repVotes[r] = b}

\* The losers are the first block of the election and those with a vote.
Losers(el, b) ==
    ({el.winner} \cup {c \in el.blocks : VotesFor(el, c) # {}}) \ {b}

\* Mutant: the acked block is announced only by the node that voted for it.
ConfirmVoted(s, k, b) ==
    LET el == s.roots[k]
        t  == BlockProcess(rollBack(s, Losers(el, b)), b)
    IN  [t EXCEPT !.roots[k] = NoElection,
                  !.hash2el = @ \ el.blocks,
                  !.blocksAcked = @ \cup ({b} \cap {el.voteHash})]

\* What haveQuorum does for the block b with the quorum.  The acked block is
\* announced to the queue of gap blocks even if BlockProcess failed (left out
\* for a block that no block stands on).
Confirm(s, k, b) ==
    LET el == s.roots[k]
        t  == BlockProcess(rollBack(s, Losers(el, b)), b)
    IN  [t EXCEPT !.roots[k] = NoElection,
                  !.hash2el = @ \ el.blocks,
                  !.blocksAcked = @ \cup {h \in {b} : \E c \in Block : prev[c] = h}]

\* Mutant: votes are added up over the rivals.
HasTurnout(el, b) == Rep \ VotesFor(el, NoBlock) \in Quorum

HasQuorum(el, b) == VotesFor(el, b) \in Quorum

haveQuorum(s, k) ==
    IF \E b \in s.roots[k].blocks : HasQuorum(s.roots[k], b)
    THEN Confirm(s, k, CHOOSE b \in s.roots[k].blocks : HasQuorum(s.roots[k], b))
    ELSE s

\* act.vote and voteAction
vote(s, r, b) ==
    LET k == getVoteKey(b)
    IN  IF b \in s.hash2el /\ s.roots[k].valid /\ s.roots[k].repVotes[r] # b
        THEN haveQuorum([s EXCEPT !.roots[k].repVotes[r] = b], k)
        ELSE s

setVoteHash(s, b) ==
    IF Voting(s, b) THEN [s EXCEPT !.roots[getVoteKey(b)].voteHash = b] ELSE s

Ack(r, b) == [type |-> "ack", rep |-> r, block |-> b]

\* The representative of the node counts its vote and sends it.
localRepVote(n, s, b) ==
    LET mine == {r \in Rep : Home[r] = n}
    IN  IF mine = {} THEN s
        ELSE LET r == CHOOSE r \in mine : TRUE
                 t == setVoteHash(vote(s, r, b), b)
             IN  [t EXCEPT !.sent = @ \cup {Ack(r, b)}]

-----------------------------------------------------------------------------
(***************************************************************************)
(* The processor.                                                          *)
(***************************************************************************)
\* A block that forks from a confirmed one is voted on together with it, unless
\* PoV has packed the confirmed one.
processFork(n, s, b) ==
    LET k == getVoteKey(b)
        c == CHOOSE c \in Children(s, k) : TRUE
        t == [Join(addToRoots(s, c), k, b)
                EXCEPT !.sent = @ \cup {[type |-> "confirmReq", block |-> c]}]
    IN  IF c \in s.packed THEN s
        ELSE IF Voting(s, c) THEN Join(s, k, b)
        ELSE localRepVote(n, t, c)

\* One gap block is kept for a missing block.
enqueueUnchecked(s, b) ==
    IF s.unchecked[prev[b]] = NoBlock THEN [s EXCEPT !.unchecked[prev[b]] = b] ELSE s

\* Mutant: a vote for every block, whether it opened the election or not.
processResultVoting(n, s, b, type) ==
    CASE BlockCheck(s, b) = "Progress" ->
           IF type # "confirmReq" THEN localRepVote(n, addToRoots(s, b), b)
                                  ELSE addToRoots(s, b)
      [] BlockCheck(s, b) = "Fork" ->
           IF type = "generate" THEN s ELSE processFork(n, s, b)
      [] BlockCheck(s, b) = "GapPrevious" ->
           IF type = "confirmReq" THEN s ELSE enqueueUnchecked(s, b)
      [] OTHER -> s

processResult(n, s, b, type) ==
    CASE BlockCheck(s, b) = "Progress" ->
           IF ~Voting(s, b) /\ type # "confirmReq"
           THEN localRepVote(n, addToRoots(s, b), b)
           ELSE addToRoots(s, b)
      [] BlockCheck(s, b) = "Fork" ->
           IF type = "generate" THEN s ELSE processFork(n, s, b)
      [] BlockCheck(s, b) = "GapPrevious" ->
           IF type = "confirmReq" THEN s ELSE enqueueUnchecked(s, b)
      [] OTHER -> s

\* A block that is asked for gets a vote if it is confirmed, or if no rival has
\* the vote.
processMsgDo(n, s, b, type) ==
    LET t  == processResult(n, s, b, type)
        el == t.roots[getVoteKey(b)]
        answer == /\ type = "confirmReq"
                  /\ \/ BlockCheck(s, b) = "Old"
                     \/ /\ BlockCheck(s, b) = "Progress"
                        /\ el # NoElection
                        /\ el.voteHash \in {NoBlock, b}
    IN  IF answer THEN localRepVote(n, t, b) ELSE t

Become(n, s) == node' = [node EXCEPT ![n] = s]

\* A user makes a block: it is sent, and handled by the node itself.  It may
\* stand on a block of the same user that is not confirmed yet.
Generate(b) ==
    LET n == Author[b]
        s == [node[n] EXCEPT !.sent = @ \cup {[type |-> "publish", block |-> b]}]
    IN  /\ n # Elsewhere /\ b \notin generated
        /\ \/ HasBlock(s, prev[b])
           \/ prev[b] \in generated /\ Author[prev[b]] = n
        /\ generated' = generated \cup {b}
        /\ Become(n, processMsgDo(n, s, b, "generate"))
        /\ UNCHANGED bounds

ReceiveBlock(n, m) ==
    /\ m \in msgs /\ m.type \in {"publish", "confirmReq"}
    /\ Become(n, processMsgDo(n, node[n], m.block, m.type))
    /\ UNCHANGED <<generated, bounds>>

\* dispatchMsg and processAck: votes for a confirmed block are not counted.
ReceiveAck(n, m) ==
    /\ m \in msgs /\ m.type = "ack" /\ m.block \notin node[n].ledger
    /\ Become(n, vote(node[n], m.rep, m.block))
    /\ UNCHANGED <<generated, bounds>>

\* The block that waited for h.  An h that is not confirmed is put back.
DequeueUnchecked(n, h) ==
    LET s == [node[n] EXCEPT !.blocksAcked = @ \ {h}]
        b == s.unchecked[h]
        t == IF b = NoBlock THEN s ELSE processResult(n, s, b, "publish")
    IN  /\ h \in node[n].blocksAcked /\ h \in node[n].ledger
        /\ Become(n, [t EXCEPT !.unchecked[h] = NoBlock])
        /\ UNCHANGED <<generated, bounds>>

-----------------------------------------------------------------------------
(***************************************************************************)
(* checkVotes, in its own goroutine: an election without a quorum is given *)
(* up after waitingVoteMaxTime, in steps the processor can come between.   *)
(***************************************************************************)
GiveUp(n, k) ==
    LET el == node[n].roots[k]
    IN  /\ node[n].timer = Idle /\ giveUps < MaxGiveUp
        /\ el # NoElection /\ el.valid
        /\ Become(n, [node[n] EXCEPT
                        !.roots[k].valid = FALSE,
                        !.timer = [pc |-> "delete", key |-> k, blocks |-> {},
                                   winner |-> el.winner]])
        /\ giveUps' = giveUps + 1
        /\ UNCHANGED <<generated, restarts>>

DeleteRoot(n) ==
    LET k == node[n].timer.key
        blocks == node[n].roots[k].blocks
    IN  /\ node[n].timer.pc = "delete"
        /\ Become(n, [node[n] EXCEPT !.roots[k] = NoElection,
                                     !.hash2el = @ \ blocks,
                                     !.timer.pc = "clean", !.timer.blocks = blocks])
        /\ UNCHANGED <<generated, bounds>>

\* RollbackUnchecked: the gap blocks that wait for w, and for them, and so on.
WaitFor(s, w) ==
    {h \in Block : /\ w \in Chain[h]
                   /\ \A c \in Chain[h] \ Chain[w] : s.unchecked[prev[c]] = c}

\* Mutant: Rollback instead of RollbackUnchecked.
CleanAndRollback(n) ==
    LET s == node[n]
    IN  /\ s.timer.pc = "clean"
        /\ Become(n, [Rollback(s, s.timer.winner) EXCEPT
                        !.hash2el = @ \ s.timer.blocks, !.timer = Idle])
        /\ UNCHANGED <<generated, bounds>>

CleanBlockInfo(n) ==
    LET s == node[n]
    IN  /\ s.timer.pc = "clean"
        /\ Become(n, [s EXCEPT
                        !.hash2el = @ \ s.timer.blocks,
                        !.unchecked = [h \in Block |->
                          IF h \in WaitFor(s, s.timer.winner) THEN NoBlock ELSE @[h]],
                        !.timer = Idle])
        /\ UNCHANGED <<generated, bounds>>

\* PoV packs the confirmed blocks in the order of the chain.
Pack(n, b) ==
    /\ Packing
    /\ b \in node[n].ledger \ node[n].packed
    /\ prev[b] = Root \/ prev[b] \in node[n].packed
    /\ Become(n, [node[n] EXCEPT !.packed = @ \cup {b}])
    /\ UNCHANGED <<generated, bounds>>

\* The ledger and the gap blocks are stored; elections and queues are not.
Restart(n) ==
    /\ restarts < MaxRestart
    /\ Become(n, [node[n] EXCEPT !.roots = [k \in VoteKey |-> NoElection],
                                 !.hash2el = {}, !.blocksAcked = {}, !.timer = Idle])
    /\ restarts' = restarts + 1
    /\ UNCHANGED <<generated, giveUps>>

Next ==
    \/ \E b \in Block : Generate(b)
    \/ \E n \in Node : \E m \in msgs : ReceiveBlock(n, m) \/ ReceiveAck(n, m)
    \/ \E n \in Node : \E b \in Block : DequeueUnchecked(n, b) \/ Pack(n, b)
    \/ \E n \in Node : \E k \in VoteKey : GiveUp(n, k)
    \/ \E n \in Node : DeleteRoot(n) \/ CleanBlockInfo(n) \/ Restart(n)

Spec == Init /\ [][Next]_vars

-----------------------------------------------------------------------------
(***************************************************************************)
(* Properties.                                                             *)
(***************************************************************************)
Acked(b) == {r \in Rep : Ack(r, b) \in msgs}

\* No node writes a block of which less than half of the supply said that it is
\* the one: votes counted from messages that come twice, late or in any order
\* never add up to more than was voted.
ConfirmedByQuorum ==
    \A n \in Node : \A b \in node[n].ledger : \E Q \in Quorum : Q \subseteq Acked(b)

\* As long as no election is given up and no node restarts, no two nodes confirm
\* rival blocks.
Agreement ==
    giveUps = 0 /\ restarts = 0 /\ (\A r \in Rep : Home[r] \in Node) =>
      \A m, n \in Node : \A b \in node[m].ledger : \A c \in node[n].ledger :
        ~Rivals(b, c)

\* The confirmed blocks of a node are one chain from Root, although BlockProcess
\* does not check the winner of an election again and a block below it may have
\* been rolled back since the election began.
LedgerIsChain ==
    \A n \in Node : \A b \in node[n].ledger :
      /\ HasBlock(node[n], prev[b])
      /\ \A c \in node[n].ledger : ~Rivals(b, c)

\* A gap block does not stay behind: while its previous block is confirmed, the
\* processor has been told to look.  After a restart nobody has told it.
GapBlocksAreWoken ==
    restarts = 0 =>
      \A n \in Node : \A h \in node[n].ledger :
        node[n].unchecked[h] # NoBlock => h \in node[n].blocksAcked

\* A node takes a confirmed block back only when a quorum has voted for a rival
\* of it, or of a block that it stands on.
RollbackNeedsQuorum ==
    [][\A n \in Node : \A b \in node[n].ledger \ node'[n].ledger :
         \E c \in Block : /\ \E d \in Chain[b] : Rivals(c, d)
                          /\ \E Q \in Quorum : Q \subseteq Acked(c)']_vars

\* What processFork says ("Block has been packed by pov, can not be rolled back").
PackedBlocksStay == \A n \in Node : node[n].packed \subseteq node[n].ledger
=============================================================================
