----------------------------- MODULE DposProofs -----------------------------
(***************************************************************************)
(* For any number of nodes, blocks and representatives, any loss,          *)
(* repetition and order of the messages: what a node confirms has a        *)
(* quorum, its ledger stays one chain, a confirmed block yields only to a  *)
(* quorum for a rival, gap blocks are woken, and, unless an election is    *)
(* given up or a node restarts, nodes agree.                               *)
(*                                                                         *)
(* The operators of Dpos map states of a node to states of a node; a lemma *)
(* for each says what it keeps up, and the actions follow.  This is done   *)
(* three times: for what backs a vote and a confirmed block, for the       *)
(* chain of confirmed blocks, and for what a node remembers of its votes.  *)
(***************************************************************************)
EXTENDS Dpos, TLAPS

(***************************************************************************)
(* Every vote an election has counted was sent, and a quorum sent its vote *)
(* for every block of the ledger.                                          *)
(***************************************************************************)
\* The votes counted in s, and the blocks confirmed in s, are backed by the
\* messages M.
VotesBacked(s, M) ==
    \A k \in VoteKey : \A r \in Rep :
      s.roots[k].repVotes[r] # NoBlock => Ack(r, s.roots[k].repVotes[r]) \in M

QuorumIn(b, M) == \E Q \in Quorum : \A r \in Q : Ack(r, b) \in M

Backed(s, M) ==
    /\ VotesBacked(s, M)
    /\ \A b \in s.ledger : QuorumIn(b, M)

\* A node goes from s to t by its own doing: what t has counted is backed by what
\* backed s together with what the node has sent since.
Own(s, t) ==
    /\ t \in NodeState
    /\ s.sent \subseteq t.sent
    /\ \A M : s.sent \subseteq M /\ Backed(s, M) => Backed(t, M \cup t.sent)

-----------------------------------------------------------------------------
\* More messages back as much.
LEMMA BackedMonotone ==
    ASSUME NEW s \in NodeState, NEW M, NEW N, M \subseteq N, Backed(s, M)
    PROVE  Backed(s, N)
  BY Zenon DEF Backed, VotesBacked, QuorumIn

\* Going on from a state the node went to by itself.
LEMMA OwnTransitive ==
    ASSUME NEW s \in NodeState, NEW t \in NodeState, NEW u,
           Own(s, t), Own(t, u)
    PROVE  Own(s, u)
<1>1. u \in NodeState /\ s.sent \subseteq u.sent
  BY Zenon DEF Own
<1>2. ASSUME NEW M, s.sent \subseteq M, Backed(s, M)
      PROVE  Backed(u, M \cup u.sent)
  <2>1. Backed(t, M \cup t.sent)
    BY <1>2, Zenon DEF Own
  <2>2. Backed(u, (M \cup t.sent) \cup u.sent)
    BY <2>1, Zenon DEF Own
  <2>3. (M \cup t.sent) \cup u.sent = M \cup u.sent
    BY Zenon DEF Own
  <2> QED
    BY <2>2, <2>3, Zenon
<1> QED
  BY <1>1, <1>2, Zenon DEF Own

\* Standing still is a node's own doing.
LEMMA OwnReflexive ==
    ASSUME NEW s \in NodeState
    PROVE  Own(s, s)
  BY BackedMonotone, Zenon DEF Own

\* A change that adds no vote and no confirmed block keeps what is counted backed.
LEMMA OwnQuiet ==
    ASSUME NEW s \in NodeState, NEW t \in NodeState,
           s.sent \subseteq t.sent,
           t.ledger \subseteq s.ledger,
           \A k \in VoteKey : \A r \in Rep :
             t.roots[k].repVotes[r] \in {NoBlock, s.roots[k].repVotes[r]}
    PROVE  /\ Own(s, t)
           /\ \A M : Backed(s, M) => Backed(t, M)
  BY DEF Own, Backed, VotesBacked, QuorumIn

-----------------------------------------------------------------------------
\* rollBack only takes blocks away.
LEMMA RollBackQuiet ==
    ASSUME NEW s \in NodeState, NEW L
    PROVE  /\ rollBack(s, L) \in NodeState
           /\ rollBack(s, L).ledger \subseteq s.ledger
           /\ rollBack(s, L).roots = s.roots
           /\ rollBack(s, L).hash2el = s.hash2el
           /\ rollBack(s, L).blocksAcked = s.blocksAcked
           /\ rollBack(s, L).sent = s.sent
<1> DEFINE gone == {c \in s.ledger : \E b \in L : /\ b \in Chain[c]
                                                  /\ Rollback(s, b) # s}
<1>1. rollBack(s, L) = [s EXCEPT !.ledger = @ \ gone]
  BY Zenon DEF rollBack
<1> HIDE DEF gone
<1> QED
  BY <1>1 DEF NodeState

\* BlockProcess adds at most the block.
LEMMA BlockProcessAdds ==
    ASSUME NEW s \in NodeState, NEW b \in Block
    PROVE  /\ BlockProcess(s, b) \in NodeState
           /\ BlockProcess(s, b).ledger \subseteq s.ledger \cup {b}
           /\ BlockProcess(s, b).roots = s.roots
           /\ BlockProcess(s, b).hash2el = s.hash2el
           /\ BlockProcess(s, b).blocksAcked = s.blocksAcked
           /\ BlockProcess(s, b).sent = s.sent
  BY Zenon DEF BlockProcess, NodeState

-----------------------------------------------------------------------------
\* A block with a quorum of counted votes is confirmed; nothing else is, and no
\* vote is added.
LEMMA ConfirmBacked ==
    ASSUME NEW s \in NodeState, NEW k \in VoteKey, NEW b \in Block,
           HasQuorum(s.roots[k], b)
    PROVE  /\ Confirm(s, k, b) \in NodeState
           /\ Confirm(s, k, b).sent = s.sent
           /\ \A M : Backed(s, M) => Backed(Confirm(s, k, b), M)
<1> DEFINE L == Losers(s.roots[k], b)
           t == rollBack(s, L)
           u == BlockProcess(t, b)
           H == u.hash2el \ s.roots[k].blocks
           A == u.blocksAcked \cup {h \in {b} : \E c \in Block : prev[c] = h}
           v == [u EXCEPT !.roots[k] = NoElection, !.hash2el = H, !.blocksAcked = A]
<1>1. Confirm(s, k, b) = v
  BY Zenon DEF Confirm
<1>2. /\ t \in NodeState
      /\ t.ledger \subseteq s.ledger
      /\ t.roots = s.roots /\ t.sent = s.sent
  BY RollBackQuiet, Zenon
<1>3. /\ u \in NodeState
      /\ u.ledger \subseteq s.ledger \cup {b}
      /\ u.roots = s.roots /\ u.sent = s.sent
  <2> HIDE DEF t
  <2> QED
    BY <1>2, BlockProcessAdds, Zenon
<1>4. NoElection \in Election /\ \A r \in Rep : NoElection.repVotes[r] = NoBlock
  BY Zenon DEF NoElection, Election
<1> HIDE DEF t, u, L
<1>5. H \in SUBSET Block /\ A \in SUBSET Block
  BY <1>3 DEF NodeState
<1> HIDE DEF H, A
<1>6. /\ v \in NodeState
      /\ v.ledger = u.ledger /\ v.sent = u.sent
      /\ v.roots = [u.roots EXCEPT ![k] = NoElection]
  BY <1>3, <1>4, <1>5, Zenon DEF NodeState
<1> HIDE DEF v
<1>7. ASSUME NEW M, Backed(s, M)
      PROVE  Backed(v, M)
  <2>1. VotesBacked(v, M)
    <3> SUFFICES ASSUME NEW j \in VoteKey, NEW r \in Rep,
                        v.roots[j].repVotes[r] # NoBlock
                 PROVE  Ack(r, v.roots[j].repVotes[r]) \in M
      BY Zenon DEF VotesBacked
    <3>1. u.roots \in [VoteKey -> Election]
      BY <1>3, Zenon DEF NodeState
    <3>2. j # k /\ v.roots[j] = s.roots[j]
      BY <1>3, <1>4, <1>6, <3>1, Zenon
    <3> QED
      BY <1>7, <3>2, Zenon DEF Backed, VotesBacked
  <2>2. QuorumIn(b, M)
    <3>1. VotesFor(s.roots[k], b) \in Quorum
      BY Zenon DEF HasQuorum
    <3>2. \A r \in VotesFor(s.roots[k], b) : Ack(r, b) \in M
      BY <1>7, BlockAssumption, Zenon DEF VotesFor, Backed, VotesBacked
    <3> QED
      BY <3>1, <3>2, Zenon DEF QuorumIn
  <2>3. \A c \in v.ledger : QuorumIn(c, M)
    BY <1>3, <1>6, <1>7, <2>2, Zenon DEF Backed
  <2> QED
    BY <2>1, <2>3, Zenon DEF Backed
<1> QED
  BY <1>1, <1>3, <1>6, <1>7, Zenon

\* A vote that was sent is counted.
LEMMA VoteBacked ==
    ASSUME NEW s \in NodeState, NEW r \in Rep, NEW b \in Block
    PROVE  /\ vote(s, r, b) \in NodeState
           /\ vote(s, r, b).sent = s.sent
           /\ \A M : Ack(r, b) \in M /\ Backed(s, M) => Backed(vote(s, r, b), M)
<1> DEFINE k == getVoteKey(b)
           t == [s EXCEPT !.roots[k].repVotes[r] = b]
<1>1. k \in VoteKey
  BY BlockAssumption, Zenon DEF getVoteKey, VoteKey
<1>2. CASE ~(b \in s.hash2el /\ s.roots[k].valid /\ s.roots[k].repVotes[r] # b)
  BY <1>2, Zenon DEF vote
<1>3. CASE b \in s.hash2el /\ s.roots[k].valid /\ s.roots[k].repVotes[r] # b
  <2>1. vote(s, r, b) = haveQuorum(t, k)
    BY <1>3, Zenon DEF vote
  <2> DEFINE el == [s.roots[k] EXCEPT !.repVotes[r] = b]
  <2>2. s.roots \in [VoteKey -> Election]
    BY Zenon DEF NodeState
  <2>3. /\ el \in Election
        /\ el.repVotes = [s.roots[k].repVotes EXCEPT ![r] = b]
    BY <1>1, <2>2 DEF Election
  <2>4. t = [s EXCEPT !.roots[k] = el]
    BY <1>1, <2>2, Zenon DEF NodeState
  <2> HIDE DEF t, el, k
  <2>5. /\ t \in NodeState
        /\ t.ledger = s.ledger /\ t.sent = s.sent
        /\ t.roots = [s.roots EXCEPT ![k] = el]
    BY <1>1, <2>2, <2>3, <2>4, Zenon DEF NodeState
  <2>6. ASSUME NEW M, Ack(r, b) \in M, Backed(s, M)
        PROVE  Backed(t, M)
    <3>1. VotesBacked(t, M)
      <4> SUFFICES ASSUME NEW j \in VoteKey, NEW q \in Rep,
                          t.roots[j].repVotes[q] # NoBlock
                   PROVE  Ack(q, t.roots[j].repVotes[q]) \in M
        BY Zenon DEF VotesBacked
      <4>1. s.roots[k].repVotes \in [Rep -> Block \cup {NoBlock}]
        BY <1>1, <2>2, Zenon DEF Election
      <4>2. CASE j = k /\ q = r
        <5>1. t.roots[j].repVotes[q] = b
          BY <1>1, <2>2, <2>3, <2>5, <4>1, <4>2, Zenon
        <5> QED
          BY <2>6, <4>2, <5>1, Zenon
      <4>3. CASE ~(j = k /\ q = r)
        <5>1. t.roots[j].repVotes[q] = s.roots[j].repVotes[q]
          BY <1>1, <2>2, <2>3, <2>5, <4>1, <4>3
        <5> QED
          BY <2>6, <5>1, Zenon DEF Backed, VotesBacked
      <4> QED
        BY <4>2, <4>3, Zenon
    <3> QED
      BY <2>5, <2>6, <3>1, Zenon DEF Backed
  <2>7. /\ haveQuorum(t, k) \in NodeState
        /\ haveQuorum(t, k).sent = t.sent
        /\ \A M : Backed(t, M) => Backed(haveQuorum(t, k), M)
    <3>1. CASE \E c \in t.roots[k].blocks : HasQuorum(t.roots[k], c)
      <4> DEFINE c == CHOOSE c \in t.roots[k].blocks : HasQuorum(t.roots[k], c)
      <4>1. c \in t.roots[k].blocks /\ HasQuorum(t.roots[k], c)
        BY <3>1, Zenon
      <4>2. haveQuorum(t, k) = Confirm(t, k, c)
        BY <3>1, Zenon DEF haveQuorum
      <4>3. c \in Block
        BY <1>1, <2>5, <4>1, Zenon DEF NodeState, Election
      <4>4. t \in NodeState /\ k \in VoteKey
        BY <1>1, <2>5, Zenon
      <4> HIDE DEF c
      <4>5. /\ Confirm(t, k, c) \in NodeState
            /\ Confirm(t, k, c).sent = t.sent
            /\ \A M : Backed(t, M) => Backed(Confirm(t, k, c), M)
        BY <4>1, <4>3, <4>4, ConfirmBacked, Zenon
      <4> QED
        BY <4>2, <4>5, Zenon
    <3>2. CASE ~ \E c \in t.roots[k].blocks : HasQuorum(t.roots[k], c)
      BY <2>5, <3>2, Zenon DEF haveQuorum
    <3> QED
      BY <3>1, <3>2, Zenon
  <2> QED
    BY <2>1, <2>5, <2>6, <2>7, Zenon
<1> QED
  BY <1>2, <1>3, Zenon

-----------------------------------------------------------------------------
\* The vote of the node itself is sent in the same step.
LEMMA LocalRepVoteOwn ==
    ASSUME NEW n \in Node, NEW s \in NodeState, NEW b \in Block
    PROVE  Own(s, localRepVote(n, s, b))
<1> DEFINE mine == {r \in Rep : Home[r] = n}
<1>1. CASE mine = {}
  BY <1>1, OwnReflexive, Zenon DEF localRepVote
<1>2. CASE mine # {}
  <2> DEFINE r == CHOOSE r \in mine : TRUE
             t == vote(s, r, b)
             u == setVoteHash(t, b)
             v == [u EXCEPT !.sent = @ \cup {Ack(r, b)}]
  <2>1. localRepVote(n, s, b) = v
    BY <1>2, Zenon DEF localRepVote
  <2>2. r \in Rep
    BY <1>2, Zenon
  <2> HIDE DEF r
  <2>3. /\ t \in NodeState /\ t.sent = s.sent
        /\ \A M : Ack(r, b) \in M /\ Backed(s, M) => Backed(t, M)
    BY <2>2, VoteBacked, Zenon
  <2> HIDE DEF t
  <2>4. /\ u \in NodeState /\ u.sent = t.sent
        /\ \A M : Backed(t, M) => Backed(u, M)
    <3>1. CASE ~Voting(t, b)
      BY <2>3, <3>1, Zenon DEF setVoteHash
    <3>2. CASE Voting(t, b)
      <4> DEFINE k == getVoteKey(b)
                 el == [t.roots[k] EXCEPT !.voteHash = b]
      <4>1. k \in VoteKey
        BY BlockAssumption, Zenon DEF getVoteKey, VoteKey
      <4>2. t.roots \in [VoteKey -> Election]
        BY <2>3, Zenon DEF NodeState
      <4>3. el \in Election /\ el.repVotes = t.roots[k].repVotes
        BY <4>1, <4>2 DEF Election
      <4>4. u = [t EXCEPT !.roots[k] = el]
        BY <2>3, <3>2, <4>1, <4>2, Zenon DEF setVoteHash, NodeState
      <4> HIDE DEF u, el, k
      <4>5. /\ u \in NodeState
            /\ u.ledger = t.ledger /\ u.sent = t.sent
            /\ u.roots = [t.roots EXCEPT ![k] = el]
        BY <2>3, <4>1, <4>2, <4>3, <4>4, Zenon DEF NodeState
      <4>6. \A j \in VoteKey : \A q \in Rep :
              u.roots[j].repVotes[q] \in {NoBlock, t.roots[j].repVotes[q]}
        BY <4>1, <4>2, <4>3, <4>5, Zenon
      <4> QED
        BY <2>3, <4>5, <4>6, OwnQuiet, Zenon
    <3> QED
      BY <3>1, <3>2, Zenon
  <2> HIDE DEF u
  <2>5. Ack(r, b) \in Message
    BY <2>2, Zenon DEF Ack, Message
  <2>6. /\ v \in NodeState
        /\ v.ledger = u.ledger /\ v.roots = u.roots
        /\ v.sent = s.sent \cup {Ack(r, b)}
    BY <2>3, <2>4, <2>5, Zenon DEF NodeState
  <2> HIDE DEF v
  <2>7. ASSUME NEW M, s.sent \subseteq M, Backed(s, M)
        PROVE  Backed(v, M \cup v.sent)
    <3> DEFINE N == M \cup v.sent
    <3>1. Ack(r, b) \in N /\ M \subseteq N
      BY <2>6, Zenon
    <3> HIDE DEF N
    <3>2. Backed(s, N)
      BY <2>7, <3>1, BackedMonotone, Zenon
    <3>3. Backed(u, N)
      BY <2>3, <2>4, <3>1, <3>2, Zenon
    <3>4. Backed(v, N)
      BY <2>6, <3>3, Zenon DEF Backed, VotesBacked
    <3> QED
      BY <3>4, Zenon DEF N
  <2> QED
    BY <2>1, <2>6, <2>7, Zenon DEF Own
<1> QED
  BY <1>1, <1>2, Zenon

\* A new election has counted no vote.
LEMMA AddToRootsOwn ==
    ASSUME NEW s \in NodeState, NEW b \in Block
    PROVE  Own(s, addToRoots(s, b))
<1> DEFINE k == getVoteKey(b)
           t == [s EXCEPT !.roots[k] = newElection(b), !.hash2el = @ \cup {b}]
<1>1. CASE Voting(s, b)
  BY <1>1, OwnReflexive, Zenon DEF addToRoots
<1>2. CASE ~Voting(s, b)
  <2>1. addToRoots(s, b) = t
    BY <1>2, Zenon DEF addToRoots
  <2>2. k \in VoteKey
    BY BlockAssumption, Zenon DEF getVoteKey, VoteKey
  <2>3. /\ newElection(b) \in Election
        /\ \A r \in Rep : newElection(b).repVotes[r] = NoBlock
    BY BlockAssumption, Zenon DEF newElection, Election
  <2> HIDE DEF k
  <2>4. /\ t \in NodeState
        /\ t.ledger = s.ledger /\ t.sent = s.sent
        /\ t.roots = [s.roots EXCEPT ![k] = newElection(b)]
    BY <2>2, <2>3, Zenon DEF NodeState
  <2> HIDE DEF t
  <2>5. s.roots \in [VoteKey -> Election]
    BY Zenon DEF NodeState
  <2>6. \A j \in VoteKey : \A q \in Rep :
          t.roots[j].repVotes[q] \in {NoBlock, s.roots[j].repVotes[q]}
    BY <2>2, <2>3, <2>4, <2>5, Zenon
  <2> QED
    BY <2>1, <2>4, <2>6, OwnQuiet, Zenon
<1> QED
  BY <1>1, <1>2, Zenon

\* A rival joins without votes.
LEMMA JoinOwn ==
    ASSUME NEW s \in NodeState, NEW k \in VoteKey, NEW b \in Block
    PROVE  /\ Own(s, Join(s, k, b))
           /\ Join(s, k, b).sent = s.sent
<1> DEFINE el == [s.roots[k] EXCEPT !.blocks = @ \cup {b}]
           t == Join(s, k, b)
<1>1. s.roots \in [VoteKey -> Election]
  BY Zenon DEF NodeState
<1>2. el \in Election /\ el.repVotes = s.roots[k].repVotes
  BY <1>1 DEF Election
<1>3. t = [s EXCEPT !.roots[k] = el, !.hash2el = @ \cup {b}]
  BY <1>1, Zenon DEF Join, NodeState
<1> HIDE DEF el, t
<1>4. /\ t \in NodeState
      /\ t.ledger = s.ledger /\ t.sent = s.sent
      /\ t.roots = [s.roots EXCEPT ![k] = el]
  BY <1>1, <1>2, <1>3, Zenon DEF NodeState
<1>5. \A j \in VoteKey : \A q \in Rep :
        t.roots[j].repVotes[q] \in {NoBlock, s.roots[j].repVotes[q]}
  BY <1>1, <1>2, <1>4, Zenon
<1>6. Own(s, t)
  BY <1>4, <1>5, OwnQuiet, Zenon
<1> QED
  BY <1>4, <1>6, Zenon DEF t

-----------------------------------------------------------------------------
\* Sending a message is a node's own doing.
LEMMA SendOwn ==
    ASSUME NEW s \in NodeState, NEW m \in Message
    PROVE  Own(s, [s EXCEPT !.sent = @ \cup {m}])
<1> DEFINE t == [s EXCEPT !.sent = @ \cup {m}]
<1>1. /\ t \in NodeState
      /\ t.ledger = s.ledger /\ t.roots = s.roots
      /\ t.sent = s.sent \cup {m}
  BY Zenon DEF NodeState
<1> HIDE DEF t
<1>2. Own(s, t)
  BY <1>1, OwnQuiet, Zenon
<1> QED
  BY <1>2, Zenon DEF t

\* The vote on a confirmed block and a block that forks from it.
LEMMA ProcessForkOwn ==
    ASSUME NEW n \in Node, NEW s \in NodeState, NEW b \in Block,
           Children(s, getVoteKey(b)) # {}
    PROVE  Own(s, processFork(n, s, b))
<1> DEFINE k == getVoteKey(b)
           c == CHOOSE c \in Children(s, k) : TRUE
           t == addToRoots(s, c)
           u == Join(t, k, b)
           m == [type |-> "confirmReq", block |-> c]
           v == [u EXCEPT !.sent = @ \cup {m}]
<1>1. k \in VoteKey
  BY BlockAssumption, Zenon DEF getVoteKey, VoteKey
<1>2. c \in Block
  <2>1. c \in Children(s, k)
    BY Zenon
  <2> QED
    BY <2>1, Zenon DEF Children, NodeState
<1>3. processFork(n, s, b) \in {s, Join(s, k, b), localRepVote(n, v, c)}
  BY Zenon DEF processFork
<1> HIDE DEF k, c
<1>4. Own(s, s) /\ Own(s, Join(s, k, b))
  BY <1>1, OwnReflexive, JoinOwn, Zenon
<1>5. Own(s, t) /\ t \in NodeState
  <2>1. Own(s, t)
    BY <1>2, AddToRootsOwn, Zenon
  <2> QED
    BY <2>1, Zenon DEF Own
<1> HIDE DEF t
<1>6. Own(t, u) /\ u \in NodeState
  <2>1. Own(t, u)
    BY <1>1, <1>5, JoinOwn, Zenon
  <2> QED
    BY <2>1, Zenon DEF Own
<1> HIDE DEF u
<1>7. m \in Message
  BY <1>2, Zenon DEF Message
<1> HIDE DEF m
<1>8. Own(u, v) /\ v \in NodeState
  <2>1. Own(u, v)
    BY <1>6, <1>7, SendOwn, Zenon
  <2> QED
    BY <2>1, Zenon DEF Own
<1> HIDE DEF v
<1>9. Own(v, localRepVote(n, v, c))
  BY <1>2, <1>8, LocalRepVoteOwn, Zenon
<1>10. Own(s, u)
  BY <1>5, <1>6, OwnTransitive, Zenon
<1>11. Own(s, v)
  BY <1>6, <1>8, <1>10, OwnTransitive, Zenon
<1>12. Own(s, localRepVote(n, v, c))
  BY <1>8, <1>9, <1>11, OwnTransitive, Zenon
<1> QED
  BY <1>3, <1>4, <1>12, Zenon

\* A block that waits is neither voted on nor confirmed.
LEMMA EnqueueOwn ==
    ASSUME NEW s \in NodeState, NEW b \in Block
    PROVE  Own(s, enqueueUnchecked(s, b))
<1> DEFINE t == [s EXCEPT !.unchecked[prev[b]] = b]
<1>1. /\ t \in NodeState
      /\ t.ledger = s.ledger /\ t.roots = s.roots /\ t.sent = s.sent
  BY Zenon DEF NodeState
<1>2. enqueueUnchecked(s, b) \in {s, t}
  BY Zenon DEF enqueueUnchecked
<1> HIDE DEF t
<1>3. Own(s, t)
  BY <1>1, OwnQuiet, Zenon
<1> QED
  BY <1>2, <1>3, OwnReflexive, Zenon

\* What the processor makes of a block.
LEMMA ProcessResultOwn ==
    ASSUME NEW n \in Node, NEW s \in NodeState, NEW b \in Block, NEW type
    PROVE  Own(s, processResult(n, s, b, type))
<1> DEFINE r == BlockCheck(s, b)
           t == addToRoots(s, b)
           p == processResult(n, s, b, type)
<1>1. CASE r = "Progress"
  <2>1. p \in {t, localRepVote(n, t, b)}
    BY <1>1, Zenon DEF processResult
  <2>2. Own(s, t) /\ t \in NodeState
    <3>1. Own(s, t)
      BY AddToRootsOwn, Zenon
    <3> QED
      BY <3>1, Zenon DEF Own
  <2> HIDE DEF t, p
  <2>3. Own(t, localRepVote(n, t, b))
    BY <2>2, LocalRepVoteOwn, Zenon
  <2>4. Own(s, localRepVote(n, t, b))
    BY <2>2, <2>3, OwnTransitive, Zenon
  <2> QED
    BY <2>1, <2>2, <2>4, Zenon DEF p
<1>2. CASE r = "Fork"
  <2>1. Children(s, getVoteKey(b)) # {}
    BY <1>2, Zenon DEF BlockCheck, getVoteKey
  <2>2. p \in {s, processFork(n, s, b)}
    BY <1>2, Zenon DEF processResult
  <2> QED
    BY <2>1, <2>2, ProcessForkOwn, OwnReflexive, Zenon
<1>3. CASE r = "GapPrevious"
  <2>1. p \in {s, enqueueUnchecked(s, b)}
    BY <1>3, Zenon DEF processResult
  <2> QED
    BY <2>1, EnqueueOwn, OwnReflexive, Zenon
<1>4. CASE r \notin {"Progress", "Fork", "GapPrevious"}
  <2>1. p = s
    BY <1>4, Zenon DEF processResult
  <2> QED
    BY <2>1, OwnReflexive, Zenon
<1> QED
  BY <1>1, <1>2, <1>3, <1>4, Zenon

\* The same with the answer to a node that asks for a vote.
LEMMA ProcessMsgDoOwn ==
    ASSUME NEW n \in Node, NEW s \in NodeState, NEW b \in Block, NEW type
    PROVE  Own(s, processMsgDo(n, s, b, type))
<1> DEFINE t == processResult(n, s, b, type)
<1>1. processMsgDo(n, s, b, type) \in {t, localRepVote(n, t, b)}
  BY Zenon DEF processMsgDo
<1>2. Own(s, t) /\ t \in NodeState
  <2>1. Own(s, t)
    BY ProcessResultOwn, Zenon
  <2> QED
    BY <2>1, Zenon DEF Own
<1> HIDE DEF t
<1>3. Own(t, localRepVote(n, t, b))
  BY <1>2, LocalRepVoteOwn, Zenon
<1>4. Own(s, localRepVote(n, t, b))
  BY <1>2, <1>3, OwnTransitive, Zenon
<1> QED
  BY <1>1, <1>2, <1>4, Zenon

-----------------------------------------------------------------------------
\* The inductive invariant.
AllBacked == \A n \in Node : Backed(node[n], msgs)
IndInv == TypeOK /\ AllBacked

\* One node changes, and its new state is backed by what there was and what it
\* has sent: the other nodes are backed as before.
LEMMA OneNodeStep ==
    ASSUME IndInv, NEW n \in Node, NEW t \in NodeState,
           Become(n, t), node[n].sent \subseteq t.sent, Backed(t, msgs \cup t.sent)
    PROVE  node' \in [Node -> NodeState] /\ AllBacked'
<1>1. node \in [Node -> NodeState]
  BY Zenon DEF IndInv, TypeOK
<1>2. node' = [node EXCEPT ![n] = t] /\ node' \in [Node -> NodeState]
  BY <1>1, Zenon DEF Become
<1>3. msgs \cup t.sent \subseteq msgs'
  <2>1. node'[n] = t
    BY <1>1, <1>2, Zenon
  <2>2. \A m \in Node : node[m].sent \subseteq node'[m].sent
    BY <1>1, <1>2, Zenon
  <2>3. UNION {node[m].sent : m \in Node} \subseteq UNION {node'[m].sent : m \in Node}
    BY <2>2, Zenon
  <2>4. t.sent \subseteq UNION {node'[m].sent : m \in Node}
    BY <2>1, Zenon
  <2> QED
    BY <2>3, <2>4, Zenon DEF msgs, FromElsewhere
<1>4. ASSUME NEW m \in Node
      PROVE  Backed(node'[m], msgs')
  <2>1. CASE m = n
    <3>1. node'[m] = t
      BY <1>1, <1>2, <2>1, Zenon
    <3> QED
      BY <1>3, <3>1, BackedMonotone, Zenon
  <2>2. CASE m # n
    <3>1. node'[m] = node[m] /\ node[m] \in NodeState
      BY <1>1, <1>2, <2>2, Zenon
    <3>2. Backed(node[m], msgs) /\ msgs \subseteq msgs'
      BY <1>3, Zenon DEF IndInv, AllBacked
    <3>3. Backed(node[m], msgs')
      BY <3>1, <3>2, BackedMonotone, Zenon
    <3> QED
      BY <3>1, <3>3, Zenon
  <2> QED
    BY <2>1, <2>2, Zenon
<1>5. AllBacked'
  BY <1>4, Zenon DEF AllBacked
<1> QED
  BY <1>2, <1>5, Zenon

\* The case that the node got there by its own doing.
LEMMA OwnStep ==
    ASSUME IndInv, NEW n \in Node, NEW t, Become(n, t), Own(node[n], t)
    PROVE  node' \in [Node -> NodeState] /\ AllBacked'
<1>1. node \in [Node -> NodeState]
  BY Zenon DEF IndInv, TypeOK
<1>2. node[n].sent \subseteq msgs
  BY Zenon DEF msgs
<1>3. Backed(node[n], msgs)
  BY Zenon DEF IndInv, AllBacked
<1>4. t \in NodeState /\ node[n].sent \subseteq t.sent /\ Backed(t, msgs \cup t.sent)
  BY <1>2, <1>3, Zenon DEF Own
<1> QED
  BY <1>4, OneNodeStep, Zenon

\* Messages are messages.
LEMMA MsgsTyped ==
    ASSUME TypeOK
    PROVE  msgs \subseteq Message
<1>1. FromElsewhere \subseteq Message
  BY Zenon DEF FromElsewhere, Message
<1>2. \A n \in Node : node[n].sent \subseteq Message
  BY Zenon DEF TypeOK, NodeState
<1> QED
  BY <1>1, <1>2, Zenon DEF msgs

\* Every step keeps the invariant.
LEMMA IndInvInductive ==
    ASSUME IndInv, [Next]_vars
    PROVE  IndInv'
<1> USE DEF IndInv
<1>n. node \in [Node -> NodeState]
  BY Zenon DEF TypeOK
<1>1. ASSUME NEW b \in Block, Generate(b)
      PROVE  IndInv'
  <2> DEFINE n == Author[b]
             m == [type |-> "publish", block |-> b]
             s == [node[n] EXCEPT !.sent = @ \cup {m}]
             t == processMsgDo(n, s, b, "generate")
  <2>1. n \in Node /\ Become(n, t) /\ generated' = generated \cup {b} /\ UNCHANGED bounds
    BY <1>1, BlockAssumption, Zenon DEF Generate
  <2>2. m \in Message
    BY Zenon DEF Message
  <2> HIDE DEF m, n
  <2>3. Own(node[n], s) /\ s \in NodeState
    <3>1. node[n] \in NodeState
      BY <1>n, <2>1, Zenon
    <3>2. Own(node[n], s)
      BY <2>2, <3>1, SendOwn, Zenon
    <3> QED
      BY <3>2, Zenon DEF Own
  <2> HIDE DEF s
  <2>4. Own(s, t)
    BY <2>1, <2>3, ProcessMsgDoOwn, Zenon
  <2> HIDE DEF t
  <2>5. Own(node[n], t)
    BY <1>n, <2>1, <2>3, <2>4, OwnTransitive, Zenon
  <2>6. node' \in [Node -> NodeState] /\ AllBacked'
    BY <2>1, <2>5, OwnStep, Zenon
  <2> QED
    BY <2>1, <2>6, Zenon DEF TypeOK, bounds
<1>2. ASSUME NEW n \in Node, NEW m \in msgs, ReceiveBlock(n, m)
      PROVE  IndInv'
  <2>1. m.block \in Block
    BY MsgsTyped, Zenon DEF Message
  <2> DEFINE t == processMsgDo(n, node[n], m.block, m.type)
  <2>2. Become(n, t) /\ UNCHANGED <<generated, bounds>>
    BY <1>2, Zenon DEF ReceiveBlock
  <2>3. Own(node[n], t)
    BY <1>n, <2>1, ProcessMsgDoOwn, Zenon
  <2> HIDE DEF t
  <2>4. node' \in [Node -> NodeState] /\ AllBacked'
    BY <2>2, <2>3, OwnStep, Zenon
  <2> QED
    BY <2>2, <2>4, Zenon DEF TypeOK, bounds
<1>3. ASSUME NEW n \in Node, NEW m \in msgs, ReceiveAck(n, m)
      PROVE  IndInv'
  <2>1. m \in Message /\ m.type = "ack"
    BY <1>3, MsgsTyped, Zenon DEF ReceiveAck
  <2>2. m.rep \in Rep /\ m.block \in Block /\ Ack(m.rep, m.block) = m
    BY <2>1, Zenon DEF Message, Ack
  <2> DEFINE t == vote(node[n], m.rep, m.block)
  <2>3. Become(n, t) /\ UNCHANGED <<generated, bounds>>
    BY <1>3, Zenon DEF ReceiveAck
  <2>4. /\ t \in NodeState /\ t.sent = node[n].sent
        /\ Ack(m.rep, m.block) \in msgs /\ Backed(node[n], msgs) => Backed(t, msgs)
    BY <1>n, <2>2, VoteBacked, Zenon
  <2> HIDE DEF t
  <2>5. Backed(t, msgs)
    BY <2>2, <2>4, Zenon DEF AllBacked
  <2>6. Backed(t, msgs \cup t.sent)
    BY <2>4, <2>5, BackedMonotone
  <2>7. node' \in [Node -> NodeState] /\ AllBacked'
    BY <2>3, <2>4, <2>6, OneNodeStep, Zenon
  <2> QED
    BY <2>3, <2>7, Zenon DEF TypeOK, bounds
<1>4. ASSUME NEW n \in Node, NEW h \in Block, DequeueUnchecked(n, h)
      PROVE  IndInv'
  <2> DEFINE s == [node[n] EXCEPT !.blocksAcked = @ \ {h}]
             b == s.unchecked[h]
             t == IF b = NoBlock THEN s ELSE processResult(n, s, b, "publish")
             u == [t EXCEPT !.unchecked[h] = NoBlock]
  <2>1. Become(n, u) /\ UNCHANGED <<generated, bounds>>
    BY <1>4, Zenon DEF DequeueUnchecked
  <2>2. node[n] \in NodeState
    BY <1>n, Zenon
  <2>3. /\ s \in NodeState /\ s.ledger = node[n].ledger
        /\ s.roots = node[n].roots /\ s.sent = node[n].sent
    BY <2>2, Zenon DEF NodeState
  <2> HIDE DEF s
  <2>4. Own(node[n], s)
    BY <2>2, <2>3, OwnQuiet, Zenon
  <2>5. b \in Block \cup {NoBlock}
    BY <2>3, Zenon DEF NodeState
  <2> HIDE DEF b
  <2>6. Own(s, t) /\ t \in NodeState
    <3>1. Own(s, t)
      BY <2>3, <2>5, ProcessResultOwn, OwnReflexive, Zenon
    <3> QED
      BY <3>1, Zenon DEF Own
  <2> HIDE DEF t
  <2>7. /\ u \in NodeState /\ u.ledger = t.ledger
        /\ u.roots = t.roots /\ u.sent = t.sent
    BY <2>6, Zenon DEF NodeState
  <2> HIDE DEF u
  <2>8. Own(t, u)
    BY <2>6, <2>7, OwnQuiet, Zenon
  <2>9. Own(node[n], t)
    BY <2>2, <2>3, <2>4, <2>6, OwnTransitive, Zenon
  <2>10. Own(node[n], u)
    BY <2>2, <2>6, <2>8, <2>9, OwnTransitive, Zenon
  <2>11. node' \in [Node -> NodeState] /\ AllBacked'
    BY <2>1, <2>10, OwnStep, Zenon
  <2> QED
    BY <2>1, <2>11, Zenon DEF TypeOK, bounds
<1>5. ASSUME NEW n \in Node, NEW b \in Block, Pack(n, b)
      PROVE  IndInv'
  <2> DEFINE t == [node[n] EXCEPT !.packed = @ \cup {b}]
  <2>1. Become(n, t) /\ UNCHANGED <<generated, bounds>>
    BY <1>5, Zenon DEF Pack
  <2>2. /\ t \in NodeState /\ t.ledger = node[n].ledger
        /\ t.roots = node[n].roots /\ t.sent = node[n].sent
    BY <1>n DEF NodeState
  <2> HIDE DEF t
  <2>3. Own(node[n], t)
    BY <1>n, <2>2, OwnQuiet, Zenon
  <2>4. node' \in [Node -> NodeState] /\ AllBacked'
    BY <2>1, <2>3, OwnStep, Zenon
  <2> QED
    BY <2>1, <2>4, Zenon DEF TypeOK, bounds
<1>6. ASSUME NEW n \in Node, NEW k \in VoteKey, GiveUp(n, k)
      PROVE  IndInv'
  <2> DEFINE s == node[n]
             el == [s.roots[k] EXCEPT !.valid = FALSE]
             tm == [pc |-> "delete", key |-> k, blocks |-> {},
                    winner |-> s.roots[k].winner]
             t == [s EXCEPT !.roots[k] = el, !.timer = tm]
  <2>1. s \in NodeState /\ s.roots \in [VoteKey -> Election]
    BY <1>n, Zenon DEF NodeState
  <2>2. Become(n, t)
    BY <1>6, <2>1, Zenon DEF GiveUp, NodeState
  <2>3. giveUps' = giveUps + 1 /\ giveUps < MaxGiveUp /\ UNCHANGED <<generated, restarts>>
    BY <1>6, Zenon DEF GiveUp
  <2>4. el \in Election /\ el.repVotes = s.roots[k].repVotes
    <3>1. \A e \in Election : LET f == [e EXCEPT !.valid = FALSE]
                               IN f \in Election /\ f.repVotes = e.repVotes
      BY Zenon DEF Election
    <3>2. s.roots[k] \in Election
      BY <2>1, Zenon
    <3> QED BY <3>1, <3>2, Zenon
  <2>5. s.roots[k].winner \in Block
    BY <1>6, <2>1, Zenon DEF GiveUp, Election
  <2> HIDE DEF s, el
  <2>6. /\ t \in NodeState /\ t.ledger = s.ledger /\ t.sent = s.sent
        /\ t.roots = [s.roots EXCEPT ![k] = el]
    BY <2>1, <2>4, <2>5, Zenon DEF NodeState
  <2> HIDE DEF t
  <2>7. \A j \in VoteKey : \A q \in Rep :
          t.roots[j].repVotes[q] \in {NoBlock, s.roots[j].repVotes[q]}
    BY <2>1, <2>4, <2>6, Zenon
  <2>8. Own(s, t)
    BY <2>1, <2>6, <2>7, OwnQuiet, Zenon
  <2>9. node' \in [Node -> NodeState] /\ AllBacked'
    BY <2>2, <2>8, OwnStep, Zenon DEF s
  <2>10. giveUps' \in 0 .. MaxGiveUp
    BY <2>3, BoundAssumption DEF TypeOK
  <2> QED
    BY <2>3, <2>9, <2>10, Zenon DEF TypeOK
<1>7. ASSUME NEW n \in Node, DeleteRoot(n)
      PROVE  IndInv'
  <2> DEFINE s == node[n]
             k == s.timer.key
             blocks == s.roots[k].blocks
             tm == [s.timer EXCEPT !.pc = "clean", !.blocks = blocks]
             t == [s EXCEPT !.roots[k] = NoElection, !.hash2el = @ \ blocks, !.timer = tm]
  <2>1. s \in NodeState /\ s.roots \in [VoteKey -> Election]
    BY <1>n, Zenon DEF NodeState
  <2>2. s.timer \in [pc : {"delete", "clean"}, key : VoteKey, blocks : SUBSET Block,
                     winner : Block]
    BY <1>7, <2>1 DEF DeleteRoot, NodeState, Idle
  <2>3. k \in VoteKey /\ blocks \in SUBSET Block
    BY <2>1, <2>2, Zenon DEF Election
  <2>4. Become(n, t) /\ UNCHANGED <<generated, bounds>>
    BY <1>7, <2>1, Zenon DEF DeleteRoot, NodeState
  <2>5. tm \in [pc : {"delete", "clean"}, key : VoteKey, blocks : SUBSET Block,
                winner : Block]
    BY <2>2, <2>3, Zenon
  <2>6. NoElection \in Election /\ \A r \in Rep : NoElection.repVotes[r] = NoBlock
    BY Zenon DEF NoElection, Election
  <2> HIDE DEF s, k, blocks, tm
  <2>7. /\ t \in NodeState /\ t.ledger = s.ledger /\ t.sent = s.sent
        /\ t.roots = [s.roots EXCEPT ![k] = NoElection]
    BY <2>1, <2>3, <2>5, <2>6, Zenon DEF NodeState
  <2> HIDE DEF t
  <2>8. \A j \in VoteKey : \A q \in Rep :
          t.roots[j].repVotes[q] \in {NoBlock, s.roots[j].repVotes[q]}
    BY <2>1, <2>3, <2>6, <2>7, Zenon
  <2>9. Own(s, t)
    BY <2>1, <2>7, <2>8, OwnQuiet, Zenon
  <2>10. node' \in [Node -> NodeState] /\ AllBacked'
    BY <2>4, <2>9, OwnStep, Zenon DEF s
  <2> QED
    BY <2>4, <2>10, Zenon DEF TypeOK, bounds
<1>8. ASSUME NEW n \in Node, CleanBlockInfo(n)
      PROVE  IndInv'
  <2> DEFINE s == node[n]
             W == [h \in Block |-> IF h \in WaitFor(s, s.timer.winner)
                                   THEN NoBlock ELSE s.unchecked[h]]
             t == [s EXCEPT !.hash2el = @ \ s.timer.blocks, !.unchecked = W,
                            !.timer = Idle]
  <2>1. s \in NodeState
    BY <1>n, Zenon
  <2>2. Become(n, t) /\ UNCHANGED <<generated, bounds>>
    BY <1>8, <2>1, Zenon DEF CleanBlockInfo, NodeState
  <2>3. W \in [Block -> Block \cup {NoBlock}]
    BY <2>1, Zenon DEF NodeState
  <2> HIDE DEF s, W
  <2>4. /\ t \in NodeState /\ t.ledger = s.ledger
        /\ t.roots = s.roots /\ t.sent = s.sent
    BY <2>1, <2>3, Zenon DEF NodeState
  <2> HIDE DEF t
  <2>5. Own(s, t)
    BY <2>1, <2>4, OwnQuiet, Zenon
  <2>6. node' \in [Node -> NodeState] /\ AllBacked'
    BY <2>2, <2>5, OwnStep, Zenon DEF s
  <2> QED
    BY <2>2, <2>6, Zenon DEF TypeOK, bounds
<1>9. ASSUME NEW n \in Node, Restart(n)
      PROVE  IndInv'
  <2> DEFINE s == node[n]
             none == [k \in VoteKey |-> NoElection]
             t == [s EXCEPT !.roots = none, !.hash2el = {}, !.blocksAcked = {},
                            !.timer = Idle]
  <2>1. s \in NodeState
    BY <1>n, Zenon
  <2>2. /\ Become(n, t) /\ restarts' = restarts + 1 /\ restarts < MaxRestart
        /\ UNCHANGED <<generated, giveUps>>
    BY <1>9, Zenon DEF Restart
  <2>3. /\ none \in [VoteKey -> Election]
        /\ \A k \in VoteKey : \A r \in Rep : none[k].repVotes[r] = NoBlock
    BY Zenon DEF NoElection, Election
  <2> HIDE DEF s, none
  <2>4. /\ t \in NodeState /\ t.ledger = s.ledger
        /\ t.roots = none /\ t.sent = s.sent
    BY <2>1, <2>3, Zenon DEF NodeState
  <2> HIDE DEF t
  <2>5. Own(s, t)
    BY <2>1, <2>3, <2>4, OwnQuiet, Zenon
  <2>6. node' \in [Node -> NodeState] /\ AllBacked'
    BY <2>2, <2>5, OwnStep, Zenon DEF s
  <2>7. restarts' \in 0 .. MaxRestart
    BY <2>2, BoundAssumption DEF TypeOK
  <2> QED
    BY <2>2, <2>6, <2>7, Zenon DEF TypeOK
<1>10. CASE UNCHANGED vars
  BY <1>10, Zenon DEF vars, bounds, TypeOK, AllBacked, msgs
<1> QED
  BY <1>1, <1>2, <1>3, <1>4, <1>5, <1>6, <1>7, <1>8, <1>9, <1>10, Zenon DEF Next

-----------------------------------------------------------------------------
\* The invariant holds at the start, where nothing is confirmed or counted.
LEMMA InitEstablishes == Init => IndInv
<1> SUFFICES ASSUME Init
             PROVE  IndInv
  BY Zenon
<1>1. NoElection \in Election /\ \A r \in Rep : NoElection.repVotes[r] = NoBlock
  BY Zenon DEF NoElection, Election
<1> DEFINE s == [ledger |-> {}, packed |-> {}, unchecked |-> [b \in Block |-> NoBlock],
                 blocksAcked |-> {}, roots |-> [k \in VoteKey |-> NoElection],
                 hash2el |-> {}, timer |-> Idle, sent |-> {}]
<1>s. s \in NodeState
  BY <1>1, Zenon DEF NodeState
<1>2. node = [n \in Node |-> s] /\ node \in [Node -> NodeState]
  BY <1>s, Zenon DEF Init
<1>i. generated = {} /\ giveUps = 0 /\ restarts = 0
  BY Zenon DEF Init
<1>3. TypeOK
  BY <1>2, <1>i, BoundAssumption DEF TypeOK
<1>r. s.ledger = {} /\ s.roots = [k \in VoteKey |-> NoElection]
  BY Zenon
<1> HIDE DEF s
<1>b. Backed(s, msgs)
  BY <1>1, <1>r, Zenon DEF Backed, VotesBacked
<1>4. AllBacked
  BY <1>2, <1>b, Zenon DEF AllBacked
<1> QED
  BY <1>3, <1>4, Zenon DEF IndInv

\* For any nodes, representatives, quorums, blocks and bounds: a node writes a
\* block only when representatives with a majority of the weight have each sent
\* a vote for it (haveQuorum in election.go).
THEOREM OnlyQuorumsConfirm == Spec => []ConfirmedByQuorum
<1>1. IndInv => ConfirmedByQuorum
  <2> SUFFICES ASSUME IndInv, NEW n \in Node, NEW b \in node[n].ledger
               PROVE  \E Q \in Quorum : Q \subseteq Acked(b)
    BY Zenon DEF ConfirmedByQuorum
  <2>1. PICK Q \in Quorum : \A r \in Q : Ack(r, b) \in msgs
    BY Zenon DEF IndInv, AllBacked, Backed, QuorumIn
  <2>2. Q \subseteq Rep
    BY QuorumAssumption, Zenon
  <2> QED
    BY <2>1, <2>2, Zenon DEF Acked
<1> QED
  BY <1>1, InitEstablishes, IndInvInductive, PTL DEF Spec

\* The state of every node keeps its type, the timer goroutine of checkVotes
\* included: an election it gives up has a winner to clean up after.
THEOREM TypeStaysOK == Spec => []TypeOK
<1>1. IndInv => TypeOK
  BY Zenon DEF IndInv
<1> QED
  BY <1>1, InitEstablishes, IndInvInductive, PTL DEF Spec

-----------------------------------------------------------------------------
(***************************************************************************)
(* The same operators and the ledger as a chain.  M stands for the         *)
(* messages that have been sent when the step is over.                     *)
(***************************************************************************)
\* A block stands on itself.
LEMMA ChainHasBlock ==
    ASSUME NEW b \in Block
    PROVE  b \in Chain[b]
  BY Zenon DEF Chain

\* What the previous block stands on, the block stands on.
LEMMA ChainOfPrev ==
    ASSUME NEW b \in Block, prev[b] # Root
    PROVE  prev[b] \in Block /\ Chain[prev[b]] \subseteq Chain[b]
<1>1. prev[b] \in Block
  BY BlockAssumption, Zenon
<1>2. ASSUME NEW c \in Chain[prev[b]], NEW S \in SUBSET Block,
             b \in S, \A d \in S : prev[d] \in S \cup {Root}
      PROVE  c \in S
  BY <1>1, <1>2, Zenon DEF Chain
<1>3. Chain[prev[b]] \subseteq Block
  BY <1>1, Zenon DEF Chain
<1> QED
  BY <1>1, <1>2, <1>3, Zenon DEF Chain

\* A set of blocks without gaps holds what its blocks stand on.
LEMMA ChainInClosed ==
    ASSUME NEW S \in SUBSET Block, \A d \in S : prev[d] \in S \cup {Root},
           NEW b \in S
    PROVE  Chain[b] \subseteq S
  BY Zenon DEF Chain

-----------------------------------------------------------------------------
\* The ledger of s is a chain from Root.
LedgerOK(s) ==
    \A b \in s.ledger : /\ HasBlock(s, prev[b])
                        /\ \A c \in s.ledger : ~Rivals(b, c)

\* The blocks of an election are rivals.
Contest(el, k) ==
    /\ \A b \in el.blocks : prev[b] = k
    /\ el.winner # NoBlock => prev[el.winner] = k
Keys(s) == \A k \in VoteKey : Contest(s.roots[k], k)

\* A gap block waits for its previous block.
Waits(s) == \A h \in Block : s.unchecked[h] # NoBlock => prev[s.unchecked[h]] = h

Sound(s) == LedgerOK(s) /\ Keys(s) /\ Waits(s)

\* Every block that t has lost had to yield to a quorum for a rival.
Yields(s, t, M) ==
    \A b \in s.ledger \ t.ledger :
      \E c \in Block : (\E d \in Chain[b] : Rivals(c, d)) /\ QuorumIn(c, M)

\* No gap block of t has been passed over since s.
Wakes(s, t) ==
    /\ s.blocksAcked \subseteq t.blocksAcked
    /\ \A h \in t.ledger : t.unchecked[h] # NoBlock =>
         \/ h \in t.blocksAcked
         \/ h \in s.ledger /\ s.unchecked[h] # NoBlock

\* A node goes from s to t and stays sound.
Move(s, t, M) ==
    /\ t \in NodeState /\ Sound(t) /\ Backed(t, M)
    /\ s.sent \subseteq t.sent
    /\ Yields(s, t, M) /\ Wakes(s, t)

\* Standing still is a move.
LEMMA MoveReflexive ==
    ASSUME NEW s \in NodeState, NEW M, Sound(s), Backed(s, M)
    PROVE  Move(s, s, M)
  BY Zenon DEF Move, Yields, Wakes

\* So are two moves.
LEMMA MoveTransitive ==
    ASSUME NEW s \in NodeState, NEW t \in NodeState, NEW u, NEW M,
           Move(s, t, M), Move(t, u, M)
    PROVE  Move(s, u, M)
<1>1. Yields(s, u, M)
  BY Zenon DEF Move, Yields
<1>2. Wakes(s, u)
  BY Zenon DEF Move, Wakes
<1> QED
  BY <1>1, <1>2, Zenon DEF Move

\* A step that leaves the ledger, the gap blocks and the queue alone.
LEMMA MoveQuiet ==
    ASSUME NEW s \in NodeState, NEW t \in NodeState, NEW M,
           Sound(s), Keys(t), Backed(t, M), s.sent \subseteq t.sent,
           t.ledger = s.ledger, t.unchecked = s.unchecked,
           t.blocksAcked = s.blocksAcked
    PROVE  Move(s, t, M)
  BY Zenon DEF Move, Sound, LedgerOK, HasBlock, Waits, Yields, Wakes

-----------------------------------------------------------------------------
\* rollBack takes a block away only together with what stands on it.
LEMMA RollBackChain ==
    ASSUME NEW s \in NodeState, NEW L, LedgerOK(s)
    PROVE  /\ LedgerOK(rollBack(s, L))
           /\ \A b \in s.ledger \ rollBack(s, L).ledger : \E l \in L : l \in Chain[b]
<1> DEFINE gone == {c \in s.ledger : \E b \in L : /\ b \in Chain[c]
                                                  /\ Rollback(s, b) # s}
           t == rollBack(s, L)
<1>1. t.ledger = s.ledger \ gone
  BY Zenon DEF rollBack, NodeState
<1>2. ASSUME NEW b \in t.ledger, prev[b] # Root
      PROVE  prev[b] \in t.ledger
  <2>1. b \in Block /\ prev[b] \in s.ledger /\ b \notin gone
    BY <1>1, <1>2, Zenon DEF LedgerOK, HasBlock, NodeState
  <2>2. Chain[prev[b]] \subseteq Chain[b]
    BY <1>2, <2>1, ChainOfPrev, Zenon
  <2>3. prev[b] \notin gone
    BY <1>1, <2>1, <2>2, Zenon
  <2> QED
    BY <1>1, <2>1, <2>3, Zenon
<1>3. LedgerOK(t)
  BY <1>1, <1>2, Zenon DEF LedgerOK, HasBlock
<1> QED
  BY <1>1, <1>3, Zenon

\* BlockProcess refuses a block without its previous block or with a rival.
LEMMA BlockProcessChain ==
    ASSUME NEW s \in NodeState, NEW b \in Block, LedgerOK(s)
    PROVE  /\ LedgerOK(BlockProcess(s, b))
           /\ s.ledger \subseteq BlockProcess(s, b).ledger
           /\ HasBlock(s, prev[b]) => Children(BlockProcess(s, b), prev[b]) # {}
<1> DEFINE t == BlockProcess(s, b)
<1>1. CASE HasBlock(s, prev[b]) /\ Children(s, prev[b]) = {}
  <2>1. t.ledger = s.ledger \cup {b}
    BY <1>1, Zenon DEF BlockProcess, NodeState
  <2> HIDE DEF t
  <2>2. LedgerOK(t)
    BY <1>1, <2>1, Zenon DEF LedgerOK, HasBlock, Children, Rivals
  <2> QED
    BY <2>1, <2>2, Zenon DEF t, Children
<1>2. CASE ~(HasBlock(s, prev[b]) /\ Children(s, prev[b]) = {})
  BY <1>2, Zenon DEF BlockProcess
<1> QED
  BY <1>1, <1>2, Zenon

\* What Confirm leaves: the ledger is a chain, and what it lost stood on a loser.
\* The election is gone, the block is announced.  When no confirmed block stands
\* on a rival, nothing is lost and the key of the election has its block.
LEMMA ConfirmShape ==
    ASSUME NEW s \in NodeState, NEW k \in VoteKey, NEW c \in s.roots[k].blocks,
           Sound(s)
    PROVE  LET t == Confirm(s, k, c)
           IN  /\ c \in Block /\ prev[c] = k
               /\ t \in NodeState
               /\ LedgerOK(t)
               /\ t.ledger \subseteq s.ledger \cup {c}
               /\ \A b \in s.ledger \ t.ledger : \E d \in Chain[b] : Rivals(c, d)
               /\ t.roots = [s.roots EXCEPT ![k] = NoElection]
               /\ t.unchecked = s.unchecked /\ t.timer = s.timer /\ t.sent = s.sent
               /\ s.blocksAcked \subseteq t.blocksAcked
               /\ (\E b \in Block : prev[b] = c) => c \in t.blocksAcked
               /\ (\A b \in s.ledger : \A d \in Chain[b] : ~Rivals(c, d)) =>
                    /\ s.ledger \subseteq t.ledger
                    /\ HasBlock(s, k) => Children(t, k) # {}
<1> DEFINE el == s.roots[k]
           L == Losers(el, c)
           r == rollBack(s, L)
           u == BlockProcess(r, c)
           H == u.hash2el \ el.blocks
           A == u.blocksAcked \cup {h \in {c} : \E b \in Block : prev[b] = h}
           t == [u EXCEPT !.roots[k] = NoElection, !.hash2el = H, !.blocksAcked = A]
<1>1. Confirm(s, k, c) = t
  BY Zenon DEF Confirm
<1>2. el \in Election
  BY Zenon DEF NodeState
<1>3. c \in Block /\ prev[c] = k
  BY <1>2, Zenon DEF Sound, Keys, Contest, Election
<1>4. \A l \in L : l \in Block => Rivals(c, l)
  <2>1. \A l \in L : l \in {el.winner} \cup el.blocks /\ l # c
    BY Zenon DEF Losers
  <2>2. \A l \in {el.winner} \cup el.blocks : l # NoBlock => prev[l] = k
    BY <1>2, BlockAssumption, Zenon DEF Sound, Keys, Contest, Election
  <2> HIDE DEF L, el
  <2> QED
    BY <1>3, <2>1, <2>2, BlockAssumption, Zenon DEF Rivals
<1> HIDE DEF L
<1>5. /\ r \in NodeState /\ r.roots = s.roots
      /\ r.blocksAcked = s.blocksAcked /\ r.sent = s.sent
      /\ r.unchecked = s.unchecked /\ r.timer = s.timer
      /\ r.ledger \subseteq s.ledger
      /\ LedgerOK(r)
      /\ \A b \in s.ledger \ r.ledger : \E l \in L : l \in Chain[b]
  <2>1. r.unchecked = s.unchecked /\ r.timer = s.timer
    BY Zenon DEF rollBack, NodeState
  <2>2. LedgerOK(s)
    BY Zenon DEF Sound
  <2> HIDE DEF r
  <2> QED
    BY <2>1, <2>2, RollBackQuiet, RollBackChain, Zenon DEF r
<1> HIDE DEF r
<1>6. /\ u \in NodeState /\ u.roots = r.roots
      /\ u.blocksAcked = r.blocksAcked /\ u.sent = r.sent
      /\ u.unchecked = r.unchecked /\ u.timer = r.timer
      /\ u.ledger \subseteq r.ledger \cup {c} /\ r.ledger \subseteq u.ledger
      /\ LedgerOK(u)
      /\ HasBlock(r, k) => Children(u, k) # {}
  <2>1. u.unchecked = r.unchecked /\ u.timer = r.timer
    BY <1>5, Zenon DEF BlockProcess, NodeState
  <2> HIDE DEF u
  <2> QED
    BY <1>3, <1>5, <2>1, BlockProcessAdds, BlockProcessChain DEF u
<1> HIDE DEF u
<1>7. H \in SUBSET Block /\ A \in SUBSET Block
  BY <1>3, <1>6 DEF NodeState
<1>8. /\ s.blocksAcked \subseteq A
      /\ (\E b \in Block : prev[b] = c) => c \in A
  BY <1>5, <1>6, Zenon
<1>9. NoElection \in Election
  BY Zenon DEF NoElection, Election
<1> HIDE DEF H, A
<1>10. /\ t \in NodeState
       /\ t.ledger = u.ledger /\ t.roots = [u.roots EXCEPT ![k] = NoElection]
       /\ t.blocksAcked = A /\ t.sent = u.sent
       /\ t.unchecked = u.unchecked /\ t.timer = u.timer
  BY <1>6, <1>7, <1>9, Zenon DEF NodeState
<1> HIDE DEF t
<1>11. LedgerOK(t)
  BY <1>6, <1>10, Zenon DEF LedgerOK, HasBlock
<1>12. ASSUME NEW b \in s.ledger \ r.ledger
       PROVE  \E d \in Chain[b] : Rivals(c, d)
  <2>1. PICK l \in L : l \in Chain[b]
    BY <1>5, Zenon
  <2>2. l \in Block
    BY <2>1, Zenon DEF NodeState, Chain
  <2> QED
    BY <1>4, <2>1, <2>2, Zenon
<1>13. ASSUME \A b \in s.ledger : \A d \in Chain[b] : ~Rivals(c, d)
       PROVE  /\ s.ledger \subseteq t.ledger
              /\ HasBlock(s, k) => Children(t, k) # {}
  <2>1. r.ledger = s.ledger
    BY <1>5, <1>12, <1>13, Zenon
  <2>2. HasBlock(s, k) => Children(u, k) # {}
    BY <1>6, <2>1, Zenon DEF HasBlock
  <2> QED
    BY <1>6, <1>10, <2>1, <2>2, Zenon DEF Children
<1>14. /\ t.ledger \subseteq s.ledger \cup {c}
       /\ \A b \in s.ledger \ t.ledger : \E d \in Chain[b] : Rivals(c, d)
  BY <1>5, <1>6, <1>10, <1>12, Zenon
<1>15. /\ t.roots = [s.roots EXCEPT ![k] = NoElection]
       /\ t.unchecked = s.unchecked /\ t.timer = s.timer /\ t.sent = s.sent
  BY <1>5, <1>6, <1>10, Zenon
<1> QED
  BY <1>1, <1>3, <1>8, <1>10, <1>11, <1>13, <1>14, <1>15, Zenon

\* A block that wins a counted quorum is confirmed soundly.
LEMMA ConfirmMove ==
    ASSUME NEW s \in NodeState, NEW M, Sound(s), Backed(s, M),
           NEW k \in VoteKey, NEW c \in s.roots[k].blocks, HasQuorum(s.roots[k], c)
    PROVE  Move(s, Confirm(s, k, c), M)
<1> DEFINE t == Confirm(s, k, c)
<1>1. /\ c \in Block /\ prev[c] = k
      /\ t \in NodeState
      /\ LedgerOK(t)
      /\ t.ledger \subseteq s.ledger \cup {c}
      /\ \A b \in s.ledger \ t.ledger : \E d \in Chain[b] : Rivals(c, d)
      /\ t.roots = [s.roots EXCEPT ![k] = NoElection]
      /\ t.unchecked = s.unchecked /\ t.sent = s.sent
      /\ s.blocksAcked \subseteq t.blocksAcked
      /\ (\E b \in Block : prev[b] = c) => c \in t.blocksAcked
  BY ConfirmShape
<1>2. Backed(t, M)
  BY <1>1, ConfirmBacked, Zenon
<1>3. QuorumIn(c, M)
  <2>1. VotesFor(s.roots[k], c) \in Quorum
    BY Zenon DEF HasQuorum
  <2>2. \A r \in VotesFor(s.roots[k], c) : Ack(r, c) \in M
    BY <1>1, BlockAssumption, Zenon DEF VotesFor, Backed, VotesBacked
  <2> QED
    BY <2>1, <2>2, Zenon DEF QuorumIn
<1> HIDE DEF t
<1>4. Keys(t)
  <2>1. s.roots \in [VoteKey -> Election]
    BY Zenon DEF NodeState
  <2>2. \A j \in VoteKey : t.roots[j] = IF j = k THEN NoElection ELSE s.roots[j]
    BY <1>1, <2>1, Zenon
  <2>3. Contest(NoElection, k)
    BY Zenon DEF Contest, NoElection
  <2> QED
    BY <2>2, <2>3, Zenon DEF Sound, Keys
<1>5. Waits(t)
  BY <1>1, Zenon DEF Sound, Waits
<1>6. Yields(s, t, M)
  BY <1>1, <1>3, Zenon DEF Yields
<1>7. Wakes(s, t)
  <2> SUFFICES ASSUME NEW h \in t.ledger, t.unchecked[h] # NoBlock
               PROVE  \/ h \in t.blocksAcked
                      \/ h \in s.ledger /\ s.unchecked[h] # NoBlock
    BY <1>1, Zenon DEF Wakes
  <2>1. h \in Block /\ t.unchecked[h] \in Block /\ prev[t.unchecked[h]] = h
    BY <1>1, <1>5 DEF NodeState, Waits
  <2> QED
    BY <1>1, <2>1, Zenon
<1>8. Move(s, t, M)
  BY <1>1, <1>2, <1>4, <1>5, <1>6, <1>7, Zenon DEF Move, Sound
<1> QED
  BY <1>8, Zenon DEF t

-----------------------------------------------------------------------------
\* The election of key k becomes el.
PutElection(s, k, el) == [s EXCEPT !.roots[k] = el]

\* Only the votes of an election differ.
SameContest(el, f) ==
    /\ f \in Election
    /\ f.blocks = el.blocks /\ f.winner = el.winner
    /\ f.voteHash = el.voteHash /\ f.valid = el.valid

\* PutElection changes nothing else.
LEMMA PutElectionFields ==
    ASSUME NEW s \in NodeState, NEW k \in VoteKey, NEW el \in Election
    PROVE  LET t == PutElection(s, k, el)
           IN  /\ t \in NodeState
               /\ t.roots = [s.roots EXCEPT ![k] = el]
               /\ t.roots[k] = el
               /\ \A j \in VoteKey : t.roots[j] = IF j = k THEN el ELSE s.roots[j]
               /\ t.ledger = s.ledger /\ t.unchecked = s.unchecked
               /\ t.blocksAcked = s.blocksAcked /\ t.timer = s.timer
               /\ t.sent = s.sent /\ t.packed = s.packed
<1> DEFINE t == PutElection(s, k, el)
<1>1. s.roots \in [VoteKey -> Election]
  BY Zenon DEF NodeState
<1>2. /\ t \in NodeState
      /\ t.roots = [s.roots EXCEPT ![k] = el]
      /\ t.ledger = s.ledger /\ t.unchecked = s.unchecked
      /\ t.blocksAcked = s.blocksAcked /\ t.timer = s.timer
      /\ t.sent = s.sent /\ t.packed = s.packed
  BY Zenon DEF PutElection, NodeState
<1> HIDE DEF t
<1> QED
  BY <1>1, <1>2, Zenon DEF t

\* vote counts the vote and, if that makes a quorum, confirms its block.
LEMMA VoteShape ==
    ASSUME NEW s \in NodeState, NEW r \in Rep, NEW b \in Block
    PROVE  \E el \in Election :
             /\ SameContest(s.roots[prev[b]], el)
             /\ el = s.roots[prev[b]] \/ s.roots[prev[b]].valid
             /\ \A q \in Rep : el.repVotes[q] # s.roots[prev[b]].repVotes[q] =>
                                 q = r /\ el.repVotes[q] = b
             /\ \/ vote(s, r, b) = PutElection(s, prev[b], el)
                \/ \E c \in el.blocks :
                     /\ HasQuorum(el, c)
                     /\ vote(s, r, b) = Confirm(PutElection(s, prev[b], el), prev[b], c)
<1> DEFINE k == prev[b]
           old == s.roots[k]
<1>1. k \in VoteKey /\ getVoteKey(b) = k
  BY BlockAssumption, Zenon DEF getVoteKey, VoteKey
<1>2. s.roots \in [VoteKey -> Election] /\ old \in Election
  BY <1>1, Zenon DEF NodeState
<1>3. CASE ~(b \in s.hash2el /\ old.valid /\ old.repVotes[r] # b)
  <2>1. vote(s, r, b) = s
    BY <1>1, <1>3, Zenon DEF vote
  <2>2. PutElection(s, k, old) = s
    BY <1>1, <1>2, Zenon DEF PutElection, NodeState
  <2> QED
    BY <1>2, <2>1, <2>2, Zenon DEF SameContest
<1>4. CASE b \in s.hash2el /\ old.valid /\ old.repVotes[r] # b
  <2> DEFINE el == [old EXCEPT !.repVotes[r] = b]
             t == PutElection(s, k, el)
  <2>1. /\ el \in Election /\ SameContest(old, el)
        /\ \A q \in Rep : el.repVotes[q] # old.repVotes[q] => q = r /\ el.repVotes[q] = b
    <3>1. old.repVotes \in [Rep -> Block \cup {NoBlock}]
      BY <1>2, Zenon DEF Election
    <3>2. el \in Election /\ el.repVotes = [old.repVotes EXCEPT ![r] = b]
      BY <1>2, Zenon DEF Election
    <3> QED
      BY <1>2, <3>1, <3>2, Zenon DEF SameContest, Election
  <2>2. [s EXCEPT !.roots[k].repVotes[r] = b] = t
    BY <1>1, <1>2, Zenon DEF PutElection, NodeState
  <2>3. vote(s, r, b) = haveQuorum(t, k)
    BY <1>1, <1>4, <2>2, Zenon DEF vote
  <2> HIDE DEF el
  <2>4. t.roots[k] = el
    BY <1>1, <1>2, Zenon DEF PutElection, NodeState
  <2> HIDE DEF k, old
  <2> HIDE DEF t
  <2>5. \/ haveQuorum(t, k) = t
        \/ \E c \in el.blocks : HasQuorum(el, c) /\ haveQuorum(t, k) = Confirm(t, k, c)
    BY <2>4, Zenon DEF haveQuorum
  <2> QED
    BY <1>4, <2>1, <2>3, <2>5, SMTT(30) DEF t, k, old
<1> QED
  BY <1>3, <1>4, Zenon

-----------------------------------------------------------------------------
\* One election changes, to another contest for the same key.
LEMMA KeysKept ==
    ASSUME NEW s \in NodeState, NEW k \in VoteKey, NEW el, Keys(s), Contest(el, k),
           NEW t, t.roots = [s.roots EXCEPT ![k] = el]
    PROVE  Keys(t)
<1>1. s.roots \in [VoteKey -> Election]
  BY Zenon DEF NodeState
<1>2. \A j \in VoteKey : t.roots[j] = IF j = k THEN el ELSE s.roots[j]
  BY <1>1, Zenon
<1> QED
  BY <1>2, Zenon DEF Keys

\* A vote that was sent is counted soundly.
LEMMA VoteMove ==
    ASSUME NEW s \in NodeState, NEW M, Sound(s), Backed(s, M),
           NEW r \in Rep, NEW b \in Block, Ack(r, b) \in M
    PROVE  Move(s, vote(s, r, b), M)
<1> DEFINE k == prev[b]
<1>1. PICK el \in Election :
        /\ SameContest(s.roots[k], el)
        /\ \A q \in Rep : el.repVotes[q] # s.roots[k].repVotes[q] =>
                            q = r /\ el.repVotes[q] = b
        /\ \/ vote(s, r, b) = PutElection(s, k, el)
           \/ \E c \in el.blocks :
                /\ HasQuorum(el, c)
                /\ vote(s, r, b) = Confirm(PutElection(s, k, el), k, c)
  BY VoteShape
<1>2. k \in VoteKey
  BY BlockAssumption, Zenon DEF VoteKey
<1> DEFINE u == PutElection(s, k, el)
<1> HIDE DEF k
<1>3. /\ u \in NodeState
      /\ u.roots = [s.roots EXCEPT ![k] = el]
      /\ u.roots[k] = el
      /\ \A j \in VoteKey : u.roots[j] = IF j = k THEN el ELSE s.roots[j]
      /\ u.ledger = s.ledger /\ u.unchecked = s.unchecked
      /\ u.blocksAcked = s.blocksAcked
      /\ u.sent = s.sent
  BY <1>2, PutElectionFields
<1> HIDE DEF u
<1>4. Keys(u)
  <2>1. Keys(s) /\ Contest(s.roots[k], k)
    BY <1>2, Zenon DEF Sound, Keys
  <2>2. Contest(el, k)
    BY <1>1, <2>1, Zenon DEF Contest, SameContest
  <2> QED
    BY <1>2, <1>3, <2>1, <2>2, KeysKept
<1>5. Backed(u, M)
  <2>1. VotesBacked(u, M)
    BY <1>1, <1>2, <1>3 DEF Backed, VotesBacked
  <2> QED
    BY <1>3, <2>1, Zenon DEF Backed
<1>6. Move(s, u, M)
  BY <1>3, <1>4, <1>5, MoveQuiet, Zenon
<1>7. CASE vote(s, r, b) = u
  BY <1>6, <1>7, Zenon
<1>8. ASSUME NEW c \in el.blocks, HasQuorum(el, c), vote(s, r, b) = Confirm(u, k, c)
      PROVE  Move(s, vote(s, r, b), M)
  <2>1. Sound(u)
    BY <1>6, Zenon DEF Move
  <2>2. Move(u, Confirm(u, k, c), M)
    BY <1>2, <1>3, <1>5, <1>8, <2>1, ConfirmMove, Zenon
  <2> QED
    BY <1>3, <1>6, <1>8, <2>2, MoveTransitive, Zenon
<1> QED
  BY <1>1, <1>7, <1>8, Zenon DEF u

\* Sending a message moves nothing else.
LEMMA SendMove ==
    ASSUME NEW s \in NodeState, NEW M, Sound(s), Backed(s, M), NEW m \in Message
    PROVE  Move(s, [s EXCEPT !.sent = @ \cup {m}], M)
<1> DEFINE t == [s EXCEPT !.sent = @ \cup {m}]
<1>1. /\ t \in NodeState
      /\ t.ledger = s.ledger /\ t.roots = s.roots /\ t.unchecked = s.unchecked
      /\ t.blocksAcked = s.blocksAcked /\ t.sent = s.sent \cup {m}
  BY Zenon DEF NodeState
<1> HIDE DEF t
<1>2. Keys(t)
  BY <1>1, Zenon DEF Sound, Keys
<1>3. Backed(t, M)
  BY <1>1, Zenon DEF Backed, VotesBacked
<1>4. Move(s, t, M)
  BY <1>1, <1>2, <1>3, MoveQuiet, Zenon
<1> QED
  BY <1>4, Zenon DEF t

\* localRepVote votes with the one representative of the node.
LEMMA LocalRepVoteShape ==
    ASSUME NEW n \in Node, NEW s \in NodeState, NEW b \in Block
    PROVE  \/ /\ localRepVote(n, s, b) = s
              /\ \A r \in Rep : Home[r] # n
           \/ \E r \in Rep :
                /\ Home[r] = n
                /\ localRepVote(n, s, b) =
                     [setVoteHash(vote(s, r, b), b) EXCEPT !.sent = @ \cup {Ack(r, b)}]
<1> DEFINE mine == {r \in Rep : Home[r] = n}
           r == CHOOSE r \in mine : TRUE
<1>1. CASE mine = {}
  BY <1>1, Zenon DEF localRepVote
<1>2. CASE mine # {}
  <2>1. r \in mine
    BY <1>2, Zenon
  <2>2. localRepVote(n, s, b) =
          [setVoteHash(vote(s, r, b), b) EXCEPT !.sent = @ \cup {Ack(r, b)}]
    BY <1>2, Zenon DEF localRepVote
  <2> HIDE DEF r
  <2> QED
    BY <2>1, <2>2, Zenon
<1> QED
  BY <1>1, <1>2, Zenon

\* setVoteHash notes the vote in the election, if there is one.
LEMMA SetVoteHashShape ==
    ASSUME NEW s \in NodeState, NEW b \in Block
    PROVE  \/ /\ setVoteHash(s, b) = s
              /\ s.roots[prev[b]] = NoElection
           \/ \E el \in Election :
                /\ setVoteHash(s, b) = PutElection(s, prev[b], el)
                /\ el = [s.roots[prev[b]] EXCEPT !.voteHash = b]
                /\ s.roots[prev[b]] # NoElection
<1> DEFINE k == prev[b]
           el == [s.roots[k] EXCEPT !.voteHash = b]
<1>1. k \in VoteKey /\ getVoteKey(b) = k
  BY BlockAssumption, Zenon DEF getVoteKey, VoteKey
<1>2. s.roots \in [VoteKey -> Election] /\ s.roots[k] \in Election
  BY <1>1, Zenon DEF NodeState
<1>3. el \in Election
  BY <1>2, Zenon DEF Election
<1>4. CASE s.roots[k] = NoElection
  BY <1>1, <1>4, Zenon DEF setVoteHash, Voting
<1>5. CASE s.roots[k] # NoElection
  <2>1. setVoteHash(s, b) = PutElection(s, k, el)
    BY <1>1, <1>2, <1>5, Zenon DEF setVoteHash, Voting, PutElection, NodeState
  <2> QED
    BY <1>3, <1>5, <2>1, Zenon
<1> QED
  BY <1>4, <1>5, Zenon

\* A vote of the node itself is counted soundly: it is sent.
LEMMA LocalRepVoteMove ==
    ASSUME NEW n \in Node, NEW s \in NodeState, NEW M, Sound(s), Backed(s, M),
           NEW b \in Block, localRepVote(n, s, b).sent \subseteq M
    PROVE  Move(s, localRepVote(n, s, b), M)
<1>1. CASE localRepVote(n, s, b) = s
  BY <1>1, MoveReflexive, Zenon
<1>2. ASSUME NEW r \in Rep, Home[r] = n,
             localRepVote(n, s, b) =
               [setVoteHash(vote(s, r, b), b) EXCEPT !.sent = @ \cup {Ack(r, b)}]
      PROVE  Move(s, localRepVote(n, s, b), M)
  <2> DEFINE v == vote(s, r, b)
             h == setVoteHash(v, b)
             t == [h EXCEPT !.sent = @ \cup {Ack(r, b)}]
  <2>1. v \in NodeState
    BY VoteBacked, Zenon
  <2>2. /\ h \in NodeState
        /\ h.ledger = v.ledger /\ h.unchecked = v.unchecked
        /\ h.blocksAcked = v.blocksAcked /\ h.sent = v.sent
        /\ \/ h.roots = v.roots
           \/ h.roots = [v.roots EXCEPT ![prev[b]] = [@ EXCEPT !.voteHash = b]]
    <3> HIDE DEF v
    <3>1. prev[b] \in VoteKey
      BY BlockAssumption, Zenon DEF VoteKey
    <3>2. CASE h = v
      BY <2>1, <3>2, Zenon
    <3>3. ASSUME NEW el \in Election, h = PutElection(v, prev[b], el),
                 el = [v.roots[prev[b]] EXCEPT !.voteHash = b]
          PROVE  /\ h \in NodeState
                 /\ h.ledger = v.ledger /\ h.unchecked = v.unchecked
                 /\ h.blocksAcked = v.blocksAcked /\ h.sent = v.sent
                 /\ h.roots = [v.roots EXCEPT ![prev[b]] = [@ EXCEPT !.voteHash = b]]
      BY <2>1, <3>1, <3>3, PutElectionFields
    <3> QED
      BY <2>1, <3>2, <3>3, SetVoteHashShape, Zenon
  <2>3. t.sent = h.sent \cup {Ack(r, b)} /\ Ack(r, b) \in Message
    BY <2>2, Zenon DEF NodeState, Ack, Message
  <2>4. Ack(r, b) \in M
    BY <1>2, <2>3, Zenon
  <2>5. Move(s, v, M)
    BY <2>4, VoteMove, Zenon
  <2> HIDE DEF v
  <2>6. Keys(h) /\ Backed(h, M)
    <3>1. v.roots \in [VoteKey -> Election] /\ prev[b] \in VoteKey
      BY <2>1, BlockAssumption, Zenon DEF NodeState, VoteKey
    <3>2. \A k \in VoteKey : /\ h.roots[k].repVotes = v.roots[k].repVotes
                             /\ h.roots[k].blocks = v.roots[k].blocks
                             /\ h.roots[k].winner = v.roots[k].winner
      <4> HIDE DEF h
      <4>1. \A k \in VoteKey : v.roots[k] \in Election
        BY <3>1, Zenon
      <4> QED
        BY <2>2, <3>1, <4>1 DEF Election
    <3> HIDE DEF h
    <3> QED
      BY <2>2, <2>5, <3>2 DEF Move, Sound, Keys, Contest, Backed, VotesBacked
  <2> HIDE DEF h
  <2>7. Move(v, h, M)
    BY <2>1, <2>2, <2>5, <2>6, MoveQuiet, Zenon DEF Move
  <2>8. Move(h, t, M)
    BY <2>2, <2>3, <2>7, SendMove, Zenon DEF Move
  <2> HIDE DEF t
  <2>9. Move(s, t, M)
    BY <2>1, <2>2, <2>5, <2>7, <2>8, MoveTransitive, Zenon
  <2> QED
    BY <1>2, <2>9, Zenon DEF t, h, v
<1> QED
  BY <1>1, <1>2, LocalRepVoteShape

-----------------------------------------------------------------------------
(***************************************************************************)
(* A handler prepares (it opens an election, lets a rival join one, asks   *)
(* for votes or keeps a gap block) and then votes at most once.            *)
(***************************************************************************)
Prepares(s, u) ==
    /\ u \in NodeState
    /\ u.ledger = s.ledger /\ u.blocksAcked = s.blocksAcked /\ u.timer = s.timer
    /\ s.sent \subseteq u.sent
    /\ \A m \in u.sent \ s.sent : m.type # "ack"
    /\ \A k \in VoteKey :
         /\ Contest(s.roots[k], k) => Contest(u.roots[k], k)
         /\ u.roots[k].repVotes = s.roots[k].repVotes
         /\ u.roots[k].voteHash = s.roots[k].voteHash
         /\ u.roots[k] # s.roots[k] => HasBlock(s, k)
    /\ \A h \in Block :
         u.unchecked[h] # s.unchecked[h] => ~HasBlock(s, h) /\ prev[u.unchecked[h]] = h

\* The node may vote for b: it has confirmed b, or no rival of b, and it has not
\* voted for a rival in the election.
May(s, b) ==
    \/ b \in s.ledger
    \/ /\ Children(s, prev[b]) = {}
       /\ s.roots[prev[b]] # NoElection
       /\ s.roots[prev[b]].voteHash \in {NoBlock, b}

\* Doing nothing prepares.
LEMMA PreparesReflexive ==
    ASSUME NEW s \in NodeState
    PROVE  Prepares(s, s)
  BY Zenon DEF Prepares

\* One preparation after the other.
LEMMA PreparesTransitive ==
    ASSUME NEW s \in NodeState, NEW t \in NodeState, NEW u,
           Prepares(s, t), Prepares(t, u)
    PROVE  Prepares(s, u)
  BY DEF Prepares, HasBlock

\* A preparation keeps the node sound.
LEMMA PrepareMove ==
    ASSUME NEW s \in NodeState, NEW u \in NodeState, NEW M, Sound(s), Backed(s, M),
           Prepares(s, u)
    PROVE  Move(s, u, M)
<1>1. LedgerOK(u)
  BY Zenon DEF Prepares, Sound, LedgerOK, HasBlock
<1>2. Keys(u)
  BY Zenon DEF Prepares, Sound, Keys
<1>3. Waits(u)
  BY Zenon DEF Prepares, Sound, Waits
<1>4. Backed(u, M)
  BY Zenon DEF Prepares, Backed, VotesBacked
<1>5. Yields(s, u, M)
  BY Zenon DEF Prepares, Yields
<1>6. Wakes(s, u)
  BY Zenon DEF Prepares, Wakes, HasBlock, NodeState
<1> QED
  BY <1>1, <1>2, <1>3, <1>4, <1>5, <1>6, Zenon DEF Move, Sound, Prepares

\* addToRoots opens an election on a block that the node has.
LEMMA AddToRootsPrepares ==
    ASSUME NEW s \in NodeState, NEW b \in Block, HasBlock(s, prev[b])
    PROVE  /\ Prepares(s, addToRoots(s, b))
           /\ Voting(addToRoots(s, b), b)
<1> DEFINE k == prev[b]
           t == addToRoots(s, b)
<1>1. k \in VoteKey /\ getVoteKey(b) = k
  BY BlockAssumption, Zenon DEF getVoteKey, VoteKey
<1>2. CASE Voting(s, b)
  BY <1>2, PreparesReflexive, Zenon DEF addToRoots
<1>3. CASE ~Voting(s, b)
  <2>1. s.roots \in [VoteKey -> Election] /\ s.roots[k] = NoElection
    BY <1>1, <1>3, Zenon DEF Voting, NodeState
  <2>2. newElection(b) \in Election /\ newElection(b) # NoElection
    BY BlockAssumption, Zenon DEF newElection, NoElection, Election
  <2>3. /\ t \in NodeState
        /\ t.ledger = s.ledger /\ t.blocksAcked = s.blocksAcked /\ t.timer = s.timer
        /\ t.sent = s.sent /\ t.unchecked = s.unchecked
        /\ t.roots = [s.roots EXCEPT ![k] = newElection(b)]
    BY <1>1, <1>3, <2>2, Zenon DEF addToRoots, NodeState
  <2> HIDE DEF t
  <2>4. \A j \in VoteKey : t.roots[j] = IF j = k THEN newElection(b) ELSE s.roots[j]
    BY <2>1, <2>3, Zenon
  <2>5. /\ Contest(newElection(b), k)
        /\ newElection(b).repVotes = NoElection.repVotes
        /\ newElection(b).voteHash = NoElection.voteHash
    BY Zenon DEF Contest, newElection, NoElection
  <2>6. Prepares(s, t)
    BY <2>1, <2>3, <2>4, <2>5, Zenon DEF Prepares
  <2>7. Voting(t, b)
    BY <1>1, <2>2, <2>4, Zenon DEF Voting
  <2> QED
    BY <2>6, <2>7, Zenon DEF t
<1> QED
  BY <1>2, <1>3, Zenon

\* A rival joins the election.
LEMMA JoinPrepares ==
    ASSUME NEW s \in NodeState, NEW b \in Block, HasBlock(s, prev[b])
    PROVE  Prepares(s, Join(s, prev[b], b))
<1> DEFINE k == prev[b]
           t == Join(s, k, b)
           el == [s.roots[k] EXCEPT !.blocks = @ \cup {b}]
<1>1. k \in VoteKey
  BY BlockAssumption, Zenon DEF VoteKey
<1>2. s.roots \in [VoteKey -> Election] /\ s.roots[k] \in Election
  BY <1>1, Zenon DEF NodeState
<1>3. /\ el \in Election
      /\ el.blocks = s.roots[k].blocks \cup {b}
      /\ el.repVotes = s.roots[k].repVotes /\ el.voteHash = s.roots[k].voteHash
      /\ el.winner = s.roots[k].winner
  BY <1>2, Zenon DEF Election
<1>4. t = [s EXCEPT !.roots[k] = el, !.hash2el = @ \cup {b}]
  BY <1>1, <1>2, Zenon DEF Join, NodeState
<1> HIDE DEF el, t, k
<1>5. /\ t \in NodeState
      /\ t.ledger = s.ledger /\ t.blocksAcked = s.blocksAcked /\ t.timer = s.timer
      /\ t.sent = s.sent /\ t.unchecked = s.unchecked
      /\ t.roots = [s.roots EXCEPT ![k] = el]
  BY <1>1, <1>3, <1>4, Zenon DEF NodeState
<1>6. \A j \in VoteKey : t.roots[j] = IF j = k THEN el ELSE s.roots[j]
  BY <1>2, <1>5, Zenon
<1>7. Contest(s.roots[k], k) => Contest(el, k)
  BY <1>3, Zenon DEF Contest, k
<1>8. Prepares(s, t)
  BY <1>3, <1>5, <1>6, <1>7, Zenon DEF Prepares, k
<1> QED
  BY <1>8, Zenon DEF t, k

\* A block is published, or asked for.
LEMMA SendPrepares ==
    ASSUME NEW s \in NodeState, NEW m \in Message, m.type # "ack"
    PROVE  Prepares(s, [s EXCEPT !.sent = @ \cup {m}])
<1> DEFINE t == [s EXCEPT !.sent = @ \cup {m}]
<1>1. /\ t \in NodeState
      /\ t.ledger = s.ledger /\ t.roots = s.roots /\ t.unchecked = s.unchecked
      /\ t.blocksAcked = s.blocksAcked /\ t.sent = s.sent \cup {m}
      /\ t.timer = s.timer
  BY Zenon DEF NodeState
<1> HIDE DEF t
<1>2. Prepares(s, t)
  BY <1>1 DEF Prepares
<1> QED
  BY <1>2, Zenon DEF t

\* A gap block is kept for a block that the node does not have.
LEMMA EnqueuePrepares ==
    ASSUME NEW s \in NodeState, NEW b \in Block, ~HasBlock(s, prev[b])
    PROVE  Prepares(s, enqueueUnchecked(s, b))
<1> DEFINE t == enqueueUnchecked(s, b)
<1>1. CASE s.unchecked[prev[b]] = NoBlock
  <2>1. prev[b] \in Block
    BY BlockAssumption, Zenon DEF HasBlock
  <2>2. /\ t \in NodeState
        /\ t.ledger = s.ledger /\ t.roots = s.roots
        /\ t.unchecked = [s.unchecked EXCEPT ![prev[b]] = b]
        /\ t.blocksAcked = s.blocksAcked /\ t.sent = s.sent
        /\ t.timer = s.timer
    BY <1>1, <2>1, Zenon DEF enqueueUnchecked, NodeState
  <2>3. s.unchecked \in [Block -> Block \cup {NoBlock}]
    BY Zenon DEF NodeState
  <2> HIDE DEF t
  <2>4. Prepares(s, t)
    BY <2>1, <2>2, <2>3 DEF Prepares
  <2> QED
    BY <2>4, Zenon DEF t
<1>2. CASE s.unchecked[prev[b]] # NoBlock
  BY <1>2, PreparesReflexive, Zenon DEF enqueueUnchecked
<1> QED
  BY <1>1, <1>2, Zenon

\* What a handler of node n does to s.
Handles(n, s, t) ==
    \E u \in NodeState :
      /\ Prepares(s, u)
      /\ \/ t = u
         \/ \E x \in Block : May(u, x) /\ t = localRepVote(n, u, x)

\* processFork: the rival joins, and a new election gets a vote for the confirmed
\* block.
LEMMA ProcessForkHandles ==
    ASSUME NEW n \in Node, NEW s \in NodeState, NEW b \in Block,
           HasBlock(s, prev[b]), Children(s, prev[b]) # {}
    PROVE  Handles(n, s, processFork(n, s, b))
<1> DEFINE k == prev[b]
           c == CHOOSE c \in Children(s, k) : TRUE
           m == [type |-> "confirmReq", block |-> c]
           u == addToRoots(s, c)
           v == Join(u, k, b)
           w == [v EXCEPT !.sent = @ \cup {m}]
<1>1. c \in s.ledger /\ c \in Block /\ prev[c] = k
  <2>1. c \in Children(s, k)
    BY Zenon
  <2> HIDE DEF c
  <2> QED
    BY <2>1, Zenon DEF Children, NodeState
<1>2. \/ processFork(n, s, b) = s
      \/ processFork(n, s, b) = Join(s, k, b)
      \/ processFork(n, s, b) = localRepVote(n, w, c)
  BY Zenon DEF processFork, getVoteKey
<1> HIDE DEF c
<1>3. CASE processFork(n, s, b) = s
  BY <1>3, PreparesReflexive, SMTT(30) DEF Handles
<1>4. CASE processFork(n, s, b) = Join(s, k, b)
  <2>1. Prepares(s, Join(s, k, b))
    BY JoinPrepares, Zenon
  <2> QED
    BY <1>4, <2>1, Zenon DEF Handles, Prepares
<1>5. CASE processFork(n, s, b) = localRepVote(n, w, c)
  <2>1. Prepares(s, u)
    BY <1>1, AddToRootsPrepares, Zenon
  <2>2. u \in NodeState /\ HasBlock(u, k)
    BY <2>1, Zenon DEF Prepares, HasBlock
  <2> HIDE DEF u
  <2>3. Prepares(u, v)
    BY <2>2, JoinPrepares, Zenon
  <2>4. v \in NodeState
    BY <2>3, Zenon DEF Prepares
  <2> HIDE DEF v
  <2>5. m \in Message /\ m.type # "ack"
    BY <1>1, Zenon DEF Message
  <2> HIDE DEF m
  <2>6. Prepares(v, w)
    BY <2>4, <2>5, SendPrepares, Zenon
  <2> HIDE DEF w
  <2>7. Prepares(s, v)
    BY <2>1, <2>2, <2>3, PreparesTransitive, Zenon
  <2>8. Prepares(s, w)
    BY <2>4, <2>6, <2>7, PreparesTransitive, Zenon
  <2>9. w \in NodeState /\ May(w, c)
    BY <1>1, <2>8, Zenon DEF Prepares, May
  <2> QED
    BY <1>1, <1>5, <2>8, <2>9, Zenon DEF Handles
<1> QED
  BY <1>2, <1>3, <1>4, <1>5, Zenon

\* processResult votes for a block whose election it opens.
LEMMA ProcessResultHandles ==
    ASSUME NEW n \in Node, NEW s \in NodeState, NEW b \in Block, NEW type
    PROVE  Handles(n, s, processResult(n, s, b, type))
<1> DEFINE t == processResult(n, s, b, type)
           u == addToRoots(s, b)
<1>1. CASE BlockCheck(s, b) = "Progress"
  <2>1. HasBlock(s, prev[b]) /\ Children(s, prev[b]) = {}
    BY <1>1, Zenon DEF BlockCheck
  <2>2. Prepares(s, u) /\ Voting(u, b)
    BY <2>1, AddToRootsPrepares, Zenon
  <2>3. \/ t = u
        \/ t = localRepVote(n, u, b) /\ ~Voting(s, b)
    BY <1>1, Zenon DEF processResult
  <2> HIDE DEF u, t
  <2>4. ASSUME ~Voting(s, b)
        PROVE  May(u, b)
    <3>1. prev[b] \in VoteKey
      BY BlockAssumption, Zenon DEF VoteKey
    <3>2. u.roots[prev[b]].voteHash = NoBlock
      BY <2>2, <2>4, <3>1 DEF Prepares, Voting, getVoteKey, NoElection
    <3>3. Children(u, prev[b]) = {}
      BY <2>1, <2>2, Zenon DEF Prepares, Children
    <3> QED
      BY <2>2, <3>2, <3>3, Zenon DEF May, Voting, getVoteKey
  <2>5. u \in NodeState
    BY <2>2, Zenon DEF Prepares
  <2> QED
    BY <2>2, <2>3, <2>4, <2>5, Zenon DEF Handles, t
<1>2. CASE BlockCheck(s, b) = "Fork"
  <2>1. HasBlock(s, prev[b]) /\ Children(s, prev[b]) # {}
    BY <1>2, Zenon DEF BlockCheck
  <2>2. t = s \/ t = processFork(n, s, b)
    BY <1>2, SMTT(30) DEF processResult
  <2> QED
    BY <2>1, <2>2, ProcessForkHandles, PreparesReflexive DEF Handles
<1>3. CASE BlockCheck(s, b) = "GapPrevious"
  <2>1. ~HasBlock(s, prev[b])
    BY <1>3, Zenon DEF BlockCheck
  <2>2. t = s \/ t = enqueueUnchecked(s, b)
    BY <1>3, Zenon DEF processResult
  <2>3. Prepares(s, enqueueUnchecked(s, b))
    BY <2>1, EnqueuePrepares, Zenon
  <2> QED
    BY <2>2, <2>3, PreparesReflexive, Zenon DEF Handles, Prepares
<1>4. CASE BlockCheck(s, b) = "Old"
  <2>1. t = s
    BY <1>4, Zenon DEF processResult
  <2> QED
    BY <2>1, PreparesReflexive, Zenon DEF Handles
<1> QED
  BY <1>1, <1>2, <1>3, <1>4, Zenon DEF BlockCheck

\* processMsgDo answers a request after it has opened the election, if it has to.
LEMMA ProcessMsgDoHandles ==
    ASSUME NEW n \in Node, NEW s \in NodeState, NEW b \in Block, NEW type
    PROVE  Handles(n, s, processMsgDo(n, s, b, type))
<1> DEFINE t == processResult(n, s, b, type)
           el == t.roots[getVoteKey(b)]
           answer == /\ type = "confirmReq"
                     /\ \/ BlockCheck(s, b) = "Old"
                        \/ /\ BlockCheck(s, b) = "Progress"
                           /\ el # NoElection
                           /\ el.voteHash \in {NoBlock, b}
<1>1. CASE ~answer
  <2>1. processMsgDo(n, s, b, type) = t
    BY <1>1, Zenon DEF processMsgDo
  <2> QED
    BY <2>1, ProcessResultHandles, Zenon
<1>2. CASE answer
  <2>1. processMsgDo(n, s, b, type) = localRepVote(n, t, b)
    BY <1>2, Zenon DEF processMsgDo
  <2>2. CASE BlockCheck(s, b) = "Old"
    <3>1. t = s
      BY <2>2, Zenon DEF processResult
    <3>2. May(s, b)
      BY <2>2, Zenon DEF BlockCheck, May
    <3> QED
      BY <2>1, <3>1, <3>2, PreparesReflexive, Zenon DEF Handles
  <2>3. CASE BlockCheck(s, b) = "Progress"
    <3>1. t = addToRoots(s, b)
      BY <1>2, <2>3, Zenon DEF processResult
    <3>2. HasBlock(s, prev[b]) /\ Children(s, prev[b]) = {}
      BY <2>3, Zenon DEF BlockCheck
    <3>3. Prepares(s, t)
      BY <3>1, <3>2, AddToRootsPrepares, Zenon
    <3> HIDE DEF t
    <3>4. May(t, b)
      BY <1>2, <2>3, <3>2, <3>3, Zenon DEF May, Prepares, Children, getVoteKey
    <3> QED
      BY <2>1, <3>3, <3>4, Zenon DEF Handles, Prepares
  <2> QED
    BY <1>2, <2>2, <2>3, Zenon
<1> QED
  BY <1>1, <1>2, Zenon

\* A handler keeps the node sound.
LEMMA HandlesMove ==
    ASSUME NEW n \in Node, NEW s \in NodeState, NEW t, NEW M, Sound(s), Backed(s, M),
           Handles(n, s, t), t.sent \subseteq M
    PROVE  Move(s, t, M)
<1>1. PICK u \in NodeState :
        /\ Prepares(s, u)
        /\ \/ t = u
           \/ \E x \in Block : t = localRepVote(n, u, x)
  BY Zenon DEF Handles
<1>2. Move(s, u, M)
  BY <1>1, PrepareMove, Zenon
<1>3. ASSUME NEW x \in Block, t = localRepVote(n, u, x)
      PROVE  Move(s, t, M)
  <2>1. Move(u, t, M)
    BY <1>2, <1>3, LocalRepVoteMove, Zenon DEF Move
  <2> QED
    BY <1>2, <2>1, MoveTransitive, Zenon
<1> QED
  BY <1>1, <1>2, <1>3, Zenon

-----------------------------------------------------------------------------
(***************************************************************************)
(* The steps of a node are of four kinds: it handles a block, counts a     *)
(* vote, takes a gap block off its queue, or sheds elections and gap       *)
(* blocks (checkVotes, a restart; packing is of this kind too).            *)
(***************************************************************************)
Counts(s, t) ==
    \E r \in Rep : \E b \in Block : Ack(r, b) \in msgs /\ t = vote(s, r, b)

Dequeues(n, s, t) ==
    \E h \in Block : \E u \in NodeState :
      /\ Handles(n, [s EXCEPT !.blocksAcked = @ \ {h}], u)
      /\ t = [u EXCEPT !.unchecked[h] = NoBlock]

Sheds(s, t) ==
    /\ t \in NodeState
    /\ t.ledger = s.ledger /\ t.sent = s.sent
    /\ \A k \in VoteKey : Contest(s.roots[k], k) => Contest(t.roots[k], k)
    /\ \A h \in Block : t.unchecked[h] \in {NoBlock, s.unchecked[h]}

\* Shedding that is neither a restart nor the work of checkVotes changes neither
\* the elections nor the queue.
ShedsFor(n, t) ==
    LET s == node[n]
    IN  /\ Sheds(s, t)
        /\ restarts \in Nat /\ giveUps \in Nat
        /\ restarts' \in {restarts, restarts + 1}
        /\ giveUps' \in {giveUps, giveUps + 1}
        /\ restarts' = restarts => t.blocksAcked = s.blocksAcked
        /\ \/ restarts' # restarts \/ giveUps' # giveUps \/ s.timer # Idle
           \/ t.roots = s.roots /\ t.timer = s.timer

NodeStep(n, t) ==
    /\ Become(n, t)
    /\ \/ UNCHANGED bounds /\ (Handles(n, node[n], t) \/ Counts(node[n], t))
       \/ UNCHANGED bounds /\ Dequeues(n, node[n], t)
       \/ ShedsFor(n, t)

\* Every step is a step of one node and of one of these kinds.
LEMMA NextIsNodeStep ==
    ASSUME IndInv, Next
    PROVE  \E n \in Node : \E t : NodeStep(n, t)
<1>n. node \in [Node -> NodeState]
  BY Zenon DEF IndInv, TypeOK
<1>b. restarts \in Nat /\ giveUps \in Nat
  BY BoundAssumption DEF IndInv, TypeOK
<1>c. \A k : Contest(NoElection, k)
  BY Zenon DEF Contest, NoElection
<1>1. ASSUME NEW b \in Block, Generate(b)
      PROVE  \E n \in Node : \E t : NodeStep(n, t)
  <2> DEFINE n == Author[b]
             m == [type |-> "publish", block |-> b]
             s == [node[n] EXCEPT !.sent = @ \cup {m}]
             t == processMsgDo(n, s, b, "generate")
  <2>1. n \in Node /\ Become(n, t) /\ UNCHANGED bounds
    BY <1>1, BlockAssumption, Zenon DEF Generate
  <2>2. m \in Message /\ m.type # "ack"
    BY Zenon DEF Message
  <2> HIDE DEF m, n
  <2>3. node[n] \in NodeState
    BY <1>n, <2>1, Zenon
  <2>4. Prepares(node[n], s)
    BY <2>2, <2>3, SendPrepares, Zenon
  <2>5. s \in NodeState
    BY <2>4, Zenon DEF Prepares
  <2> HIDE DEF s
  <2>6. Handles(n, s, t)
    BY <2>1, <2>5, ProcessMsgDoHandles, Zenon
  <2> HIDE DEF t
  <2>7. Handles(n, node[n], t)
    BY <2>3, <2>4, <2>5, <2>6, PreparesTransitive, Zenon DEF Handles
  <2> QED
    BY <2>1, <2>7, Zenon DEF NodeStep
<1>2. ASSUME NEW n \in Node, NEW m \in msgs, ReceiveBlock(n, m)
      PROVE  \E t : NodeStep(n, t)
  <2>1. m.block \in Block
    BY MsgsTyped, Zenon DEF Message, IndInv
  <2> DEFINE t == processMsgDo(n, node[n], m.block, m.type)
  <2>2. Become(n, t) /\ UNCHANGED bounds
    BY <1>2, Zenon DEF ReceiveBlock
  <2>3. Handles(n, node[n], t)
    BY <1>n, <2>1, ProcessMsgDoHandles, Zenon
  <2> HIDE DEF t
  <2> QED
    BY <2>2, <2>3, Zenon DEF NodeStep
<1>3. ASSUME NEW n \in Node, NEW m \in msgs, ReceiveAck(n, m)
      PROVE  \E t : NodeStep(n, t)
  <2>1. m \in Message /\ m.type = "ack"
    BY <1>3, MsgsTyped, Zenon DEF ReceiveAck, IndInv
  <2>2. m.rep \in Rep /\ m.block \in Block /\ Ack(m.rep, m.block) = m
    BY <2>1, Zenon DEF Message, Ack
  <2> DEFINE t == vote(node[n], m.rep, m.block)
  <2>3. Become(n, t) /\ UNCHANGED bounds
    BY <1>3, Zenon DEF ReceiveAck
  <2>4. Counts(node[n], t)
    BY <2>2, Zenon DEF Counts
  <2> HIDE DEF t
  <2> QED
    BY <2>3, <2>4, Zenon DEF NodeStep
<1>4. ASSUME NEW n \in Node, NEW h \in Block, DequeueUnchecked(n, h)
      PROVE  \E t : NodeStep(n, t)
  <2> DEFINE s == [node[n] EXCEPT !.blocksAcked = @ \ {h}]
             b == s.unchecked[h]
             u == IF b = NoBlock THEN s ELSE processResult(n, s, b, "publish")
             t == [u EXCEPT !.unchecked[h] = NoBlock]
  <2>1. Become(n, t) /\ UNCHANGED bounds
    BY <1>4, Zenon DEF DequeueUnchecked
  <2>2. s \in NodeState
    BY <1>n, Zenon DEF NodeState
  <2> HIDE DEF s
  <2>3. b \in Block \cup {NoBlock}
    BY <2>2, Zenon DEF NodeState
  <2> HIDE DEF b
  <2>4. Handles(n, s, u) /\ u \in NodeState
    <3>1. CASE b = NoBlock
      BY <2>2, <3>1, PreparesReflexive, Zenon DEF Handles
    <3>2. CASE b # NoBlock
      <4>1. b \in Block /\ u = processResult(n, s, b, "publish")
        BY <2>3, <3>2, Zenon
      <4>2. Own(s, processResult(n, s, b, "publish"))
        BY <2>2, <4>1, ProcessResultOwn, Zenon
      <4>3. Handles(n, s, processResult(n, s, b, "publish"))
        BY <2>2, <4>1, ProcessResultHandles, Zenon
      <4> QED
        BY <4>1, <4>2, <4>3, Zenon DEF Own
    <3> QED
      BY <3>1, <3>2, Zenon
  <2> HIDE DEF u
  <2>5. Dequeues(n, node[n], t)
    BY <2>4, Zenon DEF Dequeues, s
  <2> HIDE DEF t
  <2> QED
    BY <2>1, <2>5, Zenon DEF NodeStep
<1>5. ASSUME NEW n \in Node, NEW b \in Block, Pack(n, b)
      PROVE  \E t : NodeStep(n, t)
  <2> DEFINE t == [node[n] EXCEPT !.packed = @ \cup {b}]
  <2>1. Become(n, t) /\ UNCHANGED bounds
    BY <1>5, Zenon DEF Pack
  <2>2. /\ t \in NodeState /\ t.ledger = node[n].ledger
        /\ t.roots = node[n].roots /\ t.sent = node[n].sent /\ t.timer = node[n].timer
        /\ t.unchecked = node[n].unchecked /\ t.blocksAcked = node[n].blocksAcked
    BY <1>n, Zenon DEF NodeState
  <2> HIDE DEF t
  <2>3. ShedsFor(n, t)
    BY <1>b, <2>1, <2>2, Zenon DEF ShedsFor, Sheds, bounds
  <2> QED
    BY <2>1, <2>3, Zenon DEF NodeStep
<1>6. ASSUME NEW n \in Node, NEW k \in VoteKey, GiveUp(n, k)
      PROVE  \E t : NodeStep(n, t)
  <2> DEFINE s == node[n]
             el == [s.roots[k] EXCEPT !.valid = FALSE]
             tm == [pc |-> "delete", key |-> k, blocks |-> {},
                    winner |-> s.roots[k].winner]
             t == [s EXCEPT !.roots[k] = el, !.timer = tm]
  <2>1. s \in NodeState /\ s.roots \in [VoteKey -> Election]
    BY <1>n, Zenon DEF NodeState
  <2>2. Become(n, t)
    BY <1>6, <2>1, Zenon DEF GiveUp, NodeState
  <2>3. giveUps' = giveUps + 1 /\ UNCHANGED restarts
    BY <1>6, Zenon DEF GiveUp
  <2>4. /\ el \in Election
        /\ el.blocks = s.roots[k].blocks /\ el.winner = s.roots[k].winner
    <3>1. \A e \in Election : LET f == [e EXCEPT !.valid = FALSE]
                               IN  /\ f \in Election
                                   /\ f.blocks = e.blocks /\ f.winner = e.winner
      BY Zenon DEF Election
    <3>2. s.roots[k] \in Election
      BY <2>1, Zenon
    <3> QED BY <3>1, <3>2, Zenon
  <2>5. s.roots[k].winner \in Block
    BY <1>6, <2>1, Zenon DEF GiveUp, Election
  <2> HIDE DEF s, el
  <2>6. /\ t \in NodeState /\ t.ledger = s.ledger /\ t.sent = s.sent
        /\ t.unchecked = s.unchecked /\ t.blocksAcked = s.blocksAcked
        /\ t.roots = [s.roots EXCEPT ![k] = el]
    BY <2>1, <2>4, <2>5, Zenon DEF NodeState
  <2> HIDE DEF t
  <2>7. \A j \in VoteKey : Contest(s.roots[j], j) => Contest(t.roots[j], j)
    BY <2>1, <2>4, <2>6, Zenon DEF Contest
  <2>8. ShedsFor(n, t)
    BY <1>b, <2>3, <2>6, <2>7 DEF ShedsFor, Sheds, s
  <2> QED
    BY <2>2, <2>8, Zenon DEF NodeStep
<1>7. ASSUME NEW n \in Node, DeleteRoot(n)
      PROVE  \E t : NodeStep(n, t)
  <2> DEFINE s == node[n]
             k == s.timer.key
             blocks == s.roots[k].blocks
             tm == [s.timer EXCEPT !.pc = "clean", !.blocks = blocks]
             t == [s EXCEPT !.roots[k] = NoElection, !.hash2el = @ \ blocks, !.timer = tm]
  <2>1. s \in NodeState /\ s.roots \in [VoteKey -> Election]
    BY <1>n, Zenon DEF NodeState
  <2>2. /\ s.timer \in [pc : {"delete", "clean"}, key : VoteKey, blocks : SUBSET Block,
                        winner : Block]
        /\ s.timer # Idle
    BY <1>7, <2>1 DEF DeleteRoot, NodeState, Idle
  <2>3. k \in VoteKey /\ blocks \in SUBSET Block
    BY <2>1, <2>2, Zenon DEF Election
  <2>4. Become(n, t) /\ UNCHANGED bounds
    BY <1>7, <2>1, Zenon DEF DeleteRoot, NodeState
  <2>5. tm \in [pc : {"delete", "clean"}, key : VoteKey, blocks : SUBSET Block,
                winner : Block]
    BY <2>2, <2>3, Zenon
  <2>6. NoElection \in Election
    BY Zenon DEF NoElection, Election
  <2> HIDE DEF s, k, blocks, tm
  <2>7. /\ t \in NodeState /\ t.ledger = s.ledger /\ t.sent = s.sent
        /\ t.unchecked = s.unchecked /\ t.blocksAcked = s.blocksAcked
        /\ t.roots = [s.roots EXCEPT ![k] = NoElection]
    BY <2>1, <2>3, <2>5, <2>6, Zenon DEF NodeState
  <2> HIDE DEF t
  <2>8. \A j \in VoteKey : Contest(s.roots[j], j) => Contest(t.roots[j], j)
    BY <1>c, <2>1, <2>7, Zenon
  <2>9. ShedsFor(n, t)
    BY <1>b, <2>2, <2>4, <2>7, <2>8, Zenon DEF ShedsFor, Sheds, s, bounds
  <2> QED
    BY <2>4, <2>9, Zenon DEF NodeStep
<1>8. ASSUME NEW n \in Node, CleanBlockInfo(n)
      PROVE  \E t : NodeStep(n, t)
  <2> DEFINE s == node[n]
             W == [h \in Block |-> IF h \in WaitFor(s, s.timer.winner)
                                   THEN NoBlock ELSE s.unchecked[h]]
             t == [s EXCEPT !.hash2el = @ \ s.timer.blocks, !.unchecked = W,
                            !.timer = Idle]
  <2>1. s \in NodeState /\ s.timer # Idle
    BY <1>n, <1>8 DEF CleanBlockInfo, Idle
  <2>2. Become(n, t) /\ UNCHANGED bounds
    BY <1>8, <2>1, Zenon DEF CleanBlockInfo, NodeState
  <2>3. /\ W \in [Block -> Block \cup {NoBlock}]
        /\ \A h \in Block : W[h] \in {NoBlock, s.unchecked[h]}
    BY <2>1, Zenon DEF NodeState
  <2> HIDE DEF s, W
  <2>4. /\ t \in NodeState /\ t.ledger = s.ledger
        /\ t.roots = s.roots /\ t.sent = s.sent
        /\ t.unchecked = W /\ t.blocksAcked = s.blocksAcked
    BY <2>1, <2>3, Zenon DEF NodeState
  <2> HIDE DEF t
  <2>5. ShedsFor(n, t)
    BY <1>b, <2>1, <2>2, <2>3, <2>4, Zenon DEF ShedsFor, Sheds, s, bounds
  <2> QED
    BY <2>2, <2>5, Zenon DEF NodeStep
<1>9. ASSUME NEW n \in Node, Restart(n)
      PROVE  \E t : NodeStep(n, t)
  <2> DEFINE s == node[n]
             none == [k \in VoteKey |-> NoElection]
             t == [s EXCEPT !.roots = none, !.hash2el = {}, !.blocksAcked = {},
                            !.timer = Idle]
  <2>1. s \in NodeState
    BY <1>n, Zenon
  <2>2. Become(n, t) /\ restarts' = restarts + 1 /\ UNCHANGED giveUps
    BY <1>9, Zenon DEF Restart
  <2>3. none \in [VoteKey -> Election] /\ \A k \in VoteKey : none[k] = NoElection
    BY Zenon DEF NoElection, Election
  <2> HIDE DEF s, none
  <2>4. /\ t \in NodeState /\ t.ledger = s.ledger
        /\ t.roots = none /\ t.sent = s.sent /\ t.unchecked = s.unchecked
    BY <2>1, <2>3, Zenon DEF NodeState
  <2> HIDE DEF t
  <2>5. ShedsFor(n, t)
    BY <1>b, <1>c, <2>2, <2>3, <2>4 DEF ShedsFor, Sheds, s
  <2> QED
    BY <2>2, <2>5, Zenon DEF NodeStep
<1> QED
  BY <1>1, <1>2, <1>3, <1>4, <1>5, <1>6, <1>7, <1>8, <1>9, Zenon DEF Next

-----------------------------------------------------------------------------
\* The processor has been told of every confirmed block that a block waits for.
Woken(s) == \A h \in s.ledger : s.unchecked[h] # NoBlock => h \in s.blocksAcked

SoundInv ==
    \A n \in Node : Sound(node[n]) /\ (restarts = 0 => Woken(node[n]))

\* What every node does in one step.
Holds(s, t) == Yields(s, t, msgs') /\ s.sent \subseteq t.sent

\* A handler sends, and takes nothing back.
LEMMA HandlesSends ==
    ASSUME NEW n \in Node, NEW s \in NodeState, NEW t, Handles(n, s, t)
    PROVE  t \in NodeState /\ s.sent \subseteq t.sent
<1>1. PICK u \in NodeState :
        /\ Prepares(s, u)
        /\ \/ t = u
           \/ \E x \in Block : t = localRepVote(n, u, x)
  BY Zenon DEF Handles
<1>2. ASSUME NEW x \in Block, t = localRepVote(n, u, x)
      PROVE  t \in NodeState /\ u.sent \subseteq t.sent
  BY <1>2, LocalRepVoteOwn, Zenon DEF Own
<1> QED
  BY <1>1, <1>2, Zenon DEF Prepares

\* What one node sends is sent, and the others stand still.
LEMMA BecomeGrows ==
    ASSUME IndInv, NEW n \in Node, NEW t \in NodeState, Become(n, t),
           node[n].sent \subseteq t.sent
    PROVE  /\ node'[n] = t /\ node[n] \in NodeState
           /\ \A m \in Node : m # n => node'[m] = node[m]
           /\ msgs \subseteq msgs' /\ t.sent \subseteq msgs'
           /\ Backed(node[n], msgs')
<1>1. node \in [Node -> NodeState]
  BY Zenon DEF IndInv, TypeOK
<1>2. node' = [node EXCEPT ![n] = t]
  BY Zenon DEF Become
<1>3. msgs \cup t.sent \subseteq msgs'
  <2>1. node'[n] = t
    BY <1>1, <1>2, Zenon
  <2>2. \A m \in Node : node[m].sent \subseteq node'[m].sent
    BY <1>1, <1>2, Zenon
  <2>3. UNION {node[m].sent : m \in Node} \subseteq UNION {node'[m].sent : m \in Node}
    BY <2>2, Zenon
  <2>4. t.sent \subseteq UNION {node'[m].sent : m \in Node}
    BY <2>1, Zenon
  <2> QED
    BY <2>3, <2>4, Zenon DEF msgs, FromElsewhere
<1>4. Backed(node[n], msgs) /\ node[n] \in NodeState
  BY <1>1, Zenon DEF IndInv, AllBacked
<1>5. Backed(node[n], msgs')
  BY <1>3, <1>4, BackedMonotone, Zenon
<1> QED
  BY <1>1, <1>2, <1>3, <1>4, <1>5, Zenon

\* Sound nodes that step stay sound; confirmed blocks yield only to quorums.
LEMMA SoundStep ==
    ASSUME IndInv, SoundInv, [Next]_vars
    PROVE  SoundInv' /\ \A n \in Node : Holds(node[n], node'[n])
<1>1. CASE UNCHANGED vars
  BY <1>1, SMTT(30) DEF vars, bounds, SoundInv, Holds, Yields
<1>2. CASE Next
  <2>1. PICK n \in Node : \E t : NodeStep(n, t)
    BY <1>2, NextIsNodeStep, Zenon
  <2>2. PICK t : NodeStep(n, t)
    BY <2>1, Zenon
  <2>n. node[n] \in NodeState /\ Become(n, t) /\ Sound(node[n])
    BY <2>2, Zenon DEF IndInv, TypeOK, NodeStep, SoundInv
  <2> DEFINE s == node[n]
  <2>3. SUFFICES /\ t \in NodeState /\ s.sent \subseteq t.sent
                 /\ Sound(t) /\ Yields(s, t, msgs')
                 /\ restarts' = 0 => restarts = 0
                 /\ restarts' = 0 /\ Woken(s) => Woken(t)
    <3>1. /\ node'[n] = t
          /\ \A m \in Node : m # n => node'[m] = node[m]
      BY <2>n, <2>3, BecomeGrows, Zenon
    <3>2. \A m \in Node : m # n => Holds(node[m], node'[m])
      BY <3>1, Zenon DEF Holds, Yields
    <3>3. Holds(node[n], node'[n])
      BY <2>3, <3>1, Zenon DEF Holds
    <3>4. SoundInv'
      BY <2>3, <3>1, Zenon DEF SoundInv
    <3> QED
      BY <3>2, <3>3, <3>4, Zenon
  <2> DEFINE M == msgs'
  <2>4. ASSUME NEW u, Move(s, u, M), Woken(s)
        PROVE  Woken(u)
    BY <2>4, Zenon DEF Move, Wakes, Woken
  <2>5. CASE UNCHANGED bounds /\ Handles(n, s, t)
    <3>1. t \in NodeState /\ s.sent \subseteq t.sent
      BY <2>n, <2>5, HandlesSends, Zenon
    <3>2. t.sent \subseteq M /\ Backed(s, M)
      BY <2>n, <3>1, BecomeGrows, Zenon
    <3>3. Move(s, t, M)
      BY <2>n, <2>5, <3>2, HandlesMove, Zenon
    <3> QED
      BY <2>4, <2>5, <3>3, Zenon DEF Move, bounds
  <2>6. CASE UNCHANGED bounds /\ Counts(s, t)
    <3>1. PICK r \in Rep, b \in Block : Ack(r, b) \in msgs /\ t = vote(s, r, b)
      BY <2>6, Zenon DEF Counts
    <3>2. t \in NodeState /\ t.sent = s.sent
      BY <2>n, <3>1, VoteBacked, Zenon
    <3>3. msgs \subseteq M /\ Backed(s, M)
      BY <2>n, <3>2, BecomeGrows, Zenon
    <3> HIDE DEF M
    <3>4. Move(s, t, M)
      BY <2>n, <3>1, <3>3, VoteMove, Zenon
    <3> QED
      BY <2>4, <2>6, <3>4, Zenon DEF Move, bounds, M
  <2>7. CASE UNCHANGED bounds /\ Dequeues(n, s, t)
    <3>1. PICK h \in Block, u \in NodeState :
            /\ Handles(n, [s EXCEPT !.blocksAcked = @ \ {h}], u)
            /\ t = [u EXCEPT !.unchecked[h] = NoBlock]
      BY <2>7, Zenon DEF Dequeues
    <3> DEFINE s1 == [s EXCEPT !.blocksAcked = @ \ {h}]
    <3>2. /\ s1 \in NodeState /\ s1.ledger = s.ledger /\ s1.roots = s.roots
          /\ s1.unchecked = s.unchecked /\ s1.sent = s.sent
          /\ s1.blocksAcked = s.blocksAcked \ {h}
      BY <2>n, Zenon DEF NodeState
    <3>3. Sound(s1)
      BY <2>n, <3>2, Zenon DEF Sound, LedgerOK, HasBlock, Keys, Waits
    <3>4. Handles(n, s1, u)
      BY <3>1, Zenon
    <3> HIDE DEF s1, s
    <3>5. s1.sent \subseteq u.sent
      BY <3>2, <3>4, HandlesSends, Zenon
    <3>6. /\ t \in NodeState /\ t.ledger = u.ledger /\ t.roots = u.roots
          /\ t.unchecked = [u.unchecked EXCEPT ![h] = NoBlock]
          /\ t.sent = u.sent /\ t.blocksAcked = u.blocksAcked
      BY <3>1, Zenon DEF NodeState
    <3>7. s.sent \subseteq t.sent
      BY <3>2, <3>5, <3>6, Zenon
    <3>8. t.sent \subseteq M /\ Backed(s, M)
      BY <2>n, <3>6, <3>7, BecomeGrows, Zenon DEF s
    <3> HIDE DEF M
    <3>9. Backed(s1, M)
      BY <3>2, <3>8, Zenon DEF Backed, VotesBacked
    <3>10. Move(s1, u, M)
      BY <3>2, <3>3, <3>4, <3>6, <3>8, <3>9, HandlesMove, Zenon
    <3>11. u.unchecked \in [Block -> Block \cup {NoBlock}]
      BY Zenon DEF NodeState
    <3>12. Sound(t)
      <4>1. LedgerOK(u) /\ Keys(u) /\ Waits(u)
        BY <3>10, Zenon DEF Move, Sound
      <4>2. LedgerOK(t)
        BY <3>6, <4>1, Zenon DEF LedgerOK, HasBlock
      <4>3. Keys(t)
        BY <3>6, <4>1, Zenon DEF Keys
      <4>4. Waits(t)
        BY <3>6, <3>11, <4>1, Zenon DEF Waits
      <4> QED
        BY <4>2, <4>3, <4>4, Zenon DEF Sound
    <3>13. Yields(s, t, M)
      <4>1. Yields(s1, u, M)
        BY <3>10, Zenon DEF Move
      <4> QED
        BY <3>2, <3>6, <4>1, Zenon DEF Yields
    <3>14. Woken(s) => Woken(t)
      <4> SUFFICES ASSUME Woken(s), NEW j \in t.ledger, t.unchecked[j] # NoBlock
                   PROVE  j \in t.blocksAcked
        BY Zenon DEF Woken
      <4>1. j \in Block /\ j # h /\ u.unchecked[j] # NoBlock /\ j \in u.ledger
        BY <3>6, <3>11, Zenon DEF NodeState
      <4>2. \/ j \in u.blocksAcked
            \/ j \in s1.ledger /\ s1.unchecked[j] # NoBlock
        BY <3>10, <4>1, Zenon DEF Move, Wakes
      <4>3. j \in s1.ledger /\ s1.unchecked[j] # NoBlock => j \in s1.blocksAcked
        BY <3>2, <4>1, Zenon DEF Woken
      <4> QED
        BY <3>6, <3>10, <4>2, <4>3, Zenon DEF Move, Wakes
    <3> QED
      BY <2>7, <3>6, <3>7, <3>12, <3>13, <3>14, Zenon DEF bounds, M
  <2>8. CASE ShedsFor(n, t)
    <3>1. /\ t \in NodeState /\ t.ledger = s.ledger /\ t.sent = s.sent
          /\ \A k \in VoteKey : Contest(s.roots[k], k) => Contest(t.roots[k], k)
          /\ \A h \in Block : t.unchecked[h] \in {NoBlock, s.unchecked[h]}
      BY <2>8, SMTT(30) DEF ShedsFor, Sheds
    <3>2. Sound(t)
      BY <2>n, <3>1, Zenon DEF Sound, LedgerOK, HasBlock, Keys, Waits
    <3>3. Yields(s, t, M)
      BY <3>1, Zenon DEF Yields
    <3>4. restarts' = 0 => restarts = 0 /\ t.blocksAcked = s.blocksAcked
      BY <2>8 DEF ShedsFor
    <3>5. restarts' = 0 /\ Woken(s) => Woken(t)
      BY <3>1, <3>4, SMTT(30) DEF Woken, NodeState
    <3> QED
      BY <3>1, <3>2, <3>3, <3>4, <3>5, SMTT(30)
  <2> QED
    BY <2>2, <2>5, <2>6, <2>7, <2>8, Zenon DEF NodeStep
<1> QED
  BY <1>1, <1>2, Zenon

\* At the start there is nothing to be sound about.
LEMMA InitIsSound == Init => SoundInv
<1> SUFFICES ASSUME Init, NEW n \in Node
             PROVE  Sound(node[n]) /\ Woken(node[n])
  BY Zenon DEF SoundInv
<1>1. /\ node[n].ledger = {}
      /\ node[n].roots = [k \in VoteKey |-> NoElection]
      /\ node[n].unchecked = [b \in Block |-> NoBlock]
  BY Zenon DEF Init
<1>2. \A k : Contest(NoElection, k)
  BY Zenon DEF Contest, NoElection
<1>3. Keys(node[n]) /\ Waits(node[n])
  BY <1>1, <1>2, Zenon DEF Keys, Waits
<1> QED
  BY <1>1, <1>3, Zenon DEF Sound, LedgerOK, Woken

-----------------------------------------------------------------------------
\* For any nodes, representatives, quorums, blocks and bounds: what a node has
\* confirmed is one chain from Root, whatever comes between the opening of an
\* election and haveQuorum (BlockProcess refuses a winner without its previous
\* block, rollBack takes all of a branch).
THEOREM LedgersStayChains == Spec => []LedgerIsChain
<1>1. SoundInv => LedgerIsChain
  BY Zenon DEF SoundInv, Sound, LedgerOK, LedgerIsChain
<1> QED
  BY <1>1, InitEstablishes, InitIsSound, IndInvInductive, SoundStep, PTL DEF Spec

\* For any nodes, representatives, quorums, blocks and bounds: without a restart,
\* a gap block whose previous block is confirmed has been announced to
\* dequeueUnchecked, also when an election confirms a block it did not vote for,
\* and when blocks were rolled back or given up in between.
THEOREM GapsAreWoken == Spec => []GapBlocksAreWoken
<1>1. SoundInv => GapBlocksAreWoken
  BY Zenon DEF SoundInv, Woken, GapBlocksAreWoken
<1> QED
  BY <1>1, InitEstablishes, InitIsSound, IndInvInductive, SoundStep, PTL DEF Spec

\* For any nodes, representatives, quorums, blocks and bounds: rollBack takes a
\* confirmed block away only when representatives with a majority of the weight
\* have voted for a rival of it, or of a block below it.
THEOREM RollbacksNeedQuorum == Spec => RollbackNeedsQuorum
<1> DEFINE P == \A n \in Node : \A b \in node[n].ledger \ node'[n].ledger :
                  \E c \in Block : /\ \E d \in Chain[b] : Rivals(c, d)
                                   /\ \E Q \in Quorum : Q \subseteq Acked(c)'
<1>1. ASSUME IndInv, SoundInv, [Next]_vars
      PROVE  P
  <2>1. \A n \in Node : Yields(node[n], node'[n], msgs')
    BY <1>1, SoundStep, Zenon DEF Holds
  <2>2. ASSUME NEW c \in Block, QuorumIn(c, msgs')
        PROVE  \E Q \in Quorum : Q \subseteq Acked(c)'
    BY <2>2, QuorumAssumption, Zenon DEF QuorumIn, Acked
  <2> QED
    BY <2>1, <2>2, Zenon DEF Yields
<1>2. IndInv /\ SoundInv /\ [Next]_vars => [P]_vars
  BY <1>1, Zenon
<1> QED
  BY <1>2, InitEstablishes, InitIsSound, IndInvInductive, SoundStep, PTL
     DEF Spec, RollbackNeedsQuorum

-----------------------------------------------------------------------------
(***************************************************************************)
(* Agreement.  While no election is given up and no node restarts, a node  *)
(* votes for one of several rivals only, unless it confirms another: then  *)
(* it votes for that one too, but then a quorum has voted for it and for   *)
(* nothing else.  So at each key either every representative has voted for *)
(* at most one block, or one block has a quorum that voted for no other;   *)
(* both exclude a second quorum.                                           *)
(***************************************************************************)
Once(k, M) ==
    \A r \in Rep : \A b, c \in Block :
      prev[b] = k /\ prev[c] = k /\ Ack(r, b) \in M /\ Ack(r, c) \in M => b = c

Settled(k, M) ==
    \E b \in Block : \E Q \in Quorum :
      /\ prev[b] = k
      /\ \A r \in Q : /\ Ack(r, b) \in M
                      /\ \A c \in Block : Rivals(b, c) => Ack(r, c) \notin M

Fair(M) == \A k \in VoteKey : Once(k, M) \/ Settled(k, M)

OneQuorum(M) ==
    \A b, c \in Block : Rivals(b, c) => ~(QuorumIn(b, M) /\ QuorumIn(c, M))

\* The node votes for its representatives only, and what it has voted for it
\* knows from its election, or from the block that it has confirmed since.
Remembers(n, s) ==
    \A r \in Rep : \A x \in Block : Ack(r, x) \in s.sent =>
      /\ Home[r] = n
      /\ \/ Children(s, prev[x]) # {}
         \/ s.roots[prev[x]].voteHash = x

Calm(n, s) ==
    /\ s.timer = Idle
    /\ \A k \in VoteKey : s.roots[k] # NoElection => HasBlock(s, k)
    /\ Remembers(n, s)

Undisturbed == giveUps = 0 /\ restarts = 0 /\ \A r \in Rep : Home[r] \in Node

CalmInv == Undisturbed => Fair(msgs) /\ \A n \in Node : Calm(n, node[n])

\* Two quorums have a representative in common, who would have voted for both.
LEMMA FairHasOneQuorum ==
    ASSUME NEW M, Fair(M)
    PROVE  OneQuorum(M)
<1> SUFFICES ASSUME NEW b \in Block, NEW c \in Block, Rivals(b, c),
                    QuorumIn(b, M), QuorumIn(c, M)
             PROVE  FALSE
  BY Zenon DEF OneQuorum
<1>1. PICK P \in Quorum : \A r \in P : Ack(r, b) \in M
  BY Zenon DEF QuorumIn
<1>2. PICK Q \in Quorum : \A r \in Q : Ack(r, c) \in M
  BY Zenon DEF QuorumIn
<1>k. prev[b] \in VoteKey /\ b # c /\ prev[b] = prev[c]
  BY BlockAssumption, Zenon DEF VoteKey, Rivals
<1>3. CASE Once(prev[b], M)
  <2>1. PICK r \in P \cap Q : r \in Rep
    BY QuorumAssumption
  <2> QED
    BY <1>1, <1>2, <1>k, <1>3, <2>1, Zenon DEF Once
<1>4. CASE Settled(prev[b], M)
  <2>1. PICK a \in Block, R \in Quorum :
          /\ prev[a] = prev[b]
          /\ \A r \in R : \A d \in Block : Rivals(a, d) => Ack(r, d) \notin M
    BY <1>4, Zenon DEF Settled
  <2>2. \E r \in R : r \in P
    BY QuorumAssumption, Zenon
  <2>3. \E r \in R : r \in Q
    BY QuorumAssumption, Zenon
  <2>4. ~Rivals(a, b)
    BY <1>1, <2>1, <2>2, Zenon
  <2>5. ~Rivals(a, c)
    BY <1>2, <2>1, <2>3, Zenon
  <2> QED
    BY <1>k, <2>1, <2>4, <2>5, Zenon DEF Rivals
<1> QED
  BY <1>k, <1>3, <1>4, Zenon DEF Fair

\* One more vote, for a block the representative has voted for or that has a
\* quorum, or the first vote at its key.
LEMMA FairVote ==
    ASSUME NEW M, NEW N, Fair(M), M \subseteq N,
           NEW q \in Rep, NEW x \in Block,
           \A r \in Rep : \A b \in Block :
             Ack(r, b) \in N \ M => r = q /\ b = x,
           \/ \A y \in Block : Ack(q, y) \in M => ~Rivals(x, y)
           \/ QuorumIn(x, M)
    PROVE  Fair(N)
<1> SUFFICES ASSUME NEW k \in VoteKey
             PROVE  Once(k, N) \/ Settled(k, N)
  BY Zenon DEF Fair
<1>q. \A Q \in Quorum : Q \subseteq Rep
  BY QuorumAssumption, Zenon
<1>1. CASE k # prev[x]
  <2>1. CASE Once(k, M)
    BY <1>1, <2>1, Zenon DEF Once
  <2>2. CASE Settled(k, M)
    <3>1. PICK b \in Block, Q \in Quorum :
            /\ prev[b] = k
            /\ \A r \in Q : /\ Ack(r, b) \in M
                            /\ \A c \in Block : Rivals(b, c) => Ack(r, c) \notin M
      BY <2>2, Zenon DEF Settled
    <3>2. \A r \in Q : \A c \in Block : Rivals(b, c) => Ack(r, c) \notin N
      BY <1>1, <1>q, <3>1, Zenon DEF Rivals
    <3> QED
      BY <3>1, <3>2, Zenon DEF Settled
  <2> QED
    BY <2>1, <2>2, Zenon DEF Fair
<1>2. CASE k = prev[x]
  <2>1. CASE Settled(k, M)
    <3>1. PICK b \in Block, Q \in Quorum :
            /\ prev[b] = k
            /\ \A r \in Q : /\ Ack(r, b) \in M
                            /\ \A c \in Block : Rivals(b, c) => Ack(r, c) \notin M
      BY <2>1, Zenon DEF Settled
    <3>2. q \in Q => x = b
      <4>1. CASE QuorumIn(x, M)
        <5>1. PICK P \in Quorum : \A r \in P : Ack(r, x) \in M
          BY <4>1, Zenon DEF QuorumIn
        <5>2. PICK r \in Q : r \in P
          BY QuorumAssumption, Zenon
        <5>3. ~Rivals(b, x)
          BY <3>1, <5>1, <5>2, Zenon
        <5> QED
          BY <1>2, <3>1, <5>3, Zenon DEF Rivals
      <4>2. CASE \A y \in Block : Ack(q, y) \in M => ~Rivals(x, y)
        BY <1>2, <3>1, <4>2, Zenon DEF Rivals
      <4> QED
        BY <4>1, <4>2, Zenon
    <3>3. \A r \in Q : \A c \in Block : Rivals(b, c) => Ack(r, c) \notin N
      BY <1>q, <3>1, <3>2, Zenon DEF Rivals
    <3> QED
      BY <3>1, <3>3, Zenon DEF Settled
  <2>2. CASE Once(k, M) /\ ~Settled(k, M)
    <3>1. ~QuorumIn(x, M)
      <4> SUFFICES ASSUME NEW P \in Quorum, \A r \in P : Ack(r, x) \in M
                   PROVE  Settled(k, M)
        BY <2>2, Zenon DEF QuorumIn
      <4>1. \A r \in P : \A c \in Block : Rivals(x, c) => Ack(r, c) \notin M
        BY <1>2, <1>q, <2>2, Zenon DEF Once, Rivals
      <4> QED
        BY <1>2, <4>1, Zenon DEF Settled
    <3>2. \A y \in Block : Ack(q, y) \in M => ~Rivals(x, y)
      BY <3>1, Zenon
    <3> QED
      BY <1>2, <2>2, <3>2 DEF Once, Rivals
  <2> QED
    BY <2>1, <2>2, Zenon DEF Fair
<1> QED
  BY <1>1, <1>2, Zenon

\* The same votes are as fair.
LEMMA FairSame ==
    ASSUME NEW M, NEW N, Fair(M), M \subseteq N,
           \A r \in Rep : \A b \in Block : Ack(r, b) \in N => Ack(r, b) \in M
    PROVE  Fair(N)
<1> SUFFICES ASSUME NEW k \in VoteKey
             PROVE  Once(k, N) \/ Settled(k, N)
  BY Zenon DEF Fair
<1>1. CASE Once(k, M)
  BY <1>1, Zenon DEF Once
<1>2. CASE Settled(k, M)
  <2>1. \A Q \in Quorum : Q \subseteq Rep
    BY QuorumAssumption, Zenon
  <2> QED
    BY <1>2, <2>1, Zenon DEF Settled
<1> QED
  BY <1>1, <1>2, Zenon DEF Fair

\* A preparation does not disturb a calm node.
LEMMA PrepareCalm ==
    ASSUME NEW n \in Node, NEW s \in NodeState, NEW u \in NodeState, Prepares(s, u),
           Calm(n, s)
    PROVE  Calm(n, u)
<1>1. \A k \in VoteKey : u.roots[k] # NoElection => HasBlock(u, k)
  BY Zenon DEF Prepares, Calm, HasBlock
<1>2. Remembers(n, u)
  <2> SUFFICES ASSUME NEW r \in Rep, NEW x \in Block, Ack(r, x) \in u.sent
               PROVE  /\ Home[r] = n
                      /\ \/ Children(u, prev[x]) # {}
                         \/ u.roots[prev[x]].voteHash = x
    BY Zenon DEF Remembers
  <2>1. Ack(r, x) \in s.sent
    BY DEF Prepares, Ack
  <2>2. prev[x] \in VoteKey
    BY BlockAssumption, Zenon DEF VoteKey
  <2>3. Children(u, prev[x]) = Children(s, prev[x])
    BY Zenon DEF Prepares, Children
  <2> QED
    BY <2>1, <2>2, <2>3, Zenon DEF Prepares, Calm, Remembers
<1> QED
  BY <1>1, <1>2, Zenon DEF Prepares, Calm

\* A calm node goes from s to t, stays calm and takes nothing back.
CalmMove(n, s, t) ==
    /\ Calm(n, t) /\ t.sent = s.sent
    /\ s.ledger \subseteq t.ledger
    /\ \A j \in VoteKey :
         s.roots[j] # NoElection => t.roots[j] # NoElection \/ Children(t, j) # {}

\* Nothing is rolled back when no two rivals have a quorum, and an election that
\* ends leaves a confirmed block.
LEMMA ConfirmCalm ==
    ASSUME NEW n \in Node, NEW s \in NodeState, NEW M, Sound(s), Backed(s, M),
           OneQuorum(M), Calm(n, s),
           NEW k \in VoteKey, NEW c \in s.roots[k].blocks, HasQuorum(s.roots[k], c)
    PROVE  CalmMove(n, s, Confirm(s, k, c))
<1> DEFINE t == Confirm(s, k, c)
<1>1. /\ c \in Block /\ prev[c] = k
      /\ t \in NodeState
      /\ t.roots = [s.roots EXCEPT ![k] = NoElection]
      /\ t.timer = s.timer /\ t.sent = s.sent
      /\ (\A b \in s.ledger : \A d \in Chain[b] : ~Rivals(c, d)) =>
           /\ s.ledger \subseteq t.ledger
           /\ HasBlock(s, k) => Children(t, k) # {}
  BY ConfirmShape
<1> HIDE DEF t
<1>p. \A x \in Block : prev[x] \in VoteKey
  BY BlockAssumption, Zenon DEF VoteKey
<1>2. QuorumIn(c, M)
  <2>1. VotesFor(s.roots[k], c) \in Quorum
    BY Zenon DEF HasQuorum
  <2>2. \A r \in VotesFor(s.roots[k], c) : Ack(r, c) \in M
    BY <1>1, BlockAssumption, Zenon DEF VotesFor, Backed, VotesBacked
  <2> QED
    BY <2>1, <2>2, Zenon DEF QuorumIn
<1>3. \A b \in s.ledger : \A d \in Chain[b] : ~Rivals(c, d)
  <2> TAKE b \in s.ledger
  <2>1. s.ledger \in SUBSET Block
    BY Zenon DEF NodeState
  <2>2. \A d \in s.ledger : prev[d] \in s.ledger \cup {Root}
    BY Zenon DEF Sound, LedgerOK, HasBlock
  <2>3. Chain[b] \subseteq s.ledger
    BY <2>1, <2>2, ChainInClosed, Zenon
  <2>4. \A d \in s.ledger : QuorumIn(d, M)
    BY Zenon DEF Backed
  <2> QED
    BY <1>1, <1>2, <2>1, <2>3, <2>4, Zenon DEF OneQuorum
<1>4. HasBlock(s, k)
  <2>1. s.roots[k] # NoElection
    BY DEF NoElection
  <2> QED
    BY <2>1, Zenon DEF Calm
<1>5. s.ledger \subseteq t.ledger /\ Children(t, k) # {}
  BY <1>1, <1>3, <1>4, Zenon
<1>6. \A j : Children(s, j) \subseteq Children(t, j)
  BY <1>5, Zenon DEF Children
<1>7. \A j \in VoteKey : t.roots[j] = IF j = k THEN NoElection ELSE s.roots[j]
  <2>1. s.roots \in [VoteKey -> Election]
    BY Zenon DEF NodeState
  <2> QED
    BY <1>1, <2>1, Zenon
<1>8. \A j \in VoteKey : t.roots[j] # NoElection => HasBlock(t, j)
  BY <1>5, <1>7, Zenon DEF Calm, HasBlock
<1>9. Remembers(n, t)
  <2> SUFFICES ASSUME NEW q \in Rep, NEW x \in Block, Ack(q, x) \in t.sent
               PROVE  /\ Home[q] = n
                      /\ \/ Children(t, prev[x]) # {}
                         \/ t.roots[prev[x]].voteHash = x
    BY Zenon DEF Remembers
  <2>1. /\ Home[q] = n
        /\ \/ Children(s, prev[x]) # {}
           \/ s.roots[prev[x]].voteHash = x
    BY <1>1, Zenon DEF Calm, Remembers
  <2> QED
    BY <1>p, <1>5, <1>6, <1>7, <2>1, Zenon
<1>10. Calm(n, t)
  BY <1>1, <1>8, <1>9, Zenon DEF Calm
<1>11. \A j \in VoteKey : s.roots[j] # NoElection =>
         t.roots[j] # NoElection \/ Children(t, j) # {}
  BY <1>5, <1>7, Zenon
<1> QED
  BY <1>1, <1>5, <1>10, <1>11, Zenon DEF t, CalmMove

\* Counting a vote does not disturb a calm node either.
LEMMA VoteCalm ==
    ASSUME NEW n \in Node, NEW s \in NodeState, NEW M, Sound(s), Backed(s, M),
           OneQuorum(M), Calm(n, s),
           NEW r \in Rep, NEW b \in Block, Ack(r, b) \in M
    PROVE  CalmMove(n, s, vote(s, r, b))
<1> DEFINE k == prev[b]
<1>1. PICK el \in Election :
        /\ SameContest(s.roots[k], el)
        /\ el = s.roots[k] \/ s.roots[k].valid
        /\ \A q \in Rep : el.repVotes[q] # s.roots[k].repVotes[q] =>
                            q = r /\ el.repVotes[q] = b
        /\ \/ vote(s, r, b) = PutElection(s, k, el)
           \/ \E c \in el.blocks :
                /\ HasQuorum(el, c)
                /\ vote(s, r, b) = Confirm(PutElection(s, k, el), k, c)
  BY VoteShape, Zenon
<1>2. k \in VoteKey
  BY BlockAssumption, Zenon DEF VoteKey
<1> HIDE DEF k
<1>u. PICK u : u = PutElection(s, k, el)
  BY Zenon
<1>3. /\ u \in NodeState
      /\ u.roots = [s.roots EXCEPT ![k] = el]
      /\ u.roots[k] = el
      /\ \A j \in VoteKey : u.roots[j] = IF j = k THEN el ELSE s.roots[j]
      /\ u.ledger = s.ledger /\ u.unchecked = s.unchecked
      /\ u.timer = s.timer
      /\ u.sent = s.sent
  BY <1>2, <1>u, PutElectionFields
<1>4. s.roots[k] # NoElection <=> el # NoElection
  <2>1. ~NoElection.valid
    BY Zenon DEF NoElection
  <2>2. el.valid = s.roots[k].valid
    BY <1>1, Zenon DEF SameContest
  <2> QED
    BY <1>1, <2>1, <2>2, Zenon
<1>5. el.voteHash = s.roots[k].voteHash
  BY <1>1, Zenon DEF SameContest
<1>6. \A j : Children(u, j) = Children(s, j)
  BY <1>3, Zenon DEF Children
<1>p. \A x \in Block : prev[x] \in VoteKey
  BY BlockAssumption, Zenon DEF VoteKey
<1>7. Calm(n, u)
  <2>1. \A j \in VoteKey : u.roots[j] # NoElection => HasBlock(u, j)
    BY <1>3, <1>4, Zenon DEF Calm, HasBlock
  <2>2. \A j \in VoteKey : u.roots[j].voteHash = s.roots[j].voteHash
    BY <1>3, <1>5, Zenon
  <2>3. Remembers(n, u)
    BY <1>3, <1>6, <1>p, <2>2, Zenon DEF Calm, Remembers
  <2> QED
    BY <1>3, <2>1, <2>3, Zenon DEF Calm
<1>8. CASE vote(s, r, b) = u
  BY <1>3, <1>4, <1>7, <1>8, Zenon DEF CalmMove
<1>9. Sound(u)
  <2>1. Keys(s) /\ Contest(s.roots[k], k)
    BY <1>2, Zenon DEF Sound, Keys
  <2>2. Contest(el, k)
    BY <1>1, <2>1, Zenon DEF Contest, SameContest
  <2>3. Keys(u)
    BY <1>3, <2>1, <2>2, Zenon DEF Keys
  <2> QED
    BY <1>3, <2>3, Zenon DEF Sound, LedgerOK, HasBlock, Waits
<1>10. Backed(u, M)
  <2>1. VotesBacked(u, M)
    BY <1>1, <1>2, <1>3 DEF Backed, VotesBacked
  <2> QED
    BY <1>3, <2>1, Zenon DEF Backed
<1>11. ASSUME NEW c \in el.blocks, HasQuorum(el, c), vote(s, r, b) = Confirm(u, k, c)
       PROVE  CalmMove(n, s, vote(s, r, b))
  <2>2. c \in u.roots[k].blocks /\ HasQuorum(u.roots[k], c)
    BY <1>3, <1>11, Zenon
  <2>3. CalmMove(n, u, Confirm(u, k, c))
    BY <1>2, <1>3, <1>7, <1>9, <1>10, <2>2, ConfirmCalm, Zenon
  <2> QED
    BY <1>3, <1>4, <1>11, <2>3, Zenon DEF CalmMove
<1> QED
  BY <1>1, <1>u, <1>8, <1>11, Zenon

\* The vote is counted in v; in t it is noted in the election, if there still is
\* one, and sent.
VoteIsNoted(s, v, t, r, b) ==
    /\ v \in NodeState
    /\ t.ledger = v.ledger /\ t.timer = v.timer
    /\ t.sent = v.sent \cup {Ack(r, b)} /\ v.sent = s.sent
    /\ \A j \in VoteKey : j # prev[b] => t.roots[j] = v.roots[j]
    /\ v.roots[prev[b]] = NoElection => t.roots[prev[b]] = NoElection
    /\ v.roots[prev[b]] # NoElection => t.roots[prev[b]].voteHash = b

\* What localRepVote does to an election and to what the node has sent.
LEMMA LocalRepVoteFields ==
    ASSUME NEW n \in Node, NEW s \in NodeState, NEW r \in Rep, NEW b \in Block, NEW t,
           t = [setVoteHash(vote(s, r, b), b) EXCEPT !.sent = @ \cup {Ack(r, b)}]
    PROVE  VoteIsNoted(s, vote(s, r, b), t, r, b)
<1>1. PICK v : v = vote(s, r, b)
  BY Zenon
<1>2. v \in NodeState /\ v.sent = s.sent
  BY <1>1, VoteBacked, Zenon
<1>3. prev[b] \in VoteKey
  BY BlockAssumption, Zenon DEF VoteKey
<1>4. PICK h : h = setVoteHash(v, b)
  BY Zenon
<1>5. /\ h \in NodeState
      /\ h.ledger = v.ledger /\ h.timer = v.timer /\ h.sent = v.sent
      /\ \A j \in VoteKey : j # prev[b] => h.roots[j] = v.roots[j]
      /\ v.roots[prev[b]] = NoElection => h.roots[prev[b]] = NoElection
      /\ v.roots[prev[b]] # NoElection => h.roots[prev[b]].voteHash = b
  <2>1. CASE h = v /\ v.roots[prev[b]] = NoElection
    BY <1>2, <2>1, Zenon
  <2>2. ASSUME NEW el \in Election, h = PutElection(v, prev[b], el),
               el = [v.roots[prev[b]] EXCEPT !.voteHash = b],
               v.roots[prev[b]] # NoElection
        PROVE  /\ h \in NodeState
               /\ h.ledger = v.ledger /\ h.timer = v.timer /\ h.sent = v.sent
               /\ \A j \in VoteKey : j # prev[b] => h.roots[j] = v.roots[j]
               /\ h.roots[prev[b]].voteHash = b
    <3>1. /\ h \in NodeState
          /\ h.roots = [v.roots EXCEPT ![prev[b]] = el]
          /\ h.roots[prev[b]] = el
          /\ \A j \in VoteKey : h.roots[j] = IF j = prev[b] THEN el ELSE v.roots[j]
          /\ h.ledger = v.ledger /\ h.unchecked = v.unchecked
          /\ h.blocksAcked = v.blocksAcked /\ h.timer = v.timer
          /\ h.sent = v.sent
      BY <1>2, <1>3, <2>2, PutElectionFields
    <3>2. v.roots[prev[b]] \in Election
      BY <1>2, <1>3, Zenon DEF NodeState
    <3>3. el.voteHash = b
      BY <2>2, <3>2, Zenon DEF Election
    <3> QED
      BY <1>3, <2>2, <3>1, <3>3, Zenon
  <2> QED
    BY <1>2, <1>4, <2>1, <2>2, SetVoteHashShape
<1>6. /\ t.ledger = h.ledger /\ t.timer = h.timer /\ t.roots = h.roots
      /\ t.sent = h.sent \cup {Ack(r, b)}
  BY <1>1, <1>4, <1>5, Zenon DEF NodeState
<1> QED
  BY <1>1, <1>2, <1>5, <1>6, Zenon DEF VoteIsNoted

\* A vote that may be given does not disturb a calm node.
LEMMA LocalRepVoteCalm ==
    ASSUME NEW n \in Node, NEW s \in NodeState, NEW M, Sound(s), Backed(s, M),
           OneQuorum(M), Calm(n, s), NEW r \in Rep, Home[r] = n,
           NEW b \in Block, May(s, b), Ack(r, b) \in M, NEW t,
           t = [setVoteHash(vote(s, r, b), b) EXCEPT !.sent = @ \cup {Ack(r, b)}]
    PROVE  Calm(n, t)
<1>1. PICK v : v = vote(s, r, b)
  BY Zenon
<1> DEFINE k == prev[b]
<1>2. CalmMove(n, s, v)
  BY <1>1, VoteCalm, Zenon
<1>3. /\ v \in NodeState
      /\ t.ledger = v.ledger /\ t.timer = v.timer
      /\ t.sent = v.sent \cup {Ack(r, b)} /\ v.sent = s.sent
      /\ \A j \in VoteKey : j # k => t.roots[j] = v.roots[j]
      /\ v.roots[k] = NoElection => t.roots[k] = NoElection
      /\ v.roots[k] # NoElection => t.roots[k].voteHash = b
  <2>1. VoteIsNoted(s, vote(s, r, b), t, r, b)
    BY LocalRepVoteFields, Zenon
  <2> QED
    BY <1>1, <2>1, Zenon DEF VoteIsNoted
<1>p. \A x \in Block : prev[x] \in VoteKey
  BY BlockAssumption, Zenon DEF VoteKey
<1>c. /\ \A j : Children(t, j) = Children(v, j)
      /\ \A j : Children(s, j) \subseteq Children(v, j)
  BY <1>2, <1>3, Zenon DEF Children, CalmMove
<1>4. \A j \in VoteKey : t.roots[j] # NoElection => HasBlock(t, j)
  BY <1>2, <1>3, Zenon DEF CalmMove, Calm, HasBlock
<1>5. b \in s.ledger => Children(t, k) # {}
  BY <1>c, Zenon DEF Children
<1>6. ASSUME NEW q \in Rep, NEW x \in Block, Ack(q, x) \in s.sent
      PROVE  /\ Home[q] = n
             /\ \/ Children(t, prev[x]) # {}
                \/ t.roots[prev[x]].voteHash = x
  <2>1. /\ Home[q] = n
        /\ \/ Children(s, prev[x]) # {}
           \/ s.roots[prev[x]].voteHash = x
    BY <1>6, Zenon DEF Calm, Remembers
  <2>2. \/ Children(v, prev[x]) # {}
        \/ v.roots[prev[x]].voteHash = x
    BY <1>2, <1>3, <1>6, Zenon DEF CalmMove, Calm, Remembers
  <2>3. CASE prev[x] # k
    BY <1>3, <1>p, <1>c, <2>1, <2>2, <2>3, Zenon
  <2>4. CASE prev[x] = k /\ v.roots[k] = NoElection
    BY <1>3, <1>c, <2>1, <2>2, <2>4, Zenon
  <2>5. CASE prev[x] = k /\ v.roots[k] # NoElection /\ x # b
    <3>1. Children(s, k) # {} => Children(t, k) # {}
      BY <1>c, Zenon
    <3>2. s.roots[k].voteHash = x => b \in s.ledger
      BY <2>5, BlockAssumption, Zenon DEF May
    <3> QED
      BY <1>5, <2>1, <2>5, <3>1, <3>2, Zenon
  <2>6. CASE prev[x] = k /\ v.roots[k] # NoElection /\ x = b
    BY <1>3, <2>1, <2>6, Zenon
  <2> QED
    BY <2>3, <2>4, <2>5, <2>6, Zenon
<1>7. \/ Children(t, k) # {}
      \/ t.roots[k].voteHash = b
  <2>1. CASE v.roots[k] # NoElection
    BY <1>3, <2>1, Zenon
  <2>2. CASE v.roots[k] = NoElection
    <3>1. s.roots[k] # NoElection => Children(v, k) # {}
      BY <1>2, <1>p, <2>2, Zenon DEF CalmMove
    <3> QED
      BY <1>5, <1>c, <3>1, Zenon DEF May
  <2> QED
    BY <2>1, <2>2, Zenon
<1>8. Remembers(n, t)
  <2> SUFFICES ASSUME NEW q \in Rep, NEW x \in Block, Ack(q, x) \in t.sent
               PROVE  /\ Home[q] = n
                      /\ \/ Children(t, prev[x]) # {}
                         \/ t.roots[prev[x]].voteHash = x
    BY Zenon DEF Remembers
  <2>1. Ack(q, x) \in s.sent \/ (q = r /\ x = b)
    BY <1>3, Zenon DEF Ack
  <2> QED
    BY <1>6, <1>7, <2>1, Zenon
<1> QED
  BY <1>2, <1>3, <1>4, <1>8, Zenon DEF CalmMove, Calm

\* A calm node that may vote for x has not voted for a rival, or x has a quorum.
LEMMA MayIsFair ==
    ASSUME IndInv, NEW n \in Node, NEW u \in NodeState, Calm(n, u),
           u.ledger = node[n].ledger, node[n].sent \subseteq u.sent,
           \A m \in Node : Calm(m, node[m]),
           NEW q \in Rep, Home[q] = n, NEW x \in Block, May(u, x)
    PROVE  \/ \A y \in Block : Ack(q, y) \in msgs => ~Rivals(x, y)
           \/ QuorumIn(x, msgs)
<1>1. CASE x \in u.ledger
  BY <1>1, Zenon DEF IndInv, AllBacked, Backed
<1>2. CASE x \notin u.ledger
  <2> SUFFICES ASSUME NEW y \in Block, Ack(q, y) \in msgs, Rivals(x, y)
               PROVE  FALSE
    BY Zenon
  <2>1. Ack(q, y) \notin FromElsewhere
    BY BlockAssumption, Zenon DEF Ack, FromElsewhere
  <2>2. PICK m \in Node : Ack(q, y) \in node[m].sent
    BY <2>1, Zenon DEF msgs
  <2>3. m = n
    BY <2>2, Zenon DEF Calm, Remembers
  <2>4. \/ Children(u, prev[y]) # {}
        \/ u.roots[prev[y]].voteHash = y
    BY <2>2, <2>3, Zenon DEF Calm, Remembers
  <2> QED
    BY <1>2, <2>4, BlockAssumption, Zenon DEF May, Rivals
<1> QED
  BY <1>1, <1>2, Zenon

\* A handler of a calm node: the votes stay fair, the node stays calm.  N is what
\* has been sent when the handler is done.
LEMMA HandlesCalm ==
    ASSUME IndInv, Fair(msgs), \A m \in Node : Calm(m, node[m]),
           NEW n \in Node, NEW s \in NodeState, Calm(n, s), Sound(s),
           s.ledger = node[n].ledger, s.sent = node[n].sent, s.roots = node[n].roots,
           NEW t, Handles(n, s, t),
           NEW N, msgs \subseteq N, t.sent \subseteq N,
           \A m \in N : m \in msgs \/ m \in t.sent
    PROVE  Fair(N) /\ Calm(n, t)
<1>1. PICK u \in NodeState :
        /\ Prepares(s, u)
        /\ \/ t = u
           \/ \E x \in Block : May(u, x) /\ t = localRepVote(n, u, x)
  BY Zenon DEF Handles
<1>2. Calm(n, u)
  BY <1>1, PrepareCalm, Zenon
<1>3. \A r \in Rep : \A b \in Block : Ack(r, b) \in u.sent => Ack(r, b) \in msgs
  <2>1. \A r \in Rep : \A b \in Block : Ack(r, b) \in u.sent => Ack(r, b) \in s.sent
    BY <1>1 DEF Prepares, Ack
  <2>2. s.sent \subseteq msgs
    BY Zenon DEF msgs
  <2> QED
    BY <2>1, <2>2, Zenon
<1>4. CASE t = u
  <2>1. Fair(N)
    BY <1>3, <1>4, FairSame, Zenon
  <2> QED
    BY <1>2, <1>4, <2>1, Zenon
<1>5. ASSUME NEW x \in Block, May(u, x), t = localRepVote(n, u, x), t # u
      PROVE  Fair(N) /\ Calm(n, t)
  <2>1. PICK r \in Rep :
          /\ Home[r] = n
          /\ t = [setVoteHash(vote(u, r, x), x) EXCEPT !.sent = @ \cup {Ack(r, x)}]
    BY <1>5, LocalRepVoteShape
  <2>2. t.sent = u.sent \cup {Ack(r, x)}
    <3>1. VoteIsNoted(u, vote(u, r, x), t, r, x)
      BY <2>1, LocalRepVoteFields, Zenon
    <3> QED
      BY <3>1, Zenon DEF VoteIsNoted
  <2>3. \A q \in Rep : \A b \in Block : Ack(q, b) \in N \ msgs => q = r /\ b = x
    <3> SUFFICES ASSUME NEW q \in Rep, NEW b \in Block, Ack(q, b) \in N, Ack(q, b) \notin msgs
                 PROVE  q = r /\ b = x
      BY Zenon
    <3>1. Ack(q, b) \in t.sent
      BY Zenon
    <3>2. Ack(q, b) = Ack(r, x)
      BY <1>3, <2>2, <3>1, Zenon
    <3> QED
      BY <3>2, Zenon DEF Ack
  <2>4. \/ \A y \in Block : Ack(r, y) \in msgs => ~Rivals(x, y)
        \/ QuorumIn(x, msgs)
    <3>1. u.ledger = node[n].ledger /\ node[n].sent \subseteq u.sent
      BY <1>1, Zenon DEF Prepares
    <3> QED
      BY <1>2, <1>5, <2>1, <3>1, MayIsFair, Zenon
  <2>5. Fair(N)
    BY <2>3, <2>4, FairVote
  <2>6. OneQuorum(N)
    BY <2>5, FairHasOneQuorum, Zenon
  <2>7. Backed(s, N)
    <3>1. Backed(node[n], msgs)
      BY Zenon DEF IndInv, AllBacked
    <3>2. Backed(s, msgs)
      BY <3>1, Zenon DEF Backed, VotesBacked
    <3> QED
      BY <3>2, BackedMonotone, Zenon
  <2>8. Sound(u) /\ Backed(u, N)
    <3>1. Move(s, u, N)
      BY <1>1, <2>7, PrepareMove, Zenon
    <3> QED
      BY <3>1, Zenon DEF Move
  <2>9. Ack(r, x) \in N
    BY <2>2, Zenon
  <2>10. Calm(n, t)
    BY <1>2, <1>5, <2>1, <2>6, <2>8, <2>9, LocalRepVoteCalm
  <2> QED
    BY <2>5, <2>10, Zenon
<1> QED
  BY <1>1, <1>4, <1>5, Zenon

\* Nothing disturbs calm nodes as long as nothing is given up or forgotten.
LEMMA CalmStep ==
    ASSUME IndInv, SoundInv, CalmInv, [Next]_vars
    PROVE  CalmInv'
<1>1. CASE UNCHANGED vars
  <2>1. node' = node /\ giveUps' = giveUps /\ restarts' = restarts /\ msgs' = msgs
    BY <1>1, Zenon DEF vars, bounds, msgs
  <2> QED
    BY <2>1, Zenon DEF CalmInv, Undisturbed
<1>2. CASE Next
  <2>1. PICK n \in Node : \E t : NodeStep(n, t)
    BY <1>2, NextIsNodeStep, Zenon
  <2>2. PICK t : NodeStep(n, t)
    BY <2>1, Zenon
  <2> SUFFICES ASSUME Undisturbed'
               PROVE  Fair(msgs') /\ \A m \in Node : Calm(m, node'[m])
    BY Zenon DEF CalmInv
  <2>3. UNCHANGED bounds /\ Undisturbed
    <3>1. UNCHANGED bounds
      <4>1. giveUps' = 0 /\ restarts' = 0
        BY Zenon DEF Undisturbed
      <4> QED
        BY <2>2, <4>1 DEF NodeStep, ShedsFor, bounds
    <3> QED
      BY <3>1, Zenon DEF Undisturbed, bounds
  <2>4. Fair(msgs) /\ \A m \in Node : Calm(m, node[m])
    BY <2>3, Zenon DEF CalmInv
  <2> DEFINE s == node[n]
  <2>n. s \in NodeState /\ Become(n, t) /\ Sound(s) /\ Calm(n, s)
    BY <2>2, <2>4, Zenon DEF IndInv, TypeOK, NodeStep, SoundInv
  <2>5. SUFFICES ASSUME t \in NodeState, s.sent \subseteq t.sent
                 PROVE  Fair(msgs') /\ Calm(n, t)
    <3>1. t \in NodeState /\ s.sent \subseteq t.sent
      <4>1. CASE Handles(n, s, t)
        BY <2>n, <4>1, HandlesSends, Zenon
      <4>2. CASE Counts(s, t)
        BY <2>n, <4>2, VoteBacked DEF Counts
      <4>3. CASE Dequeues(n, s, t)
        <5>1. PICK h \in Block, u \in NodeState :
                /\ Handles(n, [s EXCEPT !.blocksAcked = @ \ {h}], u)
                /\ t = [u EXCEPT !.unchecked[h] = NoBlock]
          BY <4>3, Zenon DEF Dequeues
        <5>2. PICK v : v = [s EXCEPT !.blocksAcked = @ \ {h}]
          BY Zenon
        <5>3. v \in NodeState /\ v.sent = s.sent
          BY <2>n, <5>2, Zenon DEF NodeState
        <5>4. v.sent \subseteq u.sent
          BY <5>1, <5>2, <5>3, HandlesSends, Zenon
        <5>5. t \in NodeState /\ t.sent = u.sent
          BY <5>1, Zenon DEF NodeState
        <5> QED
          BY <5>3, <5>4, <5>5, Zenon
      <4>4. CASE ShedsFor(n, t)
        BY <4>4, Zenon DEF ShedsFor, Sheds
      <4> QED
        BY <2>2, <4>1, <4>2, <4>3, <4>4, Zenon DEF NodeStep
    <3>2. Fair(msgs') /\ Calm(n, t)
      BY <2>5, <3>1, Zenon
    <3>3. node'[n] = t /\ \A m \in Node : m # n => node'[m] = node[m]
      BY <2>n, <3>1, BecomeGrows, Zenon
    <3> QED
      BY <2>4, <3>2, <3>3, Zenon
  <2>6. /\ msgs \subseteq msgs' /\ t.sent \subseteq msgs'
        /\ Backed(s, msgs')
        /\ node'[n] = t /\ \A m \in Node : m # n => node'[m] = node[m]
    BY <2>n, <2>5, BecomeGrows, Zenon
  <2>7. \A m \in msgs' : m \in msgs \/ m \in t.sent
    BY <2>6 DEF msgs, FromElsewhere
  <2>8. CASE Handles(n, s, t)
    BY <2>4, <2>n, <2>6, <2>7, <2>8, HandlesCalm, Zenon
  <2>9. CASE Counts(s, t)
    <3>1. PICK r \in Rep, b \in Block : Ack(r, b) \in msgs /\ t = vote(s, r, b)
      BY <2>9, Zenon DEF Counts
    <3>2. t.sent = s.sent
      BY <2>n, <3>1, VoteBacked, Zenon
    <3>3. s.sent \subseteq msgs
      BY Zenon DEF msgs
    <3>4. Fair(msgs')
      BY <2>4, <2>6, <2>7, <3>2, <3>3, FairSame, Zenon
    <3>5. OneQuorum(msgs')
      BY <3>4, FairHasOneQuorum, Zenon
    <3>6. CalmMove(n, s, t)
      BY <2>n, <2>6, <3>1, <3>5, VoteCalm, Zenon
    <3> QED
      BY <3>4, <3>6, Zenon DEF CalmMove
  <2>10. CASE Dequeues(n, s, t)
    <3>1. PICK h \in Block, u \in NodeState :
            /\ Handles(n, [s EXCEPT !.blocksAcked = @ \ {h}], u)
            /\ t = [u EXCEPT !.unchecked[h] = NoBlock]
      BY <2>10, Zenon DEF Dequeues
    <3>2. PICK v : v = [s EXCEPT !.blocksAcked = @ \ {h}]
      BY Zenon
    <3>3. /\ v \in NodeState /\ v.ledger = s.ledger /\ v.roots = s.roots
          /\ v.unchecked = s.unchecked /\ v.sent = s.sent /\ v.timer = s.timer
      BY <2>n, <3>2, Zenon DEF NodeState
    <3>4. Sound(v)
      BY <2>n, <3>3, Zenon DEF Sound, LedgerOK, HasBlock, Keys, Waits
    <3>5. Calm(n, v)
      BY <2>n, <3>3, Zenon DEF Calm, HasBlock, Remembers, Children
    <3>6. Handles(n, v, u)
      BY <3>1, <3>2, Zenon
    <3>7. /\ t.ledger = u.ledger /\ t.roots = u.roots
          /\ t.sent = u.sent /\ t.timer = u.timer
      BY <3>1, Zenon DEF NodeState
    <3>8. u.sent \subseteq msgs' /\ \A m \in msgs' : m \in msgs \/ m \in u.sent
      BY <2>6, <2>7, <3>7, Zenon
    <3>9. Fair(msgs') /\ Calm(n, u)
      BY <2>4, <2>6, <3>3, <3>4, <3>5, <3>6, <3>8, HandlesCalm, Zenon
    <3> QED
      BY <3>7, <3>9, Zenon DEF Calm, HasBlock, Remembers, Children
  <2>11. CASE ShedsFor(n, t)
    <3>1. /\ t.ledger = s.ledger /\ t.sent = s.sent
          /\ t.roots = s.roots /\ t.timer = s.timer
      BY <2>3, <2>n, <2>11, Zenon DEF ShedsFor, Sheds, Calm, bounds
    <3>2. s.sent \subseteq msgs
      BY Zenon DEF msgs
    <3>3. Fair(msgs')
      BY <2>4, <2>6, <2>7, <3>1, <3>2, FairSame, Zenon
    <3> QED
      BY <2>n, <3>1, <3>3, Zenon DEF Calm, HasBlock, Remembers, Children
  <2> QED
    BY <2>2, <2>8, <2>9, <2>10, <2>11, Zenon DEF NodeStep
<1> QED
  BY <1>1, <1>2, Zenon

\* Nobody has voted at the start, or only representatives elsewhere.
LEMMA InitIsCalm == Init => CalmInv
<1> SUFFICES ASSUME Init, Undisturbed
             PROVE  Fair(msgs) /\ \A n \in Node : Calm(n, node[n])
  BY Zenon DEF CalmInv
<1>1. \A n \in Node : /\ node[n].ledger = {} /\ node[n].sent = {}
                      /\ node[n].timer = Idle
                      /\ node[n].roots = [k \in VoteKey |-> NoElection]
  BY Zenon DEF Init
<1>2. \A n \in Node : Calm(n, node[n])
  BY <1>1, Zenon DEF Calm, Remembers
<1>3. \A r \in Rep : \A b \in Block : Ack(r, b) \notin msgs
  <2>1. \A r \in Rep : \A b \in Block : Ack(r, b) \notin FromElsewhere
    BY BlockAssumption DEF Undisturbed, FromElsewhere, Ack
  <2> QED
    BY <1>1, <2>1 DEF msgs
<1> QED
  BY <1>2, <1>3, Zenon DEF Fair, Once

\* For any nodes, representatives, quorums and blocks, whatever is lost, repeated
\* and reordered: as long as checkVotes gives no election up and no node restarts,
\* no two nodes write rival blocks.  localRepVote may vote again, but only for a
\* block that has its quorum.
THEOREM NodesAgree == Spec => []Agreement
<1>1. IndInv /\ CalmInv => Agreement
  <2> SUFFICES ASSUME IndInv, CalmInv, Undisturbed, NEW m \in Node, NEW n \in Node,
                      NEW b \in node[m].ledger, NEW c \in node[n].ledger, Rivals(b, c)
               PROVE  FALSE
    BY Zenon DEF Agreement, Undisturbed
  <2>1. OneQuorum(msgs)
    BY FairHasOneQuorum, Zenon DEF CalmInv
  <2>2. QuorumIn(b, msgs) /\ QuorumIn(c, msgs)
    BY Zenon DEF IndInv, AllBacked, Backed
  <2>3. b \in Block /\ c \in Block
    BY Zenon DEF IndInv, TypeOK, NodeState
  <2> QED
    BY <2>1, <2>2, <2>3, Zenon DEF OneQuorum
<1> QED
  BY <1>1, InitEstablishes, InitIsSound, InitIsCalm, IndInvInductive, SoundStep,
     CalmStep, PTL DEF Spec
=============================================================================
