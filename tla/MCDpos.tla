------------------------------- MODULE MCDpos -------------------------------
(***************************************************************************)
(* Instances of Dpos for TLC.  Three representatives have one third of the *)
(* supply each: on three nodes, or one on the only node that is modelled   *)
(* and two elsewhere.                                                      *)
(***************************************************************************)
EXTENDS Dpos

MCNode == {1, 2, 3}
MCRep == {1, 2, 3}
MCHomeTable == [r \in MCRep |-> r]
OneHomeTable == [r \in MCRep |-> IF r = 1 THEN 1 ELSE 0]
MCQuorumTable == {Q \in SUBSET MCRep : 2 * Cardinality(Q) > Cardinality(MCRep)}

\* Two users make rival blocks on top of Root.
ForkPrevTable == [b \in {"a", "b"} |-> "root"]
ForkAuthorTable == [b \in {"a", "b"} |-> IF b = "a" THEN 1 ELSE 2]

\* Rival blocks on Root, and rival blocks on one of them; one user makes the
\* chain "a", "aa", the others are made elsewhere.
ChainPrevTable == [b \in {"a", "b", "aa", "ab"} |->
                IF b \in {"aa", "ab"} THEN "a" ELSE "root"]
ChainAuthorTable == [b \in {"a", "b", "aa", "ab"} |-> IF b \in {"a", "aa"} THEN 1 ELSE 0]

\* A constant is given one of these, whose right-hand sides TLC evaluates once.
MCHome == MCHomeTable
OneHome == OneHomeTable
MCQuorum == MCQuorumTable
ForkPrev == ForkPrevTable
ForkAuthor == ForkAuthorTable
ChainPrev == ChainPrevTable
ChainAuthor == ChainAuthorTable
=============================================================================
