---------------------------- MODULE MCPovChain ----------------------------
(***************************************************************************)
(* Instances of PovChain for TLC: trees of blocks, given by the previous   *)
(* block and the work of each.                                             *)
(***************************************************************************)
EXTENDS PovChain

HeightOf(up) ==
    LET h[b \in {"g"} \cup DOMAIN up] == IF b = "g" THEN 0 ELSE h[up[b]] + 1 IN h
TDOf(up, work) ==
    LET t[b \in {"g"} \cup DOMAIN up] == IF b = "g" THEN 1 ELSE t[up[b]] + work[b] IN t
AncOf(up) ==
    LET a[b \in {"g"} \cup DOMAIN up] ==
            IF b = "g" THEN [h \in {0} |-> "g"]
            ELSE [h \in 0 .. HeightOf(up)[b] |->
                     IF h = HeightOf(up)[b] THEN b ELSE a[up[b]][h]]
    IN a

\* Days of two blocks.  The branches of "a5" and "c5" weigh the same; "e2" is
\* shorter and heavier than "a3" and is outweighed by "a4".
MCBlock == {"g", "a1", "a2", "a3", "a4", "a5", "c3", "c4", "c5", "e2"}
TreePrev == [b \in MCBlock \ {"g"} |->
              CASE b = "a1" -> "g" [] b = "a2" -> "a1" [] b = "a3" -> "a2" [] b = "a4" -> "a3"
                [] b = "a5" -> "a4" [] b = "c3" -> "a2" [] b = "c4" -> "c3" [] b = "c5" -> "c4"
                [] b = "e2" -> "a1"]
TreeWork == [b \in MCBlock \ {"g"} |-> IF b = "e2" THEN 5 ELSE 2]
TreeHeight == HeightOf(TreePrev)
TreeAnc == AncOf(TreePrev)
TreeTD == TDOf(TreePrev, TreeWork)
\* "x" is packed at a different height of each branch, "y" on one only.
TreeTxs == [b \in MCBlock |->
             CASE b = "a4" -> {"x"} [] b = "c3" -> {"x"} [] b = "e2" -> {"x"}
               [] b = "a3" -> {"y"} [] OTHER -> {}]

\* A constant is given one of these, whose right-hand sides TLC evaluates once.
MCPrev == TreePrev
MCHeight == TreeHeight
MCAnc == TreeAnc
MCTD == TreeTD
MCTxs == TreeTxs
=============================================================================
