------------------------------ MODULE MCPovSync ------------------------------
(***************************************************************************)
(* An instance of PovSync for TLC: a main branch of three blocks and a     *)
(* side branch "b1" that outweighs the first two of them.                  *)
(***************************************************************************)
EXTENDS PovSync

MCBlock == {"g", "a1", "a2", "a3", "b1"}
TreeParent == [b \in MCBlock |-> CASE b = "a2" -> "a1" [] b = "a3" -> "a2" [] OTHER -> "g"]
TreeHeight == [b \in MCBlock |->
                CASE b = "g" -> 0 [] b \in {"a1", "b1"} -> 1 [] b = "a2" -> 2 [] b = "a3" -> 3]
TreeTD == [b \in MCBlock |->
            CASE b = "g" -> 0 [] b = "a1" -> 1 [] b = "a2" -> 2 [] b = "b1" -> 3 [] b = "a3" -> 4]

\* The node is new, and its peers are on the side branch.
FirstHeads == [p \in Peer |-> "b1"]

\* A constant is given one of these, whose right-hand sides TLC evaluates once.
MCParent == TreeParent
MCHeight == TreeHeight
MCTD == TreeTD
MCFirstHead == FirstHeads
==============================================================================
