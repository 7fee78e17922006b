--------------------------- MODULE HeaviestChain ---------------------------
(***************************************************************************)
(* What the chain of proof-of-work blocks promises to the rest of a node:  *)
(* a set of accepted blocks that only grows, and a head among them that no *)
(* accepted block outweighs and that changes branch near the top only.     *)
(* How the head is stored, what a crash interrupts and which indexes       *)
(* follow is left to PovChain, which implements this.                      *)
(***************************************************************************)
EXTENDS Integers

CONSTANTS Block, Genesis, prev, height, anc, td, PoVMaxForkHeight

VARIABLES
    accepted,
    head,
    faulty         \* the store refused a write: nothing is promised any more

vars == <<accepted, head, faulty>>

Init == accepted = {Genesis} /\ head = Genesis /\ ~faulty

\* b stands on one of the topmost blocks that the head stands on.
JoinsNearTop(b) ==
    \E h \in 0 .. height[head] :
        /\ h < height[b] /\ anc[b][h] = anc[head][h]
        /\ height[head] - h <= PoVMaxForkHeight

AcceptAside(b) ==
    /\ prev[b] \in accepted /\ td[b] <= td[head]
    /\ accepted' = accepted \cup {b}
    /\ UNCHANGED <<head, faulty>>

AcceptAsHead(b) ==
    /\ prev[b] \in accepted /\ td[b] >= td[head]
    /\ JoinsNearTop(b)
    /\ accepted' = accepted \cup {b}
    /\ head' = b
    /\ UNCHANGED faulty

Fail == faulty'

Next ==
    \/ \E b \in Block \ {Genesis} : AcceptAside(b) \/ AcceptAsHead(b)
    \/ Fail

Spec == Init /\ [][Next]_vars
============================================================================
