--------------------------- MODULE MCMemoryCache ---------------------------
(***************************************************************************)
(* Instances of MemoryCache for TLC.                                       *)
(***************************************************************************)
EXTENDS MemoryCacheBehind

OneWriter == {"w1"}
TwoWriters == {"w1", "w2"}

\* Two writers with two batches each; or with one each, and a reader; or one writer
\* with four batches, which turn the ring round, and a reader.
WriteOrReadTable == {
    [batches |-> [w \in Writer |-> 2], gets |-> {}],
    [batches |-> [w \in Writer |-> 1], gets |-> {"w1"} \X {1}],
    [batches |-> [w \in Writer |-> IF w = "w1" THEN 4 ELSE 0], gets |-> {"w1"} \X {1, 2}]}

\* All the batches, nobody reads.
WriteOnlyTable == {[batches |-> [w \in Writer |-> MaxBatch], gets |-> {}]}

\* A constant is given one of these, whose right-hand sides TLC evaluates once.
WriteOrRead == WriteOrReadTable
WriteOnly == WriteOnlyTable
=============================================================================
