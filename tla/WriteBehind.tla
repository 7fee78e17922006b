---------------------------- MODULE WriteBehind ----------------------------
(***************************************************************************)
(* What the write cache promises to the ledger: batches that readers see   *)
(* at once and that reach the store later, whole, never out of the order   *)
(* in which one batch could depend on another, and never backwards.  A     *)
(* crash loses what is not in the store yet, a clean stop loses nothing.   *)
(* There is no ring, no flusher and no lock here; MemoryCache implements   *)
(* this.                                                                   *)
(***************************************************************************)
EXTENDS Integers, Sequences

CONSTANTS Writer, MaxBatch

Batch == 0 .. MaxBatch

VARIABLES
    begun,         \* per writer, its last batch
    written,       \* per writer, the last batch readers may see
    durable,       \* per writer, the last batch in the store
    deps,          \* per batch, what was written when it began
    closed,
    broken         \* a writer was overtaken: nothing is promised any more

vars == <<begun, written, durable, deps, closed, broken>>

None == [w \in Writer |-> 0]

Init ==
    /\ begun = None /\ written = None /\ durable = None
    /\ deps = [w \in Writer |-> <<>>]
    /\ ~closed /\ ~broken

Begin(w) ==
    /\ begun' = [begun EXCEPT ![w] = @ + 1]
    /\ deps' = [deps EXCEPT ![w] = Append(@, written)]
    /\ UNCHANGED <<written, durable, closed, broken>>

Write(w) ==
    /\ ~closed
    /\ written' = [written EXCEPT ![w] = begun[w]]
    /\ UNCHANGED <<begun, durable, deps, closed, broken>>

\* What a batch in the store rests on is in the store.
Causal(d) == \A v, w \in Writer : d[w] > 0 => d[v] >= deps[w][d[w]][v]

Persist ==
    /\ ~closed
    /\ durable' \in [Writer -> Batch]
    /\ \A w \in Writer : durable'[w] \in durable[w] .. written[w]
    /\ Causal(durable')
    /\ UNCHANGED <<begun, written, deps, closed, broken>>

Close ==
    /\ durable = written
    /\ closed'
    /\ UNCHANGED <<begun, written, durable, deps, broken>>

Crash ==
    /\ written' = durable
    /\ ~closed'
    /\ UNCHANGED <<begun, durable, deps, broken>>

Break == broken'

Next ==
    \/ \E w \in Writer : Begin(w) \/ Write(w)
    \/ Persist \/ Close \/ Crash \/ Break

Spec == Init /\ [][Next]_vars
============================================================================
