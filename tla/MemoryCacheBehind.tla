------------------------- MODULE MemoryCacheBehind -------------------------
(***************************************************************************)
(* The ring of caches of MemoryCache as an implementation of WriteBehind.  *)
(***************************************************************************)
EXTENDS MemoryCache

\* A crash at any moment finds whole batches in the store, together with all that
\* was written before they began, and no flush puts an older batch over a newer
\* one (BatchUpdate, flush): the ring of caches implements WriteBehind.
Behind == INSTANCE WriteBehind WITH
    begun <- batch,
    written <- [w \in Writer |-> put[<<w, 1>>]],
    durable <- [w \in Writer |-> IF store[<<w, 1>>] = store[<<w, 2>>]
                                 THEN store[<<w, 1>>] ELSE -1],
    closed <- pc[Flusher] = "closed",
    broken <- overtaken
WritesBehind == Behind!Spec
=============================================================================
