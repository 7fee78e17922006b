--------------------------- MODULE MCPovProcessor ---------------------------
\* Instance of PovProcessor: a, its child b, and the mined block c beside
\* a; a and c hold the transaction t.
EXTENDS PovProcessor
CONSTANTS a, b, c, g, t
TreePrev == [x \in {a, b, c} |-> IF x = b THEN a ELSE g]
TreeTxs == [x \in {a, b, c} |-> IF x = b THEN {} ELSE {t}]

\* A constant is given one of these, whose right-hand sides TLC evaluates once.
MCPrev == TreePrev
MCTxs == TreeTxs
=============================================================================
