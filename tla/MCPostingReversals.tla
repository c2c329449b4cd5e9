------------------------- MODULE MCPostingReversals -------------------------
EXTENDS PostingReversals
CONSTANTS t1, t2, r1, r2
\* A transfer pair: one posting settles both transactions.
Pair == [t \in {t1, t2} |-> {t1, t2}]
=============================================================================
