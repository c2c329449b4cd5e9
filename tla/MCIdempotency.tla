--------------------------- MODULE MCIdempotency ---------------------------
(* Finite instances of Idempotency. *)
EXTENDS Idempotency, TLC
CONSTANTS c1, c2, c3, c4
\* Two calls retry each other, one uses the key for something else.
MCFingerprint == [c \in Call |-> IF c = c4 THEN 2 ELSE 1]
Interchangeable == Permutations({c1, c2, c3})
=============================================================================
