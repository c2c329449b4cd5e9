--------------------------- MODULE MCWebhookEvents ---------------------------
(* Finite instances of WebhookEvents. *)
EXTENDS WebhookEvents, TLC
CONSTANTS w1, w2
Interchangeable == Permutations({w1, w2})
=============================================================================
