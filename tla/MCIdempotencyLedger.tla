------------------------- MODULE MCIdempotencyLedger -------------------------
(* IdempotencyLedger for TLC: one key is enough to be repeated. *)
EXTENDS IdempotencyLedger, TLC

Interchangeable == Permutations(Request)
=============================================================================
