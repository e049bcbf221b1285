----------------------------- MODULE MCRunStore -----------------------------
(* RunStore with two stages, "engineer" and "qa". *)
EXTENDS RunStore

NoTextStages == << >>
=============================================================================
