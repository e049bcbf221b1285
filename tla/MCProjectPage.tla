--------------------------- MODULE MCProjectPage ---------------------------
(* ProjectPage without text stages: "engineer" and "qa". *)
EXTENDS ProjectPage

NoTextStages == << >>

(* States are the same for what follows when they differ in which answer is  *)
(* which, in an answer that the page will refuse (what refuses it now        *)
(* will refuse it later), in whether a model is configured when no request   *)
(* can ask for it, or in the context of a loop that has returned.            *)
Matters(c) == c.pc = "answered" /\ ShouldApply(c)
Calls == {load[q] : q \in {p \in Call : Matters(load[p])}}
Collapsed ==
  <<storeVars, [r \in Run |-> [n \in Attempt |->
       IF loop[r][n].pc = "done" THEN [NotLaunched EXCEPT !.pc = "done"] ELSE loop[r][n]]],
    up, reported, log, page, answer,
    configured /\ up /\ wf.version < MaxStateVersion,
    [c \in Calls |-> Cardinality({q \in Call : load[q] = c})]>>
=============================================================================
