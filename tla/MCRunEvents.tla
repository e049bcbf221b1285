---------------------------- MODULE MCRunEvents ----------------------------
(* RunEvents without text stages: a stream does not depend on them. *)
EXTENDS RunEvents

NoTextStages == << >>

(* As in MCAgentLoop, states that differ in wf.version only are one state. *)
Unversioned == <<run, attempt, version, stable, ended, wf.run, wf.status, stage,
                 artifact, loop, up, configured, reported, conn>>
=============================================================================
