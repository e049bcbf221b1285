------------------------- MODULE MCWorkflowRecovery -------------------------
(* WorkflowRecovery, for TLC. *)
EXTENDS WorkflowRecovery

NoTextStages == << >>

(* States that differ in the stateVersion only are one. *)
Unversioned == <<processVars, conflict, runVars, loopVars,
                 wf = Missing, wf.run, wf.status, stage, artifact, disturbed>>
=============================================================================
