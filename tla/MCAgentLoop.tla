----------------------------- MODULE MCAgentLoop -----------------------------
(* AgentLoop with one text stage; the two of the contract, pm and architect,  *)
(* run the same steps.                                                        *)
EXTENDS AgentLoopRefinement

OneTextStage  == <<"pm">>
NoTextStages  == << >>
TwoTextStages == <<"pm", "architect">>

(* Nothing reads wf.version but the bound on requests and the properties that *)
(* compare it before and after a step, so states that differ in it only are   *)
(* one state.                                                                 *)
Unversioned == <<run, attempt, version, stable, ended, wf.run, wf.status, stage,
                 artifact, loop, up, configured, reported>>
=============================================================================
