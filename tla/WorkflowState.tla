---------------------------- MODULE WorkflowState ----------------------------
(***************************************************************************)
(* The project's workflow snapshot (internal/store/workflow_state.go): the *)
(* pointer to the latest run with its status and its monotonic             *)
(* state_version, the per-attempt stage rows, and the stage artifacts that *)
(* are the evidence for them.  Every operator here is the effect of one    *)
(* ...Tx helper; the helpers run inside the transactions of RunStore,      *)
(* which conjoins them.  Times and error codes are left out.  In all modules, a  *)
(* "variant with a defect" is a wrong form of the operator after it: put   *)
(* in its place it must break the property PROJECT.json names for it.      *)
(***************************************************************************)
EXTENDS Integers, Sequences

CONSTANTS
  MaxRuns,       \* runs are numbered in the order they are created
  MaxAttempts,   \* bound on the attempts of one run
  TextStages     \* the stages before "engineer", in contract order

ASSUME WorkflowAssumption ==
  /\ MaxRuns \in Nat \ {0}
  /\ MaxAttempts \in Nat \ {0}
  /\ TextStages \in Seq(STRING \ {"engineer", "qa"})

Run     == 1 .. MaxRuns
NoRun   == 0
Attempt == 1 .. MaxAttempts

Stage      == {TextStages[i] : i \in DOMAIN TextStages} \cup {"engineer", "qa"}
StageOrder == TextStages \o <<"engineer", "qa">>
NoStage    == "none"

LiveStatus     == {"queued", "running"}
WorkflowStatus == {"draft", "running", "completed", "failed", "cancelled",
                   "recovering"}
StageStatus    == {"none", "waiting", "running", "succeeded", "failed",
                   "cancelled"}

VARIABLES
  wf,        \* the project_workflow_states row: [run, status, version]
  stage,     \* the workflow_stage_runs rows: run -> attempt -> stage -> status
  artifact   \* the stage_artifacts rows: run -> attempt -> stages with one

wfVars == <<wf, stage, artifact>>

WorkflowRow == [run : Run \cup {NoRun}, status : WorkflowStatus, version : Nat]

WorkflowTypeOK ==
  /\ wf \in WorkflowRow
  /\ stage \in [Run -> [Attempt -> [Stage -> StageStatus]]]
  /\ artifact \in [Run -> [Attempt -> SUBSET Stage]]

(* initProjectWorkflowTx: a project starts as a draft that no run produced. *)
WorkflowInit ==
  /\ wf = [run |-> NoRun, status |-> "draft", version |-> 1]
  /\ stage = [r \in Run |-> [n \in Attempt |-> [s \in Stage |-> "none"]]]
  /\ artifact = [r \in Run |-> [n \in Attempt |-> {}]]

(* pointProjectWorkflowTx *)
PointTo(r, s) == [run |-> r, status |-> s, version |-> wf.version + 1]

(* Variant with a defect: the row is updated without a new state_version. *)
BumpForRunUnversioned(r, s) ==
  IF wf.run = r THEN [wf EXCEPT !.status = s] ELSE wf

(* bumpWorkflowForRunTx: the write of a run that is not the pointed one does *)
(* not move the pointer.  The row exists from the project's creation on, so  *)
(* its "no row" branch, kept for data older than the table, is not taken.    *)
BumpForRun(r, s) == IF wf.run = r THEN PointTo(r, s) ELSE wf

(* bumpProjectWorkflowSnapshotTx *)
BumpSnapshot == [wf EXCEPT !.version = @ + 1]

(* runWorkflowStatus *)
RunWorkflowStatus(s) ==
  CASE s \in LiveStatus    -> "running"
    [] s = "succeeded"     -> "completed"
    [] s = "failed"        -> "failed"
    [] s = "interrupted"   -> "cancelled"
    [] OTHER               -> "recovering"

(* initAttemptStagesTx: ON CONFLICT DO NOTHING keeps the rows there are. *)
InitStages(r, n) ==
  [stage EXCEPT ![r][n] =
     [s \in Stage |-> IF @[s] = "none" THEN "waiting" ELSE @[s]]]

(* setStageStateForAttemptTx *)
SetStage(r, n, s, to) == [stage EXCEPT ![r][n][s] = to]

(* applyWorkflowEventTx: the workflow status an event writes, and the status *)
(* it writes to its stage; the other event types change neither.             *)
EventWorkflow ==
  [run_started |-> "running", stage_started |-> "running",
   stage_artifact |-> "running", run_failed |-> "failed",
   run_completed |-> "completed"]
EventStage ==
  [stage_started |-> "running", stage_artifact |-> "succeeded",
   run_failed |-> "failed"]
=============================================================================
