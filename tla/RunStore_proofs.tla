--------------------------- MODULE RunStore_proofs ---------------------------
(***************************************************************************)
(* Proofs about the store for any number of runs, attempts, versions and   *)
(* text stages, and for any caller: Next of RunStore.                      *)
(***************************************************************************)
EXTENDS RunStore, WellFoundedInduction, TLAPS

(* A created run has a first attempt. *)
LEMMA AttemptOne == 1 \in Attempt
BY WorkflowAssumption DEF Attempt

(* What the helpers of workflow_state.go return is a row again. *)
LEMMA RunWorkflowStatusType ==
  ASSUME NEW s \in RunStatus PROVE RunWorkflowStatus(s) \in WorkflowStatus
BY DEF RunStatus, RunWorkflowStatus, WorkflowStatus, LiveStatus

(* What applyWorkflowEventTx makes of an event is a status the table admits. *)
LEMMA EventTypes ==
  /\ \A e \in DOMAIN EventWorkflow : EventWorkflow[e] \in WorkflowStatus
  /\ \A e \in DOMAIN EventStage : EventStage[e] \in StageStatus
BY DEF EventWorkflow, WorkflowStatus, EventStage, StageStatus

(* The pointer row keeps its type under the helpers that move it. *)
LEMMA BumpTypes ==
  ASSUME TypeOK
  PROVE  /\ wf \in WorkflowRow /\ BumpSnapshot \in WorkflowRow
         /\ \A r \in Run, s \in WorkflowStatus :
              BumpForRun(r, s) \in WorkflowRow /\ PointTo(r, s) \in WorkflowRow
<1>1. wf \in WorkflowRow
  BY DEF TypeOK, WorkflowTypeOK
<1>2. BumpSnapshot \in WorkflowRow
  BY <1>1 DEF WorkflowRow, BumpSnapshot
<1>3. ASSUME NEW r \in Run, NEW s \in WorkflowStatus
      PROVE  BumpForRun(r, s) \in WorkflowRow /\ PointTo(r, s) \in WorkflowRow
  BY <1>1 DEF WorkflowRow, BumpForRun, PointTo
<1> QED
  BY <1>1, <1>2, <1>3

(* So do the stage rows. *)
LEMMA StageTypes ==
  ASSUME TypeOK, NEW r \in Run, NEW n \in Attempt
  PROVE  /\ InitStages(r, n) \in [Run -> [Attempt -> [Stage -> StageStatus]]]
         /\ \A s \in Stage, to \in StageStatus :
              SetStage(r, n, s, to) \in [Run -> [Attempt -> [Stage -> StageStatus]]]
BY DEF TypeOK, WorkflowTypeOK, InitStages, SetStage, StageStatus

(* The rows a run's end writes keep their types. *)
LEMMA FinishTypes ==
  ASSUME TypeOK, NEW r \in Run, NEW n \in Attempt, NEW v \in Version,
         NEW s \in {"succeeded", "failed"}, Finish(r, n, s, v)
  PROVE  /\ run' \in [Run -> RunRow]
         /\ attempt' \in [Run -> [Attempt -> RunStatus \cup {"none"}]]
         /\ wf' \in WorkflowRow
<1>1. run' \in [Run -> RunRow]
  <2>1. [run[r] EXCEPT !.status = s, !.active = NoAttempt, !.result = v] \in RunRow
    BY DEF TypeOK, RunRow, RunStatus
  <2> QED
    BY <2>1 DEF TypeOK, Finish
<1>2. attempt' \in [Run -> [Attempt -> RunStatus \cup {"none"}]]
  BY DEF TypeOK, Finish, RunStatus
<1>3. wf' \in WorkflowRow
  BY BumpTypes, RunWorkflowStatusType DEF Finish, RunStatus
<1> QED
  BY <1>1, <1>2, <1>3

(* A run row is one again when its status, its attempt or its result moves. *)
LEMMA RunRowTypes ==
  ASSUME TypeOK, NEW r \in Run
  PROVE  /\ run[r] \in RunRow
         /\ \A s \in RunStatus, n \in Attempt \cup {NoAttempt} :
              [run[r] EXCEPT !.status = s, !.active = n] \in RunRow
         /\ \A v \in Version \cup {NoVersion} : [run[r] EXCEPT !.result = v] \in RunRow
<1>1. run[r] \in RunRow
  BY DEF TypeOK
<1> QED
  BY <1>1 DEF RunRow

(* Every transaction keeps the types of the rows. *)
LEMMA TypeTx == ASSUME TypeOK, StoreTx PROVE TypeOK'
<1>1. ASSUME MarkActiveRunsInterrupted PROVE TypeOK'
  <2>1. run' \in [Run -> RunRow]
    <3>1. /\ run \in [Run -> RunRow] /\ "interrupted" \in RunStatus
          /\ NoAttempt \in Attempt \cup {NoAttempt}
      BY DEF TypeOK, RunStatus
    <3>2. \A r \in Run :
            [run[r] EXCEPT !.status = "interrupted", !.active = NoAttempt] \in RunRow
      BY <3>1, RunRowTypes
    <3> QED
      BY <1>1, <3>1, <3>2 DEF MarkActiveRunsInterrupted
  <2>2. attempt' \in [Run -> [Attempt -> RunStatus \cup {"none"}]]
    BY <1>1 DEF MarkActiveRunsInterrupted, TypeOK, RunStatus, Active
  <2>3. stage' \in [Run -> [Attempt -> [Stage -> StageStatus]]]
    <3>1. ASSUME NEW r \in Run, NEW n \in Attempt, NEW s \in Stage
          PROVE  stage[r][n][s] \in StageStatus /\ "cancelled" \in StageStatus
      BY DEF TypeOK, WorkflowTypeOK, StageStatus
    <3> QED
      BY <1>1, <3>1 DEF MarkActiveRunsInterrupted
  <2>4. wf' \in WorkflowRow
    BY <1>1, BumpTypes DEF MarkActiveRunsInterrupted, WorkflowStatus
  <2> QED
    BY <1>1, <2>1, <2>2, <2>3, <2>4 DEF TypeOK, WorkflowTypeOK, wfVars, MarkActiveRunsInterrupted
<1>2. ASSUME GetProject PROVE TypeOK'
  <2>1. wf' \in WorkflowRow
    <3>1. wf.run \in Run
      BY <1>2, BumpTypes DEF GetProject, WorkflowRow
    <3>2. PICK s \in {"recovering", "completed"} : wf' = PointTo(wf.run, s)
      BY <1>2 DEF GetProject
    <3>3. s \in WorkflowStatus
      BY DEF WorkflowStatus
    <3> QED
      BY <3>1, <3>2, <3>3, BumpTypes
  <2> QED
    BY <1>2, <2>1 DEF TypeOK, WorkflowTypeOK, wfVars, GetProject
<1>3. ASSUME NEW v \in Version, RestoreVersion(v) PROVE TypeOK'
  <2>1. stable' \in Version \cup {NoVersion}
    BY <1>3 DEF RestoreVersion, TypeOK
  <2> QED
    BY <1>3, <2>1 DEF TypeOK, WorkflowTypeOK, wfVars, RestoreVersion
<1>4. ASSUME NEW v \in Version, NEW ok \in BOOLEAN, WriteFile(v, ok) PROVE TypeOK'
  <2>1. version' \in [Version -> VersionRow]
    BY <1>4 DEF WriteFile, TypeOK, VersionRow, VersionStatus
  <2>2. stable' \in Version \cup {NoVersion}
    BY <1>4 DEF WriteFile, TypeOK
  <2>3. wf' \in WorkflowRow
    BY <1>4, BumpTypes DEF WriteFile
  <2> QED
    BY <1>4, <2>1, <2>2, <2>3 DEF TypeOK, WorkflowTypeOK, wfVars, WriteFile
<1>5. ASSUME NEW v \in Version, version[v].run \in Run, DropDraft(v) PROVE TypeOK'
  <2>1. version' \in [Version -> VersionRow]
    BY <1>5 DEF DropDraft, TypeOK, VersionRow, VersionStatus
  <2>2. run' \in [Run -> RunRow]
    <3>1. [run[version[v].run] EXCEPT !.result = v] \in RunRow
      BY <1>5, RunRowTypes
    <3>2. run' = [run EXCEPT ![version[v].run] = [run[version[v].run] EXCEPT !.result = v]]
      BY <1>5 DEF DropDraft
    <3> QED
      BY <3>1, <3>2 DEF TypeOK
  <2> QED
    BY <1>5, <2>1, <2>2 DEF TypeOK, WorkflowTypeOK, wfVars, DropDraft
<1>6. ASSUME NEW r \in Run, NEW canStart \in BOOLEAN, CreateRun(r, canStart) PROVE TypeOK'
  <2>1. run' \in [Run -> RunRow]
    BY <1>6, AttemptOne DEF CreateRun, TypeOK, RunRow, RunStatus, NoAttempt
  <2>2. attempt' \in [Run -> [Attempt -> RunStatus \cup {"none"}]]
    BY <1>6, AttemptOne DEF CreateRun, TypeOK, RunStatus
  <2>3. stage' \in [Run -> [Attempt -> [Stage -> StageStatus]]]
    BY <1>6, AttemptOne, StageTypes DEF CreateRun
  <2>4. wf' \in WorkflowRow
    BY <1>6, BumpTypes, RunWorkflowStatusType DEF CreateRun, RunStatus
  <2>5. ended' \in [Run -> Seq(Terminal)]
    BY <1>6 DEF CreateRun, TypeOK, Terminal
  <2> QED
    BY <1>6, <2>1, <2>2, <2>3, <2>4, <2>5 DEF TypeOK, WorkflowTypeOK, wfVars, CreateRun
<1>7. ASSUME NEW r \in Run, FailRun(r) PROVE TypeOK'
  <2>1. run' \in [Run -> RunRow]
    <3>1. [run[r] EXCEPT !.status = "failed", !.active = NoAttempt] \in RunRow
      BY RunRowTypes DEF RunStatus
    <3>2. run' = [run EXCEPT ![r] = [run[r] EXCEPT !.status = "failed", !.active = NoAttempt]]
      BY <1>7 DEF FailRun, TypeOK, RunRow
    <3> QED
      BY <3>1, <3>2 DEF TypeOK
  <2>2. attempt' \in [Run -> [Attempt -> RunStatus \cup {"none"}]]
    BY <1>7 DEF FailRun, TypeOK, RunStatus, LiveStatus
  <2>3. wf' \in WorkflowRow
    BY <1>7, BumpTypes DEF FailRun, WorkflowStatus
  <2> QED
    BY <1>7, <2>1, <2>2, <2>3 DEF TypeOK, WorkflowTypeOK, wfVars, FailRun
<1>8. ASSUME NEW r \in Run, NEW s \in RunStatus, SetRunStatus(r, s) PROVE TypeOK'
  <2>1. run' \in [Run -> RunRow]
    BY <1>8 DEF SetRunStatus, TypeOK, RunRow, RunStatus, NoAttempt
  <2>2. wf' \in WorkflowRow
    BY <1>8, BumpTypes, RunWorkflowStatusType DEF SetRunStatus
  <2> QED
    BY <1>8, <2>1, <2>2 DEF TypeOK, WorkflowTypeOK, wfVars, SetRunStatus
<1>9. ASSUME NEW r \in Run, NEW type \in DOMAIN EventWorkflow, NEW s \in Stage \cup {NoStage}, AppendEvent(r, type, s) PROVE TypeOK'
  <2>1. wf' \in WorkflowRow
    BY <1>9, BumpTypes, EventTypes DEF AppendEvent
  <2>2. stage' \in [Run -> [Attempt -> [Stage -> StageStatus]]]
    BY <1>9, StageTypes, EventTypes DEF AppendEvent, TypeOK, WorkflowTypeOK
  <2>3. ended' \in [Run -> Seq(Terminal)]
    BY <1>9 DEF AppendEvent, TypeOK, Terminal
  <2> QED
    BY <1>9, <2>1, <2>2, <2>3 DEF TypeOK, WorkflowTypeOK, wfVars, AppendEvent
<1>10. ASSUME NEW v \in Version, NEW r \in Run, NEW ok \in BOOLEAN, CreateDraftVersion(v, r, ok) PROVE TypeOK'
  <2>1. version' \in [Version -> VersionRow]
    BY <1>10 DEF CreateDraftVersion, TypeOK, VersionRow, VersionStatus, RunRow
  <2> QED
    BY <1>10, <2>1 DEF TypeOK, WorkflowTypeOK, wfVars, CreateDraftVersion
<1>11. ASSUME NEW r \in Run, NEW n \in Attempt, StartAttempt(r, n) PROVE TypeOK'
  <2>1. run' \in [Run -> RunRow]
    <3>1. [run[r] EXCEPT !.status = "running", !.active = n] \in RunRow
      BY RunRowTypes DEF RunStatus
    <3>2. run' = [run EXCEPT ![r] = [run[r] EXCEPT !.status = "running", !.active = n]]
      BY <1>11 DEF StartAttempt, TypeOK, RunRow
    <3> QED
      BY <3>1, <3>2 DEF TypeOK
  <2>2. attempt' \in [Run -> [Attempt -> RunStatus \cup {"none"}]]
    BY <1>11 DEF StartAttempt, TypeOK, RunStatus
  <2>3. stage' \in [Run -> [Attempt -> [Stage -> StageStatus]]]
    BY <1>11, StageTypes DEF StartAttempt
  <2>4. wf' \in WorkflowRow
    BY <1>11, BumpTypes DEF StartAttempt, WorkflowStatus
  <2> QED
    BY <1>11, <2>1, <2>2, <2>3, <2>4 DEF TypeOK, WorkflowTypeOK, wfVars, StartAttempt
<1>12. ASSUME NEW r \in Run, NEW n \in Attempt, BeginAttempt(r, n) PROVE TypeOK'
  <2>1. run' \in [Run -> RunRow]
    BY <1>12 DEF BeginAttempt, TypeOK, RunRow, RunStatus, NoAttempt
  <2>2. attempt' \in [Run -> [Attempt -> RunStatus \cup {"none"}]]
    BY <1>12 DEF BeginAttempt, TypeOK, RunStatus
  <2>3. wf' \in WorkflowRow
    BY <1>12, BumpTypes DEF BeginAttempt, WorkflowStatus
  <2> QED
    BY <1>12, <2>1, <2>2, <2>3 DEF TypeOK, WorkflowTypeOK, wfVars, BeginAttempt
<1>13. ASSUME NEW r \in Run, NEW n \in Attempt, NEW s \in Stage, RecordStageArtifact(r, n, s) PROVE TypeOK'
  <2>1. artifact' \in [Run -> [Attempt -> SUBSET Stage]]
    BY <1>13 DEF RecordStageArtifact, TypeOK, WorkflowTypeOK
  <2>2. stage' \in [Run -> [Attempt -> [Stage -> StageStatus]]]
    BY <1>13, StageTypes DEF RecordStageArtifact, StageStatus
  <2>3. wf' \in WorkflowRow
    BY <1>13, BumpTypes DEF RecordStageArtifact, WorkflowStatus
  <2> QED
    BY <1>13, <2>1, <2>2, <2>3 DEF TypeOK, WorkflowTypeOK, wfVars, RecordStageArtifact
<1>14. ASSUME NEW v \in Version, NEW r \in Run, NEW n \in Attempt, PromoteDraftVersion(v, r, n) PROVE TypeOK'
  <2>1. /\ run' \in [Run -> RunRow] /\ wf' \in WorkflowRow
        /\ attempt' \in [Run -> [Attempt -> RunStatus \cup {"none"}]]
    BY <1>14, FinishTypes DEF PromoteDraftVersion
  <2>2. version' \in [Version -> VersionRow]
    BY <1>14 DEF PromoteDraftVersion, TypeOK, VersionRow, VersionStatus
  <2>3. stable' \in Version \cup {NoVersion}
    BY <1>14 DEF PromoteDraftVersion, TypeOK
  <2> QED
    BY <1>14, <2>1, <2>2, <2>3 DEF TypeOK, WorkflowTypeOK, wfVars, PromoteDraftVersion
<1>15. ASSUME NEW v \in Version, NEW r \in Run, NEW n \in Attempt, FailDraftVersion(v, r, n) PROVE TypeOK'
  <2>1. /\ run' \in [Run -> RunRow] /\ wf' \in WorkflowRow
        /\ attempt' \in [Run -> [Attempt -> RunStatus \cup {"none"}]]
    BY <1>15, FinishTypes DEF FailDraftVersion
  <2>2. version' \in [Version -> VersionRow]
    BY <1>15 DEF FailDraftVersion, TypeOK, VersionRow, VersionStatus
  <2> QED
    BY <1>15, <2>1, <2>2 DEF TypeOK, WorkflowTypeOK, wfVars, FailDraftVersion
<1>16. ASSUME NEW v \in Version, NEW r \in Run, NEW n \in Attempt, CommitVersion(v, r, n) PROVE TypeOK'
  <2>1. /\ run' \in [Run -> RunRow] /\ wf' \in WorkflowRow
        /\ attempt' \in [Run -> [Attempt -> RunStatus \cup {"none"}]]
    BY <1>16, FinishTypes DEF CommitVersion
  <2>2. version' \in [Version -> VersionRow]
    BY <1>16 DEF CommitVersion, TypeOK, VersionRow, VersionStatus, RunRow
  <2>3. stable' \in Version \cup {NoVersion}
    BY <1>16 DEF CommitVersion, TypeOK
  <2> QED
    BY <1>16, <2>1, <2>2, <2>3 DEF TypeOK, WorkflowTypeOK, wfVars, CommitVersion
<1>17. ASSUME NEW v \in Version, NEW r \in Run, NEW n \in Attempt, FailVersion(v, r, n) PROVE TypeOK'
  <2>1. /\ run' \in [Run -> RunRow] /\ wf' \in WorkflowRow
        /\ attempt' \in [Run -> [Attempt -> RunStatus \cup {"none"}]]
    BY <1>17, FinishTypes DEF FailVersion
  <2>2. version' \in [Version -> VersionRow]
    BY <1>17 DEF FailVersion, TypeOK, VersionRow, VersionStatus, RunRow
  <2> QED
    BY <1>17, <2>1, <2>2 DEF TypeOK, WorkflowTypeOK, wfVars, FailVersion
<1> QED
  BY <1>1, <1>2, <1>3, <1>4, <1>5, <1>6, <1>7, <1>8, <1>9, <1>10, <1>11, <1>12, <1>13, <1>14, <1>15, <1>16, <1>17
  DEF StoreTx, RetryRun, NewAttempt

-----------------------------------------------------------------------------
(* The four things a transaction does to the versions and the stable pointer *)
PointerMove(v) == version' = version /\ version[v].status = "stable" /\ stable' = v
Failing(v)     == /\ version[v].status = "draft" /\ stable' = stable
                  /\ version' = [version EXCEPT ![v].status = "failed"]
Publishing(v)  == /\ version[v].status = "draft" /\ stable' = v
                  /\ version[v].run \in Run /\ run[version[v].run].base = stable
                  /\ version' = [version EXCEPT ![v].status = "stable"]
Inserting(v, row) ==
  /\ NextVersion(v)
  /\ version' = [version EXCEPT ![v] = row]
  /\ row.status # "none"
  /\ \/ row.run \in Run /\ RunExists(row.run) /\ row.base = run[row.run].base
     \/ row.run = NoRun /\ row.base = stable /\ stable # NoVersion
  /\ \/ stable' = stable
     \/ stable' = v /\ row.status = "stable" /\ row.base = stable

VersionStep ==
  \/ version' = version /\ stable' = stable
  \/ \E v \in Version : PointerMove(v) \/ Failing(v) \/ Publishing(v)
  \/ \E v \in Version, row \in VersionRow : Inserting(v, row)

(* what it does to the runs: a run keeps its base, a new one takes stable *)
RunStep ==
  \A q \in Run : \/ RunExists(q) /\ run'[q].status # "none" /\ run'[q].base = run[q].base
                 \/ ~RunExists(q) /\ run'[q].base = run[q].base
                 \/ ~RunExists(q) /\ run'[q].base = stable

(* Every transaction changes versions and the pointer in one of these ways. *)
LEMMA VersionStepTx == ASSUME TypeOK, StoreTx PROVE VersionStep
<1>1. ASSUME UNCHANGED <<version, stable>> PROVE VersionStep
  BY <1>1 DEF VersionStep
<1>2. ASSUME NEW v \in Version, RestoreVersion(v) PROVE VersionStep
  BY <1>2 DEF VersionStep, RestoreVersion, PointerMove
<1>3. ASSUME NEW v \in Version, DropDraft(v) PROVE VersionStep
  BY <1>3 DEF VersionStep, DropDraft, Failing
<1>4. ASSUME NEW v \in Version, NEW r \in Run, NEW n \in Attempt, FailDraftVersion(v, r, n)
      PROVE  VersionStep
  BY <1>4 DEF VersionStep, FailDraftVersion, Failing
<1>5. ASSUME NEW v \in Version, NEW r \in Run, NEW n \in Attempt,
             DraftOf(v, r), PromoteDraftVersion(v, r, n)
      PROVE  VersionStep
  BY <1>5 DEF VersionStep, DraftOf, PromoteDraftVersion, CanPublish, Publishing
<1>6. ASSUME NEW v \in Version, NEW ok \in BOOLEAN, WriteFile(v, ok) PROVE VersionStep
  <2> DEFINE row == [status |-> IF ok THEN "stable" ELSE "failed",
                     run |-> NoRun, base |-> stable, ok |-> ok]
  <2>1. row \in VersionRow
    BY DEF TypeOK, VersionRow, VersionStatus
  <2>2. Inserting(v, row)
    BY <1>6 DEF WriteFile, Inserting
  <2> QED
    BY <2>1, <2>2 DEF VersionStep
<1>7. ASSUME NEW v \in Version, NEW r \in Run, NEW s \in VersionStatus, NEW ok \in BOOLEAN,
             RunExists(r), NextVersion(v),
             version' = [version EXCEPT ![v] = [status |-> s, run |-> r,
                                                base |-> run[r].base, ok |-> ok]],
             stable' = stable \/ (s = "stable" /\ CanPublish(r) /\ stable' = v)
      PROVE  VersionStep
  <2> DEFINE row == [status |-> s, run |-> r, base |-> run[r].base, ok |-> ok]
  <2>1. row \in VersionRow
    BY DEF TypeOK, RunRow, VersionRow
  <2>2. Inserting(v, row)
    BY <1>7 DEF Inserting, CanPublish, VersionStatus
  <2> QED
    BY <2>1, <2>2 DEF VersionStep
<1>8. ASSUME NEW v \in Version, NEW r \in Run, NEW ok \in BOOLEAN, CreateDraftVersion(v, r, ok)
      PROVE  VersionStep
  BY <1>7, <1>8 DEF CreateDraftVersion, VersionStatus
<1>9. ASSUME NEW v \in Version, NEW r \in Run, NEW n \in Attempt,
             CommitVersion(v, r, n) \/ FailVersion(v, r, n)
      PROVE  VersionStep
  BY <1>7, <1>9 DEF CommitVersion, FailVersion, VersionStatus
<1>10. ASSUME MarkActiveRunsInterrupted \/ GetProject PROVE VersionStep
  BY <1>1, <1>10 DEF MarkActiveRunsInterrupted, GetProject
<1>11. ASSUME NEW r \in Run,
              \/ \E canStart \in BOOLEAN : CreateRun(r, canStart)
              \/ FailRun(r)
              \/ \E s \in RunStatus : SetRunStatus(r, s)
              \/ \E type \in DOMAIN EventWorkflow, s \in Stage \cup {NoStage} :
                   AppendEvent(r, type, s)
       PROVE  VersionStep
  BY <1>1, <1>11 DEF CreateRun, FailRun, SetRunStatus, AppendEvent
<1>12. ASSUME NEW r \in Run, NEW n \in Attempt,
              \/ RetryRun(r, n) \/ NewAttempt(r, n) \/ BeginAttempt(r, n)
              \/ \E s \in Stage : RecordStageArtifact(r, n, s)
       PROVE  VersionStep
  BY <1>1, <1>12 DEF RetryRun, NewAttempt, StartAttempt, BeginAttempt, RecordStageArtifact
<1> QED
  BY <1>2, <1>3, <1>4, <1>5, <1>6, <1>8, <1>9, <1>10, <1>11, <1>12 DEF StoreTx

(* Every transaction changes the bases of runs in one of these ways. *)
LEMMA RunStepTx == ASSUME TypeOK, StoreTx PROVE RunStep
<1> USE DEF TypeOK, RunRow, RunExists
<1>1. ASSUME UNCHANGED run PROVE RunStep
  BY <1>1 DEF RunStep
<1>2. ASSUME NEW r \in Run, NEW n \in Attempt, NEW v \in Version, NEW s \in {"succeeded", "failed"},
             Finish(r, n, s, v)
      PROVE  RunStep
  BY <1>2 DEF RunStep, Finish
<1>3. ASSUME NEW r \in Run, NEW n \in Attempt, NEW v \in Version,
             \/ DraftOf(v, r) /\ PromoteDraftVersion(v, r, n)
             \/ DraftOf(v, r) /\ FailDraftVersion(v, r, n)
             \/ CommitVersion(v, r, n) \/ FailVersion(v, r, n)
      PROVE  RunStep
  BY <1>2, <1>3 DEF PromoteDraftVersion, FailDraftVersion, CommitVersion, FailVersion
<1>4. ASSUME NEW v \in Version, version[v].run \in Run, DropDraft(v) PROVE RunStep
  BY <1>4 DEF RunStep, DropDraft
<1>5. ASSUME NEW r \in Run, NEW canStart \in BOOLEAN, CreateRun(r, canStart) PROVE RunStep
  BY <1>5 DEF RunStep, CreateRun, NextRun
<1>6. ASSUME NEW r \in Run, FailRun(r) PROVE RunStep
  BY <1>6 DEF RunStep, FailRun
<1>7. ASSUME NEW r \in Run, NEW s \in RunStatus, SetRunStatus(r, s) PROVE RunStep
  <2>1. s # "none"
    BY DEF RunStatus
  <2> QED
    BY <1>7, <2>1 DEF RunStep, SetRunStatus
<1>8. ASSUME NEW r \in Run, NEW n \in Attempt, RunExists(r), StartAttempt(r, n) PROVE RunStep
  BY <1>8 DEF RunStep, StartAttempt
<1>9. ASSUME NEW r \in Run, NEW n \in Attempt, BeginAttempt(r, n) PROVE RunStep
  BY <1>9 DEF RunStep, BeginAttempt
<1>10. ASSUME MarkActiveRunsInterrupted PROVE RunStep
  BY <1>10 DEF RunStep, MarkActiveRunsInterrupted, Active, LiveStatus
<1>11. ASSUME \/ GetProject
              \/ \E v \in Version : RestoreVersion(v) \/ \E ok \in BOOLEAN : WriteFile(v, ok)
       PROVE  RunStep
  BY <1>1, <1>11 DEF GetProject, RestoreVersion, WriteFile
<1>12. ASSUME NEW r \in Run,
              \/ \E type \in DOMAIN EventWorkflow, s \in Stage \cup {NoStage} :
                   AppendEvent(r, type, s)
              \/ \E v \in Version, ok \in BOOLEAN : CreateDraftVersion(v, r, ok)
              \/ \E n \in Attempt, s \in Stage : RecordStageArtifact(r, n, s)
       PROVE  RunStep
  BY <1>1, <1>12 DEF AppendEvent, CreateDraftVersion, RecordStageArtifact
<1> QED
  BY <1>3, <1>4, <1>5, <1>6, <1>7, <1>8, <1>9, <1>10, <1>11, <1>12
  DEF StoreTx, RetryRun, NewAttempt

(* what it does to their activity: it activates at most one, past the index *)
ActiveStep ==
  \E r \in Run : /\ \A q \in Run \ {r} : Active(q)' => Active(q)
                 /\ Active(r)' => Active(r) \/ OneActiveIndex(r)

(* There is a first run. *)
LEMMA RunOne == 1 \in Run
BY WorkflowAssumption DEF Run

(* Every transaction changes the activity of runs in one of these ways. *)
LEMMA ActiveStepTx == ASSUME TypeOK, StoreTx PROVE ActiveStep
<1> USE DEF Active
<1>1. ASSUME \A q \in Run : Active(q)' => Active(q) PROVE ActiveStep
  BY <1>1, RunOne DEF ActiveStep
<1>2. ASSUME UNCHANGED run PROVE ActiveStep
  BY <1>1, <1>2
<1>3. ASSUME NEW r \in Run, \A q \in Run \ {r} : run'[q] = run[q],
             Active(r)' => Active(r) \/ OneActiveIndex(r)
      PROVE  ActiveStep
  BY <1>3 DEF ActiveStep
<1>4. ASSUME NEW r \in Run, NEW n \in Attempt, NEW v \in Version, NEW s \in {"succeeded", "failed"},
             Finish(r, n, s, v)
      PROVE  ActiveStep
  <2>1. \A q \in Run : Active(q)' => Active(q)
    BY <1>4 DEF Finish, TypeOK, RunRow, LiveStatus
  <2> QED
    BY <1>1, <2>1
<1>5. ASSUME NEW r \in Run, NEW n \in Attempt, NEW v \in Version,
             \/ PromoteDraftVersion(v, r, n) \/ FailDraftVersion(v, r, n)
             \/ CommitVersion(v, r, n) \/ FailVersion(v, r, n)
      PROVE  ActiveStep
  BY <1>4, <1>5 DEF PromoteDraftVersion, FailDraftVersion, CommitVersion, FailVersion
<1>6. ASSUME NEW v \in Version, version[v].run \in Run, DropDraft(v) PROVE ActiveStep
  <2>1. \A q \in Run : Active(q)' => Active(q)
    BY <1>6 DEF DropDraft, TypeOK, RunRow
  <2> QED
    BY <1>1, <2>1
<1>7. ASSUME NEW r \in Run, NEW canStart \in BOOLEAN, CreateRun(r, canStart) PROVE ActiveStep
  <2>1. OneActiveIndex(r)
    BY <1>7 DEF CreateRun, NoActiveRun, OneActiveIndex
  <2>2. \A q \in Run \ {r} : run'[q] = run[q]
    BY <1>7 DEF CreateRun, TypeOK
  <2> QED
    BY <1>3, <2>1, <2>2
<1>8. ASSUME NEW r \in Run, FailRun(r) PROVE ActiveStep
  <2>1. \A q \in Run : Active(q)' => Active(q)
    BY <1>8 DEF FailRun, TypeOK, RunRow, LiveStatus
  <2> QED
    BY <1>1, <2>1
<1>9. ASSUME NEW r \in Run, NEW s \in RunStatus, SetRunStatus(r, s) PROVE ActiveStep
  <2>1. \A q \in Run \ {r} : run'[q] = run[q]
    BY <1>9 DEF SetRunStatus, TypeOK
  <2>2. Active(r)' => OneActiveIndex(r)
    BY <1>9 DEF SetRunStatus, TypeOK, RunRow
  <2> QED
    BY <1>3, <2>1, <2>2
<1>10. ASSUME NEW r \in Run, NEW n \in Attempt, StartAttempt(r, n) \/ BeginAttempt(r, n)
       PROVE  ActiveStep
  <2>1. OneActiveIndex(r)
    BY <1>10 DEF StartAttempt, BeginAttempt
  <2>2. \A q \in Run \ {r} : run'[q] = run[q]
    BY <1>10 DEF StartAttempt, BeginAttempt, TypeOK
  <2> QED
    BY <1>3, <2>1, <2>2
<1>11. ASSUME MarkActiveRunsInterrupted PROVE ActiveStep
  <2>1. \A q \in Run : Active(q)' => Active(q)
    BY <1>11 DEF MarkActiveRunsInterrupted, LiveStatus
  <2> QED
    BY <1>1, <2>1
<1>12. ASSUME \/ GetProject
              \/ \E v \in Version : RestoreVersion(v) \/ \E ok \in BOOLEAN : WriteFile(v, ok)
       PROVE  ActiveStep
  BY <1>2, <1>12 DEF GetProject, RestoreVersion, WriteFile
<1>13. ASSUME NEW r \in Run,
              \/ \E type \in DOMAIN EventWorkflow, s \in Stage \cup {NoStage} :
                   AppendEvent(r, type, s)
              \/ \E v \in Version, ok \in BOOLEAN : CreateDraftVersion(v, r, ok)
              \/ \E n \in Attempt, s \in Stage : RecordStageArtifact(r, n, s)
       PROVE  ActiveStep
  BY <1>2, <1>13 DEF AppendEvent, CreateDraftVersion, RecordStageArtifact
<1> QED
  BY <1>5, <1>6, <1>7, <1>8, <1>9, <1>10, <1>11, <1>12, <1>13
  DEF StoreTx, RetryRun, NewAttempt

-----------------------------------------------------------------------------
(* The invariants follow from these three descriptions of a transaction. *)
LEMMA VersionsStay ==
  ASSUME TypeOK, VersionStep
  PROVE  /\ \A v \in Version : version[v].status # "none" =>
              /\ version'[v].status # "none"
              /\ version'[v].run = version[v].run /\ version'[v].base = version[v].base
              /\ version'[v].ok = version[v].ok
         /\ \A v \in Version : version[v].status \in {"stable", "failed"} =>
              version'[v] = version[v]
<1>1. CASE version' = version
  BY <1>1
<1>2. ASSUME NEW w \in Version, version[w].status = "draft",
             NEW s \in {"stable", "failed"}, version' = [version EXCEPT ![w].status = s]
      PROVE  \A v \in Version :
               /\ version'[v].status # "none" \/ version[v].status = "none"
               /\ version'[v].run = version[v].run /\ version'[v].base = version[v].base
               /\ version'[v].ok = version[v].ok
               /\ version[v].status \in {"stable", "failed"} => version'[v] = version[v]
  BY <1>2 DEF TypeOK, VersionRow
<1>3. ASSUME NEW w \in Version, NEW row \in VersionRow, Inserting(w, row)
      PROVE  \A v \in Version : version[v].status # "none" => version'[v] = version[v]
  BY <1>3 DEF TypeOK, Inserting, NextVersion
<1> QED
  BY <1>1, <1>2, <1>3 DEF VersionStep, PointerMove, Failing, Publishing

(* The pointer moves only to what is, or has just become, stable. *)
LEMMA StableIsStableStep ==
  ASSUME TypeOK, StableIsStable, VersionStep PROVE StableIsStable'
<1>1. CASE stable' = stable
  BY <1>1, VersionsStay DEF StableIsStable, TypeOK
<1>2. CASE \E v \in Version : PointerMove(v) \/ Failing(v) \/ Publishing(v)
  BY <1>1, <1>2 DEF StableIsStable, TypeOK, VersionRow, PointerMove, Failing, Publishing
<1>3. CASE \E v \in Version, row \in VersionRow : Inserting(v, row)
  BY <1>1, <1>3 DEF StableIsStable, TypeOK, Inserting
<1> QED
  BY <1>1, <1>2, <1>3 DEF VersionStep

(* A run starts from the pointer, and what was stable stays so. *)
LEMMA BasesWereStableStep ==
  ASSUME TypeOK, StableIsStable, BasesWereStable, VersionStep, RunStep
  PROVE  BasesWereStable'
<1> SUFFICES ASSUME NEW q \in Run, run'[q].base # NoVersion
             PROVE  version'[run'[q].base].status = "stable"
  BY DEF BasesWereStable
<1>1. run'[q].base = run[q].base \/ run'[q].base = stable
  BY DEF RunStep
<1>2. run'[q].base \in Version /\ version[run'[q].base].status = "stable"
  BY <1>1 DEF BasesWereStable, StableIsStable, TypeOK, RunRow
<1> QED
  BY <1>2, VersionsStay

(* A new version takes the next number. *)
LEMMA VersionsInOrderStep ==
  ASSUME TypeOK, VersionsInOrder, VersionStep PROVE VersionsInOrder'
<1> SUFFICES ASSUME NEW u \in Version, NEW v \in Version, u < v, version'[v].status # "none"
             PROVE  version'[u].status # "none"
  BY DEF VersionsInOrder
<1>1. version[v].status # "none" \/ NextVersion(v)
  BY DEF VersionStep, TypeOK, PointerMove, Failing, Publishing, Inserting
<1>2. version[u].status # "none"
  BY <1>1 DEF VersionsInOrder, NextVersion
<1> QED
  BY <1>2, VersionsStay

(* A new version is newer than the base it is given. *)
LEMMA LineageDescendsStep ==
  ASSUME StoreInv, VersionStep PROVE LineageDescends'
<1> SUFFICES ASSUME NEW v \in Version, version'[v].status # "none"
             PROVE  version'[v].base < v
  BY DEF LineageDescends
<1>1. CASE version[v].status # "none"
  BY <1>1, VersionsStay DEF StoreInv, LineageDescends
<1>2. CASE version[v].status = "none"
  <2>1. PICK row \in VersionRow : Inserting(v, row)
    BY <1>2 DEF VersionStep, StoreInv, TypeOK, PointerMove, Failing, Publishing, Inserting
  <2>2. version'[v] = row
    BY <2>1 DEF Inserting, StoreInv, TypeOK
  <2>3. row.base = NoVersion \/ (row.base \in Version /\ version[row.base].status = "stable")
    <3>1. \A q \in Run : run[q].base \in Version \cup {NoVersion}
      BY DEF StoreInv, TypeOK, RunRow
    <3>2. CASE row.run \in Run /\ row.base = run[row.run].base
      BY <3>1, <3>2 DEF StoreInv, BasesWereStable
    <3>3. CASE row.base = stable
      BY <3>3 DEF StoreInv, StableIsStable, TypeOK
    <3> QED
      BY <2>1, <3>2, <3>3 DEF Inserting
  <2> QED
    BY <1>2, <2>2, <2>3 DEF StoreInv, VersionsInOrder, Version, NoVersion
<1> QED
  BY <1>1, <1>2

(* A version's base and its run's base are never written again. *)
LEMMA VersionsKeepBaseStep ==
  ASSUME StoreInv, VersionStep, RunStep PROVE VersionsKeepBase'
<1> SUFFICES ASSUME NEW v \in Version, version'[v].status # "none", version'[v].run # NoRun
             PROVE  /\ run'[version'[v].run].status # "none"
                    /\ version'[v].base = run'[version'[v].run].base
  BY DEF VersionsKeepBase, RunExists
<1>1. /\ version'[v].run \in Run /\ RunExists(version'[v].run)
      /\ version'[v].base = run[version'[v].run].base
  <2>1. CASE version[v].status # "none"
    BY <2>1, VersionsStay DEF StoreInv, VersionsKeepBase, TypeOK, VersionRow
  <2>2. CASE version[v].status = "none"
    <3>1. PICK row \in VersionRow : Inserting(v, row)
      BY <2>2 DEF VersionStep, StoreInv, TypeOK, PointerMove, Failing, Publishing, Inserting
    <3>2. version'[v] = row
      BY <3>1 DEF Inserting, StoreInv, TypeOK
    <3> QED
      BY <3>1, <3>2 DEF Inserting
  <2> QED
    BY <2>1, <2>2
<1> QED
  BY <1>1 DEF RunStep, RunExists

(* A run becomes active only while no other is. *)
LEMMA OneActiveRunStep ==
  ASSUME OneActiveRun, ActiveStep PROVE OneActiveRun'
BY DEF OneActiveRun, ActiveStep, OneActiveIndex

(* No transaction deletes an attempt. *)
LEMMA AttemptsStay ==
  ASSUME TypeOK, StoreTx, NEW q \in Run, NEW m \in Attempt, attempt[q][m] # "none"
  PROVE  attempt'[q][m] # "none"
<1> USE DEF TypeOK
<1>1. ASSUME UNCHANGED attempt PROVE attempt'[q][m] # "none"
  BY <1>1
<1>2. ASSUME NEW r \in Run, NEW n \in Attempt, NEW v \in Version, NEW s \in {"succeeded", "failed"},
             Finish(r, n, s, v)
      PROVE  attempt'[q][m] # "none"
  BY <1>2 DEF Finish
<1>3. ASSUME NEW r \in Run, NEW n \in Attempt, NEW v \in Version,
             \/ PromoteDraftVersion(v, r, n) \/ FailDraftVersion(v, r, n)
             \/ CommitVersion(v, r, n) \/ FailVersion(v, r, n)
      PROVE  attempt'[q][m] # "none"
  BY <1>2, <1>3 DEF PromoteDraftVersion, FailDraftVersion, CommitVersion, FailVersion
<1>4. ASSUME NEW r \in Run, NEW canStart \in BOOLEAN, CreateRun(r, canStart)
      PROVE  attempt'[q][m] # "none"
  BY <1>4, AttemptOne DEF CreateRun
<1>5. ASSUME NEW r \in Run, FailRun(r) PROVE attempt'[q][m] # "none"
  BY <1>5 DEF FailRun
<1>6. ASSUME NEW r \in Run, NEW n \in Attempt, StartAttempt(r, n)
      PROVE  attempt'[q][m] # "none"
  BY <1>6 DEF StartAttempt
<1>10. ASSUME NEW r \in Run, NEW n \in Attempt, BeginAttempt(r, n)
       PROVE  attempt'[q][m] # "none"
  <2>1. CASE q = r /\ m = n
    BY <1>10, <2>1 DEF BeginAttempt
  <2>2. CASE ~(q = r /\ m = n)
    BY <1>10, <2>2 DEF BeginAttempt
  <2> QED
    BY <2>1, <2>2
<1>7. ASSUME MarkActiveRunsInterrupted PROVE attempt'[q][m] # "none"
  BY <1>7 DEF MarkActiveRunsInterrupted
<1>8. ASSUME \/ GetProject
             \/ \E v \in Version : RestoreVersion(v) \/ \E ok \in BOOLEAN : WriteFile(v, ok)
             \/ \E v \in Version : DropDraft(v)
      PROVE  attempt'[q][m] # "none"
  BY <1>1, <1>8 DEF GetProject, RestoreVersion, WriteFile, DropDraft
<1>9. ASSUME NEW r \in Run,
             \/ \E s \in RunStatus : SetRunStatus(r, s)
             \/ \E type \in DOMAIN EventWorkflow, s \in Stage \cup {NoStage} :
                  AppendEvent(r, type, s)
             \/ \E v \in Version, ok \in BOOLEAN : CreateDraftVersion(v, r, ok)
             \/ \E n \in Attempt, s \in Stage : RecordStageArtifact(r, n, s)
      PROVE  attempt'[q][m] # "none"
  BY <1>1, <1>9 DEF SetRunStatus, AppendEvent, CreateDraftVersion, RecordStageArtifact
<1> QED
  BY <1>3, <1>4, <1>5, <1>6, <1>7, <1>8, <1>9, <1>10 DEF StoreTx, RetryRun, NewAttempt

-----------------------------------------------------------------------------
(* An empty project satisfies the inductive invariant. *)
LEMMA StoreInit_Inv == StoreInit => StoreInv
<1> SUFFICES ASSUME StoreInit PROVE StoreInv
  OBVIOUS
<1>1. TypeOK
  <2>1. WorkflowTypeOK
    BY DEF StoreInit, WorkflowInit, WorkflowTypeOK, WorkflowRow, WorkflowStatus, StageStatus
  <2>2. run \in [Run -> RunRow]
    BY DEF StoreInit, RunRow
  <2>3. version \in [Version -> VersionRow]
    BY DEF StoreInit, VersionRow
  <2>4. ended \in [Run -> Seq(Terminal)]
    BY DEF StoreInit
  <2> QED
    BY <2>1, <2>2, <2>3, <2>4 DEF StoreInit, TypeOK
<1>2. OneActiveRun
  BY DEF StoreInit, OneActiveRun, Active, LiveStatus
<1>3. StableIsStable /\ LineageDescends /\ VersionsInOrder /\ VersionsKeepBase
  BY DEF StoreInit, StableIsStable, LineageDescends, VersionsInOrder, VersionsKeepBase
<1>4. BasesWereStable
  BY DEF StoreInit, BasesWereStable
<1> QED
  BY <1>1, <1>2, <1>3, <1>4 DEF StoreInv

(* StoreInv is preserved by every transaction, so also by those of AgentLoop. *)
LEMMA StoreInvTx == ASSUME StoreInv, StoreTx PROVE StoreInv'
<1>1. TypeOK
  BY DEF StoreInv
<1>2. TypeOK' /\ VersionStep /\ RunStep /\ ActiveStep
  BY <1>1, TypeTx, VersionStepTx, RunStepTx, ActiveStepTx
<1>3. StableIsStable' /\ VersionsInOrder'
  BY <1>2, StableIsStableStep, VersionsInOrderStep DEF StoreInv
<1>4. BasesWereStable'
  BY <1>2, BasesWereStableStep DEF StoreInv
<1>5. LineageDescends' /\ VersionsKeepBase'
  BY <1>2, LineageDescendsStep, VersionsKeepBaseStep
<1>6. OneActiveRun'
  BY <1>2, OneActiveRunStep DEF StoreInv
<1> QED
  BY <1>2, <1>3, <1>4, <1>5, <1>6 DEF StoreInv

(* A step outside the store keeps it. *)
LEMMA StoreInvStutter == ASSUME StoreInv, UNCHANGED storeVars PROVE StoreInv'
<1>1. TypeOK'
  BY DEF StoreInv, TypeOK, WorkflowTypeOK, storeVars, wfVars
<1>2. (OneActiveRun /\ BasesWereStable /\ VersionsKeepBase)'
  BY DEF StoreInv, OneActiveRun, BasesWereStable, VersionsKeepBase, Active, RunExists, storeVars
<1>3. (StableIsStable /\ LineageDescends /\ VersionsInOrder)'
  BY DEF StoreInv, StableIsStable, LineageDescends, VersionsInOrder, storeVars
<1> QED
  BY <1>1, <1>2, <1>3 DEF StoreInv

(* The inductive invariant of the store. *)
THEOREM StoreInvariant == StoreSpec => []StoreInv
<1>1. StoreInv /\ [StoreNext]_storeVars => StoreInv'
  BY StoreInvTx, StoreInvStutter DEF StoreNext
<1> QED
  BY <1>1, StoreInit_Inv, PTL DEF StoreSpec

(* The rows always have their types. *)
THEOREM StoreTypeOK == StoreSpec => []TypeOK
<1>1. StoreInv => TypeOK
  BY DEF StoreInv
<1> QED
  BY <1>1, StoreInvariant, PTL

(* Never two queued or running runs, however the transactions interleave. *)
THEOREM StoreOneActiveRun == StoreSpec => []OneActiveRun
<1>1. StoreInv => OneActiveRun
  BY DEF StoreInv
<1> QED
  BY <1>1, StoreInvariant, PTL

(* The project never points at a draft or a failed version. *)
THEOREM StoreStableIsStable == StoreSpec => []StableIsStable
<1>1. StoreInv => StableIsStable
  BY DEF StoreInv
<1> QED
  BY <1>1, StoreInvariant, PTL

(* A version is newer than its base: the walk of previewWorkflowRunTx ends. *)
THEOREM StoreLineageDescends == StoreSpec => []LineageDescends
<1>1. StoreInv => LineageDescends
  BY DEF StoreInv
<1> QED
  BY <1>1, StoreInvariant, PTL

(* A promoted or failed version is never written again. *)
THEOREM StoreDecidedVersionsStay == StoreSpec => DecidedVersionsStay
<1> DEFINE Stay == \A v \in Version :
                     version[v].status \in {"stable", "failed"} => version'[v] = version[v]
<1>1. StoreInv /\ [StoreNext]_storeVars => [Stay]_storeVars
  <2> SUFFICES ASSUME StoreInv, StoreTx PROVE Stay
    BY DEF StoreNext
  <2>1. TypeOK
    BY DEF StoreInv
  <2> QED
    BY <2>1, VersionStepTx, VersionsStay
<1>2. StoreSpec => [][Stay]_storeVars
  BY <1>1, StoreInvariant, PTL DEF StoreSpec
<1> QED
  BY <1>2 DEF DecidedVersionsStay

(* Optimistic locking: what becomes stable was stable before, or was built on *)
(* the version it replaces.                                                   *)
THEOREM StoreNoLostUpdate == StoreSpec => NoLostUpdate
<1> DEFINE Kept == stable' # stable
                     => \/ version[stable'].status = "stable"
                        \/ version'[stable'].base = stable
<1>1. StoreInv /\ [StoreNext]_storeVars => [Kept]_storeVars
  <2> SUFFICES ASSUME StoreInv, StoreTx, stable' # stable
               PROVE  \/ version[stable'].status = "stable"
                      \/ version'[stable'].base = stable
    BY DEF StoreNext
  <2>1. VersionStep
    BY VersionStepTx DEF StoreInv
  <2>2. CASE \E v \in Version : PointerMove(v) \/ Failing(v)
    BY <2>2 DEF PointerMove, Failing
  <2>3. CASE \E v \in Version : Publishing(v)
    <3>1. PICK v \in Version : Publishing(v)
      BY <2>3
    <3>2. version[v].base = stable
      BY <3>1 DEF Publishing, StoreInv, VersionsKeepBase, Run, NoRun
    <3>3. version'[v].base = version[v].base
      BY <3>1, <2>1, VersionsStay DEF Publishing, StoreInv
    <3> QED
      BY <3>1, <3>2, <3>3 DEF Publishing
  <2>4. CASE \E v \in Version, row \in VersionRow : Inserting(v, row)
    BY <2>4 DEF Inserting, StoreInv, TypeOK
  <2> QED
    BY <2>1, <2>2, <2>3, <2>4 DEF VersionStep
<1>2. StoreSpec => [][Kept]_storeVars
  BY <1>1, StoreInvariant, PTL DEF StoreSpec
<1> QED
  BY <1>2 DEF NoLostUpdate

-----------------------------------------------------------------------------
(* A transaction writes what is shown of one run at most, and the helpers     *)
(* give the snapshot a new version whenever that run is the pointed one.      *)
WritesRun(r) ==
  \A q \in Run \ {r} : /\ run'[q].status = run[q].status
                        /\ stage'[q] = stage[q] /\ artifact'[q] = artifact[q]
WritesNoRun ==
  \A q \in Run : /\ run'[q].status = run[q].status
                 /\ stage'[q] = stage[q] /\ artifact'[q] = artifact[q]
Ordered == Shown' # Shown => wf'.version > wf.version

(* Without a write to what is shown, an unmoved pointer shows the same. *)
LEMMA ShownStays ==
  ASSUME TypeOK, wf' = wf,
         wf.run # NoRun => /\ run'[wf.run].status = run[wf.run].status
                           /\ stage'[wf.run] = stage[wf.run]
                           /\ artifact'[wf.run] = artifact[wf.run]
  PROVE  Ordered
BY DEF Ordered, Shown

(* A pointer that moves has a new version. *)
LEMMA PointedIsNewer ==
  ASSUME TypeOK, NEW r, NEW s, wf' = PointTo(r, s) PROVE Ordered
<1>1. wf.version \in Nat
  BY DEF TypeOK, WorkflowTypeOK, WorkflowRow
<1> QED
  BY <1>1 DEF Ordered, PointTo

(* bumpWorkflowForRunTx beside the writes to the same run is enough. *)
LEMMA BumpedIsNewer ==
  ASSUME TypeOK, NEW r \in Run, NEW s, wf' = BumpForRun(r, s), WritesRun(r)
  PROVE  Ordered
<1>1. CASE wf.run = r
  BY <1>1, PointedIsNewer DEF BumpForRun
<1>2. CASE wf.run # r
  <2>1. wf' = wf
    BY <1>2 DEF BumpForRun
  <2>2. wf.run # NoRun => wf.run \in Run \ {r}
    BY <1>2 DEF TypeOK, WorkflowTypeOK, WorkflowRow
  <2> QED
    BY <2>1, <2>2, ShownStays DEF WritesRun
<1> QED
  BY <1>1, <1>2

(* The end of a run writes its row, and stage rows and artifacts not at all. *)
LEMMA FinishIsNewer ==
  ASSUME TypeOK, NEW r \in Run, NEW n, NEW s, NEW v, Finish(r, n, s, v),
         UNCHANGED <<stage, artifact>>
  PROVE  Ordered
<1>1. WritesRun(r)
  BY DEF Finish, WritesRun, TypeOK
<1> QED
  BY <1>1, BumpedIsNewer DEF Finish

(* Every transaction orders its snapshot. *)
LEMMA OrderedTx == ASSUME TypeOK, StoreTx PROVE Ordered
<1>1. ASSUME WritesNoRun, wf' = wf PROVE Ordered
  <2>1. wf.run # NoRun => wf.run \in Run
    BY DEF TypeOK, WorkflowTypeOK, WorkflowRow
  <2> QED
    BY <1>1, <2>1, ShownStays DEF WritesNoRun
<1>2. ASSUME WritesNoRun, wf' = BumpSnapshot PROVE Ordered
  <2>1. wf.version \in Nat /\ wf'.version = wf.version + 1
    BY <1>2 DEF TypeOK, WorkflowTypeOK, WorkflowRow, BumpSnapshot
  <2> QED
    BY <2>1 DEF Ordered
<1>3. CASE MarkActiveRunsInterrupted
  <2>1. CASE wf.run \in Run /\ Active(wf.run)
    BY <1>3, <2>1, PointedIsNewer DEF MarkActiveRunsInterrupted
  <2>2. CASE ~(wf.run \in Run /\ Active(wf.run))
    <3>1. wf' = wf /\ artifact' = artifact
      BY <1>3, <2>2 DEF MarkActiveRunsInterrupted
    <3>2. ASSUME wf.run # NoRun
          PROVE  run'[wf.run] = run[wf.run] /\ stage'[wf.run] = stage[wf.run]
      <4>1. wf.run \in Run /\ ~Active(wf.run)
        BY <2>2, <3>2 DEF TypeOK, WorkflowTypeOK, WorkflowRow
      <4>2. run'[wf.run] = run[wf.run]
        BY <1>3, <4>1 DEF MarkActiveRunsInterrupted
      <4>3. stage'[wf.run] = [n \in Attempt |-> [s \in Stage |-> stage[wf.run][n][s]]]
        BY <1>3, <4>1 DEF MarkActiveRunsInterrupted
      <4>4. stage[wf.run] = [n \in Attempt |-> [s \in Stage |-> stage[wf.run][n][s]]]
        BY <4>1 DEF TypeOK, WorkflowTypeOK
      <4> QED
        BY <4>2, <4>3, <4>4
    <3> QED
      BY <3>1, <3>2, ShownStays
  <2> QED
    BY <2>1, <2>2
<1>4. CASE GetProject
  BY <1>4, PointedIsNewer DEF GetProject
<1>5. ASSUME NEW v \in Version, RestoreVersion(v) PROVE Ordered
  BY <1>1, <1>5 DEF RestoreVersion, WritesNoRun, wfVars
<1>6. ASSUME NEW v \in Version, NEW ok \in BOOLEAN, WriteFile(v, ok) PROVE Ordered
  BY <1>1, <1>2, <1>6 DEF WriteFile, WritesNoRun
<1>7. ASSUME NEW v \in Version, version[v].run \in Run, DropDraft(v) PROVE Ordered
  BY <1>1, <1>7 DEF DropDraft, WritesNoRun, wfVars, TypeOK, RunRow
<1>8. ASSUME NEW r \in Run, NEW canStart \in BOOLEAN, CreateRun(r, canStart) PROVE Ordered
  BY <1>8, PointedIsNewer DEF CreateRun
<1>9. ASSUME NEW r \in Run, FailRun(r) \/ \E s \in RunStatus : SetRunStatus(r, s)
      PROVE  Ordered
  <2>1. WritesRun(r)
    BY <1>9 DEF FailRun, SetRunStatus, WritesRun, TypeOK
  <2> QED
    BY <1>9, <2>1, BumpedIsNewer DEF FailRun, SetRunStatus
<1>10. ASSUME NEW r \in Run, NEW type \in DOMAIN EventWorkflow, NEW s \in Stage \cup {NoStage},
              AppendEvent(r, type, s)
       PROVE  Ordered
  <2>1. WritesRun(r)
    BY <1>10 DEF AppendEvent, SetStage, WritesRun, TypeOK, WorkflowTypeOK
  <2> QED
    BY <1>10, <2>1, BumpedIsNewer DEF AppendEvent
<1>11. ASSUME NEW r \in Run, NEW v \in Version, NEW ok \in BOOLEAN, CreateDraftVersion(v, r, ok)
       PROVE  Ordered
  BY <1>1, <1>11 DEF CreateDraftVersion, WritesNoRun, wfVars
<1>12. ASSUME NEW r \in Run, NEW n \in Attempt, StartAttempt(r, n) \/ BeginAttempt(r, n)
       PROVE  Ordered
  <2>1. WritesRun(r)
    BY <1>12 DEF StartAttempt, BeginAttempt, InitStages, WritesRun, TypeOK, WorkflowTypeOK
  <2> QED
    BY <1>12, <2>1, BumpedIsNewer DEF StartAttempt, BeginAttempt
<1>13. ASSUME NEW r \in Run, NEW n \in Attempt, NEW s \in Stage, RecordStageArtifact(r, n, s)
       PROVE  Ordered
  <2>1. WritesRun(r)
    BY <1>13 DEF RecordStageArtifact, SetStage, WritesRun, TypeOK, WorkflowTypeOK
  <2> QED
    BY <1>13, <2>1, BumpedIsNewer DEF RecordStageArtifact
<1>14. ASSUME NEW r \in Run, NEW n \in Attempt, NEW v \in Version,
              \/ PromoteDraftVersion(v, r, n) \/ FailDraftVersion(v, r, n)
              \/ CommitVersion(v, r, n) \/ FailVersion(v, r, n)
       PROVE  Ordered
  BY <1>14, FinishIsNewer DEF PromoteDraftVersion, FailDraftVersion, CommitVersion, FailVersion
<1>15. ASSUME NEW r \in Run, NEW n \in Attempt, RetryRun(r, n) \/ NewAttempt(r, n) PROVE Ordered
  BY <1>12, <1>15 DEF RetryRun, NewAttempt
<1> QED
  BY <1>3, <1>4, <1>5, <1>6, <1>7, <1>8, <1>9, <1>10, <1>11, <1>12, <1>13, <1>14, <1>15
     DEF StoreTx

(* SnapshotOrdered: what a reader sees changes only with its state_version. *)
THEOREM StoreSnapshotOrdered == StoreSpec => SnapshotOrdered
<1>1. StoreInv /\ [StoreNext]_storeVars => [Ordered]_storeVars
  BY OrderedTx DEF StoreNext, StoreInv
<1>2. StoreSpec => [][Ordered]_storeVars
  BY <1>1, StoreInvariant, PTL DEF StoreSpec
<1> QED
  BY <1>2 DEF SnapshotOrdered, Ordered

-----------------------------------------------------------------------------
(* Where a walk through the bases leads that ends at what is no manual edit:  *)
(* to what is in every set of versions that has x and the base of each edit   *)
(* in it.                                                                     *)
Versions == Version \cup {NoVersion}
Edits == {v \in Version : version[v].run = NoRun}
Leads(x, y) ==
  /\ y \in Versions \ Edits
  /\ \A X \in SUBSET Versions : x \in X /\ (\A z \in X \cap Edits : version[z].base \in X) => y \in X

(* It leads nowhere else from its end, and from an edit where its base leads. *)
LEMMA LeadsOn ==
  ASSUME TypeOK, NEW x \in Versions, NEW y
  PROVE  /\ x \notin Edits => (Leads(x, y) <=> y = x)
         /\ x \in Edits => (Leads(x, y) <=> Leads(version[x].base, y))
<1>1. ASSUME x \notin Edits PROVE Leads(x, y) <=> y = x
  <2>1. {x} \in SUBSET Versions /\ {x} \cap Edits = {}
    BY <1>1
  <2> QED
    BY <1>1, <2>1 DEF Leads
<1>2. ASSUME x \in Edits, Leads(x, y), NEW X \in SUBSET Versions, version[x].base \in X,
             \A z \in X \cap Edits : version[z].base \in X
      PROVE  y \in X
  <2>1. /\ X \cup {x} \in SUBSET Versions /\ x \in X \cup {x}
        /\ \A z \in (X \cup {x}) \cap Edits : version[z].base \in X \cup {x}
    BY <1>2
  <2>2. y \in X \cup {x} /\ y \notin Edits
    BY <1>2, <2>1 DEF Leads
  <2> QED
    BY <1>2, <2>2
<1> QED
  BY <1>1, <1>2 DEF Leads

(* The walk, as the function of versions that PreviewRun takes it for. *)
Walk(origin) ==
  origin = [v \in Versions |->
              IF v = NoVersion THEN NoRun
              ELSE IF version[v].run # NoRun THEN version[v].run
              ELSE origin[version[v].base]]

(* So the walk of previewWorkflowRunTx has a result for every version. *)
LEMMA WalkExists == ASSUME TypeOK PROVE \E origin : Walk(origin)
<1> DEFINE Ends(x) == {y \in Versions : Leads(x, y)}
           RunOf(y) == IF y = NoVersion THEN NoRun ELSE version[y].run
           f == [x \in Versions |-> RunOf(CHOOSE y : y \in Ends(x))]
<1>1. ASSUME NEW x \in Versions \ Edits PROVE f[x] = RunOf(x)
  <2>1. Ends(x) = {x}
    BY LeadsOn
  <2>2. (CHOOSE y : y \in {x}) = x
    OBVIOUS
  <2> HIDE DEF Ends, RunOf
  <2> QED
    BY <2>1, <2>2
<1>2. ASSUME NEW x \in Edits PROVE f[x] = f[version[x].base]
  <2>1. x \in Versions /\ version[x].base \in Versions
    BY DEF TypeOK, VersionRow, Edits, Versions
  <2>2. Ends(x) = Ends(version[x].base)
    BY <2>1, LeadsOn
  <2> HIDE DEF Ends, RunOf
  <2> QED
    BY <2>1, <2>2
<1>3. f = [x \in Versions |-> f[x]]
  OBVIOUS
<1> HIDE DEF f
<1>4. NoVersion \notin Version
  BY DEF Version, NoVersion
<1>5. ASSUME NEW x \in Versions
      PROVE  f[x] = IF x = NoVersion THEN NoRun
                    ELSE IF version[x].run # NoRun THEN version[x].run ELSE f[version[x].base]
  BY <1>1, <1>2, <1>4 DEF Edits, Versions
<1> QED
  BY <1>3, <1>5, Zenon DEF Walk

(* PreviewRun is its result for the stable version. *)
LEMMA PreviewRunIs == ASSUME TypeOK PROVE \E origin : Walk(origin) /\ PreviewRun = origin[stable]
<1> DEFINE origin == CHOOSE f : Walk(f)
<1>1. Walk(origin)
  BY WalkExists
<1>2. PreviewRun = origin[stable]
  BY Zenon DEF PreviewRun, Walk, Versions
<1> HIDE DEF origin
<1> QED
  BY <1>1, <1>2

(* What a version is based on was published before; only an edit has no run. *)
LineagePublished ==
  \A v \in Version : version[v].status # "none" =>
    /\ version[v].run = NoRun => version[v].base # NoVersion
    /\ version[v].base # NoVersion => version[version[v].base].status = "stable"

(* A new version is based on what is published, an edit on the stable version. *)
LEMMA LineagePublishedStep ==
  ASSUME StoreInv, LineagePublished, VersionStep PROVE LineagePublished'
<1> SUFFICES ASSUME NEW v \in Version, version'[v].status # "none"
             PROVE  /\ version'[v].run = NoRun => version'[v].base # NoVersion
                    /\ version'[v].base # NoVersion => version'[version'[v].base].status = "stable"
  BY DEF LineagePublished
<1>0. TypeOK
  BY DEF StoreInv
<1>1. /\ version'[v].run = NoRun => version'[v].base # NoVersion
      /\ version'[v].base # NoVersion =>
           version'[v].base \in Version /\ version[version'[v].base].status = "stable"
  <2>1. CASE version[v].status # "none"
    BY <1>0, <2>1, VersionsStay DEF LineagePublished, TypeOK, VersionRow
  <2>2. CASE version[v].status = "none"
    <3>1. PICK row \in VersionRow : Inserting(v, row)
      BY <2>2 DEF VersionStep, StoreInv, TypeOK, PointerMove, Failing, Publishing, Inserting
    <3>2. version'[v] = row
      BY <3>1 DEF Inserting, StoreInv, TypeOK
    <3>3. CASE row.run \in Run /\ row.base = run[row.run].base
      <4>1. row.run # NoRun
        BY <3>3 DEF Run, NoRun
      <4> QED
        BY <1>0, <3>2, <3>3, <4>1 DEF StoreInv, BasesWereStable, TypeOK, RunRow
    <3>4. CASE row.run = NoRun /\ row.base = stable /\ stable # NoVersion
      BY <1>0, <3>2, <3>4 DEF StoreInv, StableIsStable, TypeOK
    <3> QED
      BY <3>1, <3>3, <3>4 DEF Inserting
  <2> QED
    BY <2>1, <2>2
<1> QED
  BY <1>0, <1>1, VersionsStay

(* The walk from a published version ends at one that has a run. *)
LEMMA WalkEnds ==
  ASSUME StoreInv, LineagePublished, NEW origin, Walk(origin), NEW v \in Version, version[v].status = "stable"
  PROVE  \E u \in Version : /\ version[u].status = "stable" /\ version[u].run \in Run
                            /\ origin[v] = version[u].run
<1> DEFINE Fine(x) == \E u \in Version : /\ version[u].status = "stable" /\ version[u].run \in Run
                                         /\ origin[x] = version[u].run
           Bad == {x \in Version : version[x].status = "stable" /\ ~Fine(x)}
<1>1. ASSUME NEW x \in Bad PROVE \E y \in Bad : y < x
  <2>1. /\ x \in Version /\ x # NoVersion /\ x \in Versions /\ version[x] \in VersionRow
        /\ version[x].status = "stable" /\ ~Fine(x)
    BY DEF StoreInv, TypeOK, Version, NoVersion, Versions
  <2> HIDE DEF Fine
  <2>2. version[x].run # NoRun => origin[x] = version[x].run
    BY <2>1 DEF Walk
  <2>3. version[x].run = NoRun
    BY <2>1, <2>2 DEF VersionRow, Fine
  <2>4. origin[x] = origin[version[x].base]
    BY <2>1, <2>3 DEF Walk
  <2>5. version[x].base # NoVersion /\ version[version[x].base].status = "stable"
    BY <2>1, <2>3 DEF LineagePublished
  <2>6. version[x].base \in Version /\ version[x].base < x
    BY <2>1, <2>5 DEF VersionRow, StoreInv, LineageDescends
  <2>7. ~Fine(version[x].base)
    BY <2>1, <2>4 DEF Fine
  <2> QED
    BY <2>5, <2>6, <2>7
<1>2. ASSUME Bad # {} PROVE FALSE
  <2>1. Bad \in SUBSET Nat
    BY DEF Version
  <2> HIDE DEF Bad
  <2>2. PICK x \in Bad : \A y \in Bad : ~(<<y, x>> \in OpToRel(<, Nat))
    BY <1>2, <2>1, NatLessThanWellFounded, WFMin
  <2>3. \A y, z \in Nat : y < z => <<y, z>> \in OpToRel(<, Nat)
    BY DEF OpToRel
  <2> QED
    BY <1>1, <2>1, <2>2, <2>3
<1> QED
  BY <1>2

(* So does the walk from what is shown. *)
LEMMA PreviewPublished ==
  ASSUME StoreInv, LineagePublished PROVE PreviewIsPublished
<1>1. TypeOK
  BY DEF StoreInv
<1>2. PICK origin : Walk(origin) /\ PreviewRun = origin[stable]
  BY <1>1, PreviewRunIs
<1>3. stable # NoVersion => stable \in Version /\ version[stable].status = "stable"
  BY <1>1 DEF StoreInv, StableIsStable, TypeOK
<1> QED
  BY <1>2, <1>3, WalkEnds DEF PreviewIsPublished

(* PreviewIsPublished: the walk to the preview's run ends at a published     *)
(* version that an agent wrote.                                              *)
THEOREM StorePreviewIsPublished == StoreSpec => []PreviewIsPublished
<1>1. StoreInit => LineagePublished
  BY DEF StoreInit, LineagePublished
<1>2. StoreInv /\ LineagePublished /\ [StoreNext]_storeVars => LineagePublished'
  <2>1. ASSUME StoreInv, LineagePublished, StoreTx PROVE LineagePublished'
    BY <2>1, VersionStepTx, LineagePublishedStep DEF StoreInv
  <2>2. ASSUME LineagePublished, UNCHANGED storeVars PROVE LineagePublished'
    BY <2>2 DEF LineagePublished, storeVars
  <2> QED
    BY <2>1, <2>2 DEF StoreNext
<1>3. StoreInv /\ LineagePublished => PreviewIsPublished
  BY PreviewPublished
<1> QED
  BY <1>1, <1>2, <1>3, StoreInvariant, PTL DEF StoreSpec
=============================================================================
