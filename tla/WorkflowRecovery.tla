-------------------------- MODULE WorkflowRecovery --------------------------
(***************************************************************************)
(* One database through start-ups, crashes and an upgrade: the migrations  *)
(* (internal/db/db.go), the start-up reconciliation, and the read that     *)
(* fills in the workflow tables of migration 0002 for a project that is    *)
(* older than they are, and checks them (loadWorkflowSnapshotTx).  Runs go *)
(* through the transactions of RunStore, told here as briefly as the       *)
(* workflow tables allow.  The build before migration 0002 is external: it *)
(* is taken to run the same transactions without the workflow tables, and  *)
(* it may have left out the artifact of a stage.                           *)
(***************************************************************************)
EXTENDS WorkflowState, FiniteSetsExt

CONSTANT MaxDisturbances   \* bound on crashes, retries, restores and callbacks

ASSUME MaxDisturbances \in Nat

Init1 == "0001_init"
Init2 == "0002_workflow_state"
Migrations == [before |-> <<Init1>>, this |-> <<Init1, Init2>>]

VARIABLES
  process,   \* "down", "migrating", "reconciling", "serving"
  build,     \* of the process: "before" or "this"
  recorded,  \* the rows of schema_migrations
  tables,    \* the migrations whose tables there are
  created,   \* whether the project exists
  run,       \* run -> [status, attempts: how many]
  latest,    \* the run whose row was updated last
  began,     \* run -> the stages with a stage_started event
  blamed,    \* run -> the stage of its last run_failed event
  preview,   \* the run that the stable version is of
  conflict,  \* the unresolved workflow_state_conflicts: <<run, code>>
  loop,      \* the loop at work: [run, at: index of its stage, busy]
  due,       \* terminal events still to be emitted: [run, type, stage]
  disturbed  \* how many of MaxDisturbances there were

runVars == <<created, run, latest, began, blamed, preview>>
loopVars == <<loop, due>>
processVars == <<process, build, recorded, tables>>
recoveryVars == <<processVars, conflict, runVars, loopVars, wfVars, disturbed>>

Disturb == disturbed < MaxDisturbances /\ disturbed' = disturbed + 1

NoLoop == [run |-> NoRun, at |-> 1, busy |-> FALSE]
Missing == [run |-> NoRun, status |-> "none", version |-> 0]   \* no pointer row

Active(r) == run[r].status \in LiveStatus
NoActiveRun == \A r \in Run : ~Active(r)
Serving == process = "serving"

Init ==
  /\ process = "down" /\ build \in DOMAIN Migrations
  /\ recorded = {} /\ tables = {} /\ created = FALSE
  /\ run = [r \in Run |-> [status |-> "none", attempts |-> 0]]
  /\ latest = NoRun
  /\ began = [r \in Run |-> {}] /\ blamed = [r \in Run |-> NoStage]
  /\ preview = NoRun /\ conflict = {} /\ loop = NoLoop /\ due = {} /\ disturbed = 0
  /\ wf = Missing
  /\ stage = [r \in Run |-> [n \in Attempt |-> [s \in Stage |-> "none"]]]
  /\ artifact = [r \in Run |-> [n \in Attempt |-> {}]]

-----------------------------------------------------------------------------
(* What a transaction does to the workflow tables, if its build has them. *)
Workflow(row, stages) ==
  IF build = "this" THEN wf' = row /\ stage' = stages ELSE UNCHANGED <<wf, stage>>

(* Variants with a defect: without a row, nothing is inserted; a late write   *)
(* takes the pointer.                                                         *)
BumpExisting(r, s) == BumpForRun(r, s)
BumpAny(r, s) == PointTo(r, s)
(* bumpWorkflowForRunTx *)
Bump(r, s) == IF wf = Missing THEN PointTo(r, s) ELSE BumpForRun(r, s)
(* bumpProjectWorkflowSnapshotTx *)
BumpPreview == IF wf = Missing THEN wf ELSE BumpSnapshot

-----------------------------------------------------------------------------
(* Start-up. *)

Start ==
  /\ process = "down"
  /\ process' = "migrating"
  /\ build' \in {build, "this"}
  /\ UNCHANGED <<disturbed, recorded, tables, conflict, runVars, loopVars, wfVars>>

Needed == {Migrations[build][i] : i \in DOMAIN Migrations[build]}
NextMigration(i) ==
  /\ Migrations[build][i] \notin recorded
  /\ \A j \in DOMAIN Migrations[build] : j < i => Migrations[build][j] \in recorded

(* Variant with a defect: the record is written before the tables. *)
ApplyInTwo(m) == recorded' = recorded \cup {m} /\ UNCHANGED tables
(* the transaction of one migration *)
Apply(m) == recorded' = recorded \cup {m} /\ tables' = tables \cup {m}

Migrate ==
  /\ process = "migrating"
  /\ \E i \in DOMAIN Migrations[build] : NextMigration(i) /\ Apply(Migrations[build][i])
  /\ UNCHANGED <<disturbed, process, build, conflict, runVars, loopVars, wfVars>>
Migrated ==
  /\ process = "migrating" /\ Needed \subseteq recorded
  /\ process' = "reconciling"
  /\ UNCHANGED <<disturbed, build, recorded, tables, conflict, runVars, loopVars, wfVars>>

(* MarkActiveRunsInterrupted *)
Reconcile ==
  /\ process = "reconciling" /\ process' = "serving"
  /\ \/ NoActiveRun /\ UNCHANGED <<runVars, wf, stage>>
     \/ \E r \in Run :
          /\ Active(r)
          /\ run' = [run EXCEPT ![r].status = "interrupted"]
          /\ latest' = r
          /\ Workflow(Bump(r, "cancelled"),
               [stage EXCEPT ![r] = [n \in Attempt |-> [s \in Stage |->
                  IF @[n][s] = "running" /\ \A m \in Attempt, t \in Stage :
                       m > n => @[m][t] = "none"
                  THEN "cancelled" ELSE @[n][s]]]])
          /\ UNCHANGED <<created, began, blamed, preview>>
  /\ UNCHANGED <<disturbed, build, recorded, tables, conflict, artifact, loopVars>>
(* Its failure is logged only. *)
ReconcileFails ==
  /\ process = "reconciling" /\ process' = "serving"
  /\ UNCHANGED <<disturbed, build, recorded, tables, conflict, runVars, loopVars, wfVars>>

(* A crash, a shutdown, or a migration that fails; the bound is on those of   *)
(* the build that has the workflow tables.                                    *)
Crash ==
  /\ IF build = "this" THEN Disturb ELSE UNCHANGED disturbed
  /\ process # "down" /\ process' = "down"
  /\ loop' = NoLoop /\ due' = {}
  /\ UNCHANGED <<build, recorded, tables, conflict, runVars, wfVars>>

-----------------------------------------------------------------------------
(* Requests and the loop. *)

CreateProject ==
  /\ Serving /\ ~created
  /\ created' = TRUE
  /\ Workflow([run |-> NoRun, status |-> "draft", version |-> 1], stage)
  /\ UNCHANGED <<disturbed, processVars, conflict, run, latest, began,
                 blamed, preview, loopVars, artifact>>

(* without a model the run is recorded as failed *)
CreateRun(r, canStart) ==
  LET s == IF canStart THEN "queued" ELSE "failed" IN
  /\ Serving /\ created /\ NoActiveRun
  /\ run[r].status = "none" /\ \A q \in Run : q < r => run[q].status # "none"
  /\ run' = [run EXCEPT ![r] = [status |-> s, attempts |-> 1]]
  /\ latest' = r
  /\ loop' = IF canStart THEN [NoLoop EXCEPT !.run = r] ELSE loop
  /\ Workflow(PointTo(r, RunWorkflowStatus(s)), InitStages(r, 1))
  /\ UNCHANGED <<disturbed, processVars, conflict, created, began,
                 blamed, preview, due, artifact>>

RetryRun(r) ==
  LET n == run[r].attempts + 1 IN
  /\ Disturb
  /\ Serving /\ NoActiveRun /\ n \in Attempt
  /\ run[r].status \in {"failed", "interrupted"}
  /\ run' = [run EXCEPT ![r] = [status |-> "running", attempts |-> n]]
  /\ latest' = r
  /\ loop' = [NoLoop EXCEPT !.run = r]
  /\ Workflow(Bump(r, "running"), InitStages(r, n))
  /\ UNCHANGED <<processVars, conflict, created, began,
                 blamed, preview, due, artifact>>

LoopAt(s) == loop.run # NoRun /\ loop.at \in DOMAIN StageOrder /\ s = StageOrder[loop.at]

(* AppendEvent of stage_started, of a stage or of the repair of its engineer *)
BeginStage(s) ==
  LET r == loop.run
      repair == loop.busy /\ LoopAt("qa") /\ s = "engineer" IN
  /\ repair \/ (LoopAt(s) /\ ~loop.busy)
  /\ loop' = [loop EXCEPT !.busy = TRUE, !.at = IF repair THEN @ - 1 ELSE @]
  /\ began' = [began EXCEPT ![r] = @ \cup {s}]
  /\ Workflow(Bump(r, "running"), SetStage(r, run[r].attempts, s, "running"))
  /\ UNCHANGED <<disturbed, processVars, conflict, created, run, latest,
                 blamed, preview, due, artifact>>

(* RecordStageArtifact *)
EndStage(s) ==
  LET r == loop.run
      n == run[r].attempts IN
  /\ LoopAt(s) /\ loop.busy
  /\ loop' = [loop EXCEPT !.busy = FALSE, !.at = @ + 1]
  /\ \/ /\ artifact' = [artifact EXCEPT ![r][n] = @ \cup {s}]
        /\ Workflow(Bump(r, "running"), SetStage(r, n, s, "succeeded"))
     \/ build = "before" /\ UNCHANGED wfVars
  /\ UNCHANGED <<disturbed, processVars, conflict, runVars, due>>

(* PromoteDraftVersion of the run's draft *)
Succeed ==
  LET r == loop.run IN
  /\ r # NoRun /\ loop.at = Len(StageOrder) + 1
  /\ run' = [run EXCEPT ![r].status = "succeeded"]
  /\ latest' = r
  /\ preview' = r
  /\ loop' = NoLoop
  /\ due' = due \cup {[run |-> r, type |-> "run_completed", stage |-> NoStage]}
  /\ Workflow(Bump(r, "completed"), stage)
  /\ UNCHANGED <<disturbed, processVars, conflict, created, began, blamed, artifact>>

(* FailRun, with a failure at the loop's stage or before one *)
FailRun ==
  LET r == loop.run IN
  /\ r # NoRun
  /\ run' = [run EXCEPT ![r].status = "failed"]
  /\ latest' = r
  /\ loop' = NoLoop
  /\ \E s \in {t \in Stage : LoopAt(t)} \cup {NoStage} :
       due' = due \cup {[run |-> r, type |-> "run_failed", stage |-> s]}
  /\ Workflow(Bump(r, "failed"), stage)
  /\ UNCHANGED <<disturbed, processVars, conflict, created, began,
                 blamed, preview, artifact>>

(* AppendEvent of the terminal event, in a transaction of its own *)
Emit(e) ==
  LET failed == e.type = "run_failed" IN
  /\ due' = due \ {e}
  /\ blamed' = IF failed THEN [blamed EXCEPT ![e.run] = e.stage] ELSE blamed
  /\ Workflow(Bump(e.run, EventWorkflow[e.type]),
       IF failed /\ e.stage # NoStage
       THEN SetStage(e.run, run[e.run].attempts, e.stage, "failed") ELSE stage)
  /\ UNCHANGED <<disturbed, processVars, conflict, created, run, latest,
                 began, preview, loop, artifact>>

(* compileResult, of any attempt *)
CompileResult(r, n) ==
  /\ Disturb
  /\ Serving /\ n <= run[r].attempts
  /\ artifact' = [artifact EXCEPT ![r][n] = @ \cup {"qa"}]
  /\ Workflow(Bump(r, "running"), SetStage(r, n, "qa", "succeeded"))
  /\ UNCHANGED <<processVars, conflict, runVars, loopVars>>

(* WriteFile of code that compiles: its version descends from the preview's *)
WriteFile ==
  /\ Serving /\ NoActiveRun /\ preview # NoRun
  /\ Workflow(BumpPreview, stage)
  /\ UNCHANGED <<disturbed, processVars, conflict, runVars, loopVars, artifact>>

(* RestoreVersion, of a version that run r published *)
RestoreVersion(r) ==
  /\ Disturb
  /\ Serving /\ NoActiveRun /\ run[r].status = "succeeded"
  /\ preview' = r
  /\ UNCHANGED <<processVars, conflict, created, run, latest,
                 began, blamed, loopVars, wfVars>>

-----------------------------------------------------------------------------
(* GetProject: what it reads and repairs is a record of wf, stage, conflict. *)

(* loadHistoricalEvidenceTx: the artifacts of the attempt *)
Evidence(r, n) == artifact[r][n]

HistoricalStatus(r, n, s) ==
  LET shown == IF s \in Evidence(r, n) THEN "succeeded"
               ELSE IF s \in began[r] THEN "running" ELSE "waiting" IN
  CASE run[r].status = "succeeded" /\ shown # "succeeded" -> "recovering"
    [] run[r].status = "failed" /\ blamed[r] = s -> "failed"
    [] run[r].status = "interrupted" /\ shown = "running" -> "cancelled"
    [] OTHER -> shown

(* recoverWorkflowTx: from the run updated last, and its last attempt *)
Recovered(st) ==
  IF latest = NoRun
  THEN [st EXCEPT !.wf = [run |-> NoRun, version |-> 1,
                          status |-> IF preview = NoRun THEN "draft" ELSE "recovering"]]
  ELSE LET r == latest
           n == run[r].attempts
           rows == [s \in Stage |-> HistoricalStatus(r, n, s)]
           status == IF \E s \in Stage : rows[s] = "recovering" THEN "recovering"
                     ELSE RunWorkflowStatus(run[r].status) IN
       [st EXCEPT !.stage[r][n] = rows,
                  !.wf = [run |-> r, status |-> status, version |-> 1]]

(* loadLatestStagesTx: the attempt of a run whose stage rows are shown *)
ShownAttempt(rows) ==
  CHOOSE n \in Attempt \cup {0} :
    /\ n > 0 => \E s \in Stage : rows[n][s] # "none"
    /\ \A m \in Attempt, s \in Stage : m > n => rows[m][s] = "none"

(* The conflicts of a succeeded run with these stage rows; of its stages the  *)
(* first that is wrong counts.                                                *)
Conflicts(r, rows) ==
  LET n == ShownAttempt(rows)
      Row(s) == IF n = 0 THEN "none" ELSE rows[n][s]
      wrong == {i \in DOMAIN StageOrder :
                  Row(StageOrder[i]) # "succeeded" \/ StageOrder[i] \notin artifact[r][n]}
      If(condition, code) == IF condition THEN {code} ELSE {} IN
  If(preview = NoRun, "COMPLETED_WITHOUT_STABLE_PREVIEW")
  \cup If(preview # r, "PREVIEW_WORKFLOW_MISMATCH")
  \cup CASE \E s \in Stage : Row(s) = "none" -> {"REQUIRED_STAGE_MISSING"}
         [] wrong = {} -> {}
         [] OTHER -> IF Row(StageOrder[Min(wrong)]) # "succeeded"
                     THEN {"REQUIRED_STAGE_NOT_SUCCEEDED"}
                     ELSE {"SUCCEEDED_STAGE_WITHOUT_ARTIFACT"}

Checked(st) == st.wf.run # NoRun /\ run[st.wf.run].status = "succeeded"
Found(st) == Conflicts(st.wf.run, st.stage[st.wf.run])
Moved(st, status) ==
  [st EXCEPT !.wf = [run |-> @.run, status |-> status, version |-> @.version + 1]]
(* Variants with a defect: the repair is written whether it is due or not;   *)
(* the read checks nothing.                                                  *)
ReconciledAgain(st) ==
  IF Checked(st) /\ Found(st) # {} THEN Moved(st, "recovering") ELSE st
ReconciledNever(st) == st
(* reconcileConsistencyTx *)
Reconciled(st) ==
  LET found == [st EXCEPT !.conflict = @ \cup {<<st.wf.run, c>> : c \in Found(st)}]
      resolved == [st EXCEPT !.conflict = {}] IN
  CASE ~Checked(st) -> st
    [] Checked(st) /\ Found(st) # {} ->
         IF st.wf.status = "recovering" THEN found ELSE Moved(found, "recovering")
    [] OTHER ->
         IF st.wf.status = "recovering" THEN Moved(resolved, "completed") ELSE resolved

(* loadWorkflowSnapshotTx *)
Read(st) == Reconciled(IF st.wf = Missing THEN Recovered(st) ELSE st)
Rows == [wf |-> wf, stage |-> stage, conflict |-> conflict]

GetProject ==
  /\ Serving /\ created /\ build = "this"
  /\ wf' = Read(Rows).wf /\ stage' = Read(Rows).stage /\ conflict' = Read(Rows).conflict
  /\ UNCHANGED <<disturbed, processVars, runVars, loopVars, artifact>>

-----------------------------------------------------------------------------
Request ==
  \/ CreateProject \/ GetProject \/ WriteFile
  \/ \E r \in Run :
       \/ \E canStart \in BOOLEAN : CreateRun(r, canStart)
       \/ RetryRun(r) \/ RestoreVersion(r)
       \/ \E n \in Attempt : CompileResult(r, n)
LoopStep ==
  \/ \E s \in Stage : BeginStage(s) \/ EndStage(s)
  \/ Succeed \/ FailRun
  \/ \E e \in due : Emit(e)
Startup == Start \/ Migrate \/ Migrated \/ Reconcile \/ ReconcileFails
Next == Startup \/ Crash \/ Request \/ LoopStep
Spec == Init /\ [][Next]_recoveryVars

-----------------------------------------------------------------------------
(* A process that serves, or reconciles, has the tables its build uses: a     *)
(* migration that failed or was cut off stops the start, and its record and   *)
(* its tables come together.                                                  *)
TablesBeforeUse ==
  process \in {"reconciling", "serving"} => Needed \subseteq tables

(* A stage is shown as succeeded only with an artifact of that very attempt,  *)
(* tracked or filled in; and a project without a pointer row has no stage     *)
(* rows, whichever transaction came first after the upgrade: the read that    *)
(* fills them in inserts without ON CONFLICT, and would fail for ever.        *)
StageRowsSound ==
  \A r \in Run, n \in Attempt, s \in Stage :
    /\ stage[r][n][s] = "succeeded" => s \in artifact[r][n]
    /\ wf = Missing => stage[r][n][s] = "none"

(* What one read repairs is left alone by the next: a page that polls does    *)
(* not move the stateVersion, from any state of the rows.                     *)
ReadsSettle ==
  created /\ build = "this" /\ Serving => Read(Read(Rows)) = Read(Rows)

(* What a read shows as completed is the succeeded run whose version is the   *)
(* preview, every stage with its artifact, and no conflict left unresolved.   *)
CompletedIsEvident ==
  [][GetProject /\ wf'.status = "completed" =>
       /\ run[wf'.run].status = "succeeded" /\ preview = wf'.run
       /\ \E n \in Attempt : artifact[wf'.run][n] = Stage
       /\ conflict' = {}]_recoveryVars

(* No late write of an older run, and no read, moves the pointer: it moves to *)
(* a run that is being created.                                               *)
PointerForward ==
  [][wf'.run # wf.run /\ wf.run # NoRun =>
       wf'.run > wf.run /\ run[wf'.run].status = "none"]_recoveryVars
=============================================================================
