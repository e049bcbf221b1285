------------------------------ MODULE RunStore ------------------------------
(***************************************************************************)
(* The run, attempt, version and stable-pointer rows of one project, and   *)
(* the transactions of internal/store that change them.  The database has  *)
(* one connection (internal/db/db.go), so a transaction is one step; what  *)
(* callers do between two transactions interleaves.  Next lets any caller  *)
(* invoke any transaction with any rows, the test-only entry points        *)
(* included; AgentLoop restricts it to the calls the program makes.        *)
(***************************************************************************)
EXTENDS WorkflowState, FiniteSets

CONSTANTS
  MaxVersions,     \* bound on the version rows, numbered as they are created
  MaxStateVersion, \* bounds of StoreNext, see StoreBounds
  MaxTerminals,
  MaxStageRows

ASSUME StoreAssumption == MaxVersions \in Nat \ {0}

Version   == 1 .. MaxVersions
NoVersion == 0
NoAttempt == 0

RunStatus     == {"queued", "running", "succeeded", "failed", "interrupted"}
VersionStatus == {"draft", "stable", "failed"}
Terminal      == {"run_completed", "run_failed"}

VARIABLES
  run,      \* runs and their agent iteration: [status, active, base, result]
  attempt,  \* attempts: run -> sequence number -> status
  version,  \* versions and their creator: [status, run, base, ok], where ok
            \* is the verdict of compile.Validate on the version's App.tsx
  stable,   \* projects.stable_version_id
  ended     \* the terminal events of each run's log, in order

storeVars == <<run, attempt, version, stable, ended, wfVars>>

RunRow     == [status : RunStatus \cup {"none"},
               active : Attempt \cup {NoAttempt},
               base   : Version \cup {NoVersion},
               result : Version \cup {NoVersion}]
VersionRow == [status : VersionStatus \cup {"none"},
               run    : Run \cup {NoRun},
               base   : Version \cup {NoVersion},
               ok     : BOOLEAN]

TypeOK ==
  /\ WorkflowTypeOK
  /\ run \in [Run -> RunRow]
  /\ attempt \in [Run -> [Attempt -> RunStatus \cup {"none"}]]
  /\ version \in [Version -> VersionRow]
  /\ stable \in Version \cup {NoVersion}
  /\ ended \in [Run -> Seq(Terminal)]

StoreInit ==
  /\ WorkflowInit
  /\ run = [r \in Run |-> [status |-> "none", active |-> NoAttempt,
                           base |-> NoVersion, result |-> NoVersion]]
  /\ attempt = [r \in Run |-> [n \in Attempt |-> "none"]]
  /\ version = [v \in Version |-> [status |-> "none", run |-> NoRun,
                                   base |-> NoVersion, ok |-> FALSE]]
  /\ stable = NoVersion
  /\ ended = [r \in Run |-> << >>]

-----------------------------------------------------------------------------
RunExists(r) == run[r].status # "none"
Active(r)    == run[r].status \in LiveStatus

(* the checks "no queued/running run" of CreateRun, WriteFile, RestoreVersion *)
NoActiveRun  == \A r \in Run : ~Active(r)

(* Variant with a defect: the database has no such index. *)
OneActiveIndexMissing(r) == TRUE

(* the unique index idx_runs_one_active: what makes a second run of the      *)
(* project active fails with its transaction                                 *)
OneActiveIndex(r) == \A q \in Run \ {r} : ~Active(q)

(* rows are inserted in order *)
NextRun(r)        == ~RunExists(r) /\ \A q \in Run : q < r => RunExists(q)
NextVersion(v)    == /\ version[v].status = "none"
                     /\ \A u \in Version : u < v => version[u].status # "none"
NextAttempt(r, n) == /\ attempt[r][n] = "none"
                     /\ \A m \in Attempt : m < n => attempt[r][m] # "none"

LatestAttempt(r, n) ==
  /\ attempt[r][n] # "none"
  /\ \A m \in Attempt : m > n => attempt[r][m] = "none"

(* activeAttemptTx: the latest queued/running attempt, else the latest *)
CurrentAttempt(r, n) ==
  IF \E m \in Attempt : attempt[r][m] \in LiveStatus
  THEN /\ attempt[r][n] \in LiveStatus
       /\ \A m \in Attempt : m > n => attempt[r][m] \notin LiveStatus
  ELSE LatestAttempt(r, n)

-----------------------------------------------------------------------------
(* CreateRun.  Its baseVersionId is empty or the current stable version, or  *)
(* nothing happens.  Without a model (canStart FALSE) the run is recorded as *)
(* failed with a run_failed event that skips applyWorkflowEventTx.           *)
CreateRun(r, canStart) ==
  LET s == IF canStart THEN "queued" ELSE "failed" IN
  /\ NextRun(r)
  /\ NoActiveRun
  /\ run' = [run EXCEPT ![r] = [status |-> s, active |-> 1,
                                base |-> stable, result |-> NoVersion]]
  /\ attempt' = [attempt EXCEPT ![r][1] = s]
  /\ stage' = InitStages(r, 1)
  /\ wf' = PointTo(r, RunWorkflowStatus(s))
  /\ ended' = IF canStart THEN ended
              ELSE [ended EXCEPT ![r] = Append(@, "run_failed")]
  /\ UNCHANGED <<version, stable, artifact>>

(* the rows RetryRun and NewAttempt write for attempt n of run r *)
StartAttempt(r, n) ==
  /\ NextAttempt(r, n)
  /\ OneActiveIndex(r)
  /\ attempt' = [attempt EXCEPT ![r][n] = "running"]
  /\ run' = [run EXCEPT ![r].active = n, ![r].status = "running"]
  /\ stage' = InitStages(r, n)
  /\ wf' = BumpForRun(r, "running")
  /\ UNCHANGED <<version, stable, artifact, ended>>

(* Variants with a defect: a live, or a succeeded, run can be retried too. *)
RetryRunLive(r, n) == RunExists(r) /\ StartAttempt(r, n)
RetryRunSucceeded(r, n) ==
  run[r].status \in {"failed", "interrupted", "succeeded"} /\ StartAttempt(r, n)

RetryRun(r, n) == run[r].status \in {"failed", "interrupted"} /\ StartAttempt(r, n)

NewAttempt(r, n) == RunExists(r) /\ StartAttempt(r, n)

BeginAttempt(r, n) ==
  /\ RunExists(r) /\ attempt[r][n] # "none"
  /\ OneActiveIndex(r)
  /\ attempt' = [attempt EXCEPT ![r][n] = IF @ = "queued" THEN "running" ELSE @]
  /\ run' = [run EXCEPT ![r].status = "running"]
  /\ wf' = BumpForRun(r, "running")
  /\ UNCHANGED <<version, stable, ended, stage, artifact>>

(* RecordStageArtifact, of the attempt it names *)
RecordStageArtifact(r, n, s) ==
  /\ attempt[r][n] # "none"
  /\ artifact' = [artifact EXCEPT ![r][n] = @ \cup {s}]
  /\ stage' = SetStage(r, n, s, "succeeded")
  /\ wf' = BumpForRun(r, "running")
  /\ UNCHANGED <<run, attempt, version, stable, ended>>

(* AppendEvent of an event with its stage (NoStage when the payload has     *)
(* none), with applyWorkflowEventTx: the stage row written is the one of    *)
(* the run's current attempt, whoever emits the event.                      *)
AppendEvent(r, type, s) ==
  /\ RunExists(r)
  /\ type \in {"stage_started", "stage_artifact"} => s # NoStage
  /\ ended' = IF type \in Terminal THEN [ended EXCEPT ![r] = Append(@, type)]
              ELSE ended
  /\ wf' = BumpForRun(r, EventWorkflow[type])
  /\ IF type \in DOMAIN EventStage /\ s # NoStage
     THEN \E n \in Attempt :
            CurrentAttempt(r, n) /\ stage' = SetStage(r, n, s, EventStage[type])
     ELSE UNCHANGED stage
  /\ UNCHANGED <<run, attempt, version, stable, artifact>>

-----------------------------------------------------------------------------
(* CreateDraftVersion, in the iteration of run r *)
CreateDraftVersion(v, r, ok) ==
  /\ RunExists(r)
  /\ NextVersion(v)
  /\ version' = [version EXCEPT ![v] = [status |-> "draft", run |-> r,
                                        base |-> run[r].base, ok |-> ok]]
  /\ UNCHANGED <<run, attempt, stable, ended, wfVars>>

(* run r ends in status s, attempt n (NoAttempt: none named) with it *)
Finish(r, n, s, result) ==
  /\ run' = [run EXCEPT ![r].status = s, ![r].active = NoAttempt,
                        ![r].result = result]
  /\ attempt' = IF n = NoAttempt THEN attempt
                ELSE [attempt EXCEPT ![r][n] = s]
  /\ wf' = BumpForRun(r, RunWorkflowStatus(s))

(* Variant with a defect: publishing does not compare. *)
PublishBlindly(r) == TRUE

(* the CAS on projects.stable_version_id *)
CanPublish(r) == stable = run[r].base

(* PromoteDraftVersion of v, a draft of run r; a mismatch with the           *)
(* iteration's base rolls everything back.                                   *)
PromoteDraftVersion(v, r, n) ==
  /\ version[v].status = "draft"
  /\ CanPublish(r)
  /\ version' = [version EXCEPT ![v].status = "stable"]
  /\ stable' = v
  /\ Finish(r, n, "succeeded", v)
  /\ UNCHANGED <<ended, stage, artifact>>

(* Variant with a defect: the status of the version is not looked at. *)
FailAnyVersion(v, r, n) ==
  /\ version' = [version EXCEPT ![v].status = "failed"]
  /\ Finish(r, n, "failed", v)
  /\ UNCHANGED <<stable, ended, stage, artifact>>

(* FailDraftVersion with the run named, as the failing ends of a run call it *)
FailDraftVersion(v, r, n) ==
  /\ version[v].status = "draft"
  /\ version' = [version EXCEPT ![v].status = "failed"]
  /\ Finish(r, n, "failed", v)
  /\ UNCHANGED <<stable, ended, stage, artifact>>

(* Variant with a defect: a failed draft is reopened by its repair. *)
ReopenDraft(v) ==
  /\ version[v].status # "none"
  /\ version' = [version EXCEPT ![v].status = "draft"]
  /\ UNCHANGED <<run, attempt, stable, ended, wfVars>>

(* FailDraftVersion with run and attempt left empty, as a repair round calls *)
(* it for the draft it replaces                                              *)
DropDraft(v) ==
  LET r == version[v].run IN
  /\ version[v].status = "draft"
  /\ version' = [version EXCEPT ![v].status = "failed"]
  /\ run' = [run EXCEPT ![r].result = v]
  /\ UNCHANGED <<attempt, stable, ended, wfVars>>

(* Variant with a defect: the attempts that ended before are failed too. *)
FailRunAllAttempts(r) ==
  /\ RunExists(r)
  /\ attempt' = [attempt EXCEPT ![r] =
                   [n \in Attempt |-> IF @[n] = "none" THEN "none" ELSE "failed"]]
  /\ run' = [run EXCEPT ![r].status = "failed", ![r].active = NoAttempt]
  /\ wf' = BumpForRun(r, "failed")
  /\ UNCHANGED <<version, stable, ended, stage, artifact>>

(* Variant with a defect: the run's own attempt is left live. *)
FailRunRowOnly(r) ==
  /\ RunExists(r)
  /\ run' = [run EXCEPT ![r].status = "failed", ![r].active = NoAttempt]
  /\ wf' = BumpForRun(r, "failed")
  /\ UNCHANGED <<attempt, version, stable, ended, stage, artifact>>

FailRun(r) ==
  /\ RunExists(r)
  /\ attempt' = [attempt EXCEPT ![r] =
                   [n \in Attempt |-> IF @[n] \in LiveStatus THEN "failed" ELSE @[n]]]
  /\ run' = [run EXCEPT ![r].status = "failed", ![r].active = NoAttempt]
  /\ wf' = BumpForRun(r, "failed")
  /\ UNCHANGED <<version, stable, ended, stage, artifact>>

(* CommitVersion and FailVersion insert their version and finish the run in  *)
(* one transaction; an iteration that has its result only replays it.        *)
CommitVersion(v, r, n) ==
  /\ RunExists(r) /\ run[r].result = NoVersion
  /\ NextVersion(v)
  /\ CanPublish(r)
  /\ version' = [version EXCEPT ![v] = [status |-> "stable", run |-> r,
                                        base |-> run[r].base, ok |-> TRUE]]
  /\ stable' = v
  /\ Finish(r, n, "succeeded", v)
  /\ UNCHANGED <<ended, stage, artifact>>

FailVersion(v, r, n) ==
  /\ RunExists(r) /\ run[r].result = NoVersion
  /\ NextVersion(v)
  /\ version' = [version EXCEPT ![v] = [status |-> "failed", run |-> r,
                                        base |-> run[r].base, ok |-> FALSE]]
  /\ Finish(r, n, "failed", v)
  /\ UNCHANGED <<stable, ended, stage, artifact>>

SetRunStatus(r, s) ==
  /\ RunExists(r)
  /\ s \in LiveStatus => OneActiveIndex(r)
  /\ run' = [run EXCEPT ![r].status = s]
  /\ wf' = BumpForRun(r, RunWorkflowStatus(s))
  /\ UNCHANGED <<attempt, version, stable, ended, stage, artifact>>

-----------------------------------------------------------------------------
(* Variants with a defect: an edit during a run; an edit that is recorded as *)
(* based on itself.                                                          *)
WriteFileUnlocked(v, ok) ==
  /\ stable # NoVersion
  /\ NextVersion(v)
  /\ version' = [version EXCEPT ![v] = [status |-> IF ok THEN "stable" ELSE "failed",
                                        run |-> NoRun, base |-> stable, ok |-> ok]]
  /\ stable' = IF ok THEN v ELSE stable
  /\ wf' = IF ok THEN BumpSnapshot ELSE wf
  /\ UNCHANGED <<run, attempt, ended, stage, artifact>>
WriteFileOnItself(v, ok) ==
  /\ NoActiveRun
  /\ stable # NoVersion
  /\ NextVersion(v)
  /\ version' = [version EXCEPT ![v] = [status |-> IF ok THEN "stable" ELSE "failed",
                                        run |-> NoRun, base |-> v, ok |-> ok]]
  /\ stable' = IF ok THEN v ELSE stable
  /\ wf' = IF ok THEN BumpSnapshot ELSE wf
  /\ UNCHANGED <<run, attempt, ended, stage, artifact>>

(* WriteFile: a manual edit of the stable version.  An edit that compiles is *)
(* published in the same transaction, the other is kept as a failed version. *)
WriteFile(v, ok) ==
  /\ NoActiveRun
  /\ stable # NoVersion
  /\ NextVersion(v)
  /\ version' = [version EXCEPT ![v] = [status |-> IF ok THEN "stable" ELSE "failed",
                                        run |-> NoRun, base |-> stable, ok |-> ok]]
  /\ stable' = IF ok THEN v ELSE stable
  /\ wf' = IF ok THEN BumpSnapshot ELSE wf
  /\ UNCHANGED <<run, attempt, ended, stage, artifact>>

(* Variant with a defect: a restore during a run. *)
RestoreVersionUnlocked(v) ==
  /\ version[v].status = "stable"
  /\ stable' = v
  /\ UNCHANGED <<run, attempt, version, ended, wfVars>>

(* RestoreVersion; the restore iteration it records has no version of its own *)
RestoreVersion(v) ==
  /\ version[v].status = "stable"
  /\ NoActiveRun
  /\ stable' = v
  /\ UNCHANGED <<run, attempt, version, ended, wfVars>>

(* MarkActiveRunsInterrupted, at start-up *)
MarkActiveRunsInterrupted ==
  /\ run' = [r \in Run |->
       IF Active(r) THEN [run[r] EXCEPT !.status = "interrupted", !.active = NoAttempt]
       ELSE run[r]]
  /\ attempt' = [r \in Run |-> [n \in Attempt |->
       IF Active(r) /\ attempt[r][n] \in LiveStatus THEN "interrupted"
       ELSE attempt[r][n]]]
  /\ stage' = [r \in Run |-> [n \in Attempt |-> [s \in Stage |->
       IF Active(r) /\ LatestAttempt(r, n) /\ stage[r][n][s] = "running"
       THEN "cancelled" ELSE stage[r][n][s]]]]
  /\ wf' = IF wf.run \in Run /\ Active(wf.run) THEN PointTo(wf.run, "cancelled")
           ELSE wf
  /\ UNCHANGED <<version, stable, ended, artifact>>

-----------------------------------------------------------------------------
(* reconcileConsistencyTx, run by every GetProject.  The preview's run is    *)
(* found by following the manual edits down to an agent's version.           *)
PreviewRun ==
  LET origin[v \in Version \cup {NoVersion}] ==
        IF v = NoVersion THEN NoRun
        ELSE IF version[v].run # NoRun THEN version[v].run
        ELSE origin[version[v].base]
  IN origin[stable]

StageEvidence(r, n) ==
  \A s \in Stage : stage[r][n][s] = "succeeded" /\ s \in artifact[r][n]

(* the run and the preview agree: no conflict code is reported *)
Consistent(r) ==
  /\ PreviewRun = r
  /\ \E n \in Attempt : LatestAttempt(r, n) /\ StageEvidence(r, n)

GetProject ==
  /\ wf.run # NoRun
  /\ run[wf.run].status = "succeeded"
  /\ \/ ~Consistent(wf.run) /\ wf.status # "recovering"
        /\ wf' = PointTo(wf.run, "recovering")
     \/ Consistent(wf.run) /\ wf.status = "recovering"
        /\ wf' = PointTo(wf.run, "completed")
  /\ UNCHANGED <<run, attempt, version, stable, ended, stage, artifact>>

-----------------------------------------------------------------------------
DraftOf(v, r) == version[v].status # "none" /\ version[v].run = r

(* a transaction of the store *)
StoreTx ==
  \/ MarkActiveRunsInterrupted
  \/ GetProject
  \/ \E v \in Version : RestoreVersion(v) \/ \E ok \in BOOLEAN : WriteFile(v, ok)
  \/ \E v \in Version : version[v].run \in Run /\ DropDraft(v)
  \/ \E r \in Run :
       \/ \E canStart \in BOOLEAN : CreateRun(r, canStart)
       \/ FailRun(r)
       \/ \E s \in RunStatus : SetRunStatus(r, s)
       \/ \E type \in DOMAIN EventWorkflow, s \in Stage \cup {NoStage} :
            AppendEvent(r, type, s)
       \/ \E v \in Version, ok \in BOOLEAN : CreateDraftVersion(v, r, ok)
       \/ \E n \in Attempt :
            \/ RetryRun(r, n) \/ NewAttempt(r, n) \/ BeginAttempt(r, n)
            \/ \E s \in Stage : RecordStageArtifact(r, n, s)
            \/ /\ attempt[r][n] # "none"
               /\ \E v \in Version :
                    \/ DraftOf(v, r) /\ PromoteDraftVersion(v, r, n)
                    \/ DraftOf(v, r) /\ FailDraftVersion(v, r, n)
                    \/ CommitVersion(v, r, n) \/ FailVersion(v, r, n)

(* bounds for TLC; the program has none of them *)
StoreBounds ==
  /\ wf.version < MaxStateVersion
  /\ \A r \in Run : Len(ended[r]) < MaxTerminals
  /\ Cardinality({w \in Run \X Attempt \X Stage :
                    stage[w[1]][w[2]][w[3]] \notin {"none", "waiting"}}) < MaxStageRows

StoreNext == StoreBounds /\ StoreTx

StoreSpec == StoreInit /\ [][StoreNext]_storeVars

-----------------------------------------------------------------------------
(* Never two queued/running runs in a project (contract.json,                *)
(* concurrency.singleActiveRun), although RetryRun, NewAttempt, BeginAttempt *)
(* and SetRunStatus make a run active without looking for another one.       *)
OneActiveRun == \A q, r \in Run : Active(q) /\ Active(r) => q = r

(* The project never points at a draft or failed version (the doc of         *)
(* PromoteDraftVersion), in whatever order drafts are promoted, failed,      *)
(* replaced, edited and restored.                                            *)
StableIsStable == stable # NoVersion => version[stable].status = "stable"

(* A version's base is older than the version, so the lineage that           *)
(* previewWorkflowRunTx follows through manual edits has no cycle.           *)
LineageDescends ==
  \A v \in Version : version[v].status # "none" => version[v].base < v

(* That walk ends at a version that an agent wrote and that was published,   *)
(* through published versions only: what is shown always has a run.          *)
PreviewIsPublished ==
  stable # NoVersion =>
    \E v \in Version : /\ version[v].status = "stable"
                       /\ version[v].run \in Run /\ PreviewRun = version[v].run

(* The strengthening that makes the invariants above inductive: versions are *)
(* numbered without a gap, what a run starts from has been published, and an *)
(* agent's version is based on what its run started from.                    *)
VersionsInOrder ==
  \A u, v \in Version : u < v /\ version[v].status # "none" => version[u].status # "none"
BasesWereStable ==
  \A r \in Run : run[r].base # NoVersion => version[run[r].base].status = "stable"
VersionsKeepBase ==
  \A v \in Version : version[v].status # "none" /\ version[v].run # NoRun
    => RunExists(version[v].run) /\ version[v].base = run[version[v].run].base

StoreInv ==
  /\ TypeOK
  /\ OneActiveRun /\ StableIsStable /\ LineageDescends
  /\ VersionsInOrder /\ BasesWereStable /\ VersionsKeepBase

(* A promoted or failed version keeps its status and origin for good: a      *)
(* repeated or late PromoteDraftVersion or FailDraftVersion replays it.      *)
DecidedVersionsStay ==
  [][\A v \in Version : version[v].status \in {"stable", "failed"}
        => version'[v] = version[v]]_storeVars

(* Optimistic locking: a newly stable version was built on the version it    *)
(* replaces; only a restore moves to a version that was stable before.       *)
NoLostUpdate ==
  [][stable' # stable
        => \/ version[stable'].status = "stable"
           \/ version'[stable'].base = stable]_storeVars

(* What GetProject shows of the pointed workflow - pointer, status, run      *)
(* status, stage rows and artifacts - never changes under an unchanged       *)
(* state_version, which clients order responses by.                          *)
Shown == [run      |-> wf.run,
          status   |-> wf.status,
          runRow   |-> IF wf.run = NoRun THEN "none" ELSE run[wf.run].status,
          stages   |-> IF wf.run = NoRun THEN << >> ELSE stage[wf.run],
          evidence |-> IF wf.run = NoRun THEN << >> ELSE artifact[wf.run]]
SnapshotOrdered ==
  [][Shown' # Shown => wf'.version > wf.version]_storeVars
=============================================================================
