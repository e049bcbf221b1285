------------------------------ MODULE AgentLoop ------------------------------
(***************************************************************************)
(* The agent loops (internal/agent) driving runs through the store, next   *)
(* to the HTTP handlers that create and retry runs, edit, restore and read *)
(* the project (internal/api), the watchdog, and crashes of the server.    *)
(* A loop is named by its run and the attempt it was launched for; it      *)
(* crosses one transaction per step.  Chat messages and the events that no *)
(* other part of the state depends on (message_delta, file_written,        *)
(* preview_ready) are left out, and so are storage errors other than the   *)
(* refusal of a cancelled context.                                         *)
(***************************************************************************)
EXTENDS RunStore

CONSTANTS
  MaxAutoFixRounds,  \* limits.maxAutoFixRounds of the contract
  MaxLaunches,       \* bound on the loops launched, see Request
  Report             \* the results the browser compiler can report

ASSUME LoopAssumption == MaxAutoFixRounds \in Nat

VARIABLES
  loop,        \* run -> attempt -> the state of its Loop.Run, see Loop
  up,          \* whether the server is up
  configured,  \* whether it was started with a model
  reported     \* run -> attempt -> the results the browser compiler reported

loopVars == <<storeVars, loop, up, configured, reported>>

Steps == {"load", "emitRunStarted", "begin", "emitStageStarted", "turn",
          "record", "emitArtifact", "createDraft", "dropDraft", "gate",
          "promote", "emitCompleted", "failDraft", "emitCompileFailed",
          "failInfra", "emitFailed"}
Loop == [pc    : Steps \cup {"none", "done"},
         att   : Attempt \cup {NoAttempt},    \* runner.attemptID
         at    : 0 .. Len(StageOrder),        \* runner.stage; 0 is ""
         draft : Version \cup {NoVersion},    \* runner.currentDraft
         new   : Version \cup {NoVersion},    \* the draft of this round
         round : 0 .. MaxAutoFixRounds,       \* repairsDone
         ctx   : {"live", "cancelled"},       \* runCtx
         armed : BOOLEAN]  \* the watchdog has read a stale lastEvent
NotLaunched == [pc |-> "none", att |-> NoAttempt, at |-> 0, draft |-> NoVersion,
                new |-> NoVersion, round |-> 0, ctx |-> "live", armed |-> FALSE]
Launched    == [NotLaunched EXCEPT !.pc = "load"]

LoopTypeOK ==
  /\ TypeOK
  /\ loop \in [Run -> [Attempt -> Loop]]
  /\ up \in BOOLEAN
  /\ configured \in BOOLEAN
  /\ reported \in [Run -> [Attempt -> SUBSET Report]]

Init ==
  /\ StoreInit
  /\ loop = [r \in Run |-> [n \in Attempt |-> NotLaunched]]
  /\ up = TRUE
  /\ configured \in BOOLEAN
  /\ reported = [r \in Run |-> [n \in Attempt |-> {}]]

EngineerAt == Len(TextStages) + 1
QAAt       == Len(TextStages) + 2
StageAt(i) == IF i = 0 THEN NoStage ELSE StageOrder[i]

-----------------------------------------------------------------------------
(* the loop of (r, n) is at pc; it goes on to pc, or to pc with more changes *)
At(r, n, pc)   == up /\ loop[r][n].pc = pc
Goto(r, n, pc) == loop' = [loop EXCEPT ![r][n].pc = pc]
Return(r, n)   == loop' = [loop EXCEPT ![r][n] =
                             [NotLaunched EXCEPT !.pc = "done", !.ctx = loop[r][n].ctx]]
Become(r, n, l) == loop' = [loop EXCEPT ![r][n] = l]

Live(r, n) == loop[r][n].ctx = "live"
ServerUnchanged == UNCHANGED <<up, configured, reported>>
OnlyLoop == ServerUnchanged /\ UNCHANGED storeVars

(* emit: an event that a cancelled context keeps out of the log is skipped *)
Emit(r, n, type, s) ==
  IF Live(r, n) THEN AppendEvent(r, type, s) ELSE UNCHANGED storeVars

(* GetRun, GetRunIteration and GetActiveAttempt: no active attempt is an error *)
Load(r, n) ==
  /\ At(r, n, "load")
  /\ IF run[r].active = NoAttempt THEN Goto(r, n, "failInfra")
     ELSE Become(r, n, [loop[r][n] EXCEPT !.att = run[r].active, !.pc = "emitRunStarted"])
  /\ OnlyLoop

EmitRunStarted(r, n) ==
  /\ At(r, n, "emitRunStarted")
  /\ Emit(r, n, "run_started", NoStage)
  /\ Goto(r, n, "begin")
  /\ ServerUnchanged

Begin(r, n) ==
  /\ At(r, n, "begin")
  /\ IF Live(r, n)
     THEN /\ BeginAttempt(r, loop[r][n].att)
          /\ Become(r, n, [loop[r][n] EXCEPT !.at = 1, !.pc = "emitStageStarted"])
     ELSE Goto(r, n, "failInfra") /\ UNCHANGED storeVars
  /\ ServerUnchanged

EmitStageStarted(r, n) ==
  LET l == loop[r][n] IN
  /\ At(r, n, "emitStageStarted")
  /\ Emit(r, n, "stage_started", StageAt(l.at))
  /\ Goto(r, n, IF l.at = QAAt THEN "gate" ELSE "turn")
  /\ ServerUnchanged

(* Variant with a defect: the call is made without the run's context. *)
TurnErrUncancellable(r, n) ==
  /\ At(r, n, "turn") /\ Live(r, n)
  /\ Goto(r, n, "failInfra")
  /\ OnlyLoop

(* textTurn and engineerTurn: the model answers, ... *)
TurnOk(r, n) ==
  /\ At(r, n, "turn") /\ Live(r, n)
  /\ Goto(r, n, IF loop[r][n].at = EngineerAt THEN "createDraft" ELSE "record")
  /\ OnlyLoop

(* ... or the call fails, which it does once its context is cancelled *)
TurnErr(r, n) ==
  /\ At(r, n, "turn")
  /\ Goto(r, n, "failInfra")
  /\ OnlyLoop

(* RecordStageArtifact and the stage_artifact event after it; the error of a *)
(* cancelled context is ignored.  At "engineer" both happen in round 0 only. *)
Record(r, n) ==
  LET l == loop[r][n] IN
  /\ At(r, n, "record")
  /\ IF Live(r, n) THEN RecordStageArtifact(r, l.att, StageAt(l.at))
     ELSE UNCHANGED storeVars
  /\ Goto(r, n, "emitArtifact")
  /\ ServerUnchanged

EmitArtifact(r, n) ==
  LET l == loop[r][n] IN
  /\ At(r, n, "emitArtifact")
  /\ Emit(r, n, "stage_artifact", StageAt(l.at))
  /\ IF l.at = QAAt THEN Goto(r, n, "promote")
     ELSE Become(r, n, [l EXCEPT !.at = @ + 1, !.pc = "emitStageStarted"])
  /\ ServerUnchanged

(* the draft of this round is the current one: record it in round 0, then *)
(* the QA gate                                                            *)
Drafted(l, v) ==
  [l EXCEPT !.draft = v, !.new = NoVersion,
            !.at = IF l.round = 0 THEN @ ELSE QAAt,
            !.pc = IF l.round = 0 THEN "record" ELSE "gate"]

WriteDraft(r, n) ==
  LET l == loop[r][n] IN
  /\ At(r, n, "createDraft")
  /\ IF Live(r, n)
     THEN \E v \in Version, ok \in BOOLEAN :
            /\ CreateDraftVersion(v, r, ok)
            /\ Become(r, n, IF l.draft = NoVersion THEN Drafted(l, v)
                            ELSE [l EXCEPT !.new = v, !.pc = "dropDraft"])
     ELSE Goto(r, n, "failInfra") /\ UNCHANGED storeVars
  /\ ServerUnchanged

(* the previous round's draft is failed; an error is ignored *)
ReplaceDraft(r, n) ==
  LET l == loop[r][n] IN
  /\ At(r, n, "dropDraft")
  /\ IF Live(r, n) /\ version[l.draft].status = "draft" THEN DropDraft(l.draft)
     ELSE UNCHANGED storeVars
  /\ Become(r, n, Drafted(l, l.new))
  /\ ServerUnchanged

(* Variants with a defect: no artifact for the passed gate; a gate that *)
(* always passes.                                                       *)
GateUnrecorded(r, n) ==
  LET l == loop[r][n] IN
  /\ At(r, n, "gate")
  /\ Become(r, n, IF version[l.draft].ok THEN [l EXCEPT !.pc = "promote"]
                  ELSE IF l.round >= MaxAutoFixRounds THEN [l EXCEPT !.pc = "failDraft"]
                  ELSE [l EXCEPT !.round = @ + 1, !.at = EngineerAt, !.pc = "turn"])
  /\ OnlyLoop
GateOpen(r, n) == At(r, n, "gate") /\ Goto(r, n, "record") /\ OnlyLoop

(* ValidateCompile: pass, another repair round, or the last one failed *)
Gate(r, n) ==
  LET l == loop[r][n] IN
  /\ At(r, n, "gate")
  /\ Become(r, n, IF version[l.draft].ok THEN [l EXCEPT !.pc = "record"]
                  ELSE IF l.round >= MaxAutoFixRounds THEN [l EXCEPT !.pc = "failDraft"]
                  ELSE [l EXCEPT !.round = @ + 1, !.at = EngineerAt, !.pc = "turn"])
  /\ OnlyLoop

(* Variant with a defect: a refused promotion is reported as completed. *)
PromoteUnchecked(r, n) ==
  LET l == loop[r][n] IN
  /\ At(r, n, "promote")
  /\ IF Live(r, n) /\ CanPublish(r) THEN PromoteDraftVersion(l.draft, r, l.att)
     ELSE UNCHANGED storeVars
  /\ Goto(r, n, "emitCompleted")
  /\ ServerUnchanged

(* PromoteDraftVersion: replayed when decided already, refused by the CAS *)
Promote(r, n) ==
  LET l == loop[r][n] IN
  /\ At(r, n, "promote")
  /\ \/ /\ Live(r, n)
        /\ PromoteDraftVersion(l.draft, r, l.att)
        /\ Goto(r, n, "emitCompleted")
     \/ /\ Live(r, n) /\ version[l.draft].status # "draft"
        /\ Goto(r, n, "emitCompleted")
        /\ UNCHANGED storeVars
     \/ /\ ~Live(r, n) \/ (version[l.draft].status = "draft" /\ ~CanPublish(r))
        /\ Goto(r, n, "failInfra")
        /\ UNCHANGED storeVars
  /\ ServerUnchanged

EmitCompleted(r, n) ==
  /\ At(r, n, "emitCompleted")
  /\ Emit(r, n, "run_completed", NoStage)
  /\ Return(r, n)
  /\ ServerUnchanged

(* FailDraftVersion, which a decided draft turns into a replay *)
FailDraft(r, l) ==
  IF version[l.draft].status = "draft" THEN FailDraftVersion(l.draft, r, l.att)
  ELSE UNCHANGED storeVars

(* COMPILE_FAILED: under runCtx, and the error is ignored *)
FailLastDraft(r, n) ==
  /\ At(r, n, "failDraft")
  /\ IF Live(r, n) THEN FailDraft(r, loop[r][n]) ELSE UNCHANGED storeVars
  /\ Goto(r, n, "emitCompileFailed")
  /\ ServerUnchanged

(* Variant with a defect: Run takes COMPILE_FAILED for an error and reports *)
(* the failure once more.                                                   *)
EmitCompileFailedTwice(r, n) ==
  /\ At(r, n, "emitCompileFailed")
  /\ Emit(r, n, "run_failed", "qa")
  /\ Goto(r, n, "emitFailed")
  /\ ServerUnchanged

EmitCompileFailed(r, n) ==
  /\ At(r, n, "emitCompileFailed")
  /\ Emit(r, n, "run_failed", "qa")
  /\ Return(r, n)
  /\ ServerUnchanged

(* Run's failure path, in a context of its own: failInfra, then run_failed *)
FailInfra(r, n) ==
  LET l == loop[r][n] IN
  /\ At(r, n, "failInfra")
  /\ IF l.draft # NoVersion THEN FailDraft(r, l) ELSE FailRun(r)
  /\ Goto(r, n, "emitFailed")
  /\ ServerUnchanged

EmitFailed(r, n) ==
  /\ At(r, n, "emitFailed")
  /\ AppendEvent(r, "run_failed", StageAt(loop[r][n].at))
  /\ Return(r, n)
  /\ ServerUnchanged

-----------------------------------------------------------------------------
(* startWatchdog reads lastEvent and cancels the context in a second step.   *)
(* Only a call of the model can keep a loop silent for the whole window.     *)
WatchdogRead(r, n) ==
  /\ At(r, n, "turn") /\ Live(r, n)
  /\ ~loop[r][n].armed
  /\ loop' = [loop EXCEPT ![r][n].armed = TRUE]
  /\ OnlyLoop

WatchdogCancel(r, n) ==
  /\ up /\ loop[r][n].armed /\ Live(r, n)
  /\ loop[r][n].pc # "done"
  /\ loop' = [loop EXCEPT ![r][n].ctx = "cancelled"]
  /\ OnlyLoop

-----------------------------------------------------------------------------
(* The handlers.  A launched loop has read nothing yet. *)
HandleCreateRun(r) ==
  /\ CreateRun(r, configured)
  /\ IF configured THEN Become(r, 1, Launched) ELSE UNCHANGED loop
  /\ ServerUnchanged

HandleRetryRun(r, n) ==
  /\ configured
  /\ RetryRun(r, n)
  /\ Become(r, n, Launched)
  /\ ServerUnchanged

HandleWriteFile(v, ok)  == WriteFile(v, ok) /\ UNCHANGED <<loop, up, configured, reported>>
HandleRestoreVersion(v) == RestoreVersion(v) /\ UNCHANGED <<loop, up, configured, reported>>
HandleGetProject        == GetProject /\ UNCHANGED <<loop, up, configured, reported>>

(* a result it has already is ignored *)
RecordCompileResult(r, n, result) ==
  /\ result \notin reported[r][n]
  /\ RecordStageArtifact(r, n, "qa")
  /\ reported' = [reported EXCEPT ![r][n] = @ \cup {result}]
HandleCompileResult(r, n, result) ==
  RecordCompileResult(r, n, result) /\ UNCHANGED <<loop, up, configured>>

(* A crash, or a shutdown (Close cancels the loops, which return without a   *)
(* write), ends every loop where it is; the start-up reconciles.             *)
Crash ==
  /\ up
  /\ up' = FALSE
  /\ loop' = [r \in Run |-> [n \in Attempt |->
       IF loop[r][n].pc = "none" THEN NotLaunched
       ELSE [NotLaunched EXCEPT !.pc = "done"]]]
  /\ UNCHANGED <<storeVars, configured, reported>>

(* Variant with a defect: the server starts without reconciling. *)
RestartUnreconciled ==
  /\ ~up
  /\ up' = TRUE
  /\ configured' \in BOOLEAN
  /\ UNCHANGED <<storeVars, loop, reported>>

Restart ==
  /\ ~up
  /\ up' = TRUE
  /\ configured' \in BOOLEAN
  /\ MarkActiveRunsInterrupted
  /\ UNCHANGED <<loop, reported>>

-----------------------------------------------------------------------------
(* what a loop does without the model or the watchdog *)
Proceed(r, n) ==
  \/ Load(r, n) \/ EmitRunStarted(r, n) \/ Begin(r, n) \/ EmitStageStarted(r, n)
  \/ Record(r, n) \/ EmitArtifact(r, n) \/ WriteDraft(r, n) \/ ReplaceDraft(r, n)
  \/ Gate(r, n) \/ Promote(r, n) \/ EmitCompleted(r, n) \/ FailLastDraft(r, n)
  \/ EmitCompileFailed(r, n) \/ FailInfra(r, n) \/ EmitFailed(r, n)

LoopStep(r, n) ==
  \/ Proceed(r, n)
  \/ TurnOk(r, n) \/ TurnErr(r, n)
  \/ WatchdogRead(r, n) \/ WatchdogCancel(r, n)

Launches == Cardinality({w \in Run \X Attempt : loop[w[1]][w[2]].pc # "none"})

(* Requests come while the server is up.  For TLC they end at                *)
(* MaxStateVersion, and no run is started or retried after MaxLaunches.      *)
Request ==
  /\ up
  /\ wf.version < MaxStateVersion
  /\ \/ HandleGetProject
     \/ \E v \in Version : HandleRestoreVersion(v)
                            \/ \E ok \in BOOLEAN : HandleWriteFile(v, ok)
     \/ \E r \in Run : Launches < MaxLaunches /\ HandleCreateRun(r)
     \/ \E r \in Run, n \in Attempt :
          \/ Launches < MaxLaunches /\ HandleRetryRun(r, n)
          \/ \E result \in Report : HandleCompileResult(r, n, result)

Next ==
  \/ \E r \in Run, n \in Attempt : LoopStep(r, n)
  \/ Request
  \/ Crash
  \/ Restart

Spec == Init /\ [][Next]_loopVars

(* The goroutine of a loop is scheduled, its database calls return, and the  *)
(* watchdog's ticker fires.  The model may stay silent: then the watchdog    *)
(* reads a stale clock, so a turn ends or the watchdog notices it.  Nothing  *)
(* is assumed of clients, of crashes or of restarts.                         *)
LoopProgress(r, n) ==
  /\ WF_loopVars(Proceed(r, n))
  /\ WF_loopVars(TurnOk(r, n) \/ TurnErr(r, n) \/ WatchdogRead(r, n))
  /\ WF_loopVars(WatchdogCancel(r, n))
  /\ WF_loopVars(~Live(r, n) /\ TurnErr(r, n))

LoopFairness == \A r \in Run, n \in Attempt : LoopProgress(r, n)

-----------------------------------------------------------------------------
(* a loop that has neither finished its run nor given up *)
Driving == Steps \ {"emitCompleted", "emitCompileFailed", "emitFailed"}

(* A driving loop's attempt is the active one of an active run, and the only *)
(* attempt of the project still live: a retry never starts beside the loop   *)
(* of the attempt before, which may still have its last event to write.      *)
LoopOwnsRun ==
  \A r \in Run, n \in Attempt : loop[r][n].pc \in Driving =>
    /\ Active(r) /\ run[r].active = n
    /\ \A q \in Run, m \in Attempt :
         attempt[q][m] \in LiveStatus <=> <<q, m>> = <<r, n>>

(* What is published compiles: stableVersionId never names a version that    *)
(* compile.Validate refused, nor one that is not stable.                     *)
StableIsVerified ==
  stable # NoVersion => version[stable].status = "stable" /\ version[stable].ok

(* A succeeded run has the evidence a reader is shown for it: a promoted,    *)
(* compiling version of its own as result, a succeeded latest attempt, and   *)
(* in that attempt an artifact of every stage.                               *)
SucceededHasEvidence ==
  \A r \in Run : run[r].status = "succeeded" =>
    /\ run[r].result # NoVersion
    /\ LET v == version[run[r].result] IN v.run = r /\ v.status = "stable" /\ v.ok
    /\ \E n \in Attempt : /\ LatestAttempt(r, n)
                          /\ attempt[r][n] = "succeeded"
                          /\ artifact[r][n] = Stage

(* The run that the consistency check takes for the origin of what is shown  *)
(* has succeeded, whatever was edited, restored and retried since.           *)
PreviewIsOfSuccess ==
  stable # NoVersion => PreviewRun \in Run /\ run[PreviewRun].status = "succeeded"

(* The strengthening that makes these invariants inductive, in three parts.  *)
(* What the runner (r, n) may rely on at its pc, when its state is l: the    *)
(* attempt it loaded is its own, its drafts are drafts of its run, and what  *)
(* it records as "qa" or promotes has passed the gate.                       *)
RunnerOK(r, n, l) ==
  /\ l.pc \in Steps \ {"load", "failInfra", "emitFailed"} => l.att = n
  /\ l.att \in {n, NoAttempt}
  /\ l.pc \in Steps => attempt[r][n] # "none"
  /\ l.draft # NoVersion => l.att = n /\ DraftOf(l.draft, r)
  /\ l.pc \in {"emitStageStarted", "record", "emitArtifact"} =>
       l.at # 0 /\ (l.at >= EngineerAt /\ l.pc # "emitStageStarted" => l.draft # NoVersion)
  /\ l.pc = "emitStageStarted" /\ l.at = QAAt => l.draft # NoVersion
  /\ l.pc = "turn" => l.at \in 1 .. EngineerAt
  /\ l.pc \in {"createDraft", "dropDraft"} => l.at = EngineerAt
  /\ l.pc = "dropDraft" => l.new # NoVersion /\ DraftOf(l.new, r)
  /\ l.pc \in {"dropDraft", "gate", "promote", "failDraft"} => l.draft # NoVersion
  /\ l.pc = "gate" => l.at = QAAt
  /\ l.pc = "promote" \/ (l.pc \in {"record", "emitArtifact"} /\ l.at = QAAt)
       => version[l.draft].ok

Owns(r, n) == Active(r) /\ run[r].active = n

(* the attempt that is live is the active one of the active run *)
LiveAttemptIsActive ==
  \A r \in Run, n \in Attempt : attempt[r][n] \in LiveStatus <=> Owns(r, n)

AttemptsHaveRun ==
  \A r \in Run, n \in Attempt : attempt[r][n] # "none" => RunExists(r)

StableCompiles == \A v \in Version : version[v].status = "stable" => version[v].ok

LoopInv ==
  /\ StoreInv
  /\ LoopTypeOK
  /\ LiveAttemptIsActive /\ AttemptsHaveRun
  /\ StableCompiles
  /\ \A r \in Run, n \in Attempt :
       /\ RunnerOK(r, n, loop[r][n])
       /\ loop[r][n].pc \in Driving => up /\ Owns(r, n)

LogsCompleted(r) == \E i \in DOMAIN ended[r] : ended[r][i] = "run_completed"

(* The snapshot says "completed", and a log says run_completed, only of a    *)
(* run that succeeded; a run that failed once and is retried says neither.   *)
CompletedMeansSucceeded ==
  /\ wf.status = "completed" => run[wf.run].status = "succeeded"
  /\ \A r \in Run : LogsCompleted(r) => run[r].status = "succeeded"

(* A run logs at most one terminal event per attempt, the late ones of old   *)
(* loops included: a client is never told twice that an attempt ended.       *)
OneEndPerAttempt ==
  \A r \in Run :
    Len(ended[r]) <= Cardinality({n \in Attempt : attempt[r][n] # "none"})

(* While the server is up, an active run is being driven.  One case is left: *)
(* the watchdog cancelled the loop while it gave up its last repair round,   *)
(* and it went on to return with its run still active.                       *)
ActiveIsDriven ==
  up => \A r \in Run : Active(r) =>
    \E n \in Attempt :
      \/ loop[r][n].pc \in Driving
      \/ /\ loop[r][n].pc \in {"emitCompileFailed", "done"}
         /\ loop[r][n].ctx = "cancelled"
         /\ run[r].active = n
         /\ \E v \in Version : /\ version[v].run = r /\ version[v].status = "draft"
                               /\ ~version[v].ok

(* What LoopInv lacks to make these three and SucceededHasEvidence           *)
(* inductive.  A runner in state l: what it has left to promote, fail or     *)
(* replace is a draft still, and of every stage it is past there is an       *)
(* artifact, unless its context was cancelled.                               *)
Past(l, i) ==
  \/ i < l.at
  \/ i = l.at /\ l.pc \in {"emitArtifact", "promote"}
  \/ l.round > 0 /\ i <= EngineerAt

OutcomeOK(r, n, l) ==
  /\ l.pc = "emitCompleted" => run[r].status = "succeeded"
  /\ l.pc \in Driving /\ l.draft # NoVersion => version[l.draft].status = "draft"
  /\ l.pc = "dropDraft" => version[l.new].status = "draft" /\ l.new # l.draft
  /\ l.pc = "failDraft" => ~version[l.draft].ok
  /\ l.pc = "promote" => l.at = QAAt
  /\ l.ctx = "live" => \A i \in 1 .. QAAt : Past(l, i) => StageOrder[i] \in artifact[r][n]

(* the case ActiveIsDriven leaves *)
Abandoned(r, l) ==
  /\ l.pc \in {"emitCompileFailed", "done"}
  /\ l.ctx = "cancelled"
  /\ \E v \in Version : /\ version[v].run = r /\ version[v].status = "draft"
                        /\ ~version[v].ok

Led(r, n, l) == up /\ Owns(r, n) => l.pc \in Driving \/ Abandoned(r, l)

(* attempts are numbered without a gap, and the active one is the latest *)
AttemptsInOrder ==
  \A r \in Run, m, n \in Attempt :
    m < n /\ attempt[r][n] # "none" => attempt[r][m] # "none"
ActiveIsLatest ==
  /\ \A r \in Run : Active(r) => run[r].active # NoAttempt
  /\ \A r \in Run, n \in Attempt : Owns(r, n) => LatestAttempt(r, n)

(* the attempts that will log nothing more: each has logged one end at most *)
Settled(r)  == {n \in Attempt : attempt[r][n] # "none" /\ loop[r][n].pc \notin Steps}
EndsCounted == \A r \in Run : Len(ended[r]) <= Cardinality(Settled(r))

OutcomeInv ==
  /\ LoopInv
  /\ AttemptsInOrder /\ ActiveIsLatest
  /\ SucceededHasEvidence
  /\ wf.status = "completed" => wf.run # NoRun
  /\ CompletedMeansSucceeded
  /\ EndsCounted
  /\ \A r \in Run, n \in Attempt :
       OutcomeOK(r, n, loop[r][n]) /\ Led(r, n, loop[r][n])

(* Manual/agent mutex: while a run is active, the stable version changes     *)
(* only by the step with which that run itself succeeds.                     *)
ActiveRunHoldsPreview ==
  [][\A r \in Run : Active(r) /\ stable' # stable
        => run'[r].status = "succeeded" /\ run'[r].result = stable']_loopVars

(* A run that succeeded stays so with its result, whatever late loop steps,  *)
(* retries, callbacks and restarts follow.                                   *)
SucceededStays ==
  [][\A r \in Run : run[r].status = "succeeded" => run'[r] = run[r]]_loopVars

(* An attempt that ended is never written again: the failure path of an old  *)
(* loop does not touch the attempt of a newer one, nor reopen its own.       *)
EndedAttemptsStay ==
  [][\A r \in Run, n \in Attempt :
        attempt[r][n] \in RunStatus \ LiveStatus => attempt'[r][n] = attempt[r][n]]_loopVars

(* Every launched loop returns, even when the model never answers. *)
LoopReturns ==
  \A r \in Run, n \in Attempt :
    loop[r][n].pc \in Steps ~> loop[r][n].pc = "done"

-----------------------------------------------------------------------------
(* What the code says of itself and does not keep. *)

(* "Recovering (historical evidence is incomplete)": a project whose latest   *)
(* run has all its evidence is not shown as recovering.                       *)
RecoveringIsIncomplete ==
  wf.status = "recovering" =>
    ~\E n \in Attempt : LatestAttempt(wf.run, n) /\ StageEvidence(wf.run, n)

(* compileResult "does not change run state": with no loop left at work, a   *)
(* succeeded run is shown as completed, or as recovering by the consistency  *)
(* check, and not as running again.                                          *)
SettledShowsOutcome ==
  wf.run # NoRun /\ run[wf.run].status = "succeeded"
  /\ (\A n \in Attempt : loop[wf.run][n].pc \notin Steps)
    => wf.status \in {"completed", "recovering"}
=============================================================================
