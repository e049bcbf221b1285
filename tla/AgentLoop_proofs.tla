--------------------------- MODULE AgentLoop_proofs ---------------------------
(***************************************************************************)
(* Proofs about the agent loops and the handlers, for any number of runs,  *)
(* attempts, versions, text stages and repair rounds.  Every step of a     *)
(* loop is one transaction of the store on its own run (LoopTx), every     *)
(* other step one of the handlers' (RequestTx) or none; the invariants     *)
(* follow from those.                                                      *)
(***************************************************************************)
EXTENDS AgentLoopRefinement, RunStore_proofs, FiniteSetTheorems

(* The loop is where it can be: the fields of LoopTypeOK beyond TypeOK. *)
LoopRows ==
  /\ loop \in [Run -> [Attempt -> Loop]]
  /\ up \in BOOLEAN
  /\ configured \in BOOLEAN
  /\ reported \in [Run -> [Attempt -> SUBSET Report]]

(* A step of the program.  Request bounds for TLC what the server serves; *)
(* nothing here depends on those bounds.                                  *)
Served ==
  /\ up
  /\ \/ HandleGetProject
     \/ \E v \in Version : HandleRestoreVersion(v)
                            \/ \E ok \in BOOLEAN : HandleWriteFile(v, ok)
     \/ \E r \in Run : HandleCreateRun(r)
     \/ \E r \in Run, n \in Attempt :
          \/ HandleRetryRun(r, n)
          \/ \E result \in Report : HandleCompileResult(r, n, result)

AnyStep ==
  \/ \E r \in Run, n \in Attempt : LoopStep(r, n)
  \/ Served \/ Crash \/ Restart

(* The checked steps are among these. *)
LEMMA NextIsAnyStep == Next => AnyStep
BY DEF Next, Request, AnyStep, Served

(* The engineer's stage is the last but one, qa the last. *)
LEMMA Stages ==
  /\ EngineerAt \in Nat /\ QAAt \in Nat /\ 1 <= EngineerAt
  /\ QAAt = EngineerAt + 1 /\ Len(StageOrder) = QAAt
  /\ \A i \in 1 .. Len(StageOrder) : StageAt(i) \in Stage
  /\ \A i \in 0 .. Len(StageOrder) : StageAt(i) \in Stage \cup {NoStage}
<1>1. TextStages \in Seq(Stage) /\ Len(TextStages) \in Nat
  <2>1. DOMAIN TextStages = 1 .. Len(TextStages) /\ Len(TextStages) \in Nat
    BY WorkflowAssumption
  <2>2. \A i \in DOMAIN TextStages : TextStages[i] \in Stage
    BY DEF Stage
  <2> QED
    BY <2>1, <2>2, WorkflowAssumption
<1>2. StageOrder \in Seq(Stage) /\ Len(StageOrder) = Len(TextStages) + 2
  <2>1. "engineer" \in Stage /\ "qa" \in Stage
    BY DEF Stage
  <2>2. <<"engineer", "qa">> \in Seq(Stage) /\ Len(<<"engineer", "qa">>) = 2
    BY <2>1
  <2> QED
    BY <1>1, <2>2 DEF StageOrder
<1>3. ASSUME NEW i \in 1 .. Len(StageOrder) PROVE StageOrder[i] \in Stage
  BY <1>2
<1> QED
  BY <1>1, <1>2, <1>3 DEF EngineerAt, QAAt, StageAt

(* The transactions of the loop of (r, n).  Those that touch more than the   *)
(* log, the evidence and new drafts are made by the loop that owns the run.  *)
OwnerTx(r, n) ==
  /\ Owns(r, n)
  /\ \/ BeginAttempt(r, n)
     \/ FailRun(r)
     \/ \E v \in Version :
          /\ DraftOf(v, r)
          /\ \/ DropDraft(v)
             \/ attempt[r][n] # "none" /\ FailDraftVersion(v, r, n)
             \/ attempt[r][n] # "none" /\ version[v].ok /\ PromoteDraftVersion(v, r, n)

LoopTx(r, n) ==
  \/ \E type \in DOMAIN EventWorkflow, s \in Stage \cup {NoStage} : AppendEvent(r, type, s)
  \/ \E s \in Stage : RecordStageArtifact(r, n, s)
  \/ \E v \in Version, ok \in BOOLEAN : CreateDraftVersion(v, r, ok)
  \/ OwnerTx(r, n)

RequestTx ==
  \/ MarkActiveRunsInterrupted /\ ~up
  \/ GetProject
  \/ \E v \in Version : RestoreVersion(v) \/ \E ok \in BOOLEAN : WriteFile(v, ok)
  \/ \E r \in Run : \E canStart \in BOOLEAN : CreateRun(r, canStart)
  \/ \E r \in Run, n \in Attempt : RetryRun(r, n) \/ RecordStageArtifact(r, n, "qa")

(* A loop's write is a transaction of the store. *)
LEMMA LoopTxIsStoreTx == ASSUME NEW r \in Run, NEW n \in Attempt, LoopTx(r, n) PROVE StoreTx
BY DEF LoopTx, OwnerTx, StoreTx, DraftOf, DropDraft

(* So is a handler's or the start-up's. *)
LEMMA RequestTxIsStoreTx == ASSUME RequestTx PROVE StoreTx
<1>1. "qa" \in Stage
  BY DEF Stage
<1> QED
  BY <1>1 DEF RequestTx, StoreTx

(* Versions and attempts stay, so what a runner relies on stays true. *)
LEMMA RunnerStays ==
  ASSUME TypeOK, StoreTx \/ UNCHANGED storeVars,
         NEW r \in Run, NEW n \in Attempt, NEW l \in Loop, RunnerOK(r, n, l)
  PROVE  RunnerOK(r, n, l)'
<1>1. /\ attempt[r][n] # "none" => attempt'[r][n] # "none"
      /\ \A v \in Version : DraftOf(v, r) => DraftOf(v, r)' /\ version'[v].ok = version[v].ok
  <2>1. CASE StoreTx
    BY <2>1, AttemptsStay, VersionStepTx, VersionsStay DEF DraftOf
  <2>2. CASE UNCHANGED storeVars
    BY <2>2 DEF storeVars, DraftOf
  <2> QED
    BY <2>1, <2>2
<1>2. l.draft # NoVersion => l.draft \in Version
  BY DEF Loop
<1>3. l.new # NoVersion => l.new \in Version
  BY DEF Loop
<1>4. l.pc = "promote" \/ (l.pc \in {"record", "emitArtifact"} /\ l.at = QAAt)
        => l.draft # NoVersion /\ version[l.draft].ok
  BY Stages DEF RunnerOK
<1>5. l.pc = "promote" \/ (l.pc \in {"record", "emitArtifact"} /\ l.at = QAAt)
        => version'[l.draft].ok
  BY <1>1, <1>2, <1>4 DEF RunnerOK
<1> QED
  BY <1>1, <1>2, <1>3, <1>5 DEF RunnerOK

(* Goto moves one loop and keeps its other fields. *)
LEMMA GotoIs ==
  ASSUME LoopRows, NEW r \in Run, NEW n \in Attempt, NEW pc, Goto(r, n, pc)
  PROVE  loop' = [loop EXCEPT ![r][n] = [loop[r][n] EXCEPT !.pc = pc]]
BY DEF Goto, LoopRows

(* The loop of (r, n) moves to a state in which it may be. *)
Moves(r, n) ==
  \E l \in Loop :
    /\ loop' = [loop EXCEPT ![r][n] = l]
    /\ RunnerOK(r, n, l)'
    /\ l.pc \in Driving => Owns(r, n)'

(* One step of a loop: at most one transaction, and a legal move. *)
LoopEffect(r, n) ==
  /\ LoopTx(r, n) \/ UNCHANGED storeVars
  /\ Moves(r, n)
  /\ ServerUnchanged

(* How a step is shown to be one, when its new state is fine already before. *)
LEMMA EffectBy ==
  ASSUME TypeOK, NEW r \in Run, NEW n \in Attempt, NEW l \in Loop,
         LoopTx(r, n) \/ UNCHANGED storeVars,
         loop' = [loop EXCEPT ![r][n] = l], RunnerOK(r, n, l),
         l.pc \in Driving => Owns(r, n)',
         ServerUnchanged
  PROVE  LoopEffect(r, n)
BY RunnerStays, LoopTxIsStoreTx DEF LoopEffect, Moves

(* A loop owns its run as long as the run's row stays. *)
LEMMA OwnsStays ==
  ASSUME NEW r \in Run, NEW n \in Attempt, Owns(r, n), UNCHANGED run
  PROVE  Owns(r, n)'
BY DEF Owns, Active

(* What is known at the start of a step. *)
LEMMA AtStart ==
  ASSUME LoopInv, NEW r \in Run, NEW n \in Attempt
  PROVE  /\ TypeOK /\ LoopRows /\ loop[r][n] \in Loop /\ RunnerOK(r, n, loop[r][n])
         /\ loop[r][n].pc \in Driving => Owns(r, n)
BY DEF LoopInv, StoreInv, LoopTypeOK, LoopRows

(* The active attempt the runner reads is the one it was launched for. *)
LEMMA LoadStep ==
  ASSUME LoopInv, NEW r \in Run, NEW n \in Attempt, Load(r, n) PROVE LoopEffect(r, n)
<1> DEFINE l == loop[r][n]
<1>1. /\ TypeOK /\ LoopRows /\ RunnerOK(r, n, l) /\ l.pc = "load" /\ l \in Loop
      /\ Owns(r, n)
  BY AtStart DEF Load, At, Driving, Steps
<1>2. run[r].active # NoAttempt
  BY <1>1 DEF Owns, Attempt, NoAttempt
<1>3. PICK k \in Loop : k = [l EXCEPT !.att = n, !.pc = "emitRunStarted"]
  BY <1>1 DEF Loop, Steps
<1>4. loop' = [loop EXCEPT ![r][n] = k]
  BY <1>1, <1>2, <1>3 DEF Load, Become, Owns
<1>5. RunnerOK(r, n, k)
  BY <1>1, <1>3 DEF RunnerOK, Loop, Steps
<1>6. UNCHANGED storeVars /\ Owns(r, n)' /\ ServerUnchanged
  BY <1>1, OwnsStays DEF Load, OnlyLoop, storeVars
<1> QED
  BY <1>1, <1>4, <1>5, <1>6, EffectBy

(* An event of a run changes no run row. *)
LEMMA EmitEffect ==
  ASSUME NEW r \in Run, NEW n \in Attempt, NEW type \in DOMAIN EventWorkflow,
         NEW s \in Stage \cup {NoStage}, Emit(r, n, type, s)
  PROVE  (LoopTx(r, n) \/ UNCHANGED storeVars) /\ UNCHANGED run
BY DEF Emit, LoopTx, AppendEvent, storeVars

(* run_started touches the log and the snapshot alone. *)
LEMMA EmitRunStartedStep ==
  ASSUME LoopInv, NEW r \in Run, NEW n \in Attempt, EmitRunStarted(r, n)
  PROVE  LoopEffect(r, n)
<1> DEFINE l == loop[r][n]
<1>1. /\ TypeOK /\ LoopRows /\ RunnerOK(r, n, l) /\ l.pc = "emitRunStarted" /\ l \in Loop
      /\ Owns(r, n)
  BY AtStart DEF EmitRunStarted, At, Driving, Steps
<1>2. PICK k \in Loop : k = [l EXCEPT !.pc = "begin"]
  BY <1>1 DEF Loop, Steps
<1>3. loop' = [loop EXCEPT ![r][n] = k]
  BY <1>1, <1>2, GotoIs DEF EmitRunStarted
<1>4. RunnerOK(r, n, k)
  BY <1>1, <1>2 DEF RunnerOK, Loop, Steps
<1>5. (LoopTx(r, n) \/ UNCHANGED storeVars) /\ UNCHANGED run
  BY EmitEffect DEF EmitRunStarted, EventWorkflow
<1> QED
  BY <1>1, <1>3, <1>4, <1>5, OwnsStays, EffectBy DEF EmitRunStarted

(* BeginAttempt writes the loop's own attempt. *)
LEMMA BeginStep ==
  ASSUME LoopInv, NEW r \in Run, NEW n \in Attempt, Begin(r, n) PROVE LoopEffect(r, n)
<1> DEFINE l == loop[r][n]
<1>1. /\ TypeOK /\ LoopRows /\ RunnerOK(r, n, l) /\ l.pc = "begin" /\ l \in Loop
      /\ Owns(r, n) /\ l.att = n
  BY AtStart DEF Begin, At, Driving, Steps, RunnerOK
<1>2. CASE Live(r, n)
  <2>1. PICK k \in Loop : k = [l EXCEPT !.at = 1, !.pc = "emitStageStarted"]
    <3>1. 1 \in 0 .. Len(StageOrder)
      BY Stages
    <3> QED
      BY <1>1, <3>1 DEF Loop, Steps
  <2>2. loop' = [loop EXCEPT ![r][n] = k]
    BY <1>1, <1>2, <2>1 DEF Begin, Become
  <2>3. RunnerOK(r, n, k)
    BY <1>1, <2>1, Stages DEF RunnerOK, Loop, Steps
  <2>4. BeginAttempt(r, n)
    BY <1>1, <1>2 DEF Begin
  <2>5. Owns(r, n)'
    BY <1>1, <2>4 DEF Owns, Active, BeginAttempt, LiveStatus, TypeOK, RunRow
  <2> QED
    BY <1>1, <2>2, <2>3, <2>4, <2>5, EffectBy DEF LoopTx, OwnerTx, Begin
<1>3. CASE ~Live(r, n)
  <2>1. PICK k \in Loop : k = [l EXCEPT !.pc = "failInfra"]
    BY <1>1 DEF Loop, Steps
  <2>2. loop' = [loop EXCEPT ![r][n] = k]
    BY <1>1, <1>3, <2>1, GotoIs DEF Begin
  <2>3. RunnerOK(r, n, k)
    BY <1>1, <2>1 DEF RunnerOK, Loop, Steps
  <2>4. UNCHANGED storeVars /\ Owns(r, n)'
    BY <1>1, <1>3, OwnsStays DEF Begin, storeVars
  <2> QED
    BY <1>1, <2>2, <2>3, <2>4, EffectBy DEF Begin
<1> QED
  BY <1>2, <1>3

(* stage_started touches the log and the snapshot alone. *)
LEMMA EmitStageStartedStep ==
  ASSUME LoopInv, NEW r \in Run, NEW n \in Attempt, EmitStageStarted(r, n)
  PROVE  LoopEffect(r, n)
<1> DEFINE l == loop[r][n]
           pc == IF l.at = QAAt THEN "gate" ELSE "turn"
<1>1. /\ TypeOK /\ LoopRows /\ RunnerOK(r, n, l) /\ l.pc = "emitStageStarted" /\ l \in Loop
      /\ Owns(r, n)
  BY AtStart DEF EmitStageStarted, At, Driving, Steps
<1>2. PICK k \in Loop : k = [l EXCEPT !.pc = pc]
  BY <1>1 DEF Loop, Steps
<1>3. loop' = [loop EXCEPT ![r][n] = k]
  BY <1>1, <1>2, GotoIs DEF EmitStageStarted
<1>4. RunnerOK(r, n, k)
  <2>1. l.at # 0 /\ l.at \in 0 .. QAAt
    BY <1>1, Stages DEF RunnerOK, Loop
  <2> QED
    BY <1>1, <1>2, <2>1, Stages DEF RunnerOK, Loop, Steps
<1>5. (LoopTx(r, n) \/ UNCHANGED storeVars) /\ UNCHANGED run
  <2>1. StageAt(l.at) \in Stage \cup {NoStage}
    BY <1>1, Stages DEF Loop
  <2> QED
    BY <2>1, EmitEffect DEF EmitStageStarted, EventWorkflow
<1> QED
  BY <1>1, <1>3, <1>4, <1>5, OwnsStays, EffectBy DEF EmitStageStarted

(* A turn of the model touches no row, however it ends. *)
LEMMA TurnStep ==
  ASSUME LoopInv, NEW r \in Run, NEW n \in Attempt, TurnOk(r, n) \/ TurnErr(r, n)
  PROVE  LoopEffect(r, n)
<1> DEFINE l == loop[r][n]
<1>1. /\ TypeOK /\ LoopRows /\ RunnerOK(r, n, l) /\ l.pc = "turn" /\ l \in Loop
      /\ Owns(r, n)
  BY AtStart DEF TurnOk, TurnErr, At, Driving, Steps
<1>2. UNCHANGED storeVars /\ ServerUnchanged /\ Owns(r, n)'
  BY <1>1, OwnsStays DEF TurnOk, TurnErr, OnlyLoop, storeVars
<1>3. PICK pc \in {"createDraft", "record", "failInfra"} :
        /\ Goto(r, n, pc)
        /\ pc = "createDraft" => l.at = EngineerAt
        /\ pc = "record" => l.at # EngineerAt
  BY DEF TurnOk, TurnErr
<1>4. PICK k \in Loop : k = [l EXCEPT !.pc = pc]
  BY <1>1 DEF Loop, Steps
<1>5. loop' = [loop EXCEPT ![r][n] = k]
  BY <1>1, <1>3, <1>4, GotoIs
<1>6. RunnerOK(r, n, k)
  <2>1. l.at \in 1 .. EngineerAt /\ l.att = n
    BY <1>1 DEF RunnerOK, Steps
  <2> QED
    BY <1>1, <1>3, <1>4, <2>1, Stages DEF RunnerOK, Loop, Steps
<1> QED
  BY <1>1, <1>2, <1>5, <1>6, EffectBy

(* A recorded artifact touches evidence and the snapshot alone. *)
LEMMA RecordStep ==
  ASSUME LoopInv, NEW r \in Run, NEW n \in Attempt, Record(r, n) PROVE LoopEffect(r, n)
<1> DEFINE l == loop[r][n]
<1>1. /\ TypeOK /\ LoopRows /\ RunnerOK(r, n, l) /\ l.pc = "record" /\ l \in Loop
      /\ Owns(r, n) /\ l.att = n
  BY AtStart DEF Record, At, Driving, Steps, RunnerOK
<1>2. PICK k \in Loop : k = [l EXCEPT !.pc = "emitArtifact"]
  BY <1>1 DEF Loop, Steps
<1>3. loop' = [loop EXCEPT ![r][n] = k]
  BY <1>1, <1>2, GotoIs DEF Record
<1>4. RunnerOK(r, n, k)
  BY <1>1, <1>2 DEF RunnerOK, Loop, Steps
<1>5. (LoopTx(r, n) \/ UNCHANGED storeVars) /\ UNCHANGED run
  <2>1. StageAt(l.at) \in Stage
    BY <1>1, Stages DEF RunnerOK, Loop
  <2> QED
    BY <1>1, <2>1 DEF Record, LoopTx, RecordStageArtifact, storeVars
<1> QED
  BY <1>1, <1>3, <1>4, <1>5, OwnsStays, EffectBy DEF Record

(* artifact_created touches the log and the snapshot alone. *)
LEMMA EmitArtifactStep ==
  ASSUME LoopInv, NEW r \in Run, NEW n \in Attempt, EmitArtifact(r, n)
  PROVE  LoopEffect(r, n)
<1> DEFINE l == loop[r][n]
<1>1. /\ TypeOK /\ LoopRows /\ RunnerOK(r, n, l) /\ l.pc = "emitArtifact" /\ l \in Loop
      /\ Owns(r, n)
  BY AtStart DEF EmitArtifact, At, Driving, Steps
<1>2. /\ l.at \in 1 .. QAAt /\ l.att = n
      /\ l.at >= EngineerAt => l.draft # NoVersion
  BY <1>1, Stages DEF RunnerOK, Loop, Steps
<1>3. (LoopTx(r, n) \/ UNCHANGED storeVars) /\ UNCHANGED run
  <2>1. StageAt(l.at) \in Stage \cup {NoStage}
    BY <1>1, Stages DEF Loop
  <2> QED
    BY <2>1, EmitEffect DEF EmitArtifact, EventWorkflow
<1>4. Owns(r, n)'
  BY <1>1, <1>3, OwnsStays
<1>5. CASE l.at = QAAt
  <2>1. PICK k \in Loop : k = [l EXCEPT !.pc = "promote"]
    BY <1>1 DEF Loop, Steps
  <2>2. loop' = [loop EXCEPT ![r][n] = k]
    BY <1>1, <1>5, <2>1, GotoIs DEF EmitArtifact
  <2>3. RunnerOK(r, n, k)
    BY <1>1, <1>2, <1>5, <2>1, Stages DEF RunnerOK, Loop, Steps
  <2> QED
    BY <1>1, <1>3, <1>4, <2>2, <2>3, EffectBy DEF EmitArtifact
<1>6. CASE l.at # QAAt
  <2>1. l.at + 1 \in 1 .. QAAt /\ l.at + 1 \in 0 .. Len(StageOrder)
    BY <1>2, <1>6, Stages
  <2>2. PICK k \in Loop : k = [l EXCEPT !.at = l.at + 1, !.pc = "emitStageStarted"]
    BY <1>1, <2>1 DEF Loop, Steps
  <2>3. loop' = [loop EXCEPT ![r][n] = k]
    BY <1>1, <1>6, <2>2 DEF EmitArtifact, Become
  <2>4. RunnerOK(r, n, k)
    <3>1. l.at + 1 # 0 /\ (l.at + 1 = QAAt => l.draft # NoVersion)
      BY <1>2, <2>1, Stages
    <3> QED
      BY <1>1, <1>2, <2>2, <3>1 DEF RunnerOK, Loop, Steps
  <2> QED
    BY <1>1, <1>3, <1>4, <2>3, <2>4, EffectBy DEF EmitArtifact
<1> QED
  BY <1>5, <1>6

(* The first draft is a version of the loop's own run. *)
LEMMA WriteDraftStep ==
  ASSUME LoopInv, NEW r \in Run, NEW n \in Attempt, WriteDraft(r, n) PROVE LoopEffect(r, n)
<1> DEFINE l == loop[r][n]
<1>1. /\ TypeOK /\ LoopRows /\ RunnerOK(r, n, l) /\ l.pc = "createDraft" /\ l \in Loop
      /\ Owns(r, n) /\ l.att = n /\ l.at = EngineerAt /\ attempt[r][n] # "none"
  BY AtStart DEF WriteDraft, At, Driving, Steps, RunnerOK
<1>2. CASE Live(r, n)
  <2>1. PICK v \in Version, ok \in BOOLEAN :
          /\ CreateDraftVersion(v, r, ok)
          /\ Become(r, n, IF l.draft = NoVersion THEN Drafted(l, v)
                          ELSE [l EXCEPT !.new = v, !.pc = "dropDraft"])
    BY <1>2 DEF WriteDraft
  <2>2. LoopTx(r, n) /\ Owns(r, n)' /\ attempt' = attempt
    BY <1>1, <2>1, OwnsStays DEF LoopTx, CreateDraftVersion
  <2>3. DraftOf(v, r)' /\ v # NoVersion
    BY <1>1, <2>1 DEF DraftOf, CreateDraftVersion, TypeOK, Version, NoVersion
  <2>4. /\ \A u \in Version : DraftOf(u, r) => DraftOf(u, r)'
        /\ l.draft # NoVersion => l.draft \in Version /\ DraftOf(l.draft, r)
    BY <1>1, <2>1 DEF DraftOf, CreateDraftVersion, TypeOK, NextVersion, RunnerOK, Loop
  <2>5. CASE l.draft = NoVersion
    <3>1. PICK k \in Loop : k = Drafted(l, v)
      <4>1. QAAt \in 0 .. Len(StageOrder)
        BY Stages
      <4> QED
        BY <1>1, <4>1 DEF Drafted, Loop, Steps
    <3>2. loop' = [loop EXCEPT ![r][n] = k]
      BY <2>1, <2>5, <3>1 DEF Become
    <3>3. RunnerOK(r, n, k)'
      BY <1>1, <2>2, <2>3, <3>1, Stages DEF RunnerOK, Drafted, Loop, Steps
    <3> QED
      BY <2>2, <3>2, <3>3 DEF LoopEffect, Moves, WriteDraft
  <2>6. CASE l.draft # NoVersion
    <3>1. PICK k \in Loop : k = [l EXCEPT !.new = v, !.pc = "dropDraft"]
      BY <1>1 DEF Loop, Steps
    <3>2. loop' = [loop EXCEPT ![r][n] = k]
      BY <2>1, <2>6, <3>1 DEF Become
    <3>3. /\ k.pc = "dropDraft" /\ k.att = n /\ k.at = EngineerAt
          /\ k.draft = l.draft /\ k.new = v
      BY <1>1, <3>1 DEF Loop
    <3>4. k.draft # NoVersion /\ k.draft \in Version /\ DraftOf(k.draft, r)'
      BY <2>4, <2>6, <3>3
    <3>5. RunnerOK(r, n, k)'
      BY <1>1, <2>2, <2>3, <3>3, <3>4 DEF RunnerOK, Steps
    <3> QED
      BY <2>2, <3>2, <3>5 DEF LoopEffect, Moves, WriteDraft
  <2> QED
    BY <2>5, <2>6
<1>3. CASE ~Live(r, n)
  <2>1. PICK k \in Loop : k = [l EXCEPT !.pc = "failInfra"]
    BY <1>1 DEF Loop, Steps
  <2>2. loop' = [loop EXCEPT ![r][n] = k]
    BY <1>1, <1>3, <2>1, GotoIs DEF WriteDraft
  <2>3. RunnerOK(r, n, k)
    BY <1>1, <2>1 DEF RunnerOK, Loop, Steps
  <2>4. UNCHANGED storeVars /\ Owns(r, n)'
    BY <1>1, <1>3, OwnsStays DEF WriteDraft, storeVars
  <2> QED
    BY <1>1, <2>2, <2>3, <2>4, EffectBy DEF WriteDraft
<1> QED
  BY <1>2, <1>3

(* A repair fails the draft before and writes another of the same run. *)
LEMMA ReplaceDraftStep ==
  ASSUME LoopInv, NEW r \in Run, NEW n \in Attempt, ReplaceDraft(r, n) PROVE LoopEffect(r, n)
<1> DEFINE l == loop[r][n]
<1>1. /\ TypeOK /\ LoopRows /\ RunnerOK(r, n, l) /\ l.pc = "dropDraft" /\ l \in Loop
      /\ Owns(r, n) /\ l.att = n /\ l.at = EngineerAt /\ attempt[r][n] # "none"
      /\ l.draft # NoVersion /\ DraftOf(l.draft, r) /\ l.new # NoVersion /\ DraftOf(l.new, r)
  BY AtStart DEF ReplaceDraft, At, Driving, Steps, RunnerOK
<1>2. PICK k \in Loop : k = Drafted(l, l.new)
  <2>1. QAAt \in 0 .. Len(StageOrder)
    BY Stages
  <2> QED
    BY <1>1, <2>1 DEF Drafted, Loop, Steps
<1>3. loop' = [loop EXCEPT ![r][n] = k]
  BY <1>2 DEF ReplaceDraft, Become
<1>4. RunnerOK(r, n, k)
  BY <1>1, <1>2, Stages DEF RunnerOK, Drafted, Loop, Steps
<1>5. (LoopTx(r, n) \/ UNCHANGED storeVars) /\ Owns(r, n)'
  <2>1. CASE DropDraft(l.draft)
    <3>1. l.draft \in Version
      BY <1>1 DEF Loop
    <3>2. Owns(r, n)'
      BY <1>1, <2>1 DEF DropDraft, DraftOf, Owns, Active, TypeOK, RunRow
    <3> QED
      BY <1>1, <2>1, <3>1, <3>2 DEF LoopTx, OwnerTx
  <2>2. CASE UNCHANGED storeVars
    BY <1>1, <2>2, OwnsStays DEF storeVars
  <2> QED
    BY <2>1, <2>2 DEF ReplaceDraft
<1> QED
  BY <1>1, <1>3, <1>4, <1>5, EffectBy DEF ReplaceDraft

(* A loop goes on to record and promote only what the gate let pass. *)
LEMMA GateStep ==
  ASSUME LoopInv, NEW r \in Run, NEW n \in Attempt, Gate(r, n) PROVE LoopEffect(r, n)
<1> DEFINE l == loop[r][n]
<1>1. /\ TypeOK /\ LoopRows /\ RunnerOK(r, n, l) /\ l.pc = "gate" /\ l \in Loop
      /\ Owns(r, n) /\ l.att = n /\ l.draft # NoVersion /\ l.at = QAAt
  BY AtStart DEF Gate, At, Driving, Steps, RunnerOK
<1>2. UNCHANGED storeVars /\ ServerUnchanged /\ Owns(r, n)'
  BY <1>1, OwnsStays DEF Gate, OnlyLoop, storeVars
<1>3. CASE version[l.draft].ok
  <2>1. PICK k \in Loop : k = [l EXCEPT !.pc = "record"]
    BY <1>1 DEF Loop, Steps
  <2>2. loop' = [loop EXCEPT ![r][n] = k]
    BY <1>3, <2>1 DEF Gate, Become
  <2>3. RunnerOK(r, n, k)
    BY <1>1, <1>3, <2>1, Stages DEF RunnerOK, Loop, Steps
  <2> QED
    BY <1>1, <1>2, <2>2, <2>3, EffectBy
<1>4. CASE ~version[l.draft].ok /\ l.round >= MaxAutoFixRounds
  <2>1. PICK k \in Loop : k = [l EXCEPT !.pc = "failDraft"]
    BY <1>1 DEF Loop, Steps
  <2>2. loop' = [loop EXCEPT ![r][n] = k]
    BY <1>4, <2>1 DEF Gate, Become
  <2>3. RunnerOK(r, n, k)
    BY <1>1, <2>1, Stages DEF RunnerOK, Loop, Steps
  <2> QED
    BY <1>1, <1>2, <2>2, <2>3, EffectBy
<1>5. CASE ~version[l.draft].ok /\ ~(l.round >= MaxAutoFixRounds)
  <2>1. PICK k \in Loop : k = [l EXCEPT !.round = @ + 1, !.at = EngineerAt, !.pc = "turn"]
    <3>1. l.round + 1 \in 0 .. MaxAutoFixRounds /\ EngineerAt \in 0 .. Len(StageOrder)
      BY <1>1, <1>5, Stages, LoopAssumption DEF Loop
    <3> QED
      BY <1>1, <3>1 DEF Loop, Steps
  <2>2. loop' = [loop EXCEPT ![r][n] = k]
    BY <1>5, <2>1 DEF Gate, Become
  <2>3. RunnerOK(r, n, k)
    BY <1>1, <2>1, Stages DEF RunnerOK, Loop, Steps
  <2> QED
    BY <1>1, <1>2, <2>2, <2>3, EffectBy
<1> QED
  BY <1>3, <1>4, <1>5

(* A promotion ends the loop's own run with its own draft. *)
LEMMA PromoteStep ==
  ASSUME LoopInv, NEW r \in Run, NEW n \in Attempt, Promote(r, n) PROVE LoopEffect(r, n)
<1> DEFINE l == loop[r][n]
<1>1. /\ TypeOK /\ LoopRows /\ RunnerOK(r, n, l) /\ l.pc = "promote" /\ l \in Loop
      /\ Owns(r, n) /\ l.att = n /\ attempt[r][n] # "none"
      /\ l.draft # NoVersion /\ l.draft \in Version /\ DraftOf(l.draft, r)
      /\ version[l.draft].ok
  BY AtStart DEF Promote, At, Driving, Steps, RunnerOK, Loop
<1>2. PICK pc \in {"emitCompleted", "failInfra"} :
        /\ Goto(r, n, pc)
        /\ \/ UNCHANGED storeVars
           \/ pc = "emitCompleted" /\ PromoteDraftVersion(l.draft, r, l.att)
  BY DEF Promote
<1>3. PICK k \in Loop : k = [l EXCEPT !.pc = pc]
  BY <1>1 DEF Loop, Steps
<1>4. loop' = [loop EXCEPT ![r][n] = k]
  BY <1>1, <1>2, <1>3, GotoIs
<1>5. RunnerOK(r, n, k)
  BY <1>1, <1>2, <1>3 DEF RunnerOK, Loop, Steps
<1>6. LoopTx(r, n) \/ UNCHANGED storeVars
  BY <1>1, <1>2 DEF LoopTx, OwnerTx
<1>7. k.pc \in Driving => Owns(r, n)'
  <2>1. k.pc = pc
    BY <1>1, <1>3 DEF Loop
  <2>2. k.pc \in Driving => UNCHANGED storeVars
    BY <1>2, <2>1 DEF Driving
  <2> QED
    BY <1>1, <2>2, OwnsStays DEF storeVars
<1> QED
  BY <1>1, <1>4, <1>5, <1>6, <1>7, EffectBy DEF Promote

(* A loop that returns is done with everything. *)
LEMMA ReturnIs ==
  ASSUME LoopRows, NEW r \in Run, NEW n \in Attempt, Return(r, n)
  PROVE  \E k \in Loop : /\ k.pc = "done" /\ loop' = [loop EXCEPT ![r][n] = k]
                         /\ RunnerOK(r, n, k)
<1>1. PICK k : k = [NotLaunched EXCEPT !.pc = "done", !.ctx = loop[r][n].ctx]
  OBVIOUS
<1>2. k \in Loop
  <2>1. 0 \in 0 .. Len(StageOrder) /\ 0 \in 0 .. MaxAutoFixRounds
    BY Stages, LoopAssumption
  <2>2. loop[r][n].ctx \in {"live", "cancelled"}
    BY DEF LoopRows, Loop
  <2> QED
    BY <1>1, <2>1, <2>2 DEF NotLaunched, Loop
<1>3. RunnerOK(r, n, k)
  BY <1>1 DEF NotLaunched, RunnerOK, Steps
<1> QED
  BY <1>1, <1>2, <1>3 DEF Return, NotLaunched

(* A loop that returns keeps nothing to rely on. *)
LEMMA ReturnEffect ==
  ASSUME TypeOK, LoopRows, NEW r \in Run, NEW n \in Attempt, Return(r, n),
         LoopTx(r, n) \/ UNCHANGED storeVars, ServerUnchanged
  PROVE  LoopEffect(r, n)
<1>1. PICK k \in Loop : /\ k.pc = "done" /\ loop' = [loop EXCEPT ![r][n] = k]
                        /\ RunnerOK(r, n, k)
  BY ReturnIs
<1>2. k.pc \notin Driving
  BY <1>1 DEF Driving, Steps
<1> QED
  BY <1>1, <1>2, EffectBy

(* A terminal event moves the log and the snapshot alone, and the loop returns. *)
LEMMA EmitEndStep ==
  ASSUME LoopInv, NEW r \in Run, NEW n \in Attempt,
         EmitCompleted(r, n) \/ EmitCompileFailed(r, n) \/ EmitFailed(r, n)
  PROVE  LoopEffect(r, n)
<1>1. TypeOK /\ LoopRows /\ loop[r][n].at \in 0 .. Len(StageOrder)
  BY AtStart DEF Loop
<1>2. Return(r, n) /\ ServerUnchanged
  BY DEF EmitCompleted, EmitCompileFailed, EmitFailed
<1>3. LoopTx(r, n) \/ UNCHANGED storeVars
  <2>1. CASE EmitCompleted(r, n)
    BY <2>1, EmitEffect DEF EmitCompleted, EventWorkflow
  <2>2. CASE EmitCompileFailed(r, n)
    <3>1. "qa" \in Stage
      BY DEF Stage
    <3> QED
      BY <2>2, <3>1, EmitEffect DEF EmitCompileFailed, EventWorkflow
  <2>3. CASE EmitFailed(r, n)
    <3>1. StageAt(loop[r][n].at) \in Stage \cup {NoStage} /\ "run_failed" \in DOMAIN EventWorkflow
      BY <1>1, Stages DEF EventWorkflow
    <3>2. AppendEvent(r, "run_failed", StageAt(loop[r][n].at))
      BY <2>3 DEF EmitFailed
    <3> QED
      BY <3>1, <3>2 DEF LoopTx
  <2> QED
    BY <2>1, <2>2, <2>3
<1> QED
  BY <1>1, <1>2, <1>3, ReturnEffect

(* Failing the current draft is a transaction of the owner, or a replay. *)
LEMMA FailDraftEffect ==
  ASSUME NEW r \in Run, NEW n \in Attempt, NEW l \in Loop, RunnerOK(r, n, l),
         l.pc \in Steps, l.draft # NoVersion, Owns(r, n), FailDraft(r, l)
  PROVE  LoopTx(r, n) \/ UNCHANGED storeVars
<1>1. l.draft \in Version /\ l.att = n /\ DraftOf(l.draft, r) /\ attempt[r][n] # "none"
  BY DEF Loop, RunnerOK
<1> QED
  BY <1>1 DEF FailDraft, LoopTx, OwnerTx

(* The last repair round fails the draft and ends its own run, or nothing. *)
LEMMA FailLastDraftStep ==
  ASSUME LoopInv, NEW r \in Run, NEW n \in Attempt, FailLastDraft(r, n) PROVE LoopEffect(r, n)
<1> DEFINE l == loop[r][n]
<1>1. /\ TypeOK /\ LoopRows /\ RunnerOK(r, n, l) /\ l.pc = "failDraft" /\ l \in Loop
      /\ Owns(r, n) /\ l.pc \in Steps /\ l.draft # NoVersion
  BY AtStart DEF FailLastDraft, At, Driving, Steps, RunnerOK
<1>2. PICK k \in Loop : k = [l EXCEPT !.pc = "emitCompileFailed"]
  BY <1>1 DEF Loop, Steps
<1>3. loop' = [loop EXCEPT ![r][n] = k]
  BY <1>1, <1>2, GotoIs DEF FailLastDraft
<1>4. RunnerOK(r, n, k)
  BY <1>1, <1>2 DEF RunnerOK, Loop, Steps
<1>5. LoopTx(r, n) \/ UNCHANGED storeVars
  BY <1>1, FailDraftEffect DEF FailLastDraft
<1>6. k.pc \notin Driving
  BY <1>1, <1>2 DEF Loop, Driving
<1> QED
  BY <1>1, <1>3, <1>4, <1>5, <1>6, EffectBy DEF FailLastDraft

(* The failure path ends the run, which the loop still owns. *)
LEMMA FailInfraStep ==
  ASSUME LoopInv, NEW r \in Run, NEW n \in Attempt, FailInfra(r, n) PROVE LoopEffect(r, n)
<1> DEFINE l == loop[r][n]
<1>1. /\ TypeOK /\ LoopRows /\ RunnerOK(r, n, l) /\ l.pc = "failInfra" /\ l \in Loop
      /\ Owns(r, n) /\ l.pc \in Steps
  BY AtStart DEF FailInfra, At, Driving, Steps
<1>2. PICK k \in Loop : k = [l EXCEPT !.pc = "emitFailed"]
  BY <1>1 DEF Loop, Steps
<1>3. loop' = [loop EXCEPT ![r][n] = k]
  BY <1>1, <1>2, GotoIs DEF FailInfra
<1>4. RunnerOK(r, n, k)
  BY <1>1, <1>2 DEF RunnerOK, Loop, Steps
<1>5. LoopTx(r, n) \/ UNCHANGED storeVars
  <2>1. CASE l.draft # NoVersion
    BY <1>1, <2>1, FailDraftEffect DEF FailInfra
  <2>2. CASE l.draft = NoVersion
    BY <1>1, <2>2 DEF FailInfra, LoopTx, OwnerTx
  <2> QED
    BY <2>1, <2>2
<1>6. k.pc \notin Driving
  BY <1>1, <1>2 DEF Loop, Driving
<1> QED
  BY <1>1, <1>3, <1>4, <1>5, <1>6, EffectBy DEF FailInfra

(* The watchdog touches the loop's own fields alone. *)
LEMMA WatchdogStep ==
  ASSUME LoopInv, NEW r \in Run, NEW n \in Attempt,
         WatchdogRead(r, n) \/ WatchdogCancel(r, n)
  PROVE  LoopEffect(r, n)
<1> DEFINE l == loop[r][n]
<1>1. /\ TypeOK /\ LoopRows /\ RunnerOK(r, n, l) /\ l \in Loop
      /\ l.pc \in Driving => Owns(r, n)
  BY AtStart
<1>2. UNCHANGED storeVars /\ ServerUnchanged
  BY DEF WatchdogRead, WatchdogCancel, OnlyLoop
<1>3. Owns(r, n) => Owns(r, n)'
  BY <1>2, OwnsStays DEF storeVars
<1>4. PICK k \in Loop : k \in {[l EXCEPT !.armed = TRUE], [l EXCEPT !.ctx = "cancelled"]}
                        /\ loop' = [loop EXCEPT ![r][n] = k]
  <2>1. [l EXCEPT !.armed = TRUE] \in Loop /\ [l EXCEPT !.ctx = "cancelled"] \in Loop
    BY <1>1 DEF Loop
  <2>2. \/ loop' = [loop EXCEPT ![r][n] = [l EXCEPT !.armed = TRUE]]
        \/ loop' = [loop EXCEPT ![r][n] = [l EXCEPT !.ctx = "cancelled"]]
    BY <1>1 DEF WatchdogRead, WatchdogCancel, LoopRows
  <2> QED
    BY <2>1, <2>2
<1>5. /\ k.pc = l.pc /\ k.att = l.att /\ k.at = l.at
      /\ k.draft = l.draft /\ k.new = l.new
  BY <1>1, <1>4 DEF Loop
<1>6. RunnerOK(r, n, k)
  BY <1>1, <1>5 DEF RunnerOK
<1> QED
  BY <1>1, <1>2, <1>3, <1>4, <1>5, <1>6, EffectBy

(* Every step of a loop is one of those. *)
LEMMA LoopStepEffect ==
  ASSUME LoopInv, NEW r \in Run, NEW n \in Attempt, LoopStep(r, n) PROVE LoopEffect(r, n)
BY LoadStep, EmitRunStartedStep, BeginStep, EmitStageStartedStep, TurnStep, RecordStep,
   EmitArtifactStep, WriteDraftStep, ReplaceDraftStep, GateStep, PromoteStep, EmitEndStep,
   FailLastDraftStep, FailInfraStep, WatchdogStep DEF LoopStep, Proceed

-----------------------------------------------------------------------------
(* Whoever owns a run keeps it through the steps of the others. *)
LEMMA OthersKeepOwning ==
  ASSUME LoopInv, NEW r \in Run, NEW n \in Attempt, LoopTx(r, n) \/ UNCHANGED storeVars,
         NEW q \in Run, NEW m \in Attempt, Owns(q, m), ~(q = r /\ m = n)
  PROVE  Owns(q, m)'
<1>1. ~OwnerTx(r, n)
  BY DEF OwnerTx, Owns, LoopInv, StoreInv, OneActiveRun
<1>2. UNCHANGED run
  BY <1>1 DEF LoopTx, AppendEvent, RecordStageArtifact, CreateDraftVersion, storeVars
<1> QED
  BY <1>2, OwnsStays

(* LiveAttemptIsActive depends on the run and attempt rows only. *)
LEMMA LiveAttemptStutter ==
  ASSUME LiveAttemptIsActive, UNCHANGED <<run, attempt>> PROVE LiveAttemptIsActive'
BY DEF LiveAttemptIsActive, Owns, Active

(* The end of a run ends its active attempt. *)
LEMMA LiveAttemptFinish ==
  ASSUME TypeOK, LiveAttemptIsActive, NEW r \in Run, NEW n \in Attempt, Owns(r, n),
         NEW s \in {"succeeded", "failed"}, NEW v \in Version, Finish(r, n, s, v)
  PROVE  LiveAttemptIsActive'
<1> SUFFICES ASSUME NEW q \in Run, NEW m \in Attempt
             PROVE  attempt'[q][m] \in LiveStatus <=>
                      run'[q].status \in LiveStatus /\ run'[q].active = m
  BY DEF LiveAttemptIsActive, Owns, Active
<1>1. n # NoAttempt
  BY DEF Attempt, NoAttempt
<1>2. CASE q # r
  BY <1>1, <1>2 DEF Finish, TypeOK, LiveAttemptIsActive, Owns, Active
<1>3. CASE q = r
  <2>1. run'[q].status = s /\ s \notin LiveStatus
    BY <1>3 DEF Finish, TypeOK, RunRow, LiveStatus
  <2>2. CASE m = n
    BY <1>1, <1>3, <2>1, <2>2 DEF Finish, TypeOK
  <2>3. CASE m # n
    <3>1. attempt'[q][m] = attempt[q][m]
      BY <1>1, <1>3, <2>3 DEF Finish, TypeOK
    <3> QED
      BY <1>3, <2>1, <2>3, <3>1 DEF LiveAttemptIsActive, Owns
  <2> QED
    BY <2>2, <2>3
<1> QED
  BY <1>2, <1>3

(* No write of a loop revives an attempt. *)
LEMMA LiveAttemptLoopTx ==
  ASSUME LoopInv, NEW r \in Run, NEW n \in Attempt, LoopTx(r, n)
  PROVE  LiveAttemptIsActive'
<1>1. TypeOK /\ LiveAttemptIsActive
  BY DEF LoopInv, StoreInv
<1>2. ASSUME UNCHANGED <<run, attempt>> PROVE LiveAttemptIsActive'
  BY <1>1, <1>2, LiveAttemptStutter
<1>3. ASSUME Owns(r, n), BeginAttempt(r, n) PROVE LiveAttemptIsActive'
  <2>1. /\ attempt[r][n] \in LiveStatus /\ attempt'[r][n] = "running"
        /\ \A q \in Run, m \in Attempt :
             ~(q = r /\ m = n) => attempt'[q][m] = attempt[q][m]
    BY <1>1, <1>3 DEF BeginAttempt, LiveAttemptIsActive, TypeOK, LiveStatus
  <2>2. \A q \in Run : /\ run'[q].active = run[q].active
                       /\ run'[q].status \in LiveStatus <=> run[q].status \in LiveStatus
    BY <1>1, <1>3 DEF BeginAttempt, TypeOK, RunRow, LiveStatus, Owns, Active
  <2>3. ASSUME NEW q \in Run, NEW m \in Attempt
        PROVE  attempt'[q][m] \in LiveStatus <=> attempt[q][m] \in LiveStatus
    BY <2>1 DEF LiveStatus
  <2>4. ASSUME NEW q \in Run, NEW m \in Attempt PROVE Owns(q, m)' <=> Owns(q, m)
    <3>1. /\ run'[q].active = run[q].active
          /\ (run'[q].status \in LiveStatus) <=> (run[q].status \in LiveStatus)
      BY <2>2
    <3> QED
      BY <3>1 DEF Owns, Active
  <2> QED
    BY <1>1, <2>3, <2>4 DEF LiveAttemptIsActive
<1>4. ASSUME FailRun(r) PROVE LiveAttemptIsActive'
  <2>1. \A m \in Attempt : attempt'[r][m] \notin LiveStatus
    BY <1>1, <1>4 DEF FailRun, TypeOK, LiveStatus
  <2>2. run'[r].status = "failed"
    BY <1>1, <1>4 DEF FailRun, TypeOK, RunRow
  <2>3. \A q \in Run : q # r => attempt'[q] = attempt[q] /\ run'[q] = run[q]
    BY <1>1, <1>4 DEF FailRun, TypeOK
  <2> QED
    BY <1>1, <2>1, <2>2, <2>3 DEF LiveAttemptIsActive, Owns, Active, LiveStatus
<1>5. ASSUME NEW v \in Version, DraftOf(v, r), DropDraft(v) PROVE LiveAttemptIsActive'
  BY <1>1, <1>5 DEF DropDraft, DraftOf, LiveAttemptIsActive, Owns, Active, TypeOK, RunRow
<1>6. ASSUME Owns(r, n), NEW v \in Version,
             FailDraftVersion(v, r, n) \/ PromoteDraftVersion(v, r, n)
      PROVE  LiveAttemptIsActive'
  BY <1>1, <1>6, LiveAttemptFinish DEF FailDraftVersion, PromoteDraftVersion
<1>7. CASE OwnerTx(r, n)
  BY <1>3, <1>4, <1>5, <1>6, <1>7 DEF OwnerTx
<1>8. CASE ~OwnerTx(r, n)
  BY <1>2, <1>8 DEF LoopTx, AppendEvent, RecordStageArtifact, CreateDraftVersion
<1> QED
  BY <1>7, <1>8

(* A handler starts an attempt only where no other is live. *)
LEMMA LiveAttemptRequestTx ==
  ASSUME LoopInv, RequestTx PROVE LiveAttemptIsActive'
<1>1. TypeOK /\ LiveAttemptIsActive
  BY DEF LoopInv, StoreInv
<1>2. ASSUME UNCHANGED <<run, attempt>> PROVE LiveAttemptIsActive'
  BY <1>1, <1>2, LiveAttemptStutter
<1>3. CASE MarkActiveRunsInterrupted
  <2>1. ASSUME NEW q \in Run PROVE run'[q].status \notin LiveStatus
    BY <1>1, <1>3, <2>1 DEF MarkActiveRunsInterrupted, Active, TypeOK, RunRow, LiveStatus
  <2>2. ASSUME NEW q \in Run, NEW m \in Attempt PROVE attempt'[q][m] \notin LiveStatus
    BY <1>1, <1>3, <2>2 DEF MarkActiveRunsInterrupted, LiveAttemptIsActive, Owns, LiveStatus
  <2> QED
    BY <2>1, <2>2 DEF LiveAttemptIsActive, Owns, Active
<1>4. ASSUME NEW r \in Run, NEW canStart \in BOOLEAN, CreateRun(r, canStart)
      PROVE  LiveAttemptIsActive'
  <2> DEFINE s == IF canStart THEN "queued" ELSE "failed"
  <2>1. \A q \in Run, m \in Attempt : attempt[q][m] \notin LiveStatus
    BY <1>1, <1>4 DEF CreateRun, NoActiveRun, LiveAttemptIsActive, Owns
  <2>2. /\ run'[r].status = s /\ run'[r].active = 1
        /\ \A q \in Run : q # r => run'[q] = run[q]
    BY <1>1, <1>4 DEF CreateRun, TypeOK
  <2>3. /\ attempt'[r][1] = s
        /\ \A q \in Run, m \in Attempt :
             ~(q = r /\ m = 1) => attempt'[q][m] = attempt[q][m]
    BY <1>1, <1>4, AttemptOne DEF CreateRun, TypeOK
  <2>4. \A q \in Run : run[q].status \notin LiveStatus
    BY <1>4 DEF CreateRun, NoActiveRun, Active
  <2> HIDE DEF s
  <2> QED
    BY <2>1, <2>2, <2>3, <2>4 DEF LiveAttemptIsActive, Owns, Active
<1>5. ASSUME NEW r \in Run, NEW n \in Attempt, RetryRun(r, n) PROVE LiveAttemptIsActive'
  <2>1. \A q \in Run : run[q].status \notin LiveStatus
    BY <1>1, <1>5 DEF RetryRun, StartAttempt, OneActiveIndex, Active, LiveStatus
  <2>2. \A q \in Run, m \in Attempt : attempt[q][m] \notin LiveStatus
    BY <1>1, <2>1 DEF LiveAttemptIsActive, Owns, Active
  <2>3. /\ run'[r].status = "running" /\ run'[r].active = n
        /\ \A q \in Run : q # r => run'[q] = run[q]
    BY <1>1, <1>5 DEF RetryRun, StartAttempt, TypeOK, RunRow
  <2>4. /\ attempt'[r][n] = "running"
        /\ \A q \in Run, m \in Attempt :
             ~(q = r /\ m = n) => attempt'[q][m] = attempt[q][m]
    BY <1>1, <1>5 DEF RetryRun, StartAttempt, TypeOK
  <2> QED
    BY <2>1, <2>2, <2>3, <2>4 DEF LiveAttemptIsActive, Owns, Active, LiveStatus
<1>6. ASSUME \/ GetProject
             \/ \E v \in Version : RestoreVersion(v) \/ \E ok \in BOOLEAN : WriteFile(v, ok)
             \/ \E r \in Run, n \in Attempt : RecordStageArtifact(r, n, "qa")
      PROVE  LiveAttemptIsActive'
  BY <1>2, <1>6 DEF GetProject, RestoreVersion, WriteFile, RecordStageArtifact
<1> QED
  BY <1>3, <1>4, <1>5, <1>6 DEF RequestTx

(* Only a draft that passed, or an edit that compiles, becomes stable. *)
LEMMA StableCompilesTx ==
  ASSUME TypeOK, StableCompiles,
         RequestTx \/ \E r \in Run, n \in Attempt : LoopTx(r, n)
  PROVE  StableCompiles'
<1>1. ASSUME UNCHANGED version PROVE StableCompiles'
  BY <1>1 DEF StableCompiles
<1>2. ASSUME NEW v \in Version, NEW ok \in BOOLEAN, WriteFile(v, ok) PROVE StableCompiles'
  BY <1>2 DEF WriteFile, StableCompiles, TypeOK
<1>3. ASSUME NEW r \in Run, NEW v \in Version, NEW ok \in BOOLEAN, CreateDraftVersion(v, r, ok)
      PROVE  StableCompiles'
  BY <1>3 DEF CreateDraftVersion, StableCompiles, TypeOK
<1>4. ASSUME NEW r \in Run, NEW n \in Attempt, NEW v \in Version,
             DropDraft(v) \/ FailDraftVersion(v, r, n)
      PROVE  StableCompiles'
  BY <1>4 DEF DropDraft, FailDraftVersion, StableCompiles, TypeOK, VersionRow
<1>5. ASSUME NEW r \in Run, NEW n \in Attempt, NEW v \in Version,
             version[v].ok, PromoteDraftVersion(v, r, n)
      PROVE  StableCompiles'
  BY <1>5 DEF PromoteDraftVersion, StableCompiles, TypeOK, VersionRow
<1>6. CASE RequestTx
  BY <1>1, <1>2, <1>6 DEF RequestTx, MarkActiveRunsInterrupted, GetProject, RestoreVersion,
     CreateRun, RetryRun, StartAttempt, RecordStageArtifact
<1>7. ASSUME NEW r \in Run, NEW n \in Attempt, LoopTx(r, n) PROVE StableCompiles'
  BY <1>1, <1>3, <1>4, <1>5, <1>7 DEF LoopTx, OwnerTx, AppendEvent, RecordStageArtifact,
     BeginAttempt, FailRun
<1> QED
  BY <1>6, <1>7

(* An attempt is written for a run that there is, and runs stay. *)
LEMMA AttemptsHaveRunTx ==
  ASSUME TypeOK, AttemptsHaveRun,
         RequestTx \/ \E r \in Run, n \in Attempt : LoopTx(r, n)
  PROVE  AttemptsHaveRun'
<1>1. StoreTx
  BY LoopTxIsStoreTx, RequestTxIsStoreTx
<1>2. \A q \in Run : RunExists(q) => RunExists(q)'
  BY <1>1, RunStepTx DEF RunStep, RunExists
<1>3. ASSUME UNCHANGED attempt PROVE AttemptsHaveRun'
  BY <1>2, <1>3 DEF AttemptsHaveRun
<1>4. ASSUME NEW r \in Run, RunExists(r)',
             \A q \in Run, m \in Attempt : q # r => attempt'[q][m] = attempt[q][m]
      PROVE  AttemptsHaveRun'
  BY <1>2, <1>4 DEF AttemptsHaveRun
<1>5. ASSUME NEW r \in Run, NEW canStart \in BOOLEAN, CreateRun(r, canStart)
      PROVE  AttemptsHaveRun'
  BY <1>4, <1>5 DEF CreateRun, RunExists, TypeOK
<1>6. ASSUME NEW r \in Run, NEW n \in Attempt, RetryRun(r, n) PROVE AttemptsHaveRun'
  BY <1>4, <1>6 DEF RetryRun, StartAttempt, RunExists, TypeOK, RunRow
<1>7. CASE MarkActiveRunsInterrupted
  BY <1>2, <1>7 DEF MarkActiveRunsInterrupted, AttemptsHaveRun, TypeOK, Active, RunExists, LiveStatus
<1>8. CASE RequestTx
  BY <1>3, <1>5, <1>6, <1>7, <1>8 DEF RequestTx, GetProject, RestoreVersion, WriteFile,
     RecordStageArtifact
<1>9. ASSUME NEW r \in Run, NEW n \in Attempt, OwnerTx(r, n) PROVE AttemptsHaveRun'
  <2>1. RunExists(r)'
    BY <1>2, <1>9 DEF OwnerTx, Owns, Active, RunExists, LiveStatus
  <2>2. ASSUME NEW q \in Run, NEW m \in Attempt, q # r PROVE attempt'[q][m] = attempt[q][m]
    BY <1>9, <2>2 DEF OwnerTx, BeginAttempt, FailRun, DropDraft, FailDraftVersion,
       PromoteDraftVersion, Finish, TypeOK
  <2> QED
    BY <1>4, <2>1, <2>2
<1>10. ASSUME NEW r \in Run, NEW n \in Attempt, LoopTx(r, n) PROVE AttemptsHaveRun'
  BY <1>3, <1>9, <1>10 DEF LoopTx, AppendEvent, RecordStageArtifact, CreateDraftVersion
<1> QED
  BY <1>8, <1>10

-----------------------------------------------------------------------------
(* The loops' part of the invariant. *)
LoopsOK == \A r \in Run, n \in Attempt :
             /\ RunnerOK(r, n, loop[r][n])
             /\ loop[r][n].pc \in Driving => up /\ Owns(r, n)

(* An empty project without loops satisfies the inductive invariant. *)
LEMMA LoopInit_Inv == Init => LoopInv
<1> SUFFICES ASSUME Init PROVE LoopInv
  OBVIOUS
<1>1. StoreInv /\ TypeOK
  BY StoreInit_Inv DEF Init, StoreInv
<1>2. NotLaunched \in Loop
  <2>1. 0 \in 0 .. Len(StageOrder) /\ 0 \in 0 .. MaxAutoFixRounds
    BY Stages, LoopAssumption
  <2> QED
    BY <2>1 DEF NotLaunched, Loop
<1>3. LoopTypeOK
  BY <1>1, <1>2 DEF Init, LoopTypeOK
<1>4. LiveAttemptIsActive /\ AttemptsHaveRun /\ StableCompiles
  BY DEF Init, StoreInit, LiveAttemptIsActive, AttemptsHaveRun, StableCompiles, Owns, Active, LiveStatus
<1>5. LoopsOK
  BY DEF Init, LoopsOK, NotLaunched, RunnerOK, Steps, Driving
<1> QED
  BY <1>1, <1>3, <1>4, <1>5 DEF LoopInv, LoopsOK

(* Loops run only while the server does. *)
LEMMA LoopStepIsUp ==
  ASSUME NEW r \in Run, NEW n \in Attempt, LoopStep(r, n) PROVE up
BY DEF LoopStep, Proceed, At, Load, EmitRunStarted, Begin, EmitStageStarted, TurnOk, TurnErr,
   Record, EmitArtifact, WriteDraft, ReplaceDraft, Gate, Promote, EmitCompleted, FailLastDraft,
   EmitCompileFailed, FailInfra, EmitFailed, WatchdogRead, WatchdogCancel

(* A loop that moves leaves the other loops where they are. *)
LEMMA LoopMoves ==
  ASSUME loop \in [Run -> [Attempt -> Loop]], NEW r \in Run, NEW n \in Attempt,
         NEW l \in Loop, loop' = [loop EXCEPT ![r][n] = l]
  PROVE  /\ loop' \in [Run -> [Attempt -> Loop]]
         /\ loop'[r][n] = l
         /\ \A q \in Run, m \in Attempt :
              ~(q = r /\ m = n) => loop'[q][m] = loop[q][m]
OBVIOUS

(* Every step of a loop keeps the invariant. *)
LEMMA LoopStepInv ==
  ASSUME LoopInv, NEW r \in Run, NEW n \in Attempt, LoopStep(r, n) PROVE LoopInv'
<1>1. LoopEffect(r, n) /\ up /\ TypeOK /\ LoopRows
  BY LoopStepEffect, LoopStepIsUp, AtStart
<1>2. StoreInv'
  BY <1>1, LoopTxIsStoreTx, StoreInvTx, StoreInvStutter DEF LoopEffect, LoopInv
<1>3. (LiveAttemptIsActive /\ AttemptsHaveRun /\ StableCompiles)'
  <2>1. CASE LoopTx(r, n)
    BY <1>1, <2>1, LiveAttemptLoopTx, AttemptsHaveRunTx, StableCompilesTx DEF LoopInv
  <2>2. CASE UNCHANGED storeVars
    BY <2>2, LiveAttemptStutter DEF LoopInv, storeVars, StableCompiles, AttemptsHaveRun, RunExists
  <2> QED
    BY <1>1, <2>1, <2>2 DEF LoopEffect
<1>4. PICK l \in Loop : /\ loop' = [loop EXCEPT ![r][n] = l]
                        /\ RunnerOK(r, n, l)'
                        /\ l.pc \in Driving => Owns(r, n)'
  BY <1>1 DEF LoopEffect, Moves
<1>5. loop \in [Run -> [Attempt -> Loop]]
  BY <1>1 DEF LoopRows
<1>6. /\ loop' \in [Run -> [Attempt -> Loop]]
      /\ loop'[r][n] = l
      /\ \A q \in Run, m \in Attempt : ~(q = r /\ m = n) => loop'[q][m] = loop[q][m]
  BY <1>4, <1>5, LoopMoves
<1>7. up' = up /\ configured' = configured /\ reported' = reported
  BY <1>1 DEF LoopEffect, ServerUnchanged
<1>8. LoopTypeOK'
  BY <1>1, <1>2, <1>6, <1>7 DEF LoopTypeOK, LoopRows, StoreInv
<1>9. LoopsOK'
  <2>1. ASSUME NEW q \in Run, NEW m \in Attempt, q = r /\ m = n
        PROVE  /\ RunnerOK(q, m, loop[q][m])'
               /\ loop'[q][m].pc \in Driving => up' /\ Owns(q, m)'
    <3>1. loop'[q][m] = l
      BY <1>6, <2>1
    <3>2. RunnerOK(q, m, loop[q][m])'
      BY <1>4, <2>1, <3>1 DEF RunnerOK
    <3> QED
      BY <1>1, <1>4, <1>7, <2>1, <3>1, <3>2
  <2>2. ASSUME NEW q \in Run, NEW m \in Attempt, ~(q = r /\ m = n)
        PROVE  /\ RunnerOK(q, m, loop[q][m])'
               /\ loop'[q][m].pc \in Driving => up' /\ Owns(q, m)'
    <3>1. PICK k \in Loop : k = loop[q][m]
      BY <1>5
    <3>2. loop'[q][m] = k
      BY <1>6, <2>2, <3>1
    <3>3. RunnerOK(q, m, k)
      BY <3>1 DEF LoopInv
    <3>4. RunnerOK(q, m, k)'
      BY <1>1, <3>3, RunnerStays, LoopTxIsStoreTx DEF LoopEffect
    <3>5. k.pc \in Driving => up' /\ Owns(q, m)'
      BY <1>1, <2>2, <3>1, OthersKeepOwning DEF LoopEffect, LoopInv, ServerUnchanged
    <3> QED
      BY <3>2, <3>4, <3>5 DEF RunnerOK
  <2> QED
    BY <2>1, <2>2 DEF LoopsOK
<1> QED
  BY <1>2, <1>3, <1>8, <1>9 DEF LoopInv, LoopsOK

(* A launched loop may start: it has its attempt, and the run is its own. *)
LEMMA LaunchEffect ==
  ASSUME LoopInv, NEW r \in Run, NEW n \in Attempt, RequestTx, UNCHANGED up, up,
         Become(r, n, Launched), attempt'[r][n] # "none", Owns(r, n)',
         \A q \in Run : ~Active(q)
  PROVE  loop' \in [Run -> [Attempt -> Loop]] /\ LoopsOK'
<1>1. TypeOK /\ loop \in [Run -> [Attempt -> Loop]]
  BY DEF LoopInv, StoreInv, LoopTypeOK
<1>2. PICK l \in Loop : l = Launched
  <2>1. 0 \in 0 .. Len(StageOrder) /\ 0 \in 0 .. MaxAutoFixRounds
    BY Stages, LoopAssumption
  <2> QED
    BY <2>1 DEF Launched, NotLaunched, Loop, Steps
<1>3. /\ loop' \in [Run -> [Attempt -> Loop]]
      /\ loop'[r][n] = l
      /\ \A q \in Run, m \in Attempt : ~(q = r /\ m = n) => loop'[q][m] = loop[q][m]
  <2>1. loop' = [loop EXCEPT ![r][n] = l]
    BY <1>2 DEF Become
  <2> QED
    BY <1>1, <2>1, LoopMoves
<1>4. LoopsOK'
  <2>1. ASSUME NEW q \in Run, NEW m \in Attempt, q = r /\ m = n
        PROVE  /\ RunnerOK(q, m, loop[q][m])'
               /\ loop'[q][m].pc \in Driving => up' /\ Owns(q, m)'
    <3>1. /\ l.pc = "load" /\ l.att = NoAttempt
          /\ l.draft = NoVersion /\ l.new = NoVersion
      BY <1>2 DEF Launched, NotLaunched
    <3>2. RunnerOK(r, n, l)'
      BY <3>1 DEF RunnerOK, Steps
    <3> QED
      BY <1>3, <2>1, <3>2 DEF RunnerOK
  <2>2. ASSUME NEW q \in Run, NEW m \in Attempt, ~(q = r /\ m = n)
        PROVE  /\ RunnerOK(q, m, loop[q][m])'
               /\ loop'[q][m].pc \in Driving => up' /\ Owns(q, m)'
    <3>1. PICK k \in Loop : k = loop[q][m]
      BY <1>1
    <3>2. loop'[q][m] = k
      BY <1>3, <2>2, <3>1
    <3>3. RunnerOK(q, m, k) /\ k.pc \notin Driving
      BY <3>1 DEF LoopInv, Owns
    <3>4. RunnerOK(q, m, k)'
      BY <1>1, <3>3, RunnerStays, RequestTxIsStoreTx
    <3> QED
      BY <3>2, <3>3, <3>4 DEF RunnerOK
  <2> QED
    BY <2>1, <2>2 DEF LoopsOK
<1> QED
  BY <1>3, <1>4

(* A request that launches nothing lets the loops be. *)
LEMMA OtherRequestEffect ==
  ASSUME LoopInv, RequestTx \/ UNCHANGED storeVars, UNCHANGED <<loop, up>>,
         \A q \in Run, m \in Attempt :
           loop[q][m].pc \in Driving /\ Owns(q, m) => Owns(q, m)'
  PROVE  loop' \in [Run -> [Attempt -> Loop]] /\ LoopsOK'
<1>1. TypeOK /\ loop \in [Run -> [Attempt -> Loop]]
  BY DEF LoopInv, StoreInv, LoopTypeOK
<1>2. ASSUME NEW q \in Run, NEW m \in Attempt
      PROVE  /\ RunnerOK(q, m, loop[q][m])'
             /\ loop'[q][m].pc \in Driving => up' /\ Owns(q, m)'
  <2>1. PICK k \in Loop : k = loop[q][m]
    BY <1>1
  <2>2. RunnerOK(q, m, k) /\ (k.pc \in Driving => up /\ Owns(q, m))
    BY <2>1 DEF LoopInv
  <2>3. RunnerOK(q, m, k)'
    BY <1>1, <2>2, RunnerStays, RequestTxIsStoreTx
  <2> QED
    BY <2>1, <2>2, <2>3 DEF RunnerOK
<1> QED
  BY <1>1, <1>2 DEF LoopsOK

(* A handler launches a loop only for the attempt it has made. *)
LEMMA RequestEffect ==
  ASSUME LoopInv, Served
  PROVE  /\ RequestTx
         /\ loop' \in [Run -> [Attempt -> Loop]] /\ LoopsOK'
         /\ reported' \in [Run -> [Attempt -> SUBSET Report]]
         /\ UNCHANGED <<up, configured>>
<1>1. /\ up /\ TypeOK /\ LiveAttemptIsActive /\ configured \in BOOLEAN
      /\ reported \in [Run -> [Attempt -> SUBSET Report]]
  BY DEF Served, LoopInv, StoreInv, LoopTypeOK
<1>2. ASSUME \/ HandleGetProject
             \/ \E v \in Version : HandleRestoreVersion(v)
                                    \/ \E ok \in BOOLEAN : HandleWriteFile(v, ok)
      PROVE  RequestTx /\ LoopsOK' /\ loop' \in [Run -> [Attempt -> Loop]]
             /\ UNCHANGED <<up, configured, reported>>
  <2>1. RequestTx /\ UNCHANGED <<run, loop, up, configured, reported>>
    BY <1>2 DEF HandleGetProject, HandleRestoreVersion, HandleWriteFile, RequestTx,
       GetProject, RestoreVersion, WriteFile
  <2> QED
    BY <2>1, OtherRequestEffect, OwnsStays
<1>3. ASSUME NEW r \in Run, HandleCreateRun(r)
      PROVE  RequestTx /\ LoopsOK' /\ loop' \in [Run -> [Attempt -> Loop]]
             /\ UNCHANGED <<up, configured, reported>>
  <2>1. CreateRun(r, configured) /\ UNCHANGED <<up, configured, reported>>
    BY <1>3 DEF HandleCreateRun, ServerUnchanged
  <2>2. RequestTx /\ \A q \in Run : ~Active(q)
    BY <1>1, <2>1 DEF RequestTx, CreateRun, NoActiveRun
  <2>3. CASE configured
    <3>1. attempt'[r][1] # "none" /\ Owns(r, 1)'
      BY <1>1, <2>1, <2>3, AttemptOne DEF CreateRun, Owns, Active, TypeOK, LiveStatus
    <3>2. Become(r, 1, Launched)
      BY <1>3, <2>3 DEF HandleCreateRun
    <3> QED
      BY <1>1, <2>1, <2>2, <3>1, <3>2, AttemptOne, LaunchEffect
  <2>4. CASE ~configured
    <3>1. UNCHANGED loop
      BY <1>3, <2>4 DEF HandleCreateRun
    <3>2. \A q \in Run, m \in Attempt : ~Owns(q, m)
      BY <2>2 DEF Owns
    <3> QED
      BY <2>1, <2>2, <3>1, <3>2, OtherRequestEffect
  <2> QED
    BY <2>3, <2>4
<1>4. ASSUME NEW r \in Run, NEW n \in Attempt, HandleRetryRun(r, n)
      PROVE  RequestTx /\ LoopsOK' /\ loop' \in [Run -> [Attempt -> Loop]]
             /\ UNCHANGED <<up, configured, reported>>
  <2>1. RetryRun(r, n) /\ UNCHANGED <<up, configured, reported>> /\ Become(r, n, Launched)
    BY <1>4 DEF HandleRetryRun, ServerUnchanged
  <2>2. RequestTx
    BY <2>1 DEF RequestTx
  <2>3. \A q \in Run : ~Active(q)
    BY <2>1 DEF RetryRun, StartAttempt, OneActiveIndex, Active, LiveStatus
  <2>4. attempt'[r][n] # "none" /\ Owns(r, n)'
    BY <1>1, <2>1 DEF RetryRun, StartAttempt, Owns, Active, TypeOK, RunRow, LiveStatus
  <2> QED
    BY <1>1, <2>1, <2>2, <2>3, <2>4, LaunchEffect
<1>5. ASSUME NEW r \in Run, NEW n \in Attempt, NEW result \in Report,
             HandleCompileResult(r, n, result)
      PROVE  /\ RequestTx /\ LoopsOK' /\ loop' \in [Run -> [Attempt -> Loop]]
             /\ reported' \in [Run -> [Attempt -> SUBSET Report]]
             /\ UNCHANGED <<up, configured>>
  <2>1. RequestTx /\ UNCHANGED <<run, loop, up, configured>>
    BY <1>5 DEF HandleCompileResult, RecordCompileResult, RequestTx, RecordStageArtifact
  <2>2. reported' \in [Run -> [Attempt -> SUBSET Report]]
    BY <1>1, <1>5 DEF HandleCompileResult, RecordCompileResult
  <2> QED
    BY <2>1, <2>2, OtherRequestEffect, OwnsStays
<1> QED
  BY <1>1, <1>2, <1>3, <1>4, <1>5 DEF Served

(* A crash ends the loops and keeps the rows. *)
LEMMA CrashEffect ==
  ASSUME LoopInv, Crash
  PROVE  UNCHANGED storeVars /\ LoopRows' /\ LoopsOK'
<1>1. loop \in [Run -> [Attempt -> Loop]]
  BY DEF LoopInv, LoopTypeOK
<1>2. NotLaunched \in Loop /\ [NotLaunched EXCEPT !.pc = "done"] \in Loop
  <2>1. 0 \in 0 .. Len(StageOrder) /\ 0 \in 0 .. MaxAutoFixRounds
    BY Stages, LoopAssumption
  <2> QED
    BY <2>1 DEF NotLaunched, Loop
<1>3. \A q \in Run, m \in Attempt :
        loop'[q][m] \in {NotLaunched, [NotLaunched EXCEPT !.pc = "done"]}
  BY DEF Crash
<1>4. loop' \in [Run -> [Attempt -> Loop]]
  BY <1>2 DEF Crash
<1>5. LoopsOK'
  <2>1. ASSUME NEW q \in Run, NEW m \in Attempt
        PROVE  /\ RunnerOK(q, m, loop[q][m])'
               /\ loop'[q][m].pc \notin Driving
    <3>1. /\ loop'[q][m].pc \in {"none", "done"} /\ loop'[q][m].att = NoAttempt
          /\ loop'[q][m].draft = NoVersion
      BY <1>3 DEF NotLaunched
    <3> QED
      BY <3>1 DEF RunnerOK, Driving, Steps
  <2> QED
    BY <2>1 DEF LoopsOK
<1> QED
  BY <1>4, <1>5 DEF Crash, LoopRows, LoopInv, LoopTypeOK

(* A start interrupts the active run; no loop is left from before. *)
LEMMA RestartEffect ==
  ASSUME LoopInv, Restart
  PROVE  RequestTx /\ LoopRows' /\ LoopsOK'
<1>1. TypeOK /\ loop \in [Run -> [Attempt -> Loop]]
  BY DEF LoopInv, StoreInv, LoopTypeOK
<1>2. RequestTx
  BY DEF Restart, RequestTx
<1>3. LoopsOK'
  <2>1. ASSUME NEW q \in Run, NEW m \in Attempt
        PROVE  /\ RunnerOK(q, m, loop[q][m])'
               /\ loop'[q][m].pc \notin Driving
    <3>1. PICK k \in Loop : k = loop[q][m]
      BY <1>1
    <3>2. loop'[q][m] = k
      BY <3>1 DEF Restart
    <3>3. RunnerOK(q, m, k) /\ k.pc \notin Driving
      BY <3>1 DEF LoopInv, Restart
    <3>4. RunnerOK(q, m, k)'
      BY <1>1, <1>2, <3>3, RunnerStays, RequestTxIsStoreTx
    <3> QED
      BY <3>2, <3>3, <3>4 DEF RunnerOK
  <2> QED
    BY <2>1 DEF LoopsOK
<1> QED
  BY <1>1, <1>2, <1>3 DEF Restart, LoopRows, LoopInv, LoopTypeOK

(* What a step does to the database, by whom. *)
LEMMA NextTx ==
  ASSUME LoopInv, AnyStep
  PROVE  \/ \E r \in Run, n \in Attempt : LoopTx(r, n)
         \/ RequestTx
         \/ UNCHANGED storeVars
BY LoopStepEffect, RequestEffect, CrashEffect, RestartEffect DEF AnyStep, LoopEffect

(* The invariant is inductive. *)
LEMMA LoopInvNext == ASSUME LoopInv, AnyStep PROVE LoopInv'
<1>1. ASSUME NEW r \in Run, NEW n \in Attempt, LoopStep(r, n) PROVE LoopInv'
  BY <1>1, LoopStepInv
<1>2. ASSUME RequestTx, LoopRows', LoopsOK' PROVE LoopInv'
  <2>1. StoreInv'
    BY <1>2, RequestTxIsStoreTx, StoreInvTx DEF LoopInv
  <2>2. (LiveAttemptIsActive /\ AttemptsHaveRun /\ StableCompiles)'
    BY <1>2, LiveAttemptRequestTx, AttemptsHaveRunTx, StableCompilesTx DEF LoopInv, StoreInv
  <2> QED
    BY <1>2, <2>1, <2>2 DEF LoopInv, LoopsOK, LoopTypeOK, LoopRows, StoreInv
<1>3. ASSUME Served PROVE LoopInv'
  <2>1. RequestTx /\ LoopsOK'
    BY <1>3, RequestEffect
  <2>2. LoopRows'
    BY <1>3, RequestEffect DEF LoopRows, LoopInv, LoopTypeOK
  <2> QED
    BY <1>2, <2>1, <2>2
<1>4. ASSUME Restart PROVE LoopInv'
  BY <1>2, <1>4, RestartEffect
<1>5. ASSUME Crash PROVE LoopInv'
  <2>1. UNCHANGED storeVars /\ LoopRows' /\ LoopsOK'
    BY <1>5, CrashEffect
  <2>2. StoreInv'
    BY <2>1, StoreInvStutter DEF LoopInv
  <2>3. (LiveAttemptIsActive /\ AttemptsHaveRun /\ StableCompiles)'
    BY <2>1, LiveAttemptStutter DEF LoopInv, storeVars, StableCompiles, AttemptsHaveRun, RunExists
  <2> QED
    BY <2>1, <2>2, <2>3 DEF LoopInv, LoopsOK, LoopTypeOK, LoopRows, StoreInv
<1> QED
  BY <1>1, <1>3, <1>4, <1>5 DEF AnyStep

(* A step that changes nothing keeps it. *)
LEMMA LoopInvStutter == ASSUME LoopInv, UNCHANGED loopVars PROVE LoopInv'
<1>1. UNCHANGED storeVars /\ UNCHANGED <<loop, up, configured, reported>>
  BY DEF loopVars
<1>2. StoreInv'
  BY <1>1, StoreInvStutter DEF LoopInv
<1>3. (LiveAttemptIsActive /\ AttemptsHaveRun /\ StableCompiles)'
  BY <1>1, LiveAttemptStutter DEF LoopInv, storeVars, StableCompiles, AttemptsHaveRun, RunExists
<1>4. LoopTypeOK'
  BY <1>1, <1>2 DEF LoopInv, LoopTypeOK, StoreInv
<1>5. LoopsOK'
  <2>1. LoopsOK /\ UNCHANGED <<run, attempt, version, loop, up>>
    BY <1>1 DEF LoopInv, LoopsOK, storeVars
  <2> QED
    BY <2>1 DEF LoopsOK, RunnerOK, DraftOf, Owns, Active
<1> QED
  BY <1>2, <1>3, <1>4, <1>5 DEF LoopInv, LoopsOK

(* The inductive invariant of the program's loops, handlers and crashes. *)
THEOREM LoopInvariant == Spec => []LoopInv
<1>1. LoopInv /\ [Next]_loopVars => LoopInv'
  BY NextIsAnyStep, LoopInvNext, LoopInvStutter
<1> QED
  BY <1>1, LoopInit_Inv, PTL DEF Spec

(* The rows of the database and the state of every loop keep their types. *)
THEOREM LoopTypes == Spec => []LoopTypeOK
<1>1. LoopInv => LoopTypeOK
  BY DEF LoopInv
<1> QED
  BY <1>1, LoopInvariant, PTL

(* StableIsVerified: what everybody sees has passed compile.Validate. *)
THEOREM LoopStableIsVerified == Spec => []StableIsVerified
<1>1. LoopInv => StableIsVerified
  BY DEF LoopInv, StoreInv, TypeOK, StableIsStable, StableCompiles, StableIsVerified
<1> QED
  BY <1>1, LoopInvariant, PTL

(* LoopOwnsRun: a driving loop's attempt is the only live one. *)
THEOREM LoopOwnership == Spec => []LoopOwnsRun
<1>1. LoopInv => LoopOwnsRun
  <2> SUFFICES ASSUME LoopInv, NEW r \in Run, NEW n \in Attempt, loop[r][n].pc \in Driving
               PROVE  /\ Active(r) /\ run[r].active = n
                      /\ \A q \in Run, m \in Attempt :
                           attempt[q][m] \in LiveStatus <=> <<q, m>> = <<r, n>>
    BY DEF LoopOwnsRun
  <2>1. Owns(r, n)
    BY DEF LoopInv
  <2>2. ASSUME NEW q \in Run, NEW m \in Attempt
        PROVE  attempt[q][m] \in LiveStatus <=> (q = r /\ m = n)
    <3>1. Owns(q, m) <=> (q = r /\ m = n)
      BY <2>1 DEF Owns, LoopInv, StoreInv, OneActiveRun
    <3> QED
      BY <3>1 DEF LoopInv, LiveAttemptIsActive
  <2> QED
    BY <2>1, <2>2 DEF Owns
<1> QED
  BY <1>1, LoopInvariant, PTL

-----------------------------------------------------------------------------
(* What the owner's transaction does to the rows of runs and attempts. *)
LEMMA OwnerRows ==
  ASSUME TypeOK, NEW r \in Run, NEW n \in Attempt, OwnerTx(r, n)
  PROVE  /\ \A q \in Run : q # r => run'[q] = run[q]
         /\ \A q \in Run, m \in Attempt :
              attempt[q][m] \notin LiveStatus /\ ~(q = r /\ m = n)
                => attempt'[q][m] = attempt[q][m]
<1> USE DEF TypeOK
<1>1. ASSUME NEW v \in Version, NEW s \in {"succeeded", "failed"}, Finish(r, n, s, v)
      PROVE  /\ \A q \in Run : q # r => run'[q] = run[q]
             /\ \A q \in Run, m \in Attempt :
                  ~(q = r /\ m = n) => attempt'[q][m] = attempt[q][m]
  BY <1>1 DEF Finish
<1>2. CASE BeginAttempt(r, n)
  BY <1>2 DEF BeginAttempt
<1>3. CASE FailRun(r)
  BY <1>3 DEF FailRun
<1>4. ASSUME NEW v \in Version, DraftOf(v, r), DropDraft(v)
      PROVE  (\A q \in Run : q # r => run'[q] = run[q]) /\ attempt' = attempt
  BY <1>4 DEF DropDraft, DraftOf
<1>5. ASSUME NEW v \in Version, FailDraftVersion(v, r, n) \/ PromoteDraftVersion(v, r, n)
      PROVE  /\ \A q \in Run : q # r => run'[q] = run[q]
             /\ \A q \in Run, m \in Attempt :
                  ~(q = r /\ m = n) => attempt'[q][m] = attempt[q][m]
  BY <1>1, <1>5 DEF FailDraftVersion, PromoteDraftVersion
<1> QED
  BY <1>2, <1>3, <1>4, <1>5 DEF OwnerTx

-----------------------------------------------------------------------------
(* The outcome of runs.  A step of the program as the database sees it. *)
AnyTx ==
  \/ \E r \in Run, n \in Attempt : LoopTx(r, n)
  \/ RequestTx
  \/ UNCHANGED storeVars

(* the versions there are stay as they are *)
VersionsKept ==
  \A v \in Version : version[v].status # "none" => version'[v] = version[v]

(* Nobody but the loop that owns the active run changes a version's row. *)
LEMMA VersionsKeptTx ==
  ASSUME TypeOK,
         \/ UNCHANGED version \/ RequestTx
         \/ \E r \in Run, n \in Attempt : LoopTx(r, n) /\ ~OwnerTx(r, n)
  PROVE  VersionsKept
<1>1. ASSUME UNCHANGED version PROVE VersionsKept
  BY <1>1 DEF VersionsKept
<1>2. ASSUME NEW v \in Version, NEW row, NextVersion(v), version' = [version EXCEPT ![v] = row]
      PROVE  VersionsKept
  BY <1>2 DEF VersionsKept, NextVersion, TypeOK
<1>3. CASE RequestTx
  BY <1>1, <1>2, <1>3 DEF RequestTx, MarkActiveRunsInterrupted, GetProject, RestoreVersion,
     WriteFile, CreateRun, RetryRun, StartAttempt, RecordStageArtifact
<1>4. ASSUME NEW r \in Run, NEW n \in Attempt, LoopTx(r, n), ~OwnerTx(r, n) PROVE VersionsKept
  BY <1>1, <1>2, <1>4 DEF LoopTx, AppendEvent, RecordStageArtifact, CreateDraftVersion
<1> QED
  BY <1>1, <1>3, <1>4

(* No artifact is taken away. *)
LEMMA ArtifactsStay ==
  ASSUME TypeOK, AnyTx, NEW r \in Run, NEW n \in Attempt
  PROVE  artifact[r][n] \subseteq artifact'[r][n]
<1>1. ASSUME UNCHANGED artifact PROVE artifact[r][n] \subseteq artifact'[r][n]
  BY <1>1
<1>2. ASSUME NEW q \in Run, NEW m \in Attempt, NEW s, RecordStageArtifact(q, m, s)
      PROVE  artifact[r][n] \subseteq artifact'[r][n]
  BY <1>2 DEF RecordStageArtifact, TypeOK, WorkflowTypeOK
<1>3. CASE RequestTx
  BY <1>1, <1>2, <1>3 DEF RequestTx, MarkActiveRunsInterrupted, GetProject, RestoreVersion,
     WriteFile, CreateRun, RetryRun, StartAttempt, wfVars
<1>4. ASSUME NEW q \in Run, NEW m \in Attempt, LoopTx(q, m)
      PROVE  artifact[r][n] \subseteq artifact'[r][n]
  BY <1>1, <1>2, <1>4 DEF LoopTx, OwnerTx, AppendEvent, CreateDraftVersion, BeginAttempt,
     FailRun, DropDraft, FailDraftVersion, PromoteDraftVersion, wfVars
<1> QED
  BY <1>1, <1>3, <1>4 DEF AnyTx, storeVars, wfVars

(* A run that succeeded keeps its row. *)
LEMMA SucceededKept ==
  ASSUME LoopInv, AnyTx, NEW q \in Run, run[q].status = "succeeded"
  PROVE  run'[q] = run[q]
<1>1. TypeOK
  BY DEF LoopInv, StoreInv
<1>2. ASSUME NEW r \in Run, NEW n \in Attempt, LoopTx(r, n) PROVE run'[q] = run[q]
  <2>1. CASE OwnerTx(r, n)
    BY <1>1, <2>1, OwnerRows DEF OwnerTx, Owns, Active, LiveStatus
  <2>2. CASE ~OwnerTx(r, n)
    BY <1>2, <2>2 DEF LoopTx, AppendEvent, RecordStageArtifact, CreateDraftVersion
  <2> QED
    BY <2>1, <2>2
<1>3. ASSUME MarkActiveRunsInterrupted PROVE run'[q] = run[q]
  BY <1>3 DEF MarkActiveRunsInterrupted, Active, LiveStatus
<1>4. ASSUME NEW r \in Run, NEW canStart \in BOOLEAN, CreateRun(r, canStart) PROVE run'[q] = run[q]
  BY <1>1, <1>4 DEF CreateRun, NextRun, RunExists, TypeOK
<1>5. ASSUME NEW r \in Run, NEW n \in Attempt, RetryRun(r, n) PROVE run'[q] = run[q]
  BY <1>1, <1>5 DEF RetryRun, StartAttempt, TypeOK
<1>6. ASSUME RequestTx PROVE run'[q] = run[q]
  BY <1>3, <1>4, <1>5, <1>6 DEF RequestTx, GetProject, RestoreVersion, WriteFile,
     RecordStageArtifact
<1> QED
  BY <1>2, <1>6 DEF AnyTx, storeVars

(* What a runner has settled stays settled, while its drafts are its own. *)
LEMMA OutcomeStays ==
  ASSUME LoopInv, AnyTx, NEW r \in Run, NEW n \in Attempt, NEW k \in Loop, OutcomeOK(r, n, k),
         k.pc = "dropDraft" => k.new # NoVersion,
         k.pc = "failDraft" => k.draft # NoVersion,
         k.pc \in Driving => VersionsKept
  PROVE  OutcomeOK(r, n, k)'
<1>1. TypeOK
  BY DEF LoopInv, StoreInv
<1>2. k.draft # NoVersion => k.draft \in Version
  BY DEF Loop
<1>3. k.new # NoVersion => k.new \in Version
  BY DEF Loop
<1>4. k.pc = "emitCompleted" => run'[r].status = "succeeded"
  BY SucceededKept DEF OutcomeOK
<1>5. k.pc \in Driving /\ k.draft # NoVersion =>
        version'[k.draft] = version[k.draft] /\ version[k.draft].status = "draft"
  BY <1>2 DEF OutcomeOK, VersionsKept
<1>6. k.pc = "dropDraft" => version'[k.new] = version[k.new]
  BY <1>3 DEF OutcomeOK, VersionsKept, Driving, Steps
<1>7. k.pc = "failDraft" => version'[k.draft] = version[k.draft]
  BY <1>5 DEF Driving, Steps
<1>8. artifact[r][n] \subseteq artifact'[r][n]
  BY <1>1, ArtifactsStay
<1> QED
  BY <1>4, <1>5, <1>6, <1>7, <1>8 DEF OutcomeOK

(* The parts of the invariant for one loop, at the start of a step. *)
LEMMA AtOutcome ==
  ASSUME OutcomeInv, NEW r \in Run, NEW n \in Attempt
  PROVE  /\ LoopInv /\ TypeOK /\ LoopRows /\ loop[r][n] \in Loop
         /\ RunnerOK(r, n, loop[r][n]) /\ OutcomeOK(r, n, loop[r][n]) /\ Led(r, n, loop[r][n])
         /\ loop[r][n].pc \in Driving => Owns(r, n)
BY AtStart DEF OutcomeInv

(* What a step of a loop is, and that it keeps the loop's part. *)
StepTo(r, n, k) ==
  /\ loop' = [loop EXCEPT ![r][n] = k]
  /\ AnyTx
  /\ k.pc \in Driving => Owns(r, n)'
  /\ UNCHANGED up
FineAt(r, n, k) == OutcomeOK(r, n, k)' /\ Led(r, n, k)'

(* The state a loop moves to is legal, and is the one its action names. *)
LEMMA LoopStepsTo ==
  ASSUME LoopInv, NEW r \in Run, NEW n \in Attempt, LoopStep(r, n)
  PROVE  \E k \in Loop : StepTo(r, n, k)
BY LoopStepEffect DEF LoopEffect, Moves, AnyTx, StepTo, ServerUnchanged

(* The same, for the three forms in which actions name it. *)
LEMMA StepNames ==
  ASSUME LoopRows, NEW r \in Run, NEW n \in Attempt, NEW k \in Loop, StepTo(r, n, k)
  PROVE  /\ \A pc : Goto(r, n, pc) => k = [loop[r][n] EXCEPT !.pc = pc]
         /\ \A l : Become(r, n, l) => k = l
<1>1. loop \in [Run -> [Attempt -> Loop]]
  BY DEF LoopRows
<1>2. loop'[r][n] = k
  BY <1>1 DEF StepTo
<1>3. ASSUME NEW pc, Goto(r, n, pc) PROVE k = [loop[r][n] EXCEPT !.pc = pc]
  BY <1>1, <1>2, <1>3 DEF Goto
<1>4. ASSUME NEW l, Become(r, n, l) PROVE k = l
  BY <1>1, <1>2, <1>4 DEF Become
<1> QED
  BY <1>3, <1>4

(* A loop that drives on is led, whatever it settles. *)
LEMMA DrivesOn ==
  ASSUME LoopInv, NEW r \in Run, NEW n \in Attempt, NEW k \in Loop, StepTo(r, n, k),
         k.pc \in Driving, OutcomeOK(r, n, k), VersionsKept,
         k.pc = "dropDraft" => k.new # NoVersion,
         k.pc = "failDraft" => k.draft # NoVersion
  PROVE  FineAt(r, n, k)
<1>1. OutcomeOK(r, n, k)'
  BY OutcomeStays DEF StepTo
<1> QED
  BY <1>1 DEF FineAt, Led

(* A step that goes on without a version's row being written. *)
LEMMA GoesOn ==
  ASSUME OutcomeInv, NEW r \in Run, NEW n \in Attempt, NEW k \in Loop, StepTo(r, n, k),
         NEW pc \in {"emitRunStarted", "begin", "emitStageStarted", "turn", "record",
                     "createDraft", "gate", "failInfra"},
         NEW a, k = [loop[r][n] EXCEPT !.att = a, !.pc = pc],
         loop[r][n].pc \in Driving, VersionsKept
  PROVE  FineAt(r, n, k)
<1> DEFINE l == loop[r][n]
<1>1. LoopInv /\ l \in Loop /\ OutcomeOK(r, n, l)
  BY AtOutcome
<1>2. /\ k.pc = pc /\ k.at = l.at /\ k.draft = l.draft /\ k.round = l.round /\ k.ctx = l.ctx
  BY <1>1 DEF Loop
<1>3. \A i \in 1 .. QAAt : Past(k, i) => Past(l, i)
  BY <1>2 DEF Past
<1>4. OutcomeOK(r, n, k)
  BY <1>1, <1>2, <1>3 DEF OutcomeOK
<1>5. k.pc \in Driving
  BY <1>2 DEF Driving, Steps
<1> QED
  BY <1>1, <1>2, <1>4, <1>5, DrivesOn

(* The steps that neither record nor gate nor end: load, events, turns. *)
LEMMA FineGoto ==
  ASSUME OutcomeInv, NEW r \in Run, NEW n \in Attempt, NEW k \in Loop, StepTo(r, n, k),
         \/ Load(r, n) \/ EmitRunStarted(r, n) \/ EmitStageStarted(r, n)
         \/ TurnOk(r, n) \/ TurnErr(r, n)
  PROVE  FineAt(r, n, k)
<1> DEFINE l == loop[r][n]
<1>1. LoopInv /\ TypeOK /\ LoopRows /\ l \in Loop /\ (l.pc \in Driving => Owns(r, n))
  BY AtOutcome
<1>2. l.pc \in Driving
  BY DEF Load, EmitRunStarted, EmitStageStarted, TurnOk, TurnErr, At, Driving, Steps
<1>3. UNCHANGED version
  BY DEF Load, EmitRunStarted, EmitStageStarted, TurnOk, TurnErr, OnlyLoop, Emit, AppendEvent,
     storeVars
<1>4. VersionsKept
  BY <1>1, <1>3, VersionsKeptTx
<1>5. CASE Load(r, n)
  <2>1. run[r].active = n /\ n # NoAttempt
    BY <1>1, <1>2 DEF Owns, Attempt, NoAttempt
  <2>2. k = [l EXCEPT !.att = n, !.pc = "emitRunStarted"]
    BY <1>1, <1>5, <2>1, StepNames DEF Load
  <2> QED
    BY <1>2, <1>4, <2>2, GoesOn
<1>6. CASE EmitRunStarted(r, n) \/ EmitStageStarted(r, n) \/ TurnOk(r, n) \/ TurnErr(r, n)
  <2>1. PICK pc \in {"begin", "turn", "gate", "record", "createDraft", "failInfra"} : Goto(r, n, pc)
    BY <1>6 DEF EmitRunStarted, EmitStageStarted, TurnOk, TurnErr
  <2>2. k = [l EXCEPT !.pc = pc]
    BY <1>1, <2>1, StepNames
  <2>3. k = [l EXCEPT !.att = l.att, !.pc = pc]
    BY <1>1, <2>2 DEF Loop
  <2> QED
    BY <1>2, <1>4, <2>3, GoesOn
<1> QED
  BY <1>5, <1>6

(* The first stage is entered with nothing recorded. *)
LEMMA FineBegin ==
  ASSUME OutcomeInv, NEW r \in Run, NEW n \in Attempt, NEW k \in Loop, StepTo(r, n, k),
         Begin(r, n)
  PROVE  FineAt(r, n, k)
<1> DEFINE l == loop[r][n]
<1>1. LoopInv /\ TypeOK /\ LoopRows /\ l \in Loop /\ OutcomeOK(r, n, l)
  BY AtOutcome
<1>2. l.pc = "begin" /\ l.pc \in Driving
  BY DEF Begin, At, Driving, Steps
<1>3. UNCHANGED version
  BY DEF Begin, BeginAttempt, storeVars
<1>4. VersionsKept
  BY <1>1, <1>3, VersionsKeptTx
<1>5. CASE Live(r, n)
  <2>1. k = [l EXCEPT !.at = 1, !.pc = "emitStageStarted"]
    BY <1>1, <1>5, StepNames DEF Begin
  <2>2. /\ k.pc = "emitStageStarted" /\ k.at = 1 /\ k.draft = l.draft
        /\ k.round = l.round /\ k.ctx = l.ctx
    BY <1>1, <2>1 DEF Loop
  <2>3. \A i \in 1 .. QAAt : Past(k, i) => Past(l, i)
    BY <2>2 DEF Past
  <2>4. OutcomeOK(r, n, k)
    BY <1>1, <1>2, <2>2, <2>3 DEF OutcomeOK
  <2>5. k.pc \in Driving
    BY <2>2 DEF Driving, Steps
  <2> QED
    BY <1>1, <1>4, <2>2, <2>4, <2>5, DrivesOn
<1>6. CASE ~Live(r, n)
  <2>1. k = [l EXCEPT !.pc = "failInfra"]
    BY <1>1, <1>6, StepNames DEF Begin
  <2>2. k = [l EXCEPT !.att = l.att, !.pc = "failInfra"]
    BY <1>1, <2>1 DEF Loop
  <2> QED
    BY <1>2, <1>4, <2>2, GoesOn
<1> QED
  BY <1>5, <1>6

(* The artifact of the stage the loop is at. *)
LEMMA FineRecord ==
  ASSUME OutcomeInv, NEW r \in Run, NEW n \in Attempt, NEW k \in Loop, StepTo(r, n, k),
         Record(r, n)
  PROVE  FineAt(r, n, k)
<1> DEFINE l == loop[r][n]
<1>1. /\ LoopInv /\ TypeOK /\ LoopRows /\ l \in Loop /\ OutcomeOK(r, n, l) /\ RunnerOK(r, n, l)
  BY AtOutcome
<1>2. l.pc = "record" /\ l.pc \in Driving /\ l.att = n /\ l.at # 0
  BY <1>1 DEF Record, At, Driving, Steps, RunnerOK
<1>3. UNCHANGED <<run, version>>
  BY DEF Record, RecordStageArtifact, storeVars
<1>4. k = [l EXCEPT !.pc = "emitArtifact"]
  BY <1>1, StepNames DEF Record
<1>5. /\ k.pc = "emitArtifact" /\ k.at = l.at /\ k.draft = l.draft
      /\ k.round = l.round /\ k.ctx = l.ctx
  BY <1>1, <1>4 DEF Loop
<1>6. artifact[r][n] \subseteq artifact'[r][n]
  BY <1>1, ArtifactsStay DEF StepTo
<1>7. ASSUME k.ctx = "live", NEW i \in 1 .. QAAt, Past(k, i)
      PROVE  StageOrder[i] \in artifact'[r][n]
  <2>1. CASE i = l.at
    <3>1. StageAt(l.at) = StageOrder[i]
      BY <1>2, <2>1 DEF StageAt
    <3>2. RecordStageArtifact(r, n, StageAt(l.at))
      BY <1>2, <1>5, <1>7 DEF Record, Live
    <3> QED
      BY <1>1, <3>1, <3>2 DEF RecordStageArtifact, TypeOK, WorkflowTypeOK
  <2>2. CASE i # l.at
    <3>1. Past(l, i)
      BY <1>5, <1>7, <2>2 DEF Past
    <3> QED
      BY <1>1, <1>5, <1>6, <1>7, <3>1 DEF OutcomeOK
  <2> QED
    BY <2>1, <2>2
<1>8. k.pc \in Driving
  BY <1>5 DEF Driving, Steps
<1>9. OutcomeOK(r, n, k)'
  BY <1>1, <1>2, <1>3, <1>5, <1>7 DEF OutcomeOK
<1> QED
  BY <1>8, <1>9 DEF FineAt, Led

(* To the next stage once this one has its artifact, or to the promotion. *)
LEMMA FineEmitArtifact ==
  ASSUME OutcomeInv, NEW r \in Run, NEW n \in Attempt, NEW k \in Loop, StepTo(r, n, k),
         EmitArtifact(r, n)
  PROVE  FineAt(r, n, k)
<1> DEFINE l == loop[r][n]
<1>1. /\ LoopInv /\ TypeOK /\ LoopRows /\ l \in Loop /\ OutcomeOK(r, n, l)
  BY AtOutcome
<1>2. l.pc = "emitArtifact" /\ l.pc \in Driving /\ l.at \in Nat
  BY <1>1, Stages DEF EmitArtifact, At, Driving, Steps, Loop
<1>3. UNCHANGED version
  BY DEF EmitArtifact, Emit, AppendEvent, storeVars
<1>4. VersionsKept
  BY <1>1, <1>3, VersionsKeptTx
<1>5. CASE l.at = QAAt
  <2>1. k = [l EXCEPT !.pc = "promote"]
    BY <1>1, <1>5, StepNames DEF EmitArtifact
  <2>2. /\ k.pc = "promote" /\ k.at = l.at /\ k.draft = l.draft
        /\ k.round = l.round /\ k.ctx = l.ctx
    BY <1>1, <2>1 DEF Loop
  <2>3. \A i \in 1 .. QAAt : Past(k, i) => Past(l, i)
    BY <1>2, <2>2 DEF Past
  <2>4. OutcomeOK(r, n, k)
    BY <1>1, <1>2, <1>5, <2>2, <2>3 DEF OutcomeOK
  <2>5. k.pc \in Driving
    BY <2>2 DEF Driving, Steps
  <2> QED
    BY <1>1, <1>4, <2>2, <2>4, <2>5, DrivesOn
<1>6. CASE l.at # QAAt
  <2>1. k = [l EXCEPT !.at = l.at + 1, !.pc = "emitStageStarted"]
    BY <1>1, <1>6, StepNames DEF EmitArtifact
  <2>2. /\ k.pc = "emitStageStarted" /\ k.at = l.at + 1 /\ k.draft = l.draft
        /\ k.round = l.round /\ k.ctx = l.ctx
    BY <1>1, <2>1 DEF Loop
  <2>3. ASSUME NEW i \in 1 .. QAAt, Past(k, i) PROVE Past(l, i)
    <3>1. i < l.at + 1 => i < l.at \/ i = l.at
      BY <1>2, Stages
    <3> QED
      BY <1>2, <2>2, <2>3, <3>1 DEF Past
  <2>4. OutcomeOK(r, n, k)
    BY <1>1, <1>2, <2>2, <2>3 DEF OutcomeOK
  <2>5. k.pc \in Driving
    BY <2>2 DEF Driving, Steps
  <2> QED
    BY <1>1, <1>4, <2>2, <2>4, <2>5, DrivesOn
<1> QED
  BY <1>5, <1>6

(* What the loop keeps when its draft v becomes the current one. *)
LEMMA DraftedOutcome ==
  ASSUME NEW r \in Run, NEW n \in Attempt, NEW l \in Loop, NEW v \in Version,
         NEW k, k = Drafted(l, v),
         l.pc \in {"createDraft", "dropDraft"}, l.at = EngineerAt,
         OutcomeOK(r, n, l), version'[v].status = "draft",
         artifact[r][n] \subseteq artifact'[r][n]
  PROVE  FineAt(r, n, k)
<1>1. /\ k.pc \in {"record", "gate"} /\ k.draft = v /\ k.round = l.round /\ k.ctx = l.ctx
      /\ k.pc = "record" => k.at = EngineerAt
      /\ k.pc = "gate" => l.round # 0 /\ k.at = QAAt
  BY DEF Drafted, Loop
<1>2. k.pc \in Driving /\ l.round \in Nat /\ k.at \in Nat
  BY <1>1, Stages, LoopAssumption DEF Driving, Steps, Loop
<1>3. ASSUME NEW i \in 1 .. QAAt, Past(k, i) PROVE Past(l, i)
  <2>1. CASE k.pc = "record"
    BY <1>1, <1>3, <2>1 DEF Past
  <2>2. CASE k.pc = "gate"
    <3>1. i < QAAt => i <= EngineerAt
      BY Stages
    <3> QED
      BY <1>1, <1>2, <1>3, <2>2, <3>1 DEF Past
  <2> QED
    BY <1>1, <2>1, <2>2
<1>4. OutcomeOK(r, n, k)'
  BY <1>1, <1>3 DEF OutcomeOK
<1> QED
  BY <1>2, <1>4 DEF FineAt, Led

(* A new draft is a draft, and is not the one it will replace. *)
LEMMA FineWriteDraft ==
  ASSUME OutcomeInv, NEW r \in Run, NEW n \in Attempt, NEW k \in Loop, StepTo(r, n, k),
         WriteDraft(r, n)
  PROVE  FineAt(r, n, k)
<1> DEFINE l == loop[r][n]
<1>1. /\ LoopInv /\ TypeOK /\ LoopRows /\ l \in Loop /\ OutcomeOK(r, n, l) /\ RunnerOK(r, n, l)
  BY AtOutcome
<1>2. l.pc = "createDraft" /\ l.pc \in Driving /\ l.at = EngineerAt
  BY <1>1 DEF WriteDraft, At, Driving, Steps, RunnerOK
<1>3. artifact[r][n] \subseteq artifact'[r][n]
  BY <1>1, ArtifactsStay DEF StepTo
<1>4. CASE Live(r, n)
  <2>1. PICK v \in Version, ok \in BOOLEAN :
          /\ CreateDraftVersion(v, r, ok)
          /\ Become(r, n, IF l.draft = NoVersion THEN Drafted(l, v)
                          ELSE [l EXCEPT !.new = v, !.pc = "dropDraft"])
    BY <1>4 DEF WriteDraft
  <2>2. version[v].status = "none" /\ version'[v].status = "draft"
    BY <1>1, <2>1 DEF CreateDraftVersion, NextVersion, TypeOK
  <2>3. CASE l.draft = NoVersion
    <3>1. k = Drafted(l, v)
      BY <1>1, <2>1, <2>3, StepNames
    <3> QED
      BY <1>1, <1>2, <1>3, <2>2, <3>1, DraftedOutcome
  <2>4. CASE l.draft # NoVersion
    <3>1. k = [l EXCEPT !.new = v, !.pc = "dropDraft"]
      BY <1>1, <2>1, <2>4, StepNames
    <3>2. /\ k.pc = "dropDraft" /\ k.new = v /\ k.at = l.at /\ k.draft = l.draft
          /\ k.round = l.round /\ k.ctx = l.ctx
      BY <1>1, <3>1 DEF Loop
    <3>3. l.draft \in Version /\ version[l.draft].status = "draft"
      BY <1>1, <1>2, <2>4 DEF OutcomeOK, Loop
    <3>4. l.draft # v /\ version'[l.draft] = version[l.draft]
      BY <1>1, <2>1, <2>2, <3>3 DEF CreateDraftVersion, TypeOK
    <3>5. \A i \in 1 .. QAAt : Past(k, i) => Past(l, i)
      BY <3>2 DEF Past
    <3>6. OutcomeOK(r, n, k)'
      BY <1>1, <1>3, <2>2, <3>2, <3>3, <3>4, <3>5 DEF OutcomeOK
    <3>7. k.pc \in Driving
      BY <3>2 DEF Driving, Steps
    <3> QED
      BY <3>6, <3>7 DEF FineAt, Led
  <2> QED
    BY <2>3, <2>4
<1>5. CASE ~Live(r, n)
  <2>1. k = [l EXCEPT !.pc = "failInfra"]
    BY <1>1, <1>5, StepNames DEF WriteDraft
  <2>2. k = [l EXCEPT !.att = l.att, !.pc = "failInfra"]
    BY <1>1, <2>1 DEF Loop
  <2>3. UNCHANGED version
    BY <1>5 DEF WriteDraft, storeVars
  <2>4. VersionsKept
    BY <1>1, <2>3, VersionsKeptTx
  <2> QED
    BY <1>2, <2>2, <2>4, GoesOn
<1> QED
  BY <1>4, <1>5

(* The draft that takes over is not the one that was failed. *)
LEMMA FineReplaceDraft ==
  ASSUME OutcomeInv, NEW r \in Run, NEW n \in Attempt, NEW k \in Loop, StepTo(r, n, k),
         ReplaceDraft(r, n)
  PROVE  FineAt(r, n, k)
<1> DEFINE l == loop[r][n]
<1>1. /\ LoopInv /\ TypeOK /\ LoopRows /\ l \in Loop /\ OutcomeOK(r, n, l) /\ RunnerOK(r, n, l)
  BY AtOutcome
<1>2. /\ l.pc = "dropDraft" /\ l.at = EngineerAt /\ l.new \in Version /\ l.new # l.draft
      /\ version[l.new].status = "draft"
  BY <1>1 DEF ReplaceDraft, At, RunnerOK, OutcomeOK, Loop
<1>3. version'[l.new].status = "draft"
  BY <1>1, <1>2 DEF ReplaceDraft, DropDraft, storeVars, TypeOK
<1>4. artifact[r][n] \subseteq artifact'[r][n]
  BY <1>1, ArtifactsStay DEF StepTo
<1>5. k = Drafted(l, l.new)
  BY <1>1, StepNames DEF ReplaceDraft
<1> QED
  BY <1>1, <1>2, <1>3, <1>4, <1>5, DraftedOutcome

(* The gate: what failed is repaired or given up. *)
LEMMA FineGate ==
  ASSUME OutcomeInv, NEW r \in Run, NEW n \in Attempt, NEW k \in Loop, StepTo(r, n, k),
         Gate(r, n)
  PROVE  FineAt(r, n, k)
<1> DEFINE l == loop[r][n]
<1>1. /\ LoopInv /\ TypeOK /\ LoopRows /\ l \in Loop /\ OutcomeOK(r, n, l) /\ RunnerOK(r, n, l)
  BY AtOutcome
<1>2. l.pc = "gate" /\ l.pc \in Driving /\ l.at = QAAt /\ l.draft # NoVersion
  BY <1>1 DEF Gate, At, Driving, Steps, RunnerOK
<1>3. UNCHANGED version
  BY DEF Gate, OnlyLoop, storeVars
<1>4. VersionsKept
  BY <1>1, <1>3, VersionsKeptTx
<1>5. CASE version[l.draft].ok
  <2>1. k = [l EXCEPT !.pc = "record"]
    BY <1>1, <1>5, StepNames DEF Gate
  <2>2. k = [l EXCEPT !.att = l.att, !.pc = "record"]
    BY <1>1, <2>1 DEF Loop
  <2> QED
    BY <1>2, <1>4, <2>2, GoesOn
<1>6. CASE ~version[l.draft].ok /\ l.round >= MaxAutoFixRounds
  <2>1. k = [l EXCEPT !.pc = "failDraft"]
    BY <1>1, <1>6, StepNames DEF Gate
  <2>2. /\ k.pc = "failDraft" /\ k.at = l.at /\ k.draft = l.draft
        /\ k.round = l.round /\ k.ctx = l.ctx
    BY <1>1, <2>1 DEF Loop
  <2>3. \A i \in 1 .. QAAt : Past(k, i) => Past(l, i)
    BY <2>2 DEF Past
  <2>4. OutcomeOK(r, n, k)
    BY <1>1, <1>2, <1>6, <2>2, <2>3 DEF OutcomeOK
  <2>5. k.pc \in Driving
    BY <2>2 DEF Driving, Steps
  <2> QED
    BY <1>1, <1>2, <1>4, <2>2, <2>4, <2>5, DrivesOn
<1>7. CASE ~version[l.draft].ok /\ ~(l.round >= MaxAutoFixRounds)
  <2>1. k = [l EXCEPT !.round = l.round + 1, !.at = EngineerAt, !.pc = "turn"]
    BY <1>1, <1>7, StepNames DEF Gate
  <2>2. /\ k.pc = "turn" /\ k.at = EngineerAt /\ k.draft = l.draft /\ k.ctx = l.ctx
    BY <1>1, <2>1 DEF Loop
  <2>3. ASSUME NEW i \in 1 .. QAAt, Past(k, i) PROVE Past(l, i)
    <3>1. i <= EngineerAt
      BY <2>2, <2>3, Stages DEF Past
    <3>2. i < QAAt
      BY <3>1, Stages
    <3> QED
      BY <1>2, <3>2 DEF Past
  <2>4. OutcomeOK(r, n, k)
    BY <1>1, <1>2, <2>2, <2>3 DEF OutcomeOK
  <2>5. k.pc \in Driving
    BY <2>2 DEF Driving, Steps
  <2> QED
    BY <1>1, <1>4, <2>2, <2>4, <2>5, DrivesOn
<1> QED
  BY <1>5, <1>6, <1>7

(* A run that ends is no longer active. *)
LEMMA FinishEnds ==
  ASSUME TypeOK, NEW r \in Run, NEW n, NEW s \in {"succeeded", "failed"}, NEW v, Finish(r, n, s, v)
  PROVE  run'[r].status = s /\ \A m \in Attempt : ~Owns(r, m)'
<1>1. run'[r].status = s
  BY DEF Finish, TypeOK, RunRow
<1> QED
  BY <1>1 DEF Owns, Active, LiveStatus

(* The outcome of a loop that has nothing left but its last event. *)
LEMMA EndsFine ==
  ASSUME OutcomeInv, NEW r \in Run, NEW n \in Attempt, NEW k \in Loop, StepTo(r, n, k),
         NEW pc \in {"emitCompleted", "emitCompileFailed", "emitFailed"},
         k = [loop[r][n] EXCEPT !.pc = pc],
         pc = "emitCompleted" => run'[r].status = "succeeded",
         ~Owns(r, n)' \/ Abandoned(r, k)'
  PROVE  FineAt(r, n, k)
<1> DEFINE l == loop[r][n]
<1>1. /\ LoopInv /\ TypeOK /\ l \in Loop /\ OutcomeOK(r, n, l)
  BY AtOutcome
<1>2. artifact[r][n] \subseteq artifact'[r][n]
  BY <1>1, ArtifactsStay DEF StepTo
<1>3. k.pc = pc /\ k.at = l.at /\ k.round = l.round /\ k.ctx = l.ctx
  BY <1>1 DEF Loop
<1>4. \A i \in 1 .. QAAt : Past(k, i) => Past(l, i)
  BY <1>3 DEF Past
<1>5. k.pc \notin Driving
  BY <1>3 DEF Driving
<1>6. OutcomeOK(r, n, k)'
  BY <1>1, <1>2, <1>3, <1>4, <1>5 DEF OutcomeOK, Driving
<1> QED
  BY <1>6 DEF FineAt, Led

(* A promotion that is not refused has made the run succeed. *)
LEMMA FinePromote ==
  ASSUME OutcomeInv, NEW r \in Run, NEW n \in Attempt, NEW k \in Loop, StepTo(r, n, k),
         Promote(r, n)
  PROVE  FineAt(r, n, k)
<1> DEFINE l == loop[r][n]
<1>1. /\ LoopInv /\ TypeOK /\ LoopRows /\ l \in Loop /\ OutcomeOK(r, n, l) /\ RunnerOK(r, n, l)
  BY AtOutcome
<1>2. /\ l.pc = "promote" /\ l.pc \in Driving /\ l.draft # NoVersion
      /\ version[l.draft].status = "draft"
  BY <1>1 DEF Promote, At, Driving, Steps, RunnerOK, OutcomeOK
<1>3. CASE PromoteDraftVersion(l.draft, r, l.att) /\ Goto(r, n, "emitCompleted")
  <2>1. Finish(r, l.att, "succeeded", l.draft)
    BY <1>3 DEF PromoteDraftVersion
  <2>2. run'[r].status = "succeeded" /\ ~Owns(r, n)'
    BY <1>1, <2>1, FinishEnds
  <2>3. k = [l EXCEPT !.pc = "emitCompleted"]
    BY <1>1, <1>3, StepNames
  <2> QED
    BY <2>2, <2>3, EndsFine
<1>4. CASE UNCHANGED storeVars /\ Goto(r, n, "failInfra")
  <2>1. k = [l EXCEPT !.pc = "failInfra"]
    BY <1>1, <1>4, StepNames
  <2>2. k = [l EXCEPT !.att = l.att, !.pc = "failInfra"]
    BY <1>1, <2>1 DEF Loop
  <2>3. VersionsKept
    BY <1>1, <1>4, VersionsKeptTx DEF storeVars
  <2> QED
    BY <1>2, <2>2, <2>3, GoesOn
<1> QED
  BY <1>2, <1>3, <1>4 DEF Promote

(* The run fails with its last draft, unless the watchdog was there first. *)
LEMMA FineFailLastDraft ==
  ASSUME OutcomeInv, NEW r \in Run, NEW n \in Attempt, NEW k \in Loop, StepTo(r, n, k),
         FailLastDraft(r, n)
  PROVE  FineAt(r, n, k)
<1> DEFINE l == loop[r][n]
<1>1. /\ LoopInv /\ TypeOK /\ LoopRows /\ l \in Loop /\ OutcomeOK(r, n, l) /\ RunnerOK(r, n, l)
  BY AtOutcome
<1>2. /\ l.pc = "failDraft" /\ l.pc \in Driving /\ l.draft # NoVersion
      /\ version[l.draft].status = "draft" /\ ~version[l.draft].ok
      /\ l.draft \in Version /\ version[l.draft].run = r
  BY <1>1 DEF FailLastDraft, At, Driving, Steps, RunnerOK, OutcomeOK, DraftOf, Loop
<1>3. k = [l EXCEPT !.pc = "emitCompileFailed"]
  BY <1>1, StepNames DEF FailLastDraft
<1>4. CASE Live(r, n)
  <2>1. Finish(r, l.att, "failed", l.draft)
    BY <1>2, <1>4 DEF FailLastDraft, FailDraft, FailDraftVersion
  <2>2. ~Owns(r, n)'
    BY <1>1, <2>1, FinishEnds
  <2> QED
    BY <1>3, <2>2, EndsFine
<1>5. CASE ~Live(r, n)
  <2>1. version' = version
    BY <1>5 DEF FailLastDraft, storeVars
  <2>2. k.pc = "emitCompileFailed" /\ k.ctx = "cancelled"
    BY <1>1, <1>3, <1>5 DEF Live, Loop
  <2>3. Abandoned(r, k)'
    BY <1>2, <2>1, <2>2 DEF Abandoned
  <2> QED
    BY <1>3, <2>3, EndsFine
<1> QED
  BY <1>4, <1>5

(* The failure path ends the run whatever it has come to. *)
LEMMA FineFailInfra ==
  ASSUME OutcomeInv, NEW r \in Run, NEW n \in Attempt, NEW k \in Loop, StepTo(r, n, k),
         FailInfra(r, n)
  PROVE  FineAt(r, n, k)
<1> DEFINE l == loop[r][n]
<1>1. /\ LoopInv /\ TypeOK /\ LoopRows /\ l \in Loop /\ OutcomeOK(r, n, l)
  BY AtOutcome
<1>2. l.pc = "failInfra" /\ l.pc \in Driving
  BY DEF FailInfra, At, Driving, Steps
<1>3. k = [l EXCEPT !.pc = "emitFailed"]
  BY <1>1, StepNames DEF FailInfra
<1>4. ~Owns(r, n)'
  <2>1. CASE l.draft # NoVersion
    <3>1. version[l.draft].status = "draft"
      BY <1>1, <1>2, <2>1 DEF OutcomeOK
    <3>2. Finish(r, l.att, "failed", l.draft)
      BY <2>1, <3>1 DEF FailInfra, FailDraft, FailDraftVersion
    <3> QED
      BY <1>1, <3>2, FinishEnds
  <2>2. CASE l.draft = NoVersion
    <3>1. FailRun(r)
      BY <2>2 DEF FailInfra
    <3>2. run'[r].status = "failed"
      BY <1>1, <3>1 DEF FailRun, TypeOK, RunRow
    <3> QED
      BY <3>2 DEF Owns, Active, LiveStatus
  <2> QED
    BY <2>1, <2>2
<1> QED
  BY <1>3, <1>4, EndsFine

(* An event writes no row of a run or a version. *)
LEMMA FineReturn ==
  ASSUME OutcomeInv, NEW r \in Run, NEW n \in Attempt, NEW k \in Loop, StepTo(r, n, k),
         EmitCompleted(r, n) \/ EmitCompileFailed(r, n) \/ EmitFailed(r, n)
  PROVE  FineAt(r, n, k)
<1> DEFINE l == loop[r][n]
<1>1. /\ LoopInv /\ TypeOK /\ LoopRows /\ l \in Loop /\ OutcomeOK(r, n, l) /\ Led(r, n, l)
  BY AtOutcome
<1>2. Return(r, n)
  BY DEF EmitCompleted, EmitCompileFailed, EmitFailed
<1>3. /\ k.pc = "done" /\ k.at = 0 /\ k.round = 0 /\ k.draft = NoVersion /\ k.ctx = l.ctx
  <2>1. loop'[r][n] = k /\ loop'[r][n] = [NotLaunched EXCEPT !.pc = "done", !.ctx = l.ctx]
    BY <1>1, <1>2 DEF StepTo, LoopRows, Return
  <2> QED
    BY <2>1 DEF NotLaunched
<1>4. UNCHANGED <<run, version>>
  BY DEF EmitCompleted, EmitCompileFailed, EmitFailed, Emit, AppendEvent, storeVars
<1>5. ASSUME NEW i \in 1 .. QAAt PROVE ~Past(k, i)
  BY <1>3, Stages DEF Past
<1>6. OutcomeOK(r, n, k)'
  BY <1>3, <1>5 DEF OutcomeOK, Driving, Steps
<1>7. Led(r, n, k)'
  <2> SUFFICES ASSUME up', Owns(r, n)' PROVE Abandoned(r, k)'
    BY DEF Led
  <2>1. up /\ Owns(r, n)
    BY <1>4 DEF StepTo, Owns, Active
  <2>2. l.pc \in {"emitCompleted", "emitCompileFailed", "emitFailed"}
    BY DEF EmitCompleted, EmitCompileFailed, EmitFailed, At
  <2>3. Abandoned(r, l)
    BY <1>1, <2>1, <2>2 DEF Led, Driving
  <2> QED
    BY <1>3, <1>4, <2>3 DEF Abandoned
<1> QED
  BY <1>6, <1>7 DEF FineAt

(* A cancelled context takes nothing back. *)
LEMMA FineWatchdog ==
  ASSUME OutcomeInv, NEW r \in Run, NEW n \in Attempt, NEW k \in Loop, StepTo(r, n, k),
         WatchdogRead(r, n) \/ WatchdogCancel(r, n)
  PROVE  FineAt(r, n, k)
<1> DEFINE l == loop[r][n]
<1>1. /\ LoopInv /\ TypeOK /\ LoopRows /\ l \in Loop /\ OutcomeOK(r, n, l) /\ Led(r, n, l)
      /\ RunnerOK(r, n, l)
  BY AtOutcome
<1>2. UNCHANGED storeVars
  BY DEF WatchdogRead, WatchdogCancel, OnlyLoop
<1>3. /\ k.pc = l.pc /\ k.at = l.at /\ k.round = l.round /\ k.draft = l.draft /\ k.new = l.new
      /\ k.ctx \in {l.ctx, "cancelled"}
  <2>1. loop'[r][n] = k
    BY <1>1 DEF StepTo, LoopRows
  <2>2. k \in {[l EXCEPT !.armed = TRUE], [l EXCEPT !.ctx = "cancelled"]}
    BY <1>1, <2>1 DEF WatchdogRead, WatchdogCancel, LoopRows
  <2> QED
    BY <1>1, <2>2 DEF Loop
<1>4. \A i \in 1 .. QAAt : Past(k, i) => Past(l, i)
  BY <1>3 DEF Past
<1>5. OutcomeOK(r, n, k)
  BY <1>1, <1>3, <1>4 DEF OutcomeOK
<1>6. VersionsKept
  BY <1>1, <1>2, VersionsKeptTx DEF storeVars
<1>7. OutcomeOK(r, n, k)'
  BY <1>1, <1>3, <1>5, <1>6, OutcomeStays DEF RunnerOK, StepTo
<1>8. Led(r, n, k)'
  <2> SUFFICES ASSUME up', Owns(r, n)', k.pc \notin Driving PROVE Abandoned(r, k)'
    BY DEF Led
  <2>1. up /\ Owns(r, n)
    BY <1>2 DEF StepTo, Owns, Active, storeVars
  <2>2. Abandoned(r, l)
    BY <1>1, <1>3, <2>1 DEF Led
  <2> QED
    BY <1>2, <1>3, <2>2 DEF Abandoned, storeVars
<1> QED
  BY <1>7, <1>8 DEF FineAt

(* Every step of a loop keeps the loop's part. *)
LEMMA LoopStepFine ==
  ASSUME OutcomeInv, NEW r \in Run, NEW n \in Attempt, LoopStep(r, n),
         NEW k \in Loop, StepTo(r, n, k)
  PROVE  FineAt(r, n, k)
BY FineGoto, FineBegin, FineRecord, FineEmitArtifact, FineWriteDraft, FineReplaceDraft,
   FineGate, FinePromote, FineReturn, FineFailLastDraft, FineFailInfra, FineWatchdog
   DEF LoopStep, Proceed

-----------------------------------------------------------------------------
(* A loop's write makes no run active, and hands no active run over. *)
LEMMA ActivityNotGained ==
  ASSUME LoopInv, NEW r \in Run, NEW n \in Attempt, LoopTx(r, n) \/ UNCHANGED storeVars,
         NEW q \in Run, Active(q)'
  PROVE  Active(q) /\ run'[q].active = run[q].active
<1>1. TypeOK
  BY DEF LoopInv, StoreInv
<1>2. ASSUME NEW s \in {"succeeded", "failed"}, run'[r].status = s, Owns(r, n),
             \A p \in Run : p # r => run'[p] = run[p]
      PROVE  Active(q) /\ run'[q].active = run[q].active
  BY <1>2 DEF Active, LiveStatus
<1>3. ASSUME Owns(r, n), NEW v \in Version,
             FailDraftVersion(v, r, n) \/ PromoteDraftVersion(v, r, n)
      PROVE  Active(q) /\ run'[q].active = run[q].active
  <2>1. PICK s \in {"succeeded", "failed"} : Finish(r, n, s, v)
    BY <1>3 DEF FailDraftVersion, PromoteDraftVersion
  <2>2. run'[r].status = s /\ \A p \in Run : p # r => run'[p] = run[p]
    BY <1>1, <2>1 DEF Finish, TypeOK, RunRow
  <2> QED
    BY <1>2, <1>3, <2>2
<1>4. ASSUME Owns(r, n), FailRun(r)
      PROVE  Active(q) /\ run'[q].active = run[q].active
  <2>1. run'[r].status = "failed" /\ \A p \in Run : p # r => run'[p] = run[p]
    BY <1>1, <1>4 DEF FailRun, TypeOK, RunRow
  <2> QED
    BY <1>2, <1>4, <2>1
<1>5. ASSUME Owns(r, n), BeginAttempt(r, n)
      PROVE  Active(q) /\ run'[q].active = run[q].active
  BY <1>1, <1>5 DEF BeginAttempt, Owns, Active, TypeOK, RunRow
<1>6. ASSUME NEW v \in Version, DraftOf(v, r), DropDraft(v)
      PROVE  Active(q) /\ run'[q].active = run[q].active
  BY <1>1, <1>6 DEF DropDraft, DraftOf, Active, TypeOK, RunRow
<1>7. CASE OwnerTx(r, n)
  BY <1>3, <1>4, <1>5, <1>6, <1>7 DEF OwnerTx
<1>8. CASE ~OwnerTx(r, n)
  BY <1>8 DEF LoopTx, AppendEvent, RecordStageArtifact, CreateDraftVersion, storeVars, Active
<1> QED
  BY <1>7, <1>8

(* The part of a loop that another loop's step leaves where it is. *)
LEMMA OthersStayFine ==
  ASSUME OutcomeInv, NEW r \in Run, NEW n \in Attempt, LoopTx(r, n) \/ UNCHANGED storeVars,
         UNCHANGED up,
         NEW q \in Run, NEW m \in Attempt, ~(q = r /\ m = n), NEW k \in Loop, k = loop[q][m]
  PROVE  FineAt(q, m, k)
<1>1. /\ LoopInv /\ TypeOK /\ RunnerOK(q, m, k) /\ OutcomeOK(q, m, k) /\ Led(q, m, k)
      /\ k.pc \in Driving => Owns(q, m)
  BY AtOutcome
<1>2. ASSUME Owns(q, m) PROVE VersionsKept
  <2>1. ~OwnerTx(r, n)
    BY <1>1, <1>2 DEF OwnerTx, Owns, LoopInv, StoreInv, OneActiveRun
  <2> QED
    BY <1>1, <2>1, VersionsKeptTx DEF storeVars
<1>3. OutcomeOK(q, m, k)'
  BY <1>1, <1>2, OutcomeStays DEF AnyTx, RunnerOK
<1>4. Led(q, m, k)'
  <2> SUFFICES ASSUME up', Owns(q, m)', k.pc \notin Driving PROVE Abandoned(q, k)'
    BY DEF Led
  <2>1. up /\ Owns(q, m) /\ Abandoned(q, k)
    BY <1>1, ActivityNotGained DEF Led, Owns
  <2>2. VersionsKept
    BY <1>2, <2>1
  <2> QED
    BY <2>1, <2>2 DEF Abandoned, VersionsKept
<1> QED
  BY <1>3, <1>4 DEF FineAt

-----------------------------------------------------------------------------
(* Attempt n of run r is inserted, after the ones before it; r has not succeeded. *)
Makes(r, n) ==
  /\ attempt[r][n] = "none" /\ attempt'[r][n] # "none"
  /\ run[r].status # "succeeded"
  /\ \A m \in Attempt : m < n => attempt[r][m] # "none"
  /\ \A q \in Run, m \in Attempt : ~(q = r /\ m = n) => attempt'[q][m] = attempt[q][m]
MakesNone ==
  \A q \in Run, m \in Attempt : attempt[q][m] = "none" => attempt'[q][m] = "none"

(* A loop's write makes no attempt. *)
LEMMA LoopMakesNone ==
  ASSUME LoopInv, NEW r \in Run, NEW n \in Attempt, LoopTx(r, n) \/ UNCHANGED storeVars
  PROVE  MakesNone
<1>1. TypeOK /\ LiveAttemptIsActive
  BY DEF LoopInv, StoreInv
<1>2. CASE OwnerTx(r, n)
  <2>1. attempt[r][n] # "none"
    BY <1>1, <1>2 DEF OwnerTx, LiveAttemptIsActive, LiveStatus
  <2>2. ASSUME NEW q \in Run, NEW m \in Attempt, attempt[q][m] = "none"
        PROVE  attempt'[q][m] = "none"
    <3>1. ~(q = r /\ m = n) /\ attempt[q][m] \notin LiveStatus
      BY <2>1, <2>2 DEF LiveStatus
    <3> QED
      BY <1>1, <1>2, <2>2, <3>1, OwnerRows
  <2> QED
    BY <2>2 DEF MakesNone
<1>3. CASE ~OwnerTx(r, n)
  BY <1>3 DEF MakesNone, LoopTx, AppendEvent, RecordStageArtifact, CreateDraftVersion, storeVars
<1> QED
  BY <1>2, <1>3

(* A handler makes one attempt at most. *)
LEMMA RequestMakes ==
  ASSUME LoopInv, RequestTx
  PROVE  MakesNone \/ \E r \in Run, n \in Attempt : Makes(r, n)
<1>1. TypeOK /\ AttemptsHaveRun
  BY DEF LoopInv, StoreInv
<1>2. ASSUME NEW r \in Run, NEW canStart \in BOOLEAN, CreateRun(r, canStart) PROVE Makes(r, 1)
  <2> DEFINE s == IF canStart THEN "queued" ELSE "failed"
  <2>1. attempt' = [attempt EXCEPT ![r][1] = s] /\ s # "none"
    BY <1>2 DEF CreateRun
  <2>2. run[r].status = "none" /\ attempt[r][1] = "none"
    BY <1>1, <1>2, AttemptOne DEF CreateRun, NextRun, RunExists, AttemptsHaveRun
  <2>3. \A m \in Attempt : ~(m < 1)
    BY DEF Attempt
  <2> HIDE DEF s
  <2>4. /\ attempt'[r][1] = s
        /\ \A q \in Run, m \in Attempt : ~(q = r /\ m = 1) => attempt'[q][m] = attempt[q][m]
    BY <1>1, <2>1, AttemptOne DEF TypeOK
  <2> QED
    BY <2>1, <2>2, <2>3, <2>4 DEF Makes
<1>3. ASSUME NEW r \in Run, NEW n \in Attempt, RetryRun(r, n) PROVE Makes(r, n)
  BY <1>1, <1>3 DEF RetryRun, StartAttempt, NextAttempt, Makes, TypeOK
<1>4. CASE MarkActiveRunsInterrupted
  BY <1>4 DEF MarkActiveRunsInterrupted, MakesNone, LiveStatus
<1>5. ASSUME UNCHANGED attempt PROVE MakesNone
  BY <1>5 DEF MakesNone
<1> QED
  BY <1>2, <1>3, <1>4, <1>5, AttemptOne DEF RequestTx, GetProject, RestoreVersion, WriteFile,
     RecordStageArtifact

(* Attempts come in order, and stay. *)
LEMMA AttemptStep ==
  ASSUME LoopInv, AnyTx
  PROVE  /\ MakesNone \/ \E r \in Run, n \in Attempt : Makes(r, n)
         /\ \A q \in Run, m \in Attempt : attempt[q][m] # "none" => attempt'[q][m] # "none"
<1>1. TypeOK
  BY DEF LoopInv, StoreInv
<1>2. ASSUME StoreTx
      PROVE  \A q \in Run, m \in Attempt : attempt[q][m] # "none" => attempt'[q][m] # "none"
  BY <1>1, <1>2, AttemptsStay
<1>3. ASSUME UNCHANGED storeVars
      PROVE  /\ MakesNone
             /\ \A q \in Run, m \in Attempt : attempt[q][m] # "none" => attempt'[q][m] # "none"
  BY <1>3 DEF MakesNone, storeVars
<1> QED
  BY <1>2, <1>3, LoopMakesNone, RequestMakes, LoopTxIsStoreTx, RequestTxIsStoreTx DEF AnyTx

(* No gap comes up among the attempts. *)
LEMMA AttemptsInOrderStep ==
  ASSUME LoopInv, AttemptsInOrder, AnyTx PROVE AttemptsInOrder'
<1> SUFFICES ASSUME NEW r \in Run, NEW m \in Attempt, NEW n \in Attempt, m < n,
                    attempt'[r][n] # "none"
             PROVE  attempt'[r][m] # "none"
  BY DEF AttemptsInOrder
<1>1. attempt[r][m] # "none"
  <2>1. CASE attempt[r][n] # "none"
    BY <2>1 DEF AttemptsInOrder
  <2>2. CASE attempt[r][n] = "none"
    <3>1. PICK q \in Run, k \in Attempt : Makes(q, k)
      BY <2>2, AttemptStep DEF MakesNone
    <3>2. q = r /\ k = n
      BY <2>2, <3>1 DEF Makes
    <3> QED
      BY <3>1, <3>2 DEF Makes
  <2> QED
    BY <2>1, <2>2
<1> QED
  BY <1>1, AttemptStep

(* The latest attempt of a run stays it until the run has another. *)
LEMMA LatestStays ==
  ASSUME LoopInv, AnyTx, NEW r \in Run, NEW n \in Attempt, LatestAttempt(r, n),
         \A m \in Attempt : ~Makes(r, m)
  PROVE  LatestAttempt(r, n)'
<1>1. attempt'[r][n] # "none"
  BY AttemptStep DEF LatestAttempt
<1>2. ASSUME NEW m \in Attempt, m > n PROVE attempt'[r][m] = "none"
  <2>1. attempt[r][m] = "none"
    BY <1>2 DEF LatestAttempt
  <2>2. CASE MakesNone
    BY <2>1, <2>2 DEF MakesNone
  <2>3. CASE \E q \in Run, k \in Attempt : Makes(q, k)
    <3>1. PICK q \in Run, k \in Attempt : Makes(q, k)
      BY <2>3
    <3>2. q # r
      BY <3>1
    <3>3. attempt'[r][m] = attempt[r][m]
      BY <3>1, <3>2 DEF Makes
    <3> QED
      BY <2>1, <3>3
  <2> QED
    BY <2>2, <2>3, AttemptStep
<1> QED
  BY <1>1, <1>2 DEF LatestAttempt

(* The active attempt is the latest, for a loop's write ... *)
LEMMA ActiveIsLatestLoop ==
  ASSUME LoopInv, ActiveIsLatest, NEW r \in Run, NEW n \in Attempt,
         LoopTx(r, n) \/ UNCHANGED storeVars
  PROVE  ActiveIsLatest'
<1>1. AnyTx
  BY DEF AnyTx
<1>2. \A q \in Run, m \in Attempt : ~Makes(q, m)
  BY LoopMakesNone DEF MakesNone, Makes
<1>3. ASSUME NEW q \in Run, Active(q)' PROVE run'[q].active # NoAttempt
  BY <1>3, ActivityNotGained DEF ActiveIsLatest
<1>4. ASSUME NEW q \in Run, NEW m \in Attempt, Owns(q, m)' PROVE LatestAttempt(q, m)'
  <2>1. Owns(q, m)
    BY <1>4, ActivityNotGained DEF Owns
  <2> QED
    BY <1>1, <1>2, <2>1, LatestStays DEF ActiveIsLatest
<1> QED
  BY <1>3, <1>4 DEF ActiveIsLatest

(* ... and for a handler's, which starts the attempt it has made. *)
LEMMA ActiveIsLatestRequest ==
  ASSUME LoopInv, AttemptsInOrder, ActiveIsLatest, RequestTx PROVE ActiveIsLatest'
<1>1. TypeOK /\ AttemptsHaveRun
  BY DEF LoopInv, StoreInv
<1>2. ASSUME NEW r \in Run, NEW n \in Attempt, Makes(r, n), run'[r].active = n,
             \A q \in Run : q # r => ~Active(q)',
             \A m \in Attempt : m > n => attempt[r][m] = "none"
      PROVE  ActiveIsLatest'
  <2>1. LatestAttempt(r, n)'
    <3>1. ASSUME NEW m \in Attempt, m > n PROVE attempt'[r][m] = "none"
      <4>1. m # n
        BY <3>1 DEF Attempt
      <4>2. attempt'[r][m] = attempt[r][m]
        BY <1>2, <4>1 DEF Makes
      <4> QED
        BY <1>2, <3>1, <4>2
    <3> QED
      BY <1>2, <3>1 DEF Makes, LatestAttempt
  <2>2. n # NoAttempt
    BY DEF Attempt, NoAttempt
  <2> QED
    BY <1>2, <2>1, <2>2 DEF ActiveIsLatest, Owns
<1>3. ASSUME NEW r \in Run, NEW canStart \in BOOLEAN, CreateRun(r, canStart)
      PROVE  ActiveIsLatest'
  <2>1. \A m \in Attempt : attempt[r][m] = "none"
    BY <1>1, <1>3 DEF CreateRun, NextRun, AttemptsHaveRun
  <2>2. /\ attempt'[r][1] # "none"
        /\ \A q \in Run, m \in Attempt : ~(q = r /\ m = 1) => attempt'[q][m] = attempt[q][m]
    <3> DEFINE s == IF canStart THEN "queued" ELSE "failed"
    <3>1. attempt' = [attempt EXCEPT ![r][1] = s] /\ s # "none"
      BY <1>3 DEF CreateRun
    <3> HIDE DEF s
    <3> QED
      BY <1>1, <3>1, AttemptOne DEF TypeOK
  <2>3. run'[r].active = 1 /\ \A q \in Run : q # r => ~Active(q)'
    BY <1>1, <1>3 DEF CreateRun, NoActiveRun, Active, TypeOK
  <2>4. run[r].status # "succeeded"
    BY <1>3 DEF CreateRun, NextRun, RunExists
  <2>5. Makes(r, 1)
    <3>1. \A m \in Attempt : ~(m < 1)
      BY DEF Attempt
    <3> QED
      BY <2>1, <2>2, <2>4, <3>1, AttemptOne DEF Makes
  <2> QED
    BY <1>2, <2>1, <2>3, <2>5, AttemptOne
<1>4. ASSUME NEW r \in Run, NEW n \in Attempt, RetryRun(r, n) PROVE ActiveIsLatest'
  <2>1. Makes(r, n)
    BY <1>1, <1>4 DEF RetryRun, StartAttempt, NextAttempt, Makes, TypeOK
  <2>2. run'[r].active = n /\ \A q \in Run : q # r => ~Active(q)'
    BY <1>1, <1>4 DEF RetryRun, StartAttempt, OneActiveIndex, Active, TypeOK, RunRow
  <2>3. \A m \in Attempt : m > n => attempt[r][m] = "none"
    BY <2>1 DEF Makes, AttemptsInOrder
  <2> QED
    BY <1>2, <2>1, <2>2, <2>3
<1>5. ASSUME MarkActiveRunsInterrupted PROVE ActiveIsLatest'
  <2>1. \A q \in Run : ~Active(q)'
    BY <1>1, <1>5 DEF MarkActiveRunsInterrupted, Active, TypeOK, RunRow, LiveStatus
  <2> QED
    BY <2>1 DEF ActiveIsLatest, Owns
<1>6. ASSUME UNCHANGED <<run, attempt>> PROVE ActiveIsLatest'
  BY <1>6 DEF ActiveIsLatest, Owns, Active, LatestAttempt
<1> QED
  BY <1>3, <1>4, <1>5, <1>6 DEF RequestTx, GetProject, RestoreVersion, WriteFile,
     RecordStageArtifact

(* An attempt that ended keeps its row. *)
LEMMA EndedKept ==
  ASSUME LoopInv, AnyTx, NEW q \in Run, NEW m \in Attempt,
         attempt[q][m] \in RunStatus \ LiveStatus
  PROVE  attempt'[q][m] = attempt[q][m]
<1>1. TypeOK /\ AttemptsHaveRun /\ LiveAttemptIsActive
  BY DEF LoopInv, StoreInv
<1>2. ASSUME NEW r \in Run, NEW n \in Attempt, LoopTx(r, n) PROVE attempt'[q][m] = attempt[q][m]
  <2>1. CASE OwnerTx(r, n)
    <3>1. attempt[r][n] \in LiveStatus
      BY <1>1, <2>1 DEF OwnerTx, LiveAttemptIsActive
    <3> QED
      BY <1>1, <2>1, <3>1, OwnerRows
  <2>2. CASE ~OwnerTx(r, n)
    BY <1>2, <2>2 DEF LoopTx, AppendEvent, RecordStageArtifact, CreateDraftVersion
  <2> QED
    BY <2>1, <2>2
<1>4. ASSUME MarkActiveRunsInterrupted PROVE attempt'[q][m] = attempt[q][m]
  BY <1>4 DEF MarkActiveRunsInterrupted
<1>5. ASSUME NEW r \in Run, NEW canStart \in BOOLEAN, CreateRun(r, canStart)
      PROVE  attempt'[q][m] = attempt[q][m]
  <2>1. attempt[r][1] = "none"
    BY <1>1, <1>5, AttemptOne DEF CreateRun, NextRun, AttemptsHaveRun
  <2> QED
    BY <1>1, <1>5, <2>1 DEF CreateRun, RunStatus, TypeOK
<1>6. ASSUME NEW r \in Run, NEW n \in Attempt, RetryRun(r, n) PROVE attempt'[q][m] = attempt[q][m]
  BY <1>1, <1>6 DEF RetryRun, StartAttempt, NextAttempt, RunStatus, TypeOK
<1> QED
  BY <1>2, <1>4, <1>5, <1>6 DEF AnyTx, RequestTx, GetProject, RestoreVersion, WriteFile,
     RecordStageArtifact, storeVars

-----------------------------------------------------------------------------
(* Every stage has its place in the order. *)
LEMMA StagesListed ==
  /\ \A s \in Stage : \E i \in 1 .. QAAt : s = StageOrder[i]
<1>1. TextStages \in Seq(STRING) /\ Len(TextStages) \in Nat
  BY WorkflowAssumption
<1>2. ASSUME NEW i \in DOMAIN TextStages
      PROVE  i \in 1 .. QAAt /\ StageOrder[i] = TextStages[i]
  BY <1>1, Stages DEF StageOrder, QAAt
<1>3. EngineerAt \in 1 .. QAAt /\ StageOrder[EngineerAt] = "engineer"
  BY <1>1, Stages DEF StageOrder, EngineerAt
<1>4. QAAt \in 1 .. QAAt /\ StageOrder[QAAt] = "qa"
  BY <1>1, Stages DEF StageOrder, QAAt
<1> QED
  BY <1>2, <1>3, <1>4 DEF Stage

(* Only a promotion makes a run succeed. *)
LEMMA OnlyPromoteSucceeds ==
  ASSUME LoopInv, NEW r \in Run, NEW n \in Attempt, LoopStep(r, n), NEW q \in Run,
         run[q].status # "succeeded", run'[q].status = "succeeded"
  PROVE  /\ q = r /\ Promote(r, n) /\ Live(r, n)
         /\ PromoteDraftVersion(loop[r][n].draft, r, n)
         /\ loop[r][n].draft \in Version
<1> DEFINE l == loop[r][n]
<1>1. /\ TypeOK /\ l \in Loop /\ RunnerOK(r, n, l)
  BY AtStart
<1>2. ASSUME UNCHANGED run PROVE FALSE
  BY <1>2
<1>3. ASSUME FailRun(r) \/ BeginAttempt(r, l.att) \/ DropDraft(l.draft) PROVE FALSE
  <2>1. CASE FailRun(r)
    BY <1>1, <2>1 DEF FailRun, TypeOK, RunRow
  <2>2. CASE BeginAttempt(r, l.att)
    BY <1>1, <2>2 DEF BeginAttempt, TypeOK, RunRow
  <2>3. CASE DropDraft(l.draft)
    <3>1. PICK p : run' = [run EXCEPT ![p].result = l.draft]
      BY <2>3 DEF DropDraft
    <3>2. run'[q].status = run[q].status
      <4>1. CASE p = q
        BY <1>1, <3>1, <4>1 DEF TypeOK, RunRow
      <4>2. CASE p # q
        BY <1>1, <3>1, <4>2 DEF TypeOK
      <4> QED
        BY <4>1, <4>2
    <3> QED
      BY <3>2
  <2> QED
    BY <1>3, <2>1, <2>2, <2>3
<1>4. ASSUME FailDraft(r, l) PROVE FALSE
  <2>1. Finish(r, l.att, "failed", l.draft)
    BY <1>2, <1>4 DEF FailDraft, FailDraftVersion, storeVars
  <2> QED
    BY <1>1, <2>1 DEF Finish, TypeOK, RunRow
<1>5. CASE Promote(r, n)
  <2>1. Live(r, n) /\ PromoteDraftVersion(l.draft, r, l.att)
    BY <1>2, <1>5 DEF Promote, storeVars
  <2>2. l.att = n /\ l.draft \in Version
    BY <1>1, <1>5 DEF Promote, At, RunnerOK, Steps, Loop
  <2>3. q = r
    BY <1>1, <2>1 DEF PromoteDraftVersion, Finish, TypeOK
  <2> QED
    BY <1>5, <2>1, <2>2, <2>3
<1>6. CASE ~Promote(r, n)
  <2>1. ASSUME NEW type, NEW s, Emit(r, n, type, s) PROVE FALSE
    BY <1>2, <2>1 DEF Emit, AppendEvent, storeVars
  <2>2. ASSUME NEW type, NEW s, AppendEvent(r, type, s) PROVE FALSE
    BY <1>2, <2>2 DEF AppendEvent
  <2>3. ASSUME UNCHANGED storeVars PROVE FALSE
    BY <1>2, <2>3 DEF storeVars
  <2>4. CASE \/ EmitRunStarted(r, n) \/ EmitStageStarted(r, n) \/ EmitArtifact(r, n)
             \/ EmitCompleted(r, n) \/ EmitCompileFailed(r, n) \/ EmitFailed(r, n)
    BY <2>1, <2>2, <2>4 DEF EmitRunStarted, EmitStageStarted, EmitArtifact, EmitCompleted,
       EmitCompileFailed, EmitFailed
  <2>5. CASE \/ Load(r, n) \/ Gate(r, n) \/ TurnOk(r, n) \/ TurnErr(r, n)
             \/ WatchdogRead(r, n) \/ WatchdogCancel(r, n)
    BY <2>3, <2>5 DEF Load, Gate, TurnOk, TurnErr, WatchdogRead, WatchdogCancel, OnlyLoop
  <2>6. CASE Begin(r, n) \/ ReplaceDraft(r, n)
    BY <1>3, <2>3, <2>6 DEF Begin, ReplaceDraft
  <2>7. CASE FailLastDraft(r, n) \/ FailInfra(r, n)
    BY <1>3, <1>4, <2>3, <2>7 DEF FailLastDraft, FailInfra
  <2>8. CASE Record(r, n) \/ WriteDraft(r, n)
    BY <1>2, <2>3, <2>8 DEF Record, WriteDraft, RecordStageArtifact, CreateDraftVersion
  <2> QED
    BY <1>6, <2>4, <2>5, <2>6, <2>7, <2>8 DEF LoopStep, Proceed
<1> QED
  BY <1>5, <1>6

(* Neither a handler, nor a start, nor a crash makes a run succeed. *)
LEMMA RequestsDoNotSucceed ==
  ASSUME LoopInv, RequestTx \/ UNCHANGED storeVars, NEW q \in Run,
         run[q].status # "succeeded"
  PROVE  run'[q].status # "succeeded"
<1>1. TypeOK
  BY DEF LoopInv, StoreInv
<1>2. ASSUME NEW r \in Run, NEW canStart \in BOOLEAN, CreateRun(r, canStart)
      PROVE  run'[q].status # "succeeded"
  BY <1>1, <1>2 DEF CreateRun, TypeOK
<1>3. ASSUME NEW r \in Run, NEW n \in Attempt, RetryRun(r, n) PROVE run'[q].status # "succeeded"
  BY <1>1, <1>3 DEF RetryRun, StartAttempt, TypeOK, RunRow
<1>4. ASSUME MarkActiveRunsInterrupted PROVE run'[q].status # "succeeded"
  BY <1>1, <1>4 DEF MarkActiveRunsInterrupted, TypeOK, RunRow
<1> QED
  BY <1>2, <1>3, <1>4 DEF RequestTx, GetProject, RestoreVersion, WriteFile,
     RecordStageArtifact, storeVars

(* A promotion finds the evidence complete: the loop is past every stage. *)
LEMMA PromotedHasEvidence ==
  ASSUME OutcomeInv, NEW r \in Run, NEW n \in Attempt, Promote(r, n), Live(r, n)
  PROVE  artifact[r][n] = Stage
<1> DEFINE l == loop[r][n]
<1>1. TypeOK /\ OutcomeOK(r, n, l)
  BY AtOutcome
<1>2. l.pc = "promote" /\ l.at = QAAt /\ l.ctx = "live"
  BY <1>1 DEF Promote, At, OutcomeOK, Live
<1>3. \A i \in 1 .. QAAt : Past(l, i)
  BY <1>2, Stages DEF Past
<1>4. \A i \in 1 .. QAAt : StageOrder[i] \in artifact[r][n]
  BY <1>1, <1>2, <1>3 DEF OutcomeOK
<1>5. Stage \subseteq artifact[r][n]
  BY <1>4, StagesListed
<1>6. artifact[r][n] \subseteq Stage
  BY <1>1 DEF TypeOK, WorkflowTypeOK
<1> QED
  BY <1>5, <1>6

(* SucceededHasEvidence, run by run. *)
HasEvidence(r) ==
  /\ run[r].result # NoVersion
  /\ LET v == version[run[r].result] IN v.run = r /\ v.status = "stable" /\ v.ok
  /\ \E n \in Attempt : /\ LatestAttempt(r, n)
                        /\ attempt[r][n] = "succeeded"
                        /\ artifact[r][n] = Stage

(* Evidence that is complete stays. *)
LEMMA EvidenceStays ==
  ASSUME LoopInv, AnyTx, NEW r \in Run, run[r].status = "succeeded", HasEvidence(r), TypeOK'
  PROVE  HasEvidence(r)'
<1>1. TypeOK
  BY DEF LoopInv, StoreInv
<1>2. run'[r] = run[r]
  BY SucceededKept
<1>3. run[r].result \in Version
  BY <1>1 DEF HasEvidence, TypeOK, RunRow
<1>4. version'[run[r].result] = version[run[r].result]
  <2>1. CASE StoreTx
    BY <1>1, <1>3, <2>1, VersionStepTx, VersionsStay DEF HasEvidence
  <2>2. CASE UNCHANGED storeVars
    BY <2>2 DEF storeVars
  <2> QED
    BY <2>1, <2>2, LoopTxIsStoreTx, RequestTxIsStoreTx DEF AnyTx
<1>5. PICK n \in Attempt : /\ LatestAttempt(r, n) /\ attempt[r][n] = "succeeded"
                           /\ artifact[r][n] = Stage
  BY DEF HasEvidence
<1>6. LatestAttempt(r, n)'
  <2>1. \A m \in Attempt : ~Makes(r, m)
    BY DEF Makes
  <2> QED
    BY <1>5, <2>1, LatestStays
<1>7. attempt'[r][n] = "succeeded"
  BY <1>5, EndedKept DEF RunStatus, LiveStatus
<1>8. artifact'[r][n] = Stage
  <2>1. artifact[r][n] \subseteq artifact'[r][n]
    BY <1>1, ArtifactsStay
  <2>2. artifact'[r][n] \subseteq Stage
    BY DEF TypeOK, WorkflowTypeOK
  <2> QED
    BY <1>5, <2>1, <2>2
<1> QED
  BY <1>2, <1>4, <1>6, <1>7, <1>8, <1>5 DEF HasEvidence

(* A run that succeeds has its evidence. *)
LEMMA EvidenceStep ==
  ASSUME OutcomeInv, AnyStep PROVE SucceededHasEvidence'
<1>1. LoopInv /\ TypeOK /\ LoopInv' /\ TypeOK' /\ AnyTx
  BY LoopInvNext, NextTx DEF OutcomeInv, LoopInv, StoreInv, AnyTx
<1>2. ASSUME NEW q \in Run, run'[q].status = "succeeded" PROVE HasEvidence(q)'
  <2>1. CASE run[q].status = "succeeded"
    <3>1. HasEvidence(q)
      BY <2>1 DEF OutcomeInv, SucceededHasEvidence, HasEvidence
    <3> QED
      BY <1>1, <2>1, <3>1, EvidenceStays
  <2>2. CASE run[q].status # "succeeded"
    <3>1. PICK r \in Run, n \in Attempt : LoopStep(r, n)
      BY <1>1, <1>2, <2>2, RequestsDoNotSucceed, RequestEffect, CrashEffect, RestartEffect DEF AnyStep
    <3> DEFINE v == loop[r][n].draft
    <3>2. /\ q = r /\ Promote(r, n) /\ Live(r, n) /\ v \in Version
          /\ PromoteDraftVersion(v, r, n)
      BY <1>1, <1>2, <2>2, <3>1, OnlyPromoteSucceeds
    <3>3. /\ RunnerOK(r, n, loop[r][n]) /\ loop[r][n].pc = "promote" /\ Owns(r, n)
      BY <3>2, AtOutcome DEF Promote, At, Driving, Steps
    <3>4. v # NoVersion /\ version[v].run = r /\ version[v].ok
      BY <3>3 DEF RunnerOK, DraftOf
    <3>5. Finish(r, n, "succeeded", v) /\ version' = [version EXCEPT ![v].status = "stable"]
      BY <3>2 DEF PromoteDraftVersion
    <3>6. run'[r].result = v
      BY <1>1, <3>5 DEF Finish, TypeOK, RunRow
    <3>7. version'[v].run = r /\ version'[v].status = "stable" /\ version'[v].ok
      BY <1>1, <3>2, <3>4, <3>5 DEF TypeOK, VersionRow
    <3>8. attempt'[r][n] = "succeeded"
      <4>1. n # NoAttempt
        BY DEF Attempt, NoAttempt
      <4>2. attempt' = [attempt EXCEPT ![r][n] = "succeeded"]
        BY <3>5, <4>1 DEF Finish
      <4> QED
        BY <1>1, <4>2 DEF TypeOK
    <3>9. LatestAttempt(r, n)'
      <4>1. LatestAttempt(r, n)
        BY <3>3 DEF OutcomeInv, ActiveIsLatest
      <4>2. LoopTx(r, n) \/ UNCHANGED storeVars
        BY <1>1, <3>1, LoopStepEffect DEF LoopEffect
      <4>3. \A m \in Attempt : ~Makes(r, m)
        BY <1>1, <4>2, LoopMakesNone DEF MakesNone, Makes
      <4> QED
        BY <1>1, <4>1, <4>3, LatestStays
    <3>10. artifact'[r][n] = Stage
      BY <3>2, PromotedHasEvidence DEF PromoteDraftVersion
    <3> HIDE DEF v
    <3>11. HasEvidence(r)'
      BY <3>4, <3>6, <3>7, <3>8, <3>9, <3>10 DEF HasEvidence
    <3> QED
      BY <3>2, <3>11
  <2> QED
    BY <2>1, <2>2
<1> QED
  BY <1>2 DEF SucceededHasEvidence, HasEvidence

-----------------------------------------------------------------------------
(* What a step makes the snapshot say is no success that there is not. *)
ShowsTruly ==
  \/ wf'.run = wf.run /\ wf'.status = wf.status
  \/ wf'.status # "completed"
  \/ wf'.run \in Run /\ run'[wf'.run].status = "succeeded"

(* Attempt n of run r logs its end, and settles with it. *)
EndsAttempt(r, n) ==
  /\ \E type \in Terminal :
       /\ ended' = [ended EXCEPT ![r] = Append(@, type)]
       /\ type = "run_completed" => run'[r].status = "succeeded"
  /\ attempt'[r][n] # "none" /\ loop'[r][n].pc \notin Steps
  /\ n \notin Settled(r)

(* Showing a run with a status that it has, or with another. *)
LEMMA BumpShowsTruly ==
  ASSUME NEW r \in Run, NEW s, wf' = BumpForRun(r, s) \/ wf' = PointTo(r, s),
         s = "completed" => run'[r].status = "succeeded"
  PROVE  ShowsTruly
BY DEF ShowsTruly, BumpForRun, PointTo

(* The end that a loop logs is its attempt's first. *)
LEMMA EndIsLogged ==
  ASSUME OutcomeInv, NEW r \in Run, NEW n \in Attempt,
         EmitCompleted(r, n) \/ EmitCompileFailed(r, n) \/ EmitFailed(r, n)
  PROVE  ShowsTruly /\ (ended' = ended \/ EndsAttempt(r, n))
<1>1. /\ TypeOK /\ LoopRows /\ RunnerOK(r, n, loop[r][n]) /\ OutcomeOK(r, n, loop[r][n])
  BY AtOutcome
<1>2. loop[r][n].pc \in Steps /\ Return(r, n)
  BY DEF EmitCompleted, EmitCompileFailed, EmitFailed, At, Steps
<1>3. loop'[r][n].pc = "done"
  <2>1. loop'[r][n] = [NotLaunched EXCEPT !.pc = "done", !.ctx = loop[r][n].ctx]
    BY <1>1, <1>2 DEF Return, LoopRows
  <2> QED
    BY <2>1 DEF NotLaunched
<1>4. attempt[r][n] # "none" /\ n \notin Settled(r)
  BY <1>1, <1>2 DEF RunnerOK, Settled
<1>5. ASSUME NEW type \in Terminal, NEW s, AppendEvent(r, type, s),
             type = "run_completed" => run[r].status = "succeeded"
      PROVE  ShowsTruly /\ EndsAttempt(r, n)
  <2>1. run' = run /\ attempt' = attempt /\ ended' = [ended EXCEPT ![r] = Append(@, type)]
    BY <1>5 DEF AppendEvent
  <2>2. EndsAttempt(r, n)
    BY <1>3, <1>4, <1>5, <2>1 DEF EndsAttempt, Steps
  <2>3. wf' = BumpForRun(r, EventWorkflow[type])
    BY <1>5 DEF AppendEvent
  <2>4. EventWorkflow[type] = "completed" => type = "run_completed"
    BY DEF Terminal, EventWorkflow
  <2> QED
    BY <1>5, <2>1, <2>2, <2>3, <2>4, BumpShowsTruly
<1>6. ASSUME UNCHANGED storeVars PROVE ShowsTruly /\ ended' = ended
  BY <1>6 DEF storeVars, wfVars, ShowsTruly
<1>7. CASE EmitCompleted(r, n)
  <2>1. run[r].status = "succeeded" /\ "run_completed" \in Terminal
    BY <1>1, <1>7 DEF EmitCompleted, At, OutcomeOK, Terminal
  <2>2. AppendEvent(r, "run_completed", NoStage) \/ UNCHANGED storeVars
    BY <1>7 DEF EmitCompleted, Emit
  <2> QED
    BY <1>5, <1>6, <2>1, <2>2
<1>8. CASE EmitCompileFailed(r, n)
  <2>1. AppendEvent(r, "run_failed", "qa") \/ UNCHANGED storeVars
    BY <1>8 DEF EmitCompileFailed, Emit
  <2>2. "run_failed" \in Terminal
    BY DEF Terminal
  <2> QED
    BY <1>5, <1>6, <2>1, <2>2
<1>9. CASE EmitFailed(r, n)
  <2>1. AppendEvent(r, "run_failed", StageAt(loop[r][n].at))
    BY <1>9 DEF EmitFailed
  <2>2. "run_failed" \in Terminal
    BY DEF Terminal
  <2> QED
    BY <1>5, <2>1, <2>2
<1> QED
  BY <1>7, <1>8, <1>9

(* Of the other steps of a loop only a promotion shows a success. *)
LEMMA LoopWrites ==
  ASSUME OutcomeInv, NEW r \in Run, NEW n \in Attempt, LoopStep(r, n)
  PROVE  ShowsTruly /\ (ended' = ended \/ EndsAttempt(r, n))
<1> DEFINE l == loop[r][n]
<1>1. /\ TypeOK /\ l \in Loop /\ RunnerOK(r, n, l)
  BY AtOutcome
<1>2. ASSUME UNCHANGED storeVars PROVE ShowsTruly /\ ended' = ended
  BY <1>2 DEF storeVars, wfVars, ShowsTruly
<1>3. ASSUME UNCHANGED <<wf, ended>> PROVE ShowsTruly /\ ended' = ended
  BY <1>3 DEF ShowsTruly
<1>4. ASSUME NEW s \in {"running", "failed"}, wf' = BumpForRun(r, s) PROVE ShowsTruly
  BY <1>4, BumpShowsTruly
<1>5. ASSUME NEW type \in {"run_started", "stage_started", "stage_artifact"}, NEW s,
             Emit(r, n, type, s)
      PROVE  ShowsTruly /\ ended' = ended
  <2>1. EventWorkflow[type] = "running" /\ type \notin Terminal
    BY DEF EventWorkflow, Terminal
  <2> QED
    BY <1>2, <1>4, <1>5, <2>1 DEF Emit, AppendEvent
<1>6. ASSUME FailDraft(r, l) PROVE ShowsTruly /\ ended' = ended
  <2>1. CASE UNCHANGED storeVars
    BY <1>2, <2>1
  <2>2. CASE FailDraftVersion(l.draft, r, l.att)
    <3>1. Finish(r, l.att, "failed", l.draft) /\ ended' = ended
      BY <2>2 DEF FailDraftVersion
    <3>2. wf' = BumpForRun(r, "failed")
      BY <3>1 DEF Finish, RunWorkflowStatus, LiveStatus
    <3> QED
      BY <1>4, <3>1, <3>2
  <2> QED
    BY <1>6, <2>1, <2>2 DEF FailDraft
<1>7. CASE EmitRunStarted(r, n) \/ EmitStageStarted(r, n) \/ EmitArtifact(r, n)
  BY <1>5, <1>7 DEF EmitRunStarted, EmitStageStarted, EmitArtifact
<1>8. CASE \/ Load(r, n) \/ Gate(r, n) \/ TurnOk(r, n) \/ TurnErr(r, n)
           \/ WatchdogRead(r, n) \/ WatchdogCancel(r, n)
  BY <1>2, <1>8 DEF Load, Gate, TurnOk, TurnErr, WatchdogRead, WatchdogCancel, OnlyLoop
<1>9. CASE Begin(r, n)
  BY <1>2, <1>4, <1>9 DEF Begin, BeginAttempt
<1>10. CASE Record(r, n)
  BY <1>2, <1>4, <1>10 DEF Record, RecordStageArtifact
<1>11. CASE WriteDraft(r, n) \/ ReplaceDraft(r, n)
  <2>1. UNCHANGED <<wf, ended>>
    BY <1>11 DEF WriteDraft, ReplaceDraft, CreateDraftVersion, DropDraft, storeVars, wfVars
  <2> QED
    BY <1>3, <2>1
<1>12. CASE FailLastDraft(r, n)
  BY <1>2, <1>6, <1>12 DEF FailLastDraft
<1>13. CASE FailInfra(r, n)
  BY <1>4, <1>6, <1>13 DEF FailInfra, FailRun
<1>14. CASE Promote(r, n)
  <2>1. CASE UNCHANGED storeVars
    BY <1>2, <2>1
  <2>2. CASE PromoteDraftVersion(l.draft, r, l.att)
    <3>1. Finish(r, l.att, "succeeded", l.draft) /\ ended' = ended
      BY <2>2 DEF PromoteDraftVersion
    <3>2. wf' = BumpForRun(r, "completed") /\ run'[r].status = "succeeded"
      BY <1>1, <3>1, FinishEnds DEF Finish, RunWorkflowStatus, LiveStatus
    <3> QED
      BY <3>1, <3>2, BumpShowsTruly
  <2> QED
    BY <1>14, <2>1, <2>2 DEF Promote
<1> QED
  BY <1>7, <1>8, <1>9, <1>10, <1>11, <1>12, <1>13, <1>14, EndIsLogged DEF LoopStep, Proceed

(* A handler logs an end only for a run that it could not start. *)
LEMMA RequestWrites ==
  ASSUME LoopInv, Served \/ Restart
  PROVE  ShowsTruly /\ (ended' = ended \/ \E r \in Run : EndsAttempt(r, 1))
<1>1. TypeOK /\ AttemptsHaveRun /\ loop \in [Run -> [Attempt -> Loop]]
  BY DEF LoopInv, StoreInv, LoopTypeOK
<1>2. ASSUME NEW r \in Run, HandleCreateRun(r)
      PROVE  ShowsTruly /\ (ended' = ended \/ EndsAttempt(r, 1))
  <2>1. CreateRun(r, configured)
    BY <1>2 DEF HandleCreateRun
  <2>2. wf' = PointTo(r, IF configured THEN "running" ELSE "failed")
    BY <2>1 DEF CreateRun, RunWorkflowStatus, LiveStatus
  <2>3. ShowsTruly
    BY <2>2, BumpShowsTruly
  <2>4. CASE configured
    BY <2>1, <2>3, <2>4 DEF CreateRun
  <2>5. CASE ~configured
    <3>1. attempt[r][1] = "none"
      BY <1>1, <2>1, AttemptOne DEF CreateRun, NextRun, AttemptsHaveRun
    <3>2. loop[r][1].pc \notin Steps
      BY <3>1, AttemptOne, AtStart DEF RunnerOK
    <3>3. loop' = loop
      BY <1>2, <2>5 DEF HandleCreateRun
    <3>4. attempt'[r][1] # "none"
      BY <1>1, <2>1, <2>5, AttemptOne DEF CreateRun, TypeOK
    <3>5. ended' = [ended EXCEPT ![r] = Append(@, "run_failed")] /\ "run_failed" \in Terminal
      BY <2>1, <2>5 DEF CreateRun, Terminal
    <3>6. 1 \notin Settled(r)
      BY <3>1 DEF Settled
    <3>7. EndsAttempt(r, 1)
      BY <3>2, <3>3, <3>4, <3>5, <3>6 DEF EndsAttempt
    <3> QED
      BY <2>3, <3>7
  <2> QED
    BY <2>4, <2>5
<1>3. ASSUME NEW r \in Run, NEW n \in Attempt, NEW s,
             RetryRun(r, n) \/ RecordStageArtifact(r, n, s)
      PROVE  ShowsTruly /\ ended' = ended
  BY <1>3, BumpShowsTruly DEF RetryRun, StartAttempt, RecordStageArtifact
<1>4. ASSUME GetProject PROVE ShowsTruly /\ ended' = ended
  <2>1. wf.run \in Run
    BY <1>1, <1>4 DEF GetProject, TypeOK, WorkflowTypeOK, WorkflowRow
  <2>2. run'[wf.run].status = "succeeded"
    BY <1>4 DEF GetProject
  <2> QED
    BY <1>4, <2>1, <2>2, BumpShowsTruly DEF GetProject
<1>5. ASSUME NEW v, RestoreVersion(v) PROVE ShowsTruly /\ ended' = ended
  BY <1>5 DEF RestoreVersion, wfVars, ShowsTruly
<1>6. ASSUME NEW v, NEW ok \in BOOLEAN, WriteFile(v, ok) PROVE ShowsTruly /\ ended' = ended
  BY <1>1, <1>6 DEF WriteFile, BumpSnapshot, ShowsTruly, TypeOK, WorkflowTypeOK, WorkflowRow
<1>7. ASSUME MarkActiveRunsInterrupted PROVE ShowsTruly /\ ended' = ended
  BY <1>7 DEF MarkActiveRunsInterrupted, PointTo, ShowsTruly
<1> QED
  BY <1>2, <1>3, <1>4, <1>5, <1>6, <1>7 DEF Served, Restart, HandleGetProject,
     HandleRestoreVersion, HandleWriteFile, HandleRetryRun, HandleCompileResult,
     RecordCompileResult

(* Every step of the program, then, says and logs what is true. *)
LEMMA NextWrites ==
  ASSUME OutcomeInv, AnyStep
  PROVE  /\ ShowsTruly
         /\ ended' = ended \/ \E r \in Run, n \in Attempt : EndsAttempt(r, n)
<1>1. ASSUME Crash PROVE ShowsTruly /\ ended' = ended
  BY <1>1 DEF Crash, storeVars, wfVars, ShowsTruly
<1> QED
  BY <1>1, LoopWrites, RequestWrites, AttemptOne DEF AnyStep, OutcomeInv

(* A loop that is done, or was never launched, takes no step of its own. *)
LEMMA SettledStays ==
  ASSUME OutcomeInv, AnyStep, NEW q \in Run PROVE Settled(q) \subseteq Settled(q)'
<1>1. LoopInv /\ TypeOK /\ AnyTx /\ loop \in [Run -> [Attempt -> Loop]]
  BY NextTx DEF OutcomeInv, LoopInv, StoreInv, LoopTypeOK, AnyTx
<1> SUFFICES ASSUME NEW m \in Attempt, attempt[q][m] # "none", loop[q][m].pc \notin Steps
             PROVE  loop'[q][m].pc \notin Steps
  BY <1>1, AttemptStep DEF Settled
<1>2. ASSUME NEW r \in Run, NEW n \in Attempt, LoopStep(r, n) PROVE loop'[q][m].pc \notin Steps
  <2>1. PICK k \in Loop : loop' = [loop EXCEPT ![r][n] = k]
    BY <1>1, <1>2, LoopStepsTo DEF StepTo
  <2>2. CASE q = r /\ m = n
    <3>1. WatchdogCancel(r, n) \/ WatchdogRead(r, n)
      BY <1>2, <2>2 DEF LoopStep, Proceed, At, Steps, Load, EmitRunStarted, Begin,
         EmitStageStarted, TurnOk, TurnErr, Record, EmitArtifact, WriteDraft, ReplaceDraft,
         Gate, Promote, EmitCompleted, FailLastDraft, EmitCompileFailed, FailInfra, EmitFailed
    <3>2. PICK l \in Loop : l = loop[r][n]
      BY <1>1
    <3>3. loop'[r][n] \in {[l EXCEPT !.armed = TRUE], [l EXCEPT !.ctx = "cancelled"]}
      BY <1>1, <3>1, <3>2 DEF WatchdogCancel, WatchdogRead
    <3>4. loop'[r][n].pc = loop[r][n].pc
      BY <3>2, <3>3 DEF Loop
    <3> QED
      BY <2>2, <3>4
  <2>3. CASE ~(q = r /\ m = n)
    BY <1>1, <2>1, <2>3, LoopMoves
  <2> QED
    BY <2>2, <2>3
<1>3. ASSUME NEW r \in Run, NEW n \in Attempt, attempt[r][n] = "none", Become(r, n, Launched)
      PROVE  loop'[q][m].pc \notin Steps
  BY <1>1, <1>3 DEF Become
<1>4. CASE Served
  <2>1. ASSUME NEW r \in Run, HandleCreateRun(r) PROVE loop'[q][m].pc \notin Steps
    <3>1. attempt[r][1] = "none"
      BY <1>1, <2>1, AttemptOne DEF HandleCreateRun, CreateRun, NextRun, LoopInv, AttemptsHaveRun
    <3> QED
      BY <1>3, <2>1, <3>1, AttemptOne DEF HandleCreateRun
  <2>2. ASSUME NEW r \in Run, NEW n \in Attempt, HandleRetryRun(r, n)
        PROVE  loop'[q][m].pc \notin Steps
    BY <1>3, <2>2 DEF HandleRetryRun, RetryRun, StartAttempt, NextAttempt
  <2> QED
    BY <1>4, <2>1, <2>2 DEF Served, HandleGetProject, HandleRestoreVersion, HandleWriteFile,
       HandleCompileResult
<1>5. CASE Crash
  BY <1>5 DEF Crash, NotLaunched, Steps
<1>6. CASE Restart
  BY <1>6 DEF Restart
<1> QED
  BY <1>2, <1>4, <1>5, <1>6 DEF AnyStep

-----------------------------------------------------------------------------
(* The part of the invariant for all loops. *)
LoopsFine == \A r \in Run, n \in Attempt :
               OutcomeOK(r, n, loop[r][n]) /\ Led(r, n, loop[r][n])

(* A handler's write leaves a loop its part, if it does not hand it its run. *)
LEMMA RequestStaysFine ==
  ASSUME OutcomeInv, RequestTx \/ UNCHANGED storeVars, UNCHANGED up,
         NEW q \in Run, NEW m \in Attempt, NEW k \in Loop, k = loop[q][m],
         Owns(q, m)' => Owns(q, m)
  PROVE  FineAt(q, m, k)
<1>1. /\ LoopInv /\ TypeOK /\ RunnerOK(q, m, k) /\ OutcomeOK(q, m, k) /\ Led(q, m, k)
  BY AtOutcome
<1>2. VersionsKept
  BY <1>1, VersionsKeptTx DEF storeVars
<1>3. OutcomeOK(q, m, k)'
  BY <1>1, <1>2, OutcomeStays DEF AnyTx, RunnerOK
<1>4. Led(q, m, k)'
  <2> SUFFICES ASSUME up', Owns(q, m)', k.pc \notin Driving PROVE Abandoned(q, k)'
    BY DEF Led
  <2>1. Abandoned(q, k)
    BY <1>1 DEF Led
  <2> QED
    BY <1>2, <2>1 DEF Abandoned, VersionsKept
<1> QED
  BY <1>3, <1>4 DEF FineAt

(* A handler that launches nothing keeps the loops' part, ... *)
LEMMA UnlaunchedFine ==
  ASSUME OutcomeInv, RequestTx \/ UNCHANGED storeVars, UNCHANGED <<up, loop>>,
         \A q \in Run, m \in Attempt : Owns(q, m)' => Owns(q, m)
  PROVE  LoopsFine'
<1> SUFFICES ASSUME NEW q \in Run, NEW m \in Attempt
             PROVE  (OutcomeOK(q, m, loop[q][m]) /\ Led(q, m, loop[q][m]))'
  BY DEF LoopsFine
<1>1. PICK k \in Loop : k = loop[q][m]
  BY AtOutcome
<1>2. FineAt(q, m, k)
  BY <1>1, RequestStaysFine
<1>3. loop'[q][m] = k
  BY <1>1
<1> QED
  BY <1>2, <1>3 DEF FineAt, OutcomeOK, Past, Led, Abandoned

(* ... and so does one that launches the loop of the attempt it has made. *)
LEMMA LaunchedFine ==
  ASSUME OutcomeInv, LoopInv', RequestTx, UNCHANGED up,
         NEW r \in Run, NEW n \in Attempt, Become(r, n, Launched), Owns(r, n)'
  PROVE  LoopsFine'
<1> SUFFICES ASSUME NEW q \in Run, NEW m \in Attempt
             PROVE  (OutcomeOK(q, m, loop[q][m]) /\ Led(q, m, loop[q][m]))'
  BY DEF LoopsFine
<1>1. loop \in [Run -> [Attempt -> Loop]]
  BY AtOutcome DEF LoopRows
<1>2. PICK l \in Loop : l = Launched
  <2>1. 0 \in 0 .. Len(StageOrder) /\ 0 \in 0 .. MaxAutoFixRounds
    BY Stages, LoopAssumption
  <2> QED
    BY <2>1 DEF Launched, NotLaunched, Loop, Steps
<1>3. loop' = [loop EXCEPT ![r][n] = l]
  BY <1>2 DEF Become
<1>4. CASE q = r /\ m = n
  <2>1. loop'[q][m] = l
    BY <1>1, <1>3, <1>4, LoopMoves
  <2>2. l.pc = "load" /\ l.at = 0 /\ l.round = 0 /\ l.draft = NoVersion
    BY <1>2 DEF Launched, NotLaunched
  <2>3. \A i \in 1 .. QAAt : ~Past(l, i)
    BY <2>2, Stages DEF Past
  <2>4. OutcomeOK(q, m, l)' /\ Led(q, m, l)'
    BY <2>2, <2>3 DEF OutcomeOK, Past, Led, Driving, Steps
  <2> QED
    BY <2>1, <2>4 DEF OutcomeOK, Past, Led, Abandoned
<1>5. CASE ~(q = r /\ m = n)
  <2>1. PICK k \in Loop : k = loop[q][m]
    BY <1>1
  <2>2. loop'[q][m] = k
    BY <1>1, <1>3, <1>5, <2>1, LoopMoves
  <2>3. ~Owns(q, m)'
    BY <1>5 DEF Owns, LoopInv, StoreInv, OneActiveRun
  <2>4. FineAt(q, m, k)
    BY <2>1, <2>3, RequestStaysFine
  <2> QED
    BY <2>2, <2>4 DEF FineAt, OutcomeOK, Past, Led, Abandoned
<1> QED
  BY <1>4, <1>5

(* The handlers. *)
LEMMA RequestFine ==
  ASSUME OutcomeInv, LoopInv', Served PROVE LoopsFine'
<1>1. /\ LoopInv /\ TypeOK /\ RequestTx /\ UNCHANGED <<up, configured>>
  BY RequestEffect DEF OutcomeInv, LoopInv, StoreInv
<1>2. ASSUME UNCHANGED <<run, loop>> PROVE LoopsFine'
  BY <1>1, <1>2, UnlaunchedFine DEF Owns, Active
<1>3. ASSUME NEW r \in Run, HandleCreateRun(r) PROVE LoopsFine'
  <2>1. CreateRun(r, configured)
    BY <1>3 DEF HandleCreateRun
  <2>2. CASE configured
    <3>1. Owns(r, 1)'
      BY <1>1, <2>1, <2>2 DEF CreateRun, Owns, Active, TypeOK, LiveStatus
    <3> QED
      BY <1>1, <1>3, <2>2, <3>1, AttemptOne, LaunchedFine DEF HandleCreateRun
  <2>3. CASE ~configured
    <3>1. \A q \in Run, m \in Attempt : ~Owns(q, m)'
      BY <1>1, <2>1, <2>3 DEF CreateRun, NoActiveRun, Owns, Active, TypeOK, LiveStatus
    <3>2. UNCHANGED loop
      BY <1>3, <2>3 DEF HandleCreateRun
    <3> QED
      BY <1>1, <3>1, <3>2, UnlaunchedFine
  <2> QED
    BY <2>2, <2>3
<1>4. ASSUME NEW r \in Run, NEW n \in Attempt, HandleRetryRun(r, n) PROVE LoopsFine'
  <2>1. Owns(r, n)'
    BY <1>1, <1>4 DEF HandleRetryRun, RetryRun, StartAttempt, Owns, Active, TypeOK, RunRow,
       LiveStatus
  <2> QED
    BY <1>1, <1>4, <2>1, LaunchedFine DEF HandleRetryRun
<1> QED
  BY <1>2, <1>3, <1>4 DEF Served, HandleGetProject, HandleRestoreVersion, HandleWriteFile,
     HandleCompileResult, RecordCompileResult, GetProject, RestoreVersion, WriteFile,
     RecordStageArtifact

(* A crash leaves nothing to lead, and no draft in a loop's hands. *)
LEMMA CrashFine ==
  ASSUME OutcomeInv, Crash PROVE LoopsFine'
<1> SUFFICES ASSUME NEW q \in Run, NEW m \in Attempt
             PROVE  (OutcomeOK(q, m, loop[q][m]) /\ Led(q, m, loop[q][m]))'
  BY DEF LoopsFine
<1>1. PICK l : l = loop'[q][m]
  OBVIOUS
<1>2. l \in {NotLaunched, [NotLaunched EXCEPT !.pc = "done"]}
  BY <1>1 DEF Crash
<1>3. l.pc \in {"none", "done"} /\ l.at = 0 /\ l.round = 0
  BY <1>2 DEF NotLaunched
<1>4. \A i \in 1 .. QAAt : ~Past(l, i)
  BY <1>3, Stages DEF Past
<1>5. OutcomeOK(q, m, l)' /\ Led(q, m, l)'
  BY <1>3, <1>4 DEF OutcomeOK, Past, Led, Driving, Steps, Crash
<1> QED
  BY <1>1, <1>5 DEF OutcomeOK, Past, Led, Abandoned

(* A start interrupts what is active: then no run is. *)
LEMMA RestartFine ==
  ASSUME OutcomeInv, Restart PROVE LoopsFine'
<1> SUFFICES ASSUME NEW q \in Run, NEW m \in Attempt
             PROVE  (OutcomeOK(q, m, loop[q][m]) /\ Led(q, m, loop[q][m]))'
  BY DEF LoopsFine
<1>1. /\ LoopInv /\ TypeOK /\ RequestTx
  BY RestartEffect DEF OutcomeInv, LoopInv, StoreInv
<1>2. PICK k \in Loop : k = loop[q][m]
  BY AtOutcome
<1>3. loop'[q][m] = k
  BY <1>2 DEF Restart
<1>4. RunnerOK(q, m, k) /\ OutcomeOK(q, m, k)
  BY <1>2, AtOutcome
<1>5. OutcomeOK(q, m, k)'
  BY <1>1, <1>4, VersionsKeptTx, OutcomeStays DEF AnyTx, RunnerOK
<1>6. ~Owns(q, m)'
  BY <1>1 DEF Restart, MarkActiveRunsInterrupted, Owns, Active, LiveStatus, TypeOK, RunRow
<1> QED
  BY <1>3, <1>5, <1>6 DEF OutcomeOK, Past, Led, Abandoned

(* Every step keeps the loops' part. *)
LEMMA LoopsFineStep ==
  ASSUME OutcomeInv, AnyStep PROVE LoopsFine'
<1>1. LoopInv /\ LoopInv'
  BY LoopInvNext DEF OutcomeInv
<1>2. ASSUME NEW r \in Run, NEW n \in Attempt, LoopStep(r, n) PROVE LoopsFine'
  <2> SUFFICES ASSUME NEW q \in Run, NEW m \in Attempt
               PROVE  (OutcomeOK(q, m, loop[q][m]) /\ Led(q, m, loop[q][m]))'
    BY DEF LoopsFine
  <2>1. PICK k \in Loop : StepTo(r, n, k)
    BY <1>1, <1>2, LoopStepsTo
  <2>2. FineAt(r, n, k)
    BY <1>2, <2>1, LoopStepFine
  <2>3. /\ loop \in [Run -> [Attempt -> Loop]]
        /\ LoopTx(r, n) \/ UNCHANGED storeVars
        /\ UNCHANGED up
    BY <1>1, <1>2, LoopStepEffect DEF LoopInv, LoopTypeOK, LoopEffect, ServerUnchanged
  <2>4. CASE q = r /\ m = n
    <3>1. loop'[q][m] = k
      BY <2>1, <2>3, <2>4, LoopMoves DEF StepTo
    <3> QED
      BY <2>2, <2>4, <3>1 DEF FineAt, OutcomeOK, Past, Led, Abandoned
  <2>5. CASE ~(q = r /\ m = n)
    <3>1. PICK j \in Loop : j = loop[q][m]
      BY <2>3
    <3>2. loop'[q][m] = j
      BY <2>1, <2>3, <2>5, <3>1, LoopMoves DEF StepTo
    <3>3. FineAt(q, m, j)
      BY <2>3, <2>5, <3>1, OthersStayFine
    <3> QED
      BY <3>2, <3>3 DEF FineAt, OutcomeOK, Past, Led, Abandoned
  <2> QED
    BY <2>4, <2>5
<1> QED
  BY <1>1, <1>2, RequestFine, CrashFine, RestartFine DEF AnyStep

-----------------------------------------------------------------------------
(* Attempts are finitely many, hence also those that have settled. *)
LEMMA AttemptSets ==
  ASSUME NEW S \in SUBSET Attempt
  PROVE  IsFiniteSet(S) /\ Cardinality(S) \in Nat
<1>1. IsFiniteSet(Attempt)
  BY FS_Interval, WorkflowAssumption DEF Attempt
<1> QED
  BY <1>1, FS_Subset, FS_CardinalityType

(* The end that an attempt logs is matched by its settling. *)
LEMMA EndsCountedStep ==
  ASSUME OutcomeInv, AnyStep PROVE EndsCounted'
<1> SUFFICES ASSUME NEW q \in Run
             PROVE  Len(ended'[q]) <= Cardinality(Settled(q)')
  BY DEF EndsCounted, Settled
<1>1. /\ LoopInv /\ TypeOK
      /\ Len(ended[q]) <= Cardinality(Settled(q))
  BY DEF OutcomeInv, LoopInv, StoreInv, EndsCounted
<1>2. ended[q] \in Seq(Terminal) /\ Len(ended[q]) \in Nat
  BY <1>1 DEF TypeOK
<1>3. PICK S \in SUBSET Attempt : S = Settled(q)
  BY DEF Settled
<1>4. PICK T \in SUBSET Attempt : T = Settled(q)'
  BY DEF Settled
<1>5. S \subseteq T
  BY <1>3, <1>4, SettledStays
<1>6. /\ IsFiniteSet(S) /\ Cardinality(S) \in Nat
      /\ IsFiniteSet(T) /\ Cardinality(T) \in Nat
      /\ Cardinality(S) <= Cardinality(T)
  BY <1>5, AttemptSets, FS_Subset
<1>7. CASE ended'[q] = ended[q]
  BY <1>1, <1>2, <1>3, <1>4, <1>6, <1>7
<1>8. ASSUME NEW n \in Attempt, EndsAttempt(q, n) PROVE Len(ended'[q]) <= Cardinality(T)
  <2>1. PICK type \in Terminal : ended' = [ended EXCEPT ![q] = Append(@, type)]
    BY <1>8 DEF EndsAttempt
  <2>2. ended'[q] = Append(ended[q], type)
    BY <1>1, <2>1 DEF TypeOK
  <2>3. Len(ended'[q]) = Len(ended[q]) + 1
    BY <1>2, <2>2
  <2>4. n \notin S /\ n \in T
    BY <1>3, <1>4, <1>8 DEF EndsAttempt, Settled
  <2>5. Cardinality(S \cup {n}) = Cardinality(S) + 1
    BY <1>6, <2>4, FS_AddElement
  <2>6. Cardinality(S \cup {n}) <= Cardinality(T)
    BY <1>5, <1>6, <2>4, FS_Subset
  <2> QED
    BY <1>1, <1>2, <1>3, <1>6, <2>3, <2>5, <2>6
<1>9. ASSUME NEW r \in Run, NEW n \in Attempt, r # q, EndsAttempt(r, n)
      PROVE  ended'[q] = ended[q]
  BY <1>1, <1>9 DEF EndsAttempt, TypeOK
<1> QED
  BY <1>4, <1>7, <1>8, <1>9, NextWrites

(* Whatever is said to be completed has succeeded, and stays so. *)
LEMMA CompletedStep ==
  ASSUME OutcomeInv, AnyStep
  PROVE  (wf.status = "completed" => wf.run # NoRun)' /\ CompletedMeansSucceeded'
<1>1. /\ LoopInv /\ TypeOK /\ AnyTx /\ LoopInv' /\ TypeOK'
  BY NextTx, LoopInvNext DEF OutcomeInv, LoopInv, StoreInv, AnyTx
<1>2. \A q \in Run : run[q].status = "succeeded" => run'[q].status = "succeeded"
  BY <1>1, SucceededKept
<1>3. wf'.status = "completed" => wf'.run \in Run /\ run'[wf'.run].status = "succeeded"
  <2> SUFFICES ASSUME wf'.status = "completed"
               PROVE  wf'.run \in Run /\ run'[wf'.run].status = "succeeded"
    OBVIOUS
  <2>1. CASE wf'.run = wf.run /\ wf'.status = wf.status
    <3>1. wf.run # NoRun /\ run[wf.run].status = "succeeded"
      BY <2>1 DEF OutcomeInv, CompletedMeansSucceeded
    <3>2. wf.run \in Run
      BY <1>1, <3>1 DEF TypeOK, WorkflowTypeOK, WorkflowRow
    <3> QED
      BY <1>2, <2>1, <3>1, <3>2
  <2> QED
    BY <2>1, NextWrites DEF ShowsTruly
<1>4. ASSUME NEW q \in Run, LogsCompleted(q)' PROVE run'[q].status = "succeeded"
  <2>1. CASE ended'[q] = ended[q]
    BY <1>2, <1>4, <2>1 DEF LogsCompleted, OutcomeInv, CompletedMeansSucceeded
  <2>2. ASSUME NEW n \in Attempt, EndsAttempt(q, n) PROVE run'[q].status = "succeeded"
    <3>1. PICK type \in Terminal :
            /\ ended' = [ended EXCEPT ![q] = Append(@, type)]
            /\ type = "run_completed" => run'[q].status = "succeeded"
      BY <2>2 DEF EndsAttempt
    <3>2. ended'[q] = Append(ended[q], type) /\ ended[q] \in Seq(Terminal)
      BY <1>1, <3>1 DEF TypeOK
    <3>3. PICK i \in DOMAIN ended'[q] : ended'[q][i] = "run_completed"
      BY <1>4 DEF LogsCompleted
    <3>4. CASE i = Len(ended[q]) + 1
      BY <3>1, <3>2, <3>3, <3>4
    <3>5. CASE i # Len(ended[q]) + 1
      <4>1. i \in DOMAIN ended[q] /\ ended[q][i] = "run_completed"
        BY <3>2, <3>3, <3>5
      <4> QED
        BY <1>2, <4>1 DEF LogsCompleted, OutcomeInv, CompletedMeansSucceeded
    <3> QED
      BY <3>4, <3>5
  <2>3. ASSUME NEW r \in Run, NEW n \in Attempt, r # q, EndsAttempt(r, n)
        PROVE  ended'[q] = ended[q]
    BY <1>1, <2>3 DEF EndsAttempt, TypeOK
  <2> QED
    BY <2>1, <2>2, <2>3, NextWrites
<1>5. \A q \in Run : q # NoRun
  BY WorkflowAssumption DEF Run, NoRun
<1> QED
  BY <1>3, <1>4, <1>5 DEF CompletedMeansSucceeded

(* An empty project satisfies the strengthened invariant. *)
LEMMA OutcomeInit == Init => OutcomeInv
<1> SUFFICES ASSUME Init PROVE OutcomeInv
  OBVIOUS
<1>1. LoopInv /\ StoreInit /\ WorkflowInit
  BY LoopInit_Inv DEF Init, StoreInit
<1>2. AttemptsInOrder /\ ActiveIsLatest /\ SucceededHasEvidence
  BY <1>1 DEF StoreInit, AttemptsInOrder, ActiveIsLatest, SucceededHasEvidence, Owns, Active,
     LiveStatus
<1>3. (wf.status = "completed" => wf.run # NoRun) /\ CompletedMeansSucceeded
  BY <1>1 DEF StoreInit, WorkflowInit, CompletedMeansSucceeded, LogsCompleted
<1>4. EndsCounted
  <2> SUFFICES ASSUME NEW r \in Run PROVE Len(ended[r]) <= Cardinality(Settled(r))
    BY DEF EndsCounted
  <2>1. Settled(r) = {}
    BY <1>1 DEF StoreInit, Settled
  <2>2. Len(ended[r]) = 0
    BY <1>1 DEF StoreInit
  <2> QED
    BY <2>1, <2>2, FS_EmptySet
<1>5. LoopsFine
  <2> SUFFICES ASSUME NEW r \in Run, NEW n \in Attempt
               PROVE  OutcomeOK(r, n, loop[r][n]) /\ Led(r, n, loop[r][n])
    BY DEF LoopsFine
  <2>1. loop[r][n] = NotLaunched
    BY DEF Init
  <2>2. \A i \in 1 .. QAAt : ~Past(NotLaunched, i)
    BY Stages DEF NotLaunched, Past
  <2>3. OutcomeOK(r, n, NotLaunched)
    BY <2>2 DEF OutcomeOK, NotLaunched, Driving, Steps
  <2>4. ~Owns(r, n)
    BY <1>1 DEF StoreInit, Owns, Active, LiveStatus
  <2> QED
    BY <2>1, <2>3, <2>4 DEF Led
<1> QED
  BY <1>1, <1>2, <1>3, <1>4, <1>5 DEF OutcomeInv, LoopsFine

(* It is inductive. *)
LEMMA OutcomeInvNext ==
  ASSUME OutcomeInv, AnyStep PROVE OutcomeInv'
<1>1. LoopInv /\ LoopInv' /\ AnyTx
  BY NextTx, LoopInvNext DEF OutcomeInv, AnyTx
<1>2. AttemptsInOrder'
  BY <1>1, AttemptsInOrderStep DEF OutcomeInv
<1>3. ActiveIsLatest'
  <2>1. ASSUME UNCHANGED storeVars PROVE ActiveIsLatest'
    BY <2>1 DEF OutcomeInv, ActiveIsLatest, Owns, Active, LatestAttempt, storeVars
  <2>2. ASSUME NEW r \in Run, NEW n \in Attempt, LoopTx(r, n) PROVE ActiveIsLatest'
    BY <1>1, <2>2, ActiveIsLatestLoop DEF OutcomeInv
  <2>3. ASSUME RequestTx PROVE ActiveIsLatest'
    BY <1>1, <2>3, ActiveIsLatestRequest DEF OutcomeInv
  <2> QED
    BY <1>1, <2>1, <2>2, <2>3 DEF AnyTx
<1> QED
  BY <1>1, <1>2, <1>3, EvidenceStep, CompletedStep, EndsCountedStep, LoopsFineStep
  DEF OutcomeInv, LoopsFine

(* A step that changes nothing keeps it. *)
LEMMA OutcomeInvStutter ==
  ASSUME OutcomeInv, UNCHANGED loopVars PROVE OutcomeInv'
<1>1. LoopInv' /\ UNCHANGED storeVars /\ UNCHANGED wfVars /\ UNCHANGED <<loop, up>>
  BY LoopInvStutter DEF OutcomeInv, loopVars, storeVars
<1>2. UNCHANGED <<run, attempt, version, stable, ended, wf, stage, artifact>>
  BY <1>1 DEF storeVars, wfVars
<1>3. /\ (AttemptsInOrder /\ ActiveIsLatest /\ SucceededHasEvidence)'
      /\ (wf.status = "completed" => wf.run # NoRun)' /\ CompletedMeansSucceeded'
  BY <1>2 DEF OutcomeInv, AttemptsInOrder, ActiveIsLatest, SucceededHasEvidence, Owns, Active,
     LatestAttempt, CompletedMeansSucceeded, LogsCompleted
<1>4. EndsCounted'
  BY <1>1, <1>2 DEF OutcomeInv, EndsCounted, Settled
<1>5. LoopsFine'
  BY <1>1, <1>2 DEF OutcomeInv, LoopsFine, OutcomeOK, Past, Led, Abandoned, Owns, Active
<1> QED
  BY <1>1, <1>3, <1>4, <1>5 DEF OutcomeInv, LoopsFine

(* OutcomeInv, the invariant behind what is shown and logged of a run: what  *)
(* a runner is to promote or fail is a draft still, each stage it is past    *)
(* has its artifact, and an attempt that has settled logged one end at most. *)
THEOREM OutcomeInvariant == Spec => []OutcomeInv
<1>1. OutcomeInv /\ [Next]_loopVars => OutcomeInv'
  BY NextIsAnyStep, OutcomeInvNext, OutcomeInvStutter
<1> QED
  BY <1>1, OutcomeInit, PTL DEF Spec

(* SucceededHasEvidence: a succeeded run has a promoted version that         *)
(* compiles, and in its latest attempt an artifact of every stage.           *)
THEOREM LoopSucceededHasEvidence == Spec => []SucceededHasEvidence
<1>1. OutcomeInv => SucceededHasEvidence
  BY DEF OutcomeInv
<1> QED
  BY <1>1, OutcomeInvariant, PTL

(* CompletedMeansSucceeded: "completed" is shown, and run_completed logged,  *)
(* only of a run that succeeded.                                             *)
THEOREM LoopCompletedMeansSucceeded == Spec => []CompletedMeansSucceeded
<1>1. OutcomeInv => CompletedMeansSucceeded
  BY DEF OutcomeInv
<1> QED
  BY <1>1, OutcomeInvariant, PTL

(* OneEndPerAttempt: a run logs no more ends than it had attempts. *)
THEOREM LoopOneEndPerAttempt == Spec => []OneEndPerAttempt
<1>1. ASSUME OutcomeInv PROVE OneEndPerAttempt
  <2> SUFFICES ASSUME NEW r \in Run
               PROVE  Len(ended[r]) <= Cardinality({n \in Attempt : attempt[r][n] # "none"})
    BY DEF OneEndPerAttempt
  <2> DEFINE Made == {n \in Attempt : attempt[r][n] # "none"}
  <2>1. Settled(r) \in SUBSET Made /\ Made \in SUBSET Attempt /\ Settled(r) \in SUBSET Attempt
    BY DEF Settled
  <2>2. Len(ended[r]) <= Cardinality(Settled(r)) /\ Len(ended[r]) \in Nat
    BY <1>1 DEF OutcomeInv, EndsCounted, LoopInv, StoreInv, TypeOK
  <2> HIDE DEF Made
  <2>3. Cardinality(Settled(r)) <= Cardinality(Made)
    BY <2>1, AttemptSets, FS_Subset
  <2>4. Cardinality(Settled(r)) \in Nat /\ Cardinality(Made) \in Nat
    BY <2>1, AttemptSets
  <2>5. Len(ended[r]) <= Cardinality(Made)
    BY <2>2, <2>3, <2>4
  <2> QED
    BY <2>5 DEF Made
<1> QED
  BY <1>1, OutcomeInvariant, PTL

(* ActiveIsDriven: an active run has a loop at work on it, or was left by    *)
(* one that the watchdog stopped as it gave up.                              *)
THEOREM LoopActiveIsDriven == Spec => []ActiveIsDriven
<1>1. ASSUME OutcomeInv PROVE ActiveIsDriven
  <2> SUFFICES ASSUME up, NEW r \in Run, Active(r)
               PROVE  \E n \in Attempt :
                        \/ loop[r][n].pc \in Driving
                        \/ Abandoned(r, loop[r][n]) /\ run[r].active = n
    BY DEF ActiveIsDriven, Abandoned
  <2>1. run[r].active \in Attempt
    BY <1>1 DEF OutcomeInv, ActiveIsLatest, LoopInv, StoreInv, TypeOK, RunRow
  <2>2. Owns(r, run[r].active)
    BY DEF Owns
  <2>3. Led(r, run[r].active, loop[r][run[r].active])
    BY <1>1, <2>1 DEF OutcomeInv
  <2> QED
    BY <2>1, <2>2, <2>3 DEF Led
<1> QED
  BY <1>1, OutcomeInvariant, PTL

-----------------------------------------------------------------------------
(* SucceededStays: no late step reopens or changes a run that succeeded. *)
THEOREM LoopSucceededStays == Spec => SucceededStays
<1> DEFINE Stays == \A r \in Run : run[r].status = "succeeded" => run'[r] = run[r]
<1>1. ASSUME LoopInv, AnyStep PROVE Stays
  BY <1>1, NextTx, SucceededKept DEF AnyTx
<1>2. LoopInv /\ [Next]_loopVars => [Stays]_loopVars
  BY <1>1, NextIsAnyStep
<1>3. Spec => [][Stays]_loopVars
  BY <1>2, LoopInvariant, PTL DEF Spec
<1> QED
  BY <1>3, PTL DEF SucceededStays

(* EndedAttemptsStay: the failure path of an old loop finds nothing of its   *)
(* own or of a newer attempt to write.                                       *)
THEOREM LoopEndedAttemptsStay == Spec => EndedAttemptsStay
<1> DEFINE Stays == \A r \in Run, n \in Attempt :
                      attempt[r][n] \in RunStatus \ LiveStatus
                        => attempt'[r][n] = attempt[r][n]
<1>1. ASSUME LoopInv, AnyStep PROVE Stays
  BY <1>1, NextTx, EndedKept DEF AnyTx
<1>2. LoopInv /\ [Next]_loopVars => [Stays]_loopVars
  BY <1>1, NextIsAnyStep
<1>3. Spec => [][Stays]_loopVars
  BY <1>2, LoopInvariant, PTL DEF Spec
<1> QED
  BY <1>3, PTL DEF EndedAttemptsStay

(* ActiveRunHoldsPreview: the stable version moves under an active run only  *)
(* when that run is the one that publishes.                                  *)
THEOREM LoopActiveRunHoldsPreview == Spec => ActiveRunHoldsPreview
<1> DEFINE Holds == \A r \in Run : Active(r) /\ stable' # stable
                      => run'[r].status = "succeeded" /\ run'[r].result = stable'
<1>1. ASSUME LoopInv, AnyStep PROVE Holds
  <2>1. TypeOK
    BY <1>1 DEF LoopInv, StoreInv
  <2>2. ASSUME NEW r \in Run, NEW n \in Attempt, LoopTx(r, n) PROVE Holds
    <3>1. CASE Owns(r, n) /\ \E v \in Version : PromoteDraftVersion(v, r, n)
      <4>1. run'[r].status = "succeeded" /\ run'[r].result = stable'
        BY <2>1, <3>1 DEF PromoteDraftVersion, Finish, TypeOK, RunRow
      <4> QED
        BY <1>1, <3>1, <4>1 DEF Owns, LoopInv, StoreInv, OneActiveRun
    <3>2. CASE UNCHANGED stable
      BY <3>2
    <3> QED
      BY <2>2, <3>1, <3>2 DEF LoopTx, OwnerTx, AppendEvent, RecordStageArtifact,
         CreateDraftVersion, BeginAttempt, FailRun, DropDraft, FailDraftVersion
  <2>3. ASSUME RequestTx PROVE Holds
    BY <2>3 DEF RequestTx, MarkActiveRunsInterrupted, GetProject, RestoreVersion, WriteFile,
       CreateRun, RetryRun, StartAttempt, RecordStageArtifact, NoActiveRun
  <2>4. ASSUME UNCHANGED storeVars PROVE Holds
    BY <2>4 DEF storeVars
  <2> QED
    BY <1>1, <2>2, <2>3, <2>4, NextTx
<1>2. LoopInv /\ [Next]_loopVars => [Holds]_loopVars
  BY <1>1, NextIsAnyStep
<1>3. Spec => [][Holds]_loopVars
  BY <1>2, LoopInvariant, PTL DEF Spec
<1> QED
  BY <1>3, PTL DEF ActiveRunHoldsPreview

-----------------------------------------------------------------------------
(* What is shown, and the run it is of. *)

(* A published version of an agent is the result of a run that succeeded. *)
PublishedBySuccess ==
  \A v \in Version : version[v].status = "stable" /\ version[v].run # NoRun =>
    run[version[v].run].status = "succeeded"

(* A version becomes stable by a promotion that ends its run, or by an edit. *)
LEMMA PublishesOwn ==
  ASSUME TypeOK, AnyTx, NEW v \in Version, version[v].status # "stable",
         version'[v].status = "stable", version'[v].run # NoRun
  PROVE  run'[version'[v].run].status = "succeeded"
<1>1. ASSUME UNCHANGED version PROVE FALSE
  BY <1>1
<1>2. ASSUME NEW w \in Version, NEW row, version' = [version EXCEPT ![w] = row],
             row.status # "stable" \/ row.run = NoRun
      PROVE  FALSE
  BY <1>2 DEF TypeOK
<1>3. ASSUME NEW w \in Version, version' = [version EXCEPT ![w].status = "failed"] PROVE FALSE
  BY <1>3 DEF TypeOK, VersionRow
<1>4. ASSUME NEW r \in Run, NEW n \in Attempt, NEW w \in Version, DraftOf(w, r),
             PromoteDraftVersion(w, r, n)
      PROVE  run'[version'[v].run].status = "succeeded"
  <2>1. version' = [version EXCEPT ![w].status = "stable"] /\ Finish(r, n, "succeeded", w)
    BY <1>4 DEF PromoteDraftVersion
  <2>2. v = w /\ version'[v].run = r
    BY <1>4, <2>1 DEF TypeOK, VersionRow, DraftOf
  <2>3. run'[r].status = "succeeded"
    BY <2>1 DEF Finish, TypeOK, RunRow
  <2> QED
    BY <2>2, <2>3
<1>5. CASE RequestTx
  <2>1. ASSUME NEW w \in Version, NEW ok \in BOOLEAN, WriteFile(w, ok) PROVE FALSE
    BY <1>2, <2>1 DEF WriteFile
  <2> QED
    BY <1>1, <1>5, <2>1 DEF RequestTx, MarkActiveRunsInterrupted, GetProject, RestoreVersion,
       CreateRun, RetryRun, StartAttempt, RecordStageArtifact
<1>6. ASSUME NEW r \in Run, NEW n \in Attempt, LoopTx(r, n)
      PROVE  run'[version'[v].run].status = "succeeded"
  <2>1. ASSUME NEW w \in Version, NEW ok \in BOOLEAN, CreateDraftVersion(w, r, ok) PROVE FALSE
    BY <1>2, <2>1 DEF CreateDraftVersion
  <2>2. ASSUME NEW w \in Version, DropDraft(w) \/ FailDraftVersion(w, r, n) PROVE FALSE
    BY <1>1, <1>3, <2>2 DEF DropDraft, FailDraftVersion
  <2> QED
    BY <1>1, <1>4, <1>6, <2>1, <2>2 DEF LoopTx, OwnerTx, AppendEvent, RecordStageArtifact,
       BeginAttempt, FailRun
<1> QED
  BY <1>1, <1>5, <1>6 DEF AnyTx, storeVars

(* The parts that PreviewIsOfSuccess rests on are kept by every step. *)
PreviewInv == LoopInv /\ LineagePublished /\ PublishedBySuccess

LEMMA PreviewInvNext ==
  ASSUME PreviewInv, AnyStep PROVE PreviewInv'
<1>1. LoopInv /\ LoopInv' /\ StoreInv /\ TypeOK /\ AnyTx
  BY LoopInvNext, NextTx DEF PreviewInv, LoopInv, StoreInv, AnyTx
<1>2. StoreTx \/ UNCHANGED storeVars
  BY <1>1, LoopTxIsStoreTx, RequestTxIsStoreTx DEF AnyTx
<1>3. VersionStep
  BY <1>1, <1>2, VersionStepTx DEF VersionStep, storeVars
<1>4. LineagePublished'
  BY <1>1, <1>3, LineagePublishedStep DEF PreviewInv
<1>5. ASSUME NEW v \in Version, version'[v].status = "stable", version'[v].run # NoRun
      PROVE  run'[version'[v].run].status = "succeeded"
  <2>1. CASE version[v].status = "stable"
    <3>1. version'[v] = version[v]
      BY <1>1, <1>3, <2>1, VersionsStay
    <3>2. version[v].run \in Run /\ run[version[v].run].status = "succeeded"
      BY <1>1, <1>5, <2>1, <3>1 DEF PreviewInv, PublishedBySuccess, TypeOK, VersionRow
    <3> QED
      BY <1>1, <3>1, <3>2, SucceededKept
  <2>2. CASE version[v].status # "stable"
    BY <1>1, <1>5, <2>2, PublishesOwn
  <2> QED
    BY <2>1, <2>2
<1> QED
  BY <1>1, <1>4, <1>5 DEF PreviewInv, PublishedBySuccess

(* PreviewIsOfSuccess: what a project shows goes back, through the edits made *)
(* since, to a version of a run that succeeded.                               *)
THEOREM LoopPreviewIsOfSuccess == Spec => []PreviewIsOfSuccess
<1>1. Init => PreviewInv
  <2>1. Init => LineagePublished /\ PublishedBySuccess
    BY DEF Init, StoreInit, LineagePublished, PublishedBySuccess
  <2> QED
    BY <2>1, LoopInit_Inv DEF PreviewInv
<1>2. PreviewInv /\ [Next]_loopVars => PreviewInv'
  <2>1. ASSUME PreviewInv, UNCHANGED loopVars PROVE PreviewInv'
    <3>1. LoopInv'
      BY <2>1, LoopInvStutter DEF PreviewInv
    <3>2. UNCHANGED <<version, run>>
      BY <2>1 DEF loopVars, storeVars
    <3> QED
      BY <2>1, <3>1, <3>2 DEF PreviewInv, LineagePublished, PublishedBySuccess
  <2> QED
    BY <2>1, NextIsAnyStep, PreviewInvNext
<1>3. ASSUME PreviewInv PROVE PreviewIsOfSuccess
  <2>1. PreviewIsPublished
    BY <1>3, PreviewPublished DEF PreviewInv, LoopInv
  <2> QED
    BY <1>3, <2>1 DEF PreviewIsPublished, PreviewIsOfSuccess, PreviewInv, PublishedBySuccess, Run, NoRun
<1> QED
  BY <1>1, <1>2, <1>3, PTL DEF Spec

-----------------------------------------------------------------------------
(* AgentLoop implements StablePointer, for any number of runs, attempts and   *)
(* versions: each transaction of a loop, a handler or the start-up is a step  *)
(* of the abstract pointer or leaves it alone.                                *)

PointerKept == UNCHANGED <<stable, Published, Holder, Bases, Known>>
PointerStep == Pointer!Next \/ PointerKept

(* The abstract lock is held by the active run, if there is one. *)
LEMMA HolderIs ==
  /\ OneActiveRun => \A r \in Run : Active(r) => Holder = r /\ Holder # NoRun
  /\ OneActiveRun' => \A r \in Run : Active(r)' => Holder' = r
  /\ NoActiveRun => Holder = NoRun
  /\ NoActiveRun' => Holder' = NoRun
BY DEF OneActiveRun, Holder, NoActiveRun, Run, NoRun

(* What a step that keeps the rows of the runs' activity keeps. *)
LEMMA KeptBy ==
  ASSUME TypeOK, OneActiveRun, OneActiveRun', stable' = stable,
         \A v \in Version : version'[v].status = "stable" <=> version[v].status = "stable",
         \A r \in Run : /\ Active(r)' <=> Active(r)
                        /\ RunExists(r)' <=> RunExists(r)
                        /\ run'[r].base = run[r].base
  PROVE  PointerKept
<1>1. Published' = Published /\ Known' = Known /\ Bases' = Bases
  BY DEF Published, Known, Bases
<1>2. Holder' = Holder
  <2>1. CASE NoActiveRun
    <3>1. NoActiveRun'
      BY <2>1 DEF NoActiveRun
    <3> QED
      BY <2>1, <3>1, HolderIs
  <2>2. CASE ~NoActiveRun
    <3>1. PICK r \in Run : Active(r) /\ Active(r)'
      BY <2>2 DEF NoActiveRun
    <3> QED
      BY <3>1, HolderIs
  <2> QED
    BY <2>1, <2>2
<1> QED
  BY <1>1, <1>2 DEF PointerKept

(* Steps that move neither runs nor published versions are stuttering steps. *)
LEMMA KeptByRows ==
  ASSUME TypeOK, OneActiveRun, OneActiveRun', UNCHANGED <<run, stable>>,
         \A v \in Version : version'[v].status = "stable" <=> version[v].status = "stable"
  PROVE  PointerKept
BY KeptBy DEF Active, RunExists

(* A run that ends without publishing gives the lock up. *)
LEMMA GivesUp ==
  ASSUME TypeOK, OneActiveRun, NEW r \in Run, Active(r), stable' = stable,
         \A v \in Version : version'[v].status = "stable" <=> version[v].status = "stable",
         \A q \in Run : ~Active(q)',
         \A q \in Run : /\ RunExists(q)' <=> RunExists(q)
                        /\ run'[q].base = run[q].base
  PROVE  Pointer!GiveUp
<1>1. Published' = Published /\ Known' = Known /\ Bases' = Bases
  BY DEF Published, Known, Bases
<1>2. Holder = r /\ Holder # NoRun /\ Holder' = NoRun
  BY HolderIs DEF NoActiveRun
<1> QED
  BY <1>1, <1>2 DEF Pointer!GiveUp, Pointer!Free

(* Finish ends the run, and with it the only activity of the project. *)
LEMMA FinishFrees ==
  ASSUME TypeOK, OneActiveRun, NEW r \in Run, NEW n \in Attempt, Active(r),
         NEW s \in {"succeeded", "failed"}, NEW v \in Version, Finish(r, n, s, v)
  PROVE  \A q \in Run : /\ ~Active(q)'
                        /\ RunExists(q)' <=> RunExists(q)
                        /\ run'[q].base = run[q].base
<1>1. ASSUME NEW q \in Run, q # r PROVE run'[q] = run[q] /\ ~Active(q)
  BY <1>1 DEF Finish, TypeOK, OneActiveRun
<1>2. /\ run'[r].status = s /\ run'[r].base = run[r].base
  BY DEF Finish, TypeOK, RunRow
<1>3. s \notin LiveStatus /\ s # "none" /\ run[r].status # "none"
  BY DEF LiveStatus, Active
<1> QED
  BY <1>1, <1>2, <1>3 DEF Active, RunExists

(* What a loop does to its own run maps to Publish, GiveUp or a stutter. *)
LEMMA OwnerTxStep ==
  ASSUME LoopInv, OneActiveRun', NEW r \in Run, NEW n \in Attempt, OwnerTx(r, n)
  PROVE  PointerStep
<1>1. TypeOK /\ OneActiveRun /\ Active(r)
  BY DEF LoopInv, StoreInv, OwnerTx, Owns
<1>2. CASE BeginAttempt(r, n)
  <2>1. /\ UNCHANGED <<version, stable>>
        /\ \A q \in Run : /\ Active(q)' <=> Active(q)
                          /\ RunExists(q)' <=> RunExists(q)
                          /\ run'[q].base = run[q].base
    BY <1>1, <1>2 DEF BeginAttempt, TypeOK, RunRow, Active, RunExists, LiveStatus
  <2> QED
    BY <1>1, <2>1, KeptBy DEF PointerStep
<1>3. CASE FailRun(r)
  <2>1. /\ UNCHANGED <<version, stable>>
        /\ \A q \in Run : ~Active(q)'
        /\ \A q \in Run : /\ RunExists(q)' <=> RunExists(q)
                          /\ run'[q].base = run[q].base
    BY <1>1, <1>3 DEF FailRun, TypeOK, RunRow, Active, RunExists, LiveStatus, OneActiveRun
  <2>2. Pointer!GiveUp
    BY <1>1, <2>1, GivesUp
  <2> QED
    BY <2>2 DEF PointerStep, Pointer!Next
<1>4. ASSUME NEW v \in Version, DraftOf(v, r), DropDraft(v) PROVE PointerStep
  <2>1. /\ stable' = stable
        /\ \A u \in Version : version'[u].status = "stable" <=> version[u].status = "stable"
    BY <1>1, <1>4 DEF DropDraft, TypeOK, VersionRow
  <2>2. \A q \in Run : /\ Active(q)' <=> Active(q)
                       /\ RunExists(q)' <=> RunExists(q)
                       /\ run'[q].base = run[q].base
    BY <1>1, <1>4 DEF DropDraft, DraftOf, TypeOK, RunRow, Active, RunExists
  <2> QED
    BY <1>1, <2>1, <2>2, KeptBy DEF PointerStep
<1>5. ASSUME NEW v \in Version, FailDraftVersion(v, r, n) PROVE PointerStep
  <2>1. /\ stable' = stable
        /\ \A u \in Version : version'[u].status = "stable" <=> version[u].status = "stable"
    BY <1>1, <1>5 DEF FailDraftVersion, TypeOK, VersionRow
  <2>2. \A q \in Run : /\ ~Active(q)'
                       /\ RunExists(q)' <=> RunExists(q)
                       /\ run'[q].base = run[q].base
    BY <1>1, <1>5, FinishFrees DEF FailDraftVersion
  <2>3. Pointer!GiveUp
    BY <1>1, <2>1, <2>2, GivesUp
  <2> QED
    BY <2>3 DEF PointerStep, Pointer!Next
<1>6. ASSUME NEW v \in Version, PromoteDraftVersion(v, r, n) PROVE PointerStep
  <2>1. /\ version[v].status = "draft" /\ stable = run[r].base /\ stable' = v
        /\ \A u \in Version : version'[u].status = "stable"
                               <=> u = v \/ version[u].status = "stable"
    BY <1>1, <1>6 DEF PromoteDraftVersion, CanPublish, TypeOK, VersionRow
  <2>2. \A q \in Run : /\ ~Active(q)'
                       /\ RunExists(q)' <=> RunExists(q)
                       /\ run'[q].base = run[q].base
    BY <1>1, <1>6, FinishFrees DEF PromoteDraftVersion
  <2>3. v \notin Published /\ Published' = Published \cup {v}
    BY <2>1 DEF Published
  <2>4. Holder = r /\ Holder # NoRun /\ Holder' = NoRun
    BY <1>1, <2>2, HolderIs DEF NoActiveRun
  <2>5. Bases[r] = stable /\ Bases' = Bases /\ Known' = Known
    BY <2>1, <2>2 DEF Bases, Known
  <2>6. Pointer!Publish(v)
    BY <2>1, <2>3, <2>4, <2>5 DEF Pointer!Publish, Pointer!Free
  <2> QED
    BY <2>6 DEF PointerStep, Pointer!Next
<1> QED
  BY <1>2, <1>3, <1>4, <1>5, <1>6 DEF OwnerTx

(* Any write of a loop does. *)
LEMMA LoopTxStep ==
  ASSUME LoopInv, OneActiveRun', NEW r \in Run, NEW n \in Attempt, LoopTx(r, n)
  PROVE  PointerStep
<1>1. TypeOK /\ OneActiveRun
  BY DEF LoopInv, StoreInv
<1>2. ASSUME NEW v \in Version, NEW ok \in BOOLEAN, CreateDraftVersion(v, r, ok)
      PROVE  PointerStep
  <2>1. /\ UNCHANGED <<run, stable>>
        /\ \A u \in Version : version'[u].status = "stable" <=> version[u].status = "stable"
    BY <1>1, <1>2 DEF CreateDraftVersion, NextVersion, TypeOK
  <2> QED
    BY <1>1, <2>1, KeptByRows DEF PointerStep
<1>3. ASSUME UNCHANGED <<run, stable, version>> PROVE PointerStep
  BY <1>1, <1>3, KeptByRows DEF PointerStep
<1> QED
  BY <1>2, <1>3, OwnerTxStep DEF LoopTx, AppendEvent, RecordStageArtifact

(* A handler's write maps to a step of the clients or to a stutter. *)
LEMMA RequestTxStep == ASSUME LoopInv, OneActiveRun', RequestTx PROVE PointerStep
<1>1. TypeOK /\ OneActiveRun
  BY DEF LoopInv, StoreInv
<1>2. ASSUME UNCHANGED <<run, stable, version>> PROVE PointerStep
  BY <1>1, <1>2, KeptByRows DEF PointerStep
<1>3. CASE MarkActiveRunsInterrupted
  <2>1. /\ UNCHANGED <<version, stable>>
        /\ \A q \in Run : ~Active(q)'
        /\ \A q \in Run : /\ RunExists(q)' <=> RunExists(q)
                          /\ run'[q].base = run[q].base
    BY <1>1, <1>3 DEF MarkActiveRunsInterrupted, TypeOK, RunRow, Active, RunExists, LiveStatus
  <2>2. CASE NoActiveRun
    BY <1>1, <2>1, <2>2, KeptBy DEF PointerStep, NoActiveRun, OneActiveRun
  <2>3. CASE ~NoActiveRun
    <3>1. Pointer!GiveUp
      BY <1>1, <2>1, <2>3, GivesUp DEF NoActiveRun
    <3> QED
      BY <3>1 DEF PointerStep, Pointer!Next
  <2> QED
    BY <2>2, <2>3
<1>4. ASSUME NEW v \in Version, RestoreVersion(v) PROVE PointerStep
  <2>1. v \in Published /\ Holder = NoRun /\ stable' = v /\ UNCHANGED <<run, version>>
    BY <1>4, HolderIs DEF RestoreVersion, Published
  <2>2. UNCHANGED <<Published, Holder, Bases, Known>>
    BY <2>1 DEF Published, Holder, Bases, Known, NoActiveRun, Active, RunExists
  <2>3. Pointer!Restore(v)
    BY <2>1, <2>2 DEF Pointer!Restore, Pointer!Free
  <2> QED
    BY <2>3 DEF PointerStep, Pointer!Next
<1>5. ASSUME NEW v \in Version, NEW ok \in BOOLEAN, WriteFile(v, ok) PROVE PointerStep
  <2>1. CASE ok
    <3>1. /\ Holder = NoRun /\ stable # NoVersion /\ stable' = v
          /\ version[v].status = "none" /\ UNCHANGED run
      BY <1>5, <2>1, HolderIs DEF WriteFile, NextVersion
    <3>2. v \notin Published /\ Published' = Published \cup {v}
      BY <1>1, <1>5, <2>1, <3>1 DEF WriteFile, Published, TypeOK
    <3>3. UNCHANGED <<Holder, Bases, Known>>
      BY <3>1 DEF Holder, Bases, Known, NoActiveRun, Active, RunExists
    <3>4. Pointer!Edit(v)
      BY <3>1, <3>2, <3>3 DEF Pointer!Edit, Pointer!Free
    <3> QED
      BY <3>4 DEF PointerStep, Pointer!Next
  <2>2. CASE ~ok
    <3>1. /\ UNCHANGED <<run, stable>>
          /\ \A u \in Version : version'[u].status = "stable" <=> version[u].status = "stable"
      BY <1>1, <1>5, <2>2 DEF WriteFile, NextVersion, TypeOK
    <3> QED
      BY <1>1, <3>1, KeptByRows DEF PointerStep
  <2> QED
    BY <2>1, <2>2
<1>6. ASSUME NEW r \in Run, NEW canStart \in BOOLEAN, CreateRun(r, canStart)
      PROVE  PointerStep
  <2>1. /\ NoActiveRun /\ ~RunExists(r) /\ UNCHANGED <<stable, version>>
        /\ \A q \in Run : q # r => run'[q] = run[q]
        /\ run'[r].base = stable /\ RunExists(r)'
    BY <1>1, <1>6 DEF CreateRun, NextRun, TypeOK, RunExists
  <2>2. Holder = NoRun /\ Holder' \in {r, NoRun}
    <3>1. CASE Active(r)'
      BY <2>1, <3>1, HolderIs
    <3>2. CASE ~Active(r)'
      <4>1. NoActiveRun'
        BY <2>1, <3>2 DEF NoActiveRun, Active
      <4> QED
        BY <2>1, <4>1, HolderIs
    <3> QED
      BY <3>1, <3>2
  <2>3. /\ r \notin Known /\ Known' = Known \cup {r}
        /\ Bases' = [Bases EXCEPT ![r] = stable] /\ Published' = Published
    BY <2>1 DEF Known, Bases, Published, RunExists
  <2>4. Pointer!Request(r)
    BY <2>1, <2>2, <2>3 DEF Pointer!Request, Pointer!Free
  <2> QED
    BY <2>4 DEF PointerStep, Pointer!Next
<1>7. ASSUME NEW r \in Run, NEW n \in Attempt, RetryRun(r, n) PROVE PointerStep
  <2>1. /\ NoActiveRun /\ RunExists(r) /\ UNCHANGED <<stable, version>> /\ Active(r)'
        /\ \A q \in Run : /\ RunExists(q)' <=> RunExists(q)
                          /\ run'[q].base = run[q].base
    BY <1>1, <1>7 DEF RetryRun, StartAttempt, OneActiveIndex, NoActiveRun, Active, RunExists,
       TypeOK, RunRow, LiveStatus
  <2>2. Holder = NoRun /\ Holder' = r
    BY <2>1, HolderIs
  <2>3. r \in Known /\ Known' = Known /\ Bases' = Bases /\ Published' = Published
    BY <2>1 DEF Known, Bases, Published
  <2>4. Pointer!Resume(r)
    BY <2>1, <2>2, <2>3 DEF Pointer!Resume, Pointer!Free
  <2> QED
    BY <2>4 DEF PointerStep, Pointer!Next
<1> QED
  BY <1>2, <1>3, <1>4, <1>5, <1>6, <1>7 DEF RequestTx, GetProject, RecordStageArtifact

(* ImplementsPointer: no interleaving of loops, requests, crashes and        *)
(* restarts moves the stable version in a way the abstract pointer forbids.  *)
THEOREM LoopImplementsPointer == Spec => ImplementsPointer
<1>1. Init => Pointer!Init
  <2> SUFFICES ASSUME Init PROVE Pointer!Init
    OBVIOUS
  <2>1. /\ \A r \in Run : ~Active(r) /\ ~RunExists(r) /\ run[r].base = NoVersion
        /\ \A v \in Version : version[v].status # "stable"
        /\ stable = NoVersion
    BY DEF Init, StoreInit, Active, RunExists, LiveStatus
  <2>2. Holder = NoRun /\ Published = {} /\ Known = {} /\ Bases = [r \in Run |-> NoVersion]
    BY <2>1 DEF Holder, NoActiveRun, Published, Known, Bases
  <2> QED
    BY <2>1, <2>2 DEF Pointer!Init
<1>2. LoopInv /\ LoopInv' /\ [Next]_loopVars => [Pointer!Next]_(Pointer!pointerVars)
  <2> SUFFICES ASSUME LoopInv, LoopInv', [Next]_loopVars PROVE PointerStep
    BY DEF PointerStep, PointerKept, Pointer!pointerVars
  <2>1. OneActiveRun' /\ OneActiveRun /\ TypeOK
    BY DEF LoopInv, StoreInv
  <2>2. CASE UNCHANGED storeVars
    BY <2>1, <2>2, KeptByRows DEF storeVars, PointerStep
  <2>3. CASE UNCHANGED loopVars
    BY <2>2, <2>3 DEF loopVars
  <2> QED
    BY <2>1, <2>2, <2>3, NextTx, NextIsAnyStep, LoopTxStep, RequestTxStep
<1> QED
  BY <1>1, <1>2, LoopInvariant, PTL DEF Spec, ImplementsPointer, Pointer!PointerSpec
=============================================================================
