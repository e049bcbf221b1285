-------------------------- MODULE ProjectPage_proofs --------------------------
(***************************************************************************)
(* Proofs about the project page beside the backend, for any number of     *)
(* runs, attempts, versions, text stages, repair rounds and answers on     *)
(* their way.                                                              *)
(***************************************************************************)
EXTENDS ProjectPage, AgentLoop_proofs

(* The events that a page counts are all but the messages. *)
LEMMA LifecycleTypes ==
  DOMAIN EventWorkflow = {"run_started", "stage_started", "stage_artifact", "run_failed",
                          "run_completed"}
BY DEF EventWorkflow

(* No run has the number of none. *)
LEMMA RunIsSome == \A r \in Run : r # NoRun
BY WorkflowAssumption DEF Run, NoRun

(* What a rendering does to the fields that the properties look at. *)
LEMMA Rendered ==
  ASSUME page \in PageRow, NEW p \in PageRow, Render(p)
  PROVE  /\ page' \in PageRow
         /\ page'.run = p.run /\ page'.shown = p.shown
         /\ page'.ver = p.ver /\ page'.floor = p.floor /\ page'.seen = p.seen
         /\ page'.last \in {0, p.last}
         /\ p.run # page.run => page'.last = 0
         /\ page'.took = IF p.run = page.run THEN p.took ELSE 0
         /\ page'.moved = (p.moved \/ page.run \notin {NoRun, p.run})
<1>1. PICK a \in Nat : a = IF Source(p) = Source(page) THEN p.last ELSE 0
  BY DEF PageRow
<1>6. p.run # page.run => a = 0
  BY <1>1 DEF Source
<1>2. PICK b \in Nat : b = IF p.run = page.run THEN p.took ELSE 0
  BY DEF PageRow
<1>3. PICK c \in BOOLEAN : c = (p.moved \/ page.run \notin {NoRun, p.run})
  BY DEF PageRow
<1>4. page' = [p EXCEPT !.last = a, !.took = b, !.moved = c]
  BY <1>1, <1>2, <1>3 DEF Render, PageRow
<1>5. page' \in PageRow
  BY <1>4 DEF PageRow
<1> QED
  BY <1>1, <1>2, <1>3, <1>4, <1>5, <1>6 DEF PageRow

(* What an event does to them. *)
LEMMA AppliedIs ==
  ASSUME NEW p \in PageRow, NEW type \in DOMAIN EventWorkflow \cup {"message_delta"}, NEW s,
         type = "stage_artifact" => s \in Stage,
         NEW q, q = Applied(p, type, s)
  PROVE  /\ q \in PageRow
         /\ q.run = p.run /\ q.ver = p.ver /\ q.floor >= p.floor
         /\ q.seen = p.seen /\ q.last = p.last /\ q.moved = p.moved
         /\ q.took = IF type \in DOMAIN EventWorkflow THEN p.took + 1 ELSE p.took
         /\ q.shown = "succeeded" => q.shown = p.shown \/ type = "run_completed"
<1>1. CASE type = "message_delta"
  <2>1. type \notin DOMAIN EventWorkflow
    BY <1>1, LifecycleTypes
  <2>2. q = p
    BY <1>1, <2>1 DEF Applied
  <2> QED
    BY <1>1, <2>1, <2>2 DEF PageRow
<1>2. CASE type \in DOMAIN EventWorkflow
  <2>1. PICK a \in Nat : a = p.floor + 1
    BY DEF PageRow
  <2>2. PICK b \in Nat : b = p.took + 1
    BY DEF PageRow
  <2> DEFINE c == [p EXCEPT !.floor = a, !.took = b]
  <2>3. /\ c \in PageRow
        /\ c.run = p.run /\ c.ver = p.ver /\ c.floor = p.floor + 1 /\ c.took = p.took + 1
        /\ c.seen = p.seen /\ c.last = p.last /\ c.moved = p.moved /\ c.shown = p.shown
        /\ c.arts = p.arts
    BY <2>1, <2>2 DEF PageRow
  <2>4. c = [p EXCEPT !.floor = @ + 1, !.took = @ + 1]
    BY <2>1, <2>2 DEF PageRow
  <2> HIDE DEF c
  <2>5. CASE type = "run_started"
    <3>1. q = [c EXCEPT !.shown = "running", !.wf = "running", !.err = FALSE, !.att = NoAttempt]
      BY <1>2, <2>4, <2>5 DEF Applied
    <3>2. q \in PageRow
      BY <2>3, <3>1 DEF PageRow, RunStatus, WorkflowStatus
    <3> QED
      BY <1>2, <2>3, <3>1, <3>2 DEF PageRow
  <2>6. CASE type = "stage_started"
    <3>1. q = [c EXCEPT !.shown = "running", !.wf = "running"]
      BY <1>2, <2>4, <2>6 DEF Applied
    <3>2. q \in PageRow
      BY <2>3, <3>1 DEF PageRow, RunStatus, WorkflowStatus
    <3> QED
      BY <1>2, <2>3, <3>1, <3>2 DEF PageRow
  <2>7. CASE type = "stage_artifact"
    <3>1. q = [c EXCEPT !.arts = @ \cup {s}]
      BY <1>2, <2>4, <2>7 DEF Applied
    <3>2. q \in PageRow
      BY <2>3, <2>7, <3>1 DEF PageRow
    <3> QED
      BY <1>2, <2>3, <3>1, <3>2 DEF PageRow
  <2>8. CASE type = "run_failed"
    <3>1. q = [c EXCEPT !.shown = "failed", !.wf = "failed", !.err = TRUE]
      BY <1>2, <2>4, <2>8 DEF Applied
    <3>2. q \in PageRow
      BY <2>3, <3>1 DEF PageRow, RunStatus, WorkflowStatus
    <3> QED
      BY <1>2, <2>3, <3>1, <3>2 DEF PageRow
  <2>9. CASE type = "run_completed"
    <3>1. PICK w \in WorkflowStatus : w = IF p.arts = Stage THEN "completed" ELSE "recovering"
      BY DEF WorkflowStatus
    <3>2. q = [c EXCEPT !.shown = "succeeded", !.err = FALSE, !.wf = w]
      BY <1>2, <2>4, <2>9, <3>1 DEF Applied
    <3>3. q \in PageRow
      BY <2>3, <3>2 DEF PageRow, RunStatus
    <3>4. /\ q.run = c.run /\ q.ver = c.ver /\ q.floor = c.floor
          /\ q.seen = c.seen /\ q.last = c.last /\ q.moved = c.moved /\ q.took = c.took
      BY <2>3, <3>2 DEF PageRow
    <3>5. c.floor >= p.floor
      BY <2>3 DEF PageRow
    <3> QED
      BY <1>2, <2>3, <2>9, <3>3, <3>4, <3>5
  <2>10. type \in {"run_started", "stage_started", "stage_artifact", "run_failed",
                   "run_completed"}
    BY <1>2, LifecycleTypes
  <2> QED
    BY <2>5, <2>6, <2>7, <2>8, <2>9, <2>10
<1> QED
  BY <1>1, <1>2

(* The pages' part of the logs: they only grow. *)
LogKept ==
  \A r \in Run : /\ Len(log[r]) <= Len(log'[r])
                 /\ \A i \in 1 .. Len(log[r]) : log'[r][i] = log[r][i]

(* A log that only grows keeps the lifecycle events of its beginning. *)
LEMMA LifecycleKept ==
  ASSUME LogKept, PageTypeOK, NEW r \in Run, NEW k \in Nat, k <= Len(log[r])
  PROVE  Lifecycle(r, k)' = Lifecycle(r, k)
<1>1. Len(log[r]) \in Nat
  BY DEF PageTypeOK
<1>2. \A i \in 1 .. k : log'[r][i] = log[r][i]
  BY <1>1 DEF LogKept
<1> QED
  BY <1>2 DEF Lifecycle

(* What the backend adds to a run's log in a step: nothing, or one event that *)
(* is true and numbered as its place allows.                                  *)
TrueEvent(r, e) ==
  /\ e \in Event
  /\ e.type = "run_completed" => run'[r].status = "succeeded"
  /\ e.type = "stage_artifact" => e.stage \in Stage
  /\ e.type = "message_delta" => e.seq <= Len(log[r]) + 1

(* A step of the backend appends nothing to a log or one event, which is true. *)
LEMMA EmittedIs ==
  ASSUME PageInv, AnyStep, NEW r \in Run
  PROVE  \/ /\ Emitted(r) = << >>
            /\ \A n \in Attempt : ~Emits(r, n)
         \/ \E e \in Event : Emitted(r) = <<e>> /\ TrueEvent(r, e)
<1>1. OutcomeInv /\ TypeOK
  BY DEF PageInv, OutcomeInv, LoopInv, StoreInv
<1>2. CASE ended'[r] # ended[r]
  <2>1. PICK q \in Run, n \in Attempt : EndsAttempt(q, n)
    BY <1>1, <1>2, NextWrites
  <2>2. PICK type \in Terminal :
          /\ ended' = [ended EXCEPT ![q] = Append(@, type)]
          /\ type = "run_completed" => run'[q].status = "succeeded"
    BY <2>1 DEF EndsAttempt
  <2>3. q = r /\ ended'[r] = Append(ended[r], type) /\ ended[r] \in Seq(Terminal)
    BY <1>1, <1>2, <2>2 DEF TypeOK
  <2>4. Last(ended'[r]) = type
    BY <2>3 DEF Last
  <2>5. PICK e : e = [type |-> type, stage |-> NoStage, seq |-> 0]
    OBVIOUS
  <2>6. type \in DOMAIN EventWorkflow /\ type # "stage_artifact" /\ type # "message_delta"
    BY LifecycleTypes DEF Terminal
  <2>7. e \in Event
    BY <2>5, <2>6 DEF Event
  <2>8. TrueEvent(r, e)
    BY <2>2, <2>3, <2>5, <2>6, <2>7 DEF TrueEvent
  <2>9. Emitted(r) = <<e>>
    BY <1>2, <2>4, <2>5 DEF Emitted
  <2> QED
    BY <2>7, <2>8, <2>9
<1>3. CASE ended'[r] = ended[r] /\ \E n \in Attempt : Emits(r, n)
  <2>1. PICK n \in Attempt : n = (CHOOSE m \in Attempt : Emits(r, m)) /\ Emits(r, n)
    BY <1>3
  <2>2. PICK l \in Loop : l = loop[r][n]
    BY <1>1, AtOutcome
  <2>3. RunnerOK(r, n, l) /\ TurnBehindLog(l, Len(log[r]))
    BY <1>1, <2>2, AtOutcome DEF PageInv
  <2>4. l.pc \in {"emitRunStarted", "emitStageStarted", "turn", "emitArtifact"} /\ l.ctx = "live"
    BY <2>1, <2>2 DEF Emits, EmittedAt, Live
  <2>5. PICK e : e = [type |-> EmittedAt[l.pc], stage |-> StageAt(l.at), seq |-> l.at + l.round]
    OBVIOUS
  <2>6. Emitted(r) = <<e>>
    BY <1>3, <2>1, <2>2, <2>5 DEF Emitted
  <2>7. /\ EmittedAt[l.pc] \in {"run_started", "stage_started", "message_delta", "stage_artifact"}
        /\ EmittedAt[l.pc] = "message_delta" => l.pc = "turn"
        /\ EmittedAt[l.pc] = "stage_artifact" => l.pc = "emitArtifact"
    BY <2>4 DEF EmittedAt
  <2>8. /\ StageAt(l.at) \in Stage \cup {NoStage}
        /\ l.at # 0 => StageAt(l.at) \in Stage
    BY <2>2, Stages DEF Loop
  <2>9. l.at \in Nat /\ l.round \in Nat
    BY <2>2, Stages, LoopAssumption DEF Loop
  <2>10. e \in Event
    <3>1. EmittedAt[l.pc] \in DOMAIN EventWorkflow \cup {"message_delta"}
      BY <2>7, LifecycleTypes
    <3> QED
      BY <2>5, <2>8, <2>9, <3>1 DEF Event
  <2>11. e.type = "stage_artifact" => e.stage \in Stage
    BY <2>3, <2>5, <2>7, <2>8 DEF RunnerOK
  <2>12. e.type = "message_delta" => e.seq <= Len(log[r]) + 1
    BY <2>3, <2>4, <2>5, <2>7 DEF TurnBehindLog
  <2>13. e.type # "run_completed"
    BY <2>5, <2>7
  <2> QED
    BY <2>6, <2>10, <2>11, <2>12, <2>13 DEF TrueEvent
<1>4. CASE ended'[r] = ended[r] /\ ~\E n \in Attempt : Emits(r, n)
  BY <1>4 DEF Emitted
<1> QED
  BY <1>2, <1>3, <1>4

(* The logs after a step of the backend. *)
LEMMA LoggedKeeps ==
  ASSUME PageInv, AnyStep, Logged
  PROVE  /\ LogKept /\ LogsTrue' /\ log' \in [Run -> Seq(Event)]
         /\ \A r \in Run, n \in Attempt : Emits(r, n) => Len(log'[r]) = Len(log[r]) + 1
<1>1. OutcomeInv /\ PageTypeOK /\ LogsTrue /\ LoopInv /\ AnyTx
  BY NextTx DEF PageInv, OutcomeInv, AnyTx
<1>2. ASSUME NEW r \in Run
      PROVE  \/ log'[r] = log[r] /\ \A n \in Attempt : ~Emits(r, n)
             \/ \E e \in Event : log'[r] = Append(log[r], e) /\ TrueEvent(r, e)
  <2>1. log'[r] = log[r] \o Emitted(r) /\ log[r] \in Seq(Event)
    BY <1>1 DEF Logged, PageTypeOK
  <2>2. \A e \in Event : log[r] \o <<e>> = Append(log[r], e)
    BY <2>1
  <2>3. log[r] \o << >> = log[r]
    BY <2>1
  <2> QED
    BY <2>1, <2>2, <2>3, EmittedIs
<1>3. ASSUME NEW r \in Run
      PROVE  /\ log'[r] \in Seq(Event)
             /\ Len(log[r]) <= Len(log'[r])
             /\ \A i \in 1 .. Len(log[r]) : log'[r][i] = log[r][i]
             /\ \A n \in Attempt : Emits(r, n) => Len(log'[r]) = Len(log[r]) + 1
  <2>1. log[r] \in Seq(Event) /\ Len(log[r]) \in Nat
    BY <1>1 DEF PageTypeOK
  <2>2. CASE log'[r] = log[r] /\ \A n \in Attempt : ~Emits(r, n)
    BY <2>1, <2>2
  <2>3. ASSUME NEW e \in Event, log'[r] = Append(log[r], e)
        PROVE  /\ log'[r] \in Seq(Event)
               /\ Len(log'[r]) = Len(log[r]) + 1
               /\ \A i \in 1 .. Len(log[r]) : log'[r][i] = log[r][i]
    BY <2>1, <2>3
  <2> QED
    BY <1>2, <2>1, <2>2, <2>3
<1>4. log' \in [Run -> Seq(Event)]
  BY <1>3 DEF Logged
<1>5. ASSUME NEW r \in Run, NEW i \in DOMAIN log'[r]
      PROVE  /\ log'[r][i].type = "run_completed" => run'[r].status = "succeeded"
             /\ log'[r][i].type = "stage_artifact" => log'[r][i].stage \in Stage
             /\ log'[r][i].type = "message_delta" => log'[r][i].seq <= i
  <2>1. log[r] \in Seq(Event) /\ Len(log[r]) \in Nat
    BY <1>1 DEF PageTypeOK
  <2>2. CASE i \in DOMAIN log[r]
    <3>1. log'[r][i] = log[r][i]
      BY <1>3, <2>1, <2>2
    <3> QED
      BY <1>1, <2>2, <3>1, SucceededKept DEF LogsTrue
  <2>3. CASE i \notin DOMAIN log[r]
    <3>1. PICK e \in Event : log'[r] = Append(log[r], e) /\ TrueEvent(r, e)
      BY <1>2, <2>3
    <3>2. i = Len(log[r]) + 1 /\ log'[r][i] = e
      BY <2>1, <2>3, <3>1
    <3> QED
      BY <3>1, <3>2 DEF TrueEvent
  <2> QED
    BY <2>2, <2>3
<1> QED
  BY <1>3, <1>4, <1>5 DEF LogKept, LogsTrue

-----------------------------------------------------------------------------
(* The numbers of the messages: a loop that goes on where it is stays behind *)
(* its log.                                                                  *)
LEMMA TurnKept ==
  ASSUME NEW l \in Loop, NEW k \in Loop, NEW a \in Nat, NEW b \in Nat, a <= b,
         TurnBehindLog(l, a),
         k.at = l.at, k.round = l.round, k.ctx = "live" => l.ctx = "live",
         k.pc \in {"createDraft", "dropDraft"} => l.pc \in {"createDraft", "dropDraft"},
         k.pc \in {"load", "emitRunStarted", "begin"}
           => l.pc \in {"load", "emitRunStarted", "begin"}
  PROVE  TurnBehindLog(k, b)
<1>1. l.at \in Nat /\ l.round \in Nat
  BY Stages, LoopAssumption DEF Loop
<1> QED
  BY <1>1 DEF TurnBehindLog

(* The steps that move only on. *)
LEMMA TurnGoto ==
  ASSUME NEW l \in Loop, NEW k \in Loop, NEW a \in Nat, NEW b \in Nat, a <= b,
         TurnBehindLog(l, a),
         NEW pc \in Steps \ {"load", "emitRunStarted", "createDraft", "dropDraft"},
         pc = "begin" => l.pc = "emitRunStarted",
         NEW t, k = [l EXCEPT !.att = t, !.pc = pc]
  PROVE  TurnBehindLog(k, b)
<1>1. k.at = l.at /\ k.round = l.round /\ k.ctx = l.ctx /\ k.pc = pc
  BY DEF Loop
<1> QED
  BY <1>1, TurnKept

(* A stage further, or a repair round: one more. *)
LEMMA OneFurther ==
  ASSUME NEW x \in Nat, NEW y \in Nat, NEW z \in Nat, NEW a \in Nat, NEW b \in Nat,
         x + y <= a, a <= b, z <= x + 1
  PROVE  z + y <= b + 1
OBVIOUS

(* A step of a loop leaves it behind its run's log. *)
LEMMA TurnsStep ==
  ASSUME PageInv, NEW r \in Run, NEW n \in Attempt,
         LoopStep(r, n), NEW k \in Loop, StepTo(r, n, k),
         NEW a \in Nat, NEW b \in Nat, a = Len(log[r]), a <= b,
         Emits(r, n) => b = a + 1
  PROVE  TurnBehindLog(k, b)
<1> DEFINE l == loop[r][n]
<1>1. /\ LoopRows /\ l \in Loop /\ RunnerOK(r, n, l) /\ up
      /\ loop'[r][n] = k /\ up' = up
  <2>1. OutcomeInv
    BY DEF PageInv
  <2>2. loop \in [Run -> [Attempt -> Loop]]
    BY <2>1, AtOutcome DEF LoopRows
  <2> QED
    BY <2>1, <2>2, AtOutcome, LoopStepIsUp DEF StepTo
<1>2. TurnBehindLog(l, a)
  BY DEF PageInv
<1>3. /\ l.at \in Nat /\ l.round \in Nat /\ k.at \in Nat /\ k.round \in Nat
      /\ EngineerAt \in Nat /\ QAAt = EngineerAt + 1
  BY <1>1, Stages, LoopAssumption DEF Loop
<1>4. ASSUME NEW pc \in Steps \ {"load", "emitRunStarted", "createDraft", "dropDraft"},
             pc = "begin" => l.pc = "emitRunStarted", Goto(r, n, pc)
      PROVE  TurnBehindLog(k, b)
  <2>1. k = [l EXCEPT !.pc = pc]
    BY <1>1, <1>4, StepNames
  <2>2. k = [l EXCEPT !.att = l.att, !.pc = pc]
    BY <1>1, <2>1 DEF Loop
  <2> QED
    BY <1>1, <1>2, <1>4, <2>2, TurnGoto
<1>5. ASSUME Return(r, n) PROVE TurnBehindLog(k, b)
  <2>1. k = [NotLaunched EXCEPT !.pc = "done", !.ctx = l.ctx]
    BY <1>1, <1>5 DEF LoopRows, Return
  <2>2. k.pc = "done" /\ k.at = 0 /\ k.round = 0
    BY <2>1 DEF NotLaunched
  <2> QED
    BY <1>2, <2>2 DEF TurnBehindLog
<1>6. ASSUME l.ctx = "live", l.pc \in DOMAIN EmittedAt, k.pc \notin {l.pc, "failInfra"}
      PROVE  b = a + 1
  BY <1>1, <1>6 DEF Emits, Live
<1>7. CASE Load(r, n)
  <2>1. CASE run[r].active = NoAttempt
    BY <1>4, <1>7, <2>1 DEF Load, Steps
  <2>2. CASE run[r].active # NoAttempt
    <3>1. k = [l EXCEPT !.att = run[r].active, !.pc = "emitRunStarted"]
      BY <1>1, <1>7, <2>2, StepNames DEF Load
    <3>2. k.at = l.at /\ k.round = l.round /\ k.ctx = l.ctx /\ k.pc = "emitRunStarted"
      BY <1>1, <3>1 DEF Loop
    <3> QED
      BY <1>1, <1>2, <1>7, <3>2, TurnKept DEF Load, At
  <2> QED
    BY <2>1, <2>2
<1>8. CASE EmitRunStarted(r, n)
  BY <1>4, <1>8 DEF EmitRunStarted, At, Steps
<1>9. CASE Begin(r, n)
  <2>1. CASE Live(r, n)
    <3>1. k = [l EXCEPT !.at = 1, !.pc = "emitStageStarted"]
      BY <1>1, <1>9, <2>1, StepNames DEF Begin
    <3>2. k.at = 1 /\ k.round = l.round /\ k.pc = "emitStageStarted"
      BY <1>1, <3>1 DEF Loop
    <3> QED
      BY <1>2, <1>9, <3>2 DEF TurnBehindLog, Begin, At
  <2>2. CASE ~Live(r, n)
    BY <1>4, <1>9, <2>2 DEF Begin, Steps
  <2> QED
    BY <2>1, <2>2
<1>10. CASE EmitStageStarted(r, n)
  BY <1>4, <1>10 DEF EmitStageStarted, Steps
<1>11. CASE TurnOk(r, n)
  <2>1. PICK pc \in {"createDraft", "record"} : Goto(r, n, pc)
    BY <1>11 DEF TurnOk
  <2>2. k = [l EXCEPT !.pc = pc]
    BY <1>1, <2>1, StepNames
  <2>3. k.at = l.at /\ k.round = l.round /\ k.ctx = l.ctx /\ k.pc = pc
    BY <1>1, <2>2 DEF Loop
  <2>4. l.pc = "turn" /\ l.ctx = "live"
    BY <1>11 DEF TurnOk, At, Live
  <2>5. b = a + 1
    BY <1>6, <2>1, <2>3, <2>4 DEF EmittedAt
  <2> QED
    BY <1>2, <1>3, <2>1, <2>3, <2>4, <2>5 DEF TurnBehindLog
<1>12. CASE TurnErr(r, n)
  BY <1>4, <1>12 DEF TurnErr, Steps
<1>13. CASE Record(r, n)
  BY <1>4, <1>13 DEF Record, Steps
<1>14. CASE EmitArtifact(r, n)
  <2>1. CASE l.at = QAAt
    BY <1>4, <1>14, <2>1 DEF EmitArtifact, Steps
  <2>2. CASE l.at # QAAt
    <3>1. k = [l EXCEPT !.at = l.at + 1, !.pc = "emitStageStarted"]
      BY <1>1, <1>14, <2>2, StepNames DEF EmitArtifact
    <3>2. k.at = l.at + 1 /\ k.round = l.round /\ k.ctx = l.ctx /\ k.pc = "emitStageStarted"
      BY <1>1, <3>1 DEF Loop
    <3>3. l.pc = "emitArtifact"
      BY <1>14 DEF EmitArtifact, At
    <3>4. l.ctx = "live" => b = a + 1
      BY <1>6, <3>2, <3>3 DEF EmittedAt
    <3>5. ASSUME l.ctx = "live" PROVE k.at + k.round <= b + 1
      <4>1. l.at + l.round <= b
        BY <1>2, <3>3, <3>4, <3>5 DEF TurnBehindLog
      <4>2. l.at + 1 \in Nat /\ l.at + 1 <= l.at + 1 /\ b <= b
        BY <1>3
      <4>3. (l.at + 1) + l.round <= b + 1
        BY <1>3, <4>1, <4>2, OneFurther
      <4> QED
        BY <3>2, <4>3
    <3> QED
      BY <3>2, <3>5 DEF TurnBehindLog
  <2> QED
    BY <2>1, <2>2
<1>15. ASSUME NEW v \in Version, Become(r, n, Drafted(l, v)),
              l.pc \in {"createDraft", "dropDraft"}
       PROVE  TurnBehindLog(k, b)
  <2>1. k = Drafted(l, v) /\ l.at = EngineerAt
    BY <1>1, <1>15, StepNames DEF RunnerOK
  <2>2. /\ k.round = l.round /\ k.ctx = l.ctx /\ k.pc \in {"record", "gate"}
        /\ k.at \in {l.at, QAAt}
    BY <1>1, <2>1 DEF Drafted, Loop
  <2>3. ASSUME l.ctx = "live" PROVE k.at + k.round <= b + 1
    <3>1. l.at + l.round <= a
      BY <1>2, <1>15, <2>3 DEF TurnBehindLog
    <3>2. k.at <= l.at + 1
      BY <1>3, <2>1, <2>2
    <3>3. k.at + l.round <= b + 1
      BY <1>3, <3>1, <3>2, OneFurther
    <3> QED
      BY <2>2, <3>3
  <2> QED
    BY <2>2, <2>3 DEF TurnBehindLog
<1>16. CASE WriteDraft(r, n)
  <2>1. l.pc = "createDraft"
    BY <1>16 DEF WriteDraft, At
  <2>2. CASE Live(r, n)
    <3>1. PICK v \in Version :
            Become(r, n, IF l.draft = NoVersion THEN Drafted(l, v)
                         ELSE [l EXCEPT !.new = v, !.pc = "dropDraft"])
      BY <1>16, <2>2 DEF WriteDraft
    <3>2. CASE l.draft = NoVersion
      BY <1>15, <2>1, <3>1, <3>2
    <3>3. CASE l.draft # NoVersion
      <4>1. k = [l EXCEPT !.new = v, !.pc = "dropDraft"]
        BY <1>1, <3>1, <3>3, StepNames
      <4>2. k.at = l.at /\ k.round = l.round /\ k.ctx = l.ctx /\ k.pc = "dropDraft"
        BY <1>1, <4>1 DEF Loop
      <4> QED
        BY <1>1, <1>2, <2>1, <4>2, TurnKept
    <3> QED
      BY <3>2, <3>3
  <2>3. CASE ~Live(r, n)
    BY <1>4, <1>16, <2>3 DEF WriteDraft, Steps
  <2> QED
    BY <2>2, <2>3
<1>17. CASE ReplaceDraft(r, n)
  <2>1. l.pc = "dropDraft" /\ Become(r, n, Drafted(l, l.new))
    BY <1>17 DEF ReplaceDraft, At
  <2>2. l.new \in Version
    BY <1>1, <2>1 DEF RunnerOK, Loop
  <2> QED
    BY <1>15, <2>1, <2>2
<1>18. CASE Gate(r, n)
  <2>1. l.pc = "gate" /\ l.at = QAAt
    BY <1>1, <1>18 DEF Gate, At, RunnerOK
  <2>2. PICK pc \in {"record", "failDraft", "turn"}, i \in Nat, j \in Nat :
          /\ Become(r, n, [l EXCEPT !.round = j, !.at = i, !.pc = pc])
          /\ i + j = l.at + l.round
    <3>1. CASE version[l.draft].ok
      <4>1. Become(r, n, [l EXCEPT !.pc = "record"])
        BY <1>18, <3>1 DEF Gate
      <4>2. [l EXCEPT !.pc = "record"] = [l EXCEPT !.round = l.round, !.at = l.at, !.pc = "record"]
        BY <1>1 DEF Loop
      <4> QED
        BY <1>3, <4>1, <4>2
    <3>2. CASE ~version[l.draft].ok /\ l.round >= MaxAutoFixRounds
      <4>1. Become(r, n, [l EXCEPT !.pc = "failDraft"])
        BY <1>18, <3>2 DEF Gate
      <4>2. [l EXCEPT !.pc = "failDraft"]
              = [l EXCEPT !.round = l.round, !.at = l.at, !.pc = "failDraft"]
        BY <1>1 DEF Loop
      <4> QED
        BY <1>3, <4>1, <4>2
    <3>3. CASE ~version[l.draft].ok /\ ~(l.round >= MaxAutoFixRounds)
      <4>1. Become(r, n, [l EXCEPT !.round = l.round + 1, !.at = EngineerAt, !.pc = "turn"])
        BY <1>18, <3>3 DEF Gate
      <4>2. l.at = EngineerAt + 1
        BY <1>3, <2>1
      <4>3. l.round + 1 \in Nat /\ EngineerAt + (l.round + 1) = l.at + l.round
        BY <1>3, <4>2
      <4> QED
        BY <1>3, <4>1, <4>3
    <3> QED
      BY <3>1, <3>2, <3>3
  <2>3. k = [l EXCEPT !.round = j, !.at = i, !.pc = pc]
    BY <1>1, <2>2, StepNames
  <2>4. k.at + k.round = l.at + l.round /\ k.ctx = l.ctx /\ k.pc = pc
    BY <1>1, <2>2, <2>3 DEF Loop
  <2> QED
    BY <1>2, <1>3, <2>1, <2>2, <2>4 DEF TurnBehindLog
<1>19. CASE Promote(r, n)
  BY <1>4, <1>19 DEF Promote, Steps
<1>20. CASE FailLastDraft(r, n)
  BY <1>4, <1>20 DEF FailLastDraft, Steps
<1>21. CASE FailInfra(r, n)
  BY <1>4, <1>21 DEF FailInfra, Steps
<1>22. CASE WatchdogRead(r, n) \/ WatchdogCancel(r, n)
  <2>1. k \in {[l EXCEPT !.armed = TRUE], [l EXCEPT !.ctx = "cancelled"]}
    BY <1>1, <1>22 DEF WatchdogRead, WatchdogCancel, LoopRows
  <2>2. k.at = l.at /\ k.round = l.round /\ k.pc = l.pc /\ k.ctx \in {l.ctx, "cancelled"}
    BY <1>1, <2>1 DEF Loop
  <2> QED
    BY <1>1, <1>2, <2>2, TurnKept
<1> QED
  BY <1>5, <1>7, <1>8, <1>9, <1>10, <1>11, <1>12, <1>13, <1>14, <1>16, <1>17, <1>18, <1>19,
     <1>20, <1>21, <1>22 DEF LoopStep, Proceed, EmitCompleted, EmitCompileFailed, EmitFailed

(* And every step of the program leaves all of them behind. *)
LEMMA TurnsNext ==
  ASSUME PageInv, AnyStep, Logged
  PROVE  \A r \in Run, n \in Attempt : TurnBehindLog(loop'[r][n], Len(log'[r]))
<1>1. LoopInv /\ loop \in [Run -> [Attempt -> Loop]]
  BY DEF PageInv, OutcomeInv, LoopInv, LoopTypeOK
<1> SUFFICES ASSUME NEW r \in Run, NEW n \in Attempt
             PROVE  TurnBehindLog(loop'[r][n], Len(log'[r]))
  OBVIOUS
<1>2. PICK a \in Nat, b \in Nat : a = Len(log[r]) /\ b = Len(log'[r])
  BY LoggedKeeps DEF PageInv, PageTypeOK
<1>3. a <= b /\ (Emits(r, n) => b = a + 1)
  BY <1>2, LoggedKeeps DEF LogKept
<1>4. PICK l \in Loop : l = loop[r][n]
  BY <1>1
<1>5. TurnBehindLog(l, a)
  BY <1>2, <1>4 DEF PageInv
<1>6. ASSUME loop'[r][n] = l PROVE TurnBehindLog(loop'[r][n], b)
  BY <1>3, <1>5, <1>6, TurnKept
<1>7. ASSUME loop'[r][n] \in {NotLaunched, [NotLaunched EXCEPT !.pc = "done"], Launched}
      PROVE  TurnBehindLog(loop'[r][n], b)
  <2>1. PICK k : k = loop'[r][n]
    OBVIOUS
  <2>2. k.at = 0 /\ k.round = 0 /\ k.pc \in {"none", "done", "load"}
    BY <1>7, <2>1 DEF NotLaunched, Launched
  <2>3. 0 + 0 <= b + 1
    OBVIOUS
  <2> QED
    BY <2>1, <2>2, <2>3 DEF TurnBehindLog
<1>8. ASSUME NEW q \in Run, NEW m \in Attempt, LoopStep(q, m)
      PROVE  TurnBehindLog(loop'[r][n], b)
  <2>1. PICK k \in Loop : StepTo(q, m, k)
    BY <1>1, <1>8, LoopStepsTo
  <2>2. loop' = [loop EXCEPT ![q][m] = k]
    BY <2>1 DEF StepTo
  <2>3. CASE q = r /\ m = n
    BY <1>1, <1>2, <1>3, <1>8, <2>1, <2>2, <2>3, LoopMoves, TurnsStep
  <2>4. CASE ~(q = r /\ m = n)
    BY <1>1, <1>4, <1>6, <2>2, <2>4, LoopMoves
  <2> QED
    BY <2>3, <2>4
<1>9. ASSUME Served PROVE TurnBehindLog(loop'[r][n], b)
  <2>1. ASSUME NEW q \in Run, NEW m \in Attempt, Become(q, m, Launched)
        PROVE  loop'[r][n] \in {loop[r][n], Launched}
    BY <1>1, <2>1 DEF Become
  <2>2. loop' = loop \/ \E q \in Run, m \in Attempt : Become(q, m, Launched)
    BY <1>9, AttemptOne DEF Served, HandleGetProject, HandleRestoreVersion, HandleWriteFile,
       HandleCreateRun, HandleRetryRun, HandleCompileResult
  <2>3. loop'[r][n] \in {l, Launched}
    BY <1>4, <2>1, <2>2
  <2> QED
    BY <1>6, <1>7, <2>3
<1>10. ASSUME Crash PROVE TurnBehindLog(loop'[r][n], b)
  BY <1>7, <1>10 DEF Crash
<1>11. ASSUME Restart PROVE TurnBehindLog(loop'[r][n], b)
  BY <1>4, <1>6, <1>11 DEF Restart
<1> QED
  BY <1>2, <1>8, <1>9, <1>10, <1>11 DEF AnyStep

(* Every step of the page: the backend steps beside it, or stands. *)
Backend == (AnyStep /\ Logged) \/ UNCHANGED <<loopVars, log>>

(* What the page may rely on, whatever the backend does. *)
BackendOK ==
  /\ OutcomeInv
  /\ log \in [Run -> Seq(Event)]
  /\ LogsTrue
  /\ \A r \in Run, n \in Attempt : TurnBehindLog(loop[r][n], Len(log[r]))

(* The backend's part of PageInv is kept by every step of the backend. *)
LEMMA BackendKeeps ==
  ASSUME PageInv, Backend
  PROVE  /\ BackendOK'
         /\ LogKept
         /\ \A r \in Run : run[r].status = "succeeded" => run'[r].status = "succeeded"
<1>1. OutcomeInv /\ LoopInv /\ log \in [Run -> Seq(Event)]
  BY DEF PageInv, PageTypeOK, OutcomeInv
<1>2. CASE AnyStep /\ Logged
  <2>1. OutcomeInv' /\ AnyTx
    BY <1>1, <1>2, OutcomeInvNext, NextTx DEF AnyTx
  <2> QED
    BY <1>1, <1>2, <2>1, LoggedKeeps, TurnsNext, SucceededKept DEF BackendOK
<1>3. CASE UNCHANGED <<loopVars, log>>
  <2>1. OutcomeInv' /\ UNCHANGED <<run, loop, log>>
    BY <1>1, <1>3, OutcomeInvStutter DEF loopVars, storeVars
  <2>2. LogsTrue' /\ LogKept
    BY <1>1, <2>1 DEF PageInv, LogsTrue, LogKept
  <2> QED
    BY <1>1, <2>1, <2>2 DEF PageInv, BackendOK, TurnBehindLog
<1> QED
  BY <1>2, <1>3 DEF Backend

-----------------------------------------------------------------------------
(* The least of some numbers. *)
LEMMA MinIs ==
  ASSUME NEW T \in SUBSET Nat, T # {}
  PROVE  Min(T) \in T /\ \A j \in T : Min(T) <= j
<1>1. PICK i \in T : \A j \in T : ~(<<j, i>> \in OpToRel(<, Nat))
  BY NatLessThanWellFounded, WFMin
<1>2. \A x, y \in Nat : x < y => <<x, y>> \in OpToRel(<, Nat)
  BY DEF OpToRel
<1>3. ASSUME NEW j \in T PROVE i <= j
  <2>1. i \in Nat /\ j \in Nat
    OBVIOUS
  <2>2. ~(j < i)
    BY <1>1, <1>2, <2>1
  <2> QED
    BY <2>1, <2>2
<1> QED
  BY <1>3 DEF Min

(* The lifecycle events among the first of a log. *)
LEMMA LifecycleIs ==
  ASSUME NEW r, NEW k \in Nat
  PROVE  Lifecycle(r, k) \in SUBSET Nat /\ IsFiniteSet(Lifecycle(r, k))
<1>1. Lifecycle(r, k) \in SUBSET (1 .. k)
  BY DEF Lifecycle
<1>2. IsFiniteSet(1 .. k)
  BY FS_Interval
<1> QED
  BY <1>1, <1>2, FS_Subset

(* Where a page p is in the log of its run: Placed and AppliedOnce, of p. *)
PlacedAt(p) ==
  IF p.run = NoRun THEN p.last = 0 /\ (~p.moved => p.seen = 0)
  ELSE /\ p.last <= Len(log[p.run])
       /\ ~p.moved => /\ p.seen <= Len(log[p.run])
                      /\ \A i \in Lifecycle(p.run, p.last) : i <= p.seen
                      /\ p.took = Cardinality(Lifecycle(p.run, p.seen))

(* The two parts of PageInv on the place of the page, as one. *)
LEMMA PlacedIs == PlacedAt(page) <=> Placed /\ AppliedOnce
BY DEF PlacedAt, Placed, AppliedOnce

(* What is to be shown of the page in every state: its part of PageInv. *)
PagePart ==
  /\ page \in PageRow
  /\ page.ver <= page.floor
  /\ SuccessIsReal
  /\ PlacedAt(page)

(* PageInv contains the page's part of it. *)
LEMMA PageHas == ASSUME PageInv PROVE PagePart
BY PlacedIs DEF PageInv, PageTypeOK, PagePart

(* A step that leaves the page alone keeps it: the log only grew. *)
LEMMA PageStands ==
  ASSUME PageInv, Backend, UNCHANGED page PROVE PagePart'
<1>1. /\ PagePart /\ PageTypeOK /\ LogKept
      /\ \A r \in Run : run[r].status = "succeeded" => run'[r].status = "succeeded"
  BY PageHas, BackendKeeps DEF PageInv
<1>2. PICK p \in PageRow : p = page
  BY <1>1 DEF PagePart
<1>3. SuccessIsReal'
  BY <1>1, <1>2 DEF PagePart, SuccessIsReal, PageRow
<1>4. PlacedAt(p)'
  <2>1. PlacedAt(p)
    BY <1>1, <1>2 DEF PagePart
  <2>2. CASE p.run = NoRun
    BY <2>1, <2>2 DEF PlacedAt
  <2>3. CASE p.run # NoRun
    <3>1. PICK r \in Run, i \in Nat, k \in Nat : r = p.run /\ i = p.last /\ k = p.seen
      BY <2>3 DEF PageRow
    <3>2. Len(log[r]) \in Nat /\ Len(log'[r]) \in Nat /\ Len(log[r]) <= Len(log'[r])
      BY <1>1, BackendKeeps DEF LogKept, PageTypeOK, BackendOK
    <3>3. i <= Len(log[r]) /\ (~p.moved => k <= Len(log[r]))
      BY <2>1, <2>3, <3>1 DEF PlacedAt
    <3>4. i <= Len(log'[r]) /\ (~p.moved => k <= Len(log'[r]))
      BY <3>2, <3>3
    <3>5. Lifecycle(r, i)' = Lifecycle(r, i) /\ (~p.moved => Lifecycle(r, k)' = Lifecycle(r, k))
      BY <1>1, <3>3, LifecycleKept
    <3> QED
      BY <2>1, <2>3, <3>1, <3>4, <3>5 DEF PlacedAt
  <2> QED
    BY <2>2, <2>3
<1> QED
  BY <1>1, <1>2, <1>3, <1>4 DEF PagePart, PlacedAt

(* A rendering keeps it, if what is rendered has its place. *)
LEMMA PageRendered ==
  ASSUME PageInv, UNCHANGED <<loopVars, log>>, NEW p \in PageRow, Render(p),
         p.moved = page.moved, p.ver <= p.floor, p.ver >= page.ver,
         p.shown = "succeeded" /\ p.run # NoRun => run[p.run].status = "succeeded",
         p.run = page.run => PlacedAt(p),
         p.run # page.run => p.seen = page.seen /\ p.last = page.last
  PROVE  PagePart' /\ page'.ver >= page.ver
<1>1. PagePart /\ PageTypeOK /\ UNCHANGED run
  BY PageHas DEF PageInv, loopVars, storeVars
<1>2. PICK q \in PageRow :
        /\ q = page'
        /\ q.run = p.run /\ q.shown = p.shown /\ q.ver = p.ver /\ q.floor = p.floor
        /\ q.seen = p.seen
        /\ q.last \in {0, p.last} /\ (p.run # page.run => q.last = 0)
        /\ q.took = IF p.run = page.run THEN p.took ELSE 0
        /\ q.moved = (p.moved \/ page.run \notin {NoRun, p.run})
  BY <1>1, Rendered DEF PagePart
<1>3. SuccessIsReal'
  BY <1>1, <1>2 DEF SuccessIsReal
<1>4. PlacedAt(q)
  <2>1. CASE p.run = page.run
    <3>1. PlacedAt(p) /\ q.run = p.run /\ q.took = p.took /\ q.moved = p.moved /\ q.seen = p.seen
      BY <1>2, <2>1 DEF PageRow
    <3>2. CASE q.last = p.last
      BY <3>1, <3>2 DEF PlacedAt
    <3>3. CASE q.last = 0
      <4>1. Lifecycle(q.run, q.last) = {}
        BY <3>3 DEF Lifecycle
      <4>2. q.run # NoRun => 0 <= Len(log[q.run])
        <5>1. q.run # NoRun => log[q.run] \in Seq(Event)
          BY <1>1 DEF PageRow, PageTypeOK
        <5> QED
          BY <5>1
      <4> QED
        BY <3>1, <3>3, <4>1, <4>2 DEF PlacedAt
    <3> QED
      BY <1>2, <3>2, <3>3
  <2>2. CASE p.run # page.run
    <3>1. q.last = 0 /\ q.took = 0
      BY <1>2, <2>2
    <3>2. ~q.moved => q.seen = 0
      BY <1>1, <1>2, <2>2 DEF PagePart, PlacedAt
    <3>3. Lifecycle(q.run, 0) = {}
      BY DEF Lifecycle
    <3>4. q.run # NoRun => 0 <= Len(log[q.run])
      <4>1. q.run # NoRun => log[q.run] \in Seq(Event)
        BY <1>1 DEF PageRow, PageTypeOK
      <4> QED
        BY <4>1
    <3>5. Cardinality({}) = 0
      BY FS_EmptySet
    <3> QED
      BY <3>1, <3>2, <3>3, <3>4, <3>5 DEF PlacedAt
  <2> QED
    BY <2>1, <2>2
<1>5. PlacedAt(q)'
  BY <1>4 DEF PlacedAt, Lifecycle
<1> QED
  BY <1>2, <1>3, <1>5 DEF PagePart, PlacedAt

-----------------------------------------------------------------------------
(* The next event a page has not seen, the i-th of its run's log: the events *)
(* of the run's lifecycle before it were all seen.                           *)
LEMMA SeenBefore ==
  ASSUME PageInv, page.run # NoRun, ~page.moved, NEW i \in Nat, i <= Len(log[page.run]),
         \A j \in Unseen : i <= j
  PROVE  \A j \in Lifecycle(page.run, i) : j # i => j <= page.seen
<1>1. /\ page \in PageRow /\ page.last \in Nat /\ page.seen \in Nat
      /\ Len(log[page.run]) \in Nat
      /\ \A j \in Lifecycle(page.run, page.last) : j <= page.seen
  BY DEF PageInv, PageTypeOK, PageRow, Placed
<1> SUFFICES ASSUME NEW j \in Lifecycle(page.run, i), j # i PROVE j <= page.seen
  OBVIOUS
<1>2. j \in Nat /\ 1 <= j /\ j < i /\ log[page.run][j].type \in DOMAIN EventWorkflow
  BY DEF Lifecycle
<1>3. CASE j <= page.last
  <2>1. j \in Lifecycle(page.run, page.last)
    BY <1>1, <1>2, <1>3 DEF Lifecycle
  <2> QED
    BY <1>1, <2>1
<1>4. CASE ~(j <= page.last)
  <2>1. j \in Ahead
    BY <1>1, <1>2, <1>4 DEF Ahead
  <2>2. j \notin Unseen
    BY <1>2
  <2>3. Number(j) = j
    BY <1>2, LifecycleTypes DEF Number
  <2> QED
    BY <1>1, <1>2, <2>1, <2>2, <2>3 DEF Unseen, Fresh
<1> QED
  BY <1>3, <1>4

(* A delivered event has its place after what the page has seen. *)
LEMMA DeliveredPlace ==
  ASSUME PageInv, page.run # NoRun, NEW i \in Unseen, \A j \in Unseen : i <= j,
         NEW p \in PageRow,
         p.run = page.run, p.moved = page.moved, p.last = i, p.seen = Number(i),
         p.took = IF log[page.run][i].type \in DOMAIN EventWorkflow
                  THEN page.took + 1 ELSE page.took
  PROVE  PlacedAt(p)
<1> DEFINE r == page.run
           e == log[page.run][i]
           C(k) == Cardinality(Lifecycle(r, k))
<1>1. /\ page \in PageRow /\ r \in Run /\ page.seen \in Nat /\ page.took \in Nat
      /\ page.last \in Nat /\ log[r] \in Seq(Event) /\ Len(log[r]) \in Nat
      /\ ~page.moved => page.took = C(page.seen)
  BY DEF PageInv, PageTypeOK, PageRow, AppliedOnce
<1>2. i \in Nat /\ 1 <= i /\ i <= Len(log[r]) /\ page.seen < Number(i)
  BY <1>1 DEF Unseen, Ahead, Fresh
<1>3. e \in Event /\ (e.type = "message_delta" => e.seq <= i)
  BY <1>1, <1>2 DEF PageInv, LogsTrue
<1>4. e.type \in DOMAIN EventWorkflow \/ e.type = "message_delta"
  BY <1>3 DEF Event
<1>5. e.seq \in Nat
  BY <1>3 DEF Event
<1>6. PICK k \in Nat : /\ k = Number(i) /\ k <= i /\ page.seen < k
                       /\ e.type \in DOMAIN EventWorkflow => k = i
  BY <1>2, <1>3, <1>4, <1>5, LifecycleTypes DEF Number
<1>7. ASSUME ~page.moved
      PROVE  /\ k <= Len(log[r])
             /\ \A j \in Lifecycle(r, i) : j <= k
             /\ p.took = C(k)
  <2>1. \A j \in Lifecycle(r, i) : j # i => j <= page.seen
    BY <1>2, <1>7, SeenBefore
  <2>2. \A j \in Lifecycle(r, i) : j \in Nat /\ (j = i => k = i)
    BY <1>6 DEF Lifecycle
  <2>3. \A j \in Lifecycle(r, i) : j <= k
    BY <1>1, <1>6, <2>1, <2>2
  <2>4. CASE e.type \in DOMAIN EventWorkflow
    <3>1. k = i /\ p.took = C(page.seen) + 1
      BY <1>1, <1>6, <1>7, <2>4
    <3>2. Lifecycle(r, i) = Lifecycle(r, page.seen) \cup {i}
      <4>1. ASSUME NEW j \in Lifecycle(r, i), j # i PROVE j \in Lifecycle(r, page.seen)
        BY <1>1, <2>1, <4>1 DEF Lifecycle
      <4>2. i \in Lifecycle(r, i)
        BY <1>2, <2>4 DEF Lifecycle
      <4>3. ASSUME NEW j \in Lifecycle(r, page.seen) PROVE j \in Lifecycle(r, i)
        BY <1>1, <1>2, <1>6 DEF Lifecycle
      <4> QED
        BY <4>1, <4>2, <4>3
    <3>3. i \notin Lifecycle(r, page.seen)
      BY <1>1, <1>6, <3>1 DEF Lifecycle
    <3>4. Cardinality(Lifecycle(r, page.seen) \cup {i}) = C(page.seen) + 1
      BY <1>1, <3>3, LifecycleIs, FS_AddElement
    <3> QED
      BY <1>2, <1>6, <2>3, <3>1, <3>2, <3>4
  <2>5. CASE e.type \notin DOMAIN EventWorkflow
    <3>1. p.took = C(page.seen)
      BY <1>1, <1>7, <2>5
    <3>2. Lifecycle(r, k) = Lifecycle(r, page.seen)
      <4>1. i \notin Lifecycle(r, i)
        BY <2>5 DEF Lifecycle
      <4>2. ASSUME NEW j \in Lifecycle(r, k) PROVE j \in Lifecycle(r, page.seen)
        <5>1. j \in Lifecycle(r, i)
          BY <1>2, <1>6 DEF Lifecycle
        <5>2. j <= page.seen
          BY <2>1, <4>1, <5>1
        <5> QED
          BY <1>1, <5>1, <5>2 DEF Lifecycle
      <4>3. ASSUME NEW j \in Lifecycle(r, page.seen) PROVE j \in Lifecycle(r, k)
        BY <1>1, <1>6 DEF Lifecycle
      <4> QED
        BY <4>2, <4>3
    <3>3. k <= Len(log[r])
      BY <1>1, <1>2, <1>6
    <3> QED
      BY <2>3, <3>1, <3>2, <3>3
  <2> QED
    BY <2>4, <2>5
<1> HIDE DEF C
<1>8. CASE page.moved
  BY <1>1, <1>2, <1>8 DEF PlacedAt
<1>9. CASE ~page.moved
  BY <1>1, <1>2, <1>6, <1>7, <1>9 DEF PlacedAt, C
<1> QED
  BY <1>8, <1>9

(* The events of a stream. *)
LEMMA DeliverKeeps == ASSUME PageInv, Deliver
  PROVE  PagePart' /\ page'.ver >= page.ver
<1>1. /\ PagePart /\ PageTypeOK /\ LogsTrue /\ page \in PageRow /\ UNCHANGED <<loopVars, log>>
      /\ page.run # NoRun /\ page.run \in Run
      /\ log[page.run] \in Seq(Event)
  BY PageHas DEF PageInv, Deliver, Streams, PageTypeOK, PageRow
<1>2. PICK r \in Run : r = page.run
  BY <1>1
<1>3. Ahead \in SUBSET Nat /\ Unseen \in SUBSET Nat
  BY <1>1 DEF Ahead, Unseen, PageRow
<1>4. ASSUME Unseen # {},
             LET i == Min(Unseen)
                 p == [page EXCEPT !.last = i, !.seen = Number(i)]
             IN Render(Applied(p, log[page.run][i].type, log[page.run][i].stage))
      PROVE  PagePart' /\ page'.ver >= page.ver
  <2>1. PICK i \in Unseen : i = Min(Unseen) /\ \A j \in Unseen : i <= j
    BY <1>3, <1>4, MinIs
  <2>2. i \in Nat /\ i \in DOMAIN log[r]
    BY <1>1, <1>2, <1>3, <2>1 DEF Unseen, Ahead, PageRow
  <2>3. PICK e \in Event : e = log[r][i]
    BY <1>1, <1>2, <2>2
  <2>4. /\ e.type = "run_completed" => run[r].status = "succeeded"
        /\ e.type = "stage_artifact" => e.stage \in Stage
    BY <1>1, <2>2, <2>3 DEF LogsTrue
  <2>5. PICK k \in Nat : k = Number(i)
    BY <1>2, <2>2, <2>3 DEF Number, Event
  <2>6. PICK p \in PageRow : p = [page EXCEPT !.last = i, !.seen = k]
    BY <1>1, <2>2 DEF PageRow
  <2>7. /\ p.run = page.run /\ p.ver = page.ver /\ p.floor = page.floor /\ p.seen = k
        /\ p.last = i /\ p.moved = page.moved /\ p.took = page.took /\ p.shown = page.shown
    BY <1>1, <2>6 DEF PageRow
  <2>8. PICK q : q = Applied(p, e.type, e.stage)
    OBVIOUS
  <2>9. Render(q)
    BY <1>2, <1>4, <2>1, <2>3, <2>5, <2>6, <2>8
  <2>10. e.type \in DOMAIN EventWorkflow \cup {"message_delta"}
    BY <2>3 DEF Event
  <2>11. /\ q \in PageRow
         /\ q.run = p.run /\ q.ver = p.ver /\ q.floor >= p.floor
         /\ q.seen = p.seen /\ q.last = p.last /\ q.moved = p.moved
         /\ q.took = IF e.type \in DOMAIN EventWorkflow THEN p.took + 1 ELSE p.took
         /\ q.shown = "succeeded" => q.shown = p.shown \/ e.type = "run_completed"
    BY <2>4, <2>8, <2>10, AppliedIs
  <2>12. PlacedAt(q)
    BY <1>1, <1>2, <2>1, <2>3, <2>5, <2>7, <2>11, DeliveredPlace
  <2>13. q.ver <= q.floor /\ q.ver >= page.ver
    BY <1>1, <2>7, <2>11 DEF PagePart, PageRow
  <2>14. q.shown = "succeeded" /\ q.run # NoRun => run[q.run].status = "succeeded"
    BY <1>1, <1>2, <2>4, <2>7, <2>11 DEF PagePart, SuccessIsReal
  <2>15. q.run = page.run /\ q.moved = page.moved
    BY <2>7, <2>11
  <2> QED
    BY <1>1, <2>9, <2>11, <2>12, <2>13, <2>14, <2>15, PageRendered
<1>5. ASSUME Unseen = {}, page' = [page EXCEPT !.last = Len(log[page.run])]
      PROVE  PagePart' /\ page'.ver >= page.ver
  <2>1. PICK n \in Nat : n = Len(log[r])
    BY <1>1, <1>2
  <2>2. PICK p \in PageRow : p = page' /\ p = [page EXCEPT !.last = n]
    BY <1>1, <1>2, <1>5, <2>1 DEF PageRow
  <2>3. /\ p.run = page.run /\ p.ver = page.ver /\ p.floor = page.floor /\ p.seen = page.seen
        /\ p.last = n /\ p.moved = page.moved /\ p.took = page.took /\ p.shown = page.shown
    BY <1>1, <2>2 DEF PageRow
  <2>4. SuccessIsReal'
    BY <1>1, <2>2, <2>3 DEF PagePart, SuccessIsReal, loopVars, storeVars
  <2>5. ~page.moved => \A j \in Lifecycle(r, n) : j <= page.seen
    <3>1. ASSUME ~page.moved, NEW j \in Lifecycle(r, n) PROVE j <= page.seen
      <4>1. j \in Nat /\ 1 <= j /\ j <= n /\ log[r][j].type \in DOMAIN EventWorkflow
        BY <2>1 DEF Lifecycle
      <4>2. page.last \in Nat /\ page.seen \in Nat
        BY <1>1 DEF PageRow
      <4>3. CASE j <= page.last
        <5>1. j \in Lifecycle(r, page.last)
          BY <4>1, <4>2, <4>3 DEF Lifecycle
        <5> QED
          BY <1>1, <1>2, <3>1, <5>1 DEF PagePart, PlacedAt
      <4>4. CASE ~(j <= page.last)
        <5>1. j \in Ahead /\ j \notin Unseen
          BY <1>2, <1>5, <2>1, <4>1, <4>2, <4>4 DEF Ahead
        <5>2. Number(j) = j
          BY <1>2, <4>1, LifecycleTypes DEF Number
        <5> QED
          BY <4>1, <4>2, <5>1, <5>2 DEF Unseen, Fresh
      <4> QED
        BY <4>3, <4>4
    <3> QED
      BY <3>1
  <2>6. PlacedAt(p)
    BY <1>1, <1>2, <2>1, <2>3, <2>5 DEF PagePart, PlacedAt
  <2>7. PlacedAt(p)'
    BY <1>1, <2>6 DEF PlacedAt, Lifecycle
  <2>8. p.ver <= p.floor /\ p.ver >= page.ver
    BY <1>1, <2>3 DEF PagePart, PageRow
  <2> QED
    BY <2>2, <2>4, <2>7, <2>8 DEF PagePart, PlacedAt
<1> QED
  BY <1>4, <1>5 DEF Deliver

(* The end that the server makes up comes after the whole log. *)
LEMMA SynthesizedKeeps == ASSUME PageInv, DeliverSynthesized
  PROVE  PagePart' /\ page'.ver >= page.ver
<1>1. /\ PagePart /\ page \in PageRow /\ UNCHANGED <<loopVars, log>>
      /\ page.run # NoRun /\ page.run \in Run
      /\ log[page.run] \in Seq(Event) /\ page.last = Len(log[page.run])
  BY PageHas DEF PageInv, DeliverSynthesized, Streams, PageTypeOK, PageRow
<1>2. PICK id \in {0, page.last} :
        /\ id = 0 \/ Fresh(id)
        /\ Render([Applied(page, "run_failed", NoStage) EXCEPT
                     !.seen = IF id = 0 THEN @ ELSE id, !.took = page.took])
  BY DEF DeliverSynthesized
<1>3. PICK a : a = Applied(page, "run_failed", NoStage)
  OBVIOUS
<1>4. "run_failed" \in DOMAIN EventWorkflow
  BY LifecycleTypes
<1>5. /\ a \in PageRow
      /\ a.run = page.run /\ a.ver = page.ver /\ a.floor >= page.floor
      /\ a.seen = page.seen /\ a.last = page.last /\ a.moved = page.moved
      /\ a.shown = "succeeded" => a.shown = page.shown
  BY <1>1, <1>3, <1>4, AppliedIs
<1>6. page.seen \in Nat /\ page.took \in Nat /\ page.last \in Nat
  BY <1>1 DEF PageRow
<1>7. PICK k \in Nat : /\ k = IF id = 0 THEN page.seen ELSE id
                       /\ k = page.seen \/ (k = page.last /\ page.seen < k)
  BY <1>2, <1>6 DEF Fresh
<1>8. PICK q \in PageRow : q = [a EXCEPT !.seen = k, !.took = page.took]
  BY <1>5, <1>6 DEF PageRow
<1>9. Render(q)
  BY <1>2, <1>3, <1>5, <1>7, <1>8 DEF PageRow
<1>10. /\ q.run = page.run /\ q.ver = page.ver /\ q.floor >= page.floor
       /\ q.seen = k /\ q.last = page.last /\ q.moved = page.moved /\ q.took = page.took
       /\ q.shown = "succeeded" => q.shown = page.shown
  BY <1>5, <1>8 DEF PageRow
<1>11. PlacedAt(q)
  <2>1. CASE page.moved \/ k = page.seen
    BY <1>1, <1>10, <2>1 DEF PagePart, PlacedAt
  <2>2. CASE ~page.moved /\ k = page.last /\ page.seen < k
    <3>1. /\ \A j \in Lifecycle(page.run, page.last) : j <= page.seen
          /\ page.took = Cardinality(Lifecycle(page.run, page.seen))
      BY <1>1, <2>2 DEF PagePart, PlacedAt
    <3>2. \A j \in Lifecycle(page.run, page.last) : j \in Nat /\ j <= page.last
      BY <1>6 DEF Lifecycle
    <3>3. Lifecycle(page.run, k) = Lifecycle(page.run, page.seen)
      <4>1. ASSUME NEW j \in Lifecycle(page.run, k) PROVE j \in Lifecycle(page.run, page.seen)
        BY <1>6, <2>2, <3>1, <4>1 DEF Lifecycle
      <4>2. ASSUME NEW j \in Lifecycle(page.run, page.seen) PROVE j \in Lifecycle(page.run, k)
        BY <1>6, <2>2, <4>2 DEF Lifecycle
      <4> QED
        BY <4>1, <4>2
    <3>4. k <= Len(log[page.run]) /\ \A j \in Lifecycle(page.run, page.last) : j <= k
      BY <1>1, <1>6, <2>2, <3>2
    <3> QED
      BY <1>1, <1>10, <3>1, <3>3, <3>4 DEF PagePart, PlacedAt
  <2> QED
    BY <1>7, <2>1, <2>2
<1>12. q.ver <= q.floor /\ q.ver >= page.ver
  BY <1>1, <1>10 DEF PagePart, PageRow
<1>13. q.shown = "succeeded" /\ q.run # NoRun => run[q.run].status = "succeeded"
  BY <1>1, <1>10 DEF PagePart, SuccessIsReal
<1> QED
  BY <1>1, <1>9, <1>10, <1>11, <1>12, <1>13, PageRendered

(* An answer of getProject, applied or refused. *)
LEMMA ReceiveKeeps == ASSUME PageInv, NEW q \in Call, Receive(q)
  PROVE  PagePart' /\ page'.ver >= page.ver
<1>1. PagePart /\ page \in PageRow /\ UNCHANGED <<loopVars, log>>
  BY PageHas DEF PagePart, Receive
<1>2. CASE UNCHANGED page
  BY <1>1, <1>2, PageStands DEF Backend, PageRow
<1>3. CASE page' # page
  <2>1. PICK s \in SnapRow : s = load[q].snap
    BY DEF PageInv, PageTypeOK
  <2>2. PICK f \in Nat : f = IF s.ver > page.floor THEN s.ver ELSE page.floor
    BY <1>1, <2>1 DEF PageRow, SnapRow
  <2>3. PICK b \in BOOLEAN : b = (s.shown = "failed")
    OBVIOUS
  <2>4. PICK p \in PageRow :
          p = [page EXCEPT !.run = s.run, !.shown = s.shown, !.wf = s.wf, !.att = s.att,
                           !.err = b, !.arts = s.arts, !.ver = s.ver, !.floor = f]
    <3>1. /\ s.run \in Run \cup {NoRun} /\ s.shown \in RunStatus \cup {"none"}
          /\ s.wf \in WorkflowStatus /\ s.att \in Attempt \cup {NoAttempt}
          /\ s.arts \in SUBSET Stage /\ s.ver \in Nat
      BY DEF SnapRow
    <3> QED
      BY <1>1, <3>1 DEF PageRow
  <2>5. Render(p)
    BY <1>1, <1>3, <2>1, <2>2, <2>3, <2>4 DEF Receive, PageRow
  <2>6. /\ p.run = s.run /\ p.shown = s.shown /\ p.ver = s.ver /\ p.floor = f
        /\ p.seen = page.seen /\ p.last = page.last /\ p.moved = page.moved
        /\ p.took = page.took
    BY <1>1, <2>4 DEF PageRow
  <2>7. p.ver <= p.floor /\ p.ver >= page.ver
    <3>1. s.ver >= page.floor
      BY <1>1, <1>3, <2>1 DEF Receive, ShouldApply, PageRow, SnapRow
    <3> QED
      BY <1>1, <2>1, <2>2, <2>6, <3>1 DEF PagePart, PageRow, SnapRow
  <2>8. p.shown = "succeeded" /\ p.run # NoRun => run[p.run].status = "succeeded"
    BY <2>1, <2>6 DEF PageInv, SnapsTrue
  <2>9. p.run = page.run => PlacedAt(p)
    BY <1>1, <2>6 DEF PagePart, PlacedAt
  <2> QED
    BY <1>1, <2>5, <2>6, <2>7, <2>8, <2>9, PageRendered
<1> QED
  BY <1>2, <1>3

(* The answer to the user's own request. *)
LEMMA AnsweredKeeps == ASSUME PageInv, Answered
  PROVE  PagePart' /\ page'.ver >= page.ver
<1>1. /\ PagePart /\ page \in PageRow /\ UNCHANGED <<loopVars, log>>
      /\ answer.run \in Run \cup {NoRun} /\ answer.att \in Attempt \cup {NoAttempt}
  BY PageHas DEF PagePart, Answered, PageInv, PageTypeOK
<1>2. PICK f \in Nat : f = page.floor + 1
  BY <1>1 DEF PageRow
<1>3. PICK a \in SUBSET Stage : a = IF answer.kind = "create" THEN {} ELSE page.arts
  BY <1>1 DEF PageRow
<1>4. PICK p \in PageRow :
        p = [page EXCEPT !.run = answer.run, !.att = answer.att, !.shown = "running",
                         !.wf = "running", !.err = FALSE, !.floor = f, !.arts = a]
  BY <1>1 DEF PageRow, RunStatus, WorkflowStatus
<1>5. Render(p)
  BY <1>1, <1>2, <1>3, <1>4 DEF Answered, PageRow
<1>6. /\ p.run = answer.run /\ p.shown = "running" /\ p.ver = page.ver /\ p.floor = f
      /\ p.seen = page.seen /\ p.last = page.last /\ p.moved = page.moved /\ p.took = page.took
  BY <1>1, <1>4 DEF PageRow
<1>7. p.ver <= p.floor /\ p.ver >= page.ver
  BY <1>1, <1>2, <1>6 DEF PagePart, PageRow
<1>8. p.run = page.run => PlacedAt(p)
  BY <1>1, <1>6 DEF PagePart, PlacedAt
<1> QED
  BY <1>1, <1>5, <1>6, <1>7, <1>8, PageRendered

(* A page newly opened, on no run or on the first. *)
LEMMA OpenedKeeps ==
  ASSUME BackendOK', NEW p, p = page',
         p = NewPage \/ p = [NewPage EXCEPT !.run = 1, !.shown = "running", !.wf = "running",
                                            !.att = 1]
  PROVE  PagePart'
<1>1. 1 \in Run /\ 1 \in Attempt /\ NoRun = 0
  BY WorkflowAssumption DEF Run, Attempt, NoRun
<1>2. NewPage \in PageRow
  BY DEF NewPage, PageRow, RunStatus, WorkflowStatus
<1>3. p \in PageRow
  <2>1. "running" \in RunStatus /\ "running" \in WorkflowStatus
    BY DEF RunStatus, WorkflowStatus
  <2>2. [NewPage EXCEPT !.run = 1, !.shown = "running", !.wf = "running", !.att = 1] \in PageRow
    BY <1>1, <1>2, <2>1 DEF PageRow
  <2> QED
    BY <1>2, <2>2
<1>4. /\ p.run \in {NoRun, 1} /\ (p.run # NoRun => p.shown = "running")
      /\ p.ver = 0 /\ p.floor = 0 /\ p.seen = 0 /\ p.last = 0 /\ p.took = 0
  <2>1. CASE p = NewPage
    BY <2>1 DEF NewPage
  <2>2. CASE p = [NewPage EXCEPT !.run = 1, !.shown = "running", !.wf = "running", !.att = 1]
    BY <1>2, <2>2 DEF NewPage
  <2> QED
    BY <2>1, <2>2
<1>5. Lifecycle(p.run, 0)' = {} /\ Cardinality({}) = 0
  BY FS_EmptySet DEF Lifecycle
<1>6. 0 <= Len(log'[1])
  <2>1. log'[1] \in Seq(Event)
    BY <1>1 DEF BackendOK
  <2> QED
    BY <2>1
<1>7. PlacedAt(p)'
  BY <1>4, <1>5, <1>6 DEF PlacedAt
<1>8. SuccessIsReal'
  BY <1>4 DEF SuccessIsReal
<1> QED
  BY <1>3, <1>4, <1>7, <1>8 DEF PagePart, PlacedAt

(* The backend's part in a step of the page. *)
LEMMA PageIsBackend == ASSUME PageInv, PageNext PROVE Backend
<1>1. log \in [Run -> Seq(Event)]
  BY DEF PageInv, PageTypeOK
<1>2. ASSUME up, HandleGetProject, UNCHANGED log PROVE Backend
  <2>1. AnyStep
    BY <1>2 DEF AnyStep, Served
  <2>2. UNCHANGED <<loop, ended>>
    BY <1>2 DEF HandleGetProject, GetProject
  <2>3. \A r \in Run : Emitted(r) = << >>
    BY <2>2 DEF Emitted, Emits
  <2>4. \A r \in Run : log[r] \o << >> = log[r]
    <3>1. ASSUME NEW r \in Run PROVE log[r] \o << >> = log[r]
      <4>1. log[r] \in Seq(Event)
        BY <1>1
      <4> QED
        BY <4>1
    <3> QED
      BY <3>1
  <2>5. log' = [r \in Run |-> log[r]]
    BY <1>1, <1>2
  <2>6. Logged
    BY <2>3, <2>4, <2>5 DEF Logged
  <2> QED
    BY <2>1, <2>6 DEF Backend
<1>3. ASSUME NEW q \in Call, Serve(q) PROVE Backend
  BY <1>2, <1>3 DEF Serve, Backend
<1>4. ASSUME NEW n \in Attempt, PressRetry(n) PROVE Backend
  <2>1. page.run \in Run
    BY <1>4 DEF PressRetry, OffersRetry, PageInv, PageTypeOK, PageRow
  <2> QED
    BY <1>4, <2>1 DEF PressRetry, Requesting, Backend, AnyStep, Served
<1>5. ASSUME NEW r \in Run, Submit(r) PROVE Backend
  BY <1>5 DEF Submit, Requesting, Backend, AnyStep, Served
<1>6. ASSUME OpenCreated PROVE Backend
  <2>1. 1 \in Run
    BY WorkflowAssumption DEF Run
  <2> QED
    BY <1>6, <2>1 DEF OpenCreated, Backend, AnyStep, Served
<1> QED
  BY <1>3, <1>4, <1>5, <1>6, NextIsAnyStep
  DEF PageNext, Elsewhere, Backend, Deliver, DeliverSynthesized, Receive, Answered, AnswerLost,
      Reload

(* Every step of the page keeps its place and its word. *)
LEMMA PagePartNext == ASSUME PageInv, PageNext PROVE PagePart'
<1>1. Backend /\ BackendOK'
  BY PageIsBackend, BackendKeeps
<1>2. ASSUME OpenCreated \/ Reload PROVE PagePart'
  BY <1>1, <1>2, OpenedKeeps DEF OpenCreated, Reload
<1>3. ASSUME UNCHANGED page PROVE PagePart'
  BY <1>1, <1>3, PageStands
<1> QED
  BY <1>2, <1>3, DeliverKeeps, SynthesizedKeeps, ReceiveKeeps, AnsweredKeeps
  DEF PageNext, Elsewhere, Serve, PressRetry, Submit, AnswerLost

-----------------------------------------------------------------------------
(* What is on its way. *)
LoadRow   == [pc : {"idle", "answered"}, snap : SnapRow, touched : BOOLEAN]
AnswerRow == [kind : {"none", "create", "retry"}, run : Run \cup {NoRun},
              att : Attempt \cup {NoAttempt}]

(* A snapshot is a row, and says of its run what is so. *)
LEMMA SnapshotIs ==
  ASSUME TypeOK', NEW s, s = Snapshot'
  PROVE  s \in SnapRow /\ (s.shown = "succeeded" /\ s.run # NoRun
                             => run'[s.run].status = "succeeded")
<1>1. /\ wf'.version \in Nat /\ wf'.run \in Run \cup {NoRun} /\ wf'.status \in WorkflowStatus
      /\ run' \in [Run -> RunRow]
  BY DEF TypeOK, WorkflowTypeOK, WorkflowRow
<1>2. PICK w \in WorkflowStatus : w = Normalized(wf.status)'
  BY <1>1 DEF Normalized, WorkflowStatus
<1>3. PICK t \in RunStatus \cup {"none"} :
        t = IF wf'.run = NoRun THEN "succeeded" ELSE run'[wf'.run].status
  BY <1>1 DEF RunStatus, RunRow
<1>4. PICK n \in Attempt \cup {NoAttempt} :
        n = IF wf'.run = NoRun THEN NoAttempt ELSE run'[wf'.run].active
  BY <1>1 DEF RunRow
<1>5. PICK a \in SUBSET Stage : a = StagesWithArtifact'
  BY DEF StagesWithArtifact
<1>6. s = [ver |-> wf'.version, run |-> wf'.run, wf |-> w, shown |-> t, att |-> n, arts |-> a]
  BY <1>2, <1>3, <1>4, <1>5 DEF Snapshot
<1>7. s \in SnapRow
  BY <1>1, <1>6 DEF SnapRow
<1> QED
  BY <1>3, <1>6, <1>7

(* The snapshots on their way stay true, whichever step the page takes. *)
LEMMA LoadsNext ==
  ASSUME PageInv, PageNext
  PROVE  load' \in [Call -> LoadRow] /\ SnapsTrue'
<1>1. /\ load \in [Call -> LoadRow] /\ SnapsTrue
      /\ \A r \in Run : run[r].status = "succeeded" => run'[r].status = "succeeded"
      /\ TypeOK'
  BY PageIsBackend, BackendKeeps
  DEF PageInv, PageTypeOK, LoadRow, BackendOK, OutcomeInv, LoopInv, StoreInv
<1>2. ASSUME NEW q \in Call
      PROVE  load[q].snap \in SnapRow
             /\ (load[q].snap.shown = "succeeded" /\ load[q].snap.run # NoRun
                   => run'[load[q].snap.run].status = "succeeded")
  <2>1. load[q].snap \in SnapRow
    BY <1>1 DEF LoadRow
  <2> QED
    BY <1>1, <2>1 DEF SnapsTrue, SnapRow
<1>3. Idle \in LoadRow /\ NoSnap = Idle.snap /\ NoSnap.shown # "succeeded"
  BY DEF Idle, NoSnap, LoadRow, SnapRow, RunStatus, WorkflowStatus
<1>4. ASSUME load' \in [Call -> LoadRow],
             \A q \in Call : \/ load'[q].snap = load[q].snap
                             \/ load'[q].snap = NoSnap
                             \/ load'[q].snap = Snapshot'
      PROVE  SnapsTrue'
  <2>1. ASSUME NEW s, s = Snapshot'
        PROVE  s.shown = "succeeded" /\ s.run # NoRun => run'[s.run].status = "succeeded"
    BY <1>1, <2>1, SnapshotIs
  <2> QED
    BY <1>2, <1>3, <1>4, <2>1 DEF SnapsTrue
<1>5. ASSUME UNCHANGED load PROVE load' \in [Call -> LoadRow] /\ SnapsTrue'
  BY <1>1, <1>4, <1>5
<1>6. ASSUME Touch PROVE load' \in [Call -> LoadRow] /\ SnapsTrue'
  <2>1. ASSUME NEW q \in Call PROVE load'[q] \in LoadRow /\ load'[q].snap = load[q].snap
    <3>1. load[q] \in LoadRow
      BY <1>1
    <3> QED
      BY <1>6, <3>1 DEF Touch, LoadRow
  <2>2. load' \in [Call -> LoadRow]
    BY <1>6, <2>1 DEF Touch
  <2> QED
    BY <1>4, <2>1, <2>2
<1>7. ASSUME NEW q \in Call, Serve(q) PROVE load' \in [Call -> LoadRow] /\ SnapsTrue'
  <2>1. PICK s : s = Snapshot'
    OBVIOUS
  <2>2. s \in SnapRow
    BY <1>1, <2>1, SnapshotIs
  <2>3. load' = [load EXCEPT ![q] = [pc |-> "answered", snap |-> s, touched |-> FALSE]]
    BY <1>7, <2>1 DEF Serve
  <2>4. load' \in [Call -> LoadRow]
    BY <1>1, <2>2, <2>3 DEF LoadRow
  <2>5. \A p \in Call : load'[p].snap = load[p].snap \/ load'[p].snap = s
    BY <1>1, <2>3
  <2> QED
    BY <1>4, <2>1, <2>4, <2>5
<1>8. ASSUME NEW q \in Call, Receive(q) PROVE load' \in [Call -> LoadRow] /\ SnapsTrue'
  <2>1. load' = [load EXCEPT ![q] = Idle]
    BY <1>8 DEF Receive
  <2> QED
    BY <1>1, <1>3, <1>4, <2>1
<1>9. ASSUME load' = NoLoads PROVE load' \in [Call -> LoadRow] /\ SnapsTrue'
  BY <1>3, <1>4, <1>9 DEF NoLoads
<1> QED
  BY <1>5, <1>6, <1>7, <1>8, <1>9
  DEF PageNext, Elsewhere, Deliver, DeliverSynthesized, PressRetry, Submit, Answered,
      AnswerLost, OpenCreated, Reload

(* The answer to a request keeps its type. *)
LEMMA AnswersNext == ASSUME PageInv, PageNext PROVE answer' \in AnswerRow
<1>1. answer \in AnswerRow /\ page \in PageRow
  BY DEF PageInv, PageTypeOK, AnswerRow
<1>2. NoAnswer \in AnswerRow
  BY DEF NoAnswer, AnswerRow
<1>3. ASSUME NEW n \in Attempt, PressRetry(n) PROVE answer' \in AnswerRow
  BY <1>1, <1>3 DEF PressRetry, AnswerRow, PageRow
<1>4. ASSUME NEW r \in Run, Submit(r) PROVE answer' \in AnswerRow
  BY <1>2, <1>4, AttemptOne DEF Submit, AnswerRow
<1> QED
  BY <1>1, <1>2, <1>3, <1>4
  DEF PageNext, Elsewhere, Deliver, DeliverSynthesized, Serve, Receive, Answered, AnswerLost,
      OpenCreated, Reload

-----------------------------------------------------------------------------
(* The invariant holds of a page that is opened on a new project. *)
LEMMA PageInvInit == ASSUME PageInit PROVE PageInv
<1>1. /\ OutcomeInv /\ Init
      /\ log = [r \in Run |-> << >>] /\ page = NewPage /\ load = NoLoads /\ answer = NoAnswer
  BY OutcomeInit DEF PageInit
<1>2. page \in PageRow
  BY <1>1 DEF NewPage, PageRow, RunStatus, WorkflowStatus
<1>3. load \in [Call -> LoadRow] /\ SnapsTrue
  <2>1. Idle \in LoadRow
    BY DEF Idle, NoSnap, LoadRow, SnapRow, RunStatus, WorkflowStatus
  <2> QED
    BY <1>1, <2>1 DEF NoLoads, SnapsTrue, Idle, NoSnap
<1>4. answer \in AnswerRow
  BY <1>1 DEF NoAnswer, AnswerRow
<1>5. log \in [Run -> Seq(Event)]
  <2>1. << >> \in Seq(Event)
    OBVIOUS
  <2> QED
    BY <1>1, <2>1
<1>6. LogsTrue
  BY <1>1 DEF LogsTrue
<1>7. ASSUME NEW r \in Run, NEW n \in Attempt
      PROVE  TurnBehindLog(loop[r][n], Len(log[r]))
  <2>1. loop[r][n] = NotLaunched /\ Len(log[r]) = 0
    BY <1>1 DEF Init
  <2>2. NotLaunched.at = 0 /\ NotLaunched.round = 0 /\ NotLaunched.pc = "none"
    BY DEF NotLaunched
  <2>3. 0 + 0 <= 0 + 1
    OBVIOUS
  <2> QED
    BY <2>1, <2>2, <2>3 DEF TurnBehindLog
<1>8. SuccessIsReal /\ Placed /\ AppliedOnce /\ page.ver <= page.floor
  BY <1>1 DEF NewPage, SuccessIsReal, Placed, AppliedOnce
<1> QED
  BY <1>1, <1>2, <1>3, <1>4, <1>5, <1>6, <1>7, <1>8
  DEF PageInv, PageTypeOK, LoadRow, AnswerRow

(* Every step keeps it. *)
LEMMA PageInvNext == ASSUME PageInv, PageNext PROVE PageInv'
<1>1. BackendOK'
  BY PageIsBackend, BackendKeeps
<1>2. PagePart' /\ load' \in [Call -> LoadRow] /\ SnapsTrue' /\ answer' \in AnswerRow
  BY PagePartNext, LoadsNext, AnswersNext
<1>3. (Placed /\ AppliedOnce)'
  BY <1>2 DEF PagePart, PlacedAt, Placed, AppliedOnce
<1>4. PageTypeOK'
  BY <1>1, <1>2 DEF PageTypeOK, BackendOK, PagePart, LoadRow, AnswerRow
<1> QED
  BY <1>1, <1>2, <1>3, <1>4 DEF PageInv, BackendOK, PagePart

(* A stuttering step keeps PageInv. *)
LEMMA PageInvStutter == ASSUME PageInv, UNCHANGED pageVars PROVE PageInv'
<1>1. UNCHANGED <<loopVars, log, page, load, answer>>
  BY DEF pageVars
<1>2. BackendOK' /\ PagePart' /\ UNCHANGED run
  BY <1>1, BackendKeeps, PageStands DEF Backend, loopVars, storeVars
<1>3. (Placed /\ AppliedOnce)'
  BY <1>2 DEF PagePart, PlacedAt, Placed, AppliedOnce
<1>4. PageTypeOK' /\ SnapsTrue'
  BY <1>1, <1>2 DEF PageInv, PageTypeOK, SnapsTrue
<1> QED
  BY <1>2, <1>3, <1>4 DEF PageInv, BackendOK, PagePart

(* PageInv, the invariant behind what a page shows: what the logs and the    *)
(* snapshots on their way tell is so, a message's number is never ahead of   *)
(* its place in the log, and a page has seen what its EventSource passed.    *)
THEOREM PageInvariant == PageSpec => []PageInv
<1>1. PageInv /\ [PageNext]_pageVars => PageInv'
  BY PageInvNext, PageInvStutter
<1> QED
  BY <1>1, PageInvInit, PTL DEF PageSpec

(* AppliedOnce, of every page that shows one run: it applied every lifecycle *)
(* event of its run up to the last it has seen, once.                        *)
THEOREM PageAppliedOnce == PageSpec => []AppliedOnce
<1>1. PageInv => AppliedOnce
  BY DEF PageInv
<1> QED
  BY <1>1, PageInvariant, PTL

(* SuccessIsReal, of every page: it never shows a success that its run does  *)
(* not have, neither from an event nor from a snapshot that came late.       *)
THEOREM PageSuccessIsReal == PageSpec => []SuccessIsReal
<1>1. PageInv => SuccessIsReal
  BY DEF PageInv
<1> QED
  BY <1>1, PageInvariant, PTL

(* SnapshotsForward, of every order in which calls are answered: a page that *)
(* stays open never goes back to an older snapshot.                          *)
THEOREM PageSnapshotsForward == PageSpec => SnapshotsForward
<1> DEFINE Forward == page'.ver >= page.ver \/ page'.floor = 0
<1>1. ASSUME PageInv, PageNext PROVE Forward
  <2>1. page \in PageRow /\ page.ver <= page.floor /\ page.ver \in Nat /\ page.floor \in Nat
    BY <1>1 DEF PageInv, PageTypeOK, PageRow
  <2>2. ASSUME UNCHANGED page PROVE Forward
    BY <2>1, <2>2
  <2>3. ASSUME OpenCreated \/ Reload PROVE Forward
    <3>1. NewPage.floor = 0 /\ NewPage \in PageRow
      BY DEF NewPage, PageRow, RunStatus, WorkflowStatus
    <3>2. CASE OpenCreated
      <4>1. page' = [NewPage EXCEPT !.run = 1, !.shown = "running", !.wf = "running", !.att = 1]
        BY <3>2 DEF OpenCreated
      <4>2. page'.floor = 0
        BY <3>1, <4>1 DEF PageRow
      <4> QED
        BY <4>2
    <3>3. CASE Reload
      BY <3>1, <3>3 DEF Reload
    <3> QED
      BY <2>3, <3>2, <3>3
  <2> QED
    BY <1>1, <2>2, <2>3, DeliverKeeps, SynthesizedKeeps, ReceiveKeeps, AnsweredKeeps
    DEF PageNext, Elsewhere, Serve, PressRetry, Submit, AnswerLost
<1>2. PageInv /\ [PageNext]_pageVars => [Forward]_pageVars
  BY <1>1
<1> QED
  BY <1>2, PageInvariant, PTL DEF PageSpec, SnapshotsForward
=============================================================================
