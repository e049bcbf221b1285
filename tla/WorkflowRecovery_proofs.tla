----------------------- MODULE WorkflowRecovery_proofs -----------------------
(***************************************************************************)
(* Theorems about WorkflowRecovery, for any number of runs, attempts,      *)
(* stages and disturbances.                                                *)
(***************************************************************************)
EXTENDS WorkflowRecovery, WellFoundedInduction, TLAPS

-----------------------------------------------------------------------------
(* The inductive invariant. *)

RowStatus == WorkflowStatus \cup {"none"}
Pointer == [run : Run \cup {NoRun}, status : RowStatus, version : Nat]
Stages == [Run -> [Attempt -> [Stage -> StageStatus \cup {"recovering"}]]]
Loops == [run : Run \cup {NoRun}, at : Int, busy : BOOLEAN]
Owed == [run : Run, type : {"run_completed", "run_failed"}, stage : Stage \cup {NoStage}]
RunStatus == LiveStatus \cup {"none", "succeeded", "failed", "interrupted"}
RunRows == [Run -> [status : RunStatus, attempts : Nat]]

RecoveryTypeOK ==
  /\ process \in {"down", "migrating", "reconciling", "serving"}
  /\ build \in {"before", "this"}
  /\ run \in RunRows
  /\ latest \in Run \cup {NoRun} /\ preview \in Run \cup {NoRun}
  /\ loop \in Loops
  /\ due \in SUBSET Owed
  /\ wf \in Pointer
  /\ stage \in Stages
  /\ artifact \in [Run -> [Attempt -> SUBSET Stage]]

(* A migration's record and its tables come together. *)
TablesRecorded ==
  /\ recorded \subseteq tables
  /\ process \in {"reconciling", "serving"} => Needed \subseteq recorded

(* Runs are created in their order, in a project, and what is not there has   *)
(* no attempts.                                                               *)
Exists(r) == run[r].status # "none"
RunsInOrder ==
  /\ \A q, r \in Run : q < r /\ Exists(r) => Exists(q)
  /\ \A r \in Run : IF Exists(r) THEN created ELSE run[r].attempts = 0

(* A loop works on the active run, while the process serves; what is still to *)
(* be emitted is true of its run.                                             *)
LoopsLive ==
  /\ loop.run # NoRun => Active(loop.run) /\ Serving
  /\ \A e \in due : Exists(e.run)
  /\ \A e \in due : e.type = "run_completed" => run[e.run].status = "succeeded"

(* The pointer and the latest update are of runs there are; a row has a       *)
(* version, and one that says completed is of a run that succeeded.           *)
PointersHold ==
  /\ latest # NoRun => Exists(latest)
  /\ wf.version = 0 => wf = Missing
  /\ wf.run # NoRun => Exists(wf.run)
  /\ wf.status = "completed" => wf.run # NoRun /\ run[wf.run].status = "succeeded"

RunsInv == RunsInOrder /\ LoopsLive /\ PointersHold
RecoveryInv == RecoveryTypeOK /\ TablesRecorded /\ StageRowsSound /\ RunsInv

-----------------------------------------------------------------------------
(* What the operators of a transaction return. *)

LEMMA Runs == MaxRuns \in Nat /\ Run \subseteq Nat \ {0} /\ NoRun \notin Run
BY WorkflowAssumption DEF Run, NoRun

(* A bump writes its own run's row, and moves no pointer there is.            *)
LEMMA BumpRow ==
  ASSUME RecoveryTypeOK, NEW r \in Run, NEW s \in WorkflowStatus
  PROVE  /\ Bump(r, s) \in Pointer /\ Bump(r, s) # Missing
         /\ \/ Bump(r, s) = wf
            \/ Bump(r, s).run = r /\ Bump(r, s).status = s /\ Bump(r, s).version # 0
         /\ wf.run # NoRun => Bump(r, s).run = wf.run
         /\ wf.run = r => Bump(r, s).run = r /\ Bump(r, s).status = s
<1>1. wf \in Pointer /\ wf.version + 1 \in Nat /\ wf.version + 1 # 0
  BY DEF RecoveryTypeOK, Pointer
<1>2. /\ PointTo(r, s) \in Pointer /\ PointTo(r, s) # Missing
      /\ PointTo(r, s).run = r /\ PointTo(r, s).status = s /\ PointTo(r, s).version # 0
  BY <1>1 DEF PointTo, Pointer, RowStatus, Missing
<1>3. CASE wf = Missing
  BY <1>2, <1>3, Runs DEF Bump, Missing
<1>4. CASE wf # Missing
  BY <1>1, <1>2, <1>4 DEF Bump, BumpForRun
<1> QED
  BY <1>3, <1>4

(* What setStageStateForAttemptTx does to each row.                           *)
LEMMA SetStageRows ==
  ASSUME stage \in Stages, NEW r \in Run, NEW n, NEW s \in Stage, NEW to \in StageStatus
  PROVE  /\ SetStage(r, n, s, to) \in Stages
         /\ \A q \in Run, m \in Attempt, t \in Stage :
              SetStage(r, n, s, to)[q][m][t] =
                IF q = r /\ m = n /\ t = s THEN to ELSE stage[q][m][t]
<1> DEFINE X == StageStatus \cup {"recovering"}
           new == SetStage(r, n, s, to)
<1>1. new = [stage EXCEPT ![r] = [stage[r] EXCEPT ![n] = [stage[r][n] EXCEPT ![s] = to]]]
  BY DEF SetStage
<1>2. stage[r] \in [Attempt -> [Stage -> X]] /\ to \in X
  BY DEF Stages
<1>3. CASE n \in Attempt
  <2>1. [stage[r][n] EXCEPT ![s] = to] \in [Stage -> X]
    BY <1>2, <1>3
  <2>2. [stage[r] EXCEPT ![n] = [stage[r][n] EXCEPT ![s] = to]] \in [Attempt -> [Stage -> X]]
    BY <1>2, <1>3, <2>1
  <2>3. new \in Stages
    BY <1>1, <2>2 DEF Stages
  <2> QED
    BY <1>1, <1>2, <1>3, <2>1, <2>2, <2>3 DEF Stages
<1>4. CASE n \notin Attempt
  <2>1. [stage[r] EXCEPT ![n] = [stage[r][n] EXCEPT ![s] = to]] = stage[r]
    BY <1>2, <1>4
  <2>2. new = stage
    BY <1>1, <2>1 DEF Stages
  <2> QED
    BY <1>4, <2>2
<1> QED
  BY <1>3, <1>4

(* What initAttemptStagesTx does to each row.                                 *)
LEMMA InitStagesRows ==
  ASSUME stage \in Stages, NEW r \in Run, NEW n
  PROVE  /\ InitStages(r, n) \in Stages
         /\ \A q \in Run, m \in Attempt, t \in Stage :
              InitStages(r, n)[q][m][t] =
                IF q = r /\ m = n /\ stage[q][m][t] = "none" THEN "waiting" ELSE stage[q][m][t]
<1> DEFINE X == StageStatus \cup {"recovering"}
           waits == [t \in Stage |-> IF stage[r][n][t] = "none" THEN "waiting" ELSE stage[r][n][t]]
           new == InitStages(r, n)
<1>1. new = [stage EXCEPT ![r] = [stage[r] EXCEPT ![n] = waits]]
  BY DEF InitStages
<1>2. stage[r] \in [Attempt -> [Stage -> X]] /\ "waiting" \in X
  BY DEF Stages, StageStatus
<1>3. CASE n \in Attempt
  <2>1. waits \in [Stage -> X]
    BY <1>2, <1>3
  <2>2. [stage[r] EXCEPT ![n] = waits] \in [Attempt -> [Stage -> X]]
    BY <1>2, <1>3, <2>1
  <2>3. new \in Stages
    BY <1>1, <2>2 DEF Stages
  <2> QED
    BY <1>1, <1>2, <1>3, <2>1, <2>2, <2>3 DEF Stages
<1>4. CASE n \notin Attempt
  <2>1. [stage[r] EXCEPT ![n] = waits] = stage[r]
    BY <1>2, <1>4
  <2>2. new = stage
    BY <1>1, <2>1 DEF Stages
  <2> QED
    BY <1>4, <2>2
<1> QED
  BY <1>3, <1>4

(* The statuses transactions write. *)
LEMMA Statuses ==
  /\ {"draft", "running", "completed", "failed", "cancelled", "recovering"} = WorkflowStatus
  /\ \A s \in LiveStatus \cup {"succeeded", "failed", "interrupted"} :
       /\ RunWorkflowStatus(s) \in WorkflowStatus
       /\ RunWorkflowStatus(s) = "completed" => s = "succeeded"
  /\ {"waiting", "running", "succeeded", "failed", "cancelled"} \subseteq StageStatus
  /\ {"engineer", "qa"} \subseteq Stage
BY DEF WorkflowStatus, LiveStatus, RunWorkflowStatus, StageStatus, Stage

(* The stage a loop is at is a stage.                                         *)
LEMMA StageAt ==
  ASSUME NEW s, LoopAt(s)
  PROVE  s \in Stage
<1>1. TextStages \in Seq(STRING)
  BY WorkflowAssumption
<1>2. \A i \in DOMAIN StageOrder : StageOrder[i] \in Stage
  BY <1>1 DEF StageOrder, Stage
<1> QED
  BY <1>2 DEF LoopAt

-----------------------------------------------------------------------------
(* What a read returns. *)

(* A stage row that is filled in; it says succeeded only with its evidence.   *)
LEMMA FilledRow ==
  ASSUME RecoveryTypeOK, NEW r \in Run, NEW n, NEW s \in Stage
  PROVE  /\ HistoricalStatus(r, n, s) \in StageStatus \cup {"recovering"}
         /\ HistoricalStatus(r, n, s) = "succeeded" => s \in artifact[r][n]
BY DEF HistoricalStatus, Evidence, StageStatus

(* The backfill points to the latest run, if there is one, and writes rows of *)
(* its last attempt only.                                                     *)
LEMMA RecoveredRows ==
  ASSUME RecoveryTypeOK, PointersHold, StageRowsSound, wf = Missing
  PROVE  \E w \in Pointer, g \in Stages :
           /\ Recovered(Rows) = [wf |-> w, stage |-> g, conflict |-> conflict]
           /\ w.run = latest /\ w.version = 1
           /\ w.status = "completed" => w.run # NoRun /\ run[w.run].status = "succeeded"
           /\ \A q \in Run, m \in Attempt, t \in Stage :
                g[q][m][t] = "succeeded" => t \in artifact[q][m]
<1> DEFINE r == latest
           n == run[r].attempts
           rows == [s \in Stage |-> HistoricalStatus(r, n, s)]
           status == IF \E s \in Stage : rows[s] = "recovering" THEN "recovering"
                     ELSE RunWorkflowStatus(run[r].status)
           X == StageStatus \cup {"recovering"}
<1>0. /\ wf \in Pointer /\ stage \in Stages /\ latest \in Run \cup {NoRun}
      /\ Rows = [wf |-> wf, stage |-> stage, conflict |-> conflict]
  BY DEF RecoveryTypeOK, Rows
<1>1. CASE latest = NoRun
  <2> DEFINE w == [run |-> NoRun, version |-> 1,
                   status |-> IF preview = NoRun THEN "draft" ELSE "recovering"]
  <2>1. Recovered(Rows) = [wf |-> w, stage |-> stage, conflict |-> conflict]
    BY <1>0, <1>1 DEF Recovered
  <2>2. w \in Pointer /\ w.run = latest /\ w.version = 1 /\ w.status # "completed"
    BY <1>1 DEF Pointer, RowStatus, WorkflowStatus
  <2>3. \A q \in Run, m \in Attempt, t \in Stage :
           stage[q][m][t] = "succeeded" => t \in artifact[q][m]
    BY DEF StageRowsSound
  <2> HIDE DEF w
  <2> QED
    BY <1>0, <2>1, <2>2, <2>3
<1>2. CASE latest # NoRun
  <2> DEFINE w == [run |-> r, status |-> status, version |-> 1]
             g == [stage EXCEPT ![r] = [stage[r] EXCEPT ![n] = rows]]
  <2>1. Recovered(Rows) = [wf |-> w, stage |-> g, conflict |-> conflict]
    BY <1>0, <1>2 DEF Recovered
  <2>2. r \in Run /\ run[r].status \in LiveStatus \cup {"succeeded", "failed", "interrupted"}
    BY <1>0, <1>2 DEF PointersHold, Exists, RecoveryTypeOK, RunRows, RunStatus
  <2>3. /\ rows \in [Stage -> X]
        /\ \A s \in Stage : rows[s] = "succeeded" => s \in artifact[r][n]
    BY <2>2, FilledRow
  <2>4. /\ w \in Pointer /\ w.run = latest /\ w.version = 1
        /\ w.status = "completed" => w.run # NoRun /\ run[w.run].status = "succeeded"
    <3>1. status \in WorkflowStatus
      BY <2>2, Statuses DEF WorkflowStatus
    <3>2. status = "completed" => run[r].status = "succeeded"
      BY <2>2, Statuses
    <3> QED
      BY <1>2, <2>2, <3>1, <3>2 DEF Pointer, RowStatus
  <2> HIDE DEF rows, status
  <2>5. stage[r] \in [Attempt -> [Stage -> X]]
    BY <1>0, <2>2 DEF Stages
  <2>6. [stage[r] EXCEPT ![n] = rows] \in [Attempt -> [Stage -> X]]
    BY <2>3, <2>5
  <2>7. g \in Stages
    BY <1>0, <2>6 DEF Stages
  <2>8. ASSUME NEW q \in Run, NEW m \in Attempt, NEW t \in Stage, g[q][m][t] = "succeeded"
        PROVE  t \in artifact[q][m]
    <3>1. CASE q = r /\ m = n
      BY <1>0, <2>3, <2>5, <2>8, <3>1 DEF Stages
    <3>2. CASE ~(q = r /\ m = n)
      <4>1. g[q][m][t] = stage[q][m][t]
        BY <1>0, <2>5, <3>2 DEF Stages
      <4> QED
        BY <2>8, <4>1 DEF StageRowsSound
    <3> QED
      BY <3>1, <3>2
  <2> HIDE DEF w, g
  <2> QED
    BY <2>1, <2>4, <2>7, <2>8
<1> QED
  BY <1>0, <1>1, <1>2

(* The row a reconciliation writes.                                           *)
LEMMA MovedRow ==
  ASSUME NEW w, NEW g, NEW c, NEW s
  PROVE  Moved([wf |-> w, stage |-> g, conflict |-> c], s) =
           [wf |-> [run |-> w.run, status |-> s, version |-> w.version + 1],
            stage |-> g, conflict |-> c]
BY DEF Moved

(* The consistency check of rows: it keeps the pointer's run and the stages,  *)
(* shows as completed what it found no conflict in, and settles.              *)
ReconcileSettles(st) ==
  /\ \E v \in Pointer : \E d :
       /\ Reconciled(st) = [wf |-> v, stage |-> st.stage, conflict |-> d]
       /\ v.run = st.wf.run /\ v.version # 0
       /\ v.status = "completed" =>
            Checked(st) /\ Conflicts(st.wf.run, st.stage[st.wf.run]) = {} /\ d = {}
  /\ Reconciled(Reconciled(st)) = Reconciled(st)
(* What a check returns, of rows that never say completed of a run that did not *)
(* succeed.                                                                   *)
LEMMA ReconciledRows ==
  ASSUME NEW w \in Pointer, NEW g, NEW c,
         NEW st, st = [wf |-> w, stage |-> g, conflict |-> c],
         w.version # 0, w.status = "completed" => Checked(st)
  PROVE  ReconcileSettles(st)
<1> DEFINE C == Conflicts(w.run, g[w.run])
           found == c \cup {<<w.run, x>> : x \in C}
<1> SUFFICES
      /\ \E v \in Pointer : \E d :
           /\ Reconciled(st) = [wf |-> v, stage |-> g, conflict |-> d]
           /\ v.run = w.run /\ v.version # 0
           /\ v.status = "completed" => Checked(st) /\ Conflicts(w.run, g[w.run]) = {} /\ d = {}
      /\ Reconciled(Reconciled(st)) = Reconciled(st)
  BY DEF ReconcileSettles
<1>0. w.version + 1 \in Nat /\ w.version + 1 # 0 /\ w.run \in Run \cup {NoRun}
  BY DEF Pointer
<1>1. \A v, d : LET x == [wf |-> v, stage |-> g, conflict |-> d] IN
        v.run = w.run => Found(x) = C /\ (Checked(x) <=> Checked(st))
  BY DEF Found, Checked
<1> HIDE DEF C
<1>2. CASE ~Checked(st)
  <2>1. Reconciled(st) = st
    BY <1>2 DEF Reconciled
  <2> QED
    BY <1>2, <2>1
<1>3. CASE Checked(st) /\ C # {}
  <2> DEFINE v == IF w.status = "recovering" THEN w
                  ELSE [run |-> w.run, status |-> "recovering", version |-> w.version + 1]
             after == [wf |-> v, stage |-> g, conflict |-> found]
  <2>1. /\ v \in Pointer /\ v.run = w.run /\ v.version # 0 /\ v.status = "recovering"
    BY <1>0 DEF Pointer, RowStatus, WorkflowStatus
  <2>2. Reconciled(st) = after
    <3> DEFINE x == [wf |-> w, stage |-> g, conflict |-> found]
    <3>1. st.wf = w /\ st.wf.run = w.run /\ st.conflict = c /\ Found(st) = C
      BY <1>1
    <3>2. [st EXCEPT !.conflict = @ \cup {<<st.wf.run, y>> : y \in Found(st)}] = x
      BY <3>1
    <3>3. Moved(x, "recovering") =
            [wf |-> [run |-> w.run, status |-> "recovering", version |-> w.version + 1],
             stage |-> g, conflict |-> found]
      BY MovedRow
    <3>4. CASE w.status = "recovering"
      BY <1>3, <3>1, <3>2, <3>4 DEF Reconciled
    <3>5. CASE ~(w.status = "recovering")
      BY <1>3, <3>1, <3>2, <3>3, <3>5 DEF Reconciled
    <3> QED
      BY <3>4, <3>5
  <2>3. Checked(after) /\ Found(after) = C
    BY <1>1, <1>3, <2>1
  <2>4. found \cup {<<v.run, x>> : x \in C} = found
    BY <2>1
  <2> HIDE DEF v, found
  <2>5. Reconciled(after) = after
    BY <1>3, <2>1, <2>3, <2>4 DEF Reconciled
  <2> QED
    BY <2>1, <2>2, <2>5
<1>4. CASE Checked(st) /\ C = {}
  <2> DEFINE v == IF w.status # "recovering" THEN w
                  ELSE [run |-> w.run, status |-> "completed", version |-> w.version + 1]
             after == [wf |-> v, stage |-> g, conflict |-> {}]
  <2>1. /\ v \in Pointer /\ v.run = w.run /\ v.version # 0 /\ v.status # "recovering"
    BY <1>0 DEF Pointer, RowStatus, WorkflowStatus
  <2>2. Reconciled(st) = after
    <3> DEFINE x == [wf |-> w, stage |-> g, conflict |-> {}]
    <3>1. st.wf = w /\ st.wf.run = w.run /\ st.conflict = c /\ Found(st) = C
      BY <1>1
    <3>2. [st EXCEPT !.conflict = {}] = x
      BY <3>1
    <3>3. Moved(x, "completed") =
            [wf |-> [run |-> w.run, status |-> "completed", version |-> w.version + 1],
             stage |-> g, conflict |-> {}]
      BY MovedRow
    <3>4. CASE w.status # "recovering"
      BY <1>4, <3>1, <3>2, <3>4 DEF Reconciled
    <3>5. CASE ~(w.status # "recovering")
      BY <1>4, <3>1, <3>2, <3>3, <3>5 DEF Reconciled
    <3> QED
      BY <3>4, <3>5
  <2>3. Checked(after) /\ Found(after) = C
    BY <1>1, <1>4, <2>1
  <2> HIDE DEF v
  <2>5. Reconciled(after) = after
    BY <1>4, <2>1, <2>3 DEF Reconciled
  <2> QED
    BY <1>4, <2>1, <2>2, <2>5 DEF C
<1> QED
  BY <1>2, <1>3, <1>4

(* What a read returns: a row with a version, of the run pointed to or of the *)
(* latest, every success with its evidence; and a second read changes nothing.*)
LEMMA ReadRows ==
  ASSUME RecoveryTypeOK, PointersHold, StageRowsSound
  PROVE  /\ Read(Rows).wf \in Pointer /\ Read(Rows).stage \in Stages
         /\ Read(Rows).wf.version # 0
         /\ Read(Rows).wf.run = IF wf = Missing THEN latest ELSE wf.run
         /\ \A q \in Run, m \in Attempt, t \in Stage :
              Read(Rows).stage[q][m][t] = "succeeded" => t \in artifact[q][m]
         /\ Read(Rows).wf.status = "completed" =>
              /\ Read(Rows).wf.run # NoRun
              /\ run[Read(Rows).wf.run].status = "succeeded"
              /\ Conflicts(Read(Rows).wf.run, Read(Rows).stage[Read(Rows).wf.run]) = {}
              /\ Read(Rows).conflict = {}
         /\ Read(Read(Rows)) = Read(Rows)
<1>1. PICK w \in Pointer, g \in Stages :
        /\ (IF wf = Missing THEN Recovered(Rows) ELSE Rows)
             = [wf |-> w, stage |-> g, conflict |-> conflict]
        /\ w.run = IF wf = Missing THEN latest ELSE wf.run
        /\ w.version # 0
        /\ w.status = "completed" => w.run # NoRun /\ run[w.run].status = "succeeded"
        /\ \A q \in Run, m \in Attempt, t \in Stage :
             g[q][m][t] = "succeeded" => t \in artifact[q][m]
  <2>1. CASE wf = Missing
    BY <2>1, RecoveredRows
  <2>2. CASE wf # Missing
    <3>1. /\ wf \in Pointer /\ stage \in Stages /\ wf.version # 0
          /\ wf.status = "completed" => wf.run # NoRun /\ run[wf.run].status = "succeeded"
          /\ \A q \in Run, m \in Attempt, t \in Stage :
               stage[q][m][t] = "succeeded" => t \in artifact[q][m]
      BY <2>2 DEF RecoveryTypeOK, PointersHold, StageRowsSound
    <3> QED
      BY <2>2, <3>1 DEF Rows
  <2> QED
    BY <2>1, <2>2
<1> DEFINE st == [wf |-> w, stage |-> g, conflict |-> conflict]
<1> HIDE DEF st
<1>2. Read(Rows) = Reconciled(st)
  BY <1>1 DEF Read, Rows, st
<1>3. st = [wf |-> w, stage |-> g, conflict |-> conflict]
      /\ (w.status = "completed" => Checked(st))
  BY <1>1 DEF Checked, st
<1>4. /\ \E v \in Pointer : \E d :
           /\ Reconciled(st) = [wf |-> v, stage |-> g, conflict |-> d]
           /\ v.run = w.run /\ v.version # 0
           /\ v.status = "completed" =>
                Checked(st) /\ Conflicts(w.run, g[w.run]) = {} /\ d = {}
      /\ Reconciled(Reconciled(st)) = Reconciled(st)
  <2>1. w.version # 0
    BY <1>1
  <2>2. ReconcileSettles(st)
    BY <1>3, <2>1, ReconciledRows
  <2>3. st.wf = w /\ st.stage = g
    BY <1>3
  <2> QED
    BY <2>2, <2>3 DEF ReconcileSettles
<1>5. Read(Rows).wf # Missing
  BY <1>2, <1>4 DEF Missing
<1>6. Read(Read(Rows)) = Read(Rows)
  BY <1>2, <1>4, <1>5 DEF Read
<1>7. Checked(st) => w.run # NoRun /\ run[w.run].status = "succeeded"
  BY DEF Checked, st
<1> QED
  BY <1>1, <1>2, <1>4, <1>6, <1>7

-----------------------------------------------------------------------------
(* What every step preserves. *)

(* A loop, at work or not, is of the type.                                    *)
LEMMA LoopTypes ==
  /\ NoLoop \in Loops
  /\ \A r \in Run : [NoLoop EXCEPT !.run = r] \in Loops
<1>1. \A r \in Run \cup {NoRun} : [run |-> r, at |-> 1, busy |-> FALSE] \in Loops
  BY DEF Loops
<1>2. ASSUME NEW r \in Run
      PROVE  [NoLoop EXCEPT !.run = r] = [run |-> r, at |-> 1, busy |-> FALSE]
  <2>1. \A b \in BOOLEAN :
          [[run |-> NoRun, at |-> 1, busy |-> b] EXCEPT !.run = r] = [run |-> r, at |-> 1, busy |-> b]
    OBVIOUS
  <2> QED
    BY <2>1, Zenon DEF NoLoop
<1> QED
  BY <1>1, <1>2 DEF NoLoop

(* A loop that begins or ends a stage.                                        *)
LEMMA LoopAdvances ==
  ASSUME loop \in Loops, NEW s, BeginStage(s) \/ EndStage(s)
  PROVE  loop' \in Loops
<1>1. \A b \in BOOLEAN, i \in Int : [loop EXCEPT !.busy = b, !.at = i] \in Loops
  BY DEF Loops
<1>2. loop.at \in Int /\ loop.at - 1 \in Int /\ loop.at + 1 \in Int
  BY DEF Loops
<1>3. \E b \in BOOLEAN, i \in Int : loop' = [loop EXCEPT !.busy = b, !.at = i]
  BY <1>2 DEF BeginStage, EndStage
<1> QED
  BY <1>1, <1>3

(* The run of a loop at work.                                                *)
LEMMA LoopRun ==
  ASSUME RecoveryTypeOK, loop.run # NoRun
  PROVE  loop.run \in Run
BY DEF RecoveryTypeOK, Loops

(* The run rows after a transaction.                                          *)
LEMMA RunTypes ==
  ASSUME run \in RunRows, NEW r \in Run, NEW s \in RunStatus
  PROVE  /\ [run EXCEPT ![r].status = s] \in RunRows
         /\ \A n \in Nat : [run EXCEPT ![r] = [status |-> s, attempts |-> n]] \in RunRows
<1>1. \A n \in Nat : [status |-> s, attempts |-> n] \in [status : RunStatus, attempts : Nat]
  OBVIOUS
<1>2. run[r] \in [status : RunStatus, attempts : Nat]
  BY DEF RunRows
<1>3. [run[r] EXCEPT !.status = s] \in [status : RunStatus, attempts : Nat]
  BY <1>2
<1> QED
  BY <1>1, <1>3 DEF RunRows

(* A stage row that is set to succeeded is the only new one.                  *)
RowAdded(g, r, n, s, to) ==
  /\ g \in Stages
  /\ \A q \in Run, m \in Attempt, t \in Stage :
       g[q][m][t] = "succeeded" =>
         \/ stage[q][m][t] = "succeeded"
         \/ to = "succeeded" /\ q = r /\ m = n /\ t = s
(* So it is for every write to a stage row.                                   *)
LEMMA SetStageKeeps ==
  ASSUME stage \in Stages, NEW r \in Run, NEW n, NEW s \in Stage, NEW to \in StageStatus
  PROVE  RowAdded(SetStage(r, n, s, to), r, n, s, to)
BY SetStageRows DEF RowAdded

(* A transaction keeps the rows sound when it writes "succeeded" only beside  *)
(* the artifact, and stage rows only beside a pointer row.                    *)
LEMMA TransactionRows ==
  ASSUME RecoveryTypeOK, StageRowsSound, NEW w \in Pointer, NEW g \in Stages,
         Workflow(w, g),
         w # Missing \/ (w = wf /\ g = stage),
         artifact' \in [Run -> [Attempt -> SUBSET Stage]],
         \A q \in Run, m \in Attempt : artifact[q][m] \subseteq artifact'[q][m],
         \A q \in Run, m \in Attempt, t \in Stage :
           g[q][m][t] = "succeeded" => stage[q][m][t] = "succeeded" \/ t \in artifact'[q][m]
  PROVE  wf' \in Pointer /\ stage' \in Stages /\ StageRowsSound'
<1>1. \A q \in Run, m \in Attempt, t \in Stage :
        stage[q][m][t] = "succeeded" => t \in artifact'[q][m]
  BY DEF StageRowsSound
<1>2. CASE build = "this"
  BY <1>1, <1>2 DEF Workflow, StageRowsSound, Missing
<1>3. CASE build # "this"
  BY <1>1, <1>3 DEF Workflow, StageRowsSound, RecoveryTypeOK, Missing
<1> QED
  BY <1>2, <1>3

(* One that adds no artifact. *)
LEMMA PlainTransaction ==
  ASSUME RecoveryTypeOK, StageRowsSound, NEW w \in Pointer, NEW g \in Stages,
         Workflow(w, g), UNCHANGED artifact,
         w # Missing \/ (w = wf /\ g = stage),
         \A q \in Run, m \in Attempt, t \in Stage :
           g[q][m][t] = "succeeded" => stage[q][m][t] = "succeeded"
  PROVE  wf' \in Pointer /\ stage' \in Stages /\ StageRowsSound'
BY TransactionRows DEF RecoveryTypeOK

(* One artifact more, of an attempt there is a row for or not.                *)
ArtifactsOf(r, n, s) ==
  \A q \in Run, m \in Attempt :
    /\ artifact[q][m] \subseteq artifact'[q][m]
    /\ q = r /\ m = n => s \in artifact'[q][m]
(* So it is when an artifact is recorded.                                     *)
LEMMA ArtifactAdded ==
  ASSUME artifact \in [Run -> [Attempt -> SUBSET Stage]],
         NEW r \in Run, NEW n, NEW s \in Stage,
         artifact' = [artifact EXCEPT ![r][n] = @ \cup {s}]
  PROVE  artifact' \in [Run -> [Attempt -> SUBSET Stage]] /\ ArtifactsOf(r, n, s)
<1> DEFINE mine == [artifact[r] EXCEPT ![n] = artifact[r][n] \cup {s}]
<1>1. artifact[r] \in [Attempt -> SUBSET Stage] /\ artifact' = [artifact EXCEPT ![r] = mine]
  OBVIOUS
<1>2. mine \in [Attempt -> SUBSET Stage]
  BY <1>1
<1>3. \A m \in Attempt : artifact[r][m] \subseteq mine[m] /\ (m = n => s \in mine[m])
  BY <1>1
<1> HIDE DEF mine
<1> QED
  BY <1>1, <1>2, <1>3 DEF ArtifactsOf

(* The types and the stage rows.                                              *)
LEMMA RowsStep ==
  ASSUME RecoveryInv, [Next]_recoveryVars
  PROVE  RecoveryTypeOK' /\ StageRowsSound'
<1> USE DEF RecoveryInv
<1>0. stage \in Stages /\ wf \in Pointer
  BY DEF RecoveryTypeOK
<1>1. CASE UNCHANGED recoveryVars
  BY <1>1 DEF recoveryVars, processVars, runVars, loopVars, wfVars, RecoveryTypeOK,
              StageRowsSound, Missing
<1>2. ASSUME UNCHANGED <<runVars, wfVars>>, loop' \in {loop, NoLoop}, due' \in {due, {}},
             process' \in {"down", "migrating", "reconciling", "serving"},
             build' \in {"before", "this"}
      PROVE  RecoveryTypeOK' /\ StageRowsSound'
  BY <1>2, LoopTypes DEF runVars, wfVars, RecoveryTypeOK, StageRowsSound, Missing
<1>3. CASE Start \/ Migrate \/ Migrated \/ ReconcileFails \/ Crash
  BY <1>2, <1>3 DEF Start, Migrate, Migrated, ReconcileFails, Crash, loopVars, RecoveryTypeOK
<1>4. CASE Reconcile
  <2>1. CASE UNCHANGED <<runVars, wf, stage>>
    BY <1>2, <1>4, <2>1 DEF Reconcile, loopVars, wfVars, RecoveryTypeOK
  <2>2. ASSUME NEW r \in Run, Active(r),
               run' = [run EXCEPT ![r].status = "interrupted"],
               latest' = r,
               Workflow(Bump(r, "cancelled"),
                 [stage EXCEPT ![r] = [n \in Attempt |-> [s \in Stage |->
                    IF @[n][s] = "running" /\ \A m \in Attempt, t \in Stage :
                         m > n => @[m][t] = "none"
                    THEN "cancelled" ELSE @[n][s]]]]),
               UNCHANGED <<created, began, blamed, preview>>
        PROVE  RecoveryTypeOK' /\ StageRowsSound'
    <3> DEFINE cut == [n \in Attempt |-> [s \in Stage |->
                        IF stage[r][n][s] = "running" /\ \A m \in Attempt, t \in Stage :
                             m > n => stage[r][m][t] = "none"
                        THEN "cancelled" ELSE stage[r][n][s]]]
               g == [stage EXCEPT ![r] = cut]
    <3>1. cut \in [Attempt -> [Stage -> StageStatus \cup {"recovering"}]]
      BY <1>0 DEF Stages, StageStatus
    <3>2. \A m \in Attempt, t \in Stage : cut[m][t] = "succeeded" => stage[r][m][t] = "succeeded"
      OBVIOUS
    <3>3. Workflow(Bump(r, "cancelled"), g)
      BY <1>0, <2>2 DEF Stages
    <3> HIDE DEF cut
    <3>4. /\ g \in Stages
          /\ \A q \in Run, m \in Attempt, t \in Stage :
               g[q][m][t] = "succeeded" => stage[q][m][t] = "succeeded"
      BY <1>0, <3>1, <3>2 DEF Stages
    <3>5. Bump(r, "cancelled") \in Pointer /\ Bump(r, "cancelled") # Missing
      BY BumpRow, Statuses
    <3>6. UNCHANGED artifact
      BY <1>4 DEF Reconcile
    <3> HIDE DEF g
    <3>7. wf' \in Pointer /\ stage' \in Stages /\ StageRowsSound'
      BY <3>3, <3>4, <3>5, <3>6, PlainTransaction
    <3> QED
      BY <1>4, <2>2, <3>6, <3>7
      DEF Reconcile, loopVars, RecoveryTypeOK, RunRows, RunStatus
  <2> QED
    BY <1>4, <2>1, <2>2 DEF Reconcile
<1>5. CASE CreateProject
  <2> DEFINE w == [run |-> NoRun, status |-> "draft", version |-> 1]
  <2>1. w \in Pointer /\ w # Missing
    BY DEF Pointer, RowStatus, WorkflowStatus, Missing
  <2> HIDE DEF w
  <2>2. Workflow(w, stage) /\ UNCHANGED artifact
    BY <1>5 DEF CreateProject, w
  <2>3. wf' \in Pointer /\ stage' \in Stages /\ StageRowsSound'
    BY <1>0, <2>1, <2>2, PlainTransaction
  <2> QED
    BY <1>5, <2>3 DEF CreateProject, processVars, loopVars, RecoveryTypeOK
<1>6. ASSUME NEW r \in Run, NEW canStart \in BOOLEAN, CreateRun(r, canStart)
      PROVE  RecoveryTypeOK' /\ StageRowsSound'
  <2> DEFINE s == IF canStart THEN "queued" ELSE "failed"
             w == PointTo(r, RunWorkflowStatus(s))
             g == InitStages(r, 1)
  <2>1. w \in Pointer /\ w # Missing
    BY <1>0, Statuses DEF PointTo, Pointer, RowStatus, Missing, LiveStatus
  <2>2. /\ g \in Stages
        /\ \A q \in Run, m \in Attempt, t \in Stage :
             g[q][m][t] = "succeeded" => stage[q][m][t] = "succeeded"
    BY <1>0, InitStagesRows
  <2>3. Workflow(w, g) /\ UNCHANGED artifact
    BY <1>6 DEF CreateRun
  <2> HIDE DEF w, g
  <2>4. wf' \in Pointer /\ stage' \in Stages /\ StageRowsSound'
    BY <2>1, <2>2, <2>3, PlainTransaction
  <2>5. run' \in RunRows /\ loop' \in Loops
    <3>1. s \in RunStatus /\ run \in RunRows /\ loop \in Loops
      BY DEF RunStatus, LiveStatus, RecoveryTypeOK
    <3>2. /\ run' = [run EXCEPT ![r] = [status |-> s, attempts |-> 1]]
          /\ loop' = loop \/ loop' = [NoLoop EXCEPT !.run = r]
      BY <1>6 DEF CreateRun
    <3> HIDE DEF s
    <3> QED
      BY <3>1, <3>2, RunTypes, LoopTypes
  <2> QED
    BY <1>6, <2>3, <2>4, <2>5 DEF CreateRun, processVars, RecoveryTypeOK
<1>7. ASSUME NEW r \in Run, RetryRun(r)
      PROVE  RecoveryTypeOK' /\ StageRowsSound'
  <2> DEFINE n == run[r].attempts + 1
             w == Bump(r, "running")
             g == InitStages(r, n)
  <2>1. w \in Pointer /\ w # Missing
    BY BumpRow, Statuses
  <2>2. /\ g \in Stages
        /\ \A q \in Run, m \in Attempt, t \in Stage :
             g[q][m][t] = "succeeded" => stage[q][m][t] = "succeeded"
    BY <1>0, InitStagesRows
  <2>3. Workflow(w, g) /\ UNCHANGED artifact
    BY <1>7 DEF RetryRun
  <2> HIDE DEF w, g
  <2>4. wf' \in Pointer /\ stage' \in Stages /\ StageRowsSound'
    BY <2>1, <2>2, <2>3, PlainTransaction
  <2>5. run' \in RunRows /\ loop' \in Loops
    <3>1. "running" \in RunStatus /\ run \in RunRows /\ n \in Nat
      BY DEF RunStatus, LiveStatus, RecoveryTypeOK, RunRows
    <3>2. /\ run' = [run EXCEPT ![r] = [status |-> "running", attempts |-> n]]
          /\ loop' = [NoLoop EXCEPT !.run = r]
      BY <1>7 DEF RetryRun
    <3> HIDE DEF n
    <3> QED
      BY <3>1, <3>2, RunTypes, LoopTypes
  <2> QED
    BY <1>7, <2>3, <2>4, <2>5 DEF RetryRun, processVars, RecoveryTypeOK
<1>8. ASSUME NEW s \in Stage, BeginStage(s)
      PROVE  RecoveryTypeOK' /\ StageRowsSound'
  <2> DEFINE r == loop.run
             w == Bump(r, "running")
             g == SetStage(r, run[r].attempts, s, "running")
  <2>0. r \in Run
    BY <1>8, LoopRun DEF BeginStage, LoopAt
  <2>1. w \in Pointer /\ w # Missing
    BY <2>0, BumpRow, Statuses
  <2>2. /\ g \in Stages
        /\ \A q \in Run, m \in Attempt, t \in Stage :
             g[q][m][t] = "succeeded" => stage[q][m][t] = "succeeded"
    <3>1. "running" \in StageStatus /\ "running" # "succeeded"
      BY DEF StageStatus
    <3> QED
      <4>1. RowAdded(g, r, run[r].attempts, s, "running")
        BY <1>0, <2>0, <3>1, SetStageKeeps
      <4> HIDE DEF g
      <4> QED
        BY <3>1, <4>1 DEF RowAdded
  <2>3. Workflow(w, g) /\ UNCHANGED artifact
    BY <1>8 DEF BeginStage
  <2> HIDE DEF w, g
  <2>4. wf' \in Pointer /\ stage' \in Stages /\ StageRowsSound'
    BY <2>1, <2>2, <2>3, PlainTransaction
  <2> QED
    BY <1>8, <2>3, <2>4, LoopAdvances DEF BeginStage, processVars, RecoveryTypeOK
<1>9. ASSUME NEW s \in Stage, EndStage(s)
      PROVE  RecoveryTypeOK' /\ StageRowsSound'
  <2> DEFINE r == loop.run
             n == run[r].attempts
             w == Bump(r, "running")
             g == SetStage(r, n, s, "succeeded")
  <2>0. r \in Run
    BY <1>9, LoopRun DEF EndStage, LoopAt
  <2>1. CASE UNCHANGED wfVars
    BY <1>9, <2>1, LoopAdvances
    DEF EndStage, processVars, runVars, wfVars, RecoveryTypeOK, StageRowsSound, Missing
  <2>2. CASE artifact' = [artifact EXCEPT ![r][n] = @ \cup {s}] /\ Workflow(w, g)
    <3>1. w \in Pointer /\ w # Missing
      BY <2>0, BumpRow, Statuses
    <3>2. artifact' \in [Run -> [Attempt -> SUBSET Stage]] /\ ArtifactsOf(r, n, s)
      BY <2>0, <2>2, ArtifactAdded DEF RecoveryTypeOK
    <3>3. /\ g \in Stages
          /\ \A q \in Run, m \in Attempt, t \in Stage :
               g[q][m][t] = "succeeded" => stage[q][m][t] = "succeeded" \/ t \in artifact'[q][m]
      <4>1. "succeeded" \in StageStatus
        BY DEF StageStatus
      <4>2. RowAdded(g, r, n, s, "succeeded")
        BY <1>0, <2>0, <4>1, SetStageKeeps
      <4> HIDE DEF g
      <4> QED
        BY <3>2, <4>2 DEF RowAdded, ArtifactsOf
    <3> HIDE DEF w, g
    <3>4. wf' \in Pointer /\ stage' \in Stages /\ StageRowsSound'
      BY <2>2, <3>1, <3>2, <3>3, TransactionRows DEF ArtifactsOf
    <3> QED
      BY <1>9, <3>2, <3>4, LoopAdvances
      DEF EndStage, processVars, runVars, RecoveryTypeOK
  <2> QED
    BY <1>9, <2>1, <2>2 DEF EndStage
<1>10. CASE Succeed
  <2> DEFINE w == Bump(loop.run, "completed")
  <2>0. loop.run \in Run
    BY <1>10, LoopRun DEF Succeed
  <2>1. w \in Pointer /\ w # Missing
    BY <2>0, BumpRow, Statuses
  <2>2. Workflow(w, stage) /\ UNCHANGED artifact
    BY <1>10 DEF Succeed
  <2> HIDE DEF w
  <2>3. wf' \in Pointer /\ stage' \in Stages /\ StageRowsSound'
    BY <1>0, <2>1, <2>2, PlainTransaction
  <2>4. due' \in SUBSET Owed
    BY <1>10, <2>0 DEF Succeed, RecoveryTypeOK, Owed
  <2>5. run' \in RunRows /\ loop' \in Loops
    <3>1. "succeeded" \in RunStatus /\ run \in RunRows
      BY DEF RunStatus, RecoveryTypeOK
    <3> QED
      BY <1>10, <2>0, <3>1, RunTypes, LoopTypes DEF Succeed
  <2> QED
    BY <1>10, <2>0, <2>2, <2>3, <2>4, <2>5 DEF Succeed, processVars, RecoveryTypeOK
<1>11. CASE FailRun
  <2> DEFINE w == Bump(loop.run, "failed")
  <2>0. loop.run \in Run
    BY <1>11, LoopRun DEF FailRun
  <2>1. w \in Pointer /\ w # Missing
    BY <2>0, BumpRow, Statuses
  <2>2. Workflow(w, stage) /\ UNCHANGED artifact
    BY <1>11 DEF FailRun
  <2> HIDE DEF w
  <2>3. wf' \in Pointer /\ stage' \in Stages /\ StageRowsSound'
    BY <1>0, <2>1, <2>2, PlainTransaction
  <2>4. due' \in SUBSET Owed
    BY <1>11, <2>0 DEF FailRun, RecoveryTypeOK, Owed
  <2>5. run' \in RunRows /\ loop' \in Loops
    <3>1. "failed" \in RunStatus /\ run \in RunRows
      BY DEF RunStatus, RecoveryTypeOK
    <3> QED
      BY <1>11, <2>0, <3>1, RunTypes, LoopTypes DEF FailRun
  <2> QED
    BY <1>11, <2>0, <2>2, <2>3, <2>4, <2>5 DEF FailRun, processVars, RecoveryTypeOK
<1>12. ASSUME NEW e \in due, Emit(e)
       PROVE  RecoveryTypeOK' /\ StageRowsSound'
  <2> DEFINE w == Bump(e.run, EventWorkflow[e.type])
             n == run[e.run].attempts
             g == IF e.type = "run_failed" /\ e.stage # NoStage
                  THEN SetStage(e.run, n, e.stage, "failed") ELSE stage
  <2>0. e \in Owed /\ e.run \in Run /\ (e.stage # NoStage => e.stage \in Stage)
    BY <1>12 DEF RecoveryTypeOK, Owed
  <2>1. w \in Pointer /\ w # Missing
    <3>1. EventWorkflow[e.type] \in WorkflowStatus
      BY <2>0, Statuses DEF Owed, EventWorkflow
    <3> QED
      BY <2>0, <3>1, BumpRow
  <2>2. /\ g \in Stages
        /\ \A q \in Run, m \in Attempt, t \in Stage :
             g[q][m][t] = "succeeded" => stage[q][m][t] = "succeeded"
    <3>1. CASE e.type = "run_failed" /\ e.stage # NoStage
      <4>1. "failed" \in StageStatus /\ "failed" # "succeeded"
        BY DEF StageStatus
      <4>2. RowAdded(g, e.run, n, e.stage, "failed")
        BY <1>0, <2>0, <3>1, <4>1, SetStageKeeps
      <4> QED
        BY <4>1, <4>2 DEF RowAdded
    <3>2. CASE ~(e.type = "run_failed" /\ e.stage # NoStage)
      BY <1>0, <3>2
    <3> QED
      BY <3>1, <3>2
  <2>3. Workflow(w, g) /\ UNCHANGED artifact
    BY <1>12 DEF Emit
  <2> HIDE DEF w, g
  <2>4. wf' \in Pointer /\ stage' \in Stages /\ StageRowsSound'
    BY <2>1, <2>2, <2>3, PlainTransaction
  <2> QED
    BY <1>12, <2>3, <2>4 DEF Emit, processVars, RecoveryTypeOK
<1>13. ASSUME NEW r \in Run, NEW n \in Attempt, CompileResult(r, n)
       PROVE  RecoveryTypeOK' /\ StageRowsSound'
  <2> DEFINE w == Bump(r, "running")
             g == SetStage(r, n, "qa", "succeeded")
  <2>1. w \in Pointer /\ w # Missing
    BY BumpRow, Statuses
  <2>2. artifact' \in [Run -> [Attempt -> SUBSET Stage]] /\ ArtifactsOf(r, n, "qa")
    BY <1>13, ArtifactAdded, Statuses DEF RecoveryTypeOK, CompileResult
  <2>3. /\ g \in Stages
        /\ \A q \in Run, m \in Attempt, t \in Stage :
             g[q][m][t] = "succeeded" => stage[q][m][t] = "succeeded" \/ t \in artifact'[q][m]
    <3>1. "succeeded" \in StageStatus /\ "qa" \in Stage
      BY DEF StageStatus, Stage
    <3>2. RowAdded(g, r, n, "qa", "succeeded")
      BY <1>0, <3>1, SetStageKeeps
    <3> HIDE DEF g
    <3> QED
      BY <2>2, <3>2 DEF RowAdded, ArtifactsOf
  <2>4. Workflow(w, g)
    BY <1>13 DEF CompileResult
  <2> HIDE DEF w, g
  <2>5. wf' \in Pointer /\ stage' \in Stages /\ StageRowsSound'
    BY <2>1, <2>2, <2>3, <2>4, TransactionRows DEF ArtifactsOf
  <2> QED
    BY <1>13, <2>2, <2>5
    DEF CompileResult, processVars, runVars, loopVars, RecoveryTypeOK
<1>14. CASE WriteFile
  <2>1. BumpPreview \in Pointer /\ (BumpPreview # Missing \/ BumpPreview = wf)
    <3>1. wf.version + 1 \in Nat /\ wf.version + 1 # 0
      BY <1>0 DEF Pointer
    <3>2. BumpSnapshot = [run |-> wf.run, status |-> wf.status, version |-> wf.version + 1]
      BY <1>0 DEF BumpSnapshot, Pointer
    <3> QED
      BY <1>0, <3>1, <3>2 DEF BumpPreview, Pointer, Missing
  <2>2. Workflow(BumpPreview, stage) /\ UNCHANGED artifact
    BY <1>14 DEF WriteFile
  <2>3. wf' \in Pointer /\ stage' \in Stages /\ StageRowsSound'
    BY <1>0, <2>1, <2>2, PlainTransaction
  <2> QED
    BY <1>14, <2>2, <2>3 DEF WriteFile, processVars, runVars, loopVars, RecoveryTypeOK
<1>15. ASSUME NEW r \in Run, RestoreVersion(r)
       PROVE  RecoveryTypeOK' /\ StageRowsSound'
  BY <1>15 DEF RestoreVersion, processVars, loopVars, wfVars, RecoveryTypeOK,
               StageRowsSound, Missing
<1>16. CASE GetProject
  <2>1. /\ wf' \in Pointer /\ stage' \in Stages /\ wf'.version # 0
        /\ \A q \in Run, m \in Attempt, t \in Stage :
             stage'[q][m][t] = "succeeded" => t \in artifact[q][m]
    BY <1>16, ReadRows DEF GetProject, RunsInv
  <2> QED
    BY <1>16, <2>1 DEF GetProject, processVars, runVars, loopVars, RecoveryTypeOK,
                       StageRowsSound, Missing
<1> QED
  BY <1>1, <1>3, <1>4, <1>5, <1>6, <1>7, <1>8, <1>9, <1>10, <1>11, <1>12, <1>13,
     <1>14, <1>15, <1>16 DEF Next, Startup, Request, LoopStep

(* The migrations: a process is past them only with the tables of its build.  *)
LEMMA TablesStep ==
  ASSUME RecoveryInv, [Next]_recoveryVars
  PROVE  TablesRecorded'
<1> USE DEF RecoveryInv, TablesRecorded
<1>1. CASE UNCHANGED recoveryVars
  BY <1>1 DEF recoveryVars, processVars, Needed
<1>2. CASE Start \/ Crash
  BY <1>2 DEF Start, Crash
<1>3. CASE Migrate
  BY <1>3 DEF Migrate, Apply
<1>4. CASE Migrated \/ Reconcile \/ ReconcileFails
  BY <1>4 DEF Migrated, Reconcile, ReconcileFails, Needed
<1>5. CASE Request
  BY <1>5 DEF Request, CreateProject, GetProject, WriteFile, CreateRun, RetryRun,
              RestoreVersion, CompileResult, processVars, Needed
<1>6. CASE LoopStep
  BY <1>6 DEF LoopStep, BeginStage, EndStage, Succeed, FailRun, Emit, processVars, Needed
<1> QED
  BY <1>1, <1>2, <1>3, <1>4, <1>5, <1>6 DEF Next, Startup

(* The pointer after the transaction of one run.                              *)
LEMMA BumpPointer ==
  ASSUME RecoveryTypeOK, PointersHold, NEW r \in Run, NEW s \in WorkflowStatus, NEW g,
         Workflow(Bump(r, s), g),
         Exists(r)', latest' # NoRun => Exists(latest)',
         \A q \in Run \ {r} : run'[q] = run[q],
         s = "completed" \/ run[r].status = "succeeded" => run'[r].status = "succeeded"
  PROVE  PointersHold'
<1>1. \/ wf' = wf
      \/ wf'.run = r /\ wf'.status = s /\ wf'.version # 0
  BY BumpRow DEF Workflow
<1>2. CASE wf' = wf
  <2>1. wf.run \in Run \cup {NoRun}
    BY DEF RecoveryTypeOK, Pointer
  <2> QED
    BY <1>2, <2>1 DEF PointersHold, Exists, Missing
<1>3. CASE wf'.run = r /\ wf'.status = s /\ wf'.version # 0
  BY <1>3, Runs DEF PointersHold, Exists
<1> QED
  BY <1>1, <1>2, <1>3

(* The runs, the loop and the pointer.                                        *)
LEMMA RunsStep ==
  ASSUME RecoveryInv, [Next]_recoveryVars
  PROVE  RunsInv'
<1> USE DEF RecoveryInv, RunsInv
<1>0. /\ run \in RunRows /\ wf \in Pointer /\ due \in SUBSET Owed
      /\ latest \in Run \cup {NoRun}
  BY DEF RecoveryTypeOK
<1>0c. created => created'
  BY DEF Next, Startup, Request, LoopStep, Start, Migrate, Migrated, Reconcile, ReconcileFails,
         Crash, CreateProject, GetProject, WriteFile, CreateRun, RetryRun, RestoreVersion,
         CompileResult, BeginStage, EndStage, Succeed, FailRun, Emit,
         recoveryVars, runVars
<1>1. ASSUME UNCHANGED <<run, latest, wf>>, loop' \in {loop, NoLoop}, due' \in {due, {}},
             loop'.run # NoRun => Serving'
      PROVE  RunsInv'
  BY <1>0c, <1>1 DEF RunsInOrder, LoopsLive, PointersHold, Exists, Active, NoLoop, Missing
<1>2. CASE UNCHANGED recoveryVars
  BY <1>1, <1>2 DEF recoveryVars, processVars, runVars, loopVars, wfVars, LoopsLive, Serving
<1>3. CASE Start \/ Migrate \/ Migrated \/ ReconcileFails \/ Crash
  BY <1>1, <1>3 DEF Start, Migrate, Migrated, ReconcileFails, Crash, runVars, loopVars, wfVars,
                    LoopsLive, Serving, NoLoop
<1>4. CASE Reconcile
  <2>1. CASE UNCHANGED <<runVars, wf, stage>>
    BY <1>1, <1>4, <2>1 DEF Reconcile, runVars, loopVars, LoopsLive, Serving
  <2>2. ASSUME NEW r \in Run, NEW g, Active(r),
               run' = [run EXCEPT ![r].status = "interrupted"], latest' = r,
               Workflow(Bump(r, "cancelled"), g)
        PROVE  RunsInv'
    <3>1. /\ run'[r].status = "interrupted" /\ run'[r].attempts = run[r].attempts
          /\ \A q \in Run \ {r} : run'[q] = run[q]
      BY <1>0, <2>2 DEF RunRows
    <3>2. loop.run = NoRun /\ loop' = loop /\ due' = due
      BY <1>4 DEF Reconcile, loopVars, LoopsLive, Serving
    <3>3. run[r].status \in LiveStatus /\ run[r].status # "succeeded" /\ Exists(r)
      BY <2>2 DEF Active, Exists, LiveStatus
    <3>4. RunsInOrder'
      BY <1>0c, <3>1, <3>3 DEF RunsInOrder, Exists
    <3>5. LoopsLive'
      BY <1>0, <3>1, <3>2, <3>3 DEF LoopsLive, Exists, Owed
    <3>6. PointersHold'
      BY <2>2, <3>1, <3>3, BumpPointer, Statuses DEF Exists
    <3> QED
      BY <3>4, <3>5, <3>6
  <2> QED
    BY <1>4, <2>1, <2>2 DEF Reconcile
<1>5. CASE CreateProject
  <2>1. wf' = wf \/ wf' = [run |-> NoRun, status |-> "draft", version |-> 1]
    BY <1>5 DEF CreateProject, Workflow
  <2> QED
    BY <1>0c, <1>5, <2>1 DEF CreateProject, processVars, loopVars, RunsInOrder, LoopsLive, Serving,
                      PointersHold, Exists, Active, Missing
<1>6. ASSUME NEW r \in Run, NEW canStart \in BOOLEAN, CreateRun(r, canStart)
      PROVE  RunsInv'
  <2> DEFINE s == IF canStart THEN "queued" ELSE "failed"
  <2>1. /\ run'[r] = [status |-> s, attempts |-> 1]
        /\ \A q \in Run \ {r} : run'[q] = run[q]
        /\ latest' = r /\ due' = due /\ Serving' /\ created /\ ~Exists(r)
        /\ \A q \in Run : q < r => Exists(q)
    BY <1>0, <1>6 DEF CreateRun, processVars, RunRows, Serving, Exists
  <2>2. s \in {"queued", "failed"} /\ (canStart => s = "queued")
    OBVIOUS
  <2>3. loop.run = NoRun
    BY <1>6 DEF CreateRun, LoopsLive, NoActiveRun, RecoveryTypeOK, Loops
  <2>4. loop' = loop \/ (canStart /\ loop'.run = r)
    BY <1>6 DEF CreateRun, NoLoop
  <2>5. \/ wf' = wf
        \/ wf'.run = r /\ wf'.status # "completed" /\ wf'.version # 0
    <3>1. PointTo(r, RunWorkflowStatus(s)).run = r
          /\ PointTo(r, RunWorkflowStatus(s)).status # "completed"
          /\ PointTo(r, RunWorkflowStatus(s)).version # 0
      BY <1>0, <2>2, Statuses DEF PointTo, Pointer, LiveStatus
    <3>2. wf' = PointTo(r, RunWorkflowStatus(s)) \/ wf' = wf
      BY <1>6 DEF CreateRun, Workflow
    <3> QED
      BY <3>1, <3>2
  <2> HIDE DEF s
  <2>6. Exists(r)'
    BY <2>1, <2>2 DEF Exists
  <2>7. RunsInOrder'
    BY <1>0c, <2>1, <2>6, Runs DEF RunsInOrder, Exists
  <2>8. LoopsLive'
    BY <1>0, <2>1, <2>2, <2>3, <2>4, <2>6 DEF LoopsLive, Exists, Active, LiveStatus, Owed
  <2>9. PointersHold'
    BY <1>0, <2>1, <2>5, <2>6, Runs DEF PointersHold, Exists, Missing, Pointer
  <2> QED
    BY <2>7, <2>8, <2>9
<1>7. ASSUME NEW r \in Run, RetryRun(r)
      PROVE  RunsInv'
  <2>1. /\ run'[r].status = "running"
        /\ \A q \in Run \ {r} : run'[q] = run[q]
        /\ latest' = r /\ due' = due /\ Serving' /\ loop'.run = r
        /\ Exists(r) /\ run[r].status # "succeeded"
    BY <1>0, <1>7 DEF RetryRun, processVars, RunRows, Serving, Exists, NoLoop
  <2>2. Exists(r)'
    BY <2>1 DEF Exists
  <2>3. RunsInOrder'
    BY <1>0c, <2>1, <2>2 DEF RunsInOrder, Exists
  <2>4. LoopsLive'
    BY <1>0, <2>1, <2>2 DEF LoopsLive, Exists, Active, LiveStatus, Owed
  <2>5. PointersHold'
    BY <1>7, <2>1, <2>2, BumpPointer, Statuses DEF RetryRun
  <2> QED
    BY <2>3, <2>4, <2>5
<1>8. ASSUME NEW r \in Run, NEW st \in WorkflowStatus, NEW g, Exists(r),
             st = "completed" => run[r].status = "succeeded",
             UNCHANGED <<run, latest, process>>, loop'.run = loop.run, due' \subseteq due,
             Workflow(Bump(r, st), g) \/ UNCHANGED wf
      PROVE  RunsInv'
  <2>1. RunsInOrder' /\ LoopsLive' /\ (latest' # NoRun => Exists(latest)') /\ Exists(r)'
    BY <1>0c, <1>8 DEF RunsInOrder, LoopsLive, Exists, Active, Serving, PointersHold
  <2>2. CASE UNCHANGED wf
    BY <1>8, <2>1, <2>2 DEF PointersHold, Exists, Missing
  <2>3. CASE Workflow(Bump(r, st), g)
    BY <1>8, <2>1, <2>3, BumpPointer
  <2> QED
    BY <1>8, <2>1, <2>2, <2>3
<1>9. CASE \E s \in Stage : BeginStage(s) \/ EndStage(s)
  <2>1. PICK s \in Stage : BeginStage(s) \/ EndStage(s)
    BY <1>9
  <2>2. /\ loop.run \in Run /\ Exists(loop.run)
        /\ UNCHANGED <<run, latest, process>> /\ due' = due /\ loop'.run = loop.run
    <3>1. loop.run # NoRun
      BY <2>1 DEF BeginStage, EndStage, LoopAt
    <3>2. loop'.run = loop.run
      BY <2>1 DEF BeginStage, EndStage, RecoveryTypeOK, Loops
    <3> QED
      BY <2>1, <3>1, <3>2, LoopRun
      DEF BeginStage, EndStage, LoopsLive, Active, Exists, LiveStatus, processVars, runVars
  <2>3. (\E g : Workflow(Bump(loop.run, "running"), g)) \/ UNCHANGED wf
    BY <2>1 DEF BeginStage, EndStage, wfVars
  <2>4. "running" \in WorkflowStatus /\ "running" # "completed"
    BY Statuses
  <2> QED
    BY <1>8, <2>2, <2>3, <2>4
<1>10. ASSUME NEW e \in due, Emit(e)
       PROVE  RunsInv'
  <2>1. /\ e.run \in Run /\ Exists(e.run) /\ e.type \in {"run_completed", "run_failed"}
        /\ e.type = "run_completed" => run[e.run].status = "succeeded"
    BY <1>0, <1>10 DEF LoopsLive, Owed
  <2>2. /\ EventWorkflow[e.type] \in WorkflowStatus
        /\ EventWorkflow[e.type] = "completed" => e.type = "run_completed"
    BY <2>1, Statuses DEF EventWorkflow
  <2>3. /\ UNCHANGED <<run, latest, process>> /\ due' \subseteq due /\ loop' = loop
        /\ \E g : Workflow(Bump(e.run, EventWorkflow[e.type]), g)
    BY <1>10 DEF Emit, processVars
  <2> QED
    BY <1>8, <2>1, <2>2, <2>3
<1>11. ASSUME NEW r \in Run, NEW n \in Attempt, CompileResult(r, n)
       PROVE  RunsInv'
  <2>1. Exists(r)
    BY <1>0, <1>11 DEF CompileResult, RunsInOrder, RunRows, Attempt
  <2>2. /\ UNCHANGED <<run, latest, process>> /\ due' = due /\ loop' = loop
        /\ \E g : Workflow(Bump(r, "running"), g)
    BY <1>11 DEF CompileResult, processVars, runVars, loopVars
  <2>3. "running" \in WorkflowStatus /\ "running" # "completed"
    BY Statuses
  <2> QED
    BY <1>8, <2>1, <2>2, <2>3
<1>12. ASSUME NEW s \in {"succeeded", "failed"}, NEW e \in Owed, NEW g,
              loop.run # NoRun, e.run = loop.run,
              e.type = "run_completed" => s = "succeeded",
              run' = [run EXCEPT ![loop.run].status = s], latest' = loop.run,
              loop' = NoLoop, due' = due \cup {e},
              Workflow(Bump(loop.run, RunWorkflowStatus(s)), g)
       PROVE  RunsInv'
  <2>0. PICK r \in Run : r = loop.run
    BY <1>12, LoopRun
  <2>1. /\ r \in Run /\ run[r].status \in LiveStatus
        /\ Exists(r) /\ run[r].status # "succeeded"
    BY <1>12, <2>0 DEF LoopsLive, Active, Exists, LiveStatus
  <2>2. /\ run'[r].status = s /\ run'[r].attempts = run[r].attempts
        /\ \A q \in Run \ {r} : run'[q] = run[q]
    BY <1>0, <1>12, <2>0, <2>1 DEF RunRows
  <2>3. latest' = r /\ Workflow(Bump(r, RunWorkflowStatus(s)), g) /\ e.run = r
    BY <1>12, <2>0
  <2>4. Exists(r)'
    BY <2>2 DEF Exists
  <2>5. RunsInOrder'
    BY <1>0c, <2>1, <2>2, <2>4 DEF RunsInOrder, Exists
  <2>6. LoopsLive'
    BY <1>0, <1>12, <2>1, <2>2, <2>3, <2>4 DEF LoopsLive, Exists, NoLoop, Owed
  <2>7. PointersHold'
    <3>1. /\ RunWorkflowStatus(s) \in WorkflowStatus
          /\ RunWorkflowStatus(s) = "completed" => s = "succeeded"
      BY Statuses
    <3> QED
      BY <2>1, <2>2, <2>3, <2>4, <3>1, BumpPointer
  <2> QED
    BY <2>5, <2>6, <2>7
<1>13. CASE Succeed
  <2> DEFINE e == [run |-> loop.run, type |-> "run_completed", stage |-> NoStage]
  <2>1. loop.run # NoRun /\ loop.run \in Run
    BY <1>13, LoopRun DEF Succeed
  <2>2. e \in Owed /\ e.run = loop.run
    BY <2>1 DEF Owed
  <2>3. RunWorkflowStatus("succeeded") = "completed"
    BY DEF RunWorkflowStatus, LiveStatus
  <2>4. due' = due \cup {e}
    BY <1>13 DEF Succeed
  <2> HIDE DEF e
  <2> QED
    BY <1>12, <1>13, <2>1, <2>2, <2>3, <2>4 DEF Succeed
<1>14. CASE FailRun
  <2>1. loop.run # NoRun /\ loop.run \in Run
    BY <1>14, LoopRun DEF FailRun
  <2>2. PICK s \in Stage \cup {NoStage} :
          due' = due \cup {[run |-> loop.run, type |-> "run_failed", stage |-> s]}
    BY <1>14 DEF FailRun
  <2> DEFINE e == [run |-> loop.run, type |-> "run_failed", stage |-> s]
  <2>3. e \in Owed /\ e.run = loop.run /\ e.type # "run_completed"
    BY <2>1 DEF Owed
  <2>4. RunWorkflowStatus("failed") = "failed"
    BY DEF RunWorkflowStatus, LiveStatus
  <2>5. due' = due \cup {e}
    BY <2>2
  <2> HIDE DEF e
  <2> QED
    BY <1>12, <1>14, <2>1, <2>3, <2>4, <2>5 DEF FailRun
<1>15. CASE WriteFile
  <2>1. /\ UNCHANGED <<run, latest, process>> /\ due' = due /\ loop' = loop
        /\ wf' = BumpPreview \/ wf' = wf
    BY <1>15 DEF WriteFile, Workflow, processVars, runVars, loopVars
  <2>2. \/ wf' = wf
        \/ wf'.run = wf.run /\ wf'.status = wf.status /\ wf'.version # 0
    BY <1>0, <2>1 DEF BumpPreview, BumpSnapshot, Pointer
  <2> QED
    BY <1>0c, <2>1, <2>2 DEF RunsInOrder, LoopsLive, PointersHold, Exists, Active, Serving, Missing
<1>16. ASSUME NEW r \in Run, RestoreVersion(r)
       PROVE  RunsInv'
  BY <1>1, <1>16 DEF RestoreVersion, loopVars, wfVars, processVars, LoopsLive, Serving
<1>17. CASE GetProject
  <2>1. /\ wf'.version # 0 /\ (wf'.run # NoRun => Exists(wf'.run))
        /\ wf'.status = "completed" => wf'.run # NoRun /\ run[wf'.run].status = "succeeded"
    BY <1>17, ReadRows DEF GetProject, PointersHold
  <2>2. UNCHANGED <<run, latest, process>> /\ due' = due /\ loop' = loop
    BY <1>17 DEF GetProject, processVars, runVars, loopVars
  <2> QED
    BY <1>0c, <2>1, <2>2 DEF RunsInOrder, LoopsLive, PointersHold, Exists, Active, Serving
<1> QED
  BY <1>2, <1>3, <1>4, <1>5, <1>6, <1>7, <1>9, <1>10, <1>11, <1>13, <1>14, <1>15,
     <1>16, <1>17 DEF Next, Startup, Request, LoopStep

-----------------------------------------------------------------------------
(* The theorems. *)

(* The types, the migration's tables, the sound stage rows and the runs hold  *)
(* in every state.                                                            *)
THEOREM RecoveryInvariant == Spec => []RecoveryInv
<1>1. Init => RecoveryInv
  <2> SUFFICES ASSUME Init PROVE RecoveryInv
    OBVIOUS
  <2>1. RecoveryTypeOK
    <3>1. /\ wf \in Pointer /\ stage \in Stages
          /\ artifact \in [Run -> [Attempt -> SUBSET Stage]]
      BY DEF Init, Missing, Pointer, RowStatus, Stages, StageStatus
    <3>2. run \in RunRows
      BY DEF Init, RunRows, RunStatus
    <3> QED
      BY <3>1, <3>2, LoopTypes DEF Init, RecoveryTypeOK, Migrations
  <2>2. TablesRecorded
    BY DEF Init, TablesRecorded
  <2>3. StageRowsSound
    BY DEF Init, StageRowsSound
  <2>4. RunsInv
    BY DEF Init, RunsInv, RunsInOrder, LoopsLive, PointersHold, Exists, NoLoop, Missing
  <2> QED
    BY <2>1, <2>2, <2>3, <2>4 DEF RecoveryInv
<1>2. RecoveryInv /\ [Next]_recoveryVars => RecoveryInv'
  BY RowsStep, TablesStep, RunsStep DEF RecoveryInv
<1> QED
  BY <1>1, <1>2, PTL DEF Spec

(* A process that serves has the tables its build uses, whatever crashed or   *)
(* failed before.                                                             *)
THEOREM RecoveryTablesBeforeUse == Spec => []TablesBeforeUse
<1>1. RecoveryInv => TablesBeforeUse
  BY DEF RecoveryInv, TablesRecorded, TablesBeforeUse
<1> QED
  BY <1>1, RecoveryInvariant, PTL

(* Every success shown has its artifact, tracked or filled in.                *)
THEOREM RecoveryStageRowsSound == Spec => []StageRowsSound
<1>1. RecoveryInv => StageRowsSound
  BY DEF RecoveryInv
<1> QED
  BY <1>1, RecoveryInvariant, PTL

(* One read repairs all there is to repair.                                   *)
THEOREM RecoveryReadsSettle == Spec => []ReadsSettle
<1>1. RecoveryInv => ReadsSettle
  BY ReadRows DEF RecoveryInv, RunsInv, ReadsSettle
<1> QED
  BY <1>1, RecoveryInvariant, PTL

-----------------------------------------------------------------------------
(* What the pointer and a read promise of a step. *)

(* The attempt that is shown is the last with a row, if any has one.          *)
LEMMA ShownIsLast ==
  ASSUME NEW rows
  PROVE  /\ ShownAttempt(rows) \in Attempt \cup {0}
         /\ ShownAttempt(rows) = 0 =>
              \A m \in Attempt, s \in Stage : rows[m][s] = "none"
<1> DEFINE T == {n \in Attempt \cup {0} : n > 0 => \E s \in Stage : rows[n][s] # "none"}
           D == {d \in 0 .. MaxAttempts : MaxAttempts - d \in T}
<1>1. MaxAttempts \in Nat /\ Attempt = 1 .. MaxAttempts
  BY WorkflowAssumption DEF Attempt
<1>2. 0 \in T
  OBVIOUS
<1>3. MaxAttempts \in D
  BY <1>1, <1>2
<1>4. PICK d \in D : \A e \in D : ~(<<e, d>> \in OpToRel(<, Nat))
  <2>1. D \subseteq Nat /\ D # {}
    BY <1>1, <1>3
  <2> HIDE DEF D
  <2> QED
    BY <2>1, NatLessThanWellFounded, WFMin
<1>5. \A e \in D : ~(e < d)
  <2>1. \A x, y \in Nat : x < y => <<x, y>> \in OpToRel(<, Nat)
    BY DEF OpToRel
  <2>2. D \subseteq Nat
    BY <1>1
  <2> HIDE DEF D
  <2> QED
    BY <1>4, <2>1, <2>2
<1> DEFINE n == MaxAttempts - d
<1>6. n \in T /\ n \in Attempt \cup {0}
  BY <1>1, <1>4
<1>7. \A m \in Attempt : m > n => m \notin T
  <2>1. ASSUME NEW m \in Attempt, m > n, m \in T PROVE FALSE
    <3>0. d \in 0 .. MaxAttempts /\ m > MaxAttempts - d
      BY <1>4, <2>1
    <3>1. MaxAttempts - m \in 0 .. MaxAttempts /\ MaxAttempts - (MaxAttempts - m) = m
          /\ MaxAttempts - m < d
      BY ONLY <1>1, <3>0, m \in Attempt
    <3>2. MaxAttempts - m \in D
      BY <2>1, <3>1
    <3> QED
      BY <1>5, <3>1, <3>2
  <2> QED
    BY <2>1
<1>8. \E k \in Attempt \cup {0} :
        /\ k > 0 => \E s \in Stage : rows[k][s] # "none"
        /\ \A m \in Attempt, s \in Stage : m > k => rows[m][s] = "none"
  BY <1>1, <1>6, <1>7
<1>9. \A k : k = ShownAttempt(rows) =>
        /\ k \in Attempt \cup {0}
        /\ \A m \in Attempt, s \in Stage : m > k => rows[m][s] = "none"
  BY <1>8 DEF ShownAttempt
<1>10. \A m \in Attempt : m > 0
  BY <1>1
<1> QED
  BY <1>9, <1>10

(* No conflict means that the preview is of the run, and that every stage of  *)
(* the attempt that is shown has its artifact.                                *)
LEMMA NoConflicts ==
  ASSUME NEW r \in Run, NEW rows, Conflicts(r, rows) = {}
  PROVE  preview = r /\ \E n \in Attempt : \A s \in Stage : s \in artifact[r][n]
<1> DEFINE n == ShownAttempt(rows)
           Row(s) == IF n = 0 THEN "none" ELSE rows[n][s]
           wrong == {i \in DOMAIN StageOrder :
                       Row(StageOrder[i]) # "succeeded" \/ StageOrder[i] \notin artifact[r][n]}
           mismatch == IF preview # r THEN {"PREVIEW_WORKFLOW_MISMATCH"} ELSE {}
           unpublished == IF preview = NoRun THEN {"COMPLETED_WITHOUT_STABLE_PREVIEW"} ELSE {}
           stages ==
             CASE \E s \in Stage : Row(s) = "none" -> {"REQUIRED_STAGE_MISSING"}
               [] wrong = {} -> {}
               [] OTHER -> IF Row(StageOrder[Min(wrong)]) # "succeeded"
                           THEN {"REQUIRED_STAGE_NOT_SUCCEEDED"}
                           ELSE {"SUCCEEDED_STAGE_WITHOUT_ARTIFACT"}
<1>0. unpublished \cup mismatch \cup stages = {}
  BY Zenon DEF Conflicts
<1>1. preview = r
  BY <1>0
<1>2. \A s \in Stage : \E i \in DOMAIN StageOrder : s = StageOrder[i]
  <2>1. TextStages \in Seq(STRING) /\ Len(TextStages) \in Nat
    BY WorkflowAssumption
  <2>2. /\ DOMAIN StageOrder = 1 .. Len(TextStages) + 2
        /\ \A i \in DOMAIN TextStages : i \in DOMAIN StageOrder /\ StageOrder[i] = TextStages[i]
        /\ StageOrder[Len(TextStages) + 1] = "engineer"
        /\ StageOrder[Len(TextStages) + 2] = "qa"
    BY <2>1 DEF StageOrder
  <2>3. ASSUME NEW s \in Stage PROVE \E i \in DOMAIN StageOrder : s = StageOrder[i]
    <3>1. CASE \E i \in DOMAIN TextStages : s = TextStages[i]
      BY <2>2, <3>1
    <3>2. CASE s = "engineer" \/ s = "qa"
      <4>1. Len(TextStages) + 1 \in DOMAIN StageOrder /\ Len(TextStages) + 2 \in DOMAIN StageOrder
        BY <2>1, <2>2
      <4> QED
        BY <2>2, <3>2, <4>1
    <3> QED
      BY <3>1, <3>2 DEF Stage
  <2> QED
    BY <2>3
<1>3. ~(\E s \in Stage : Row(s) = "none") /\ wrong = {}
  <2>1. stages = {}
    BY <1>0
  <2>2. (\E s \in Stage : Row(s) = "none") => wrong # {}
    BY <1>2
  <2> HIDE DEF Row, wrong
  <2>3. CASE \E s \in Stage : Row(s) = "none"
    <3>1. stages = {"REQUIRED_STAGE_MISSING"}
      BY <2>2, <2>3
    <3> QED
      BY <2>1, <3>1
  <2>4. CASE ~(\E s \in Stage : Row(s) = "none") /\ wrong # {}
    <3>1. stages \in {{"REQUIRED_STAGE_NOT_SUCCEEDED"}, {"SUCCEEDED_STAGE_WITHOUT_ARTIFACT"}}
      BY <2>4
    <3> QED
      BY <2>1, <3>1
  <2> QED
    BY <2>3, <2>4
<1>4. n \in Attempt
  BY <1>3, ShownIsLast DEF Stage
<1> QED
  BY <1>1, <1>2, <1>3, <1>4

(* A read that shows completed shows what is evident.                         *)
THEOREM RecoveryCompletedIsEvident == Spec => CompletedIsEvident
<1>1. RecoveryInv /\ [Next]_recoveryVars =>
        [GetProject /\ wf'.status = "completed" =>
           /\ run[wf'.run].status = "succeeded" /\ preview = wf'.run
           /\ \E n \in Attempt : artifact[wf'.run][n] = Stage
           /\ conflict' = {}]_recoveryVars
  <2> SUFFICES ASSUME RecoveryInv, GetProject, wf'.status = "completed"
               PROVE  /\ run[wf'.run].status = "succeeded" /\ preview = wf'.run
                      /\ \E n \in Attempt : artifact[wf'.run][n] = Stage
                      /\ conflict' = {}
    OBVIOUS
  <2>1. PICK r : r = wf'.run
    OBVIOUS
  <2>2. /\ r \in Run /\ run[r].status = "succeeded" /\ conflict' = {}
        /\ Conflicts(r, stage'[r]) = {}
    <3>1. /\ wf' = Read(Rows).wf /\ stage' = Read(Rows).stage
          /\ conflict' = Read(Rows).conflict
      BY DEF GetProject
    <3>2. RecoveryTypeOK /\ PointersHold /\ StageRowsSound
      BY DEF RecoveryInv, RunsInv
    <3>3. wf' \in Pointer
      BY <3>1, <3>2, ReadRows
    <3> QED
      BY <2>1, <3>1, <3>2, <3>3, ReadRows DEF Pointer
  <2>3. preview = r /\ \E n \in Attempt : \A s \in Stage : s \in artifact[r][n]
    BY <2>2, NoConflicts
  <2>4. \A n \in Attempt : artifact[r][n] \subseteq Stage
    BY <2>2 DEF RecoveryInv, RecoveryTypeOK
  <2>5. \E n \in Attempt : artifact[r][n] = Stage
    <3>1. PICK n \in Attempt : \A s \in Stage : s \in artifact[r][n]
      BY <2>3
    <3>2. artifact[r][n] = Stage
      BY <2>4, <3>1
    <3> QED
      BY <3>2
  <2> QED
    BY <2>1, <2>2, <2>3, <2>5
<1> QED
  BY <1>1, RecoveryInvariant, PTL DEF Spec, CompletedIsEvident

(* The pointer moves forward, and only to a run that is being created.        *)
THEOREM RecoveryPointerForward == Spec => PointerForward
<1>1. ASSUME RecoveryInv, [Next]_recoveryVars, wf'.run # wf.run, wf.run # NoRun
      PROVE  wf'.run > wf.run /\ run[wf'.run].status = "none"
  <2>0. /\ RecoveryTypeOK /\ wf \in Pointer /\ wf.run \in Run /\ Exists(wf.run)
        /\ wf # Missing
    BY <1>1 DEF RecoveryInv, RunsInv, PointersHold, RecoveryTypeOK, Pointer, Missing
  <2>1. \A r \in Run, s \in WorkflowStatus : Bump(r, s).run = wf.run
    BY <2>0, BumpRow, <1>1
  <2>2. \A r \in Run, s \in WorkflowStatus : \A g : ~Workflow(Bump(r, s), g)
    BY <1>1, <2>1 DEF Workflow
  <2>3. wf' # wf
    BY <1>1
  <2>4. {"running", "completed", "failed", "cancelled"} \subseteq WorkflowStatus
    BY Statuses
  <2>5. ~UNCHANGED recoveryVars /\ ~(Start \/ Migrate \/ Migrated \/ ReconcileFails \/ Crash)
    BY <2>3 DEF recoveryVars, wfVars, Start, Migrate, Migrated, ReconcileFails, Crash
  <2>6. ~Reconcile
    BY <2>2, <2>3, <2>4 DEF Reconcile
  <2>7. ~CreateProject
    <3>1. CreateProject => ~created
      BY DEF CreateProject
    <3> QED
      BY <1>1, <2>0, <3>1 DEF RecoveryInv, RunsInv, RunsInOrder
  <2>8. \A r \in Run : ~RetryRun(r) /\ ~RestoreVersion(r) /\ \A n \in Attempt : ~CompileResult(r, n)
    BY <2>2, <2>3, <2>4 DEF RetryRun, RestoreVersion, CompileResult, wfVars
  <2>9. ~WriteFile
    BY <1>1, <2>0 DEF WriteFile, Workflow, BumpPreview, BumpSnapshot, Pointer
  <2>10. ~GetProject
    BY <1>1, <2>0, ReadRows DEF GetProject, RecoveryInv, RunsInv
  <2>11. loop.run # NoRun => loop.run \in Run
    BY <2>0, LoopRun
  <2>12. \A s \in Stage : ~BeginStage(s) /\ ~EndStage(s)
    BY <2>2, <2>3, <2>4, <2>11 DEF BeginStage, EndStage, LoopAt, wfVars
  <2>13. ~Succeed /\ ~FailRun
    BY <2>2, <2>4, <2>11 DEF Succeed, FailRun
  <2>14. \A e \in due : ~Emit(e)
    <3>1. ASSUME NEW e \in due PROVE e.run \in Run /\ EventWorkflow[e.type] \in WorkflowStatus
      BY <2>0, <2>4 DEF RecoveryTypeOK, Owed, EventWorkflow
    <3> QED
      BY <2>2, <3>1 DEF Emit
  <2>15. PICK r \in Run, canStart \in BOOLEAN : CreateRun(r, canStart)
    BY <1>1, <2>5, <2>6, <2>7, <2>8, <2>9, <2>10, <2>12, <2>13, <2>14
    DEF Next, Startup, Request, LoopStep
  <2>16. wf'.run = r /\ ~Exists(r)
    BY <2>3, <2>15 DEF CreateRun, Workflow, PointTo, Exists
  <2>17. r > wf.run
    <3>1. ~(r < wf.run) /\ r # wf.run
      BY <1>1, <2>0, <2>16 DEF RecoveryInv, RunsInv, RunsInOrder
    <3>2. r \in Nat /\ wf.run \in Nat
      BY <2>0, Runs
    <3> QED
      BY <3>1, <3>2
  <2> QED
    BY <2>16, <2>17 DEF Exists
<1>2. RecoveryInv /\ [Next]_recoveryVars =>
        [wf'.run # wf.run /\ wf.run # NoRun =>
           wf'.run > wf.run /\ run[wf'.run].status = "none"]_recoveryVars
  BY <1>1
<1> QED
  BY <1>2, RecoveryInvariant, PTL DEF Spec, PointerForward

=============================================================================
