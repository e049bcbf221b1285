----------------------------- MODULE ProjectPage -----------------------------
(***************************************************************************)
(* The project page of the browser (frontend/src/App.tsx) next to the      *)
(* backend: it merges snapshots of getProject, asked for by a poll and     *)
(* answered in any order, with the events of its run's stream and with the *)
(* answers to the user's own requests.  One page is open; other pages may  *)
(* use the project too (Request of AgentLoop).  The page is re-rendered    *)
(* between two events.  Texts, files and the single stages' states are     *)
(* left out; the messages of one turn are one message_delta.               *)
(***************************************************************************)
EXTENDS AgentLoop, SequencesExt

CONSTANT MaxLoads  \* bound on the answers of getProject on their way

VARIABLES
  log,     \* the events of each run: [type, stage, seq], seq as the stream numbers them
  page,    \* the state of ProjectWorkspace and useRunEvents, see NewPage
  load,    \* the answers of getProject on their way: [pc, snap, touched]
  answer   \* what createRun or retryRun answered and the page has not read

pageVars == <<loopVars, log, page, load, answer>>

NewPage == [run   |-> NoRun,      \* runId
            shown |-> "queued",   \* runStatus
            wf    |-> "draft",    \* workflowStatus
            att   |-> NoAttempt,  \* activeAttemptId
            err   |-> FALSE,      \* runError
            arts  |-> {},         \* stages with an artifactRef
            ver   |-> 0,          \* project.workflow.stateVersion
            floor |-> 0,          \* stateVersionFloorRef
            seen  |-> 0,          \* seenSequence
            last  |-> 0,          \* lastEventId of the EventSource
            took  |-> 0,          \* lifecycle events of the log applied
            moved |-> FALSE]      \* it has shown two runs

NoSnap == [run |-> NoRun, shown |-> "queued", wf |-> "draft",
           att |-> NoAttempt, arts |-> {}, ver |-> 0]
Call   == 1 .. MaxLoads
Idle   == [pc |-> "idle", snap |-> NoSnap, touched |-> FALSE]

NoAnswer == [kind |-> "none", run |-> NoRun, att |-> NoAttempt]

NoLoads == [q \in Call |-> Idle]

PageInit ==
  /\ Init
  /\ log = [r \in Run |-> << >>]
  /\ page = NewPage
  /\ load = NoLoads
  /\ answer = NoAnswer

-----------------------------------------------------------------------------
(* what the steps of the backend write to the log *)
EmittedAt == [emitRunStarted   |-> "run_started",
              emitStageStarted |-> "stage_started",
              turn             |-> "message_delta",
              emitArtifact     |-> "stage_artifact"]
Emits(r, n) ==
  /\ loop[r][n].pc \in DOMAIN EmittedAt
  /\ loop'[r][n].pc \notin {loop[r][n].pc, "failInfra"}
  /\ Live(r, n) /\ up'

(* A turn's message_delta carries the runner's own msgSeq, which starts again *)
(* with every attempt.                                                        *)
Emitted(r) ==
  IF ended'[r] # ended[r]
  THEN <<[type |-> Last(ended'[r]), stage |-> NoStage, seq |-> 0]>>
  ELSE IF \E n \in Attempt : Emits(r, n)
  THEN LET l == loop[r][CHOOSE n \in Attempt : Emits(r, n)]
       IN <<[type |-> EmittedAt[l.pc], stage |-> StageAt(l.at), seq |-> l.at + l.round]>>
  ELSE << >>
Logged == log' = [r \in Run |-> log[r] \o Emitted(r)]

-----------------------------------------------------------------------------
Streams(p) == p.run # NoRun /\ p.shown \in LiveStatus
Source(p)  == <<p.run, p.att, Streams(p)>>

(* A page with another run, attempt or liveness opens a new EventSource,    *)
(* which replays the log from its beginning; seenSequence stays.            *)
Render(p) ==
  page' = [p EXCEPT !.last  = IF Source(p) = Source(page) THEN @ ELSE 0,
                    !.took  = IF p.run = page.run THEN @ ELSE 0,
                    !.moved = @ \/ page.run \notin {NoRun, p.run}]

(* localWorkflowRevisionRef: a call under way is no longer the latest word *)
Touch == load' = [q \in Call |-> [load[q] EXCEPT !.touched = load[q].pc # "idle"]]

(* onRunEvent: no event carries a stateVersion, so the floor is counted up *)
Applied(p, type, s) ==
  LET q == IF type \in DOMAIN EventWorkflow
           THEN [p EXCEPT !.floor = @ + 1, !.took = @ + 1] ELSE p
  IN CASE type = "run_started" ->
            [q EXCEPT !.shown = "running", !.wf = "running", !.err = FALSE, !.att = NoAttempt]
       [] type = "stage_started" -> [q EXCEPT !.shown = "running", !.wf = "running"]
       [] type = "stage_artifact" -> [q EXCEPT !.arts = @ \cup {s}]
       [] type = "run_failed" -> [q EXCEPT !.shown = "failed", !.wf = "failed", !.err = TRUE]
       [] type = "run_completed" ->
            [q EXCEPT !.shown = "succeeded", !.err = FALSE,
                      !.wf = IF p.arts = Stage THEN "completed" ELSE "recovering"]
       [] OTHER -> q

(* Variant with a defect: an event that was replayed counts as new. *)
FreshAgain(seq) == seq >= page.seen

(* the listener of useRunEvents drops what it has seen *)
Fresh(seq) == seq > page.seen

(* the number by which the page knows the i-th event of its run *)
Number(i) == LET e == log[page.run][i] IN IF e.type = "message_delta" THEN e.seq ELSE i
Ahead     == page.last + 1 .. Len(log[page.run])
Unseen    == {i \in Ahead : Fresh(Number(i))}

(* the next event the page has not seen, or the stream runs dry *)
Deliver ==
  /\ up /\ Streams(page)
  /\ \/ /\ Unseen # {}
        /\ LET i == Min(Unseen)
               p == [page EXCEPT !.last = i, !.seen = Number(i)]
           IN Render(Applied(p, log[page.run][i].type, log[page.run][i].stage))
        /\ Touch
     \/ /\ Unseen = {} /\ Ahead # {}
        /\ page' = [page EXCEPT !.last = Len(log[page.run])]
        /\ UNCHANGED load
  /\ UNCHANGED <<loopVars, log, answer>>

(* The end that runEvents synthesizes carries no id: the event has the last  *)
(* id of its EventSource, which a browser keeps over a reconnection or clears *)
(* as the standard says.  Dropped, it changes nothing, and is sent again.     *)
DeliverSynthesized ==
  /\ up /\ Streams(page)
  /\ page.last = Len(log[page.run])
  /\ run[page.run].status \in {"failed", "interrupted"}
  /\ \E id \in {0, page.last} :
       /\ id = 0 \/ Fresh(id)
       /\ Render([Applied(page, "run_failed", NoStage) EXCEPT
                    !.seen = IF id = 0 THEN @ ELSE id, !.took = page.took])
  /\ Touch
  /\ UNCHANGED <<loopVars, log, answer>>

-----------------------------------------------------------------------------
(* normalizeWorkflowSnapshot: a page does not believe in a completed workflow *)
(* without its preview and the evidence of every stage.                       *)
Normalized(status) ==
  IF status = "completed" /\ (wf.run = NoRun \/ ~Consistent(wf.run)) THEN "recovering"
  ELSE status

(* normalizeWorkflowStages: the stages shown with an artifact *)
StagesWithArtifact ==
  {s \in Stage : wf.run # NoRun /\ \E n \in Attempt :
     LatestAttempt(wf.run, n) /\ s \in artifact[wf.run][n]}

(* getProject as the page reads it: the row, after its consistency check, and *)
(* the run it points to                                                       *)
Snapshot ==
  [ver   |-> wf.version, run |-> wf.run, wf |-> Normalized(wf.status),
   shown |-> IF wf.run = NoRun THEN "succeeded" ELSE run[wf.run].status,
   att   |-> IF wf.run = NoRun THEN NoAttempt ELSE run[wf.run].active,
   arts  |-> StagesWithArtifact]
Checked == wf.run # NoRun /\ run[wf.run].status = "succeeded"
             => (Consistent(wf.run) <=> wf.status # "recovering")

(* A call of getProject, made when the page opens, by its poll or by the      *)
(* user, counts from the moment the server answers it: an event that comes    *)
(* after the call and before that only makes the page refuse more answers.    *)
Serve(q) ==
  /\ up /\ load[q].pc = "idle"
  /\ \/ HandleGetProject
     \/ Checked /\ UNCHANGED loopVars
  /\ load' = [load EXCEPT ![q] = [pc |-> "answered", snap |-> Snapshot', touched |-> FALSE]]
  /\ UNCHANGED <<log, page, answer>>

(* Variant with a defect: the floor is not looked at. *)
ShouldApplyAny(c) == c.snap.ver # page.floor \/ ~c.touched

(* shouldApplyWorkflowSnapshot *)
ShouldApply(c) ==
  \/ c.snap.ver > page.floor
  \/ c.snap.ver = page.floor /\ ~c.touched

(* loadProject's answer, and applyProject *)
Receive(q) ==
  LET s == load[q].snap IN
  /\ load[q].pc = "answered"
  /\ load' = [load EXCEPT ![q] = Idle]
  /\ \/ ~ShouldApply(load[q]) /\ UNCHANGED page
     \/ /\ ShouldApply(load[q])
        /\ Render([page EXCEPT !.run = s.run, !.shown = s.shown, !.wf = s.wf,
                               !.att = s.att, !.err = s.shown = "failed",
                               !.arts = s.arts, !.ver = s.ver,
                               !.floor = IF s.ver > @ THEN s.ver ELSE @])
  /\ UNCHANGED <<loopVars, log, answer>>

-----------------------------------------------------------------------------
(* The user's requests.  The page is locked while its run is active or its   *)
(* record is recovering; a failed run offers the retry of its attempt, or    *)
(* another build.                                                            *)
Locked      == page.shown \in LiveStatus \/ page.wf = "recovering"
OffersRetry == page.err /\ page.run # NoRun /\ page.att # NoAttempt
Requesting  == up /\ answer = NoAnswer /\ wf.version < MaxStateVersion

PressRetry(n) ==
  /\ Requesting /\ OffersRetry
  /\ HandleRetryRun(page.run, n)
  /\ answer' = [kind |-> "retry", run |-> page.run, att |-> n]
  /\ Logged /\ UNCHANGED <<page, load>>

Submit(r) ==
  /\ Requesting
  /\ page.shown \notin LiveStatus /\ (page.err \/ ~Locked)
  /\ HandleCreateRun(r)
  /\ answer' = IF configured THEN [kind |-> "create", run |-> r, att |-> 1] ELSE NoAnswer
  /\ Logged /\ UNCHANGED <<page, load>>

(* Variant with a defect: the page goes on showing the status of the run *)
(* before.                                                               *)
AnsweredQuietly ==
  /\ answer # NoAnswer
  /\ Render([page EXCEPT !.run = answer.run, !.att = answer.att, !.wf = "running",
                         !.err = FALSE, !.floor = @ + 1,
                         !.arts = IF answer.kind = "create" THEN {} ELSE @])
  /\ Touch
  /\ answer' = NoAnswer
  /\ UNCHANGED <<loopVars, log>>

Answered ==
  /\ answer # NoAnswer
  /\ Render([page EXCEPT !.run = answer.run, !.att = answer.att, !.shown = "running",
                         !.wf = "running", !.err = FALSE, !.floor = @ + 1,
                         !.arts = IF answer.kind = "create" THEN {} ELSE @])
  /\ Touch
  /\ answer' = NoAnswer
  /\ UNCHANGED <<loopVars, log>>

(* the answer is lost; the page shows an error and stays as it is *)
AnswerLost ==
  /\ answer # NoAnswer
  /\ answer' = NoAnswer
  /\ UNCHANGED <<loopVars, log, page, load>>

(* The home page creates the first run and opens the page on it, or the page *)
(* is reloaded.                                                              *)
OpenCreated ==
  /\ up /\ configured /\ HandleCreateRun(1)
  /\ page' = [NewPage EXCEPT !.run = 1, !.shown = "running", !.wf = "running", !.att = 1]
  /\ load' = NoLoads /\ answer' = NoAnswer
  /\ Logged

Reload ==
  /\ page' = NewPage /\ load' = NoLoads /\ answer' = NoAnswer
  /\ UNCHANGED <<loopVars, log>>

Elsewhere == Next /\ Logged /\ UNCHANGED <<page, load, answer>>

PageNext ==
  \/ Elsewhere
  \/ Deliver \/ DeliverSynthesized
  \/ \E q \in Call : Serve(q) \/ Receive(q)
  \/ \E n \in Attempt : PressRetry(n)
  \/ \E r \in Run : Submit(r)
  \/ Answered \/ AnswerLost
  \/ OpenCreated \/ Reload

PageSpec == PageInit /\ [][PageNext]_pageVars

-----------------------------------------------------------------------------
(* The page never goes back to an older snapshot, whatever the order in      *)
(* which its calls are answered (shouldApplyWorkflowSnapshot).               *)
SnapshotsForward == [][page'.ver >= page.ver \/ page'.floor = 0]_pageVars

(* As long as a page shows one run, it applies every lifecycle event of the  *)
(* run's log once and in order, over all its EventSources and their replays, *)
(* although seenSequence also counts the messages' own numbers.              *)
Lifecycle(r, k) == {i \in 1 .. k : log[r][i].type \in DOMAIN EventWorkflow}
AppliedOnce ==
  page.run # NoRun /\ ~page.moved =>
    page.took = Cardinality(Lifecycle(page.run, page.seen))

(* A run shown as succeeded has succeeded. *)
SuccessIsReal ==
  page.shown = "succeeded" /\ page.run # NoRun => run[page.run].status = "succeeded"

-----------------------------------------------------------------------------
(* The strengthening that makes these inductive. *)
Event   == [type : DOMAIN EventWorkflow \cup {"message_delta"},
            stage : Stage \cup {NoStage}, seq : Nat]
PageRow == [run : Run \cup {NoRun}, shown : RunStatus \cup {"none"}, wf : WorkflowStatus,
            att : Attempt \cup {NoAttempt}, err : BOOLEAN, arts : SUBSET Stage,
            ver : Nat, floor : Nat, seen : Nat, last : Nat, took : Nat, moved : BOOLEAN]
SnapRow == [run : Run \cup {NoRun}, shown : RunStatus \cup {"none"}, wf : WorkflowStatus,
            att : Attempt \cup {NoAttempt}, arts : SUBSET Stage, ver : Nat]

PageTypeOK ==
  /\ log \in [Run -> Seq(Event)]
  /\ page \in PageRow
  /\ load \in [Call -> [pc : {"idle", "answered"}, snap : SnapRow, touched : BOOLEAN]]
  /\ answer \in [kind : {"none", "create", "retry"}, run : Run \cup {NoRun},
                 att : Attempt \cup {NoAttempt}]

(* What a log says has happened, and a message's number is never ahead of its *)
(* place in the log: a turn that is still to end has that many events before  *)
(* it.                                                                        *)
LogsTrue ==
  \A r \in Run : \A i \in DOMAIN log[r] :
    /\ log[r][i].type = "run_completed" => run[r].status = "succeeded"
    /\ log[r][i].type = "stage_artifact" => log[r][i].stage \in Stage
    /\ log[r][i].type = "message_delta" => log[r][i].seq <= i
TurnBehindLog(l, events) ==
  /\ l.pc \in {"load", "emitRunStarted", "begin"} => l.at = 0 /\ l.round = 0
  /\ l.ctx = "live" =>
       l.at + l.round <= IF l.pc \in {"createDraft", "dropDraft"} THEN events ELSE events + 1

(* a snapshot on its way tells of no success that there is not *)
SnapsTrue ==
  \A q \in Call : LET s == load[q].snap IN
    s.shown = "succeeded" /\ s.run # NoRun => run[s.run].status = "succeeded"

(* where the page stands in the log of its run: what it passed it has seen *)
Placed ==
  IF page.run = NoRun THEN page.last = 0 /\ (~page.moved => page.seen = 0)
  ELSE /\ page.last <= Len(log[page.run])
       /\ ~page.moved => /\ page.seen <= Len(log[page.run])
                         /\ \A i \in Lifecycle(page.run, page.last) : i <= page.seen

PageInv ==
  /\ OutcomeInv
  /\ PageTypeOK
  /\ LogsTrue
  /\ \A r \in Run, n \in Attempt : TurnBehindLog(loop[r][n], Len(log[r]))
  /\ page.ver <= page.floor
  /\ SnapsTrue /\ SuccessIsReal
  /\ Placed /\ AppliedOnce
=============================================================================
