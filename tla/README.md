# Verification of vibe-forge

TLA+ modules, TLC configurations and TLAPS proofs for the program in `src/`: a Go server that turns a prompt into a
small React app by driving a language model through four stages (pm, architect, engineer, qa), stores every attempt,
version and event in SQLite, streams events to a browser and lets the user edit, restore and retry.

## 1. Inventory

| part | state | operations | hard behaviour | what makes it correct |
|---|---|---|---|---|
| store: runs, attempts, versions, stable pointer (`internal/store/run.go`, `draft.go`, `version.go`, `files.go`) | rows of `runs`, `attempts`, `iterations`, `versions`, `projects.stable_version_id`, `events` | CreateRun, RetryRun, NewAttempt, BeginAttempt, CreateDraftVersion, PromoteDraftVersion, FailDraftVersion, FailRun, CommitVersion, FailVersion, SetRunStatus, WriteFile, RestoreVersion, MarkActiveRunsInterrupted, AppendEvent | single-connection transactions interleave in any order; a check in one transaction is stale in the next | one active run per project; only stable versions are published; optimistic lock on the base version; decided versions never change |
| workflow snapshot (`workflow_state.go`) | pointer row with a monotonic `state_version`, stage rows, artifacts, conflict rows | the `...Tx` helpers, called inside the transactions above | writes of old runs and attempts arrive late; clients order responses by `state_version` only | what is shown never changes under an unchanged `state_version`; it agrees with the run |
| agent loop (`internal/agent`) | one goroutine per launched attempt: runner, context, watchdog clock, repair counter | Run, the stage turns, engineerQA, failInfra, startWatchdog | crosses ten or more transactions; the watchdog cancels anywhere; the failure path is two transactions; crashes | it owns the run it drives; every loop returns; what it promotes compiles and has its evidence |
| handlers (`internal/api`) | none of their own, `up`, whether a model is configured | createRun, retryRun, writeFile, restoreVersion, getProject, compileResult, runEvents, Close, ReconcileInterruptedRuns | launch a loop after the commit; callback from the browser at any time | an active run is driven |
| event stream (`runEvents`) | the client's last sequence, the events log | poll the log, read the run, synthesize an end | the log and the run are read in two queries; reconnects; retried runs | every client sees the end that happened, once |
| idempotency ledger (`idempotency.go`) | records with an expiry | runIdempotent, GCIdempotency | retries racing the first execution, expiry, non-2xx answers | an operation is executed once per key while its record lives |
| authentication (`auth.go`) | signed cookies, revocations and failure counters in memory | login, logout, validateSession | expiry boundaries, overlapping requests that prune each with a clock of its own, restarts, rotations | a revoked session stays revoked; the limiter's bound holds; a session is good where and as long as it was meant to be |
| compile gate (`internal/compile`) | none | Validate | one pass of scanners over quotes, comments, JSX and generics: one quote taken wrongly moves everything after it | it sees the code and nothing else, names the first mistake, passes what is complete |
| migrations and start-up (`internal/db`, `cmd/server`) | `schema_migrations` | Open, Migrate, New, ReconcileInterruptedRuns | failure half way, a failed reconciliation, data older than the tables that are to show it | each migration applied once, in order, before its tables are used; rows filled in later are as good as tracked ones |
| frontend (`frontend/src`) | snapshot floor, seen sequence, current run | applyProject, loadProject, onRunEvent, retry | responses and events applied out of order | a newer snapshot is never replaced by an older one |

Components interact through the database: the handlers start a loop with `go loop.Run(...)` after their transaction has
committed; loop and handlers then call the same store. `internal/db/db.go` opens one connection, so transactions are
atomic and serialised; everything a caller does between two of them interleaves. The browser sees the log through SSE and
the snapshot through `getProject`, and calls back with `compile-result`.

## 2. Modules

| module | models | how state and actions correspond |
|---|---|---|
| `WorkflowState` | `workflow_state.go` | `wf` is the `project_workflow_states` row, `stage` the `workflow_stage_runs` rows, `artifact` the `stage_artifacts` rows; one operator per `...Tx` helper |
| `RunStore` (extends `WorkflowState`) | the transactions of `internal/store` | `run` joins the run with its agent iteration (`base`, `result`), `attempt`, `version`, `stable`, `ended` (terminal events of each log); one action per transaction; `StoreTx` is the disjunction of all of them, for any caller |
| `AgentLoop` (extends `RunStore`) | `agent.go`, the handlers, crashes and restarts | `loop[r][n]` is the state of the `Loop.Run` launched for attempt `n` of run `r`: `pc` and the fields of `runner`; one step per database call; `Emit` skips an event whose context is cancelled |
| `StablePointer` | what the backend promises about the stable version | abstract: a lock, the published versions, the base of each run |
| `AgentLoopRefinement` | the refinement mapping | lock := "a run is queued or running" |
| `RunEvents` (extends `AgentLoop`) | `runEvents` and the browser's EventSource | `conn[r]`: one client per run, where its handler stands between the two queries of a round, its Last-Event-ID, the ends it was sent |
| `ProjectPage` (extends `AgentLoop`) | the project page of the frontend: `useRunEvents`, `loadProject`, `applyProject`, `onRunEvent`, `shouldApplyWorkflowSnapshot` | `log` has every event of each run that a page acts on; `page` holds the React state and refs that decide what is shown; `load` the `getProject` calls under way; `answer` the answer of a request of the user. `Elsewhere` is any step of the backend or of another page |
| `IdempotencyLedger` | `idempotency.go` under createProject, createRun, retryRun, writeFile, restoreVersion | `record` is the table `idempotency_records`; `effect` numbers what transactions left in the database; `request[q]` is where a handler stands between its transaction and its answer; `project` is what the endpoints' own checks read |
| `Sessions` | `auth.go` | `auth` is the authenticator of the running process; `failure`, `revoked` are its two maps; `session` the signed claims issued so far; `request[q]` is a goroutine between reading the clock and taking `failureMu` or `sessionMu`; `guesses` and `signedOut` only observe |
| `WorkflowRecovery` (extends `WorkflowState`) | `db.go`, the start-up of `api.go` and `main.go`, `recoverWorkflowTx`, `reconcileConsistencyTx` | `process`, `build`, `recorded`, `tables` are the process and its database; `run`, `latest`, `began`, `blamed`, `preview` what the backfill looks at; `conflict` the open `workflow_state_conflicts`; `loop`, `due` a loop and the terminal events it still owes. A read is an operator on the rows (`Read`), so that reading twice can be compared with reading once |
| `CompileGate` | `compile.go` | operators over a sequence of letters, one per scanner; a letter is a byte the scanners look at, one that stands for the others of its kind, or a word they compare with. A loop over the text is a recursive function of the place in it (`Stripped`, `Judged`, `Depth`), its body an operator of its own |
| `GeneratedCode` (extends `CompileGate`) | external: the writer of `App.tsx` | `text` grows by one token per step; the writer knows which of it is `code`, what is `open`, and the first `mistake` it made: the reference the gate's answer is compared with |
| `MCRunStore`, `MCAgentLoop`, `MCRunEvents`, `MCProjectPage`, `MCIdempotencyLedger`, `MCSessions`, `MCWorkflowRecovery`, `MCCompileGate` | values of the constants for TLC | |
| `RunStore_proofs` | theorems about `RunStore` | |
| `AgentLoop_proofs` (extends `RunStore_proofs`) | theorems about `AgentLoop`, and that it implements `StablePointer` | |
| `RunEvents_proofs` (extends `AgentLoop_proofs`) | theorem about `RunEvents` | |
| `ProjectPage_proofs` (extends `AgentLoop_proofs`) | theorems about `ProjectPage` | |
| `IdempotencyLedger_proofs` | theorems about `IdempotencyLedger` | |
| `Sessions_proofs` | theorems about `Sessions` | |
| `WorkflowRecovery_proofs` | theorems about `WorkflowRecovery` | |
| `GeneratedCode_proofs` | theorems about `CompileGate`, on what `GeneratedCode` writes | |

A definition called "variant with a defect" in a comment is a wrong form of the operator after it; `PROJECT.json`
("mutants") says which property breaks when it takes that operator's place.

### Abstractions

One project. Identifiers are numbers in the order of creation. Texts, file contents, messages, error codes and times are
left out; the verdict of the compile gate is an input. Storage errors are modelled only where the code meets them by
itself: the refusal of a cancelled context. Of the log the backend's modules keep only the terminal events (`ProjectPage` keeps all that a page acts on); the other events are modelled by
what `applyWorkflowEventTx` does with them. In `RunStore` the conflict rows are not kept, only the verdict that moves the
workflow to `recovering`, and the pointer row is there from the project's creation on; `WorkflowRecovery` has both. The duplicate check of `compileResult` and its insert are one step. A shutdown and a crash are the same:
`Close` makes the loops return without a write.

`IdempotencyLedger` stands beside the other modules and keeps of the project only what its endpoints refuse on: whether a
run is active and how many can be retried. The text of a request is not kept: the code does not compare it either, so a key
used again for another request is answered with the first one's result. A request refused with an error leaves no trace; a
503 of createRun and a 422 of writeFile keep their writes but are not recorded, so a repeat runs again (by intent: "Only 2xx
results are cached"). A transaction happens at one instant and the clock does not go back. A createRun that is replayed
where no model is configured any more is answered 503 by its handler; the module models the ledger's answer.

`WorkflowRecovery` tells the store's transactions again, without versions and their compare-and-set: of the stable version it
keeps the run it is of. The build before migration 0002 is external; it is taken to run the same transactions without the
workflow tables, and it may have left out an artifact. A database is not taken back to it once the new build has started.
`runs.updated_at` is in seconds; `latest` takes updates within one second in their order. The details of a conflict row, and
transactions that repeat the bump of the one before, are left out; `FailRun` is the end of any loop that did not succeed.

`Sessions` stands by itself: the handlers behind the gate see only whether it opened. Of a signature it keeps that nobody
makes one without the secret; of the password version, an HMAC, that two are equal when password and secret are. Where the
code reads the clock and locks a mutex later, two steps stand, and `Stall` bounds the time a login takes between them: the
code puts no bound on it, and `GuessesSpaced` says what it costs. Logout validates the session, locks, and inserts; a session
that expires between the clock read and the lookup can have its revocation pruned in between and be answered once more, which
`RevokedStaysOut` states. Revocations and failures do not outlive a process (src/README.md:381 says so of revocations).

In `CompileGate` a letter stands for a class of bytes that the code treats alike ("=" for every operator that nothing else
looks at), and a name is one word. `[` and `]` behave as the other brackets do and are left out. Of the forbidden patterns
one that can match is kept. `GeneratedCode` writes only forms that the gate's comments and tests promise to understand;
what it leaves out, because the gate does not keep up there, is listed under the findings.

## 3. Runs

| run | module | properties | what it shows |
|---|---|---|---|
| `store` | `MCRunStore` | `OneActiveRun`, `StableIsStable`, `LineageDescends`, `DecidedVersionsStay`, `NoLostUpdate`, `SnapshotOrdered` | Any caller invoking any store transaction with any rows keeps one active run, a compiled-and-promoted stable pointer, an acyclic lineage, decided versions, optimistic locking and an ordered snapshot. |
| `loop` | `MCAgentLoop` | `LoopOwnsRun`, `OneEndPerAttempt`, `ActiveIsDriven`, `EndedAttemptsStay`, `StableIsVerified`, `SucceededHasEvidence`, `OutcomeInv` | One run of all four stages with a retry, both repair rounds of the contract, edits, restores, watchdog cancellations, crashes and the browser's compile callback: old loops and new attempts do not disturb each other, and what is published compiles and has its evidence. |
| `loop_two_runs` | `MCAgentLoop` | `CompletedMeansSucceeded`, `ActiveRunHoldsPreview`, `SucceededStays`, `ImplementsPointer` | Two runs and a retry of one of them, next to edits, restores and crashes, implement the abstract promise about the stable pointer. |
| `code_settled_outcome` | `MCAgentLoop` | `SettledShowsOutcome` (violated) | The browser's compile callback marks the snapshot of a succeeded run as running. |
| `code_restored` | `MCAgentLoop` | `RecoveringIsIncomplete` (violated) | After the restore of an older run's version a project that lacks no evidence is shown as recovering. |
| `events` | `MCRunEvents` | `ReplayExact`, `CompletionArrives`, `LoopReturns` | Every launched loop returns, even when the model stays silent; a client that reconnects at any point, to a retried run or after a crash, is sent exactly the log up to its Last-Event-ID, and a logged run_completed reaches it although its stream can close without it. |
| `page` | `MCProjectPage` | `AppliedOnce`, `SuccessIsReal`, `SnapshotsForward` | One page beside the backend, reloaded at will, its calls and its stream answered in any order around a crash and a retry: it never goes back to an older snapshot, applies each event of its run once, and shows no success that did not happen. |
| `ledger` | `MCIdempotencyLedger` | `EffectsSpaced`, `LaunchedOnce`, `LedgerInv`, `ReplayIsOriginal` | Two requests with one key on any endpoints, side by side, repeated at any second, next to collections, crashes and ends of runs: one success per key and TTL, only that is replayed, and every run made gets one loop. |
| `sessions` | `MCSessions` | `SessionsInv`, `GuessesSpaced`, `RetryHonest`, `RevokedStaysOut`, `SessionsHonoured` | Two requests at a time of two clients, directly or through a proxy, guessing, logging in, using and logging out a session while the process restarts with other passwords: the limiter's bound, the Retry-After it answers, and who is let in. |
| `gate` | `MCCompileGate` | `StripsExactly`, `ErrorsExact`, `PassIsComplete` | Every short text of strings, comments, templates, brackets, generics, comparisons, elements, text and mistakes, as far as the gate's comments promise to understand them: it sees the code and nothing else, reports the first mistake at its line, and passes what is complete. |
| `code_gate_markup` | `MCCompileGate` | `ValidMarkupPasses` (violated) | The gate refuses an element that follows a word of text. |
| `recovery` | `MCWorkflowRecovery` | `TablesBeforeUse`, `StageRowsSound`, `ReadsSettle`, `CompletedIsEvident`, `PointerForward` | A database of the build before the workflow tables, or a new one, is migrated at a start that may be cut off, and then used, crashed, retried, restored and called back in any order: whichever transaction comes first after the upgrade, the rows the reads fill in are sound, reading twice is reading once, and what is shown as completed is. |


Bounds. `MaxRuns`, `MaxAttempts` and `MaxVersions` bound the rows. Two runs are the fewest that can compete for the
stable pointer, two attempts the fewest with an old loop beside a new one. `MaxVersions` lets every draft of the instance
be written by one loop; in `loop_two_runs` three versions let one run publish over the other's and a stale retry be refused;
there `MaxLaunches` stops the creation and the retry of runs after three loops. `MaxStateVersion` bounds the requests of `events`
and the store run; elsewhere it is out of reach and the view `Unversioned` merges states that differ in `state_version`
only (nothing reads it but the action properties, which TLC evaluates on every step). `MaxTerminals` and `MaxStageRows`
bound the store run, where any caller may append events without end; in `events` `MaxTerminals` bounds the synthesized ends,
of which every reconnection gets one. In `page` one call of `getProject` is under way at a time, the first attempt may fail
before or after its start and be retried, and the retry runs its full course; `MaxStateVersion` bounds the requests. In
`ledger` one key and two requests give every race for a record, on any pair of endpoints; `MaxSecond` is twice the TTL and
`MaxEffects` lets a key be used again after it expired. Nothing in `src/` schedules GCIdempotency; the module lets it run at any time.
In `sessions` a window of two failures and three ticks, two ticks to the second, lets windows follow each other,
seconds be cut off, and a login be overtaken by a tick; four guesses are one more than a window and its neighbour may hold
between them, one session can be issued, used, revoked and outlive its process; the view `Recent` merges states that differ
in what is over. In `gate` a text is up to seven tokens of a few forms: each pair of forms that can be mistaken for each other
is in one of its sets, and a token is up to six letters. `FileContentMaxBytes` is small enough for a text to exceed it.
In `recovery` two runs of two stages and two attempts let a late write of an old run or attempt meet a new one, on either side
of the upgrade; `MaxDisturbances` allows the build with the workflow tables two crashes, retries, restores or callbacks. Deadlock is not checked: a project may rest.

Fairness (`LoopFairness`). A goroutine that can run does run, database calls return, the watchdog's ticker fires. The model
may stay silent for ever: a turn ends, or the watchdog sees a stale clock; after a cancellation the SDK call returns with
an error. Nothing is assumed of clients, crashes or restarts. `FairStreamSpec` assumes of the browser that it reconnects, and
of its connections that some of them last for a round (strong fairness: a connection may break at any step).

### What the code says and does not keep

- `SettledShowsOutcome` (`src/internal/api/agent_handlers.go:195`): A compile-result that arrives after the run succeeded bumps the project workflow to 'running' through RecordStageArtifact, and nothing sets it back; src/internal/api/agent_handlers.go:189 says the callback "does not change run state".
- `RecoveringIsIncomplete` (`src/internal/store/workflow_state.go:635`): A restore of a version that an older run made leaves the pointer at the newer run, so every read reports PREVIEW_WORKFLOW_MISMATCH and shows the project as recovering although no evidence is missing, and the page, which takes no prompt while recovering (src/frontend/src/App.tsx:2598), stays locked until a version of the newest run is restored; src/internal/store/workflow_state.go:22 says "recovering (historical evidence is incomplete)".
- `ValidMarkupPasses` (`src/internal/compile/compile.go:302`): A tag after an ASCII word of text, as in `<p>Hello <b>world</b></p>`, is taken for a comparison, so its closing tag is reported as mismatched and valid markup is refused; src/internal/compile/compile.go:142 says "This is intentionally conservative - it only flags clearly unbalanced component tags, not arbitrary HTML, to avoid false positives on valid Tailwind-heavy markup".


Seen while modelling, and not shown by a run:

- `internal/agent/agent.go:420`: after the last repair round FailDraftVersion runs under the run's context with its error
  dropped, so a watchdog cancellation at that moment makes `Run` return with the run still running, until the next start
  reconciles it; `agent.go:163` says that it returns when the run has ended. `ActiveIsDriven` allows for it.
- `frontend/src/App.tsx:1496`: a page opened during a retry replays the log from its beginning, takes the `run_failed` of the
  attempt before for the end and closes the stream while the retry works; `src/README.md:366` promises that a refresh resumes.
- `frontend/src/App.tsx:1486`: `seenSequence` outlives a change of run.
- `frontend/src/App.tsx:2070`: no event carries a stateVersion, so replayed events raise the page's floor above the server's
  version; after a crash the snapshot that tells of it is refused and the synthesized `run_failed` (`agent_handlers.go:30`,
  "so the client is never left hanging") is dropped as seen, until the server's version has caught up.
- `internal/store/idempotency.go:94`: `created_at` has lost its fraction of a second, so a record expires up to a second
  early; `contracts/contract.json:252` promises the original result within `ttlSeconds`.
- `internal/store/workflow_state.go:247` calls the backfill "evidence-based"; but where an older build left a run active, the
  start-up's interruption of it (or a compile-result before the first read) inserts the pointer row, so the backfill never
  runs and the stages of that run stay empty.
- `internal/store/workflow_state.go:542`: the backfill reads the events of all attempts of a run: a stage that only an
  earlier attempt began is filled in as running, or cancelled, for the last one.
- `internal/store/workflow_state.go:625`: while the pointed run has not succeeded, a read shows the conflicts that an older
  run left open.
- `compile.go:363` says newlines are preserved; a backslash before a line break in a string or template blanks it, and later
  errors are reported a line too early. `//` in the text of an element (a URL) hides the tags behind it up to the end of the
  line. A comparison after a string literal reads as a tag, because the literal is blank by then (`:279`). The pattern
  `spawnSync` (`:450`) can never match content in lower case, though `:446` says that matches are case-insensitive.

## 4. Proofs

`RunStore_proofs` proves, for any number of runs, attempts, versions and stages and for any caller of the store:
`StoreTypeOK`, `StoreOneActiveRun`, `StoreStableIsStable`, `StoreLineageDescends`, `StorePreviewIsPublished` (invariants), `StoreDecidedVersionsStay`,
`StoreNoLostUpdate` and `StoreSnapshotOrdered` (action properties). They assume only the named assumptions on the constants.

Argument. The inductive invariant is `StoreInv`. `StableIsStable` and `LineageDescends` are not inductive alone: a draft's base
is read from its run's iteration, so one has to know that what a run started from had been published (`BasesWereStable`), that
versions are numbered without a gap (`VersionsInOrder`: a new version is newer than every base), and that an agent's version
keeps its run's base (`VersionsKeepBase`, which is what turns the CAS of `CanPublish` into `NoLostUpdate`). Each transaction is
first reduced to what it does to the versions and the pointer (`VersionStep`), to the bases of the runs (`RunStep`) and to their
activity (`ActiveStep`); the invariants follow from these three descriptions. For `PreviewIsPublished` the recursive walk
`PreviewRun` is first shown to have a result: where it leads is what every set contains that has the version it begins at and
the base of each edit in it (`Leads`, `WalkExists`). That it ends, and at a published version, follows from `LineageDescends`
and from what is kept of the lineage (`LineagePublished`). For `SnapshotOrdered` each transaction is shown either to write
nothing of the run that is shown, or to bump the version in the same step (`WritesRun`, `WritesNoRun`).

`AgentLoop_proofs` proves, again for every value of the constants, the invariants `LoopTypes`, `LoopStableIsVerified`,
`LoopOwnership` and the action properties `LoopSucceededStays`, `LoopEndedAttemptsStay`, `LoopActiveRunHoldsPreview`;
`LoopPreviewIsOfSuccess` (the run that the consistency check names for what is shown has succeeded), which adds to
`StorePreviewIsPublished` that only a success publishes an agent's version (`PublishesOwn`); and, from a second inductive
invariant, `LoopSucceededHasEvidence`, `LoopCompletedMeansSucceeded`, `LoopOneEndPerAttempt` and `LoopActiveIsDriven`.

Argument. `LoopInv` is the inductive invariant: `StoreInv`; the types; the one live attempt belongs to the active run
(`LiveAttemptIsActive`); attempts belong to runs (`AttemptsHaveRun`); stable versions compile (`StableCompiles`); and for
each loop what its runner may rely on where it stands (`RunnerOK`: the attempt is its own, its current draft is a version of
its run, what it is about to record as "qa" or to promote has passed the gate), and that a driving loop owns its run. None of
these parts is inductive without the others: that a late promotion or failure hits no other attempt follows from the loop
owning its run, which follows from there being one live attempt, which follows from a retry being refused while the run is
active; that what a loop promotes compiles follows from its current draft being its own. The module first classifies the steps: a loop's step is one transaction on its own run, and anything beyond the log,
the evidence and a new draft happens only while it owns the run (`LoopTx`); the handlers' and the start-up's steps are
`RequestTx` or touch no row. Both are transactions of the store, so `StoreInv` is inherited from `RunStore_proofs`, and each
other part is proved once per kind of transaction instead of once per step.

`OutcomeInv` is the second one: `LoopInv`, and what a run has come to. What a runner is to promote or to fail is still a
draft, and each stage it is past has its artifact (`OutcomeOK`), so the promotion finds the evidence of all stages. Attempts
are taken in order and the active one is the latest (`AttemptsInOrder`, `ActiveIsLatest`): the evidence is that of the
attempt which succeeds. Attempts that log nothing more (`Settled`) are at least as many as the ends on the log
(`EndsCounted`), for an end is the last thing a loop logs. Every loop of an active run is at work, or is the one whose
watchdog stopped it as it gave up (`Led`). The lemmas speak of `AnyStep`, a step without the bounds that the runs need, so
that nothing proved depends on those bounds; `Next` is an `AnyStep`.

It proves `LoopImplementsPointer` from the same invariant: the initial state maps to the initial state of `StablePointer`,
and each transaction maps to one of its steps or leaves the mapped state alone (a run's end to `GiveUp` or `Publish`, a
creation to `Request`, a retry to `Resume`, an edit to `Edit`, a restore to `Restore`).

`RunEvents_proofs` proves `StreamReplayExact` (`ReplayExact`) for any number of runs and any schedule of polls, reconnections
and crashes. Argument: the property is the existence of places `at`, one in what the client was sent for each end of the log
up to its Last-Event-ID. A poll extends them by the places of what it sends, behind all the others (`ExactDrain`,
`ExactJoined`); a synthesized end takes no place (`ExactSynthesized`); and the backend only appends to a log, which leaves
its beginning (`StreamElsewhere`, by `NextWrites`). `StreamInv` adds the types and `OutcomeInv` to the property.
`ReplayExact` speaks of places, and not of the sequence without its synthesized ends, because filtering a sequence is
recursive, and the prover has no induction over it.

`ProjectPage_proofs` proves, for any number of runs, attempts, calls and reloads, `PageInvariant`, `PageAppliedOnce` and
`PageSuccessIsReal` (invariants) and `PageSnapshotsForward` (action property).

Argument. A page knows only what it was told, so `PageInv` says first that this is true: a `run_completed` on a log is of a run
that succeeded (`LogsTrue`), a snapshot on its way does not tell of a success that is not (`SnapsTrue`), and since a
success stays (`SucceededStays`), neither becomes false by being late. For `AppliedOnce` the two numberings of the events have to be
compared: a message is numbered by the turns of its attempt, which are never ahead of its place (`TurnBehindLog`), so an event
that a page drops as seen was passed by its EventSource before (`Placed`). That the next event delivered is the first
unseen one is shown by well-founded minimality (`SeenBefore`, `DeliveredPlace`). A page's step is either a step of the backend,
which keeps the logs' beginnings (`BackendKeeps`), or leaves the backend alone (`PageIsBackend`). `SnapshotsForward` needs
that what is shown is not above the floor (`page.ver <= page.floor`), for the floor is what a snapshot is compared with.

`IdempotencyLedger_proofs` proves, for any keys, requests and TTL, the invariants `LedgerTypes`,
`LedgerEffectsSpaced`, `LedgerLaunchedOnce` and the action properties `LedgerRecordsKept`, `LedgerReplayIsOriginal`.

Argument. That successes under one key are spaced says nothing of the ledger, so `LedgerInv` ties the two: a record names an
effect of its endpoint and key and carries its time (`RecordsTrue`), effects are numbered in the order of the clock
(`EffectsInOrder`), and a success younger than the TTL is on record or followed by one that is (`SuccessesRecorded`). A new
success is then at least a TTL younger than every older one (`ExecuteIsLate`), and what a hit finds is the newest. For the
loops, requests about to launch name different effects without a loop (`LaunchesPending`).

`Sessions_proofs` proves, for any clients, proxies, requests, passwords, limits and resolution of the clock, `LimiterBounds`
(`GuessesSpaced`), `RetryAfterIsHonest` (`RetryHonest`), `LogoutHolds` (`RevokedStaysOut`) and `SessionsHonour`
(`SessionsHonoured`).

Argument. The bound is on the guesses, the code counts windows. `SessionsInv` records where a guess opened a window and says
that windows are apart (`WindowsApart`), that of any `maxLoginFailures` guesses in a row one opened a window (`WindowsFull`),
and what of this the counter remembers (`CountsLastWindow`, without which neither is inductive). Of twice as many guesses two
then lie in windows of which the second opened after the first was over (`SpacedByWindows`). The wait an answer gave
reaches to the end of the window it was refused by (`WaitsCovered`), so when that is over only a later window can refuse. Every step is first reduced to
what it does to one client (`ClientStep`: nothing, forget, clear, open, count). For the sessions, `RevocationsKept` ties the
map to the logouts answered, `LivesOK` ties the whole seconds of the claims to the tick of the issue (`UnixAfter`), and
`ClaimsChecked` says what a request between its two steps knows.

`WorkflowRecovery_proofs` proves, for any number of runs, attempts, text stages and disturbances, all five properties of the
recovery run: `RecoveryTablesBeforeUse`, `RecoveryStageRowsSound`, `RecoveryReadsSettle` (invariants),
`RecoveryCompletedIsEvident` and `RecoveryPointerForward` (action properties).

Argument. `RecoveryInv` adds to the properties that runs are created in their order (`RunsInOrder`), that a loop works on an
active run of a serving process and terminal events are true of their runs (`LoopsLive`), and that a pointer row has a
version and one that says completed is of a succeeded run (`PointersHold`). A transaction writes the rows together or, under
the older build, not at all (`TransactionRows`, `BumpPointer`). A read is the backfill (`RecoveredRows`) and then the check
(`ReconciledRows`), which keeps the run and the stages and after one application finds nothing to move; that the row it
leaves is not the missing one is why a second read does not fill in again. `NoConflicts` turns the absence of conflict codes
into evidence; it needs that the attempt that is shown is the last that has rows (`ShownIsLast`, by well-founded minimality).

`GeneratedCode_proofs` proves, for code of any length in the forms of `GeneratedCode`, any dialects and any limit on the
content, `GateStripsExactly` (`StripsExactly`) and `GateBracketsExact` (`BracketsExact`); and, of dialects without the form
"word<", `GateErrorsExact` (`ErrorsExact`) and `GatePassIsComplete` (`PassIsComplete`). That form is an element right behind a
word of its text, which the gate refuses (the finding on markup below the runs): with it the two properties are false.

Argument. What a scanner computes is a recursive function of the place in the text. That each loop has a result is shown once,
without the library's induction, which takes an operator as a parameter: by taking a least place where a loop that goes forward
would have none (`ForwardRecursion`), and for a loop with a state by the places that every set has which is closed under its
step (`LoopRecursion`). After that the proofs relate a text to the text one token longer, and never unfold a loop further than
the token. `Core` says what the scan has come to at the end of the text: types, that the code is the text with some letters
blanked (`Seen`), how it ends where something may be written next (`EndsWell`), how what is open is nested (`Nested`), which of
the words that Validate looks for it has (`Meant`), and `Ahead`: whatever is written next, the scan comes to this place with the
code. Each step of the writer is one of the cases of `Moves`, and `StripsExactly` follows from `Core` alone. Then
`BracketsFound`: the scanner of brackets has found the first mistake or its stack is what is open. `Tags` is about the scanner
of JSX tags, which pairs them after the whole text is read: the tags without an end are those of the open elements, with their
depth in braces (`TagsEnd`), and for every choice of which pending tags count the others are paired as the writer meant
(`TagsFound`): for every choice, because a tag whose name has been written may yet close itself.

`StoreInv`, `StreamInv`, `PageInv`, `RecoveryInv`, `PreviewIsPublished`, `PreviewIsOfSuccess`, the types and `RecordsKept` are
proved without a run of their own; `OutcomeInv`, which is run, contains `LoopInv` and with it `StoreInv`.

Only model-checked: the liveness properties `LoopReturns` and `CompletionArrives`, for fairness, and with it ENABLED, is out of
the prover's reach.

## 5. Not modelled, and plan

Not modelled:

- `internal/agent/prompts.go`, `scaffold.go`, `scaffold/embed.go`: text without state; what the model answers is an input.
- `internal/logredact`, `contracts/contract.go`: pure functions over text, read once; the constants the contract holds
  (stages, repair rounds, TTL) are constants of the modules.
- `frontend/src/workspace.ts`, `WorkspacePanel.tsx`: rendering, the in-browser bundler and its deadlines are the browser's.
- `frontend/src/auth.ts`, `artifactNavigation.ts`, `recentProjects.ts`: thin wrappers of browser interfaces.
- Of the handlers the parsing of requests and the formatting of answers; of the store chat messages, file contents, lists.

Done: the store, the agent loop, the abstract pointer, the event stream, the project page, the idempotency ledger, the
sessions, the compile gate, start-up with migration and recovery; a theorem for every safety property of theirs that a
passing run checks. In order of importance, what is left:

1. `ProjectPage`: two overlapping calls of `getProject`, the retry a page does not offer after a refresh, the lock of a
   page whose record is recovering, liveness of the page.
2. Late events on the snapshot: `failInfra` and `run_failed` are two transactions, so a retry in between can have its
   snapshot marked as failed until its next stage, and `run_completed` follows the promotion in a transaction of its own.
   `EventWorkflow` and `Emit` model both; properties of the snapshot over those windows are still to be stated.
3. Proofs of liveness, should a prover come to take fairness.
