-------------------------- MODULE IdempotencyLedger --------------------------
(***************************************************************************)
(* The Idempotency-Key ledger (internal/store/idempotency.go) under the    *)
(* five endpoints that use it, with as much of their handlers as a repeat  *)
(* can upset: what the transaction leaves behind, and the loop that        *)
(* createRun and retryRun launch once it has committed.                    *)
(*                                                                         *)
(* One project.  The clock is in whole seconds, in which timestamps are    *)
(* kept (RFC 3339); a transaction happens at one instant.  Keys may be     *)
(* repeated at any time, by requests side by side or after a lost answer.  *)
(***************************************************************************)
EXTENDS Integers, Sequences

CONSTANTS Key, Request,
          TTL,                   \* idempotency.ttlSeconds
          MaxSecond, MaxEffects  \* bounds

ASSUME LedgerAssumption ==
  /\ TTL \in Nat \ {0}
  /\ MaxSecond \in Nat /\ MaxEffects \in Nat

Endpoint == {"createProject", "createRun", "retryRun", "writeFile", "restoreVersion"}
Launching == {"createRun", "retryRun"}

VARIABLES
  sec,         \* Store.now
  record,      \* endpoint -> key -> when an answer was recorded, and of which effect
  effect,      \* what requests have left in the database, in order
  project,     \* [active |-> the effect that made a run active, or 0,
               \*  failed |-> how many of its runs can be retried]
  configured,  \* modelConfigured, fixed for a process
  request      \* the requests at work

rows == <<record, effect, project>>
vars == <<sec, rows, configured, request>>

Absent == [at |-> 0, of |-> 0]
Effect == [endpoint : Endpoint, key : Key, sec : Nat,
           outcome  : {"ok", "kept"},  \* a recorded 2xx; a 503 or 422 with its writes
           launches : Nat]             \* how often a loop was launched for it

(* of: the effect it has committed, or is answered with from the ledger.  Any *)
(* other answer is written, or lost, without a trace: the request is free.    *)
Free == [at |-> "free"]
Sent == [at : {"sent"}, endpoint : Endpoint, key : Key]
Done == [at : {"committed", "replayed"}, endpoint : Endpoint, key : Key, of : Nat]

Init ==
  /\ sec = 0
  /\ record = [e \in Endpoint |-> [k \in Key |-> Absent]]
  /\ effect = << >>
  /\ project = [active |-> 0, failed |-> 0]
  /\ configured \in BOOLEAN
  /\ request = [q \in Request |-> Free]

-----------------------------------------------------------------------------
(* withinTTL: now - created_at < TTL.  Of a record's time the fraction is lost; *)
(* against a whole number of seconds that of the clock then decides nothing.    *)
WithinTTL(row) == row # Absent /\ sec - row.at < TTL

(* What the function given to runIdempotent refuses on the project's rows. *)
Refuses(e) ==
  CASE e = "createProject" -> FALSE
    [] e = "retryRun"      -> project.active # 0 \/ project.failed = 0
    [] OTHER               -> project.active # 0

(* The outcomes it has otherwise; of a write the compile gate decides. *)
Outcomes(e) ==
  CASE e = "createRun" -> {IF configured THEN "ok" ELSE "kept"}
    [] e = "writeFile" -> {"ok", "kept"}
    [] OTHER           -> {"ok"}

(* What effect n of endpoint e makes of the project's runs. *)
ProjectAfter(e, n, outcome) ==
  CASE e = "createRun" /\ outcome = "ok"   -> [project EXCEPT !.active = n]
    [] e = "createRun" /\ outcome = "kept" -> [project EXCEPT !.failed = @ + 1]
    [] e = "retryRun"                      -> [active |-> n, failed |-> project.failed - 1]
    [] OTHER                               -> project

(* Variant with a defect: whatever is answered is recorded. *)
RecordAfterAny(e, k, n, outcome) == [record EXCEPT ![e][k] = [at |-> sec, of |-> n]]
(* Only a 2xx is recorded; the eviction of an expired row commits with the rest. *)
RecordAfter(e, k, n, outcome) ==
  [record EXCEPT ![e][k] = IF outcome = "ok" THEN [at |-> sec, of |-> n] ELSE Absent]

Row(q) == record[request[q].endpoint][request[q].key]
Become(q, state) == request' = [request EXCEPT ![q] = state]
Return(q, stage, n) ==
  Become(q, [at |-> stage, endpoint |-> request[q].endpoint, key |-> request[q].key, of |-> n])

-----------------------------------------------------------------------------
(* The handlers up to the store: a key is required; retryRun wants a model. *)
Send(q) ==
  /\ request[q] = Free
  /\ \E e \in Endpoint, k \in Key :
       /\ e = "retryRun" => configured
       /\ Become(q, [at |-> "sent", endpoint |-> e, key |-> k])
  /\ UNCHANGED <<sec, rows, configured>>

(* A hit: the recorded answer and nothing else. *)
Replay(q) ==
  /\ request[q].at = "sent"
  /\ WithinTTL(Row(q))
  /\ Return(q, "replayed", Row(q).of)
  /\ UNCHANGED <<sec, rows, configured>>

(* An error of the function: the rollback restores even an expired row.  On  *)
(* its input (lengths, unknown ids, a stale base version) it may always err. *)
Refuse(q) ==
  /\ request[q].at = "sent"
  /\ ~WithinTTL(Row(q))
  /\ Become(q, Free)
  /\ UNCHANGED <<sec, rows, configured>>

(* A miss: the function runs and its writes commit together with the record. *)
Execute(q) ==
  LET e == request[q].endpoint
      k == request[q].key
      n == Len(effect) + 1 IN
  /\ request[q].at = "sent" /\ Len(effect) < MaxEffects
  /\ ~WithinTTL(Row(q))
  /\ ~Refuses(e)
  /\ \E outcome \in Outcomes(e) :
       /\ effect' = Append(effect, [endpoint |-> e, key |-> k, sec |-> sec,
                                    outcome |-> outcome, launches |-> 0])
       /\ project' = ProjectAfter(e, n, outcome)
       /\ record' = RecordAfter(e, k, n, outcome)
       /\ IF e \in Launching /\ outcome = "ok" THEN Return(q, "committed", n)
                                               ELSE Become(q, Free)
  /\ UNCHANGED <<sec, configured>>

(* Variant with a defect: "replayed" is not looked at. *)
LaunchReplayed(q) ==
  /\ request[q].at # "sent" /\ request[q] # Free /\ request[q].endpoint \in Launching
  /\ effect' = [effect EXCEPT ![request[q].of].launches = @ + 1]
  /\ Become(q, Free)
  /\ UNCHANGED <<sec, record, project, configured>>
(* Back in the handler: "go loop.Run", for what this request has made. *)
Launch(q) ==
  /\ request[q].at = "committed"
  /\ effect' = [effect EXCEPT ![request[q].of].launches = @ + 1]
  /\ Become(q, Free)
  /\ UNCHANGED <<sec, record, project, configured>>

(* A replayed answer is written, or lost with its connection (createRun makes *)
(* it a 503 where no model is configured any more).                          *)
Reply(q) ==
  /\ request[q].at = "replayed"
  /\ Become(q, Free)
  /\ UNCHANGED <<sec, rows, configured>>

(* Variant with a defect: the cutoff is now. *)
GCEverything ==
  /\ record' = [e \in Endpoint |-> [k \in Key |->
                  IF record[e][k].at < sec THEN Absent ELSE record[e][k]]]
  /\ UNCHANGED <<sec, effect, project, configured, request>>
(* GCIdempotency: created_at < now - TTL, compared as timestamps without      *)
(* fraction.  Nothing in src/ schedules it; it is "safe to run periodically". *)
GCIdempotency ==
  /\ record' = [e \in Endpoint |-> [k \in Key |->
                  IF record[e][k].at < sec - TTL THEN Absent ELSE record[e][k]]]
  /\ UNCHANGED <<sec, effect, project, configured, request>>

-----------------------------------------------------------------------------
(* A launched loop brings its run to its end. *)
RunEnds ==
  /\ project.active # 0 /\ effect[project.active].launches > 0
  /\ \E f \in {0, 1} : project' = [active |-> 0, failed |-> project.failed + f]
  /\ UNCHANGED <<sec, record, effect, configured, request>>

(* A crash loses the requests at work; the start-up interrupts an active run. *)
Restart ==
  /\ request' = [q \in Request |-> Free]
  /\ project' = [active |-> 0,
                 failed |-> project.failed + IF project.active # 0 THEN 1 ELSE 0]
  /\ configured' \in BOOLEAN
  /\ UNCHANGED <<sec, record, effect>>

(* Time passes. *)
Tick ==
  /\ sec < MaxSecond
  /\ sec' = sec + 1
  /\ UNCHANGED <<rows, configured, request>>

Next ==
  \/ \E q \in Request : Send(q) \/ Replay(q) \/ Refuse(q) \/ Execute(q) \/ Launch(q) \/ Reply(q)
  \/ GCIdempotency \/ RunEnds \/ Restart \/ Tick

Spec == Init /\ [][Next]_vars

-----------------------------------------------------------------------------
LedgerTypeOK ==
  /\ sec \in Nat
  /\ record \in [Endpoint -> [Key -> [at : Nat, of : 0 .. Len(effect)]]]
  /\ effect \in Seq(Effect)
  /\ project \in [active : 0 .. Len(effect), failed : Nat]
  /\ configured \in BOOLEAN
  /\ request \in [Request -> {Free} \cup Sent \cup Done]

(* Two requests with one key are executed only when at least TTL seconds of   *)
(* the clock lie between them, whatever is sent, replayed, collected or lost: *)
(* the record and the writes commit together (runIdempotent).                 *)
EffectsSpaced ==
  \A i, j \in 1 .. Len(effect) :
    /\ i < j
    /\ effect[i].endpoint = effect[j].endpoint /\ effect[i].key = effect[j].key
    /\ effect[i].outcome = "ok" /\ effect[j].outcome = "ok"
    => effect[j].sec - effect[i].sec >= TTL

(* A repeat is answered with the newest success of its own endpoint and key,  *)
(* and only while that is younger than the TTL; no error is ever replayed.    *)
Newest(e, k, n) ==
  /\ n \in 1 .. Len(effect)
  /\ effect[n].endpoint = e /\ effect[n].key = k /\ effect[n].outcome = "ok"
  /\ \A i \in n + 1 .. Len(effect) :
       ~(effect[i].endpoint = e /\ effect[i].key = k /\ effect[i].outcome = "ok")
ReplayIsOriginal ==
  [][\A q \in Request :
       request[q].at = "sent" /\ request'[q].at = "replayed"
       => /\ Newest(request[q].endpoint, request[q].key, request'[q].of)
          /\ sec - effect[request'[q].of].sec < TTL]_vars

(* A record that would still be replayed is not collected, evicted or         *)
(* replaced (GCIdempotency beside runIdempotent).                             *)
RecordsKept ==
  [][\A e \in Endpoint, k \in Key :
       WithinTTL(record[e][k]) => record'[e][k] = record[e][k]]_vars

(* One loop per run made: a replay launches none, and an active run has had   *)
(* its loop or is about to get it from the request that made it, which        *)
(* therefore is still at work (createRun, retryRun after the commit).         *)
LaunchedOnce ==
  /\ \A n \in 1 .. Len(effect) : effect[n].launches <= 1
  /\ project.active # 0 =>
       \/ effect[project.active].launches = 1
       \/ \E q \in Request : request[q].at = "committed" /\ request[q].of = project.active

-----------------------------------------------------------------------------
(* The inductive invariant.  A record tells the truth; effects are numbered   *)
(* in the order of the clock; a success is on record, or followed by one that *)
(* is, until it has expired; a request that is about to launch a loop is the  *)
(* only one to do so.                                                         *)
RecordsTrue ==
  \A e \in Endpoint, k \in Key :
    LET row == record[e][k] IN
    row # Absent =>
      /\ row.of \in 1 .. Len(effect)
      /\ effect[row.of].endpoint = e /\ effect[row.of].key = k
      /\ effect[row.of].outcome = "ok" /\ effect[row.of].sec = row.at

EffectsInOrder ==
  /\ \A i \in 1 .. Len(effect) : effect[i].sec <= sec
  /\ \A i, j \in 1 .. Len(effect) : i <= j => effect[i].sec <= effect[j].sec

SuccessesRecorded ==
  \A i \in 1 .. Len(effect) :
    effect[i].outcome = "ok" =>
      LET row == record[effect[i].endpoint][effect[i].key] IN
      \/ sec - effect[i].sec >= TTL
      \/ row # Absent /\ row.of >= i

LaunchesPending ==
  \A q \in Request :
    request[q].at = "committed" =>
      /\ request[q].of \in 1 .. Len(effect)
      /\ effect[request[q].of].launches = 0
      /\ \A p \in Request \ {q} :
           request[p].at = "committed" => request[p].of # request[q].of

LedgerInv ==
  /\ LedgerTypeOK
  /\ RecordsTrue /\ EffectsInOrder /\ SuccessesRecorded /\ EffectsSpaced
  /\ LaunchesPending /\ LaunchedOnce

=============================================================================
