---------------------- MODULE IdempotencyLedger_proofs ----------------------
(***************************************************************************)
(* Theorems about IdempotencyLedger, for any keys, requests, TTL and       *)
(* resolution of the clock.                                                *)
(***************************************************************************)
EXTENDS IdempotencyLedger, TLAPS

(* What a transaction with writes appends, as one record. *)
NewEffect(q, outcome) ==
  [endpoint |-> request[q].endpoint, key |-> request[q].key, sec |-> sec,
   outcome |-> outcome, launches |-> 0]

(* A request under way names an endpoint and a key.                           *)
LEMMA SentRequest ==
  ASSUME LedgerTypeOK, NEW q \in Request, request[q].at = "sent"
  PROVE  request[q].endpoint \in Endpoint /\ request[q].key \in Key
<1>1. request[q] \in {Free} \cup Sent \cup Done
  BY DEF LedgerTypeOK
<1>2. request[q] # Free
  BY DEF Free
<1> QED
  BY <1>1, <1>2 DEF Sent, Done

(* The rows keep their types under every step. *)
LEMMA TypeStep ==
  ASSUME LedgerTypeOK, LaunchesPending, [Next]_vars
  PROVE  LedgerTypeOK'
<1> USE LedgerAssumption
<1>1. CASE UNCHANGED vars
  BY <1>1 DEF LedgerTypeOK, vars, rows
<1>2. ASSUME NEW q \in Request, Send(q) PROVE LedgerTypeOK'
  BY <1>2 DEF LedgerTypeOK, Send, Become, Sent, rows
<1>3. ASSUME NEW q \in Request, Replay(q) PROVE LedgerTypeOK'
  <2>1. request[q].endpoint \in Endpoint /\ request[q].key \in Key
    BY <1>3, SentRequest DEF Replay
  <2>2. Row(q).of \in Nat
    BY <2>1 DEF LedgerTypeOK, Row
  <2>3. request' \in [Request -> {Free} \cup Sent \cup Done]
    BY <1>3, <2>1, <2>2 DEF LedgerTypeOK, Replay, Return, Become, Done
  <2> QED
    BY <1>3, <2>3 DEF LedgerTypeOK, Replay, rows
<1>4. ASSUME NEW q \in Request, Refuse(q) PROVE LedgerTypeOK'
  BY <1>4 DEF LedgerTypeOK, Refuse, Become, rows
<1>5. ASSUME NEW q \in Request, Execute(q) PROVE LedgerTypeOK'
  <2> DEFINE e == request[q].endpoint
             k == request[q].key
             n == Len(effect) + 1
  <2>1. e \in Endpoint /\ k \in Key /\ n \in Nat \ {0}
    BY <1>5, SentRequest DEF Execute, LedgerTypeOK
  <2>2. PICK outcome \in Outcomes(e) :
          /\ effect' = Append(effect, NewEffect(q, outcome))
          /\ project' = ProjectAfter(e, n, outcome)
          /\ record' = RecordAfter(e, k, n, outcome)
          /\ IF e \in Launching /\ outcome = "ok" THEN Return(q, "committed", n)
                                                 ELSE Become(q, Free)
    BY <1>5 DEF Execute, NewEffect
  <2>3. outcome \in {"ok", "kept"}
    BY <2>1 DEF Outcomes, Endpoint
  <2>4. NewEffect(q, outcome) \in Effect
    BY <2>1, <2>3 DEF NewEffect, Effect, LedgerTypeOK
  <2>5. effect' \in Seq(Effect) /\ Len(effect') = n
    BY <2>2, <2>4 DEF LedgerTypeOK
  <2>6. project' \in [active : 0 .. Len(effect'), failed : Nat]
    <3>1. ~Refuses(e)
      BY <1>5 DEF Execute
    <3>2. CASE e = "retryRun"
      BY <2>1, <2>2, <2>5, <3>1, <3>2 DEF Refuses, ProjectAfter, LedgerTypeOK
    <3>3. CASE e # "retryRun"
      BY <2>1, <2>2, <2>5, <3>3 DEF ProjectAfter, LedgerTypeOK
    <3> QED BY <3>2, <3>3
  <2>7. record' \in [Endpoint -> [Key -> [at : Nat, of : 0 .. Len(effect')]]]
    <3>1. record \in [Endpoint -> [Key -> [at : Nat, of : 0 .. n]]]
      BY <2>1 DEF LedgerTypeOK
    <3>2. (IF outcome = "ok" THEN [at |-> sec, of |-> n] ELSE Absent) \in [at : Nat, of : 0 .. n]
      BY <2>1 DEF Absent, LedgerTypeOK
    <3> QED
      BY <2>1, <2>2, <2>5, <3>1, <3>2 DEF RecordAfter
  <2>8. request' \in [Request -> {Free} \cup Sent \cup Done]
    <3>1. [at |-> "committed", endpoint |-> e, key |-> k, of |-> n] \in Done
      BY <2>1 DEF Done
    <3>2. \/ request' = [request EXCEPT ![q] =
                  [at |-> "committed", endpoint |-> e, key |-> k, of |-> n]]
          \/ request' = [request EXCEPT ![q] = Free]
      BY <2>2 DEF Return, Become
    <3> QED
      BY <3>1, <3>2 DEF LedgerTypeOK
  <2> QED
    BY <1>5, <2>5, <2>6, <2>7, <2>8 DEF LedgerTypeOK, Execute
<1>6. ASSUME NEW q \in Request, Launch(q) PROVE LedgerTypeOK'
  <2>1. request[q].of \in 1 .. Len(effect)
    BY <1>6 DEF Launch, LaunchesPending
  <2>2. effect' \in Seq(Effect) /\ Len(effect') = Len(effect)
    <3>1. effect[request[q].of] \in Effect
      BY <2>1 DEF LedgerTypeOK
    <3>2. [effect[request[q].of] EXCEPT !.launches = @ + 1] \in Effect
      BY <3>1 DEF Effect
    <3>3. effect' = [effect EXCEPT ![request[q].of] =
                       [effect[request[q].of] EXCEPT !.launches = @ + 1]]
      BY <1>6, <2>1 DEF Launch, LedgerTypeOK
    <3> QED
      BY <2>1, <3>2, <3>3 DEF LedgerTypeOK
  <2> QED
    BY <1>6, <2>2 DEF LedgerTypeOK, Launch, Become
<1>7. ASSUME NEW q \in Request, Reply(q) PROVE LedgerTypeOK'
  BY <1>7 DEF LedgerTypeOK, Reply, Become, rows
<1>8. CASE GCIdempotency
  BY <1>8 DEF LedgerTypeOK, GCIdempotency, Absent
<1>9. CASE RunEnds
  BY <1>9 DEF LedgerTypeOK, RunEnds
<1>10. CASE Restart
  BY <1>10 DEF LedgerTypeOK, Restart
<1>11. CASE Tick
  BY <1>11 DEF LedgerTypeOK, Tick, rows
<1> QED
  BY <1>1, <1>2, <1>3, <1>4, <1>5, <1>6, <1>7, <1>8, <1>9, <1>10, <1>11 DEF Next

-----------------------------------------------------------------------------
(* What a step can do to the ledger and to the effects. *)
Executes(q, outcome) ==
  /\ request[q].at = "sent" /\ ~WithinTTL(Row(q)) /\ ~Refuses(request[q].endpoint)
  /\ outcome \in {"ok", "kept"}
  /\ effect' = Append(effect, NewEffect(q, outcome))
  /\ record' = RecordAfter(request[q].endpoint, request[q].key, Len(effect) + 1, outcome)
  /\ sec' = sec

(* A miss that is not refused is such a step.                                 *)
LEMMA ExecuteExecutes ==
  ASSUME LedgerTypeOK, NEW q \in Request, Execute(q)
  PROVE  \E outcome \in {"ok", "kept"} : Executes(q, outcome)
<1>1. request[q].endpoint \in Endpoint
  BY SentRequest DEF Execute
<1>2. Outcomes(request[q].endpoint) \subseteq {"ok", "kept"}
  BY <1>1 DEF Outcomes, Endpoint
<1> QED
  BY <1>2 DEF Execute, Executes, NewEffect

(* The effects have the fields of Effect.                                     *)
LEMMA EffectRows ==
  ASSUME LedgerTypeOK
  PROVE  \A i \in 1 .. Len(effect) :
           /\ effect[i] \in Effect
           /\ effect[i].endpoint \in Endpoint /\ effect[i].key \in Key
           /\ effect[i].sec \in Nat /\ effect[i].outcome \in {"ok", "kept"}
<1>1. \A i \in 1 .. Len(effect) : effect[i] \in Effect
  BY DEF LedgerTypeOK
<1> QED
  BY <1>1 DEF Effect

(* Old effects keep everything but the count of their loops. *)
LEMMA LaunchKeeps ==
  ASSUME LedgerTypeOK, LaunchesPending, NEW q \in Request, Launch(q)
  PROVE  /\ Len(effect') = Len(effect) /\ record' = record /\ sec' = sec
         /\ \A i \in 1 .. Len(effect) :
              /\ effect'[i].endpoint = effect[i].endpoint /\ effect'[i].key = effect[i].key
              /\ effect'[i].sec = effect[i].sec /\ effect'[i].outcome = effect[i].outcome
         /\ \A i \in 1 .. Len(effect) :
              effect'[i].launches = IF i = request[q].of THEN 1 ELSE effect[i].launches
<1>1. request[q].of \in 1 .. Len(effect) /\ effect[request[q].of].launches = 0
  BY DEF Launch, LaunchesPending
<1>2. effect' = [effect EXCEPT ![request[q].of] =
                   [effect[request[q].of] EXCEPT !.launches = @ + 1]]
  BY <1>1 DEF Launch, LedgerTypeOK
<1>3. \A i \in 1 .. Len(effect) : effect[i] \in Effect
  BY DEF LedgerTypeOK
<1>4. Len(effect') = Len(effect)
  BY <1>2 DEF LedgerTypeOK
<1>5. ASSUME NEW i \in 1 .. Len(effect), i # request[q].of
      PROVE  effect'[i] = effect[i]
  BY <1>1, <1>2, <1>5 DEF LedgerTypeOK
<1>6. effect'[request[q].of] = [effect[request[q].of] EXCEPT !.launches = 1]
  BY <1>1, <1>2 DEF LedgerTypeOK
<1>7. record' = record /\ sec' = sec
  BY DEF Launch
<1>8. /\ effect'[request[q].of].endpoint = effect[request[q].of].endpoint
      /\ effect'[request[q].of].key = effect[request[q].of].key
      /\ effect'[request[q].of].sec = effect[request[q].of].sec
      /\ effect'[request[q].of].outcome = effect[request[q].of].outcome
      /\ effect'[request[q].of].launches = 1
  BY <1>1, <1>3, <1>6 DEF Effect
<1> QED
  BY <1>4, <1>5, <1>7, <1>8

(* Older effects stay as they are.                                            *)
LEMMA ExecuteAppends ==
  ASSUME LedgerTypeOK, NEW q \in Request, NEW outcome, Executes(q, outcome)
  PROVE  /\ Len(effect') = Len(effect) + 1
         /\ \A i \in 1 .. Len(effect) : effect'[i] = effect[i]
         /\ effect'[Len(effect) + 1] = NewEffect(q, outcome)
BY DEF LedgerTypeOK, Executes

(* A step that leaves records and effects alone and does not turn the clock  *)
(* back keeps the four parts about them.                                     *)
LedgerParts == RecordsTrue /\ EffectsInOrder /\ SuccessesRecorded /\ EffectsSpaced

(* ... whatever else it does. *)
LEMMA QuietLedger ==
  ASSUME LedgerTypeOK, LedgerTypeOK', LedgerParts, UNCHANGED <<record, effect>>, sec' >= sec
  PROVE  LedgerParts'
<1> USE LedgerAssumption
<1>1. \A i \in 1 .. Len(effect) : effect[i].sec \in Nat
  BY EffectRows
<1>2. sec \in Nat /\ sec' \in Nat
  BY DEF LedgerTypeOK
<1>3. RecordsTrue' /\ EffectsSpaced'
  BY DEF LedgerParts, RecordsTrue, EffectsSpaced
<1>4. EffectsInOrder'
  BY <1>1, <1>2 DEF LedgerParts, EffectsInOrder
<1>5. SuccessesRecorded'
  BY <1>1, <1>2 DEF LedgerParts, SuccessesRecorded
<1> QED
  BY <1>3, <1>4, <1>5 DEF LedgerParts

(* Launching a loop touches no record.                                        *)
LEMMA LaunchLedger ==
  ASSUME LedgerTypeOK, LaunchesPending, LedgerParts, NEW q \in Request, Launch(q)
  PROVE  LedgerParts'
<1>1. RecordsTrue'
  BY LaunchKeeps DEF LedgerParts, RecordsTrue
<1>2. EffectsInOrder'
  BY LaunchKeeps DEF LedgerParts, EffectsInOrder
<1>3. SuccessesRecorded'
  BY LaunchKeeps DEF LedgerParts, SuccessesRecorded
<1>4. EffectsSpaced'
  BY LaunchKeeps DEF LedgerParts, EffectsSpaced
<1> QED
  BY <1>1, <1>2, <1>3, <1>4 DEF LedgerParts

(* What is collected has expired, and so has every success it stood for. *)
LEMMA CollectLedger ==
  ASSUME LedgerTypeOK, LedgerParts, GCIdempotency
  PROVE  LedgerParts'
<1> USE LedgerAssumption
<1>1. effect' = effect /\ sec' = sec /\ sec \in Nat
  BY DEF GCIdempotency, LedgerTypeOK
<1>2. \A e \in Endpoint, k \in Key :
        record'[e][k] = IF record[e][k].at < sec - TTL THEN Absent ELSE record[e][k]
  BY DEF GCIdempotency
<1>3. RecordsTrue'
  BY <1>1, <1>2 DEF LedgerParts, RecordsTrue
<1>4. EffectsInOrder' /\ EffectsSpaced'
  BY <1>1 DEF LedgerParts, EffectsInOrder, EffectsSpaced
<1>5. SuccessesRecorded'
  <2> SUFFICES ASSUME NEW i \in 1 .. Len(effect), effect[i].outcome = "ok",
                      sec - effect[i].sec < TTL
               PROVE  LET row == record'[effect[i].endpoint][effect[i].key] IN
                      row # Absent /\ row.of >= i
    BY <1>1, EffectRows DEF SuccessesRecorded
  <2> DEFINE row == record[effect[i].endpoint][effect[i].key]
  <2>1. effect[i].endpoint \in Endpoint /\ effect[i].key \in Key /\ effect[i].sec \in Nat
    BY EffectRows
  <2>2. row # Absent /\ row.of >= i
    <3>1. ~(sec - effect[i].sec >= TTL)
      BY <1>1, <2>1
    <3> QED
      BY <3>1 DEF LedgerParts, SuccessesRecorded
  <2>3. row.of \in 1 .. Len(effect) /\ effect[row.of].sec = row.at
    BY <2>1, <2>2 DEF LedgerParts, RecordsTrue
  <2>4. row.at >= effect[i].sec /\ row.at \in Nat
    BY <2>1, <2>2, <2>3 DEF LedgerParts, EffectsInOrder, LedgerTypeOK
  <2>5. ~(row.at < sec - TTL)
    BY <1>1, <2>1, <2>4
  <2> QED
    BY <1>2, <2>1, <2>2, <2>5
<1> QED
  BY <1>3, <1>4, <1>5 DEF LedgerParts

(* A request is executed only when no success under its key is younger than  *)
(* the TTL: the newest is on record, and that record is not within it.       *)
LEMMA ExecuteIsLate ==
  ASSUME LedgerTypeOK, LedgerParts, NEW q \in Request, request[q].at = "sent",
         ~WithinTTL(Row(q)), NEW i \in 1 .. Len(effect), effect[i].outcome = "ok",
         effect[i].endpoint = request[q].endpoint, effect[i].key = request[q].key
  PROVE  sec - effect[i].sec >= TTL
<1> USE LedgerAssumption
<1>1. request[q].endpoint \in Endpoint /\ request[q].key \in Key
  BY SentRequest
<1>2. sec \in Nat /\ effect[i].sec \in Nat
  BY EffectRows DEF LedgerTypeOK
<1>3. CASE Row(q) # Absent /\ Row(q).of >= i
  <2>1. Row(q).of \in 1 .. Len(effect) /\ effect[Row(q).of].sec = Row(q).at
    BY <1>1, <1>3 DEF LedgerParts, RecordsTrue, Row
  <2>2. effect[i].sec <= Row(q).at /\ Row(q).at \in Nat
    BY <1>2, <1>3, <2>1, EffectRows DEF LedgerParts, EffectsInOrder
  <2>3. ~(sec - Row(q).at < TTL)
    BY <1>3 DEF WithinTTL
  <2> QED
    BY <1>2, <2>2, <2>3
<1> QED
  BY <1>3 DEF LedgerParts, SuccessesRecorded, Row

(* An execution keeps the four parts, with the effect it adds.                *)
LEMMA ExecuteLedger ==
  ASSUME LedgerTypeOK, LedgerTypeOK', LedgerParts,
         NEW q \in Request, NEW outcome, Executes(q, outcome)
  PROVE  LedgerParts'
<1> USE LedgerAssumption
<1> DEFINE e == request[q].endpoint
           k == request[q].key
           n == Len(effect) + 1
<1>1. /\ e \in Endpoint /\ k \in Key /\ n \in Nat \ {0}
      /\ request[q].at = "sent" /\ ~WithinTTL(Row(q))
      /\ outcome \in {"ok", "kept"} /\ sec' = sec /\ sec \in Nat
  BY SentRequest DEF Executes, LedgerTypeOK
<1>2. /\ Len(effect') = n
      /\ \A i \in 1 .. Len(effect) : effect'[i] = effect[i]
      /\ effect'[n] = NewEffect(q, outcome)
  BY ExecuteAppends
<1>3. /\ effect'[n].endpoint = e /\ effect'[n].key = k
      /\ effect'[n].sec = sec /\ effect'[n].outcome = outcome
  BY <1>2 DEF NewEffect
<1>4. \A i \in 1 .. n : i \in 1 .. Len(effect) \/ i = n
  <2>1. Len(effect) \in Nat
    BY DEF LedgerTypeOK
  <2> QED BY <2>1
<1>5. \A f \in Endpoint, l \in Key : f # e \/ l # k => record'[f][l] = record[f][l]
  BY <1>1 DEF Executes, RecordAfter, LedgerTypeOK
<1>6. record'[e][k] = IF outcome = "ok" THEN [at |-> sec, of |-> n] ELSE Absent
  BY <1>1 DEF Executes, RecordAfter, LedgerTypeOK
<1>7. RecordsTrue'
  <2> SUFFICES ASSUME NEW f \in Endpoint, NEW l \in Key, record'[f][l] # Absent
               PROVE  LET row == record'[f][l] IN
                      /\ row.of \in 1 .. Len(effect')
                      /\ effect'[row.of].endpoint = f /\ effect'[row.of].key = l
                      /\ effect'[row.of].outcome = "ok" /\ effect'[row.of].sec = row.at
    BY DEF RecordsTrue, Absent
  <2>1. CASE f = e /\ l = k
    <3>1. outcome = "ok" /\ record'[f][l] = [at |-> sec, of |-> n]
      BY <1>6, <2>1
    <3> QED
      BY <1>1, <1>2, <1>3, <2>1, <3>1
  <2>2. CASE f # e \/ l # k
    <3>1. record'[f][l] = record[f][l]
      BY <1>5, <2>2
    <3> QED
      BY <1>1, <1>2, <3>1 DEF LedgerParts, RecordsTrue
  <2> QED BY <2>1, <2>2
<1>8. EffectsInOrder'
  <2>1. \A i \in 1 .. n : effect'[i].sec <= sec
    BY <1>1, <1>2, <1>3, <1>4 DEF LedgerParts, EffectsInOrder
  <2>2. \A i, j \in 1 .. n : i <= j => effect'[i].sec <= effect'[j].sec
    BY <1>1, <1>2, <1>3, <1>4, <2>1 DEF LedgerParts, EffectsInOrder
  <2> QED
    BY <1>1, <1>2, <2>1, <2>2 DEF EffectsInOrder
<1>9. ASSUME NEW i \in 1 .. Len(effect), effect[i].outcome = "ok",
             effect[i].endpoint = e, effect[i].key = k
      PROVE  sec - effect[i].sec >= TTL
  BY <1>1, <1>9, ExecuteIsLate
<1>10. SuccessesRecorded'
  <2> SUFFICES ASSUME NEW i \in 1 .. n, effect'[i].outcome = "ok"
               PROVE  LET row == record'[effect'[i].endpoint][effect'[i].key] IN
                      \/ sec - effect'[i].sec >= TTL
                      \/ row # Absent /\ row.of >= i
    BY <1>1, <1>2 DEF SuccessesRecorded, Absent
  <2>1. CASE i = n
    <3>1. outcome = "ok" /\ record'[e][k] = [at |-> sec, of |-> n]
      BY <1>3, <1>6, <2>1
    <3>2. record'[e][k] # Absent /\ record'[e][k].of >= n
      BY <1>1, <3>1 DEF Absent
    <3> QED
      BY <1>3, <2>1, <3>2
  <2>2. CASE i \in 1 .. Len(effect)
    <3>1. effect'[i] = effect[i] /\ effect[i].endpoint \in Endpoint /\ effect[i].key \in Key
      BY <1>2, <2>2, EffectRows
    <3>2. CASE effect[i].endpoint = e /\ effect[i].key = k
      BY <1>9, <2>2, <3>1, <3>2
    <3>3. CASE effect[i].endpoint # e \/ effect[i].key # k
      BY <1>5, <2>2, <3>1, <3>3 DEF LedgerParts, SuccessesRecorded
    <3> QED BY <3>2, <3>3
  <2> QED BY <1>4, <2>1, <2>2
<1>11. EffectsSpaced'
  <2> SUFFICES ASSUME NEW i \in 1 .. n, NEW j \in 1 .. n, i < j,
                      effect'[i].endpoint = effect'[j].endpoint,
                      effect'[i].key = effect'[j].key,
                      effect'[i].outcome = "ok", effect'[j].outcome = "ok"
               PROVE  effect'[j].sec - effect'[i].sec >= TTL
    BY <1>2 DEF EffectsSpaced
  <2>1. i \in 1 .. Len(effect)
    BY <1>4
  <2>2. CASE j = n
    BY <1>2, <1>3, <1>9, <2>1, <2>2
  <2>3. CASE j \in 1 .. Len(effect)
    BY <1>2, <2>1, <2>3 DEF LedgerParts, EffectsSpaced
  <2> QED BY <1>4, <2>2, <2>3
<1> QED
  BY <1>7, <1>8, <1>10, <1>11 DEF LedgerParts

-----------------------------------------------------------------------------
(* The loops.  A step that neither commits a run nor launches a loop keeps    *)
(* what is pending.                                                           *)
Launches == LaunchesPending /\ LaunchedOnce

(* ... and what is active. *)
LEMMA QuietLaunches ==
  ASSUME Launches, effect' = effect, project'.active \in {0, project.active},
         \A p \in Request :
           \/ request'[p] = request[p]
           \/ request'[p].at # "committed" /\ request[p].at # "committed"
  PROVE  Launches'
<1>1. LaunchesPending'
  BY DEF Launches, LaunchesPending
<1>2. LaunchedOnce'
  BY DEF Launches, LaunchedOnce
<1> QED
  BY <1>1, <1>2 DEF Launches

(* A launch counts for its own effect alone.                                  *)
LEMMA LaunchLaunches ==
  ASSUME LedgerTypeOK, Launches, NEW q \in Request, Launch(q)
  PROVE  Launches'
<1>1. /\ Len(effect') = Len(effect)
      /\ \A i \in 1 .. Len(effect) :
           effect'[i].launches = IF i = request[q].of THEN 1 ELSE effect[i].launches
  BY LaunchKeeps DEF Launches
<1>2. /\ request[q].at = "committed" /\ project' = project
      /\ request' = [request EXCEPT ![q] = Free]
  BY DEF Launch, Become
<1>3. request'[q].at # "committed"
  BY <1>2 DEF LedgerTypeOK, Free
<1>4. \A p \in Request \ {q} : request'[p] = request[p]
  BY <1>2 DEF LedgerTypeOK
<1>5. LaunchesPending'
  BY <1>1, <1>2, <1>3, <1>4 DEF Launches, LaunchesPending
<1>6. \A i \in 1 .. Len(effect') : effect'[i].launches <= 1
  BY <1>1 DEF Launches, LaunchedOnce
<1>7. ASSUME project'.active # 0
      PROVE  \/ effect'[project'.active].launches = 1
             \/ \E p \in Request : request'[p].at = "committed" /\ request'[p].of = project'.active
  <2>1. project.active \in 1 .. Len(effect)
    BY <1>2, <1>7 DEF LedgerTypeOK
  <2>2. CASE effect[project.active].launches = 1
    BY <1>1, <1>2, <2>1, <2>2
  <2>3. CASE \E p \in Request : request[p].at = "committed" /\ request[p].of = project.active
    <3>1. PICK p \in Request : request[p].at = "committed" /\ request[p].of = project.active
      BY <2>3
    <3>2. CASE p = q
      BY <1>1, <1>2, <2>1, <3>1, <3>2
    <3>3. CASE p # q
      BY <1>2, <1>4, <3>1, <3>3
    <3> QED BY <3>2, <3>3
  <2> QED
    BY <1>2, <1>7, <2>2, <2>3 DEF Launches, LaunchedOnce
<1> QED
  BY <1>5, <1>6, <1>7 DEF Launches, LaunchedOnce

(* The effect a request commits is the newest: nobody else is about to launch *)
(* for it, and if it is the active run, its own request is.                   *)
LEMMA ExecuteLaunches ==
  ASSUME LedgerTypeOK, Launches, NEW q \in Request, Execute(q)
  PROVE  Launches'
<1> DEFINE e == request[q].endpoint
           k == request[q].key
           n == Len(effect) + 1
           Committed == [at |-> "committed", endpoint |-> e, key |-> k, of |-> n]
<1>1. n \in Nat \ {0} /\ request[q].at = "sent" /\ e \in Endpoint
  BY SentRequest DEF Execute, LedgerTypeOK
<1>2. PICK outcome \in Outcomes(e) :
        /\ effect' = Append(effect, NewEffect(q, outcome))
        /\ project' = ProjectAfter(e, n, outcome)
        /\ request' = [request EXCEPT ![q] =
                         IF e \in Launching /\ outcome = "ok" THEN Committed ELSE Free]
  BY DEF Execute, NewEffect, Return, Become
<1>3. /\ Len(effect') = n
      /\ \A i \in 1 .. Len(effect) : effect'[i] = effect[i]
      /\ effect'[n].launches = 0
  <2>1. effect'[n] = NewEffect(q, outcome)
    BY <1>2 DEF LedgerTypeOK
  <2> QED
    BY <1>2, <2>1 DEF LedgerTypeOK, NewEffect
<1>4. \A p \in Request \ {q} : request'[p] = request[p]
  BY <1>2 DEF LedgerTypeOK
<1>5. request'[q] = IF e \in Launching /\ outcome = "ok" THEN Committed ELSE Free
  BY <1>2 DEF LedgerTypeOK
<1>6. request'[q].at = "committed" =>
        /\ e \in Launching /\ outcome = "ok"
        /\ request'[q].of = n
  BY <1>5 DEF Free
<1>7. \A p \in Request \ {q} :
        request'[p].at = "committed" =>
          /\ request'[p].of \in 1 .. Len(effect)
          /\ effect[request'[p].of].launches = 0
          /\ request'[p].of # n
  BY <1>1, <1>4 DEF Launches, LaunchesPending, LedgerTypeOK
<1>8. LaunchesPending'
  <2> SUFFICES ASSUME NEW r \in Request, request'[r].at = "committed"
               PROVE  /\ request'[r].of \in 1 .. Len(effect')
                      /\ effect'[request'[r].of].launches = 0
                      /\ \A p \in Request \ {r} :
                           request'[p].at = "committed" => request'[p].of # request'[r].of
    BY DEF LaunchesPending
  <2>1. CASE r = q
    BY <1>1, <1>3, <1>6, <1>7, <2>1
  <2>2. CASE r # q
    <3>1. \A p \in Request \ {r, q} :
            request'[p].at = "committed" => request'[p].of # request'[r].of
      BY <1>4, <2>2 DEF Launches, LaunchesPending
    <3> QED
      BY <1>1, <1>3, <1>6, <1>7, <2>2, <3>1
  <2> QED BY <2>1, <2>2
<1>9. \A i \in 1 .. n : effect'[i].launches <= 1
  <2>1. \A i \in 1 .. n : i \in 1 .. Len(effect) \/ i = n
    BY <1>1 DEF LedgerTypeOK
  <2> QED
    BY <1>3, <2>1 DEF Launches, LaunchedOnce
<1>10. project'.active = project.active \/ (project'.active = n /\ e \in Launching /\ outcome = "ok")
  BY <1>1, <1>2 DEF ProjectAfter, LedgerTypeOK, Outcomes, Launching
<1>11. ASSUME project'.active # 0
       PROVE  \/ effect'[project'.active].launches = 1
              \/ \E p \in Request : request'[p].at = "committed" /\ request'[p].of = project'.active
  <2>1. CASE project'.active = n /\ e \in Launching /\ outcome = "ok"
    BY <1>5, <2>1
  <2>2. CASE project'.active = project.active
    <3>1. project.active \in 1 .. Len(effect)
      BY <1>11, <2>2 DEF LedgerTypeOK
    <3>2. CASE effect[project.active].launches = 1
      BY <1>3, <2>2, <3>1, <3>2
    <3>3. ASSUME NEW p \in Request, request[p].at = "committed", request[p].of = project.active
          PROVE  request'[p].at = "committed" /\ request'[p].of = project'.active
      BY <1>1, <1>4, <2>2, <3>3
    <3> QED
      BY <1>11, <2>2, <3>2, <3>3 DEF Launches, LaunchedOnce
  <2> QED BY <1>10, <2>1, <2>2
<1> QED
  BY <1>3, <1>8, <1>9, <1>11 DEF Launches, LaunchedOnce

-----------------------------------------------------------------------------
(* An empty ledger satisfies the inductive invariant.                         *)
LEMMA LedgerInit == Init => LedgerInv
<1> SUFFICES ASSUME Init PROVE LedgerInv
  OBVIOUS
<1> USE LedgerAssumption
<1>1. effect = << >> /\ Len(effect) = 0 /\ project.active = 0
  BY DEF Init
<1>2. LedgerTypeOK
  <2>1. effect \in Seq(Effect)
    BY <1>1
  <2>2. 0 \in 0 .. Len(effect)
    BY <1>1
  <2>3. record \in [Endpoint -> [Key -> [at : Nat, of : 0 .. Len(effect)]]]
    BY <2>2 DEF Init, Absent
  <2>4. project \in [active : 0 .. Len(effect), failed : Nat]
    BY <2>2 DEF Init
  <2>5. request \in [Request -> {Free} \cup Sent \cup Done]
    BY DEF Init
  <2> QED
    BY <2>1, <2>3, <2>4, <2>5 DEF Init, LedgerTypeOK
<1>3. RecordsTrue
  BY DEF Init, RecordsTrue
<1>4. EffectsInOrder /\ SuccessesRecorded /\ EffectsSpaced
  BY <1>1 DEF EffectsInOrder, SuccessesRecorded, EffectsSpaced
<1>5. LaunchesPending /\ LaunchedOnce
  BY <1>1 DEF Init, LaunchesPending, LaunchedOnce, Free
<1> QED
  BY <1>2, <1>3, <1>4, <1>5 DEF LedgerInv

(* Every step of the handlers, the collection, the loops and the clock keeps  *)
(* it, by the lemmas above.                                                   *)
LEMMA LedgerStep ==
  ASSUME LedgerInv, [Next]_vars
  PROVE  LedgerInv'
<1> USE LedgerAssumption
<1>1. LedgerTypeOK /\ LedgerParts /\ Launches /\ LaunchesPending
  BY DEF LedgerInv, LedgerParts, Launches
<1>2. LedgerTypeOK'
  BY <1>1, TypeStep
<1>3. sec \in Nat /\ request \in [Request -> {Free} \cup Sent \cup Done]
  BY <1>1 DEF LedgerTypeOK
<1>4. Free.at = "free"
  BY DEF Free
<1>5. ASSUME UNCHANGED vars PROVE LedgerParts' /\ Launches'
  <2>1. LedgerParts'
    BY <1>1, <1>2, <1>3, <1>5, QuietLedger DEF vars, rows
  <2>2. effect' = effect /\ project' = project /\ request' = request
    BY <1>5 DEF vars, rows
  <2>3. Launches'
    BY <1>1, <2>2, QuietLaunches
  <2> QED BY <2>1, <2>3
<1>6. ASSUME NEW q \in Request, Send(q) \/ Replay(q) \/ Refuse(q) \/ Reply(q)
      PROVE  LedgerParts' /\ Launches'
  <2>1. UNCHANGED <<record, effect, project, sec>>
    BY <1>6 DEF Send, Replay, Refuse, Reply, rows
  <2>2. request[q].at # "committed"
    BY <1>4, <1>6 DEF Send, Replay, Refuse, Reply
  <2>3. \E state : state.at # "committed" /\ request' = [request EXCEPT ![q] = state]
    BY <1>4, <1>6 DEF Send, Replay, Refuse, Reply, Return, Become
  <2>4. \A p \in Request :
          \/ request'[p] = request[p]
          \/ request'[p].at # "committed" /\ request[p].at # "committed"
    BY <1>3, <2>2, <2>3
  <2>5. LedgerParts'
    BY <1>1, <1>2, <1>3, <2>1, QuietLedger
  <2>6. Launches'
    BY <1>1, <2>1, <2>4, QuietLaunches
  <2> QED BY <2>5, <2>6
<1>7. ASSUME NEW q \in Request, Execute(q)
      PROVE  LedgerParts' /\ Launches'
  BY <1>1, <1>2, <1>7, ExecuteExecutes, ExecuteLedger, ExecuteLaunches
<1>8. ASSUME NEW q \in Request, Launch(q)
      PROVE  LedgerParts' /\ Launches'
  BY <1>1, <1>8, LaunchLedger, LaunchLaunches
<1>9. ASSUME GCIdempotency PROVE LedgerParts' /\ Launches'
  <2>1. LedgerParts'
    BY <1>1, <1>9, CollectLedger
  <2>2. effect' = effect /\ project' = project /\ request' = request
    BY <1>9 DEF GCIdempotency
  <2>3. Launches'
    BY <1>1, <2>2, QuietLaunches
  <2> QED BY <2>1, <2>3
<1>10. ASSUME RunEnds PROVE LedgerParts' /\ Launches'
  <2>1. LedgerParts'
    BY <1>1, <1>2, <1>3, <1>10, QuietLedger DEF RunEnds
  <2>2. effect' = effect /\ project'.active = 0 /\ request' = request
    BY <1>10 DEF RunEnds
  <2>3. Launches'
    BY <1>1, <2>2, QuietLaunches
  <2> QED BY <2>1, <2>3
<1>11. ASSUME Restart PROVE LedgerParts' /\ Launches'
  <2>1. LedgerParts'
    BY <1>1, <1>2, <1>3, <1>11, QuietLedger DEF Restart
  <2>2. \A p \in Request : request'[p].at # "committed"
    BY <1>4, <1>11 DEF Restart
  <2>3. effect' = effect /\ project'.active = 0
    BY <1>11 DEF Restart
  <2>4. LaunchesPending'
    BY <2>2 DEF LaunchesPending
  <2>5. LaunchedOnce'
    BY <1>1, <2>3 DEF Launches, LaunchedOnce
  <2> QED BY <2>1, <2>4, <2>5 DEF Launches
<1>12. ASSUME Tick PROVE LedgerParts' /\ Launches'
  <2>1. sec' >= sec
    BY <1>3, <1>12 DEF Tick
  <2>2. LedgerParts'
    BY <1>1, <1>2, <1>12, <2>1, QuietLedger DEF Tick, rows
  <2>3. effect' = effect /\ project' = project /\ request' = request
    BY <1>12 DEF Tick, rows
  <2>4. Launches'
    BY <1>1, <2>3, QuietLaunches
  <2> QED BY <2>2, <2>4
<1>13. LedgerParts' /\ Launches'
  BY <1>5, <1>6, <1>7, <1>8, <1>9, <1>10, <1>11, <1>12 DEF Next
<1> QED
  BY <1>2, <1>13 DEF LedgerInv, LedgerParts, Launches

(* The inductive invariant holds: records tell the truth, and every success   *)
(* within its TTL is on record.                                               *)
THEOREM LedgerInvariant == Spec => []LedgerInv
<1>1. Init => LedgerInv
  BY LedgerInit
<1>2. LedgerInv /\ [Next]_vars => LedgerInv'
  BY LedgerStep
<1> QED
  BY <1>1, <1>2, PTL DEF Spec

(* Every variable has its type.                                               *)
THEOREM LedgerTypes == Spec => []LedgerTypeOK
<1>1. LedgerInv => LedgerTypeOK
  BY DEF LedgerInv
<1> QED
  BY <1>1, LedgerInvariant, PTL

(* At most one success per key and TTL: runIdempotent commits the record with *)
(* the writes it stands for, and GCIdempotency collects only expired records. *)
THEOREM LedgerEffectsSpaced == Spec => []EffectsSpaced
<1>1. LedgerInv => EffectsSpaced
  BY DEF LedgerInv
<1> QED
  BY <1>1, LedgerInvariant, PTL

(* One loop for each run made, whatever is repeated (createRun, retryRun).    *)
THEOREM LedgerLaunchedOnce == Spec => []LaunchedOnce
<1>1. LedgerInv => LaunchedOnce
  BY DEF LedgerInv
<1> QED
  BY <1>1, LedgerInvariant, PTL

-----------------------------------------------------------------------------
(* A record within its TTL survives every step: a commit replaces only an     *)
(* expired one, and the collection's cutoff is the TTL.                       *)
THEOREM LedgerRecordsKept == Spec => RecordsKept
<1> USE LedgerAssumption
<1> DEFINE Keeps == \A e \in Endpoint, k \in Key :
                      WithinTTL(record[e][k]) => record'[e][k] = record[e][k]
<1>1. LedgerInv /\ [Next]_vars => Keeps
  <2> SUFFICES ASSUME LedgerInv, [Next]_vars, NEW e \in Endpoint, NEW k \in Key,
                      WithinTTL(record[e][k])
               PROVE  record'[e][k] = record[e][k]
    OBVIOUS
  <2>1. LedgerTypeOK /\ sec - record[e][k].at < TTL
    BY DEF LedgerInv, WithinTTL
  <2>2. sec \in Nat /\ record[e][k].at \in Nat
    BY <2>1 DEF LedgerTypeOK
  <2>3. CASE UNCHANGED record
    BY <2>3
  <2>4. ASSUME NEW q \in Request, Execute(q)
        PROVE  record'[e][k] = record[e][k]
    <3>1. PICK outcome : Executes(q, outcome)
      BY <2>1, <2>4, ExecuteExecutes
    <3>2. request[q].endpoint \in Endpoint /\ request[q].key \in Key
      BY <2>1, <2>4, SentRequest DEF Execute
    <3>3. request[q].endpoint # e \/ request[q].key # k
      BY <2>4 DEF Execute, Row
    <3> QED
      BY <2>1, <3>1, <3>2, <3>3 DEF Executes, RecordAfter, LedgerTypeOK
  <2>5. CASE GCIdempotency
    <3>1. ~(record[e][k].at < sec - TTL)
      BY <2>1, <2>2
    <3> QED
      BY <2>5, <3>1 DEF GCIdempotency
  <2> QED
    BY <2>3, <2>4, <2>5 DEF Next, Send, Replay, Refuse, Launch, Reply, RunEnds, Restart, Tick,
                            vars, rows
<1>2. Spec => [][Keeps]_vars
  BY <1>1, LedgerInvariant, PTL DEF Spec
<1> QED
  BY <1>2, PTL DEF RecordsKept

(* A replay answers with the newest success of its endpoint and key, within   *)
(* its TTL: the record is the only trace the ledger has of it, and it cannot  *)
(* be older than the last success.                                            *)
LEMMA ReplayNewest ==
  ASSUME LedgerInv, NEW q \in Request, Replay(q)
  PROVE  /\ Newest(request[q].endpoint, request[q].key, request'[q].of)
         /\ sec - effect[request'[q].of].sec < TTL
<1> USE LedgerAssumption
<1> DEFINE e == request[q].endpoint
           k == request[q].key
           row == record[e][k]
           n == row.of
<1>1. LedgerTypeOK /\ LedgerParts
  BY DEF LedgerInv, LedgerParts
<1>2. e \in Endpoint /\ k \in Key
  BY <1>1, SentRequest DEF Replay
<1>3. request'[q].of = n
  BY <1>1 DEF Replay, Return, Become, Row, LedgerTypeOK
<1>4. row # Absent /\ sec - row.at < TTL
  BY DEF Replay, WithinTTL, Row
<1>5. /\ n \in 1 .. Len(effect)
      /\ effect[n].endpoint = e /\ effect[n].key = k
      /\ effect[n].outcome = "ok" /\ effect[n].sec = row.at
  <2>1. RecordsTrue
    BY <1>1 DEF LedgerParts
  <2> HIDE DEF e, k
  <2> QED
    BY <1>2, <1>4, <2>1 DEF RecordsTrue
<1>6. ASSUME NEW i \in n + 1 .. Len(effect), effect[i].endpoint = e, effect[i].key = k,
             effect[i].outcome = "ok"
      PROVE  FALSE
  <2>1. i \in 1 .. Len(effect) /\ n < i /\ i \in Nat /\ n \in Nat
    <3>1. Len(effect) \in Nat
      BY <1>1 DEF LedgerTypeOK
    <3>2. n \in 1 .. Len(effect)
      BY <1>5
    <3> HIDE DEF n
    <3> QED
      BY <1>6, <3>1, <3>2
  <2>2. sec - effect[i].sec >= TTL
    BY <1>1, <1>6, <2>1 DEF LedgerParts, SuccessesRecorded
  <2>3. effect[n].sec <= effect[i].sec
    <3>1. EffectsInOrder
      BY <1>1 DEF LedgerParts
    <3>2. n \in 1 .. Len(effect)
      BY <1>5
    <3> HIDE DEF n
    <3>3. n <= i
      BY <2>1
    <3> QED
      BY <2>1, <3>1, <3>2, <3>3 DEF EffectsInOrder
  <2>4. sec \in Nat /\ effect[n].sec \in Nat /\ effect[i].sec \in Nat
    BY <1>1, <1>5, <2>1, EffectRows DEF LedgerTypeOK
  <2>5. sec - effect[n].sec < TTL
    BY <1>4, <1>5
  <2> HIDE DEF n
  <2> QED
    BY <2>2, <2>3, <2>4, <2>5
<1> QED
  BY <1>3, <1>4, <1>5, <1>6 DEF Newest

(* What is replayed is the newest success under the key, never an error and   *)
(* never anything older (runIdempotent's hit).                                *)
THEOREM LedgerReplayIsOriginal == Spec => ReplayIsOriginal
<1> DEFINE Original == \A q \in Request :
                         request[q].at = "sent" /\ request'[q].at = "replayed"
                         => /\ Newest(request[q].endpoint, request[q].key, request'[q].of)
                            /\ sec - effect[request'[q].of].sec < TTL
<1>1. LedgerInv /\ [Next]_vars => Original
  <2> SUFFICES ASSUME LedgerInv, [Next]_vars, NEW q \in Request,
                      request[q].at = "sent", request'[q].at = "replayed"
               PROVE  Replay(q)
    BY ReplayNewest
  <2>1. LedgerTypeOK
    BY DEF LedgerInv
  <2>2. request \in [Request -> {Free} \cup Sent \cup Done] /\ Free.at = "free"
    BY <2>1 DEF LedgerTypeOK, Free
  <2>3. ASSUME NEW p \in Request,
               Send(p) \/ Refuse(p) \/ Execute(p) \/ Launch(p) \/ Reply(p)
        PROVE  FALSE
    <3>1. PICK state : state.at # "replayed" /\ request' = [request EXCEPT ![p] = state]
      BY <2>2, <2>3 DEF Send, Refuse, Execute, Launch, Reply, Return, Become
    <3> QED
      BY <2>2, <3>1
  <2>4. ASSUME NEW p \in Request, Replay(p)
        PROVE  Replay(q)
    <3>1. \E state : request' = [request EXCEPT ![p] = state]
      BY <2>4 DEF Replay, Return, Become
    <3>2. p = q
      BY <2>2, <3>1
    <3> QED
      BY <2>4, <3>2
  <2>5. request' # request
    OBVIOUS
  <2>6. ~Restart
    BY <2>2 DEF Restart
  <2> QED
    BY <2>3, <2>4, <2>5, <2>6 DEF Next, GCIdempotency, RunEnds, Tick, vars
<1>2. Spec => [][Original]_vars
  BY <1>1, LedgerInvariant, PTL DEF Spec
<1> QED
  BY <1>2, PTL DEF ReplayIsOriginal
=============================================================================
