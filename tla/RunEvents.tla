------------------------------ MODULE RunEvents ------------------------------
(***************************************************************************)
(* GET /api/runs/:id/events (internal/api/agent_handlers.go) next to the   *)
(* loops that write the log: one client per run, which the handler serves  *)
(* with two queries per round - the log, then the run.  Positions in the   *)
(* log count its terminal events; the others are delivered between them    *)
(* and end no stream.  The client is the browser's EventSource: it comes   *)
(* back with its Last-Event-ID until it is told that the run completed.    *)
(***************************************************************************)
EXTENDS AgentLoop, SequencesExt

VARIABLE conn  \* run -> [pc, last, got]: where its handler is ("away", "drain",
               \* "check"), Last-Event-ID, and the ends the client was sent,
               \* over all its connections

streamVars == <<loopVars, conn>>

Synthesized == "synthesized"  \* the run_failed of synthesizeTerminal
StreamInit ==
  /\ Init
  /\ conn = [r \in Run |-> [pc |-> "away", last |-> 0, got |-> << >>]]

Told(r, end) == Contains(conn[r].got, end)
ConnAt(r, pc) == up /\ conn[r].pc = pc
Serve(r, c)  == conn' = [conn EXCEPT ![r] = c] /\ UNCHANGED loopVars

(* Variants with a defect: the header is lost; only live runs are streamed. *)
ConnectFromStart(r) ==
  /\ ConnAt(r, "away") /\ RunExists(r)
  /\ ~Told(r, "run_completed")
  /\ Serve(r, [conn[r] EXCEPT !.pc = "drain", !.last = 0])
ConnectActive(r) ==
  /\ ConnAt(r, "away") /\ Active(r)
  /\ ~Told(r, "run_completed")
  /\ Serve(r, [conn[r] EXCEPT !.pc = "drain"])

(* a connection, or the reconnection of an EventSource *)
Connect(r) ==
  /\ ConnAt(r, "away") /\ RunExists(r)
  /\ ~Told(r, "run_completed")
  /\ Serve(r, [conn[r] EXCEPT !.pc = "drain"])

ListEvents(r, after) == SubSeq(ended[r], after + 1, Len(ended[r]))

(* ListEvents: everything after Last-Event-ID; a terminal event ends it *)
Drain(r) ==
  LET new == ListEvents(r, conn[r].last) IN
  /\ ConnAt(r, "drain")
  /\ Serve(r, [pc   |-> IF new = << >> THEN "check" ELSE "away",
               last |-> Len(ended[r]),
               got  |-> conn[r].got \o new])

(* GetRun: a run that is over by now ends the stream as well *)
Check(r) ==
  /\ ConnAt(r, "check")
  /\ \/ run[r].status \in {"failed", "interrupted"}
        /\ Serve(r, [conn[r] EXCEPT !.pc = "away", !.got = Append(@, Synthesized)])
     \/ run[r].status = "succeeded"
        /\ Serve(r, [conn[r] EXCEPT !.pc = "away"])
     \/ Active(r)
        /\ Serve(r, [conn[r] EXCEPT !.pc = "drain"])

(* the client, the network or the handler gives up *)
Disconnect(r) ==
  /\ conn[r].pc # "away"
  /\ Serve(r, [conn[r] EXCEPT !.pc = "away"])

(* connections do not outlive the server *)
Elsewhere ==
  /\ Next
  /\ conn' = IF up' THEN conn
             ELSE [r \in Run |-> [conn[r] EXCEPT !.pc = "away"]]

(* bound for TLC on the synthesized ends, of which each connection can get one *)
StreamBound == \A r \in Run : Len(conn[r].got) < MaxTerminals

StreamNext ==
  \/ Elsewhere
  \/ \E r \in Run :
       \/ Drain(r) \/ Check(r) \/ Disconnect(r)
       \/ StreamBound /\ Connect(r)

StreamSpec == StreamInit /\ [][StreamNext]_streamVars

(* The handler runs while its connection is open.  Connections may break at  *)
(* any time, so the browser's retries count only as strong fairness: of the  *)
(* connections it keeps opening some last for one round.                     *)
FairStreamSpec ==
  /\ StreamSpec
  /\ LoopFairness
  /\ \A r \in Run : /\ SF_streamVars(Connect(r))
                    /\ SF_streamVars(Drain(r))
                    /\ SF_streamVars(Check(r))

-----------------------------------------------------------------------------
(* Reconnecting neither skips, repeats nor reorders an end ("no dup and no   *)
(* reorder" of runEvents): without the synthesized ones, a client was sent   *)
(* exactly the log up to its Last-Event-ID; at says where in what it got.    *)
Sent(r) == {i \in DOMAIN conn[r].got : conn[r].got[i] # Synthesized}
ReplayExact ==
  \A r \in Run :
    /\ conn[r].last <= Len(ended[r])
    /\ \E at \in [1 .. conn[r].last -> Sent(r)] :
         /\ \A i \in 1 .. conn[r].last : conn[r].got[at[i]] = ended[r][i]
         /\ \A i, j \in 1 .. conn[r].last : i < j => at[i] < at[j]
         /\ \A p \in Sent(r) : \E i \in 1 .. conn[r].last : at[i] = p

(* A logged run_completed reaches the client, although its stream may be     *)
(* closed silently between the promotion and the event, and crashes close    *)
(* all streams: unless the server stays down.                                *)
CompletionArrives ==
  \A r \in Run :
    LogsCompleted(r) ~> (Told(r, "run_completed") \/ ~StreamBound \/ []~up)

-----------------------------------------------------------------------------
(* What makes ReplayExact inductive. *)
ConnRow   == [pc : {"away", "drain", "check"}, last : Nat,
              got : Seq(Terminal \cup {Synthesized})]
StreamInv == OutcomeInv /\ conn \in [Run -> ConnRow] /\ ReplayExact
=============================================================================
