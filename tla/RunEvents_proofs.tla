--------------------------- MODULE RunEvents_proofs ---------------------------
(***************************************************************************)
(* Proofs about the event streams beside the loops, for any number of      *)
(* runs, attempts, versions, text stages, repair rounds and connections.   *)
(***************************************************************************)
EXTENDS RunEvents, AgentLoop_proofs, SequenceTheorems

(* ReplayExact of one connection: c was sent the first ends of a log, at the *)
(* places at of what it got.                                                 *)
SentOf(c) == {i \in DOMAIN c.got : c.got[i] # Synthesized}
ExactAt(c, log, at) ==
  /\ at \in [1 .. c.last -> SentOf(c)]
  /\ \A i \in 1 .. c.last : c.got[at[i]] = log[i]
  /\ \A i, j \in 1 .. c.last : i < j => at[i] < at[j]
  /\ \A p \in SentOf(c) : \E i \in 1 .. c.last : at[i] = p
Exact(c, log) == c.last <= Len(log) /\ \E at : ExactAt(c, log, at)

(* What ReplayExact says of every run, before a step and after it. *)
Replayed(c, log) ==
  /\ c.last <= Len(log)
  /\ \E at \in [1 .. c.last -> SentOf(c)] :
       /\ \A i \in 1 .. c.last : c.got[at[i]] = log[i]
       /\ \A i, j \in 1 .. c.last : i < j => at[i] < at[j]
       /\ \A p \in SentOf(c) : \E i \in 1 .. c.last : at[i] = p

(* The property of one client, by values, is the existence of places. *)
LEMMA ReplayedIs == ASSUME NEW c, NEW log PROVE Replayed(c, log) <=> Exact(c, log)
<1>1. ASSUME Replayed(c, log) PROVE Exact(c, log)
  <2>1. PICK at \in [1 .. c.last -> SentOf(c)] :
          /\ \A i \in 1 .. c.last : c.got[at[i]] = log[i]
          /\ \A i, j \in 1 .. c.last : i < j => at[i] < at[j]
          /\ \A p \in SentOf(c) : \E i \in 1 .. c.last : at[i] = p
    BY <1>1 DEF Replayed
  <2>2. ExactAt(c, log, at)
    BY <2>1 DEF ExactAt
  <2> QED
    BY <1>1, <2>2 DEF Replayed, Exact
<1>2. ASSUME Exact(c, log) PROVE Replayed(c, log)
  <2>1. PICK at : ExactAt(c, log, at)
    BY <1>2 DEF Exact
  <2>2. /\ at \in [1 .. c.last -> SentOf(c)]
        /\ \A i \in 1 .. c.last : c.got[at[i]] = log[i]
        /\ \A i, j \in 1 .. c.last : i < j => at[i] < at[j]
        /\ \A p \in SentOf(c) : \E i \in 1 .. c.last : at[i] = p
    BY <2>1 DEF ExactAt
  <2>3. c.last <= Len(log)
    BY <1>2 DEF Exact
  <2> QED
    BY <2>2, <2>3 DEF Replayed
<1> QED
  BY <1>1, <1>2

(* ReplayExact, before and after a step, client by client. *)
LEMMA ExactIs ==
  /\ ReplayExact <=> \A r \in Run : Exact(conn[r], ended[r])
  /\ ReplayExact' <=> \A r \in Run : Exact(conn'[r], ended'[r])
<1>1. ReplayExact <=> \A r \in Run : Replayed(conn[r], ended[r])
  BY DEF ReplayExact, Replayed, Sent, SentOf
<1>2. ReplayExact' <=> \A r \in Run : Replayed(conn'[r], ended'[r])
  BY DEF ReplayExact, Replayed, Sent, SentOf
<1>3. \A r \in Run : /\ Replayed(conn[r], ended[r]) <=> Exact(conn[r], ended[r])
                     /\ Replayed(conn'[r], ended'[r]) <=> Exact(conn'[r], ended'[r])
  BY ReplayedIs
<1> QED
  BY <1>1, <1>2, <1>3

(* A log that grows leaves what was sent of it as it was. *)
LEMMA ExactAppend ==
  ASSUME NEW c \in ConnRow, NEW log \in Seq(Terminal), NEW type \in Terminal, Exact(c, log)
  PROVE  Exact(c, Append(log, type))
<1>1. PICK at : ExactAt(c, log, at) /\ c.last <= Len(log) /\ c.last \in Nat /\ Len(log) \in Nat
  BY DEF Exact, ConnRow
<1>2. Len(Append(log, type)) = Len(log) + 1
  OBVIOUS
<1>3. \A i \in 1 .. c.last : Append(log, type)[i] = log[i]
  BY <1>1
<1>4. c.last <= Len(Append(log, type))
  BY <1>1, <1>2
<1>5. ExactAt(c, Append(log, type), at)
  BY <1>1, <1>3 DEF ExactAt
<1> QED
  BY <1>4, <1>5 DEF Exact

(* Nothing but what was sent and Last-Event-ID matters. *)
LEMMA ExactSame ==
  ASSUME NEW c, NEW d, NEW log, Exact(c, log), d.got = c.got, d.last = c.last
  PROVE  Exact(d, log)
<1>1. PICK at : ExactAt(c, log, at)
  BY DEF Exact
<1>2. SentOf(d) = SentOf(c)
  BY DEF SentOf
<1>3. ExactAt(d, log, at)
  BY <1>1, <1>2 DEF ExactAt
<1> QED
  BY <1>3 DEF Exact

(* A synthesized end is none of the log's. *)
LEMMA ExactSynthesized ==
  ASSUME NEW c \in ConnRow, NEW d, NEW log, Exact(c, log),
         d.got = Append(c.got, Synthesized), d.last = c.last
  PROVE  Exact(d, log)
<1>1. c.got \in Seq(Terminal \cup {Synthesized}) /\ Len(c.got) \in Nat
  BY DEF ConnRow
<1>2. /\ \A i \in DOMAIN c.got : d.got[i] = c.got[i]
      /\ DOMAIN d.got = (DOMAIN c.got) \cup {Len(c.got) + 1}
      /\ d.got[Len(c.got) + 1] = Synthesized
  BY <1>1
<1>3. SentOf(d) = SentOf(c)
  BY <1>2 DEF SentOf
<1>4. PICK at : ExactAt(c, log, at)
  BY DEF Exact
<1>5. \A i \in 1 .. c.last : d.got[at[i]] = c.got[at[i]]
  BY <1>2, <1>4 DEF ExactAt, SentOf
<1>6. ExactAt(d, log, at)
  BY <1>3, <1>4, <1>5 DEF ExactAt
<1> QED
  BY <1>6 DEF Exact

(* What follows the first k ends of a log. *)
LEMMA RestIs ==
  ASSUME NEW log \in Seq(Terminal), NEW k \in Nat, NEW e \in Nat, Len(log) = k + e
  PROVE  /\ SubSeq(log, k + 1, Len(log)) \in Seq(Terminal)
         /\ Len(SubSeq(log, k + 1, Len(log))) = e
         /\ \A i \in 1 .. e : SubSeq(log, k + 1, Len(log))[i] = log[k + i]
<1> DEFINE rest == SubSeq(log, k + 1, k + e)
<1>1. ASSUME NEW i \in k + 1 .. k + e PROVE log[i] \in Terminal
  <2>1. i \in 1 .. Len(log)
    OBVIOUS
  <2> QED
    BY <2>1, ElementOfSeq
<1>2. /\ rest \in Seq(Terminal)
      /\ Len(rest) = IF k + 1 <= k + e THEN k + e - (k + 1) + 1 ELSE 0
      /\ \A i \in 1 .. k + e - (k + 1) + 1 : rest[i] = log[k + 1 + i - 1]
  <2> DEFINE lo == k + 1
             hi == k + e
  <2>1. lo \in Int /\ hi \in Int /\ \A i \in lo .. hi : log[i] \in Terminal
    BY <1>1
  <2> HIDE DEF lo, hi
  <2>2. /\ SubSeq(log, lo, hi) \in Seq(Terminal)
        /\ Len(SubSeq(log, lo, hi)) = IF lo <= hi THEN hi - lo + 1 ELSE 0
        /\ \A i \in 1 .. hi - lo + 1 : SubSeq(log, lo, hi)[i] = log[lo + i - 1]
    BY <2>1, SubSeqProperties
  <2> QED
    BY <2>2 DEF lo, hi
<1>3. rest = SubSeq(log, k + 1, Len(log))
  OBVIOUS
<1> HIDE DEF rest
<1>4. k + e - (k + 1) + 1 = e /\ \A i \in 1 .. e : k + 1 + i - 1 = k + i
  OBVIOUS
<1>5. Len(rest) = e
  BY <1>2, <1>4
<1>6. \A i \in 1 .. e : rest[i] = log[k + i]
  BY <1>2, <1>4
<1> QED
  BY <1>2, <1>3, <1>5, <1>6

(* Two sequences joined. *)
LEMMA JoinedIs ==
  ASSUME NEW got \in Seq(Terminal \cup {Synthesized}),
         NEW rest \in Seq(Terminal \cup {Synthesized}),
         NEW g \in Nat, g = Len(got), NEW e \in Nat, e = Len(rest)
  PROVE  /\ got \o rest \in Seq(Terminal \cup {Synthesized})
         /\ DOMAIN (got \o rest) = 1 .. g + e
         /\ \A i \in 1 .. g : (got \o rest)[i] = got[i]
         /\ \A i \in 1 .. e : (got \o rest)[g + i] = rest[i]
<1> DEFINE both == got \o rest
<1>1. /\ both \in Seq(Terminal \cup {Synthesized})
      /\ Len(both) = g + e
      /\ \A i \in 1 .. g + e : both[i] = IF i <= g THEN got[i] ELSE rest[i - g]
  BY ConcatProperties
<1> HIDE DEF both
<1>2. DOMAIN both = 1 .. g + e
  BY <1>1, LenProperties
<1>3. \A i \in 1 .. g : i \in 1 .. g + e /\ i <= g
  OBVIOUS
<1>4. \A i \in 1 .. e : g + i \in 1 .. g + e /\ ~(g + i <= g) /\ (g + i) - g = i
  OBVIOUS
<1> QED
  BY <1>1, <1>2, <1>3, <1>4 DEF both

(* d was sent what c was, and after those g events the e last ends of the log. *)
Joined(c, d, log, k, e, g) ==
  /\ c.last = k /\ d.last = k + e /\ Len(log) = k + e
  /\ DOMAIN c.got = 1 .. g /\ DOMAIN d.got = 1 .. g + e
  /\ \A i \in 1 .. g : d.got[i] = c.got[i]
  /\ \A i \in 1 .. e : d.got[g + i] = log[k + i] /\ log[k + i] # Synthesized

(* What was sent, and the rest of the log after it, is the log. *)
LEMMA ExactJoined ==
  ASSUME NEW c, NEW d, NEW log, NEW k \in Nat, NEW e \in Nat, NEW g \in Nat,
         Exact(c, log), Joined(c, d, log, k, e, g)
  PROVE  Exact(d, log)
<1>0. /\ c.last = k /\ d.last = k + e /\ Len(log) = k + e
      /\ DOMAIN c.got = 1 .. g /\ DOMAIN d.got = 1 .. g + e
      /\ \A i \in 1 .. g : d.got[i] = c.got[i]
      /\ \A i \in 1 .. e : d.got[g + i] = log[k + i] /\ log[k + i] # Synthesized
  BY DEF Joined
<1>1. PICK at : ExactAt(c, log, at)
  BY DEF Exact
<1>2. /\ \A i \in 1 .. k : at[i] \in 1 .. g /\ c.got[at[i]] # Synthesized /\ c.got[at[i]] = log[i]
      /\ \A i, j \in 1 .. k : i < j => at[i] < at[j]
      /\ \A p \in SentOf(c) : \E i \in 1 .. k : at[i] = p
  BY <1>0, <1>1 DEF ExactAt, SentOf
<1>3. PICK m \in Nat : m = k + e
  OBVIOUS
<1> DEFINE on == [i \in 1 .. m |-> IF i <= k THEN at[i] ELSE g + (i - k)]
<1>4. ASSUME NEW i \in 1 .. m
      PROVE  \/ i \in 1 .. k /\ on[i] = at[i]
             \/ \E h \in 1 .. e : i = k + h /\ on[i] = g + h
  <2>1. CASE i <= k
    BY <2>1
  <2>2. CASE ~(i <= k)
    <3>1. i - k \in 1 .. e /\ i = k + (i - k)
      BY <1>3, <2>2
    <3>2. on[i] = g + (i - k)
      BY <2>2
    <3> QED
      BY <3>1, <3>2
  <2> QED
    BY <2>1, <2>2
<1>5. /\ \A i \in 1 .. k : i \in 1 .. m /\ on[i] = at[i]
      /\ \A h \in 1 .. e : k + h \in 1 .. m /\ on[k + h] = g + h
  <2>1. \A i \in 1 .. k : i \in 1 .. m /\ i <= k
    BY <1>3
  <2>2. \A h \in 1 .. e : k + h \in 1 .. m /\ ~(k + h <= k) /\ (k + h) - k = h
    BY <1>3
  <2> QED
    BY <2>1, <2>2
<1> HIDE DEF on
<1>6. ASSUME NEW i \in 1 .. m PROVE on[i] \in SentOf(d) /\ d.got[on[i]] = log[i]
  <2>1. CASE i \in 1 .. k /\ on[i] = at[i]
    <3>1. PICK a \in 1 .. g : a = at[i]
      BY <1>2, <2>1
    <3>2. a \in 1 .. g + e
      OBVIOUS
    <3> QED
      BY <1>0, <1>2, <2>1, <3>1, <3>2 DEF SentOf
  <2>2. ASSUME NEW h \in 1 .. e, i = k + h, on[i] = g + h
        PROVE  on[i] \in SentOf(d) /\ d.got[on[i]] = log[i]
    <3>1. g + h \in 1 .. g + e
      OBVIOUS
    <3> QED
      BY <1>0, <2>2, <3>1 DEF SentOf
  <2> QED
    BY <1>4, <2>1, <2>2
<1>7. ASSUME NEW i \in 1 .. m, NEW j \in 1 .. m, i < j PROVE on[i] < on[j]
  <2>1. CASE i \in 1 .. k /\ j \in 1 .. k /\ on[i] = at[i] /\ on[j] = at[j]
    BY <1>2, <1>7, <2>1
  <2>2. ASSUME NEW h \in 1 .. e, j = k + h, on[j] = g + h PROVE on[i] < on[j]
    <3>1. CASE i \in 1 .. k /\ on[i] = at[i]
      <4>1. PICK a \in 1 .. g : a = at[i]
        BY <1>2, <3>1
      <4>2. a < g + h
        OBVIOUS
      <4> QED
        BY <2>2, <3>1, <4>1, <4>2
    <3>2. ASSUME NEW f \in 1 .. e, i = k + f, on[i] = g + f PROVE on[i] < on[j]
      <4>1. g + f < g + h
        BY <1>7, <2>2, <3>2
      <4> QED
        BY <2>2, <3>2, <4>1
    <3> QED
      BY <1>4, <3>1, <3>2
  <2>3. ASSUME NEW f \in 1 .. e, i = k + f, j \in 1 .. k PROVE FALSE
    BY <1>7, <2>3
  <2> QED
    BY <1>4, <2>1, <2>2, <2>3
<1>8. ASSUME NEW p \in SentOf(d) PROVE \E i \in 1 .. m : on[i] = p
  <2>1. p \in 1 .. g + e /\ d.got[p] # Synthesized
    BY <1>0 DEF SentOf
  <2>2. CASE p \in 1 .. g
    <3>1. p \in SentOf(c)
      BY <1>0, <2>1, <2>2 DEF SentOf
    <3>2. PICK i \in 1 .. k : at[i] = p
      BY <1>2, <3>1
    <3> QED
      BY <1>5, <3>2
  <2>3. CASE p \notin 1 .. g
    <3>1. p - g \in 1 .. e /\ g + (p - g) = p
      BY <2>1, <2>3
    <3>2. PICK h \in 1 .. e : g + h = p
      BY <3>1
    <3> QED
      BY <1>5, <3>2
  <2> QED
    BY <2>2, <2>3
<1>9. on \in [1 .. m -> SentOf(d)]
  BY <1>6 DEF on
<1>10. ExactAt(d, log, on)
  BY <1>0, <1>3, <1>6, <1>7, <1>8, <1>9 DEF ExactAt
<1>11. d.last <= Len(log)
  BY <1>0
<1> QED
  BY <1>10, <1>11 DEF Exact

(* Listing what comes after Last-Event-ID sends the rest of the log. *)
LEMMA ExactDrain ==
  ASSUME NEW c \in ConnRow, NEW log \in Seq(Terminal), Exact(c, log),
         NEW d, d.last = Len(log), d.got = c.got \o SubSeq(log, c.last + 1, Len(log))
  PROVE  Exact(d, log) /\ d.got \in Seq(Terminal \cup {Synthesized})
<1>1. /\ c.last \in Nat /\ Len(log) \in Nat /\ c.last <= Len(log)
      /\ c.got \in Seq(Terminal \cup {Synthesized})
  BY DEF Exact, ConnRow
<1>2. PICK k \in Nat, e \in Nat : k = c.last /\ Len(log) = k + e
  <2>1. Len(log) - c.last \in Nat /\ Len(log) = c.last + (Len(log) - c.last)
    BY <1>1
  <2> QED
    BY <1>1, <2>1
<1>3. PICK g \in Nat : g = Len(c.got)
  BY <1>1, LenProperties
<1> DEFINE rest == SubSeq(log, k + 1, Len(log))
<1>4. rest \in Seq(Terminal) /\ Len(rest) = e /\ \A i \in 1 .. e : rest[i] = log[k + i]
  <2>1. Len(log) = k + e
    BY <1>2
  <2>2. /\ SubSeq(log, k + 1, Len(log)) \in Seq(Terminal)
        /\ Len(SubSeq(log, k + 1, Len(log))) = e
        /\ \A i \in 1 .. e : SubSeq(log, k + 1, Len(log))[i] = log[k + i]
    BY <2>1, RestIs, Zenon
  <2> QED
    BY <2>2
<1>5. d.got = c.got \o rest
  BY <1>2
<1> HIDE DEF rest
<1>6. rest \in Seq(Terminal \cup {Synthesized}) /\ DOMAIN c.got = 1 .. g
  BY <1>1, <1>3, <1>4, LenProperties, SeqMonotonic
<1>7. /\ c.got \o rest \in Seq(Terminal \cup {Synthesized})
      /\ DOMAIN (c.got \o rest) = 1 .. g + e
      /\ \A i \in 1 .. g : (c.got \o rest)[i] = c.got[i]
      /\ \A i \in 1 .. e : (c.got \o rest)[g + i] = rest[i]
  <2>1. c.got \in Seq(Terminal \cup {Synthesized}) /\ e = Len(rest)
    BY <1>1, <1>4
  <2> QED
    BY <1>3, <1>6, <2>1, JoinedIs
<1>8. \A i \in 1 .. e : rest[i] \in Terminal
  BY <1>4, ElementOfSeq
<1>9. \A i \in 1 .. e : rest[i] = log[k + i] /\ log[k + i] # Synthesized
  BY <1>4, <1>8 DEF Synthesized, Terminal
<1>10. /\ d.got \in Seq(Terminal \cup {Synthesized}) /\ DOMAIN d.got = 1 .. g + e
       /\ \A i \in 1 .. g : d.got[i] = c.got[i]
       /\ \A i \in 1 .. e : d.got[g + i] = log[k + i] /\ log[k + i] # Synthesized
  BY <1>5, <1>7, <1>9
<1> QED
  <2>1. Joined(c, d, log, k, e, g)
    BY <1>2, <1>6, <1>10 DEF Joined
  <2>2. Exact(d, log)
    BY <2>1, ExactJoined, Zenon
  <2> QED
    BY <1>10, <2>2

-----------------------------------------------------------------------------
(* What StreamInv says, run by run. *)
LEMMA AtStream ==
  ASSUME StreamInv
  PROVE  /\ OutcomeInv /\ conn \in [Run -> ConnRow] /\ ended \in [Run -> Seq(Terminal)]
         /\ \A r \in Run : Exact(conn[r], ended[r])
BY ExactIs DEF StreamInv, OutcomeInv, LoopInv, StoreInv, TypeOK

(* The handler of a run's stream moves its own connection alone. *)
LEMMA ServeMoves ==
  ASSUME StreamInv, NEW r \in Run, NEW d \in ConnRow, Serve(r, d), Exact(d, ended[r])
  PROVE  StreamInv'
<1>1. OutcomeInv' /\ UNCHANGED ended
  BY OutcomeInvStutter DEF StreamInv, Serve, loopVars, storeVars
<1>2. conn' \in [Run -> ConnRow] /\ \A q \in Run : conn'[q] = IF q = r THEN d ELSE conn[q]
  BY DEF StreamInv, Serve
<1>3. \A q \in Run : Exact(conn'[q], ended'[q])
  BY <1>1, <1>2, AtStream
<1> QED
  BY <1>1, <1>2, <1>3, ExactIs DEF StreamInv

(* A connection that only goes on, or away. *)
LEMMA ServeGoes ==
  ASSUME StreamInv, NEW r \in Run, NEW pc \in {"away", "drain", "check"},
         Serve(r, [conn[r] EXCEPT !.pc = pc])
  PROVE  StreamInv'
<1>1. PICK c \in ConnRow : c = conn[r] /\ Exact(c, ended[r])
  BY AtStream
<1>2. PICK d \in ConnRow : d = [c EXCEPT !.pc = pc]
  BY DEF ConnRow
<1>3. d.got = c.got /\ d.last = c.last
  BY <1>2 DEF ConnRow
<1>4. Exact(d, ended[r])
  BY <1>1, <1>3, ExactSame
<1> QED
  BY <1>1, <1>2, <1>4, ServeMoves

(* Sending the rest of the log extends the places by those of what was sent. *)
LEMMA DrainKeeps == ASSUME StreamInv, NEW r \in Run, Drain(r) PROVE StreamInv'
<1>1. PICK c \in ConnRow, log \in Seq(Terminal) :
        c = conn[r] /\ log = ended[r] /\ Exact(c, log)
  BY AtStream
<1>2. PICK pc \in {"away", "drain", "check"} :
        Serve(r, [pc |-> pc, last |-> Len(log),
                  got |-> c.got \o SubSeq(log, c.last + 1, Len(log))])
  BY <1>1 DEF Drain, ListEvents
<1> DEFINE d == [pc |-> pc, last |-> Len(log),
                 got |-> c.got \o SubSeq(log, c.last + 1, Len(log))]
<1>3. d.last = Len(log) /\ d.got = c.got \o SubSeq(log, c.last + 1, Len(log))
  OBVIOUS
<1>4. Exact(d, log) /\ d.got \in Seq(Terminal \cup {Synthesized})
  BY <1>1, <1>3, ExactDrain
<1>5. Len(log) \in Nat
  OBVIOUS
<1>6. d \in ConnRow
  BY <1>4, <1>5 DEF ConnRow
<1>7. Serve(r, d)
  BY <1>2
<1> HIDE DEF d
<1> QED
  BY <1>1, <1>4, <1>6, <1>7, ServeMoves

(* A synthesized end, or a clean one, moves no place. *)
LEMMA CheckKeeps == ASSUME StreamInv, NEW r \in Run, Check(r) PROVE StreamInv'
<1>1. PICK c \in ConnRow : c = conn[r] /\ Exact(c, ended[r])
  BY AtStream
<1>2. ASSUME Serve(r, [conn[r] EXCEPT !.pc = "away", !.got = Append(@, Synthesized)])
      PROVE  StreamInv'
  <2>1. PICK g \in Seq(Terminal \cup {Synthesized}) : g = Append(c.got, Synthesized)
    BY AppendProperties DEF ConnRow
  <2>2. PICK d \in ConnRow : d = [c EXCEPT !.pc = "away", !.got = g]
    BY DEF ConnRow
  <2>3. d.got = Append(c.got, Synthesized) /\ d.last = c.last
    BY <2>1, <2>2 DEF ConnRow
  <2>4. Exact(d, ended[r])
    BY <1>1, <2>3, ExactSynthesized
  <2>5. Serve(r, d)
    BY <1>1, <1>2, <2>1, <2>2 DEF ConnRow
  <2> QED
    BY <2>4, <2>5, ServeMoves
<1> QED
  BY <1>2, ServeGoes DEF Check

(* The loops and the handlers beside the streams: an end is only appended. *)
LEMMA StreamElsewhere ==
  ASSUME StreamInv, AnyStep,
         conn' = IF up' THEN conn ELSE [r \in Run |-> [conn[r] EXCEPT !.pc = "away"]]
  PROVE  StreamInv'
<1>1. /\ OutcomeInv'
      /\ ended' = ended \/ \E r \in Run, n \in Attempt : EndsAttempt(r, n)
  BY OutcomeInvNext, NextWrites DEF StreamInv
<1>2. ASSUME NEW r \in Run
      PROVE  /\ conn'[r] \in ConnRow
             /\ conn'[r].got = conn[r].got /\ conn'[r].last = conn[r].last
  <2>1. PICK c \in ConnRow : c = conn[r]
    BY AtStream
  <2>2. conn'[r] \in {c, [c EXCEPT !.pc = "away"]}
    BY <2>1
  <2> QED
    BY <2>1, <2>2 DEF ConnRow
<1>3. conn' \in [Run -> ConnRow]
  BY <1>2, AtStream
<1>4. ASSUME NEW r \in Run PROVE Exact(conn[r], ended'[r])
  <2>1. ended'[r] = ended[r] \/ \E type \in Terminal : ended'[r] = Append(ended[r], type)
    BY <1>1, AtStream DEF EndsAttempt
  <2>2. conn[r] \in ConnRow /\ ended[r] \in Seq(Terminal) /\ Exact(conn[r], ended[r])
    BY AtStream
  <2> QED
    BY <2>1, <2>2, ExactAppend
<1>5. \A r \in Run : Exact(conn'[r], ended'[r])
  BY <1>2, <1>4, ExactSame
<1> QED
  BY <1>1, <1>3, <1>5, ExactIs DEF StreamInv

(* Before anything is logged, nothing is sent. *)
LEMMA StreamInvInit == ASSUME StreamInit PROVE StreamInv
<1>1. OutcomeInv /\ ended = [r \in Run |-> << >>]
  BY OutcomeInit DEF StreamInit, Init, StoreInit
<1>2. << >> \in Seq(Terminal \cup {Synthesized})
  OBVIOUS
<1>3. conn \in [Run -> ConnRow]
  BY <1>2 DEF StreamInit, ConnRow
<1>4. ReplayExact
  <2> SUFFICES ASSUME NEW r \in Run PROVE Exact(conn[r], ended[r])
    BY ExactIs
  <2>1. conn[r].last = 0 /\ conn[r].got = << >> /\ ended[r] = << >>
    BY <1>1 DEF StreamInit
  <2>2. SentOf(conn[r]) = {}
    BY <2>1 DEF SentOf
  <2>3. 1 .. 0 = {} /\ 0 <= Len(<< >>)
    OBVIOUS
  <2>4. [i \in {} |-> 0] \in [{} -> {}]
    OBVIOUS
  <2>5. ExactAt(conn[r], ended[r], [i \in {} |-> 0])
    BY <2>1, <2>2, <2>3, <2>4 DEF ExactAt
  <2> QED
    BY <2>1, <2>3, <2>5 DEF Exact
<1> QED
  BY <1>1, <1>3, <1>4 DEF StreamInv

(* The invariant is inductive. *)
LEMMA StreamInvNext == ASSUME StreamInv, StreamNext PROVE StreamInv'
<1>1. ASSUME NEW r \in Run, Connect(r) PROVE StreamInv'
  BY <1>1, ServeGoes DEF Connect
<1>2. ASSUME NEW r \in Run, Disconnect(r) PROVE StreamInv'
  BY <1>2, ServeGoes DEF Disconnect
<1> QED
  BY <1>1, <1>2, DrainKeeps, CheckKeeps, StreamElsewhere, NextIsAnyStep
  DEF StreamNext, Elsewhere

(* ReplayExact, of every client and every schedule of its reconnections: the *)
(* log up to its Last-Event-ID is what it was sent, synthesized ends apart.  *)
THEOREM StreamReplayExact == StreamSpec => []ReplayExact
<1>1. ASSUME StreamInv, UNCHANGED streamVars PROVE StreamInv'
  <2>1. OutcomeInv' /\ UNCHANGED <<ended, conn>>
    BY <1>1, OutcomeInvStutter DEF StreamInv, streamVars, loopVars, storeVars
  <2> QED
    BY <1>1, <2>1, ExactIs DEF StreamInv
<1>2. StreamInv /\ [StreamNext]_streamVars => StreamInv'
  BY <1>1, StreamInvNext
<1>3. StreamInv => ReplayExact
  BY DEF StreamInv
<1> QED
  BY <1>2, <1>3, StreamInvInit, PTL DEF StreamSpec
=============================================================================
