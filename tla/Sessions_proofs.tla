-------------------------- MODULE Sessions_proofs --------------------------
(***************************************************************************)
(* Theorems about Sessions, for any clients, requests, configurations,     *)
(* limits and resolution of the clock.                                     *)
(***************************************************************************)
EXTENDS Sessions, TLAPS

-----------------------------------------------------------------------------
(* Arithmetic of the clock.                                                *)

(* What Unix leaves of a tick. *)
LEMMA UnixBounds ==
  ASSUME NEW t \in Nat
  PROVE  /\ Unix(t) \in Int
         /\ Unix(t) * Fraction <= t /\ t < Unix(t) * Fraction + Fraction
<1> DEFINE F == Fraction
<1>0. F \in Nat \ {0}
  BY SessionsAssumption
<1> HIDE DEF F
<1>1. t \div F \in Int
  BY <1>0, SMT
<1>2. (t \div F) * F <= t
  BY <1>0, SMT
<1>3. t < (t \div F) * F + F
  BY <1>0, SMT
<1> QED
  BY <1>1, <1>2, <1>3 DEF Unix, F

(* Multiplication by Fraction keeps the order. *)
LEMMA SecondsOrdered ==
  ASSUME NEW a \in Int, NEW b \in Int, a < b
  PROVE  a * Fraction + Fraction <= b * Fraction
<1>1. Fraction \in Nat \ {0}
  BY SessionsAssumption
<1>2. PICK d \in Nat : b = a + 1 + d
  <2>1. b - a - 1 \in Nat /\ b = a + 1 + (b - a - 1)
    OBVIOUS
  <2> QED
    BY <2>1
<1>3. b * Fraction = a * Fraction + Fraction + d * Fraction
  BY <1>1, <1>2
<1>4. d * Fraction \in Nat
  BY <1>1
<1>5. a * Fraction \in Int
  BY <1>1
<1> QED
  BY <1>1, <1>3, <1>4, <1>5

(* Whole seconds pass through Unix. *)
LEMMA UnixAfter ==
  ASSUME NEW t \in Nat, NEW s \in Nat
  PROVE  Unix(t + s * Fraction) = Unix(t) + s
<1> DEFINE X == Unix(t + s * Fraction)
           Y == Unix(t)
<1>0. Fraction \in Nat \ {0} /\ s * Fraction \in Nat
  BY SessionsAssumption
<1>1. X \in Int /\ X * Fraction <= t + s * Fraction /\ t + s * Fraction < X * Fraction + Fraction
  BY <1>0, UnixBounds
<1>2. Y \in Int /\ Y * Fraction <= t /\ t < Y * Fraction + Fraction
  BY UnixBounds
<1> HIDE DEF X, Y
<1>3. (Y + s) * Fraction = Y * Fraction + s * Fraction
  BY <1>0, <1>2
<1>4. ~(X < Y + s)
  <2> SUFFICES ASSUME X < Y + s PROVE FALSE
    OBVIOUS
  <2>1. X * Fraction + Fraction <= (Y + s) * Fraction
    BY <1>1, <1>2, SecondsOrdered
  <2> QED
    BY <1>0, <1>1, <1>2, <1>3, <2>1
<1>5. ~(Y + s < X)
  <2> SUFFICES ASSUME Y + s < X PROVE FALSE
    OBVIOUS
  <2>1. (Y + s) * Fraction + Fraction <= X * Fraction
    BY <1>1, <1>2, SecondsOrdered
  <2> QED
    BY <1>0, <1>1, <1>2, <1>3, <2>1
<1>6. X = Y + s
  BY <1>1, <1>2, <1>4, <1>5
<1> QED
  BY <1>6 DEF X, Y

-----------------------------------------------------------------------------
(* Types.                                                                  *)

(* What the goroutine of a request holds. *)
LEMMA RequestHolds ==
  ASSUME SessionsTypeOK, NEW q \in Request
  PROVE  /\ request[q].at = "verify" =>
              /\ request[q].client \in Client /\ request[q].source \in Client \cup Proxy
              /\ request[q].right \in BOOLEAN /\ request[q].now \in Nat
         /\ request[q].at = "lookup" =>
              /\ request[q].session \in Nat /\ request[q].now \in Nat
              /\ request[q].purpose \in {"use", "logout"} /\ request[q].late \in BOOLEAN
         /\ request[q].at \in {"served", "refused", "revoke"} => request[q].session \in Nat
<1>1. request[q] \in AnyRequest
  BY DEF SessionsTypeOK
<1> QED
  BY <1>1 DEF AnyRequest, Idle

(* The header of an untrusted peer changes nothing, a proxy tells the truth. *)
LEMMA SourceIsClient ==
  ASSUME NEW c \in Client, NEW forged, NEW peer \in {c} \cup Proxy
  PROVE  RequestSource(peer, IF peer = c THEN <<forged>> ELSE <<forged, c>>, forged) = c
<1>1. c \notin Proxy /\ c # None
  BY SessionsAssumption
<1>2. CASE peer = c
  BY <1>1, <1>2 DEF RequestSource
<1>3. CASE peer # c
  <2>1. peer \in Proxy
    BY <1>3
  <2>2. <<forged, c>> # << >> /\ Len(<<forged, c>>) = 2 /\ <<forged, c>>[2] = c
    OBVIOUS
  <2> QED
    BY <1>1, <1>3, <2>1, <2>2 DEF RequestSource, FirstAddress
<1> QED
  BY <1>2, <1>3

(* What a login holds once it has read the clock. *)
LEMMA LoginHolds ==
  ASSUME SessionsTypeOK, NEW q \in Request, NEW c \in Client, Login(q, c)
  PROVE  \E right \in BOOLEAN :
           request' = [request EXCEPT ![q] =
             [at |-> "verify", client |-> c, right |-> right, now |-> clock, source |-> c]]
  BY SourceIsClient DEF Login, Become

(* Pruning keeps the types and only forgets. *)
LEMMA PrunedTypes ==
  ASSUME SessionsTypeOK
  PROVE  \A now \in Nat :
         /\ Pruned(now) \in [Client -> [since : Nat, count : Nat]]
         /\ \A c \in Client :
              \/ Pruned(now)[c] = failure[c]
              \/ Pruned(now)[c] = NoFailures /\ now >= failure[c].since + Window
  BY SessionsAssumption DEF SessionsTypeOK, Pruned, NoFailures

-----------------------------------------------------------------------------
(* The limiter.                                                            *)

(* What a step does to the window and the guesses of client c. *)
ClientKept(c) == failure'[c] = failure[c] /\ guesses'[c] = guesses[c]
ClientForgotten(c) ==
  failure'[c] = NoFailures /\ guesses'[c] = guesses[c] /\ clock >= failure[c].since + Window
ClientCleared(c) == failure'[c] = NoFailures /\ guesses'[c] = << >>
ClientOpens(c) ==
  \E now \in Nat :
    /\ now <= clock /\ clock <= now + Stall
    /\ failure[c].count = 0 \/ clock >= failure[c].since + Window
    /\ failure'[c] = [since |-> now, count |-> 1]
    /\ guesses'[c] = Append(guesses[c], [at |-> clock, opens |-> TRUE])
ClientCounts(c) ==
  /\ failure[c].count \in 1..(MaxFailures - 1)
  /\ failure'[c] = [since |-> failure[c].since, count |-> failure[c].count + 1]
  /\ guesses'[c] = Append(guesses[c], [at |-> clock, opens |-> FALSE])
ClientStep(c) ==
  /\ clock' \in Nat /\ clock' >= clock
  /\ ClientKept(c) \/ ClientForgotten(c) \/ ClientCleared(c) \/ ClientOpens(c) \/ ClientCounts(c)

(* verifyLogin does one of these to every client. *)
LEMMA VerifyClients ==
  ASSUME SessionsTypeOK, ClocksRead, NEW q \in Request, Verify(q), NEW c \in Client
  PROVE  ClientStep(c)
<1> DEFINE r == request[q]
           kept == Pruned(r.now)
           opens == kept[r.source].count = 0
           since == IF opens THEN r.now ELSE kept[r.source].since
<1>1. /\ r.at = "verify" /\ r.client \in Client /\ r.source = r.client
      /\ r.now \in Nat /\ r.now <= clock /\ clock <= r.now + Stall
  BY RequestHolds DEF Verify, ClocksRead
<1>2. /\ kept \in [Client -> [since : Nat, count : Nat]]
      /\ \/ kept[c] = failure[c]
         \/ kept[c] = NoFailures /\ r.now >= failure[c].since + Window
  <2>1. r.now \in Nat
    BY <1>1
  <2> DEFINE t == r.now
  <2>2. t \in Nat /\ kept = Pruned(t)
    BY <2>1
  <2> HIDE DEF t, kept
  <2>3. /\ Pruned(t) \in [Client -> [since : Nat, count : Nat]]
        /\ \A d \in Client :
             \/ Pruned(t)[d] = failure[d]
             \/ Pruned(t)[d] = NoFailures /\ t >= failure[d].since + Window
    BY <2>2, PrunedTypes
  <2> QED
    BY <2>2, <2>3 DEF t
<1>3. /\ clock' = clock /\ clock \in Nat
      /\ failure[c] \in [since : Nat, count : Nat]
      /\ guesses \in [Client -> Seq(Guess)]
      /\ Window \in Nat /\ Stall \in Nat /\ MaxFailures \in Nat \ {0}
  BY SessionsAssumption DEF Verify, SessionsTypeOK
<1>4. \/ failure' = kept /\ guesses' = guesses
      \/ /\ failure' = [kept EXCEPT ![r.source] = NoFailures]
         /\ guesses' = [guesses EXCEPT ![r.client] = << >>]
      \/ /\ kept[r.source].count < MaxFailures
         /\ failure' = [kept EXCEPT ![r.source] =
                          [since |-> since, count |-> kept[r.source].count + 1]]
         /\ guesses' = [guesses EXCEPT ![r.client] =
                          Append(@, [at |-> clock, opens |-> opens])]
  BY DEF Verify
<1> HIDE DEF kept
<1>5. CASE failure'[c] = kept[c] /\ guesses'[c] = guesses[c]
  <2>1. CASE kept[c] = failure[c]
    BY <1>3, <1>5, <2>1 DEF ClientStep, ClientKept
  <2>2. CASE kept[c] = NoFailures /\ r.now >= failure[c].since + Window
    <3>1. clock >= failure[c].since + Window
      BY <1>1, <1>3, <2>2
    <3> QED
      BY <1>3, <1>5, <2>2, <3>1 DEF ClientStep, ClientForgotten
  <2> QED
    BY <1>2, <2>1, <2>2
<1>6. CASE c # r.client
  <2>1. failure'[c] = kept[c] /\ guesses'[c] = guesses[c]
    BY <1>1, <1>2, <1>3, <1>4, <1>6
  <2> QED
    BY <1>5, <2>1
<1>7. CASE /\ c = r.client
           /\ failure' = [kept EXCEPT ![r.source] = NoFailures]
           /\ guesses' = [guesses EXCEPT ![r.client] = << >>]
  <2>1. failure'[c] = NoFailures /\ guesses'[c] = << >>
    BY <1>1, <1>2, <1>3, <1>7
  <2> QED
    BY <1>3, <2>1 DEF ClientStep, ClientCleared
<1>8. CASE /\ c = r.client
           /\ kept[r.source].count < MaxFailures
           /\ failure' = [kept EXCEPT ![r.source] =
                            [since |-> since, count |-> kept[r.source].count + 1]]
           /\ guesses' = [guesses EXCEPT ![r.client] =
                            Append(@, [at |-> clock, opens |-> opens])]
  <2>1. /\ failure'[c] = [since |-> since, count |-> kept[c].count + 1]
        /\ guesses'[c] = Append(guesses[c], [at |-> clock, opens |-> opens])
        /\ opens <=> kept[c].count = 0
    BY <1>1, <1>2, <1>3, <1>8
  <2>2. CASE opens
    <3>1. failure[c].count = 0 \/ clock >= failure[c].since + Window
      <4>1. CASE kept[c] = failure[c]
        BY <2>1, <2>2, <4>1
      <4>2. CASE r.now >= failure[c].since + Window
        BY <1>1, <1>3, <4>2
      <4> QED
        BY <1>2, <4>1, <4>2
    <3>2. failure'[c] = [since |-> r.now, count |-> 1]
      BY <2>1, <2>2
    <3>3. guesses'[c] = Append(guesses[c], [at |-> clock, opens |-> TRUE])
      BY <2>1, <2>2
    <3>4. ClientOpens(c)
      BY <1>1, <3>1, <3>2, <3>3 DEF ClientOpens
    <3> QED
      BY <1>3, <3>4 DEF ClientStep
  <2>3. CASE ~opens
    <3>1. kept[c] = failure[c]
      BY <1>2, <2>1, <2>3 DEF NoFailures
    <3>2. failure[c].count \in 1..(MaxFailures - 1)
      BY <1>1, <1>3, <1>8, <2>1, <2>3, <3>1
    <3>3. failure'[c] = [since |-> failure[c].since, count |-> failure[c].count + 1]
      <4>1. since = failure[c].since
        BY <1>1, <1>8, <2>3, <3>1
      <4> QED
        BY <2>1, <3>1, <4>1
    <3>4. guesses'[c] = Append(guesses[c], [at |-> clock, opens |-> FALSE])
      BY <2>1, <2>3
    <3> QED
      BY <1>3, <3>2, <3>3, <3>4 DEF ClientStep, ClientCounts
  <2> QED
    BY <2>2, <2>3
<1>9. CASE failure' = kept /\ guesses' = guesses
  BY <1>5, <1>9
<1> QED
  BY <1>4, <1>6, <1>7, <1>8, <1>9

(* And so does every step. *)
LEMMA EveryClientStep ==
  ASSUME SessionsTypeOK, ClocksRead, [Next]_vars, NEW c \in Client
  PROVE  ClientStep(c)
<1>0. clock \in Nat
  BY DEF SessionsTypeOK
<1>1. CASE UNCHANGED <<clock, failure, guesses>>
  BY <1>0, <1>1 DEF ClientStep, ClientKept
<1>2. ASSUME NEW q \in Request, Verify(q) PROVE ClientStep(c)
  BY <1>2, VerifyClients
<1>3. ASSUME NEW env \in Environment, Start(env) PROVE ClientStep(c)
  BY <1>0, <1>3 DEF Start, ClientStep, ClientCleared
<1>4. CASE Tick
  BY <1>0, <1>4 DEF Tick, ClientStep, ClientKept, memory
<1>5. CASE Stop
  BY <1>1, <1>5 DEF Stop, memory
<1>6. ASSUME NEW q \in Request,
             \/ \E d \in Client : Login(q, d)
             \/ Issue(q)
             \/ \E s \in DOMAIN session : Present(q, s)
             \/ Lookup(q)
             \/ Revoke(q)
      PROVE  UNCHANGED <<clock, failure, guesses>>
  BY <1>6 DEF Login, Issue, Present, Lookup, Revoke, memory
<1>7. CASE UNCHANGED vars
  BY <1>1, <1>7 DEF vars, memory
<1> QED
  BY <1>1, <1>2, <1>3, <1>4, <1>5, <1>6, <1>7 DEF Next

(* A guess that is added comes last and leaves the others in place. *)
GuessAdded(c, opens) ==
  /\ DOMAIN guesses'[c] = DOMAIN guesses[c] \cup {Len(guesses[c]) + 1}
  /\ Len(guesses'[c]) = Len(guesses[c]) + 1
  /\ \A i \in DOMAIN guesses[c] : guesses'[c][i] = guesses[c][i]
  /\ guesses'[c][Len(guesses[c]) + 1] = [at |-> clock, opens |-> opens]
LEMMA Appended ==
  ASSUME SessionsTypeOK, NEW c \in Client, NEW opens \in BOOLEAN,
         guesses'[c] = Append(guesses[c], [at |-> clock, opens |-> opens])
  PROVE  GuessAdded(c, opens)
<1> DEFINE x == [at |-> clock, opens |-> opens]
<1>1. guesses[c] \in Seq(Guess) /\ x \in Guess
  BY DEF SessionsTypeOK, Guess
<1>2. x = [at |-> clock, opens |-> opens]
  OBVIOUS
<1> HIDE DEF x
<1>3. guesses'[c] = Append(guesses[c], x)
  BY <1>2
<1> QED
  BY <1>1, <1>2, <1>3 DEF GuessAdded

(* How the guesses change, whatever the window does. *)
LEMMA GuessesChange ==
  ASSUME SessionsTypeOK, NEW c \in Client, ClientStep(c)
  PROVE  \/ guesses'[c] = guesses[c]
         \/ guesses'[c] = << >>
         \/ GuessAdded(c, TRUE) /\ ClientOpens(c)
         \/ GuessAdded(c, FALSE) /\ ClientCounts(c)
<1>1. ASSUME ClientOpens(c) PROVE GuessAdded(c, TRUE)
  BY <1>1, Appended DEF ClientOpens
<1>2. ASSUME ClientCounts(c) PROVE GuessAdded(c, FALSE)
  BY <1>2, Appended DEF ClientCounts
<1> QED
  BY <1>1, <1>2 DEF ClientStep, ClientKept, ClientForgotten, ClientCleared

(* The types the limiter's lemmas need. *)
LEMMA LimiterTypes ==
  ASSUME SessionsTypeOK, NEW c \in Client
  PROVE  /\ guesses[c] \in Seq(Guess) /\ DOMAIN guesses[c] = 1..Len(guesses[c])
         /\ Len(guesses[c]) \in Nat
         /\ \A i \in DOMAIN guesses[c] :
              guesses[c][i].at \in Nat /\ guesses[c][i].opens \in BOOLEAN
         /\ failure[c].since \in Nat /\ failure[c].count \in Nat
         /\ clock \in Nat
<1>1. guesses[c] \in Seq(Guess) /\ failure[c] \in [since : Nat, count : Nat] /\ clock \in Nat
  BY DEF SessionsTypeOK
<1>2. \A i \in DOMAIN guesses[c] : guesses[c][i] \in Guess
  BY <1>1
<1> QED
  BY <1>1, <1>2 DEF Guess

(* Guesses stay in the order of the clock. *)
LEMMA OrderStep ==
  ASSUME SessionsTypeOK, GuessesInOrder, [Next]_vars, ClocksRead
  PROVE  GuessesInOrder'
<1> SUFFICES ASSUME NEW c \in Client
             PROVE  /\ \A i \in DOMAIN guesses'[c] : guesses'[c][i].at <= clock'
                    /\ \A i, j \in DOMAIN guesses'[c] :
                         i <= j => guesses'[c][i].at <= guesses'[c][j].at
  BY DEF GuessesInOrder
<1>1. ClientStep(c) /\ clock' \in Nat /\ clock' >= clock
  BY EveryClientStep DEF ClientStep
<1>2. /\ \A i \in DOMAIN guesses[c] : guesses[c][i].at <= clock
      /\ \A i, j \in DOMAIN guesses[c] : i <= j => guesses[c][i].at <= guesses[c][j].at
  BY DEF GuessesInOrder
<1>3. CASE guesses'[c] = guesses[c]
  BY <1>1, <1>2, <1>3, LimiterTypes
<1>4. CASE guesses'[c] = << >>
  BY <1>4
<1>5. ASSUME NEW opens \in BOOLEAN, GuessAdded(c, opens)
      PROVE  /\ \A i \in DOMAIN guesses'[c] : guesses'[c][i].at <= clock'
             /\ \A i, j \in DOMAIN guesses'[c] :
                  i <= j => guesses'[c][i].at <= guesses'[c][j].at
  <2>1. PICK m \in Nat :
          /\ DOMAIN guesses'[c] = DOMAIN guesses[c] \cup {m}
          /\ \A i \in DOMAIN guesses[c] : guesses'[c][i] = guesses[c][i] /\ i < m /\ i \in Nat
          /\ guesses'[c][m].at = clock
    <3>1. Len(guesses[c]) \in Nat /\ DOMAIN guesses[c] = 1 .. Len(guesses[c])
      BY LimiterTypes
    <3> QED
      BY <1>5, <3>1 DEF GuessAdded
  <2>2. clock \in Nat /\ \A i \in DOMAIN guesses[c] : guesses[c][i].at \in Nat
    BY LimiterTypes
  <2>3. \A i \in DOMAIN guesses'[c] : guesses'[c][i].at <= clock /\ guesses'[c][i].at \in Nat
    BY <1>2, <2>1, <2>2
  <2>4. \A i, j \in DOMAIN guesses'[c] :
          i <= j => guesses'[c][i].at <= guesses'[c][j].at
    BY <1>2, <2>1, <2>2
  <2> QED
    BY <1>1, <2>2, <2>3, <2>4
<1> QED
  BY <1>1, <1>3, <1>4, <1>5, GuessesChange

(* A window opens only when the one before is over, but for a stall. *)
LEMMA ApartStep ==
  ASSUME SessionsTypeOK, WindowsApart, GuessesInOrder, CountsLastWindow, [Next]_vars, ClocksRead
  PROVE  WindowsApart'
<1> SUFFICES ASSUME NEW c \in Client,
                    NEW i \in DOMAIN guesses'[c], NEW j \in DOMAIN guesses'[c],
                    i < j, guesses'[c][i].opens, guesses'[c][j].opens
             PROVE  guesses'[c][j].at >= guesses'[c][i].at + Window - Stall
  BY DEF WindowsApart
<1>1. ClientStep(c)
  BY EveryClientStep
<1>2. CASE guesses'[c] = guesses[c]
  BY <1>2 DEF WindowsApart
<1>3. CASE guesses'[c] = << >>
  BY <1>3
<1>4. ASSUME NEW opens \in BOOLEAN, GuessAdded(c, opens), j \in DOMAIN guesses[c]
      PROVE  guesses'[c][j].at >= guesses'[c][i].at + Window - Stall
  <2>1. i \in DOMAIN guesses[c]
    BY <1>4, LimiterTypes DEF GuessAdded
  <2> QED
    BY <1>4, <2>1 DEF WindowsApart, GuessAdded
<1>5. ASSUME GuessAdded(c, TRUE), ClientOpens(c), j = Len(guesses[c]) + 1
      PROVE  guesses'[c][j].at >= guesses'[c][i].at + Window - Stall
  <2>1. i \in DOMAIN guesses[c] /\ guesses[c][i].opens
    BY <1>5, LimiterTypes DEF GuessAdded
  <2>2. guesses'[c][j].at = clock /\ guesses'[c][i] = guesses[c][i]
    BY <1>5, <2>1 DEF GuessAdded
  <2>3. CASE failure[c].count = 0
    BY <2>1, <2>2, <2>3 DEF CountsLastWindow
  <2>4. CASE failure[c].count # 0 /\ clock >= failure[c].since + Window
    <3> DEFINE n == Len(guesses[c]) - failure[c].count + 1
    <3>1. /\ n \in DOMAIN guesses[c] /\ guesses[c][n].at <= failure[c].since + Stall
          /\ i <= n
      BY <2>1, <2>4 DEF CountsLastWindow
    <3>2. guesses[c][i].at <= guesses[c][n].at
      BY <2>1, <3>1 DEF GuessesInOrder
    <3>3. /\ guesses[c][i].at \in Nat /\ guesses[c][n].at \in Nat
          /\ failure[c].since \in Nat /\ clock \in Nat
      BY <2>1, <3>1, LimiterTypes
    <3>4. Window \in Nat /\ Stall \in Nat
      BY SessionsAssumption
    <3> HIDE DEF n
    <3>5. clock >= guesses[c][i].at + Window - Stall
      BY <2>4, <3>1, <3>2, <3>3, <3>4
    <3> QED
      BY <2>2, <3>5
  <2> QED
    BY <1>5, <2>3, <2>4 DEF ClientOpens
<1>6. ASSUME GuessAdded(c, FALSE) PROVE j # Len(guesses[c]) + 1
  BY <1>6 DEF GuessAdded
<1>7. ASSUME NEW opens \in BOOLEAN, GuessAdded(c, opens)
      PROVE  j \in DOMAIN guesses[c] \/ j = Len(guesses[c]) + 1
  BY <1>7 DEF GuessAdded
<1> QED
  BY <1>1, <1>2, <1>3, <1>4, <1>5, <1>6, <1>7, GuessesChange

(* A window closes, full or not, before another opens. *)
LEMMA FullStep ==
  ASSUME SessionsTypeOK, WindowsFull, CountsLastWindow, [Next]_vars, ClocksRead
  PROVE  WindowsFull'
<1> SUFFICES ASSUME NEW c \in Client,
                    NEW i \in DOMAIN guesses'[c], NEW j \in DOMAIN guesses'[c],
                    j = i + MaxFailures - 1
             PROVE  \E o \in i..j : guesses'[c][o].opens
  BY DEF WindowsFull
<1>0. MaxFailures \in Nat \ {0}
  BY SessionsAssumption
<1>1. ClientStep(c)
  BY EveryClientStep
<1>2. CASE guesses'[c] = guesses[c]
  BY <1>2 DEF WindowsFull
<1>3. CASE guesses'[c] = << >>
  BY <1>3
<1>9. ASSUME NEW opens \in BOOLEAN, GuessAdded(c, opens)
      PROVE  i \in 1..(Len(guesses[c]) + 1) /\ i \in Nat
  <2>1. DOMAIN guesses[c] = 1..Len(guesses[c]) /\ Len(guesses[c]) \in Nat
    BY LimiterTypes
  <2>2. i \in DOMAIN guesses[c] \/ i = Len(guesses[c]) + 1
    BY <1>9 DEF GuessAdded
  <2> QED
    BY <2>1, <2>2
<1>4. ASSUME NEW opens \in BOOLEAN, GuessAdded(c, opens), j \in DOMAIN guesses[c]
      PROVE  \E o \in i..j : guesses'[c][o].opens
  <2>1. i \in DOMAIN guesses[c] /\ \A o \in i..j : o \in DOMAIN guesses[c]
    BY <1>0, <1>4, LimiterTypes DEF GuessAdded
  <2>2. PICK o \in i..j : guesses[c][o].opens
    BY <1>4, <2>1 DEF WindowsFull
  <2> QED
    BY <1>4, <2>1, <2>2 DEF GuessAdded
<1>5. ASSUME GuessAdded(c, TRUE), j = Len(guesses[c]) + 1
      PROVE  \E o \in i..j : guesses'[c][o].opens
  <2>1. guesses'[c][j].opens
    BY <1>5 DEF GuessAdded
  <2>2. i \in Nat
    BY <1>5, <1>9
  <2>3. j \in i..j
    BY <1>0, <2>2
  <2> QED
    BY <2>1, <2>3
<1>6. ASSUME GuessAdded(c, FALSE), ClientCounts(c), j = Len(guesses[c]) + 1
      PROVE  \E o \in i..j : guesses'[c][o].opens
  <2> DEFINE n == Len(guesses[c]) - failure[c].count + 1
  <2>1. failure[c].count \in 1..(MaxFailures - 1)
    BY <1>6 DEF ClientCounts
  <2>2. n \in DOMAIN guesses[c] /\ guesses[c][n].opens
    BY <1>0, <2>1 DEF CountsLastWindow
  <2>5. i \in Nat /\ Len(guesses[c]) \in Nat /\ failure[c].count \in Nat
    BY <1>6, <1>9, LimiterTypes
  <2>3. n \in i..j
    BY <1>0, <1>6, <2>1, <2>5
  <2> HIDE DEF n
  <2>4. guesses'[c][n].opens
    BY <1>6, <2>2 DEF GuessAdded
  <2> QED
    BY <2>3, <2>4
<1>7. ASSUME NEW opens \in BOOLEAN, GuessAdded(c, opens)
      PROVE  j \in DOMAIN guesses[c] \/ j = Len(guesses[c]) + 1
  BY <1>7 DEF GuessAdded
<1> QED
  BY <1>1, <1>2, <1>3, <1>4, <1>5, <1>6, <1>7, GuessesChange

(* What is counted stays the last window. *)
LEMMA CountStep ==
  ASSUME SessionsTypeOK, CountsLastWindow, GuessesInOrder, [Next]_vars, ClocksRead
  PROVE  CountsLastWindow'
<1> SUFFICES ASSUME NEW c \in Client
    PROVE LET n == Len(guesses'[c]) - failure'[c].count + 1 IN
          IF failure'[c].count = 0
          THEN \A i \in DOMAIN guesses'[c] :
                 guesses'[c][i].opens => clock' >= guesses'[c][i].at + Window - Stall
          ELSE /\ failure'[c].count <= MaxFailures
               /\ n \in DOMAIN guesses'[c] /\ guesses'[c][n].opens
               /\ failure'[c].since <= guesses'[c][n].at
               /\ guesses'[c][n].at <= failure'[c].since + Stall
               /\ \A i \in DOMAIN guesses'[c] : guesses'[c][i].opens => i <= n
  BY DEF CountsLastWindow
<1> DEFINE k == Len(guesses[c]) - failure[c].count + 1
<1>0. /\ MaxFailures \in Nat \ {0} /\ Window \in Nat /\ Stall \in Nat
      /\ clock \in Nat /\ failure[c].since \in Nat /\ failure[c].count \in Nat
      /\ Len(guesses[c]) \in Nat /\ DOMAIN guesses[c] = 1..Len(guesses[c])
      /\ \A i \in DOMAIN guesses[c] : guesses[c][i].at \in Nat
  BY SessionsAssumption, LimiterTypes
<1>1. ClientStep(c) /\ clock' \in Nat /\ clock' >= clock
  BY EveryClientStep DEF ClientStep
<1>2. failure[c].count = 0 =>
        \A i \in DOMAIN guesses[c] :
          guesses[c][i].opens => clock >= guesses[c][i].at + Window - Stall
  BY DEF CountsLastWindow
<1>3. failure[c].count # 0 =>
        /\ failure[c].count <= MaxFailures
        /\ k \in DOMAIN guesses[c] /\ guesses[c][k].opens
        /\ failure[c].since <= guesses[c][k].at
        /\ guesses[c][k].at <= failure[c].since + Stall
        /\ \A i \in DOMAIN guesses[c] : guesses[c][i].opens => i <= k
  BY DEF CountsLastWindow
<1>4. CASE ClientKept(c)
  <2>1. failure'[c] = failure[c] /\ guesses'[c] = guesses[c]
    BY <1>4 DEF ClientKept
  <2>2. ASSUME failure[c].count = 0, NEW i \in DOMAIN guesses[c], guesses[c][i].opens
        PROVE  clock' >= guesses[c][i].at + Window - Stall
    <3>1. clock >= guesses[c][i].at + Window - Stall
      BY <1>2, <2>2
    <3>2. guesses[c][i].at \in Nat /\ Window \in Nat /\ Stall \in Nat /\ clock \in Nat
      BY <1>0
    <3> QED
      BY <1>1, <3>1, <3>2
  <2> HIDE DEF k
  <2>3. CASE failure[c].count = 0
    BY <2>1, <2>2, <2>3
  <2>4. CASE failure[c].count # 0
    BY <1>3, <2>1, <2>4 DEF k
  <2> QED
    BY <2>3, <2>4
<1>5. CASE ClientForgotten(c)
  <2>1. failure'[c].count = 0 /\ guesses'[c] = guesses[c] /\ clock >= failure[c].since + Window
    BY <1>5 DEF ClientForgotten, NoFailures
  <2>2. ASSUME NEW i \in DOMAIN guesses[c], guesses[c][i].opens, failure[c].count # 0
        PROVE  clock >= guesses[c][i].at + Window - Stall
    <3>1. k \in DOMAIN guesses[c] /\ i <= k /\ guesses[c][k].at <= failure[c].since + Stall
      BY <1>3, <2>2
    <3> HIDE DEF k
    <3>2. guesses[c][i].at <= guesses[c][k].at
      BY <3>1 DEF GuessesInOrder
    <3>3. guesses[c][i].at \in Nat /\ guesses[c][k].at \in Nat
      BY <1>0, <3>1
    <3>4. Window \in Nat /\ Stall \in Nat /\ clock \in Nat /\ failure[c].since \in Nat
      BY <1>0
    <3> QED
      BY <2>1, <3>1, <3>2, <3>3, <3>4
  <2>3. \A i \in DOMAIN guesses[c] :
          guesses[c][i].opens => clock' >= guesses[c][i].at + Window - Stall
    BY <1>0, <1>1, <1>2, <2>2
  <2> QED
    BY <2>1, <2>3
<1>6. CASE ClientCleared(c)
  BY <1>6 DEF ClientCleared, NoFailures
<1>7. CASE ClientOpens(c)
  <2> DEFINE m == Len(guesses[c]) + 1
  <2>1. GuessAdded(c, TRUE)
    BY <1>7, Appended DEF ClientOpens
  <2>2. /\ DOMAIN guesses'[c] = DOMAIN guesses[c] \cup {m} /\ Len(guesses'[c]) = m
        /\ guesses'[c][m].opens /\ guesses'[c][m].at = clock
    BY <2>1 DEF GuessAdded
  <2>3. PICK now \in Nat : /\ now <= clock /\ clock <= now + Stall
                           /\ failure'[c] = [since |-> now, count |-> 1]
    BY <1>7 DEF ClientOpens
  <2>4. failure'[c].count = 1 /\ failure'[c].since = now
    BY <2>3
  <2>5. Len(guesses'[c]) - failure'[c].count + 1 = m
    BY <1>0, <2>2, <2>4
  <2>6. \A i \in DOMAIN guesses'[c] : i <= m
    BY <1>0, <2>2
  <2> HIDE DEF m
  <2> QED
    BY <1>0, <2>2, <2>3, <2>4, <2>5, <2>6
<1>8. CASE ClientCounts(c)
  <2>1. GuessAdded(c, FALSE)
    BY <1>8, Appended DEF ClientCounts
  <2>2. /\ failure[c].count \in 1..(MaxFailures - 1)
        /\ failure'[c].count = failure[c].count + 1 /\ failure'[c].since = failure[c].since
    BY <1>8 DEF ClientCounts
  <2>6. Len(guesses'[c]) = Len(guesses[c]) + 1
    BY <2>1 DEF GuessAdded
  <2>7. failure[c].count \in Nat /\ Len(guesses[c]) \in Nat
    BY <1>0
  <2>3. Len(guesses'[c]) - failure'[c].count + 1 = k
    <3>1. \A len, count \in Nat : (len + 1) - (count + 1) + 1 = len - count + 1
      OBVIOUS
    <3>2. (Len(guesses[c]) + 1) - (failure[c].count + 1) + 1 = k
      BY <2>7, <3>1
    <3> QED
      BY <2>2, <2>6, <3>2
  <2>4. /\ k \in DOMAIN guesses[c] /\ guesses[c][k].opens
        /\ failure[c].since <= guesses[c][k].at
        /\ guesses[c][k].at <= failure[c].since + Stall
        /\ \A i \in DOMAIN guesses[c] : guesses[c][i].opens => i <= k
    BY <1>0, <1>3, <2>2
  <2> HIDE DEF k
  <2>5. k \in DOMAIN guesses'[c] /\ guesses'[c][k] = guesses[c][k]
    BY <2>1, <2>4 DEF GuessAdded
  <2>8. \A i \in DOMAIN guesses'[c] : guesses'[c][i].opens => i <= k
    BY <2>1, <2>4 DEF GuessAdded
  <2>9. failure'[c].count # 0 /\ failure'[c].count <= MaxFailures
    BY <1>0, <2>2
  <2> DEFINE n == Len(guesses'[c]) - failure'[c].count + 1
  <2>10. n = k
    BY <2>3
  <2> HIDE DEF n
  <2>11. n \in DOMAIN guesses'[c] /\ guesses'[c][n].opens
         /\ failure'[c].since <= guesses'[c][n].at
         /\ guesses'[c][n].at <= failure'[c].since + Stall
         /\ \A i \in DOMAIN guesses'[c] : guesses'[c][i].opens => i <= n
    BY <2>2, <2>4, <2>5, <2>8, <2>10
  <2> QED
    BY <2>9, <2>11 DEF n
<1> QED
  BY <1>1, <1>4, <1>5, <1>6, <1>7, <1>8 DEF ClientStep

(* The bound follows: of any maxLoginFailures guesses in a row one opens a  *)
(* window, and the next window opens within as many guesses again.          *)
LEMMA SpacedByWindows ==
  ASSUME SessionsTypeOK, GuessesInOrder, WindowsApart, WindowsFull
  PROVE  GuessesSpaced
<1> SUFFICES ASSUME NEW c \in Client, NEW i \in DOMAIN guesses[c], NEW j \in DOMAIN guesses[c],
                    j = i + 2 * MaxFailures - 1
             PROVE  guesses[c][j].at >= guesses[c][i].at + Window - Stall
  BY DEF GuessesSpaced
<1>0. /\ MaxFailures \in Nat \ {0} /\ Window \in Nat /\ Stall \in Nat
      /\ Len(guesses[c]) \in Nat /\ DOMAIN guesses[c] = 1..Len(guesses[c])
      /\ \A k \in DOMAIN guesses[c] : guesses[c][k].at \in Nat
  BY SessionsAssumption, LimiterTypes
<1>1. PICK a \in i..(i + MaxFailures - 1) : guesses[c][a].opens
  <2>1. /\ i \in Nat /\ j \in Nat /\ 1 <= i /\ j <= Len(guesses[c])
        /\ MaxFailures \in Nat /\ 1 <= MaxFailures
    BY <1>0
  <2>2. i + MaxFailures - 1 \in Nat /\ 1 <= i + MaxFailures - 1 /\ i + MaxFailures - 1 <= j
    BY <2>1
  <2>3. i + MaxFailures - 1 \in DOMAIN guesses[c]
    BY <1>0, <2>1, <2>2
  <2> QED
    BY <2>3 DEF WindowsFull
<1>2. PICK b \in (a + 1)..(a + MaxFailures) : guesses[c][b].opens
  <2>1. a + 1 \in DOMAIN guesses[c] /\ a + MaxFailures \in DOMAIN guesses[c]
        /\ a + MaxFailures = (a + 1) + MaxFailures - 1
    <3>1. /\ i \in Nat /\ j \in Nat /\ 1 <= i /\ j <= Len(guesses[c])
          /\ MaxFailures \in Nat /\ 1 <= MaxFailures
      BY <1>0
    <3>2. a \in Nat /\ i <= a /\ a <= i + MaxFailures - 1
      BY <1>1, <3>1
    <3>3. /\ a + 1 \in Nat /\ a + MaxFailures \in Nat
          /\ 1 <= a + 1 /\ a + 1 <= j /\ 1 <= a + MaxFailures /\ a + MaxFailures <= j
          /\ a + MaxFailures = (a + 1) + MaxFailures - 1
      BY <3>1, <3>2
    <3> QED
      BY <1>0, <3>1, <3>3
  <2> QED
    BY <2>1 DEF WindowsFull
<1>3. a \in DOMAIN guesses[c] /\ b \in DOMAIN guesses[c] /\ i <= a /\ a < b /\ b <= j
  <2>1. /\ i \in Nat /\ j \in Nat /\ 1 <= i /\ j <= Len(guesses[c])
        /\ MaxFailures \in Nat /\ 1 <= MaxFailures
    BY <1>0
  <2>2. a \in Nat /\ i <= a /\ a <= i + MaxFailures - 1
    BY <1>1, <2>1
  <2>3. b \in Nat /\ a + 1 <= b /\ b <= a + MaxFailures
    BY <1>2, <2>1, <2>2
  <2>4. 1 <= a /\ a <= j /\ 1 <= b /\ b <= j /\ a < b
    BY <2>1, <2>2, <2>3
  <2> QED
    BY <1>0, <2>1, <2>2, <2>3, <2>4
<1>4. guesses[c][b].at >= guesses[c][a].at + Window - Stall
  BY <1>1, <1>2, <1>3 DEF WindowsApart
<1>5. guesses[c][i].at <= guesses[c][a].at /\ guesses[c][b].at <= guesses[c][j].at
  BY <1>3 DEF GuessesInOrder
<1>6. /\ guesses[c][i].at \in Nat /\ guesses[c][a].at \in Nat
      /\ guesses[c][b].at \in Nat /\ guesses[c][j].at \in Nat
  BY <1>0, <1>3
<1>7. Window \in Nat /\ Stall \in Nat
  BY <1>0
<1> QED
  BY <1>4, <1>5, <1>6, <1>7

-----------------------------------------------------------------------------
(* Requests and sessions.                                                  *)

(* What changes a request. *)
LEMMA RequestChanges ==
  ASSUME SessionsTypeOK, [Next]_vars, NEW q \in Request, request'[q] # request[q]
  PROVE  \/ Stop /\ request'[q] = Idle
         \/ \E c \in Client : Login(q, c)
         \/ Verify(q)
         \/ Issue(q)
         \/ \E s \in DOMAIN session : Present(q, s)
         \/ Lookup(q)
         \/ Revoke(q)
<1>0. request \in [Request -> AnyRequest]
  BY DEF SessionsTypeOK
<1>1. CASE Stop
  BY <1>1 DEF Stop
<1>2. CASE UNCHANGED request
  BY <1>2
<1>3. ASSUME NEW env \in Environment, Start(env) PROVE UNCHANGED request
  BY <1>3 DEF Start
<1>4. CASE Tick
  BY <1>2, <1>4 DEF Tick
<1>5. ASSUME NEW p \in Request, p # q, NEW r, Become(p, r) PROVE request'[q] = request[q]
  BY <1>0, <1>5 DEF Become
<1>6. ASSUME NEW p \in Request, p # q, NEW c \in Client, Login(p, c) PROVE FALSE
  <2>1. \E r : Become(p, r)
    BY <1>6 DEF Login
  <2> QED
    BY <1>5, <1>6, <2>1
<1>7. ASSUME NEW p \in Request, p # q, Verify(p) PROVE FALSE
  <2>1. \E r : Become(p, r)
    BY <1>7 DEF Verify
  <2> QED
    BY <1>5, <1>7, <2>1
<1>8. ASSUME NEW p \in Request, p # q, Issue(p) PROVE FALSE
  BY <1>5, <1>8 DEF Issue
<1>9. ASSUME NEW p \in Request, p # q, NEW s \in DOMAIN session, Present(p, s) PROVE FALSE
  <2>1. \E r : Become(p, r)
    BY <1>9 DEF Present
  <2> QED
    BY <1>5, <1>9, <2>1
<1>10. ASSUME NEW p \in Request, p # q, Lookup(p) PROVE FALSE
  <2>1. \E r : Become(p, r)
    BY <1>10 DEF Lookup
  <2> QED
    BY <1>5, <1>10, <2>1
<1>11. ASSUME NEW p \in Request, p # q, Revoke(p) PROVE FALSE
  BY <1>5, <1>11 DEF Revoke
<1>12. CASE UNCHANGED vars
  BY <1>2, <1>12 DEF vars
<1> QED
  BY <1>1, <1>2, <1>3, <1>4, <1>6, <1>7, <1>8, <1>9, <1>10, <1>11, <1>12 DEF Next

(* Waiting for the rounded-up seconds is waiting long enough. *)
LEMMA RetryAfterCovers ==
  ASSUME NEW t \in Int
  PROVE  RetryAfter(t) \in Int /\ t <= RetryAfter(t) * Fraction
<1> DEFINE F == Fraction
<1>0. F \in Nat \ {0}
  BY SessionsAssumption
<1> HIDE DEF F
<1>1. CASE t <= F
  <2>1. t <= 1 * F
    BY <1>0, <1>1
  <2> QED
    BY <1>1, <2>1 DEF RetryAfter, F
<1>2. CASE ~(t <= F)
  <2> DEFINE u == t + F - 1
  <2>1. u \in Int
    BY <1>0
  <2> HIDE DEF u
  <2>2. u \div F \in Int /\ u < (u \div F) * F + F
    BY <1>0, <2>1, SMT
  <2>3. (u \div F) * F \in Int
    BY <1>0, <2>2
  <2>4. t <= (u \div F) * F
    BY <1>0, <2>1, <2>2, <2>3 DEF u
  <2> QED
    BY <1>2, <2>2, <2>4 DEF RetryAfter, F, u
<1> QED
  BY <1>1, <1>2

(* What a request keeps that the limiter refused. *)
LEMMA LimitedHolds ==
  ASSUME SessionsTypeOK, NEW q \in Request, request[q].at = "limited"
  PROVE  /\ request[q].client \in Client /\ request[q].now \in Nat
         /\ request[q].answered \in Nat /\ request[q].retryAfter \in Int
<1>1. request[q] \in AnyRequest
  BY DEF SessionsTypeOK
<1> QED
  BY <1>1 DEF AnyRequest, Idle

(* The answer of the limiter covers the window it was given for. *)
LEMMA LimitedCovered ==
  ASSUME SessionsTypeOK, ClocksRead, NEW q \in Request, Verify(q), request'[q].at = "limited"
  PROVE  request'[q].answered = clock /\ clock' = clock /\ WaitCovered(q)'
<1> DEFINE c == request[q].client
           t == request[q].now
           r == RetryAfter(failure[c].since + Window - t)
<1>1. /\ c \in Client /\ request[q].source = c /\ t \in Nat
      /\ failure[c].since \in Nat /\ failure[c].count \in Nat
      /\ Window \in Nat /\ MaxFailures \in Nat \ {0}
      /\ request \in [Request -> AnyRequest]
  BY RequestHolds, LimiterTypes, SessionsAssumption DEF Verify, ClocksRead, SessionsTypeOK
<1>2. /\ Pruned(t)[c].count >= MaxFailures /\ failure' = Pruned(t)
      /\ request'[q] = [at |-> "limited", client |-> c, now |-> t, answered |-> clock,
                        retryAfter |-> RetryAfter(Pruned(t)[c].since + Window - t)]
  BY <1>1 DEF Verify, Become, Idle
<1>3. Pruned(t)[c] = failure[c]
  <2> HIDE DEF t, c
  <2>1. Pruned(t)[c] = failure[c] \/ Pruned(t)[c] = NoFailures
    BY <1>1, PrunedTypes
  <2> QED
    BY <1>1, <1>2, <2>1 DEF NoFailures
<1>4. r \in Int /\ failure[c].since + Window - t <= r * Fraction
  BY <1>1, RetryAfterCovers
<1>5. r * Fraction \in Int
  BY <1>4, SessionsAssumption
<1>6. failure[c].since + Window <= t + r * Fraction
  BY <1>1, <1>4, <1>5
<1>7. /\ request'[q].client = c /\ request'[q].now = t /\ request'[q].retryAfter = r
      /\ request'[q].answered = clock /\ failure'[c] = failure[c]
  BY <1>2, <1>3
<1>8. clock' = clock
  BY DEF Verify
<1> HIDE DEF r, t, c
<1> QED
  BY <1>6, <1>7, <1>8 DEF WaitCovered

(* A window that is forgotten, goes on or is opened anew leaves it covered. *)
LEMMA CoverStays ==
  ASSUME SessionsTypeOK, CountsLastWindow, NEW q \in Request, request[q].at = "limited",
         request'[q] = request[q], request[q].answered <= clock, WaitCovered(q),
         ClientStep(request[q].client)
  PROVE  WaitCovered(q)'
<1> DEFINE c == request[q].client
           n == Len(guesses[c]) - failure[c].count + 1
<1>1. /\ c \in Client /\ request[q].answered \in Nat /\ request'[q].client = c
      /\ failure[c].since \in Nat /\ failure[c].count \in Nat /\ clock \in Nat
      /\ Len(guesses[c]) \in Nat
  BY LimitedHolds, LimiterTypes
<1>2. \/ failure[c].count = 0
      \/ guesses[c][n].at >= request[q].answered
      \/ failure[c].since + Window <= request[q].now + request[q].retryAfter * Fraction
  BY DEF WaitCovered
<1>3. CASE ClientKept(c)
  BY <1>3 DEF ClientKept, WaitCovered
<1>4. CASE ClientForgotten(c) \/ ClientCleared(c)
  BY <1>4 DEF ClientForgotten, ClientCleared, NoFailures, WaitCovered
<1>5. CASE ClientOpens(c)
  <2>1. GuessAdded(c, TRUE) /\ failure'[c].count = 1
    <3>1. c \in Client
      BY <1>1
    <3> HIDE DEF c
    <3>2. GuessAdded(c, TRUE)
      BY <1>5, <3>1, Appended DEF ClientOpens
    <3>3. failure'[c].count = 1
      BY <1>5 DEF ClientOpens
    <3> QED
      BY <3>2, <3>3
  <2>2. Len(guesses'[c]) - failure'[c].count + 1 = Len(guesses[c]) + 1
    BY <1>1, <2>1 DEF GuessAdded
  <2>3. guesses'[c][Len(guesses[c]) + 1].at = clock
    BY <2>1 DEF GuessAdded
  <2>4. guesses'[c][Len(guesses'[c]) - failure'[c].count + 1].at >= request'[q].answered
    BY <2>2, <2>3
  <2> QED
    BY <1>1, <2>4 DEF WaitCovered
<1>6. CASE ClientCounts(c)
  <2>1. /\ GuessAdded(c, FALSE) /\ failure[c].count # 0
        /\ failure'[c].count = failure[c].count + 1 /\ failure'[c].since = failure[c].since
    <3>1. c \in Client
      BY <1>1
    <3> HIDE DEF c
    <3>2. GuessAdded(c, FALSE)
      BY <1>6, <3>1, Appended DEF ClientCounts
    <3>3. /\ failure[c].count # 0
          /\ failure'[c].count = failure[c].count + 1 /\ failure'[c].since = failure[c].since
      BY <1>6 DEF ClientCounts
    <3> QED
      BY <3>2, <3>3
  <2>2. Len(guesses'[c]) - failure'[c].count + 1 = n
    <3>1. \A len, count \in Nat : (len + 1) - (count + 1) + 1 = len - count + 1
      OBVIOUS
    <3>2. (Len(guesses[c]) + 1) - (failure[c].count + 1) + 1 = n
      BY <1>1, <3>1
    <3> QED
      BY <2>1, <3>2 DEF GuessAdded
  <2>3. n \in DOMAIN guesses[c]
    BY <1>1, <2>1 DEF CountsLastWindow
  <2> HIDE DEF n
  <2>4. guesses'[c][n] = guesses[c][n]
    BY <2>1, <2>3 DEF GuessAdded
  <2>5. \/ guesses'[c][Len(guesses'[c]) - failure'[c].count + 1].at >= request'[q].answered
        \/ failure'[c].since + Window <= request'[q].now + request'[q].retryAfter * Fraction
    BY <1>2, <2>1, <2>2, <2>4
  <2> QED
    BY <1>1, <2>5 DEF WaitCovered
<1> QED
  BY <1>3, <1>4, <1>5, <1>6 DEF ClientStep

(* Nobody is told to come back too early. *)
LEMMA WaitsStep ==
  ASSUME SessionsTypeOK, ClocksRead, CountsLastWindow, WaitsCovered, [Next]_vars
  PROVE  WaitsCovered'
<1> SUFFICES ASSUME NEW q \in Request, request'[q].at = "limited"
             PROVE  request'[q].answered <= clock' /\ WaitCovered(q)'
  BY DEF WaitsCovered
<1>1. CASE request'[q] = request[q]
  <2>1. /\ request[q].at = "limited" /\ request[q].answered <= clock /\ WaitCovered(q)
        /\ request[q].client \in Client /\ request[q].answered \in Nat
    BY <1>1, LimitedHolds DEF WaitsCovered
  <2>2. ClientStep(request[q].client) /\ clock \in Nat
    BY <2>1, EveryClientStep DEF SessionsTypeOK
  <2>3. request'[q].answered <= clock'
    BY <1>1, <2>1, <2>2 DEF ClientStep
  <2> QED
    BY <1>1, <2>1, <2>2, <2>3, CoverStays
<1>2. CASE Verify(q)
  BY <1>2, LimitedCovered DEF SessionsTypeOK
<1>3. ASSUME request'[q] # request[q] PROVE Verify(q)
  <2>1. request \in [Request -> AnyRequest]
    BY DEF SessionsTypeOK
  <2>2. ASSUME NEW c \in Client, Login(q, c) PROVE FALSE
    BY <2>1, <2>2, LoginHolds
  <2>3. ASSUME Issue(q) \/ Revoke(q) PROVE FALSE
    BY <2>1, <2>3 DEF Issue, Revoke, Become, Idle
  <2>4. ASSUME NEW s \in DOMAIN session, Present(q, s) PROVE FALSE
    BY <2>1, <2>4 DEF Present, Become, Refused, Idle
  <2>5. ASSUME Lookup(q) PROVE FALSE
    BY <2>1, <2>5 DEF Lookup, Become, Refused, Idle
  <2> QED
    BY <1>3, <2>2, <2>3, <2>4, <2>5, RequestChanges DEF Idle
<1> QED
  BY <1>1, <1>2, <1>3

(* What a request becomes is a request. *)
LEMMA RequestTypes ==
  ASSUME SessionsTypeOK, ClocksRead, [Next]_vars
  PROVE  request' \in [Request -> AnyRequest]
<1>0. request \in [Request -> AnyRequest] /\ clock \in Nat
  BY DEF SessionsTypeOK
<1>1. \A q \in Request : request[q] \in AnyRequest
  BY <1>0
<1>2. Idle \in AnyRequest /\ [at |-> "issue"] \in AnyRequest
  BY DEF AnyRequest
<1>3. ASSUME NEW q \in Request, request'[q] # request[q] PROVE request'[q] \in AnyRequest
  <2>1. CASE Stop /\ request'[q] = Idle
    BY <1>2, <2>1
  <2>2. ASSUME NEW c \in Client, Login(q, c) PROVE request'[q] \in AnyRequest
    <3>1. PICK right \in BOOLEAN : request' = [request EXCEPT ![q] =
             [at |-> "verify", client |-> c, right |-> right, now |-> clock, source |-> c]]
      BY <2>2, LoginHolds
    <3>2. request'[q] =
             [at |-> "verify", client |-> c, right |-> right, now |-> clock, source |-> c]
      BY <1>0, <3>1
    <3> QED
      BY <1>0, <3>2 DEF AnyRequest
  <2>3. CASE Verify(q)
    <3> DEFINE k == RetryAfter((IF Pruned(request[q].now)[request[q].source].count = 0
                                THEN request[q].now
                                ELSE Pruned(request[q].now)[request[q].source].since)
                               + Window - request[q].now)
    <3>0. k \in Int
      <4>1. /\ request[q].now \in Nat /\ request[q].source \in Client
        BY <2>3, RequestHolds DEF Verify, ClocksRead
      <4> DEFINE t == request[q].now
                 c == request[q].source
      <4>2. t \in Nat /\ c \in Client
        BY <4>1
      <4> HIDE DEF t, c
      <4>3. Pruned(t)[c].since \in Nat
        BY <4>2, PrunedTypes
      <4>4. Fraction \in Nat \ {0} /\ Window \in Nat
        BY SessionsAssumption
      <4> DEFINE p == Pruned(t)[c]
                 u == (IF p.count = 0 THEN t ELSE p.since) + Window - t
      <4>5. u \in Int
        BY <4>2, <4>3, <4>4
      <4> HIDE DEF u
      <4>6. RetryAfter(u) \in Int
        BY <4>4, <4>5 DEF RetryAfter
      <4> QED
        BY <4>6 DEF u, t, c
    <3> HIDE DEF k
    <3>1. /\ request[q].client \in Client /\ request[q].now \in Nat
      BY <2>3, RequestHolds DEF Verify
    <3>2. \/ request'[q] = [at |-> "limited", client |-> request[q].client,
                            now |-> request[q].now, answered |-> clock, retryAfter |-> k]
          \/ request'[q] = [at |-> "issue"]
          \/ request'[q] = Idle
      BY <1>0, <2>3 DEF Verify, Become, k
    <3> QED
      BY <1>0, <1>2, <3>0, <3>1, <3>2 DEF AnyRequest
  <2>4. CASE Issue(q)
    BY <1>0, <1>2, <2>4 DEF Issue, Become
  <2>5. ASSUME NEW s \in DOMAIN session, Present(q, s) PROVE request'[q] \in AnyRequest
    <3>1. s \in Nat
      BY DEF SessionsTypeOK
    <3> DEFINE late == s \in signedOut
    <3>2. PICK purpose \in {"use", "logout"} :
            \/ request'[q] = [at |-> "lookup", session |-> s, now |-> clock, purpose |-> purpose,
                              late |-> late]
            \/ request'[q] = [at |-> "refused", session |-> s]
            \/ request'[q] = Idle
      BY <1>0, <2>5 DEF Present, Become, Refused
    <3>3. late \in BOOLEAN
      OBVIOUS
    <3> HIDE DEF late
    <3> QED
      BY <1>0, <1>2, <3>1, <3>2, <3>3 DEF AnyRequest
  <2>6. CASE Lookup(q)
    <3>1. request[q].session \in Nat
      BY <2>6, RequestHolds DEF Lookup
    <3>2. \E at \in {"served", "refused", "revoke"} :
            \/ request'[q] = [at |-> at, session |-> request[q].session]
            \/ request'[q] = Idle
      BY <1>0, <2>6 DEF Lookup, Become, Refused
    <3> QED
      BY <1>2, <3>1, <3>2 DEF AnyRequest
  <2>7. CASE Revoke(q)
    BY <1>0, <1>2, <2>7 DEF Revoke, Become
  <2> QED
    BY <1>3, <2>1, <2>2, <2>3, <2>4, <2>5, <2>6, <2>7, RequestChanges
<1>4. request' = [q \in Request |-> request'[q]]
  <2>1. CASE UNCHANGED request
    BY <1>0, <2>1
  <2>2. CASE Stop
    BY <2>2 DEF Stop
  <2>3. ASSUME NEW q \in Request, NEW r, Become(q, r) PROVE request' = [p \in Request |-> request'[p]]
    BY <1>0, <2>3 DEF Become
  <2>4. \/ UNCHANGED request \/ Stop \/ \E q \in Request : \E r : Become(q, r)
    <3>1. ASSUME NEW q \in Request, NEW c \in Client, Login(q, c) PROVE \E r : Become(q, r)
      BY <3>1 DEF Login
    <3>2. ASSUME NEW q \in Request, Verify(q) PROVE \E r : Become(q, r)
      BY <3>2 DEF Verify
    <3>3. ASSUME NEW q \in Request, Issue(q) PROVE \E r : Become(q, r)
      BY <3>3 DEF Issue
    <3>4. ASSUME NEW q \in Request, NEW s \in DOMAIN session, Present(q, s)
          PROVE  \E r : Become(q, r)
      BY <3>4 DEF Present
    <3>5. ASSUME NEW q \in Request, Lookup(q) PROVE \E r : Become(q, r)
      BY <3>5 DEF Lookup
    <3>6. ASSUME NEW q \in Request, Revoke(q) PROVE \E r : Become(q, r)
      BY <3>6 DEF Revoke
    <3>7. ASSUME NEW env \in Environment, Start(env) PROVE UNCHANGED request
      BY <3>7 DEF Start
    <3>8. Tick \/ UNCHANGED vars => UNCHANGED request
      BY DEF Tick, vars
    <3> QED
      BY <3>1, <3>2, <3>3, <3>4, <3>5, <3>6, <3>7, <3>8 DEF Next
  <2> QED
    BY <2>1, <2>2, <2>3, <2>4
<1>5. \A q \in Request : request'[q] \in AnyRequest
  BY <1>1, <1>3
<1> QED
  BY <1>4, <1>5

(* Sessions are only added. *)
LEMMA SessionsStay ==
  ASSUME SessionsTypeOK, ProcessOK, ClaimsChecked, LivesOK, [Next]_vars
  PROVE  /\ session' \in Seq(Session) /\ LivesOK'
         /\ \A s \in DOMAIN session : s \in DOMAIN session' /\ session'[s] = session[s]
<1>0. session \in Seq(Session) /\ clock \in Nat /\ clock >= Fraction
  BY DEF SessionsTypeOK, ClaimsChecked
<1>1. CASE UNCHANGED session
  BY <1>0, <1>1 DEF LivesOK
<1>2. ASSUME NEW q \in Request, Issue(q), session' # session
      PROVE  /\ session' \in Seq(Session) /\ LivesOK'
             /\ \A s \in DOMAIN session : s \in DOMAIN session' /\ session'[s] = session[s]
  <2>1. Configured
    BY <1>2 DEF ProcessOK, Issue, Idle
  <2>2. auth.password \in Password /\ auth.secret \in Secret /\ auth.ttl \in 1..MaxTTL
    BY <2>1 DEF ProcessOK
  <2> DEFINE u == Unix(clock)
             x == [issuedAt |-> u, expiresAt |-> Unix(clock + auth.ttl * Fraction),
                   password |-> auth.password, secret |-> auth.secret,
                   at |-> clock, life |-> auth.ttl]
  <2>3. session' = Append(session, x)
    BY <1>2 DEF Issue
  <2>4. MaxTTL \in Nat /\ Fraction \in Nat \ {0} /\ auth.ttl \in Nat
    BY <2>2, SessionsAssumption
  <2>5. u \in Int /\ u * Fraction <= clock /\ clock < u * Fraction + Fraction
    BY <1>0, UnixBounds
  <2>6. Unix(clock + auth.ttl * Fraction) = u + auth.ttl
    BY <1>0, <2>4, UnixAfter
  <2> HIDE DEF u
  <2>7. u > 0
    <3> SUFFICES ASSUME u < 1 PROVE FALSE
      BY <2>5
    <3>1. u * Fraction + Fraction <= 1 * Fraction
      BY <2>5, SecondsOrdered
    <3>2. 1 * Fraction = Fraction /\ u * Fraction \in Int
      BY <2>4, <2>5
    <3> QED
      BY <1>0, <2>4, <2>5, <3>1, <3>2
  <2>8. /\ x \in Session /\ x.issuedAt = u /\ x.expiresAt = u + auth.ttl
        /\ x.at = clock /\ x.life = auth.ttl
    BY <1>0, <2>2, <2>4, <2>5, <2>6, <2>7 DEF Session
  <2>9. /\ x.issuedAt > 0 /\ x.expiresAt = x.issuedAt + x.life /\ x.life \in 1..MaxTTL
        /\ x.issuedAt * Fraction <= x.at /\ x.at < x.issuedAt * Fraction + Fraction
    BY <2>2, <2>5, <2>7, <2>8
  <2> HIDE DEF x
  <2>10. /\ session' \in Seq(Session) /\ DOMAIN session' = 1..(Len(session) + 1)
         /\ \A s \in DOMAIN session : s \in DOMAIN session' /\ session'[s] = session[s]
         /\ session'[Len(session) + 1] = x /\ DOMAIN session = 1..Len(session)
         /\ Len(session) \in Nat
    BY <1>0, <2>3, <2>8
  <2>11. \A s \in DOMAIN session' : s \in DOMAIN session \/ s = Len(session) + 1
    BY <2>10
  <2>12. LivesOK'
    <3> SUFFICES ASSUME NEW s \in DOMAIN session'
                 PROVE  /\ session'[s].issuedAt > 0
                        /\ session'[s].expiresAt = session'[s].issuedAt + session'[s].life
                        /\ session'[s].life \in 1..MaxTTL
                        /\ session'[s].issuedAt * Fraction <= session'[s].at
                        /\ session'[s].at < session'[s].issuedAt * Fraction + Fraction
      BY DEF LivesOK
    <3>1. CASE s \in DOMAIN session
      BY <2>10, <3>1 DEF LivesOK
    <3>2. CASE s = Len(session) + 1
      BY <2>9, <2>10, <3>2
    <3> QED
      BY <2>11, <3>1, <3>2
  <2> QED
    BY <2>10, <2>12
<1>3. ASSUME \A q \in Request : ~Issue(q) PROVE UNCHANGED session
  BY <1>3 DEF Next, vars, Start, Stop, Tick, Login, Verify, Present, Lookup, Revoke
<1> QED
  BY <1>1, <1>2, <1>3

(* What is known of a session that is issued, and of its expiry. *)
LEMMA SessionLives ==
  ASSUME SessionsTypeOK, LivesOK, NEW s \in DOMAIN session
  PROVE  /\ session[s] \in Session /\ session[s].expiresAt * Fraction \in Int
         /\ session[s].expiresAt - session[s].issuedAt <= MaxTTL
         /\ session[s].issuedAt > 0 /\ session[s].expiresAt > session[s].issuedAt
         /\ session[s].expiresAt * Fraction <= session[s].at + session[s].life * Fraction
         /\ session[s].expiresAt * Fraction >= session[s].at + (session[s].life - 1) * Fraction
<1>1. session[s] \in Session
  BY DEF SessionsTypeOK
<1> DEFINE e == session[s].expiresAt
           i == session[s].issuedAt
           l == session[s].life
           a == session[s].at
<1>2. e \in Nat /\ i \in Nat /\ l \in Nat /\ a \in Nat /\ Fraction \in Nat /\ MaxTTL \in Nat
  BY <1>1, SessionsAssumption DEF Session
<1>3. /\ i > 0 /\ e = i + l /\ l \in 1..MaxTTL
      /\ i * Fraction <= a /\ a < i * Fraction + Fraction
  BY DEF LivesOK
<1> HIDE DEF e, i, l, a
<1>4. e * Fraction \in Int /\ i * Fraction \in Int /\ l * Fraction \in Int
  BY <1>2
<1>5. e * Fraction = i * Fraction + l * Fraction
  BY <1>2, <1>3
<1>6. (l - 1) * Fraction = l * Fraction - Fraction
  BY <1>2
<1>7. e * Fraction <= a + l * Fraction /\ e * Fraction >= a + (l - 1) * Fraction
  BY <1>2, <1>3, <1>4, <1>5, <1>6
<1>8. e - i <= MaxTTL /\ e > i
  BY <1>2, <1>3
<1> QED
  BY <1>1, <1>3, <1>4, <1>7, <1>8 DEF e, i, l, a

(* A session that has expired stays expired. *)
LEMMA ExpiryStays ==
  ASSUME SessionsTypeOK, LivesOK, NEW s \in DOMAIN session
  PROVE  \A t, u \in Nat : t <= u /\ Expired(s, t) => Expired(s, u)
<1>1. session[s].expiresAt * Fraction \in Int
  BY SessionLives
<1> QED
  BY <1>1 DEF Expired

(* Every variable keeps its type. *)
LEMMA TypeStep ==
  ASSUME SessionsInv, [Next]_vars
  PROVE  SessionsTypeOK'
<1>0. SessionsTypeOK /\ ProcessOK /\ ClocksRead /\ ClaimsChecked /\ LivesOK
  BY DEF SessionsInv
<1>1. request' \in [Request -> AnyRequest]
  BY <1>0, RequestTypes
<1>2. /\ session' \in Seq(Session)
      /\ \A s \in DOMAIN session : s \in DOMAIN session'
  BY <1>0, SessionsStay
<1>3. clock' \in Nat
  <2>1. clock \in Nat
    BY <1>0 DEF SessionsTypeOK
  <2>2. Tick => clock' = clock + 1
    BY DEF Tick
  <2>3. ~Tick => clock' = clock
    BY DEF Next, vars, Start, Stop, Login, Verify, Issue, Present, Lookup, Revoke
  <2> QED
    BY <2>1, <2>2, <2>3
<1>4. auth' \in Authenticator \cup {None}
  <2>1. auth \in Authenticator \cup {None}
    BY <1>0 DEF SessionsTypeOK
  <2>2. ASSUME NEW env \in Environment, Start(env) PROVE auth' \in Authenticator
    <3>1. env.ttl \in Nat
      BY SessionsAssumption DEF Environment
    <3>2. auth' = NewAuthenticator(env)
      BY <2>2 DEF Start
    <3> QED
      BY <3>1, <3>2 DEF NewAuthenticator, Authenticator, Environment
  <2>3. Stop => auth' = None
    BY DEF Stop
  <2>4. (\A env \in Environment : ~Start(env)) /\ ~Stop => UNCHANGED auth
    BY DEF Next, vars, Tick, Login, Verify, Issue, Present, Lookup, Revoke
  <2> QED
    BY <2>1, <2>2, <2>3, <2>4
<1>5. revoked' \subseteq DOMAIN session' /\ signedOut' \subseteq DOMAIN session'
  <2>1. revoked \subseteq DOMAIN session /\ signedOut \subseteq DOMAIN session
    BY <1>0 DEF SessionsTypeOK
  <2>2. ASSUME NEW q \in Request, Revoke(q)
        PROVE  revoked' \subseteq DOMAIN session /\ signedOut' \subseteq DOMAIN session
    BY <1>0, <2>1, <2>2 DEF Revoke, ClaimsChecked
  <2>3. ASSUME NEW q \in Request, Lookup(q)
        PROVE  revoked' \subseteq DOMAIN session /\ signedOut' \subseteq DOMAIN session
    BY <2>1, <2>3 DEF Lookup, Unexpired
  <2>4. ASSUME NEW env \in Environment, Start(env)
        PROVE  revoked' \subseteq DOMAIN session /\ signedOut' \subseteq DOMAIN session
    BY <2>4 DEF Start
  <2>5. ASSUME NEW q \in Request, Verify(q) PROVE UNCHANGED <<revoked, signedOut>>
    BY <2>5 DEF Verify
  <2>6. \/ UNCHANGED <<revoked, signedOut>>
        \/ \E q \in Request : Verify(q) \/ Lookup(q) \/ Revoke(q)
        \/ \E env \in Environment : Start(env)
    BY DEF Next, vars, memory, Stop, Tick, Login, Issue, Present
  <2> QED
    BY <1>2, <2>1, <2>2, <2>3, <2>4, <2>5, <2>6
<1>6. failure' \in [Client -> [since : Nat, count : Nat]] /\ guesses' \in [Client -> Seq(Guess)]
  <2>1. /\ failure \in [Client -> [since : Nat, count : Nat]]
        /\ guesses \in [Client -> Seq(Guess)] /\ clock \in Nat
    BY <1>0 DEF SessionsTypeOK
  <2>2. ASSUME NEW env \in Environment, Start(env)
        PROVE  /\ failure' \in [Client -> [since : Nat, count : Nat]]
               /\ guesses' \in [Client -> Seq(Guess)]
    BY <2>2 DEF Start, NoFailures
  <2>3. ASSUME NEW q \in Request, Verify(q)
        PROVE  /\ failure' \in [Client -> [since : Nat, count : Nat]]
               /\ guesses' \in [Client -> Seq(Guess)]
    <3> DEFINE t == request[q].now
               kept == Pruned(t)
               x == request[q].source
               c == request[q].client
               opens == kept[x].count = 0
               since == IF opens THEN t ELSE kept[x].since
               g == [at |-> clock, opens |-> opens]
               n == kept[x].count + 1
    <3>1. t \in Nat /\ c \in Client /\ x = c
      BY <1>0, <2>3, RequestHolds DEF Verify, ClocksRead
    <3>2. \/ failure' = kept /\ guesses' = guesses
          \/ /\ failure' = [kept EXCEPT ![x] = NoFailures]
             /\ guesses' = [guesses EXCEPT ![c] = << >>]
          \/ /\ failure' = [kept EXCEPT ![x] = [since |-> since, count |-> n]]
             /\ guesses' = [guesses EXCEPT ![c] = Append(@, g)]
      BY <2>3 DEF Verify
    <3>3. g \in Guess
      BY <2>1 DEF Guess
    <3> HIDE DEF t
    <3>4. kept \in [Client -> [since : Nat, count : Nat]]
      BY <1>0, <3>1, PrunedTypes
    <3> HIDE DEF kept, g, x, c
    <3>5. n \in Nat /\ since \in Nat
      BY <3>1, <3>4
    <3> HIDE DEF n, since
    <3>6. NoFailures \in [since : Nat, count : Nat]
      BY DEF NoFailures
    <3>7. Append(guesses[c], g) \in Seq(Guess)
      BY <2>1, <3>1, <3>3
    <3>8. CASE /\ failure' = [kept EXCEPT ![x] = NoFailures]
               /\ guesses' = [guesses EXCEPT ![c] = << >>]
      <4>1. << >> \in Seq(Guess)
        OBVIOUS
      <4> QED
        BY <2>1, <3>1, <3>4, <3>6, <3>8, <4>1
    <3>9. CASE /\ failure' = [kept EXCEPT ![x] = [since |-> since, count |-> n]]
               /\ guesses' = [guesses EXCEPT ![c] = Append(@, g)]
      <4>1. [since |-> since, count |-> n] \in [since : Nat, count : Nat]
        BY <3>5
      <4> QED
        BY <2>1, <3>1, <3>4, <3>7, <3>9, <4>1
    <3> QED
      BY <2>1, <3>2, <3>4, <3>8, <3>9
  <2>4. \/ UNCHANGED <<failure, guesses>>
        \/ \E q \in Request : Verify(q)
        \/ \E env \in Environment : Start(env)
    BY DEF Next, vars, memory, Stop, Tick, Login, Issue, Present, Lookup, Revoke
  <2> QED
    BY <2>1, <2>2, <2>3, <2>4
<1> QED
  BY <1>1, <1>2, <1>3, <1>4, <1>5, <1>6 DEF SessionsTypeOK

(* What changes the process. *)
LEMMA ProcessChanges ==
  ASSUME [Next]_vars
  PROVE  \/ UNCHANGED auth
         \/ Stop
         \/ \E env \in Environment : Start(env) /\ UNCHANGED request
  BY DEF Next, vars, Start, Tick, Login, Verify, Issue, Present, Lookup, Revoke

(* A goroutine exists only in a configured process. *)
LEMMA ProcessStep ==
  ASSUME SessionsTypeOK, ProcessOK, [Next]_vars
  PROVE  ProcessOK'
<1>1. CASE UNCHANGED auth
  <2>1. ASSUME ~Configured', NEW q \in Request PROVE request'[q] = Idle
    <3>1. ~Configured /\ \A p \in Request : request[p] = Idle
      BY <1>1, <2>1 DEF Configured, ProcessOK
    <3>2. ASSUME request'[q] # request[q] PROVE Stop
      <4>1. ~Configured /\ request[q].at = "idle"
        BY <3>1 DEF Idle
      <4>2. /\ \A c \in Client : ~Login(q, c)
            /\ \A s \in DOMAIN session : ~Present(q, s)
        BY <4>1 DEF Login, Present
      <4>3. ~Verify(q) /\ ~Issue(q) /\ ~Lookup(q) /\ ~Revoke(q)
        BY <4>1 DEF Verify, Issue, Lookup, Revoke
      <4> QED
        BY <3>2, <4>2, <4>3, RequestChanges
    <3>3. Stop => request'[q] = Idle
      BY DEF Stop
    <3> QED
      BY <3>1, <3>2, <3>3
  <2> QED
    BY <1>1, <2>1 DEF ProcessOK, Configured
<1>2. CASE Stop
  BY <1>2 DEF Stop, ProcessOK, Configured
<1>3. ASSUME NEW env \in Environment, Start(env) PROVE ProcessOK'
  <2>1. \A q \in Request : request'[q] = Idle
    BY <1>3 DEF Start, ProcessOK, Configured
  <2>2. Configured' => auth'.password \in Password /\ auth'.secret \in Secret /\ auth'.ttl \in 1..MaxTTL
    BY <1>3 DEF Start, NewAuthenticator, Startable, Environment, Configured
  <2> QED
    BY <2>1, <2>2 DEF ProcessOK
<1> QED
  BY <1>1, <1>2, <1>3, ProcessChanges

(* The clock moves on only as far as the logins under way allow. *)
LEMMA ClocksStep ==
  ASSUME SessionsTypeOK, ClocksRead, [Next]_vars
  PROVE  ClocksRead'
<1> SUFFICES ASSUME NEW q \in Request
             PROVE  /\ request'[q].at = "verify" =>
                         /\ request'[q].source = request'[q].client
                         /\ request'[q].now <= clock' /\ clock' <= request'[q].now + Stall
                    /\ request'[q].at = "lookup" => request'[q].now <= clock'
  BY DEF ClocksRead
<1>0. clock \in Nat /\ Stall \in Nat /\ request \in [Request -> AnyRequest]
  BY SessionsAssumption DEF SessionsTypeOK
<1>1. CASE request'[q] = request[q]
  <2>1. /\ request[q].at = "verify" =>
             /\ request[q].source = request[q].client /\ request[q].now \in Nat
             /\ request[q].now <= clock /\ clock <= request[q].now + Stall
        /\ request[q].at = "lookup" => request[q].now <= clock /\ request[q].now \in Nat
    BY RequestHolds DEF ClocksRead
  <2>2. CASE Tick
    BY <1>0, <1>1, <2>1, <2>2 DEF Tick
  <2>3. CASE UNCHANGED clock
    BY <1>1, <2>1, <2>3
  <2>4. Tick \/ UNCHANGED clock
    BY DEF Next, vars, Start, Stop, Login, Verify, Issue, Present, Lookup, Revoke
  <2> QED
    BY <2>2, <2>3, <2>4
<1>2. ASSUME NEW c \in Client, Login(q, c)
      PROVE  /\ request'[q].at = "verify" /\ request'[q].source = request'[q].client
             /\ request'[q].now = clock /\ clock' = clock
  <2>1. PICK right \in BOOLEAN : request' = [request EXCEPT ![q] =
           [at |-> "verify", client |-> c, right |-> right, now |-> clock, source |-> c]]
    BY <1>2, LoginHolds
  <2>2. clock' = clock
    BY <1>2 DEF Login
  <2> QED
    BY <1>0, <2>1, <2>2
<1>3. ASSUME NEW s \in DOMAIN session, Present(q, s)
      PROVE  /\ request'[q].at # "verify" /\ clock' = clock
             /\ request'[q].at = "lookup" => request'[q].now = clock
  <2>1. /\ clock' = clock
        /\ \E r : request'[q] = r /\ r.at # "verify" /\ (r.at = "lookup" => r.now = clock)
    BY <1>0, <1>3 DEF Present, Become, Refused, Idle
  <2> QED
    BY <2>1
<1>4. ASSUME \/ Stop /\ request'[q] = Idle
             \/ Verify(q) \/ Issue(q) \/ Lookup(q) \/ Revoke(q)
      PROVE  request'[q].at \notin {"verify", "lookup"}
  BY <1>0, <1>4 DEF Verify, Issue, Lookup, Revoke, Become, Refused, Idle
<1> QED
  BY <1>0, <1>1, <1>2, <1>3, <1>4, RequestChanges

(* Where each step of a request leads. *)
LEMMA RequestLeads ==
  ASSUME SessionsTypeOK, NEW q \in Request
  PROVE  /\ \A c \in Client : Login(q, c) => request'[q].at = "verify"
         /\ Verify(q) => request'[q].at \in {"limited", "issue", "idle"}
         /\ Issue(q) => request'[q].at = "idle"
         /\ \A s \in DOMAIN session : Present(q, s) =>
              \/ request'[q].at = "idle"
              \/ request'[q].at = "refused" /\ request'[q].session = s /\ ~ValidClaims(s)
              \/ /\ request'[q].at = "lookup" /\ request'[q].session = s /\ ValidClaims(s)
                 /\ request'[q].now = clock
         /\ Lookup(q) =>
              \/ request'[q].at = "idle"
              \/ request'[q].at \in {"served", "revoke"} /\ request'[q].session = request[q].session
              \/ request'[q].at = "refused" /\ request'[q].session = request[q].session
         /\ Revoke(q) => request'[q].at = "idle"
         /\ Stop => request'[q].at = "idle"
<1>0. request \in [Request -> AnyRequest]
  BY DEF SessionsTypeOK
<1>1. ASSUME NEW c \in Client, Login(q, c) PROVE request'[q].at = "verify"
  BY <1>0, <1>1 DEF Login, Become
<1>2. ASSUME Verify(q) PROVE request'[q].at \in {"limited", "issue", "idle"}
  BY <1>0, <1>2 DEF Verify, Become, Idle
<1>3. ASSUME Issue(q) PROVE request'[q].at = "idle"
  BY <1>0, <1>3 DEF Issue, Become, Idle
<1>4. ASSUME NEW s \in DOMAIN session, Present(q, s)
      PROVE  \/ request'[q].at = "idle"
             \/ request'[q].at = "refused" /\ request'[q].session = s /\ ~ValidClaims(s)
             \/ /\ request'[q].at = "lookup" /\ request'[q].session = s /\ ValidClaims(s)
                /\ request'[q].now = clock
  <2>1. PICK purpose \in {"use", "logout"} :
          request'[q] = IF ValidClaims(s)
                        THEN [at |-> "lookup", session |-> s, now |-> clock,
                              purpose |-> purpose, late |-> s \in signedOut]
                        ELSE Refused(s, purpose)
    BY <1>0, <1>4 DEF Present, Become
  <2>2. CASE ValidClaims(s)
    <3>1. request'[q] = [at |-> "lookup", session |-> s, now |-> clock,
                         purpose |-> purpose, late |-> s \in signedOut]
      BY <2>1, <2>2
    <3> QED
      BY <2>2, <3>1
  <2>3. CASE ~ValidClaims(s)
    <3>1. request'[q] = [at |-> "refused", session |-> s] \/ request'[q] = Idle
      BY <2>1, <2>3 DEF Refused
    <3> QED
      BY <2>3, <3>1 DEF Idle
  <2> QED
    BY <2>2, <2>3
<1>5. ASSUME Lookup(q)
      PROVE  \/ request'[q].at = "idle"
             \/ request'[q].at \in {"served", "revoke"} /\ request'[q].session = request[q].session
             \/ request'[q].at = "refused" /\ request'[q].session = request[q].session
  BY <1>0, <1>5 DEF Lookup, Become, Refused, Idle
<1>6. ASSUME Revoke(q) PROVE request'[q].at = "idle"
  BY <1>0, <1>6 DEF Revoke, Become, Idle
<1>7. ASSUME Stop PROVE request'[q].at = "idle"
  BY <1>7 DEF Stop, Idle
<1> QED
  BY <1>1, <1>2, <1>3, <1>4, <1>5, <1>6, <1>7

(* How revocations change, and what a request that is late has seen. *)
LEMMA RevocationsChange ==
  ASSUME SessionsTypeOK, [Next]_vars
  PROVE  \/ revoked' = revoked /\ signedOut' = signedOut
         \/ revoked' = {} /\ signedOut' = {} /\ auth = None /\ request' = request
         \/ \E q \in Request :
              /\ Lookup(q)
              /\ revoked' = Unexpired(request[q].now) /\ signedOut' = signedOut
         \/ \E q \in Request :
              /\ revoked' = revoked \cup {request[q].session}
              /\ signedOut' = signedOut \cup {request[q].session}
  BY DEF Next, vars, memory, Start, Stop, Tick, Login, Verify, Issue, Present, Lookup, Revoke

(* A revocation is forgotten only with a session that has expired. *)
LEMMA RevocationsStep ==
  ASSUME SessionsInv, [Next]_vars
  PROVE  RevocationsKept'
<1>0. SessionsTypeOK /\ ProcessOK /\ ClocksRead /\ LivesOK /\ RevocationsKept /\ ClaimsChecked
  BY DEF SessionsInv
<1>1. clock \in Nat /\ clock' \in Nat /\ clock <= clock'
  <2>1. clock \in Nat
    BY <1>0 DEF SessionsTypeOK
  <2>2. Tick => clock' = clock + 1
    BY DEF Tick
  <2>3. ~Tick => clock' = clock
    BY DEF Next, vars, Start, Stop, Login, Verify, Issue, Present, Lookup, Revoke
  <2> QED
    BY <2>1, <2>2, <2>3
<1>2. signedOut \subseteq DOMAIN session
  BY <1>0 DEF SessionsTypeOK
<1>3. ASSUME NEW s \in DOMAIN session, NEW t \in Nat, t <= clock, Expired(s, t)
      PROVE  Expired(s, clock)'
  <2>1. session'[s] = session[s]
    BY <1>0, SessionsStay
  <2>2. t <= clock'
    BY <1>1, <1>3
  <2>3. Expired(s, clock')
    BY <1>0, <1>1, <1>3, <2>2, ExpiryStays
  <2> QED
    BY <2>1, <2>3 DEF Expired
<1>4. \A s \in signedOut : s \in revoked \/ Expired(s, clock)'
  BY <1>0, <1>1, <1>2, <1>3 DEF RevocationsKept
<1>5. \A s \in signedOut' : s \in revoked' \/ Expired(s, clock)'
  <2>1. CASE revoked' = revoked /\ signedOut' = signedOut
    BY <1>4, <2>1
  <2>2. CASE revoked' = {} /\ signedOut' = {}
    BY <2>2
  <2>3. ASSUME NEW q \in Request, Lookup(q),
               revoked' = Unexpired(request[q].now), signedOut' = signedOut
        PROVE  \A s \in signedOut' : s \in revoked' \/ Expired(s, clock)'
    <3>1. request[q].now \in Nat /\ request[q].now <= clock
      BY <1>0, <2>3, RequestHolds DEF Lookup, ClocksRead
    <3>2. ASSUME NEW s \in signedOut, s \in revoked, s \notin revoked' PROVE Expired(s, clock)'
      <4>1. Expired(s, request[q].now)
        BY <2>3, <3>2 DEF Unexpired
      <4> QED
        BY <1>2, <1>3, <3>1, <4>1
    <3> QED
      BY <1>4, <2>3, <3>2
  <2>4. ASSUME NEW q \in Request, revoked' = revoked \cup {request[q].session},
               signedOut' = signedOut \cup {request[q].session}
        PROVE  \A s \in signedOut' : s \in revoked' \/ Expired(s, clock)'
    BY <1>4, <2>4
  <2> QED
    BY <1>0, <2>1, <2>2, <2>3, <2>4, RevocationsChange
<1>6. revoked' \subseteq signedOut'
  <2>1. revoked \subseteq signedOut
    BY <1>0 DEF RevocationsKept
  <2>2. \A t : Unexpired(t) \subseteq revoked
    BY DEF Unexpired
  <2> QED
    BY <1>0, <2>1, <2>2, RevocationsChange
<1>7. ASSUME NEW q \in Request, request'[q].at = "lookup", request'[q].late
      PROVE  request'[q].session \in signedOut'
  <2>0. request \in [Request -> AnyRequest]
    BY <1>0 DEF SessionsTypeOK
  <2>1. CASE request'[q] = request[q]
    <3>1. request[q].session \in signedOut
      BY <1>0, <1>7, <2>1 DEF RevocationsKept
    <3>2. auth # None
      BY <1>0, <1>7, <2>1 DEF ProcessOK, Configured, Idle
    <3> QED
      BY <1>0, <2>1, <3>1, <3>2, RevocationsChange
  <2>2. ASSUME NEW s \in DOMAIN session, Present(q, s) PROVE request'[q].session \in signedOut'
    <3>1. signedOut' = signedOut
      BY <2>2 DEF Present, memory
    <3> DEFINE late == s \in signedOut
    <3>2. PICK purpose \in {"use", "logout"} :
            request'[q] = IF ValidClaims(s)
                          THEN [at |-> "lookup", session |-> s, now |-> clock,
                                purpose |-> purpose, late |-> late]
                          ELSE Refused(s, purpose)
      BY <2>0, <2>2 DEF Present, Become
    <3> HIDE DEF late
    <3>3. ValidClaims(s)
      BY <1>7, <3>2 DEF Refused, Idle
    <3>4. request'[q] = [at |-> "lookup", session |-> s, now |-> clock,
                         purpose |-> purpose, late |-> late]
      BY <3>2, <3>3
    <3>5. request'[q].session = s /\ late
      BY <1>7, <3>4
    <3> QED
      BY <3>1, <3>5 DEF late
  <2>3. ASSUME \/ Stop /\ request'[q] = Idle
               \/ Verify(q) \/ Issue(q) \/ Lookup(q) \/ Revoke(q)
        PROVE  request'[q].at # "lookup"
    BY <2>0, <2>3 DEF Verify, Issue, Lookup, Revoke, Become, Refused, Idle
  <2>4. ASSUME NEW c \in Client, Login(q, c) PROVE request'[q].at # "lookup"
    BY <2>0, <2>4 DEF Login, Become
  <2> QED
    BY <1>0, <1>7, <2>1, <2>2, <2>3, <2>4, RequestChanges
<1> QED
  BY <1>5, <1>6, <1>7 DEF RevocationsKept

(* What is looked up has claims that were valid when the clock was read. *)
LEMMA ClaimsStep ==
  ASSUME SessionsInv, [Next]_vars
  PROVE  ClaimsChecked'
<1>0. SessionsTypeOK /\ ProcessOK /\ ClocksRead /\ LivesOK /\ ClaimsChecked
  BY DEF SessionsInv
<1>1. \A s \in DOMAIN session : s \in DOMAIN session' /\ session'[s] = session[s]
  BY <1>0, SessionsStay
<1>2. clock' >= Fraction
  <2>1. clock \in Nat /\ clock >= Fraction /\ Fraction \in Nat
    BY <1>0, SessionsAssumption DEF SessionsTypeOK, ClaimsChecked
  <2>2. Tick => clock' = clock + 1
    BY DEF Tick
  <2>3. ~Tick => clock' = clock
    BY DEF Next, vars, Start, Stop, Login, Verify, Issue, Present, Lookup, Revoke
  <2> QED
    BY <2>1, <2>2, <2>3
<1> DEFINE Known(q) ==
      /\ request'[q].at \in {"lookup", "revoke"} => request'[q].session \in DOMAIN session'
      /\ request'[q].at = "lookup" =>
           LET s == request'[q].session IN
           /\ session'[s].secret = auth'.secret /\ session'[s].password = auth'.password
           /\ ~(request'[q].now >= session'[s].expiresAt * Fraction)
<1>3. ASSUME NEW q \in Request PROVE Known(q)
  <2>0. request \in [Request -> AnyRequest]
    BY <1>0 DEF SessionsTypeOK
  <2>1. CASE request'[q] = request[q]
    <3> SUFFICES ASSUME request[q].at \in {"lookup", "revoke"} PROVE Known(q)
      BY <2>1
    <3> DEFINE s == request[q].session
    <3>1. auth' = auth
      <4>1. Configured /\ request'[q] # Idle
        BY <1>0, <2>1 DEF ProcessOK, Idle
      <4>2. ~Stop
        BY <4>1 DEF Stop
      <4>3. \A env \in Environment : ~Start(env)
        BY <4>1 DEF Start, Configured
      <4> QED
        BY <4>2, <4>3, ProcessChanges
    <3>2. s \in DOMAIN session
      BY <1>0 DEF ClaimsChecked
    <3>3. s \in DOMAIN session' /\ session'[s] = session[s]
      BY <1>1, <3>2
    <3>4. request[q].at = "lookup" =>
            /\ session[s].secret = auth.secret /\ session[s].password = auth.password
            /\ ~Expired(s, request[q].now)
      BY <1>0 DEF ClaimsChecked
    <3> QED
      BY <2>1, <3>1, <3>3, <3>4 DEF Expired
  <2>2. ASSUME NEW s \in DOMAIN session, Present(q, s) PROVE Known(q)
    <3>1. /\ request'[q].at # "revoke"
          /\ request'[q].at = "lookup" =>
               ValidClaims(s) /\ request'[q].session = s /\ request'[q].now = clock
      BY <1>0, <2>2, RequestLeads
    <3>2. auth' = auth /\ session' = session
      BY <2>2 DEF Present
    <3>3. CASE request'[q].at # "lookup"
      BY <3>1, <3>3
    <3>4. CASE request'[q].at = "lookup"
      <4>1. request'[q].session = s /\ request'[q].now = clock /\ ValidClaims(s)
        BY <3>1, <3>4
      <4>2. ~Expired(s, clock) /\ session[s].secret = auth.secret /\ session[s].password = auth.password
        BY <4>1 DEF ValidClaims
      <4>3. ~(request'[q].now >= session'[s].expiresAt * Fraction)
        BY <3>2, <4>1, <4>2 DEF Expired
      <4> QED
        BY <3>2, <3>4, <4>1, <4>2, <4>3
    <3> QED
      BY <3>3, <3>4
  <2>3. CASE Lookup(q)
    <3>1. /\ request'[q].at # "lookup"
          /\ request'[q].at = "revoke" => request'[q].session = request[q].session
      BY <2>0, <2>3 DEF Lookup, Become, Refused, Idle
    <3>2. request[q].session \in DOMAIN session
      BY <1>0, <2>3 DEF ClaimsChecked, Lookup
    <3> QED
      BY <1>1, <3>1, <3>2
  <2>4. CASE Stop /\ request'[q] = Idle
    BY <2>4 DEF Idle
  <2>5. ASSUME Verify(q) \/ Issue(q) \/ Revoke(q) \/ \E c \in Client : Login(q, c)
        PROVE  request'[q].at \notin {"lookup", "revoke"}
    BY <1>0, <2>5, RequestLeads
  <2> QED
    BY <1>0, <2>1, <2>2, <2>3, <2>4, <2>5, RequestChanges
<1> QED
  <2>1. \A q \in Request : Known(q)
    BY <1>3
  <2>2. ClaimsChecked' <=> clock' >= Fraction /\ \A q \in Request : Known(q)
    BY DEF ClaimsChecked, Expired
  <2> QED
    BY <1>2, <2>1, <2>2

-----------------------------------------------------------------------------
(* The theorems.                                                           *)

(* The initial state satisfies the invariant. *)
LEMMA SessionsInvInit ==
  ASSUME Init
  PROVE  SessionsInv
<1>1. Fraction \in Nat
  BY SessionsAssumption
<1>2. SessionsTypeOK
  BY <1>1 DEF Init, SessionsTypeOK, NoFailures, AnyRequest
<1>3. ProcessOK /\ ClocksRead /\ ClaimsChecked
  BY <1>1 DEF Init, ProcessOK, ClocksRead, ClaimsChecked, Configured, Idle
<1>4. GuessesInOrder /\ WindowsApart /\ WindowsFull /\ CountsLastWindow
  BY DEF Init, GuessesInOrder, WindowsApart, WindowsFull, CountsLastWindow, NoFailures
<1>5. RevocationsKept /\ LivesOK
  BY DEF Init, RevocationsKept, LivesOK, Idle
<1>6. WaitsCovered
  BY DEF Init, WaitsCovered, Idle
<1> QED
  BY <1>2, <1>3, <1>4, <1>5, <1>6 DEF SessionsInv

(* Every step keeps it. *)
LEMMA SessionsInvStep ==
  ASSUME SessionsInv, [Next]_vars
  PROVE  SessionsInv'
<1>0. /\ SessionsTypeOK /\ ProcessOK /\ ClocksRead
      /\ GuessesInOrder /\ WindowsApart /\ WindowsFull /\ CountsLastWindow /\ WaitsCovered
      /\ LivesOK /\ ClaimsChecked
  BY DEF SessionsInv
<1>1. SessionsTypeOK' /\ RevocationsKept' /\ ClaimsChecked'
  BY TypeStep, RevocationsStep, ClaimsStep
<1>2. ProcessOK' /\ ClocksRead'
  BY <1>0, ProcessStep, ClocksStep
<1>3. GuessesInOrder' /\ WindowsApart' /\ WindowsFull' /\ CountsLastWindow' /\ WaitsCovered'
  BY <1>0, OrderStep, ApartStep, FullStep, CountStep, WaitsStep
<1>4. LivesOK'
  BY <1>0, SessionsStay
<1> QED
  BY <1>1, <1>2, <1>3, <1>4 DEF SessionsInv

(* The access gate keeps its invariant, for any number of clients, requests *)
(* and processes, one after the other.                                      *)
THEOREM SessionsInvariant == Spec => []SessionsInv
<1>1. Init => SessionsInv
  BY SessionsInvInit
<1>2. SessionsInv /\ [Next]_vars => SessionsInv'
  BY SessionsInvStep
<1> QED
  BY <1>1, <1>2, PTL DEF Spec

(* No client makes 2 * maxLoginFailures guesses within a window's time. *)
THEOREM LimiterBounds == Spec => []GuessesSpaced
<1>1. SessionsInv => GuessesSpaced
  BY SpacedByWindows DEF SessionsInv
<1> QED
  BY <1>1, SessionsInvariant, PTL

(* Retry-After: when the time it named is over, a client is refused only for *)
(* guesses in a window opened after that answer.                             *)
THEOREM RetryAfterIsHonest == Spec => []RetryHonest
<1>1. SessionsInv => RetryHonest
  <2> SUFFICES ASSUME SessionsInv, NEW q \in Request, request[q].at = "limited",
                      clock >= request[q].now + request[q].retryAfter * Fraction,
                      failure[request[q].client].count >= MaxFailures,
                      clock < failure[request[q].client].since + Window
               PROVE  LET c == request[q].client
                          opener == guesses[c][Len(guesses[c]) - failure[c].count + 1]
                      IN  opener.at >= request[q].answered
    BY DEF RetryHonest
  <2>1. SessionsTypeOK /\ WaitCovered(q)
    BY DEF SessionsInv, WaitsCovered
  <2> DEFINE c == request[q].client
             x == request[q].retryAfter * Fraction
  <2>2. /\ c \in Client /\ request[q].now \in Nat /\ x \in Int /\ clock \in Nat
        /\ failure[c].since \in Nat /\ Window \in Nat
        /\ failure[c].count \in Nat /\ MaxFailures \in Nat \ {0}
    BY <2>1, LimitedHolds, LimiterTypes, SessionsAssumption
  <2>3. failure[c].count # 0 /\ ~(failure[c].since + Window <= request[q].now + x)
    <3> HIDE DEF c, x
    <3> QED
      BY <2>2 DEF c, x
  <2> QED
    BY <2>1, <2>3 DEF WaitCovered
<1> QED
  BY <1>1, SessionsInvariant, PTL

(* What begins after a logout was answered is refused. *)
THEOREM LogoutHolds == Spec => RevokedStaysOut
<1> DEFINE Out == \A q \in Request :
       /\ request[q].at = "lookup" /\ request[q].late
       /\ request'[q].at = "served"
       => Expired(request[q].session, clock)
<1>1. SessionsInv /\ [Next]_vars => Out
  <2> SUFFICES ASSUME SessionsInv, [Next]_vars, NEW q \in Request,
                      request[q].at = "lookup", request[q].late, request'[q].at = "served"
               PROVE  Expired(request[q].session, clock)
    OBVIOUS
  <2> DEFINE s == request[q].session
  <2>1. SessionsTypeOK /\ RevocationsKept /\ ClocksRead /\ LivesOK /\ ClaimsChecked
    BY DEF SessionsInv
  <2>2. request \in [Request -> AnyRequest] /\ clock \in Nat
    BY <2>1 DEF SessionsTypeOK
  <2>3. Lookup(q)
    BY <2>1, RequestChanges, RequestLeads
  <2>4. s \notin Unexpired(request[q].now)
    BY <2>2, <2>3 DEF Lookup, Become, Refused, Idle
  <2>5. s \in revoked \/ Expired(s, clock)
    BY <2>1 DEF RevocationsKept
  <2>6. s \in revoked => Expired(s, request[q].now)
    BY <2>4 DEF Unexpired
  <2>7. request[q].now \in Nat /\ request[q].now <= clock /\ s \in DOMAIN session
    BY <2>1, RequestHolds DEF ClocksRead, ClaimsChecked
  <2> QED
    BY <2>1, <2>2, <2>5, <2>6, <2>7, ExpiryStays
<1>2. Spec => [][Out]_vars
  BY <1>1, SessionsInvariant, PTL DEF Spec
<1> QED
  BY <1>2, PTL DEF RevokedStaysOut

(* A session is good exactly where and as long as it was meant to be. *)
THEOREM SessionsHonour == Spec => SessionsHonoured
<1> DEFINE Honour == \A q \in Request :
       LET s == request'[q].session
           same == session[s].password = auth.password /\ session[s].secret = auth.secret IN
       request'[q] # request[q] =>
         /\ request'[q].at = "served" =>
              same /\ request[q].now < session[s].at + session[s].life * Fraction
         /\ request'[q].at = "refused" =>
              \/ s \in signedOut
              \/ ~same
              \/ clock >= session[s].at + (session[s].life - 1) * Fraction
<1>1. SessionsInv /\ [Next]_vars => Honour
  <2> SUFFICES ASSUME SessionsInv, [Next]_vars, NEW q \in Request, request'[q] # request[q]
      PROVE  LET s == request'[q].session
                 same == session[s].password = auth.password /\ session[s].secret = auth.secret IN
             /\ request'[q].at = "served" =>
                  same /\ request[q].now < session[s].at + session[s].life * Fraction
             /\ request'[q].at = "refused" =>
                  \/ s \in signedOut
                  \/ ~same
                  \/ clock >= session[s].at + (session[s].life - 1) * Fraction
    OBVIOUS
  <2> DEFINE s == request'[q].session
             same == session[s].password = auth.password /\ session[s].secret = auth.secret
  <2>1. SessionsTypeOK /\ RevocationsKept /\ LivesOK /\ ClaimsChecked
    BY DEF SessionsInv
  <2>2. request \in [Request -> AnyRequest] /\ clock \in Nat /\ Fraction \in Nat
    BY <2>1, SessionsAssumption DEF SessionsTypeOK
  <2>3. ASSUME request'[q].at = "served"
        PROVE  same /\ request[q].now < session[s].at + session[s].life * Fraction
    <3>1. Lookup(q)
      BY <2>1, <2>3, RequestChanges, RequestLeads
    <3>2. s = request[q].session
      BY <2>1, <2>3, <3>1, RequestLeads
    <3>3. same /\ s \in DOMAIN session /\ ~Expired(s, request[q].now) /\ request[q].now \in Nat
      BY <2>1, <3>1, <3>2, RequestHolds DEF ClaimsChecked, Lookup
    <3>4. /\ session[s].expiresAt * Fraction <= session[s].at + session[s].life * Fraction
          /\ session[s].expiresAt * Fraction \in Int /\ session[s] \in Session
      BY <2>1, <3>3, SessionLives
    <3>5. session[s].at \in Nat /\ session[s].life * Fraction \in Int
      BY <2>2, <3>4 DEF Session
    <3>6. request[q].now < session[s].expiresAt * Fraction
      BY <3>3, <3>4 DEF Expired
    <3> QED
      BY <3>3, <3>4, <3>5, <3>6
  <2>4. ASSUME request'[q].at = "refused", s \notin signedOut, same
        PROVE  clock >= session[s].at + (session[s].life - 1) * Fraction
    <3>1. ~Lookup(q)
      <4>1. ASSUME Lookup(q) PROVE FALSE
        <5>1. s = request[q].session /\ s \in Unexpired(request[q].now)
          BY <2>2, <2>4, <4>1 DEF Lookup, Become, Refused, Idle
        <5> QED
          BY <2>1, <2>4, <5>1 DEF Unexpired, RevocationsKept
      <4> QED
        BY <4>1
    <3>2. PICK p \in DOMAIN session : Present(q, p)
      BY <2>1, <2>4, <3>1, RequestChanges, RequestLeads
    <3>3. s = p /\ ~ValidClaims(p)
      BY <2>1, <2>4, <3>2, RequestLeads
    <3>4. /\ session[s].expiresAt - session[s].issuedAt <= MaxTTL
          /\ session[s].issuedAt > 0 /\ session[s].expiresAt > session[s].issuedAt
          /\ session[s].expiresAt * Fraction >= session[s].at + (session[s].life - 1) * Fraction
          /\ session[s].expiresAt * Fraction \in Int /\ session[s] \in Session
      BY <2>1, <3>3, SessionLives
    <3>5. clock >= session[s].expiresAt * Fraction
      BY <2>4, <3>3, <3>4 DEF ValidClaims, Expired
    <3>6. session[s].at \in Nat /\ (session[s].life - 1) * Fraction \in Int
      BY <2>2, <3>4 DEF Session
    <3> QED
      BY <2>2, <3>4, <3>5, <3>6
  <2> QED
    BY <2>3, <2>4
<1>2. Spec => [][Honour]_vars
  BY <1>1, SessionsInvariant, PTL DEF Spec
<1> QED
  BY <1>2, PTL DEF SessionsHonoured

=============================================================================
