------------------------------ MODULE Sessions ------------------------------
(***************************************************************************)
(* The access gate (internal/api/auth.go): the login limiter, the signed   *)
(* sessions and their revocation, in server processes that start from an   *)
(* environment, stop, and lose what they keep in memory.                   *)
(*                                                                         *)
(* A request is one goroutine.  It reads the clock, and takes failureMu or *)
(* sessionMu, at moments of its own, so others run between any two of its  *)
(* steps.  A signature is what a secret makes of the claims: whoever does  *)
(* not hold the secret cannot present one, so the sessions presented are   *)
(* those that were issued.  The clock counts ticks, Fraction to a second.  *)
(***************************************************************************)
EXTENDS Integers, Sequences

CONSTANTS Request,
          Client,             \* addresses that log in
          Proxy,              \* addresses in APP_AUTH_TRUSTED_PROXY_CIDRS
          Password, Secret,
          WeakSecret,         \* shorter than 32 bytes, or the password itself
          None,
          MaxFailures,        \* maxLoginFailures
          Window,             \* loginFailureWindow, in ticks
          Fraction,
          TTL,                \* APP_AUTH_SESSION_TTL_HOURS as set, in seconds
          MaxTTL,             \* maxSessionTTL, in seconds
          Stall,              \* ticks a login may lose before it has failureMu
          MaxClock, MaxSessions, MaxGuesses  \* bounds

ASSUME SessionsAssumption ==
  /\ MaxFailures \in Nat \ {0} /\ Fraction \in Nat \ {0} /\ MaxTTL \in Nat \ {0}
  /\ Window \in Nat /\ Stall \in Nat /\ TTL \subseteq Nat
  /\ MaxClock \in Nat /\ MaxSessions \in Nat /\ MaxGuesses \in [Client -> Nat]
  /\ Client \cap Proxy = {} /\ WeakSecret \subseteq Secret
  /\ None \notin Client \cup Proxy \cup Password \cup Secret

VARIABLES
  clock,
  auth,      \* the authenticator of the running process, or None
  failure,   \* failuresBySource
  revoked,   \* revokedSessions: the sessions whose hash is a key of it
  session,   \* the sessions issued so far
  request,
  guesses,   \* of each client, its wrong guesses since it last logged in
  signedOut  \* the sessions whose logout was answered by this process

memory == <<failure, revoked, guesses, signedOut>>
vars == <<clock, auth, memory, session, request>>

Environment == [password : Password \cup {None}, secret : Secret \cup {None},
                ttl : TTL, test : BOOLEAN]
Authenticator == [configured : BOOLEAN, password : Password \cup {None},
                  secret : Secret \cup {None}, ttl : Nat]
NoFailures == [since |-> 0, count |-> 0]

(* iat and exp in seconds.  The password version is an HMAC of the password *)
(* under the secret: two of them are equal when both are.                   *)
Session == [issuedAt : Nat, expiresAt : Nat, password : Password, secret : Secret,
            at : Nat, life : Nat]   \* the tick of its issue, the TTL of then

Guess == [at : Nat, opens : BOOLEAN]   \* opens: it started the window it counts in

(* A request, and what its goroutine holds where it stands.  One that is free *)
(* keeps its last answer, where a property is about it.                       *)
Idle == [at |-> "idle"]
AnyRequest ==
  {Idle, [at |-> "issue"]}
  \cup [at : {"verify"}, client : Client, right : BOOLEAN, now : Nat, source : Client \cup Proxy]
  \cup [at : {"limited"}, client : Client, now : Nat, answered : Nat, retryAfter : Int]
  \cup [at : {"lookup"}, session : Nat, now : Nat, purpose : {"use", "logout"}, late : BOOLEAN]
  \cup [at : {"served", "refused", "revoke"}, session : Nat]

-----------------------------------------------------------------------------
(* newAuthenticatorFromEnv, which refuses to start on a bad configuration. *)
Startable(env) ==
  /\ env.ttl \in 1..MaxTTL
  /\ \/ env.test /\ None \in {env.password, env.secret}
     \/ None \notin {env.password, env.secret} /\ env.secret \notin WeakSecret
NewAuthenticator(env) ==
  IF None \in {env.password, env.secret}
  THEN [configured |-> FALSE, password |-> None, secret |-> None, ttl |-> env.ttl]
  ELSE [configured |-> TRUE, password |-> env.password, secret |-> env.secret, ttl |-> env.ttl]

(* The first of these that is an address; None is an entry that is not. *)
FirstAddress(forwarded, realIP, peer) ==
  LET last == IF forwarded = << >> THEN None ELSE forwarded[Len(forwarded)] IN
  IF last # None THEN last ELSE IF realIP # None THEN realIP ELSE peer
(* Variant with a defect: whoever sends the headers is believed. *)
RequestSourceAny(peer, forwarded, realIP) == FirstAddress(forwarded, realIP, peer)
(* requestSource: a trusted proxy appends the address it was called from to *)
(* X-Forwarded-For; from any other peer the headers are ignored.            *)
RequestSource(peer, forwarded, realIP) ==
  IF peer \in Proxy THEN FirstAddress(forwarded, realIP, peer) ELSE peer

Configured == auth # None /\ auth.configured
Become(q, r) == request' = [request EXCEPT ![q] = r]
Free(q) == request[q].at \notin {"verify", "issue", "lookup", "revoke"}

Unix(t) == t \div Fraction
Expired(s, t) == t >= session[s].expiresAt * Fraction

Init ==
  /\ clock = Fraction   \* the epoch lies behind
  /\ auth = None
  /\ failure = [c \in Client |-> NoFailures]
  /\ revoked = {} /\ signedOut = {}
  /\ session = << >>
  /\ request = [q \in Request |-> Idle]
  /\ guesses = [c \in Client |-> << >>]

-----------------------------------------------------------------------------
(* A process starts; with a bad configuration it exits instead.  What the   *)
(* one before kept in memory is gone.                                       *)
Start(env) ==
  /\ auth = None
  /\ Startable(env)
  /\ auth' = NewAuthenticator(env)
  /\ failure' = [c \in Client |-> NoFailures]
  /\ revoked' = {} /\ signedOut' = {}
  /\ guesses' = [c \in Client |-> << >>]
  /\ UNCHANGED <<clock, session, request>>

(* It stops, or crashes, and its requests with it. *)
Stop ==
  /\ auth # None
  /\ auth' = None
  /\ request' = [q \in Request |-> Idle]
  /\ UNCHANGED <<clock, memory, session>>

(* Time passes, but no login stays between its reading of the clock and     *)
(* failureMu for longer than Stall.                                         *)
Tick ==
  /\ clock < MaxClock
  /\ \A q \in Request : request[q].at = "verify" => clock < request[q].now + Stall
  /\ clock' = clock + 1
  /\ UNCHANGED <<auth, memory, session, request>>

(* login, up to the reading of the clock, by a client that calls by itself  *)
(* or through a proxy and puts any address into the headers.  An empty or    *)
(* malformed body ends before this and leaves no trace.                     *)
Login(q, c) ==
  /\ Configured /\ Free(q) /\ Len(guesses[c]) < MaxGuesses[c]
  /\ \E forged \in Client \cup {None}, right \in BOOLEAN, peer \in {c} \cup Proxy :
       LET forwarded == IF peer = c THEN <<forged>> ELSE <<forged, c>> IN
       Become(q, [at |-> "verify", client |-> c, right |-> right, now |-> clock,
                  source |-> RequestSource(peer, forwarded, forged)])
  /\ UNCHANGED <<clock, auth, memory, session>>

(* Variant with a defect: every source is kept for a tick less. *)
PrunedEarly(now) ==
  [c \in Client |-> IF now + 1 >= failure[c].since + Window THEN NoFailures ELSE failure[c]]
(* pruneFailuresLocked: of any source, when its window is over. *)
Pruned(now) ==
  [c \in Client |-> IF now >= failure[c].since + Window THEN NoFailures ELSE failure[c]]

(* Variant with a defect: the seconds are rounded down. *)
RetryAfterDown(remaining) == IF remaining < Fraction THEN 1 ELSE remaining \div Fraction
(* max(1, ceil(remaining)) in seconds *)
RetryAfter(remaining) ==
  IF remaining <= Fraction THEN 1 ELSE (remaining + Fraction - 1) \div Fraction

(* verifyLogin, under failureMu, with the clock read before *)
Verify(q) ==
  LET c == request[q].client
      source == request[q].source
      now == request[q].now
      kept == Pruned(now)
      opens == kept[source].count = 0
      since == IF opens THEN now ELSE kept[source].since IN
  /\ request[q].at = "verify"
  /\ \/ /\ kept[source].count >= MaxFailures
        /\ failure' = kept
        /\ Become(q, [at |-> "limited", client |-> c, now |-> now, answered |-> clock,
                      retryAfter |-> RetryAfter(since + Window - now)])
        /\ UNCHANGED guesses
     \/ /\ kept[source].count < MaxFailures /\ request[q].right
        /\ failure' = [kept EXCEPT ![source] = NoFailures]
        /\ guesses' = [guesses EXCEPT ![c] = << >>]
        /\ Become(q, [at |-> "issue"])
     \/ /\ kept[source].count < MaxFailures /\ ~request[q].right
        /\ failure' = [kept EXCEPT ![source] = [since |-> since, count |-> kept[source].count + 1]]
        /\ guesses' = [guesses EXCEPT ![c] = Append(@, [at |-> clock, opens |-> opens])]
        /\ Become(q, Idle)
  /\ UNCHANGED <<clock, auth, revoked, signedOut, session>>

(* createSession, which reads the clock again; the nonce may not be had. *)
Issue(q) ==
  /\ request[q].at = "issue"
  /\ \/ /\ Len(session) < MaxSessions
        /\ session' = Append(session,
             [issuedAt |-> Unix(clock), expiresAt |-> Unix(clock + auth.ttl * Fraction),
              password |-> auth.password, secret |-> auth.secret,
              at |-> clock, life |-> auth.ttl])
     \/ UNCHANGED session
  /\ Become(q, Idle)
  /\ UNCHANGED <<clock, auth, memory>>

-----------------------------------------------------------------------------
(* Variant with a defect: the claims are believed without their password. *)
ValidClaimsAnyPassword(s) ==
  /\ session[s].secret = auth.secret
  /\ session[s].issuedAt > 0 /\ session[s].expiresAt > session[s].issuedAt
  /\ session[s].expiresAt - session[s].issuedAt <= MaxTTL
  /\ ~Expired(s, clock)
(* validateSession up to sessionRevoked *)
ValidClaims(s) ==
  /\ session[s].secret = auth.secret
  /\ session[s].password = auth.password
  /\ session[s].issuedAt > 0 /\ session[s].expiresAt > session[s].issuedAt
  /\ session[s].expiresAt - session[s].issuedAt <= MaxTTL
  /\ ~Expired(s, clock)

(* validateSession refuses; logout answers 204 all the same. *)
Refused(s, purpose) ==
  IF purpose = "use" THEN [at |-> "refused", session |-> s] ELSE Idle

(* A session is presented, for a protected endpoint or authSession ("use"), *)
(* or to be logged out; late: its logout was answered before this began.    *)
Present(q, s) ==
  /\ Configured /\ Free(q)
  /\ \E purpose \in {"use", "logout"} :
       Become(q, IF ValidClaims(s)
                 THEN [at |-> "lookup", session |-> s, now |-> clock, purpose |-> purpose,
                       late |-> s \in signedOut]
                 ELSE Refused(s, purpose))
  /\ UNCHANGED <<clock, auth, memory, session>>

(* Variant with a defect: a revocation is dropped a tick before its session ends. *)
UnexpiredEarly(now) == {s \in revoked : ~Expired(s, now + 1)}
(* What sessionRevoked keeps. *)
Unexpired(now) == {s \in revoked : ~Expired(s, now)}

(* sessionRevoked, under sessionMu, with the clock that validateSession read *)
Lookup(q) ==
  LET s == request[q].session IN
  /\ request[q].at = "lookup"
  /\ revoked' = Unexpired(request[q].now)
  /\ Become(q, IF s \in revoked' THEN Refused(s, request[q].purpose)
               ELSE [at |-> IF request[q].purpose = "use" THEN "served" ELSE "revoke",
                     session |-> s])
  /\ UNCHANGED <<clock, auth, failure, guesses, signedOut, session>>

(* revokeSession: sessionMu is taken anew; logout is answered. *)
Revoke(q) ==
  /\ request[q].at = "revoke"
  /\ revoked' = revoked \cup {request[q].session}
  /\ signedOut' = signedOut \cup {request[q].session}
  /\ Become(q, Idle)
  /\ UNCHANGED <<clock, auth, failure, guesses, session>>

Next ==
  \/ \E env \in Environment : Start(env)
  \/ Stop
  \/ Tick
  \/ \E q \in Request :
       \/ \E c \in Client : Login(q, c)
       \/ Verify(q)
       \/ Issue(q)
       \/ \E s \in DOMAIN session : Present(q, s)
       \/ Lookup(q)
       \/ Revoke(q)

Spec == Init /\ [][Next]_vars

-----------------------------------------------------------------------------
(* The values the variables take. *)
SessionsTypeOK ==
  /\ clock \in Nat
  /\ auth \in Authenticator \cup {None}
  /\ failure \in [Client -> [since : Nat, count : Nat]]
  /\ session \in Seq(Session)
  /\ revoked \subseteq DOMAIN session /\ signedOut \subseteq DOMAIN session
  /\ request \in [Request -> AnyRequest]
  /\ guesses \in [Client -> Seq(Guess)]

(* The limiter.  maxLoginFailures counts within a window that the first     *)
(* wrong guess opens, so more than that many fit into a window's time, but  *)
(* twice as many never do, whatever a client puts into its headers,         *)
(* however the requests of all clients overlap and whichever of them prunes *)
(* the windows.                                                             *)
GuessesSpaced ==
  \A c \in Client : \A i, j \in DOMAIN guesses[c] :
    j = i + 2 * MaxFailures - 1 => guesses[c][j].at >= guesses[c][i].at + Window - Stall

(* Retry-After.  When the time a client was told to wait has passed, only   *)
(* guesses made after that answer can make the limiter refuse it.           *)
RetryHonest ==
  \A q \in Request :
    LET c == request[q].client
        opener == guesses[c][Len(guesses[c]) - failure[c].count + 1] IN
    /\ request[q].at = "limited"
    /\ clock >= request[q].now + request[q].retryAfter * Fraction
    /\ failure[c].count >= MaxFailures
    /\ clock < failure[c].since + Window
    => opener.at >= request[q].answered

(* Logout.  A request that begins after a session's logout was answered is  *)
(* refused by this process; only a session that meets its expiry while it   *)
(* is being checked can slip through, its revocation being pruned.          *)
RevokedStaysOut ==
  [][\A q \in Request :
       /\ request[q].at = "lookup" /\ request[q].late
       /\ request'[q].at = "served"
       => Expired(request[q].session, clock)]_vars

(* Across processes, restarts and rotations: a session is accepted only by  *)
(* a process with the password and secret that issued it, within the life   *)
(* it was issued for; and it is refused only if it was logged out in this   *)
(* process, belongs to another password or secret, or is in the last second *)
(* of its life (which the truncation to seconds may cost) or beyond it.     *)
SessionsHonoured ==
  [][\A q \in Request :
       LET s == request'[q].session
           same == session[s].password = auth.password /\ session[s].secret = auth.secret IN
       request'[q] # request[q] =>
         /\ request'[q].at = "served" =>
              same /\ request[q].now < session[s].at + session[s].life * Fraction
         /\ request'[q].at = "refused" =>
              \/ s \in signedOut
              \/ ~same
              \/ clock >= session[s].at + (session[s].life - 1) * Fraction]_vars
-----------------------------------------------------------------------------
(* What the properties rest on.                                            *)

(* A process that is not configured, or does not run, has no requests; the *)
(* others have a configuration that newAuthenticatorFromEnv accepts.       *)
ProcessOK ==
  /\ ~Configured => \A q \in Request : request[q] = Idle
  /\ Configured => auth.password \in Password /\ auth.secret \in Secret /\ auth.ttl \in 1..MaxTTL

(* The clock a request read is not ahead, and not far behind in a login;   *)
(* the address it counts under is its client's.                            *)
ClocksRead ==
  \A q \in Request :
    /\ request[q].at = "verify" =>
         /\ request[q].source = request[q].client
         /\ request[q].now <= clock /\ clock <= request[q].now + Stall
    /\ request[q].at = "lookup" => request[q].now <= clock

(* Guesses are in the order of the clock; the first of any opens a window. *)
GuessesInOrder ==
  \A c \in Client :
    /\ \A i \in DOMAIN guesses[c] : guesses[c][i].at <= clock
    /\ \A i, j \in DOMAIN guesses[c] : i <= j => guesses[c][i].at <= guesses[c][j].at

(* Two windows of a client do not overlap by more than a stall, and none   *)
(* holds more than maxLoginFailures guesses.                               *)
WindowsApart ==
  \A c \in Client : \A i, j \in DOMAIN guesses[c] :
    i < j /\ guesses[c][i].opens /\ guesses[c][j].opens
    => guesses[c][j].at >= guesses[c][i].at + Window - Stall
WindowsFull ==
  \A c \in Client : \A i, j \in DOMAIN guesses[c] :
    j = i + MaxFailures - 1 => \E o \in i..j : guesses[c][o].opens

(* What is counted is the last window; without one, the last is over.      *)
CountsLastWindow ==
  \A c \in Client :
    LET n == Len(guesses[c]) - failure[c].count + 1 IN
    IF failure[c].count = 0
    THEN \A i \in DOMAIN guesses[c] :
           guesses[c][i].opens => clock >= guesses[c][i].at + Window - Stall
    ELSE /\ failure[c].count <= MaxFailures
         /\ n \in DOMAIN guesses[c] /\ guesses[c][n].opens
         /\ failure[c].since <= guesses[c][n].at
         /\ guesses[c][n].at <= failure[c].since + Stall
         /\ \A i \in DOMAIN guesses[c] : guesses[c][i].opens => i <= n

(* A client that was refused was told to wait until its window is over,    *)
(* unless that window has been opened since.                               *)
WaitCovered(q) ==
  LET c == request[q].client
      opener == guesses[c][Len(guesses[c]) - failure[c].count + 1] IN
  \/ failure[c].count = 0
  \/ opener.at >= request[q].answered
  \/ failure[c].since + Window <= request[q].now + request[q].retryAfter * Fraction
WaitsCovered ==
  \A q \in Request :
    request[q].at = "limited" => request[q].answered <= clock /\ WaitCovered(q)

(* A logged-out session is revoked until it has expired. *)
RevocationsKept ==
  /\ \A s \in signedOut : s \in revoked \/ Expired(s, clock)
  /\ revoked \subseteq signedOut
  /\ \A q \in Request :
       request[q].at = "lookup" /\ request[q].late => request[q].session \in signedOut

(* A session lives as long as its process said, in whole seconds; what is  *)
(* about to be looked up has valid claims.                                 *)
LivesOK ==
  \A s \in DOMAIN session :
    /\ session[s].issuedAt > 0
    /\ session[s].expiresAt = session[s].issuedAt + session[s].life
    /\ session[s].life \in 1..MaxTTL
    /\ session[s].issuedAt * Fraction <= session[s].at
    /\ session[s].at < session[s].issuedAt * Fraction + Fraction
ClaimsChecked ==
  /\ clock >= Fraction
  /\ \A q \in Request :
       /\ request[q].at \in {"lookup", "revoke"} => request[q].session \in DOMAIN session
       /\ request[q].at = "lookup" =>
            LET s == request[q].session IN
            /\ session[s].secret = auth.secret /\ session[s].password = auth.password
            /\ ~Expired(s, request[q].now)

(* The inductive invariant, of the limiter and of the sessions. *)
SessionsInv ==
  /\ SessionsTypeOK /\ ProcessOK /\ ClocksRead
  /\ GuessesInOrder /\ WindowsApart /\ WindowsFull /\ CountsLastWindow /\ WaitsCovered
  /\ RevocationsKept /\ LivesOK /\ ClaimsChecked

=============================================================================
