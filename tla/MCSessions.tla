----------------------------- MODULE MCSessions -----------------------------
(* Sessions, for TLC: one client guesses on, another one once. *)
EXTENDS Sessions, TLC

CONSTANTS c1, c2
TwoClients == {c1, c2}
FourAndOne == c1 :> 4 @@ c2 :> 1

Renaming == Permutations(Password) \cup Permutations(Request)

(* What is over by a whole window, whatever clock a login has read, does not  *)
(* tell states apart: no action and no property looks at when it happened.    *)
(* Nor does what a session that is not looked up any more was answered.       *)
Recent ==
  <<clock, auth, session, revoked, signedOut, Pruned(clock - Stall),
    [q \in Request |-> IF request[q].at \in {"served", "refused"} THEN Idle ELSE request[q]],
    [c \in Client |-> [i \in DOMAIN guesses[c] |->
       IF guesses[c][i].at + Window <= clock THEN 0 ELSE guesses[c][i].at]],
    [c \in Client |-> [i \in DOMAIN guesses[c] |-> guesses[c][i].opens]]>>

=============================================================================
