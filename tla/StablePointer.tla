---------------------------- MODULE StablePointer ----------------------------
(***************************************************************************)
(* What a project promises about its stable version, without attempts,     *)
(* stages, drafts or processes.  Publications are serialised by one lock   *)
(* that a run holds while it is active.  A run publishes over the version  *)
(* it started from and nothing else, and gives the lock back with that     *)
(* step; whoever finds the lock free may edit or restore.                  *)
(***************************************************************************)
EXTENDS Integers

CONSTANTS Run, NoRun, Version, NoVersion

VARIABLES
  stable,     \* the version everybody sees
  published,  \* the versions that have been stable
  holder,     \* the active run
  base,       \* what each known run started from
  known       \* the runs there are

pointerVars == <<stable, published, holder, base, known>>

Init ==
  /\ stable = NoVersion
  /\ published = {}
  /\ holder = NoRun
  /\ base = [r \in Run |-> NoVersion]
  /\ known = {}

Free == holder = NoRun

(* a new run starts from the stable version; it need not take the lock *)
Request(r) ==
  /\ Free
  /\ r \notin known
  /\ known' = known \cup {r}
  /\ base' = [base EXCEPT ![r] = stable]
  /\ holder' \in {r, NoRun}
  /\ UNCHANGED <<stable, published>>

(* a run that gave up may come back, with the base it had *)
Resume(r) ==
  /\ Free
  /\ r \in known
  /\ holder' = r
  /\ UNCHANGED <<stable, published, base, known>>

Publish(v) ==
  /\ ~Free
  /\ base[holder] = stable
  /\ v \notin published
  /\ stable' = v
  /\ published' = published \cup {v}
  /\ holder' = NoRun
  /\ UNCHANGED <<base, known>>

GiveUp ==
  /\ ~Free
  /\ holder' = NoRun
  /\ UNCHANGED <<stable, published, base, known>>

Edit(v) ==
  /\ Free
  /\ stable # NoVersion
  /\ v \notin published
  /\ stable' = v
  /\ published' = published \cup {v}
  /\ UNCHANGED <<holder, base, known>>

Restore(v) ==
  /\ Free
  /\ v \in published
  /\ stable' = v
  /\ UNCHANGED <<published, holder, base, known>>

Next ==
  \/ GiveUp
  \/ \E r \in Run : Request(r) \/ Resume(r)
  \/ \E v \in Version : Publish(v) \/ Edit(v) \/ Restore(v)

PointerSpec == Init /\ [][Next]_pointerVars
=============================================================================
