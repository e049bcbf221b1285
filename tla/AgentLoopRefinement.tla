------------------------- MODULE AgentLoopRefinement -------------------------
(***************************************************************************)
(* AgentLoop implements StablePointer: the lock is "a run of the project   *)
(* is queued or running", and every version in status "stable" has been    *)
(* the stable one.                                                         *)
(***************************************************************************)
EXTENDS AgentLoop

Published == {v \in Version : version[v].status = "stable"}
Holder    == IF NoActiveRun THEN NoRun ELSE CHOOSE r \in Run : Active(r)
Bases     == [r \in Run |-> run[r].base]
Known     == {r \in Run : RunExists(r)}

Pointer == INSTANCE StablePointer WITH
  published <- Published, holder <- Holder, base <- Bases, known <- Known

(* Retries, watchdog cancellations, late writes of loops that ended, crashes *)
(* and reconciliation at start-up never move the stable version otherwise    *)
(* than the active run's own publication, an edit or a restore would.        *)
ImplementsPointer == Pointer!PointerSpec
=============================================================================
