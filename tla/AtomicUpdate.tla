----------------------------- MODULE AtomicUpdate -----------------------------
(***************************************************************************)
(* What the self-updater promises of the installation as a whole: an       *)
(* update takes effect at one instant and completely, or not at all, and   *)
(* success is claimed only where the release is installed.  There are no   *)
(* files, gates, backups or hashes here: UpdateApply has those, and        *)
(* implements this module.                                                 *)
(*                                                                         *)
(* `installed` is what the run found until it is over, and then what it    *)
(* leaves.  Two things the updater does not survive, and they are steps    *)
(* here: a rollback that the storage fails, and the loss of the process    *)
(* while files are being exchanged.                                        *)
(***************************************************************************)
CONSTANTS
  Before, After,  \* the installation without and with the release
  Setups          \* anything the files may add up to

VARIABLES
  installed,
  stage,     \* of the last update, or "down"
  torn,      \* has the storage failed under this update's rollback
  claim      \* is a success shown to the operator

vars == <<installed, stage, torn, claim>>

Init ==
  /\ installed = Before
  /\ stage = "idle"
  /\ torn = FALSE
  /\ claim = FALSE

Begin ==
  /\ stage \in {"idle", "failed"}
  /\ stage' = "preparing"
  /\ torn' = FALSE
  /\ UNCHANGED <<installed, claim>>

\* From here on files are exchanged.
Commit ==
  /\ stage = "preparing"
  /\ stage' = "exchanging"
  /\ UNCHANGED <<installed, torn, claim>>

\* The whole release at once; the result of an earlier update may be overwritten.
TakeEffect ==
  /\ stage = "exchanging"
  /\ stage' = "done"
  /\ installed' = After
  /\ claim' \in {claim, FALSE}
  /\ UNCHANGED torn

Tear ==
  /\ stage = "exchanging"
  /\ torn' = TRUE
  /\ UNCHANGED <<installed, stage, claim>>

GiveUp ==
  /\ stage \in {"preparing", "exchanging"}
  /\ stage' = "failed"
  /\ UNCHANGED installed \/ (torn /\ installed' \in Setups)
  /\ UNCHANGED <<torn, claim>>

Die ==
  /\ stage # "down"
  /\ stage' = "down"
  /\ UNCHANGED installed \/ (stage = "exchanging" /\ installed' \in Setups)
  /\ torn' = FALSE
  /\ UNCHANGED claim

\* A start may fail, before or after it has looked at how the last update went.
Start ==
  /\ stage = "down"
  /\ stage' \in {"idle", "down"}
  /\ UNCHANGED claim \/ (installed = After /\ claim' = TRUE)
  /\ UNCHANGED <<installed, torn>>

Dismiss ==
  /\ stage # "down"
  /\ claim' = FALSE
  /\ UNCHANGED <<installed, stage, torn>>

Next == Begin \/ Commit \/ TakeEffect \/ Tear \/ GiveUp \/ Die \/ Start \/ Dismiss

Spec == Init /\ [][Next]_vars
=============================================================================
