---------------------------- MODULE MCSelfUpdate ----------------------------
(***************************************************************************)
(* Instances of SelfUpdate.  Release 1 is the one install.sh laid out,     *)
(* and good; 2 dies on startup; 3 reports another version than its own;    *)
(* 4, where there is one, is a good update.                                *)
(***************************************************************************)
EXTENDS SelfUpdate

SeededOps == {"stage", "revert", "prune"}

(* Phases that are not in the middle of an automatic rollback.             *)
BeforeRecovery == {"serve", "guard", "start", "resume", "resume.commit"}

RevertFault == {"revert.cur", "revert.act", "revert.swap"}

(* Kills after a forced rollback and at both ends of a trial: none         *)
(* separates a switch from its marker, or the two pointer writes of a      *)
(* rollback, and those around the deletion of the marker repeat it.        *)
Guarded == {"guard", "guard.reset", "start", "resume", "resume.commit", "resume.clear"}

(* Everything but the deletion of the boot counter after a forced rollback *)
(* may be cut off by a kill; every write may fail but the counter's and    *)
(* the deletion of the marker after a forced rollback.                     *)
OutsideReset == Phases \ {"down", "guard.reset"}
AroundReset  == Writes \ {"guard.clear", "guard.reset", "resume.reset"}

(* Rows and counts an automatic rollback and a trial can do without.       *)
Dispensable == {"guard.count", "guard.reset", "resume.reset", "install.record", "install.mark",
                "rollback.record"}
=============================================================================
