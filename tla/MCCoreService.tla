---------------------------- MODULE MCCoreService ----------------------------
(***************************************************************************)
(* Instances of CoreService.  Release 1 is installed and fit, 2 runs and   *)
(* fails validation, 3 does not come up, 4 is fit.                         *)
(***************************************************************************)
EXTENDS CoreService

CoreOps == {"stage", "switch", "prune"}

(* Promote may fail before "current" moves.                                *)
PromoteFault == {"promote.cur", "promote.prev", "promote.act"}

(* So may PromoteVersion, on the way to the new release or back.           *)
ActivationFault == PromoteFault \cup SwitchSteps

AnyCall == {"seen", "stop", "start", "undo.stop", "undo.start", "record"}
=============================================================================
