--------------------------- MODULE MCReleaseStore ---------------------------
(***************************************************************************)
(* Instance of ReleaseStore: the store of a component that Manager owns,   *)
(* and that BootstrapCurrent registers at every start of the agent.        *)
(***************************************************************************)
EXTENDS ReleaseStore

ManagedOps == {"stage", "revert", "prune", "bootstrap"}

(* Every system call of the store may fail,                                *)
AnyFault == StageSteps \cup DiscardSteps \cup PromoteSteps \cup SwitchSteps
              \cup RevertSteps \cup PruneSteps \cup {"boot.ptr"}
(* or all but the removal of the staged pointer that ends Promote.         *)
FaultBeforeUnstage == AnyFault \ {"promote.unstage"}

EitherOutcome == {"rejected", "error"}
=============================================================================
