---------------------------- MODULE ReleaseStore ----------------------------
(***************************************************************************)
(* The on-disk release store of one OTA-managed component                  *)
(* (agent/updates/store): a directory per installed release and three      *)
(* pointer files, "current", "previous" and "staged".  Each pointer file   *)
(* is replaced by an atomic rename, but every operation of the store is a  *)
(* sequence of several file-system steps, nothing locks the store, and the *)
(* process may die, or a system call may fail, between any two steps.      *)
(*                                                                         *)
(* One action is one file-system step.  at[c] is the step that caller c (a *)
(* goroutine serving an HTTP request, or the startup code) performs next;  *)
(* ver[c], seen[c] and list[c] are the Go locals that live across steps.   *)
(* A staging caller also extracts the artifact between Stage and Promote,  *)
(* and calls DiscardStaged(true) when that fails, as Manager.Install and   *)
(* QRXCoreUpdateManager.Update do.                                         *)
(***************************************************************************)
EXTENDS Integers, FiniteSets

CONSTANTS
  Versions,           \* release versions, numbered in the lexical order of their names
  NoVersion,          \* an absent pointer file
  Bundled,            \* version compiled into the binary that calls BootstrapCurrent
  Callers,            \* goroutines that use the store
  Ops,                \* the operations the component's owner calls
  Retain,             \* Prune's retain argument
  FaultyAt,           \* steps whose system call may return an error
  AfterFailedPromote  \* what the owner does then: "rejected" (DiscardStaged) or "error"

AllOps == {"stage", "switch", "revert", "prune", "bootstrap"}

ASSUME VersionsAssumption ==
  Versions \subseteq Nat /\ IsFiniteSet(Versions) /\ NoVersion \notin Versions
ASSUME BundledAssumption == Bundled \in Versions
ASSUME OwnerAssumption ==
  /\ Ops \subseteq AllOps
  /\ Retain \in Nat
  /\ AfterFailedPromote \subseteq {"rejected", "error"} /\ AfterFailedPromote # {}

VARIABLES
  current, previous, staged,  \* the pointer files
  files,                      \* contents of each releases/<version> directory
  at, ver, seen, list         \* per caller: next step, and the locals it uses

pointers == <<current, previous, staged>>
locals   == <<at, ver, seen, list>>
storeVars == <<current, previous, staged, files, at, ver, seen, list>>

Ready == {"done", "error"}

StageSteps   == {"stage.prev", "stage.dir", "stage.ptr"}
ExtractSteps == {"staged", "extract", "filled", "rejected"}
DiscardSteps == {"discard.rm", "discard.rmdir", "discard.ptr"}
PromoteSteps == {"promote.cur", "promote.prev", "promote.act", "promote.unstage"}
SwitchSteps  == {"switch.cur", "switch.prev", "switch.act"}
RevertSteps  == {"revert.cur", "revert.act", "revert.swap"}
PruneSteps   == {"prune.cur", "prune.prev", "prune.staged", "prune.rm", "prune.rmdir"}
Steps == Ready \cup StageSteps \cup ExtractSteps \cup DiscardSteps \cup PromoteSteps
           \cup SwitchSteps \cup RevertSteps \cup PruneSteps \cup {"boot.ptr"}

ASSUME FaultyAssumption == FaultyAt \subseteq Steps \ (Ready \cup ExtractSteps)

Pointer  == Versions \cup {NoVersion}
Contents == {"absent", "partial", "complete"}

Installed == {v \in Versions : files[v] # "absent"}
Referenced == {current, previous, staged}

TypeOK ==
  /\ current \in Pointer /\ previous \in Pointer /\ staged \in Pointer
  /\ files \in [Versions -> Contents]
  /\ at \in [Callers -> Steps]
  /\ ver \in [Callers -> Pointer]
  /\ seen \in [Callers -> Pointer]
  /\ list \in [Callers -> SUBSET Versions]

(***************************************************************************)
(* A component starts with an empty store, or with the release install.sh  *)
(* laid out and pointed "current" at.                                      *)
(***************************************************************************)
StoreInit ==
  /\ \/ current = NoVersion /\ files = [v \in Versions |-> "absent"]
     \/ /\ current = Bundled
        /\ files = [v \in Versions |-> IF v = Bundled THEN "complete" ELSE "absent"]
  /\ previous = NoVersion
  /\ staged = NoVersion
  /\ at = [c \in Callers |-> "done"]
  /\ ver = [c \in Callers |-> NoVersion]
  /\ seen = [c \in Callers |-> NoVersion]
  /\ list = [c \in Callers |-> {}]

-----------------------------------------------------------------------------
(* Control: where a caller goes next.                                      *)

GoTo(c, step) == at' = [at EXCEPT ![c] = step]

(* The operation is over: its locals go out of scope. *)
Return(c, result) ==
  /\ GoTo(c, result)
  /\ ver' = [ver EXCEPT ![c] = NoVersion]
  /\ seen' = [seen EXCEPT ![c] = NoVersion]
  /\ list' = [list EXCEPT ![c] = {}]

Begins(c, op) == op \in Ops /\ at[c] \in Ready

-----------------------------------------------------------------------------
(* Stage(v), and the extraction its caller performs in the directory.      *)

StageReadCurrent(c, v) ==
  /\ Begins(c, "stage")
  /\ UNCHANGED <<pointers, files>>
  /\ IF v = current
     THEN Return(c, "error")
     ELSE /\ GoTo(c, "stage.prev")
          /\ ver' = [ver EXCEPT ![c] = v]
          /\ UNCHANGED <<seen, list>>

(* Mutant: the rollback target may be staged over.                         *)
StageOverPrevious(c) ==
  /\ at[c] = "stage.prev"
  /\ GoTo(c, "stage.dir")
  /\ UNCHANGED <<pointers, files, ver, seen, list>>

StageReadPrevious(c) ==
  /\ at[c] = "stage.prev"
  /\ UNCHANGED <<pointers, files>>
  /\ IF ver[c] = previous
     THEN Return(c, "error")
     ELSE GoTo(c, "stage.dir") /\ UNCHANGED <<ver, seen, list>>

StageMakeDir(c) ==
  /\ at[c] = "stage.dir"
  /\ files' = [files EXCEPT ![ver[c]] = IF @ = "absent" THEN "partial" ELSE @]
  /\ GoTo(c, "stage.ptr")
  /\ UNCHANGED <<pointers, ver, seen, list>>

StageWritePointer(c) ==
  /\ at[c] = "stage.ptr"
  /\ staged' = ver[c]
  /\ GoTo(c, "staged")
  /\ UNCHANGED <<current, previous, files, ver, seen, list>>

(* The extraction truncates what the directory held before. *)
ExtractBegin(c) ==
  /\ at[c] = "staged"
  /\ files' = [files EXCEPT ![ver[c]] = "partial"]
  /\ GoTo(c, "extract")
  /\ UNCHANGED <<pointers, ver, seen, list>>

ExtractEnd(c) ==
  /\ at[c] = "extract"
  /\ files' = [files EXCEPT ![ver[c]] = "complete"]
  /\ GoTo(c, "filled")
  /\ UNCHANGED <<pointers, ver, seen, list>>

(* The downloaded file cannot be opened, or the artifact cannot be extracted. *)
ExtractFails(c) ==
  /\ at[c] \in {"staged", "extract"}
  /\ GoTo(c, "rejected")
  /\ UNCHANGED <<pointers, files, ver, seen, list>>

-----------------------------------------------------------------------------
(* DiscardStaged(true): the directory goes first, then the pointer.        *)

DiscardReadStaged(c) ==
  /\ at[c] = "rejected"
  /\ UNCHANGED <<pointers, files>>
  /\ IF staged = NoVersion
     THEN Return(c, "error")
     ELSE /\ GoTo(c, "discard.rm")
          /\ ver' = [ver EXCEPT ![c] = staged]
          /\ UNCHANGED <<seen, list>>

DiscardRemoveFiles(c) ==
  /\ at[c] = "discard.rm"
  /\ files' = [files EXCEPT ![ver[c]] = IF @ = "absent" THEN @ ELSE "partial"]
  /\ GoTo(c, "discard.rmdir")
  /\ UNCHANGED <<pointers, ver, seen, list>>

DiscardRemoveDir(c) ==
  /\ at[c] = "discard.rmdir"
  /\ files' = [files EXCEPT ![ver[c]] = "absent"]
  /\ GoTo(c, "discard.ptr")
  /\ UNCHANGED <<pointers, ver, seen, list>>

DiscardUnstage(c) ==
  /\ at[c] = "discard.ptr"
  /\ staged' = NoVersion
  /\ Return(c, "error")
  /\ UNCHANGED <<current, previous, files>>

-----------------------------------------------------------------------------
(* Promote: "previous" takes the outgoing version before "current" moves.  *)

PromoteReadStaged(c) ==
  /\ at[c] = "filled"
  /\ UNCHANGED <<pointers, files>>
  /\ IF staged = NoVersion
     THEN \E result \in AfterFailedPromote : Return(c, result)
     ELSE /\ GoTo(c, "promote.cur")
          /\ ver' = [ver EXCEPT ![c] = staged]
          /\ UNCHANGED <<seen, list>>

(* Mutant: the outgoing version is not saved.                              *)
PromoteForgets(c) ==
  /\ at[c] = "promote.cur"
  /\ seen' = [seen EXCEPT ![c] = current]
  /\ GoTo(c, "promote.act")
  /\ UNCHANGED <<pointers, files, ver, list>>

PromoteReadCurrent(c) ==
  /\ at[c] = "promote.cur"
  /\ seen' = [seen EXCEPT ![c] = current]
  /\ GoTo(c, IF current = NoVersion THEN "promote.act" ELSE "promote.prev")
  /\ UNCHANGED <<pointers, files, ver, list>>

PromoteSavePrevious(c) ==
  /\ at[c] = "promote.prev"
  /\ previous' = seen[c]
  /\ GoTo(c, "promote.act")
  /\ UNCHANGED <<current, staged, files, ver, seen, list>>

PromoteActivate(c) ==
  /\ at[c] = "promote.act"
  /\ current' = ver[c]
  /\ GoTo(c, "promote.unstage")
  /\ UNCHANGED <<previous, staged, files, ver, seen, list>>

PromoteUnstage(c) ==
  /\ at[c] = "promote.unstage"
  /\ staged' = NoVersion
  /\ Return(c, "done")
  /\ UNCHANGED <<current, previous, files>>

-----------------------------------------------------------------------------
(* PromoteVersion(v): the same switch to a release that is already there.  *)

SwitchStat(c, v) ==
  /\ Begins(c, "switch")
  /\ UNCHANGED <<pointers, files>>
  /\ IF v \notin Installed
     THEN Return(c, "error")
     ELSE /\ GoTo(c, "switch.cur")
          /\ ver' = [ver EXCEPT ![c] = v]
          /\ UNCHANGED <<seen, list>>

SwitchReadCurrent(c) ==
  /\ at[c] = "switch.cur"
  /\ UNCHANGED <<pointers, files>>
  /\ IF current = ver[c]
     THEN Return(c, "done")
     ELSE /\ seen' = [seen EXCEPT ![c] = current]
          /\ GoTo(c, IF current = NoVersion THEN "switch.act" ELSE "switch.prev")
          /\ UNCHANGED <<ver, list>>

SwitchSavePrevious(c) ==
  /\ at[c] = "switch.prev"
  /\ previous' = seen[c]
  /\ GoTo(c, "switch.act")
  /\ UNCHANGED <<current, staged, files, ver, seen, list>>

SwitchActivate(c) ==
  /\ at[c] = "switch.act"
  /\ current' = ver[c]
  /\ Return(c, "done")
  /\ UNCHANGED <<previous, staged, files>>

-----------------------------------------------------------------------------
(* RollbackToPrevious: here "current" moves first.                         *)

RevertReadPrevious(c) ==
  /\ Begins(c, "revert")
  /\ UNCHANGED <<pointers, files>>
  /\ IF previous = NoVersion
     THEN Return(c, "error")
     ELSE /\ GoTo(c, "revert.cur")
          /\ ver' = [ver EXCEPT ![c] = previous]
          /\ UNCHANGED <<seen, list>>

(* Mutant: "previous" is overwritten before "current" moves.               *)
RevertSavesFirst(c) ==
  /\ at[c] = "revert.cur"
  /\ previous' = current
  /\ seen' = [seen EXCEPT ![c] = current]
  /\ GoTo(c, "revert.act")
  /\ UNCHANGED <<current, staged, files, ver, list>>

RevertReadCurrent(c) ==
  /\ at[c] = "revert.cur"
  /\ seen' = [seen EXCEPT ![c] = current]
  /\ GoTo(c, "revert.act")
  /\ UNCHANGED <<pointers, files, ver, list>>

RevertActivate(c) ==
  /\ at[c] = "revert.act"
  /\ current' = ver[c]
  /\ UNCHANGED <<previous, staged, files>>
  /\ IF seen[c] = NoVersion
     THEN Return(c, "done")
     ELSE GoTo(c, "revert.swap") /\ UNCHANGED <<ver, seen, list>>

RevertSavePrevious(c) ==
  /\ at[c] = "revert.swap"
  /\ previous' = seen[c]
  /\ Return(c, "done")
  /\ UNCHANGED <<current, staged, files>>

-----------------------------------------------------------------------------
(* Prune(Retain): list the releases, strike out what a pointer names and   *)
(* the Retain lexically largest others, and delete the rest downwards.     *)

(* Mutant: an entry that is no release is listed.                          *)
PruneListsStray(c) ==
  /\ Begins(c, "prune")
  /\ list' = [list EXCEPT ![c] = Installed \cup {NoVersion}]
  /\ GoTo(c, "prune.cur")
  /\ UNCHANGED <<pointers, files, ver, seen>>

PruneList(c) ==
  /\ Begins(c, "prune")
  /\ list' = [list EXCEPT ![c] = Installed]
  /\ GoTo(c, "prune.cur")
  /\ UNCHANGED <<pointers, files, ver, seen>>

Spare(c, pointer, step) ==
  /\ list' = [list EXCEPT ![c] = @ \ {pointer}]
  /\ GoTo(c, step)
  /\ UNCHANGED <<pointers, files, ver, seen>>

PruneSpareCurrent(c)  == at[c] = "prune.cur" /\ Spare(c, current, "prune.prev")
PruneSparePrevious(c) == at[c] = "prune.prev" /\ Spare(c, previous, "prune.staged")

(* Mutants: one release too many is kept; those first in the order are.    *)
DoomedButOne(S) == {v \in S : Cardinality({w \in S : w > v}) > Retain}
DoomedLast(S)   == {v \in S : Cardinality({w \in S : w < v}) >= Retain}

Doomed(S) == {v \in S : Cardinality({w \in S : w > v}) >= Retain}

PruneSpareStaged(c) ==
  /\ at[c] = "prune.staged"
  /\ list' = [list EXCEPT ![c] = Doomed(@ \ {staged})]
  /\ GoTo(c, "prune.rm")
  /\ UNCHANGED <<pointers, files, ver, seen>>

PruneRemoveFiles(c) ==
  /\ at[c] = "prune.rm"
  /\ UNCHANGED pointers
  /\ IF list[c] = {}
     THEN Return(c, "done") /\ UNCHANGED files
     ELSE \E v \in list[c] :
            /\ \A w \in list[c] : w <= v
            /\ files' = [files EXCEPT ![v] = IF @ = "absent" THEN @ ELSE "partial"]
            /\ GoTo(c, "prune.rmdir")
            /\ ver' = [ver EXCEPT ![c] = v]
            /\ list' = [list EXCEPT ![c] = @ \ {v}]
            /\ UNCHANGED seen

PruneRemoveDir(c) ==
  /\ at[c] = "prune.rmdir"
  /\ files' = [files EXCEPT ![ver[c]] = "absent"]
  /\ GoTo(c, "prune.rm")
  /\ UNCHANGED <<pointers, ver, seen, list>>

-----------------------------------------------------------------------------
(* BootstrapCurrent records the running version, without any files.        *)

BootstrapReadCurrent(c) ==
  /\ Begins(c, "bootstrap")
  /\ UNCHANGED <<pointers, files>>
  /\ IF current # NoVersion
     THEN Return(c, "done")
     ELSE GoTo(c, "boot.ptr") /\ UNCHANGED <<ver, seen, list>>

BootstrapWritePointer(c) ==
  /\ at[c] = "boot.ptr"
  /\ current' = Bundled
  /\ Return(c, "done")
  /\ UNCHANGED <<previous, staged, files>>

-----------------------------------------------------------------------------
(* Mutant: every owner discards what a failed Promote leaves staged.       *)
FaultDiscards(c) ==
  /\ at[c] \in FaultyAt
  /\ Return(c, IF at[c] \in PromoteSteps THEN "rejected" ELSE "error")
  /\ UNCHANGED <<pointers, files>>

(* A system call fails: the operation returns its error where it stands.   *)
(* A failed Promote is followed by what the owner does about it.           *)

Fault(c) ==
  /\ at[c] \in FaultyAt
  /\ \E result \in IF at[c] \in PromoteSteps THEN AfterFailedPromote ELSE {"error"} :
       Return(c, result)
  /\ UNCHANGED <<pointers, files>>

(* The process dies: the disk keeps what was written, every local is lost. *)
Crash ==
  /\ at' = [c \in Callers |-> "done"]
  /\ ver' = [c \in Callers |-> NoVersion]
  /\ seen' = [c \in Callers |-> NoVersion]
  /\ list' = [c \in Callers |-> {}]
  /\ UNCHANGED <<pointers, files>>

StageStep(c) ==
  \/ StageReadPrevious(c) \/ StageMakeDir(c) \/ StageWritePointer(c)
  \/ ExtractBegin(c) \/ ExtractEnd(c) \/ ExtractFails(c)
DiscardStep(c) ==
  \/ DiscardReadStaged(c) \/ DiscardRemoveFiles(c)
  \/ DiscardRemoveDir(c) \/ DiscardUnstage(c)
PromoteStep(c) ==
  \/ PromoteReadStaged(c) \/ PromoteReadCurrent(c) \/ PromoteSavePrevious(c)
  \/ PromoteActivate(c) \/ PromoteUnstage(c)
SwitchStep(c) == SwitchReadCurrent(c) \/ SwitchSavePrevious(c) \/ SwitchActivate(c)
RevertStep(c) == RevertReadCurrent(c) \/ RevertActivate(c) \/ RevertSavePrevious(c)
PruneStep(c) ==
  \/ PruneSpareCurrent(c) \/ PruneSparePrevious(c) \/ PruneSpareStaged(c)
  \/ PruneRemoveFiles(c) \/ PruneRemoveDir(c)

Begin(c) ==
  \/ \E v \in Versions : StageReadCurrent(c, v) \/ SwitchStat(c, v)
  \/ RevertReadPrevious(c)
  \/ PruneList(c)
  \/ BootstrapReadCurrent(c)

Continue(c) ==
  \/ StageStep(c) \/ DiscardStep(c) \/ PromoteStep(c) \/ SwitchStep(c)
  \/ RevertStep(c) \/ PruneStep(c) \/ BootstrapWritePointer(c) \/ Fault(c)

StoreNext == Crash \/ \E c \in Callers : Begin(c) \/ Continue(c)

StoreSpec == StoreInit /\ [][StoreNext]_storeVars

(* The callers take turns: nothing in the store makes them, but a caller   *)
(* that finds the component idle and lets no other in has this guarantee.  *)
OneAtATime ==
  \A c, d \in Callers : at[c] \notin Ready /\ at[d] \notin Ready => c = d

SerialSpec == StoreInit /\ [][StoreNext /\ OneAtATime']_storeVars

-----------------------------------------------------------------------------
(* A release a pointer names is whole: what "current" names can be         *)
(* executed, and what "previous" names can be rolled back onto.  Only in a *)
(* store BootstrapCurrent filled may the recorded version lack its files.  *)
Usable(v) == files[v] = "complete" \/ ("bootstrap" \in Ops /\ v = Bundled)

LiveReleasesUsable == \A v \in {current, previous} \ {NoVersion} : Usable(v)

(* Promote and PromoteVersion keep the version they replace: "current"     *)
(* moves off a version only once "previous" names that version, or to the  *)
(* rollback target itself.  So a crash at any step leaves a way back.      *)
KeepsPredecessor ==
  current' # current =>
    current = NoVersion \/ previous = current \/ current' = previous
PromotionKeepsPredecessor == [][KeepsPredecessor]_storeVars

(* Prune deletes a release only if Retain others stay that no pointer      *)
(* names and that come after it in the lexical order of their names: 0.0.9 *)
(* outlives 0.0.10, whichever of them was installed last.                  *)
PruneRetainsLast ==
  [][\A c \in Callers, v \in Versions :
        at[c] = "prune.rm" /\ files'[v] # files[v] =>
          /\ v \notin Referenced
          /\ Cardinality({w \in Installed \ Referenced : w > v}) >= Retain]_storeVars

(* Once Prune has nothing left to delete, at most Retain releases beyond   *)
(* the ones the pointers name are on disk.                                 *)
PruneBoundsDisk ==
  \A c \in Callers :
    at[c] = "prune.rm" /\ list[c] = {} => Cardinality(Installed \ Referenced) <= Retain

-----------------------------------------------------------------------------
(* Strengthenings that make the properties inductive under SerialSpec.     *)

(* What a caller that is about to move a pointer knows about the pointers. *)
PointersAsRead ==
  \A c \in Callers :
    /\ at[c] \in {"promote.prev", "switch.prev"} => seen[c] = current
    /\ at[c] \in {"promote.act", "switch.act"} => current \in {NoVersion, previous}
    /\ at[c] \in {"revert.cur", "revert.act"} => ver[c] = previous
    /\ at[c] = "revert.act" => seen[c] = current
    /\ at[c] = "boot.ptr" => current = NoVersion

(* PromoteVersion takes any directory for an installed release.  Whether   *)
(* it was ever filled is up to the one who asks.                           *)
WholeSwitches ==
  \A c \in Callers, v \in Installed : SwitchStat(c, v) => Usable(v)

(* A release that is being filled or deleted is not one a pointer names.   *)
Live == {current, previous}

FilesApart ==
  \A c \in Callers :
    /\ at[c] = "stage.prev" => ver[c] \in Versions \ {current}
    /\ at[c] \in {"stage.dir", "stage.ptr", "staged", "extract", "filled", "discard.rm",
                  "discard.rmdir", "promote.cur", "promote.prev", "promote.act",
                  "prune.rmdir"} => ver[c] \in Versions \ Live
    /\ at[c] \in {"staged", "extract", "filled", "promote.cur", "promote.prev", "promote.act"}
         => staged = ver[c]
    /\ at[c] = "rejected" => staged \notin Live \ {NoVersion}
    /\ at[c] \in {"filled", "promote.cur", "promote.prev", "promote.act"}
         => files[ver[c]] = "complete"
    /\ at[c] = "revert.swap" => seen[c] \in Versions /\ Usable(seen[c])
    /\ at[c] \in {"prune.prev", "prune.staged", "prune.rm", "prune.rmdir"}
         => current \notin list[c]
    /\ at[c] \in {"prune.staged", "prune.rm", "prune.rmdir"} => previous \notin list[c]
    /\ at[c] \in SwitchSteps => ver[c] \in Versions /\ Usable(ver[c])
    /\ at[c] = "boot.ptr" => "bootstrap" \in Ops
=============================================================================
