------------------------- MODULE ReleaseStoreProofs -------------------------
(***************************************************************************)
(* Proofs about ReleaseStore for every set of versions, every owner and    *)
(* every choice of failing system calls.                                   *)
(***************************************************************************)
EXTENDS ReleaseStore, FiniteSetTheorems, WellFoundedInduction, TLAPS

USE DEF Pointer, Contents, Ready, Steps, StageSteps, ExtractSteps, DiscardSteps,
        PromoteSteps, SwitchSteps, RevertSteps, PruneSteps

(* An empty store, and one that install.sh seeded, are well formed.        *)
LEMMA InitTypeOK == StoreInit => TypeOK
  BY BundledAssumption DEF StoreInit, TypeOK

(* Prune only deletes releases it listed.                                  *)
LEMMA DoomedType == ASSUME NEW S \in SUBSET Versions PROVE Doomed(S) \in SUBSET Versions
  BY DEF Doomed

(* An operation that returns leaves no version in its caller's locals but  *)
(* the absent one.                                                         *)
LEMMA ReturnType ==
  ASSUME TypeOK, NEW c \in Callers, NEW result \in Steps, Return(c, result)
  PROVE  /\ at' \in [Callers -> Steps]
         /\ ver' \in [Callers -> Pointer]
         /\ seen' \in [Callers -> Pointer]
         /\ list' \in [Callers -> SUBSET Versions]
  BY DEF TypeOK, Return, GoTo

(* Every file-system step of every operation, a failing one and a crash    *)
(* leave the pointers, the directories and the locals well formed.         *)
LEMMA StepTypeOK == TypeOK /\ [StoreNext]_storeVars => TypeOK'
<1> SUFFICES ASSUME TypeOK, [StoreNext]_storeVars PROVE TypeOK'
  OBVIOUS
<1> USE ReturnType, OwnerAssumption DEF pointers
<1>1. CASE UNCHANGED storeVars
  BY <1>1 DEF TypeOK, storeVars
<1>2. CASE Crash
  BY <1>2 DEF TypeOK, Crash, pointers
<1>3. ASSUME NEW c \in Callers, Begin(c) PROVE TypeOK'
  <2>1. ASSUME NEW v \in Versions, StageReadCurrent(c, v) PROVE TypeOK'
    <3>1. CASE v = current
      BY <2>1, <3>1 DEF StageReadCurrent, TypeOK
    <3>2. CASE v # current
      BY <2>1, <3>2 DEF StageReadCurrent, GoTo, TypeOK
    <3> QED BY <3>1, <3>2
  <2>2. ASSUME NEW v \in Versions, SwitchStat(c, v) PROVE TypeOK'
    <3>1. CASE v \notin Installed
      BY <2>2, <3>1 DEF SwitchStat, TypeOK
    <3>2. CASE v \in Installed
      BY <2>2, <3>2 DEF SwitchStat, GoTo, TypeOK
    <3> QED BY <3>1, <3>2
  <2>3. CASE RevertReadPrevious(c)
    <3>1. CASE previous = NoVersion
      BY <2>3, <3>1 DEF RevertReadPrevious, TypeOK
    <3>2. CASE previous # NoVersion
      BY <2>3, <3>2 DEF RevertReadPrevious, GoTo, TypeOK
    <3> QED BY <3>1, <3>2
  <2>4. CASE PruneList(c)
    BY <2>4 DEF PruneList, GoTo, TypeOK, Installed
  <2>5. CASE BootstrapReadCurrent(c)
    <3>1. CASE current # NoVersion
      BY <2>5, <3>1 DEF BootstrapReadCurrent, TypeOK
    <3>2. CASE current = NoVersion
      BY <2>5, <3>2 DEF BootstrapReadCurrent, GoTo, TypeOK
    <3> QED BY <3>1, <3>2
  <2> QED BY <1>3, <2>1, <2>2, <2>3, <2>4, <2>5 DEF Begin
<1>4. ASSUME NEW c \in Callers, Continue(c) PROVE TypeOK'
  <2>1. CASE StageReadPrevious(c)
    <3>1. CASE ver[c] = previous
      BY <2>1, <3>1 DEF StageReadPrevious, TypeOK
    <3>2. CASE ver[c] # previous
      BY <2>1, <3>2 DEF StageReadPrevious, GoTo, TypeOK
    <3> QED BY <3>1, <3>2
  <2>2. CASE StageMakeDir(c)
    BY <2>2 DEF StageMakeDir, GoTo, TypeOK
  <2>3. CASE StageWritePointer(c)
    BY <2>3 DEF StageWritePointer, GoTo, TypeOK
  <2>4. CASE ExtractBegin(c)
    BY <2>4 DEF ExtractBegin, GoTo, TypeOK
  <2>5. CASE ExtractEnd(c)
    BY <2>5 DEF ExtractEnd, GoTo, TypeOK
  <2>6. CASE ExtractFails(c)
    BY <2>6 DEF ExtractFails, GoTo, TypeOK
  <2>7. CASE DiscardReadStaged(c)
    <3>1. CASE staged = NoVersion
      BY <2>7, <3>1 DEF DiscardReadStaged, TypeOK
    <3>2. CASE staged # NoVersion
      BY <2>7, <3>2 DEF DiscardReadStaged, GoTo, TypeOK
    <3> QED BY <3>1, <3>2
  <2>8. CASE DiscardRemoveFiles(c)
    BY <2>8 DEF DiscardRemoveFiles, GoTo, TypeOK
  <2>9. CASE DiscardRemoveDir(c)
    BY <2>9 DEF DiscardRemoveDir, GoTo, TypeOK
  <2>10. CASE DiscardUnstage(c)
    BY <2>10 DEF DiscardUnstage, TypeOK
  <2>11. CASE PromoteReadStaged(c)
    <3>1. CASE staged = NoVersion
      <4>1. PICK result \in AfterFailedPromote : Return(c, result)
        BY <2>11, <3>1 DEF PromoteReadStaged
      <4>2. result \in Steps
        OBVIOUS
      <4> QED BY <2>11, <4>1, <4>2 DEF PromoteReadStaged, TypeOK
    <3>2. CASE staged # NoVersion
      BY <2>11, <3>2 DEF PromoteReadStaged, GoTo, TypeOK
    <3> QED BY <3>1, <3>2
  <2>12. CASE PromoteReadCurrent(c)
    BY <2>12 DEF PromoteReadCurrent, GoTo, TypeOK
  <2>13. CASE PromoteSavePrevious(c)
    BY <2>13 DEF PromoteSavePrevious, GoTo, TypeOK
  <2>14. CASE PromoteActivate(c)
    BY <2>14 DEF PromoteActivate, GoTo, TypeOK
  <2>15. CASE PromoteUnstage(c)
    BY <2>15 DEF PromoteUnstage, TypeOK
  <2>16. CASE SwitchReadCurrent(c)
    <3>1. CASE current = ver[c]
      BY <2>16, <3>1 DEF SwitchReadCurrent, TypeOK
    <3>2. CASE current # ver[c]
      BY <2>16, <3>2 DEF SwitchReadCurrent, GoTo, TypeOK
    <3> QED BY <3>1, <3>2
  <2>17. CASE SwitchSavePrevious(c)
    BY <2>17 DEF SwitchSavePrevious, GoTo, TypeOK
  <2>18. CASE SwitchActivate(c)
    BY <2>18 DEF SwitchActivate, TypeOK
  <2>19. CASE RevertReadCurrent(c)
    BY <2>19 DEF RevertReadCurrent, GoTo, TypeOK
  <2>20. CASE RevertActivate(c)
    <3>1. CASE seen[c] = NoVersion
      BY <2>20, <3>1 DEF RevertActivate, TypeOK
    <3>2. CASE seen[c] # NoVersion
      BY <2>20, <3>2 DEF RevertActivate, GoTo, TypeOK
    <3> QED BY <3>1, <3>2
  <2>21. CASE RevertSavePrevious(c)
    BY <2>21 DEF RevertSavePrevious, TypeOK
  <2>22. CASE BootstrapWritePointer(c)
    BY <2>22, BundledAssumption DEF BootstrapWritePointer, TypeOK
  <2>23. CASE PruneStep(c)
    <3>1. CASE PruneSpareCurrent(c)
      BY <2>23, <3>1 DEF PruneSpareCurrent, Spare, GoTo, TypeOK
    <3>2. CASE PruneSparePrevious(c)
      BY <2>23, <3>2 DEF PruneSparePrevious, Spare, GoTo, TypeOK
    <3>3. CASE PruneSpareStaged(c)
      <4>1. Doomed(list[c] \ {staged}) \in SUBSET Versions
        BY DoomedType DEF TypeOK
      <4> QED BY <3>3, <4>1 DEF PruneSpareStaged, GoTo, TypeOK
    <3>4. CASE PruneRemoveFiles(c)
      <4>1. CASE list[c] = {}
        BY <3>4, <4>1 DEF PruneRemoveFiles, TypeOK
      <4>2. CASE list[c] # {}
        BY <3>4, <4>2 DEF PruneRemoveFiles, GoTo, TypeOK
      <4> QED BY <4>1, <4>2
    <3>5. CASE PruneRemoveDir(c)
      BY <3>5 DEF PruneRemoveDir, GoTo, TypeOK
    <3> QED BY <2>23, <3>1, <3>2, <3>3, <3>4, <3>5 DEF PruneStep
  <2>24. CASE Fault(c)
    <3>1. PICK result \in Steps : Return(c, result)
      BY <2>24 DEF Fault
    <3> QED BY <2>24, <3>1 DEF Fault, TypeOK
  <2> QED BY <1>4, <2>1, <2>2, <2>3, <2>4, <2>5, <2>6, <2>7, <2>8, <2>9, <2>10, <2>11, <2>12, <2>13, <2>14, <2>15, <2>16, <2>17, <2>18, <2>19, <2>20, <2>21, <2>22, <2>23, <2>24
       DEF Continue, StageStep, DiscardStep, PromoteStep, SwitchStep, RevertStep
<1> QED BY <1>1, <1>2, <1>3, <1>4, Zenon DEF StoreNext

(* The store stays well formed whatever the interleaving of its callers:   *)
(* a pointer names a release or is absent, and Prune lists releases only.  *)
THEOREM StoreTypeCorrect == StoreSpec => []TypeOK
  BY InitTypeOK, StepTypeOK, PTL DEF StoreSpec

-----------------------------------------------------------------------------
(* No operation is under way in a store nobody has used.                   *)
LEMMA InitOneAtATime == StoreInit => OneAtATime
  BY DEF StoreInit, OneAtATime

(* Turn-taking is kept by every step SerialSpec allows.                    *)
LEMMA StepOneAtATime == OneAtATime /\ [StoreNext /\ OneAtATime']_storeVars => OneAtATime'
  BY DEF OneAtATime, storeVars

(* Initially no operation has read a pointer.                              *)
LEMMA InitPointersAsRead == StoreInit => PointersAsRead
  BY DEF StoreInit, PointersAsRead

(* While callers take turns, what an operation read of the pointers is     *)
(* still so when it writes one.                                            *)
LEMMA StepPointersAsRead ==
  ASSUME OneAtATime, OneAtATime', TypeOK, PointersAsRead, [StoreNext]_storeVars
  PROVE  PointersAsRead'
<1> USE DEF pointers, TypeOK, PointersAsRead, GoTo, Return
<1>1. CASE UNCHANGED storeVars
  BY <1>1 DEF storeVars
<1>2. CASE Crash
  BY <1>2 DEF Crash
<1>3. ASSUME NEW c \in Callers, Begin(c) PROVE PointersAsRead'
  <2> USE DEF OneAtATime, Begins
  <2>1. ASSUME NEW v \in Versions, StageReadCurrent(c, v) PROVE PointersAsRead'
    BY <2>1 DEF StageReadCurrent
  <2>2. ASSUME NEW v \in Versions, SwitchStat(c, v) PROVE PointersAsRead'
    BY <2>2 DEF SwitchStat
  <2>3. CASE RevertReadPrevious(c)
    BY <2>3 DEF RevertReadPrevious
  <2>4. CASE PruneList(c)
    BY <2>4 DEF PruneList
  <2>5. CASE BootstrapReadCurrent(c)
    BY <2>5 DEF BootstrapReadCurrent
  <2> QED BY <1>3, <2>1, <2>2, <2>3, <2>4, <2>5 DEF Begin
<1>4. ASSUME NEW c \in Callers, Continue(c) PROVE PointersAsRead'
  <2> USE DEF OneAtATime
  <2>1. CASE StageStep(c)
    <3>1. CASE StageReadPrevious(c)
      BY <3>1 DEF StageReadPrevious
    <3>2. CASE StageMakeDir(c)
      BY <3>2 DEF StageMakeDir
    <3>3. CASE StageWritePointer(c)
      BY <3>3 DEF StageWritePointer
    <3>4. CASE ExtractBegin(c)
      BY <3>4 DEF ExtractBegin
    <3>5. CASE ExtractEnd(c)
      BY <3>5 DEF ExtractEnd
    <3>6. CASE ExtractFails(c)
      BY <3>6 DEF ExtractFails
    <3> QED BY <2>1, <3>1, <3>2, <3>3, <3>4, <3>5, <3>6 DEF StageStep
  <2>2. CASE DiscardStep(c)
    <3>1. CASE DiscardReadStaged(c)
      BY <3>1 DEF DiscardReadStaged
    <3>2. CASE DiscardRemoveFiles(c)
      BY <3>2 DEF DiscardRemoveFiles
    <3>3. CASE DiscardRemoveDir(c)
      BY <3>3 DEF DiscardRemoveDir
    <3>4. CASE DiscardUnstage(c)
      BY <3>4 DEF DiscardUnstage
    <3> QED BY <2>2, <3>1, <3>2, <3>3, <3>4 DEF DiscardStep
  <2>3. CASE PromoteStep(c)
    <3>1. CASE PromoteReadStaged(c)
      BY <3>1, OwnerAssumption DEF PromoteReadStaged
    <3>2. CASE PromoteReadCurrent(c)
      BY <3>2 DEF PromoteReadCurrent
    <3>3. CASE PromoteSavePrevious(c)
      BY <3>3 DEF PromoteSavePrevious
    <3>4. CASE PromoteActivate(c)
      BY <3>4 DEF PromoteActivate
    <3>5. CASE PromoteUnstage(c)
      BY <3>5 DEF PromoteUnstage
    <3> QED BY <2>3, <3>1, <3>2, <3>3, <3>4, <3>5 DEF PromoteStep
  <2>4. CASE SwitchStep(c)
    <3>1. CASE SwitchReadCurrent(c)
      BY <3>1 DEF SwitchReadCurrent
    <3>2. CASE SwitchSavePrevious(c)
      BY <3>2 DEF SwitchSavePrevious
    <3>3. CASE SwitchActivate(c)
      BY <3>3 DEF SwitchActivate
    <3> QED BY <2>4, <3>1, <3>2, <3>3 DEF SwitchStep
  <2>5. CASE RevertStep(c)
    <3>1. CASE RevertReadCurrent(c)
      BY <3>1 DEF RevertReadCurrent
    <3>2. CASE RevertActivate(c)
      BY <3>2 DEF RevertActivate
    <3>3. CASE RevertSavePrevious(c)
      BY <3>3 DEF RevertSavePrevious
    <3> QED BY <2>5, <3>1, <3>2, <3>3 DEF RevertStep
  <2>6. CASE PruneStep(c)
    <3>1. CASE PruneSpareCurrent(c)
      BY <3>1 DEF PruneSpareCurrent, Spare
    <3>2. CASE PruneSparePrevious(c)
      BY <3>2 DEF PruneSparePrevious, Spare
    <3>3. CASE PruneSpareStaged(c)
      BY <3>3 DEF PruneSpareStaged
    <3>4. CASE PruneRemoveFiles(c)
      BY <3>4 DEF PruneRemoveFiles
    <3>5. CASE PruneRemoveDir(c)
      BY <3>5 DEF PruneRemoveDir
    <3> QED BY <2>6, <3>1, <3>2, <3>3, <3>4, <3>5 DEF PruneStep
  <2>7. CASE BootstrapWritePointer(c)
    BY <2>7 DEF BootstrapWritePointer
  <2>8. CASE Fault(c)
    BY <2>8, OwnerAssumption DEF Fault
  <2> QED BY <1>4, <2>1, <2>2, <2>3, <2>4, <2>5, <2>6, <2>7, <2>8 DEF Continue
<1> QED BY <1>1, <1>2, <1>3, <1>4 DEF StoreNext

(* A step that moves "current" off a version does so when "previous" names *)
(* that version, or moves to the rollback target: Promote, PromoteVersion  *)
(* and RollbackToPrevious, each by the order of its pointer writes.        *)
LEMMA StepKeepsPredecessor ==
  ASSUME TypeOK, PointersAsRead, [StoreNext]_storeVars
  PROVE  [KeepsPredecessor]_storeVars
<1> USE DEF pointers, PointersAsRead, KeepsPredecessor
<1>1. CASE UNCHANGED storeVars
  BY <1>1
<1>2. CASE Crash
  BY <1>2 DEF Crash
<1>3. ASSUME NEW c \in Callers, Begin(c) PROVE KeepsPredecessor
  BY <1>3 DEF Begin, StageReadCurrent, SwitchStat, RevertReadPrevious, PruneList,
              BootstrapReadCurrent
<1>4. ASSUME NEW c \in Callers, Continue(c) PROVE KeepsPredecessor
  <2>1. CASE PromoteActivate(c) \/ SwitchActivate(c)
    BY <2>1 DEF PromoteActivate, SwitchActivate
  <2>2. CASE RevertActivate(c)
    BY <2>2 DEF RevertActivate
  <2>3. CASE BootstrapWritePointer(c)
    BY <2>3 DEF BootstrapWritePointer
  <2>4. CASE UNCHANGED current
    BY <2>4
  <2>5. StageStep(c) \/ DiscardStep(c) \/ PruneStep(c) \/ Fault(c) => UNCHANGED current
    <3>1. StageStep(c) => UNCHANGED current
      BY DEF StageStep, StageReadPrevious, StageMakeDir, StageWritePointer, ExtractBegin,
             ExtractEnd, ExtractFails
    <3>2. DiscardStep(c) => UNCHANGED current
      BY DEF DiscardStep, DiscardReadStaged, DiscardRemoveFiles, DiscardRemoveDir,
             DiscardUnstage
    <3>3. PruneStep(c) => UNCHANGED current
      BY DEF PruneStep, PruneSpareCurrent, PruneSparePrevious, PruneSpareStaged,
             PruneRemoveFiles, PruneRemoveDir, Spare
    <3>4. Fault(c) => UNCHANGED current
      BY DEF Fault
    <3> QED BY <3>1, <3>2, <3>3, <3>4
  <2>6. PromoteStep(c) => PromoteActivate(c) \/ UNCHANGED current
    BY DEF PromoteStep, PromoteReadStaged, PromoteReadCurrent, PromoteSavePrevious,
           PromoteUnstage
  <2>7. SwitchStep(c) => SwitchActivate(c) \/ UNCHANGED current
    BY DEF SwitchStep, SwitchReadCurrent, SwitchSavePrevious
  <2>8. RevertStep(c) => RevertActivate(c) \/ UNCHANGED current
    BY DEF RevertStep, RevertReadCurrent, RevertSavePrevious
  <2> QED BY <1>4, <2>1, <2>2, <2>3, <2>4, <2>5, <2>6, <2>7, <2>8 DEF Continue
<1> QED BY <1>1, <1>2, <1>3, <1>4, Zenon DEF StoreNext

(* Whatever system call fails and wherever the process dies, the version a *)
(* promotion replaces stays the rollback target, if callers take turns.    *)
THEOREM PromotionSafe ==
  SerialSpec => PromotionKeepsPredecessor
<1> DEFINE Inv == TypeOK /\ OneAtATime /\ PointersAsRead
<1>1. StoreInit => Inv
  BY InitTypeOK, InitOneAtATime, InitPointersAsRead
<1>2. Inv /\ [StoreNext /\ OneAtATime']_storeVars => Inv'
  BY StepTypeOK, StepOneAtATime, StepPointersAsRead
<1>3. Inv /\ [StoreNext /\ OneAtATime']_storeVars => [KeepsPredecessor]_storeVars
  BY StepKeepsPredecessor
<1> QED BY <1>1, <1>2, <1>3, PTL DEF SerialSpec, PromotionKeepsPredecessor

-----------------------------------------------------------------------------
(* The directories of live releases.  Two things must not happen: a switch *)
(* to a directory that was never filled, and a failure of the very last    *)
(* step of Promote, if its owner discards what it then takes for staged:   *)
(* the clean-up would delete the release that was just activated.          *)
KeepsActivated == "promote.unstage" \in FaultyAt => AfterFailedPromote = {"error"}

FilesInv == LiveReleasesUsable /\ FilesApart

(* The release install.sh laid out is whole, and nothing is in progress.   *)
LEMMA InitFilesInv == StoreInit => FilesInv
  BY VersionsAssumption, BundledAssumption
  DEF StoreInit, FilesInv, LiveReleasesUsable, FilesApart, Usable

(* Staging, discarding and pruning only touch directories no live pointer  *)
(* names, and a pointer is only moved onto a directory that was filled.    *)
LEMMA StepFilesInv ==
  ASSUME OneAtATime, OneAtATime', WholeSwitches, KeepsActivated,
         TypeOK, PointersAsRead, FilesInv, [StoreNext]_storeVars
  PROVE  FilesInv'
<1> USE VersionsAssumption
    DEF pointers, TypeOK, FilesInv, LiveReleasesUsable, FilesApart, Usable, Live, GoTo, Return
<1>1. CASE UNCHANGED storeVars
  BY <1>1 DEF storeVars
<1>2. CASE Crash
  BY <1>2 DEF Crash
<1>3. ASSUME NEW c \in Callers, Begin(c) PROVE FilesInv'
  <2> USE DEF OneAtATime, Begins
  <2>1. ASSUME NEW v \in Versions, StageReadCurrent(c, v) PROVE FilesInv'
    BY <2>1 DEF StageReadCurrent
  <2>2. ASSUME NEW v \in Versions, SwitchStat(c, v) PROVE FilesInv'
    BY <2>2 DEF SwitchStat, WholeSwitches, Installed
  <2>3. CASE RevertReadPrevious(c)
    BY <2>3 DEF RevertReadPrevious
  <2>4. CASE PruneList(c)
    BY <2>4 DEF PruneList
  <2>5. CASE BootstrapReadCurrent(c)
    BY <2>5 DEF BootstrapReadCurrent
  <2> QED BY <1>3, <2>1, <2>2, <2>3, <2>4, <2>5 DEF Begin
<1>4. ASSUME NEW c \in Callers, Continue(c) PROVE FilesInv'
  <2> USE DEF OneAtATime, PointersAsRead
  <2>1. CASE StageStep(c)
    <3>1. CASE StageReadPrevious(c)
      BY <3>1 DEF StageReadPrevious
    <3>2. CASE StageMakeDir(c)
      BY <3>2 DEF StageMakeDir
    <3>3. CASE StageWritePointer(c)
      BY <3>3 DEF StageWritePointer
    <3>4. CASE ExtractBegin(c)
      BY <3>4 DEF ExtractBegin
    <3>5. CASE ExtractEnd(c)
      BY <3>5 DEF ExtractEnd
    <3>6. CASE ExtractFails(c)
      BY <3>6 DEF ExtractFails
    <3> QED BY <2>1, <3>1, <3>2, <3>3, <3>4, <3>5, <3>6 DEF StageStep
  <2>2. CASE DiscardStep(c)
    <3>1. CASE DiscardReadStaged(c)
      BY <3>1 DEF DiscardReadStaged
    <3>2. CASE DiscardRemoveFiles(c)
      BY <3>2 DEF DiscardRemoveFiles
    <3>3. CASE DiscardRemoveDir(c)
      BY <3>3 DEF DiscardRemoveDir
    <3>4. CASE DiscardUnstage(c)
      BY <3>4 DEF DiscardUnstage
    <3> QED BY <2>2, <3>1, <3>2, <3>3, <3>4 DEF DiscardStep
  <2>3. CASE PromoteStep(c)
    <3>1. CASE PromoteReadStaged(c)
      BY <3>1, OwnerAssumption DEF PromoteReadStaged
    <3>2. CASE PromoteReadCurrent(c)
      BY <3>2 DEF PromoteReadCurrent
    <3>3. CASE PromoteSavePrevious(c)
      BY <3>3 DEF PromoteSavePrevious
    <3>4. CASE PromoteActivate(c)
      BY <3>4 DEF PromoteActivate
    <3>5. CASE PromoteUnstage(c)
      BY <3>5 DEF PromoteUnstage
    <3> QED BY <2>3, <3>1, <3>2, <3>3, <3>4, <3>5 DEF PromoteStep
  <2>4. CASE SwitchStep(c)
    <3>1. CASE SwitchReadCurrent(c)
      BY <3>1 DEF SwitchReadCurrent
    <3>2. CASE SwitchSavePrevious(c)
      BY <3>2 DEF SwitchSavePrevious
    <3>3. CASE SwitchActivate(c)
      BY <3>3 DEF SwitchActivate
    <3> QED BY <2>4, <3>1, <3>2, <3>3 DEF SwitchStep
  <2>5. CASE RevertStep(c)
    <3>1. CASE RevertReadCurrent(c)
      BY <3>1 DEF RevertReadCurrent
    <3>2. CASE RevertActivate(c)
      BY <3>2 DEF RevertActivate
    <3>3. CASE RevertSavePrevious(c)
      BY <3>3 DEF RevertSavePrevious
    <3> QED BY <2>5, <3>1, <3>2, <3>3 DEF RevertStep
  <2>6. CASE PruneStep(c)
    <3>1. CASE PruneSpareCurrent(c)
      BY <3>1 DEF PruneSpareCurrent, Spare
    <3>2. CASE PruneSparePrevious(c)
      BY <3>2 DEF PruneSparePrevious, Spare
    <3>3. CASE PruneSpareStaged(c)
      BY <3>3, DoomedType DEF PruneSpareStaged, Doomed
    <3>4. CASE PruneRemoveFiles(c)
      BY <3>4 DEF PruneRemoveFiles
    <3>5. CASE PruneRemoveDir(c)
      BY <3>5 DEF PruneRemoveDir
    <3> QED BY <2>6, <3>1, <3>2, <3>3, <3>4, <3>5 DEF PruneStep
  <2>7. CASE BootstrapWritePointer(c)
    BY <2>7 DEF BootstrapWritePointer
  <2>8. CASE Fault(c)
    BY <2>8, OwnerAssumption DEF Fault, KeepsActivated
  <2> QED BY <1>4, <2>1, <2>2, <2>3, <2>4, <2>5, <2>6, <2>7, <2>8 DEF Continue
<1> QED BY <1>1, <1>2, <1>3, <1>4 DEF StoreNext

(* In a store whose callers take turns and are only asked to switch to     *)
(* releases that were filled, "current" and "previous" name whole releases *)
(* at every instant, and what is filled or deleted stays apart from them,  *)
(* crashes and failing system calls included.                              *)
THEOREM WholeSwitchesKeepLiveReleases ==
  ASSUME KeepsActivated
  PROVE  SerialSpec /\ [][WholeSwitches]_storeVars => [](LiveReleasesUsable /\ FilesApart)
<1> DEFINE Inv == TypeOK /\ OneAtATime /\ PointersAsRead /\ FilesInv
<1>1. StoreInit => Inv
  BY InitTypeOK, InitOneAtATime, InitPointersAsRead, InitFilesInv
<1>2. Inv /\ [StoreNext /\ OneAtATime']_storeVars /\ [WholeSwitches]_storeVars => Inv'
  <2>1. ASSUME Inv, UNCHANGED storeVars PROVE Inv'
    BY <2>1 DEF TypeOK, OneAtATime, PointersAsRead, FilesInv, LiveReleasesUsable, FilesApart,
                Usable, Live, storeVars
  <2>2. ASSUME Inv, StoreNext, OneAtATime', WholeSwitches PROVE Inv'
    BY <2>2, StepTypeOK, StepOneAtATime, StepPointersAsRead, StepFilesInv
  <2> QED BY <2>1, <2>2
<1>3. Inv => LiveReleasesUsable /\ FilesApart
  BY DEF FilesInv
<1> QED BY <1>1, <1>2, <1>3, PTL DEF SerialSpec

(* An owner that never switches is asked for no such thing.                *)
LEMMA NoSwitches == ASSUME "switch" \notin Ops PROVE WholeSwitches
  BY DEF WholeSwitches, SwitchStat, Begins

(* The managed components' owner never switches: what their pointers name  *)
(* is whole without a condition on what is asked of them.                  *)
THEOREM LiveReleasesSafe ==
  ASSUME "switch" \notin Ops, KeepsActivated
  PROVE  SerialSpec => []LiveReleasesUsable
  BY NoSwitches, WholeSwitchesKeepLiveReleases, PTL

(* The two strengthenings hold by themselves, too.                         *)
THEOREM PointersAlwaysAsRead == SerialSpec => []PointersAsRead
<1> DEFINE Inv == TypeOK /\ OneAtATime /\ PointersAsRead
<1>1. StoreInit => Inv
  BY InitTypeOK, InitOneAtATime, InitPointersAsRead
<1>2. Inv /\ [StoreNext /\ OneAtATime']_storeVars => Inv'
  BY StepTypeOK, StepOneAtATime, StepPointersAsRead
<1> QED BY <1>1, <1>2, PTL DEF SerialSpec

(* What is filled or deleted stays apart from what a live pointer names.   *)
THEOREM FilesAlwaysApart ==
  ASSUME "switch" \notin Ops, KeepsActivated
  PROVE  SerialSpec => []FilesApart
  BY NoSwitches, WholeSwitchesKeepLiveReleases, PTL

-----------------------------------------------------------------------------
(* A release is in pieces only while a caller fills or removes it: nothing *)
(* but a crash, or a system call that fails on the way, leaves it so.      *)
WorksOn(c, v) ==
  \/ /\ at[c] \in {"stage.ptr", "staged", "extract", "discard.rm", "discard.rmdir", "prune.rmdir"}
     /\ v = ver[c]
  \/ at[c] = "rejected" /\ v = staged

NothingAbandoned ==
  \A v \in Versions : files[v] = "partial" => \E c \in Callers : WorksOn(c, v)

Halfway == {"stage.ptr", "discard.rm", "discard.rmdir", "prune.rmdir"}

LEMMA InitNothingAbandoned == StoreInit => NothingAbandoned
  BY DEF StoreInit, NothingAbandoned

LEMMA StepNothingAbandoned ==
  ASSUME OneAtATime, FaultyAt \cap Halfway = {}, TypeOK, FilesApart, NothingAbandoned,
         NEW c \in Callers, Begin(c) \/ Continue(c)
  PROVE  NothingAbandoned'
<1> USE VersionsAssumption DEF pointers, TypeOK, GoTo, Return, WorksOn
<1>1. CASE Begin(c)
  <2>1. /\ at[c] \in Ready /\ UNCHANGED <<staged, files>>
        /\ \A d \in Callers \ {c} : at'[d] = at[d] /\ ver'[d] = ver[d]
    BY <1>1 DEF Begin, Begins, StageReadCurrent, SwitchStat, RevertReadPrevious, PruneList,
                BootstrapReadCurrent
  <2> QED BY <2>1 DEF NothingAbandoned
<1>2. CASE Continue(c)
  <2> DEFINE Mine(v) == files'[v] = "partial" => WorksOn(c, v)'
  <2>0. SUFFICES ASSUME NEW v \in Versions PROVE Mine(v)
    BY DEF NothingAbandoned
  <2>1. files[v] = "partial" /\ at[c] \notin Ready => WorksOn(c, v)
    BY DEF OneAtATime, NothingAbandoned
  <2>2. CASE StageStep(c)
    BY <2>1, <2>2 DEF FilesApart, StageStep, StageReadPrevious, StageMakeDir, StageWritePointer,
       ExtractBegin, ExtractEnd, ExtractFails
  <2>3. CASE DiscardStep(c)
    BY <2>1, <2>3 DEF DiscardStep, DiscardReadStaged, DiscardRemoveFiles, DiscardRemoveDir,
       DiscardUnstage
  <2>4. CASE PromoteStep(c)
    BY <2>1, <2>4 DEF PromoteStep, PromoteReadStaged, PromoteReadCurrent, PromoteSavePrevious,
       PromoteActivate, PromoteUnstage
  <2>5. CASE SwitchStep(c)
    BY <2>1, <2>5 DEF SwitchStep, SwitchReadCurrent, SwitchSavePrevious, SwitchActivate
  <2>6. CASE RevertStep(c)
    BY <2>1, <2>6 DEF RevertStep, RevertReadCurrent, RevertActivate, RevertSavePrevious
  <2>7. CASE PruneStep(c)
    BY <2>1, <2>7 DEF PruneStep, PruneSpareCurrent, PruneSparePrevious, PruneSpareStaged, Spare,
       PruneRemoveFiles, PruneRemoveDir
  <2>8. CASE BootstrapWritePointer(c)
    BY <2>1, <2>8 DEF BootstrapWritePointer
  <2>9. CASE Fault(c)
    BY <2>1, <2>9, FaultyAssumption DEF Fault, Halfway
  <2> QED BY <1>2, <2>2, <2>3, <2>4, <2>5, <2>6, <2>7, <2>8, <2>9 DEF Continue
<1> QED BY <1>1, <1>2

-----------------------------------------------------------------------------
(* Counting what Prune keeps.                                              *)
Above(S, v) == {w \in S : w > v}

LEMMA AboveFinite ==
  ASSUME NEW S \in SUBSET Versions, NEW v
  PROVE  IsFiniteSet(S) /\ IsFiniteSet(Above(S, v)) /\ Cardinality(Above(S, v)) \in Nat
<1>1. IsFiniteSet(S)
  BY VersionsAssumption, FS_Subset
<1>2. IsFiniteSet(Above(S, v))
  BY <1>1, FS_Subset DEF Above
<1> QED BY <1>1, <1>2, FS_CardinalityType

(* Every set of versions has one that comes first.                         *)
LEMMA HasFirst ==
  ASSUME NEW S \in SUBSET Versions, S # {} PROVE \E v \in S : \A w \in S : v <= w
<1> DEFINE R == OpToRel(<, Nat)
<1>1. IsWellFoundedOn(R, Nat) /\ S \subseteq Nat
  BY NatLessThanWellFounded, VersionsAssumption
<1>2. \A x, y \in Nat : y < x => <<y, x>> \in R
  BY DEF OpToRel
<1> HIDE DEF R
<1>3. PICK v \in S : \A w \in S : ~ (<<w, v>> \in R)
  BY <1>1, WFMin
<1>4. S \subseteq Nat
  BY <1>1
<1>5. \A w \in S : ~ (w < v)
  BY <1>2, <1>3, <1>4
<1>6. \A w \in S : v <= w
  BY <1>4, <1>5
<1> QED BY <1>6

(* If nothing is doomed, at most Retain releases are left: the first has   *)
(* all others above it.                                                    *)
LEMMA NothingDoomed ==
  ASSUME NEW S \in SUBSET Versions, Doomed(S) = {} PROVE Cardinality(S) <= Retain
<1>1. CASE S = {}
  BY <1>1, FS_EmptySet, OwnerAssumption
<1>2. CASE S # {}
  <2>1. PICK v \in S : \A w \in S : v <= w
    BY <1>2, HasFirst
  <2>2. Above(S, v) = S \ {v}
    <3>1. S \subseteq Nat
      BY VersionsAssumption
    <3>2. \A w \in S : w > v <=> w # v
      BY <2>1, <3>1
    <3> QED BY <3>2 DEF Above
  <2>3. Cardinality(S \ {v}) = Cardinality(S) - 1 /\ Cardinality(S) \in Nat
    BY AboveFinite, FS_RemoveElement, FS_CardinalityType
  <2>4. ~ (Cardinality(Above(S, v)) >= Retain)
    BY DEF Doomed, Above
  <2> QED BY <2>2, <2>3, <2>4, OwnerAssumption
<1> QED BY <1>1, <1>2

(* To delete the last of the doomed dooms no other and spares none.        *)
LEMMA DoomedButLast ==
  ASSUME NEW S \in SUBSET Versions, NEW v \in Doomed(S), \A w \in Doomed(S) : w <= v
  PROVE  Doomed(S \ {v}) = Doomed(S) \ {v}
<1>1. v \in S /\ Cardinality(Above(S, v)) >= Retain
  BY DEF Doomed, Above
<1>2. ASSUME NEW w \in Doomed(S), w # v PROVE w \in Doomed(S \ {v})
  <2>1. w \in S /\ w < v
    BY <1>2, VersionsAssumption DEF Doomed
  <2>2. Above(S, v) \subseteq Above(S \ {v}, w)
    <3>1. S \subseteq Nat
      BY VersionsAssumption
    <3>2. \A u \in S : u > v => u > w /\ u # v
      BY <1>1, <2>1, <3>1
    <3> QED BY <3>2 DEF Above
  <2>3. Cardinality(Above(S, v)) <= Cardinality(Above(S \ {v}, w))
    BY <2>2, AboveFinite, FS_Subset
  <2>4. /\ Cardinality(Above(S, v)) \in Nat /\ Cardinality(Above(S \ {v}, w)) \in Nat
    BY AboveFinite
  <2>5. Cardinality(Above(S \ {v}, w)) >= Retain
    BY <1>1, <2>3, <2>4, OwnerAssumption
  <2> QED BY <2>1, <2>5, VersionsAssumption DEF Doomed, Above
<1>3. ASSUME NEW w \in Doomed(S \ {v}) PROVE w \in Doomed(S) /\ w # v
  <2>1. w \in S /\ w # v /\ Cardinality(Above(S \ {v}, w)) >= Retain
    BY DEF Doomed, Above
  <2>2. Above(S \ {v}, w) \subseteq Above(S, w)
    BY DEF Above
  <2>3. Cardinality(Above(S \ {v}, w)) <= Cardinality(Above(S, w))
    BY <2>2, AboveFinite, FS_Subset
  <2>4. Cardinality(Above(S, w)) \in Nat /\ Cardinality(Above(S \ {v}, w)) \in Nat
    BY AboveFinite
  <2>5. Cardinality(Above(S, w)) >= Retain
    BY <2>1, <2>3, <2>4, OwnerAssumption
  <2> QED BY <2>1, <2>5 DEF Doomed, Above
<1> QED BY <1>2, <1>3

(* Prune's list, as it is struck out and worked off.                       *)
Unreferenced == Installed \ Referenced

ListAsMeant(c) ==
  /\ at[c] = "prune.cur" => list[c] = Installed
  /\ at[c] = "prune.prev" => list[c] = Installed \ {current}
  /\ at[c] = "prune.staged" => list[c] = Installed \ {current, previous}
  /\ at[c] = "prune.rm" => list[c] = Doomed(Unreferenced)
  /\ at[c] = "prune.rmdir" => /\ ver[c] \in Unreferenced
                              /\ list[c] = Doomed(Unreferenced \ {ver[c]})

PruneInv == \A c \in Callers : ListAsMeant(c)

LEMMA InitPruneInv == StoreInit => PruneInv
  BY DEF StoreInit, PruneInv, ListAsMeant

(* While one caller prunes, only its own list matters.                     *)
LEMMA PrunesAlone ==
  ASSUME OneAtATime, TypeOK, NEW c \in Callers, at[c] \in PruneSteps, ListAsMeant(c)',
         NEW step, at' = [at EXCEPT ![c] = step]
  PROVE  PruneInv'
<1>1. SUFFICES ASSUME NEW d \in Callers \ {c} PROVE ListAsMeant(d)'
  BY DEF PruneInv
<1>2. at'[d] = at[d] /\ at[d] \in Ready
  BY DEF OneAtATime, TypeOK
<1> QED BY <1>2 DEF ListAsMeant

(* While callers take turns, the list is what Prune means it to be.        *)
LEMMA StepPruneInv ==
  ASSUME OneAtATime, OneAtATime', TypeOK, PruneInv, [StoreNext]_storeVars
  PROVE  PruneInv'
<1> USE VersionsAssumption DEF pointers, TypeOK, GoTo, Return
<1>1. CASE UNCHANGED storeVars
  <2>1. Installed' = Installed /\ Unreferenced' = Unreferenced /\ UNCHANGED <<pointers, locals>>
    BY <1>1 DEF storeVars, locals, Unreferenced, Installed, Referenced
  <2> QED BY <2>1 DEF PruneInv, ListAsMeant, locals
<1>2. CASE Crash
  BY <1>2 DEF Crash, PruneInv, ListAsMeant
<1>3. ASSUME NEW c \in Callers, Begin(c) PROVE PruneInv'
  <2> USE DEF OneAtATime, Begins
  <2>1. CASE PruneList(c)
    <3>1. Installed' = Installed /\ \A d \in Callers \ {c} : at'[d] \in Ready
      BY <2>1 DEF PruneList, Installed
    <3>2. at'[c] = "prune.cur" /\ list'[c] = Installed
      BY <2>1 DEF PruneList, Installed
    <3> QED BY <3>1, <3>2 DEF PruneInv, ListAsMeant
  <2>2. CASE ~PruneList(c)
    <3>1. /\ UNCHANGED <<pointers, files>> /\ at'[c] \notin PruneSteps
          /\ \A d \in Callers \ {c} : UNCHANGED <<at[d], ver[d], list[d]>>
      <4>1. CASE \E v \in Versions : StageReadCurrent(c, v)
        BY <4>1 DEF StageReadCurrent
      <4>2. CASE \E v \in Versions : SwitchStat(c, v)
        BY <4>2 DEF SwitchStat
      <4>3. CASE RevertReadPrevious(c)
        BY <4>3 DEF RevertReadPrevious
      <4>4. CASE BootstrapReadCurrent(c)
        BY <4>4 DEF BootstrapReadCurrent
      <4> QED BY <1>3, <2>2, <4>1, <4>2, <4>3, <4>4 DEF Begin
    <3>2. Installed' = Installed /\ Unreferenced' = Unreferenced
      BY <3>1 DEF Unreferenced, Installed, Referenced
    <3> QED BY <3>1, <3>2 DEF PruneInv, ListAsMeant
  <2> QED BY <2>1, <2>2
<1>4. ASSUME NEW c \in Callers, Continue(c) PROVE PruneInv'
  <2>1. CASE PruneStep(c)
    <3>0. ListAsMeant(c)
      BY DEF PruneInv
    <3>1. CASE PruneSpareCurrent(c)
      <4>1. /\ at[c] = "prune.cur" /\ at' = [at EXCEPT ![c] = "prune.prev"]
            /\ UNCHANGED <<pointers, files>> /\ list' = [list EXCEPT ![c] = @ \ {current}]
        BY <3>1 DEF PruneSpareCurrent, Spare
      <4>2. list'[c] = Installed' \ {current'}
        BY <3>0, <4>1 DEF ListAsMeant, Installed
      <4>3. ListAsMeant(c)'
        BY <4>1, <4>2 DEF ListAsMeant
      <4> QED BY <4>1, <4>3, PrunesAlone
    <3>2. CASE PruneSparePrevious(c)
      <4>1. /\ at[c] = "prune.prev" /\ at' = [at EXCEPT ![c] = "prune.staged"]
            /\ UNCHANGED <<pointers, files>> /\ list' = [list EXCEPT ![c] = @ \ {previous}]
        BY <3>2 DEF PruneSparePrevious, Spare
      <4>2. list'[c] = Installed' \ {current', previous'}
        BY <3>0, <4>1 DEF ListAsMeant, Installed
      <4>3. ListAsMeant(c)'
        BY <4>1, <4>2 DEF ListAsMeant
      <4> QED BY <4>1, <4>3, PrunesAlone
    <3>3. CASE PruneSpareStaged(c)
      <4>1. /\ at[c] = "prune.staged" /\ at' = [at EXCEPT ![c] = "prune.rm"]
            /\ UNCHANGED <<pointers, files>> /\ list' = [list EXCEPT ![c] = Doomed(@ \ {staged})]
        BY <3>3 DEF PruneSpareStaged
      <4>2. (Installed \ {current, previous}) \ {staged} = Unreferenced
        BY DEF Unreferenced, Referenced
      <4>3. list'[c] = Doomed(Unreferenced)
        BY <3>0, <4>1, <4>2 DEF ListAsMeant
      <4>4. Unreferenced' = Unreferenced
        BY <4>1 DEF Unreferenced, Installed, Referenced
      <4>5. ListAsMeant(c)'
        BY <4>1, <4>3, <4>4 DEF ListAsMeant, Doomed
      <4> QED BY <4>1, <4>5, PrunesAlone
    <3>4. CASE PruneRemoveFiles(c)
      <4>1. at[c] = "prune.rm" /\ list[c] = Doomed(Unreferenced) /\ UNCHANGED pointers
        BY <3>0, <3>4 DEF PruneRemoveFiles, ListAsMeant
      <4>2. CASE list[c] = {}
        <5>1. at' = [at EXCEPT ![c] = "done"]
          BY <3>4, <4>2 DEF PruneRemoveFiles
        <5>2. ListAsMeant(c)'
          BY <5>1 DEF ListAsMeant
        <5> QED BY <4>1, <5>1, <5>2, PrunesAlone
      <4>3. CASE list[c] # {}
        <5>1. PICK v \in list[c] :
                /\ \A w \in list[c] : w <= v
                /\ files' = [files EXCEPT ![v] = IF @ = "absent" THEN @ ELSE "partial"]
                /\ at' = [at EXCEPT ![c] = "prune.rmdir"]
                /\ ver' = [ver EXCEPT ![c] = v]
                /\ list' = [list EXCEPT ![c] = @ \ {v}]
          BY <3>4, <4>3 DEF PruneRemoveFiles
        <5>2. Unreferenced' = Unreferenced /\ Unreferenced \in SUBSET Versions
          BY <4>1, <5>1 DEF Unreferenced, Installed, Referenced
        <5>3. Doomed(Unreferenced \ {v}) = Doomed(Unreferenced) \ {v}
          <6>1. v \in Doomed(Unreferenced) /\ \A w \in Doomed(Unreferenced) : w <= v
            BY <4>1, <5>1
          <6> QED BY ONLY <5>2, <6>1, DoomedButLast
        <5>4. v \in Unreferenced
          BY <4>1 DEF Doomed
        <5>5. at'[c] = "prune.rmdir" /\ ver'[c] = v /\ list'[c] = list[c] \ {v}
          BY <5>1
        <5>6. ver'[c] \in Unreferenced' /\ list'[c] = Doomed(Unreferenced' \ {ver'[c]})
          BY <4>1, <5>2, <5>3, <5>4, <5>5
        <5>7. (Doomed(Unreferenced \ {ver[c]}))' = Doomed(Unreferenced' \ {ver'[c]})
          BY DEF Doomed
        <5>8. ListAsMeant(c)'
          BY <5>5, <5>6, <5>7 DEF ListAsMeant
        <5> QED BY <4>1, <5>1, <5>8, PrunesAlone
      <4> QED BY <4>2, <4>3
    <3>5. CASE PruneRemoveDir(c)
      <4>1. /\ at[c] = "prune.rmdir" /\ list[c] = Doomed(Unreferenced \ {ver[c]})
            /\ ver[c] \in Unreferenced
        BY <3>0, <3>5 DEF PruneRemoveDir, ListAsMeant
      <4>2. Unreferenced' = Unreferenced \ {ver[c]}
        BY <3>5, <4>1 DEF PruneRemoveDir, Unreferenced, Installed, Referenced
      <4>3. list'[c] = Doomed(Unreferenced') /\ at' = [at EXCEPT ![c] = "prune.rm"]
        BY <3>5, <4>1, <4>2 DEF PruneRemoveDir
      <4>4. (Doomed(Unreferenced))' = Doomed(Unreferenced')
        BY DEF Doomed
      <4>5. ListAsMeant(c)'
        BY <4>3, <4>4 DEF ListAsMeant
      <4> QED BY <4>1, <4>3, <4>5, PrunesAlone
    <3> QED BY <2>1, <3>1, <3>2, <3>3, <3>4, <3>5 DEF PruneStep
  <2>2. CASE ~PruneStep(c)
    <3> DEFINE Leads == /\ at[c] \notin Ready
                        /\ \E step \in Steps \ PruneSteps : at' = [at EXCEPT ![c] = step]
    <3>1. Leads
      <4>1. CASE StageStep(c)
        BY <4>1 DEF StageStep, StageReadPrevious, StageMakeDir, StageWritePointer, ExtractBegin,
                    ExtractEnd, ExtractFails
      <4>2. CASE DiscardStep(c)
        BY <4>2 DEF DiscardStep, DiscardReadStaged, DiscardRemoveFiles, DiscardRemoveDir,
                    DiscardUnstage
      <4>3. CASE PromoteStep(c)
        BY <4>3, OwnerAssumption DEF PromoteStep, PromoteReadStaged, PromoteReadCurrent,
                    PromoteSavePrevious, PromoteActivate, PromoteUnstage
      <4>4. CASE SwitchStep(c)
        BY <4>4 DEF SwitchStep, SwitchReadCurrent, SwitchSavePrevious, SwitchActivate
      <4>5. CASE RevertStep(c)
        BY <4>5 DEF RevertStep, RevertReadCurrent, RevertActivate, RevertSavePrevious
      <4>6. CASE BootstrapWritePointer(c)
        BY <4>6 DEF BootstrapWritePointer
      <4>7. CASE Fault(c)
        BY <4>7, OwnerAssumption, FaultyAssumption DEF Fault
      <4> QED BY <1>4, <2>2, <4>1, <4>2, <4>3, <4>4, <4>5, <4>6, <4>7 DEF Continue
    <3>2. \A d \in Callers : at'[d] \notin PruneSteps
      BY <3>1 DEF OneAtATime
    <3> QED BY <3>2 DEF PruneInv, ListAsMeant
  <2> QED BY <2>1, <2>2
<1> QED BY <1>1, <1>2, <1>3, <1>4 DEF StoreNext

(* When Prune has deleted what it meant to, at most Retain releases beyond *)
(* those the pointers name are left, with any number of releases.          *)
THEOREM PruneAlwaysBoundsDisk == SerialSpec => []PruneBoundsDisk
<1> DEFINE Inv == TypeOK /\ OneAtATime /\ PruneInv
<1>1. StoreInit => Inv
  BY InitTypeOK, InitOneAtATime, InitPruneInv
<1>2. Inv /\ [StoreNext /\ OneAtATime']_storeVars => Inv'
  BY StepTypeOK, StepOneAtATime, StepPruneInv
<1>3. PruneInv => PruneBoundsDisk
  <2> SUFFICES ASSUME PruneInv, NEW c \in Callers, at[c] = "prune.rm", list[c] = {}
               PROVE  Cardinality(Unreferenced) <= Retain
    BY DEF PruneBoundsDisk, Unreferenced
  <2>1. Doomed(Unreferenced) = {}
    BY DEF PruneInv, ListAsMeant
  <2>2. Unreferenced \in SUBSET Versions
    BY DEF Unreferenced, Installed
  <2> QED BY <2>1, <2>2, NothingDoomed
<1> QED BY <1>1, <1>2, <1>3, PTL DEF SerialSpec

(* A release Prune deletes is named by no pointer, and Retain others that  *)
(* none names are kept whose names come after it in lexical order.         *)
THEOREM PruneAlwaysRetainsLast == SerialSpec => PruneRetainsLast
<1> DEFINE Inv == TypeOK /\ OneAtATime /\ PruneInv
           Retains == \A c \in Callers, v \in Versions :
             at[c] = "prune.rm" /\ files'[v] # files[v] =>
               /\ v \notin Referenced
               /\ Cardinality({w \in Installed \ Referenced : w > v}) >= Retain
<1>1. StoreInit => Inv
  BY InitTypeOK, InitOneAtATime, InitPruneInv
<1>2. Inv /\ [StoreNext /\ OneAtATime']_storeVars => Inv'
  BY StepTypeOK, StepOneAtATime, StepPruneInv
<1>3. ASSUME Inv, [StoreNext]_storeVars, NEW c \in Callers, NEW v \in Versions,
             at[c] = "prune.rm", files'[v] # files[v]
      PROVE  /\ v \notin Referenced
             /\ Cardinality({w \in Installed \ Referenced : w > v}) >= Retain
  <2>1. PruneRemoveFiles(c)
    <3>1. \A d \in Callers : at[d] \notin Ready => d = c
      BY <1>3 DEF OneAtATime
    <3>2. PICK d \in Callers : Begin(d) \/ Continue(d)
      BY <1>3 DEF StoreNext, Crash, storeVars
    <3>3. ~Begin(d)
      BY <1>3 DEF Begin, StageReadCurrent, SwitchStat, RevertReadPrevious, PruneList,
                  BootstrapReadCurrent
    <3>4. at[d] \notin Ready
      BY <3>2, <3>3, FaultyAssumption
      DEF Continue, StageStep, StageReadPrevious, StageMakeDir, StageWritePointer, ExtractBegin,
          ExtractEnd, ExtractFails, DiscardStep, DiscardReadStaged, DiscardRemoveFiles,
          DiscardRemoveDir, DiscardUnstage, PromoteStep, PromoteReadStaged, PromoteReadCurrent,
          PromoteSavePrevious, PromoteActivate, PromoteUnstage, SwitchStep, SwitchReadCurrent,
          SwitchSavePrevious, SwitchActivate, RevertStep, RevertReadCurrent, RevertActivate,
          RevertSavePrevious, PruneStep, PruneSpareCurrent, PruneSparePrevious, PruneSpareStaged,
          PruneRemoveFiles, PruneRemoveDir, BootstrapWritePointer, Fault
    <3>5. Continue(c)
      BY <3>1, <3>2, <3>3, <3>4
    <3> QED BY <1>3, <3>5
      DEF Continue, StageStep, StageReadPrevious, StageMakeDir, StageWritePointer, ExtractBegin,
          ExtractEnd, ExtractFails, DiscardStep, DiscardReadStaged, DiscardRemoveFiles,
          DiscardRemoveDir, DiscardUnstage, PromoteStep, PromoteReadStaged, PromoteReadCurrent,
          PromoteSavePrevious, PromoteActivate, PromoteUnstage, SwitchStep, SwitchReadCurrent,
          SwitchSavePrevious, SwitchActivate, RevertStep, RevertReadCurrent, RevertActivate,
          RevertSavePrevious, PruneStep, PruneSpareCurrent, PruneSparePrevious, PruneSpareStaged,
          PruneRemoveDir, BootstrapWritePointer, Fault
  <2>2. v \in list[c]
    BY <1>3, <2>1 DEF PruneRemoveFiles, TypeOK, Return
  <2>3. list[c] = Doomed(Unreferenced)
    BY <1>3 DEF PruneInv, ListAsMeant
  <2> QED BY <2>2, <2>3 DEF Doomed, Unreferenced
<1>4. Inv /\ [StoreNext /\ OneAtATime']_storeVars => [Retains]_storeVars
  BY <1>3
<1> QED BY <1>1, <1>2, <1>4, PTL DEF SerialSpec, PruneRetainsLast

-----------------------------------------------------------------------------
(* What an operation of the store means to its caller: where it stands,    *)
(* and what it knows about the pointers, as long as no other caller moves. *)

USE DEF StageSteps, ExtractSteps, DiscardSteps, PromoteSteps, RevertSteps, PruneSteps

Filling == {"stage.prev", "stage.dir", "stage.ptr", "staged", "extract", "filled"}
Discarding == {"rejected", "error"} \cup DiscardSteps

USE DEF Filling, Discarding

(* Promote goes from one release to the next, which Stage has staged.      *)
Placed(h, from, to) ==
  /\ at[h] \in {"stage.prev", "stage.dir", "stage.ptr", "promote.cur", "promote.prev",
                "promote.act"} => ver[h] = to
  /\ at[h] \in {"staged", "extract", "filled"} => staged = to
  /\ at[h] \in Filling \cup {"promote.cur", "promote.prev", "promote.act"} => current = from
  /\ at[h] = "promote.prev" => seen[h] = from
  /\ at[h] \in {"promote.act", "promote.unstage", "done"} => previous = from
  /\ at[h] \in {"promote.unstage", "done"} => current = to
  /\ at[h] \in Discarding => current \in {from, to}

(* RollbackToPrevious goes from one release to the one "previous" named.   *)
Reverts(h, from, to) ==
  /\ at[h] \in RevertSteps => to # NoVersion
  /\ at[h] \in {"revert.cur", "revert.act"} => current = from /\ previous = to /\ ver[h] = to
  /\ at[h] \in {"revert.act", "revert.swap"} => seen[h] = from
  /\ at[h] \in {"revert.swap", "done"} => current = to
  /\ at[h] = "done" => previous = from
  /\ at[h] = "error" => current \in {from, to}

(* An operation of the store stays within its steps until it returns.      *)
LEMMA InstallEffect ==
  ASSUME TypeOK, NEW h \in Callers, NEW from, NEW to \in Versions, Continue(h),
         current = NoVersion => previous = NoVersion
  PROVE  /\ at[h] \notin Ready
         /\ at[h] \in Filling \ {"filled"} => at'[h] \in Filling \cup Discarding
         /\ at[h] \in Discarding => at'[h] \in Discarding
         /\ at[h] \in {"filled"} \cup PromoteSteps => at'[h] \in PromoteSteps \cup {"done"} \cup Discarding
         /\ at[h] \in Filling \cup Discarding \cup PromoteSteps /\ Placed(h, from, to) /\ from # to =>
              /\ Placed(h, from, to)'
              /\ current' # current => at[h] = "promote.act" /\ current = from /\ current' = to
              /\ previous' # previous => previous' = current
         /\ at[h] \in PruneSteps =>
              at'[h] \in PruneSteps \cup Ready /\ current' = current /\ previous' = previous
<1> USE DEF TypeOK, GoTo, Return, pointers, Placed
<1>1. CASE StageStep(h)
  BY <1>1 DEF StageStep, StageReadPrevious, StageMakeDir, StageWritePointer, ExtractBegin,
              ExtractEnd, ExtractFails
<1>2. CASE DiscardStep(h)
  BY <1>2 DEF DiscardStep, DiscardReadStaged, DiscardRemoveFiles, DiscardRemoveDir, DiscardUnstage
<1>3. CASE PromoteStep(h)
  <2>1. CASE PromoteReadStaged(h)
    BY <2>1, OwnerAssumption DEF PromoteReadStaged
  <2>2. CASE PromoteReadCurrent(h)
    BY <2>2 DEF PromoteReadCurrent
  <2>3. CASE PromoteSavePrevious(h)
    BY <2>3 DEF PromoteSavePrevious
  <2>4. CASE PromoteActivate(h) \/ PromoteUnstage(h)
    BY <2>4 DEF PromoteActivate, PromoteUnstage
  <2> QED BY <1>3, <2>1, <2>2, <2>3, <2>4 DEF PromoteStep
<1>4. CASE SwitchStep(h)
  BY <1>4 DEF SwitchStep, SwitchReadCurrent, SwitchSavePrevious, SwitchActivate
<1>5. CASE RevertStep(h)
  BY <1>5 DEF RevertStep, RevertReadCurrent, RevertActivate, RevertSavePrevious
<1>6. CASE PruneStep(h)
  BY <1>6 DEF PruneStep, PruneSpareCurrent, PruneSparePrevious, PruneSpareStaged, Spare,
              PruneRemoveFiles, PruneRemoveDir
<1>7. CASE BootstrapWritePointer(h)
  BY <1>7 DEF BootstrapWritePointer
<1>8. CASE Fault(h)
  BY <1>8, OwnerAssumption, FaultyAssumption DEF Fault, Steps
<1> QED BY <1>1, <1>2, <1>3, <1>4, <1>5, <1>6, <1>7, <1>8 DEF Continue

LEMMA RevertEffect ==
  ASSUME TypeOK, NEW h \in Callers, NEW from, NEW to, Continue(h),
         at[h] \in RevertSteps, Reverts(h, from, to), current = NoVersion => previous = NoVersion
  PROVE  /\ at'[h] \in RevertSteps \cup Ready
         /\ Reverts(h, from, to)'
         /\ current' # current => at[h] = "revert.act" /\ current = from /\ current' = to
         /\ current' # NoVersion \/ current = NoVersion
         /\ previous' # previous => current # NoVersion
<1> USE DEF TypeOK, GoTo, Return, pointers, Reverts
<1>1. CASE RevertStep(h)
  BY <1>1 DEF RevertStep, RevertReadCurrent, RevertActivate, RevertSavePrevious
<1>2. CASE Fault(h)
  BY <1>2 DEF Fault
<1>3. ~StageStep(h) /\ ~DiscardStep(h) /\ ~PromoteStep(h)
  BY DEF StageStep, StageReadPrevious, StageMakeDir, StageWritePointer, ExtractBegin, ExtractEnd,
         ExtractFails, DiscardStep, DiscardReadStaged, DiscardRemoveFiles, DiscardRemoveDir,
         DiscardUnstage, PromoteStep, PromoteReadStaged, PromoteReadCurrent, PromoteSavePrevious,
         PromoteActivate, PromoteUnstage
<1>4. ~SwitchStep(h) /\ ~PruneStep(h) /\ ~BootstrapWritePointer(h)
  BY DEF SwitchStep, SwitchReadCurrent, SwitchSavePrevious, SwitchActivate, PruneStep,
         PruneSpareCurrent, PruneSparePrevious, PruneSpareStaged, PruneRemoveFiles,
         PruneRemoveDir, BootstrapWritePointer
<1> QED BY <1>1, <1>2, <1>3, <1>4 DEF Continue

(* RollbackToPrevious begins, or there is nothing to go back to.           *)
LEMMA RevertBegins ==
  ASSUME TypeOK, NEW h \in Callers, RevertReadPrevious(h), NEW from, current = from,
         NEW to, previous = to
  PROVE  /\ at'[h] \in RevertSteps \cup Ready /\ Reverts(h, from, to)'
         /\ current' = current /\ previous' = previous
  BY DEF RevertReadPrevious, TypeOK, Return, GoTo, pointers, Reverts
=============================================================================
