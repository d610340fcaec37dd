--------------------------- MODULE SelfUpdateProofs ---------------------------
(***************************************************************************)
(* Proofs about SelfUpdate: what an update of the agent keeps, from the    *)
(* request over the restart to the boot guard and the deferred health      *)
(* check.                                                                  *)
(***************************************************************************)
EXTENDS SelfUpdate, ReleaseStoreProofs

USE DEF Pointer, Ready

(* A handler that works on an update knows which; the guard and the health *)
(* check act on one that is pending.                                       *)
SelfInv ==
  /\ SelfTypeOK
  /\ \A h \in Handlers :
       /\ job[h] \in {"download", "install", "reply"} => req[h] \in Updates
       /\ job[h] # "idle" => proc = "serve"
  /\ proc \in {"guard.rollback", "guard.clear", "resume.commit", "resume.rollback", "resume.clear"}
       => marker \in Updates

LEMMA CallersType == ASSUME NEW h \in Handlers PROVE h \in Callers /\ h # Main /\ Main \in Callers
  BY CallersAssumption

LEMMA MainIsCaller == Main \in Callers
  BY CallersAssumption

LEMMA RowType ==
  ASSUME NEW status \in {"none", "started", "succeeded", "rolled_back", "failed"}, NEW to \in Pointer
  PROVE  Row(status, to) \in Rows
  BY DEF Row, Rows

LEMMA SelfInit == Init => SelfInv
<1> SUFFICES ASSUME Init PROVE SelfInv
  OBVIOUS
<1>1. TypeOK
  BY InitTypeOK DEF Init
<1>2. "down" \in Phases /\ "idle" \in Jobs /\ Row("none", NoVersion) \in Rows
  BY RowType DEF Phases, Jobs
<1>3. 0 \in 0 .. MaxAttempts + 1 /\ 0 \in 0 .. MaxCrashes
  BY AttemptsAssumption
<1>4. job \in [Handlers -> Jobs] /\ req \in [Handlers -> Updates \cup {NoMarker}]
  BY <1>2 DEF Init
<1>5. \A h \in Handlers : job[h] = "idle"
  BY DEF Init
<1> QED BY <1>1, <1>2, <1>3, <1>4, <1>5 DEF Init, SelfInv, SelfTypeOK

(* What the process does to the store is a step of the store, or none.     *)
LEMMA StoreSteps == ASSUME SelfInv, [Next]_vars PROVE [StoreNext]_storeVars
<1>1. CASE UNCHANGED vars
  BY <1>1 DEF vars, storeVars
<1>2. CASE MainStep
  <2>1. CASE GuardOverBudget \/ ResumeUnhealthy
    BY <2>1, MainIsCaller DEF GuardOverBudget, ResumeUnhealthy, StoreNext, Begin
  <2>2. CASE ResumeHealthy
    BY <2>2, MainIsCaller DEF ResumeHealthy, StoreNext, Begin
  <2>3. CASE StoreStep(Main)
    BY <2>3, MainIsCaller DEF StoreStep, StoreNext
  <2>4. CASE GuardExit \/ StartDies \/ Exit \/ ResumeClear
    BY <2>4 DEF GuardExit, StartDies, Exit, Die, ResumeClear, StoreNext
  <2> QED BY <1>2, <2>1, <2>2, <2>3, <2>4
          DEF MainStep, Exec, GuardNothingPending, GuardWithinBudget, GuardCountFails, GuardRecord,
              GuardRollbackFailed, GuardClear, GuardErrorIgnored, StartCompletes, ResumeNothing,
              ResumeRecord, ResumeRecordFails, ResumeClearFails
<1>3. CASE Killed
  BY <1>3 DEF Killed, Die, StoreNext
<1>4. ASSUME NEW h \in Handlers, Request(h) PROVE [StoreNext]_storeVars
  BY <1>4, CallersType DEF Request, RollbackBegin, InstallBegin, StoreNext, Begin
<1>5. ASSUME NEW h \in Handlers, HandlerStep(h) PROVE [StoreNext]_storeVars
  <2>1. CASE InstallStage(h)
    <3>1. req[h].to \in Versions
      BY <2>1 DEF InstallStage, SelfInv, Updates
    <3> QED BY <2>1, <3>1, CallersType DEF InstallStage, StoreNext, Begin
  <2>2. CASE StoreStep(h)
    BY <2>2, CallersType DEF StoreStep, StoreNext
  <2> QED BY <1>5, <2>1, <2>2 DEF HandlerStep, InstallFails, InstallMark, InstallMarkFails,
             InstallReply, RollbackDone, RollbackFails
<1> QED BY <1>1, <1>2, <1>3, <1>4, <1>5 DEF Next

LEMMA UpdateType ==
  ASSUME NEW u \in Updates PROVE u.from \in Pointer /\ u.to \in Versions /\ u.to \in Pointer /\ u # NoMarker
  BY NoMarkerAssumption DEF Updates

(* The process ends in a state a start may begin from.                     *)
LEMMA DieTyped ==
  ASSUME SelfInv, Die, TypeOK', crashes' \in 0 .. MaxCrashes PROVE SelfInv'
<1>1. "down" \in Phases /\ "idle" \in Jobs
  BY DEF Phases, Jobs
<1> QED BY <1>1 DEF Die, SelfInv, SelfTypeOK, Rows, Updates

(* The startup goroutine goes on while no handler runs.                    *)
LEMMA MainGoes ==
  ASSUME SelfInv, proc # "serve", NEW next \in Phases, proc' = next, running' \in Pointer,
         guardErr' \in BOOLEAN, UNCHANGED <<httpVars, crashes>>, TypeOK',
         marker' \in Updates \cup {NoMarker}, attempts' \in 0 .. MaxAttempts + 1,
         outcome' \in Rows,
         next \in {"guard.rollback", "guard.clear", "resume.commit", "resume.rollback", "resume.clear"}
           => marker' \in Updates
  PROVE  SelfInv'
<1>1. \A h \in Handlers : job[h] = "idle"
  BY DEF SelfInv
<1> QED BY <1>1 DEF SelfInv, SelfTypeOK, httpVars, Rows, Updates

LEMMA CountType ==
  ASSUME SelfInv
  PROVE  0 \in 0 .. MaxAttempts + 1 /\ Counted \in 0 .. MaxAttempts + 1
  BY AttemptsAssumption DEF SelfInv, SelfTypeOK, Counted

LEMMA MainTyped == ASSUME SelfInv, MainStep, TypeOK' PROVE SelfInv'
<1> USE MainGoes, RowType, CountType, UpdateType DEF Proceed, ResetsAttempts
<1>0. /\ TypeOK /\ proc \in Phases /\ running \in Pointer /\ guardErr \in BOOLEAN
      /\ marker \in Updates \cup {NoMarker} /\ attempts \in 0 .. MaxAttempts + 1 /\ outcome \in Rows
      /\ \A next \in {"down", "guard", "guard.rollback", "guard.clear", "guard.reset", "start",
                      "resume", "resume.commit", "resume.rollback", "resume.clear", "serve"} :
           next \in Phases
      /\ TRUE \in BOOLEAN /\ FALSE \in BOOLEAN
  BY DEF SelfInv, SelfTypeOK, Phases, Guarding, Resuming
<1>1. CASE Exec
  BY <1>0, <1>1 DEF Exec, dbVars, TypeOK
<1>2. CASE GuardNothingPending \/ GuardWithinBudget \/ GuardCountFails \/ GuardOverBudget
  BY <1>0, <1>2 DEF GuardNothingPending, GuardWithinBudget, GuardCountFails, GuardOverBudget, dbVars
<1>3. CASE GuardRecord
  <2>1. marker.from \in Pointer /\ marker \in Updates
    BY <1>3 DEF GuardRecord, SelfInv
  <2> QED BY <1>0, <1>3, <2>1 DEF GuardRecord
<1>4. CASE GuardRollbackFailed
  <2>1. marker.from \in Pointer /\ marker \in Updates
    BY <1>4 DEF GuardRollbackFailed, SelfInv
  <2> QED BY <1>0, <1>4, <2>1 DEF GuardRollbackFailed
<1>5. CASE GuardClear \/ GuardErrorIgnored
  BY <1>0, <1>5 DEF GuardClear, GuardErrorIgnored
<1>6. CASE GuardExit
  BY <1>0, <1>6 DEF GuardExit
<1>7. CASE StartDies \/ Exit
  BY <1>7, DieTyped DEF StartDies, Exit, SelfInv, SelfTypeOK
<1>8. CASE StartCompletes \/ ResumeNothing \/ ResumeHealthy \/ ResumeUnhealthy
  BY <1>0, <1>8 DEF StartCompletes, ResumeNothing, ResumeHealthy, ResumeUnhealthy, dbVars
<1>9. CASE ResumeRecord
  <2>1. marker.to \in Pointer /\ marker \in Updates
    BY <1>9 DEF ResumeRecord, SelfInv
  <2>2. Verdict \in {"none", "started", "succeeded", "rolled_back", "failed"}
    BY DEF Verdict
  <2> QED BY <1>0, <1>9, <2>1, <2>2 DEF ResumeRecord
<1>10. CASE ResumeRecordFails \/ ResumeClearFails
  BY <1>0, <1>10 DEF ResumeRecordFails, ResumeClearFails, dbVars
<1>11. CASE ResumeClear
  BY <1>0, <1>11 DEF ResumeClear
<1>12. CASE StoreStep(Main)
  BY <1>12 DEF StoreStep, SelfInv, SelfTypeOK, mainVars, dbVars, httpVars, Rows, Updates
<1> QED BY <1>1, <1>2, <1>3, <1>4, <1>5, <1>6, <1>7, <1>8, <1>9, <1>10, <1>11, <1>12 DEF MainStep

(* A handler goes on while the process serves.                             *)
LEMMA HandlerGoes ==
  ASSUME SelfInv, NEW h \in Handlers, NEW next \in Jobs, Serving(h, next), proc = "serve",
         restarting' \in BOOLEAN, TypeOK',
         marker' \in Updates \cup {NoMarker}, attempts' = attempts, outcome' \in Rows,
         NEW r \in Updates \cup {NoMarker}, req' = [req EXCEPT ![h] = r],
         next \in {"download", "install", "reply"} => r \in Updates
  PROVE  SelfInv'
<1>1. /\ job' \in [Handlers -> Jobs] /\ job'[h] = next
      /\ \A g \in Handlers \ {h} : job'[g] = job[g]
      /\ req' \in [Handlers -> Updates \cup {NoMarker}] /\ req'[h] = r
      /\ \A g \in Handlers \ {h} : req'[g] = req[g]
  BY DEF Serving, SelfInv, SelfTypeOK
<1>2. proc' = "serve" /\ UNCHANGED <<running, guardErr, crashes>>
  BY DEF Serving, mainVars
<1> QED BY <1>1, <1>2 DEF SelfInv, SelfTypeOK, Rows, Updates

LEMMA SelfNext == SelfInv /\ [Next]_vars => SelfInv'
<1> SUFFICES ASSUME SelfInv, [Next]_vars PROVE SelfInv'
  OBVIOUS
<1>0. TypeOK'
  BY StoreSteps, StepTypeOK DEF SelfInv, SelfTypeOK
<1>1. CASE UNCHANGED vars
  BY <1>0, <1>1 DEF SelfInv, SelfTypeOK, vars, mainVars, dbVars, httpVars, Rows, Updates
<1>2. CASE MainStep
  BY <1>0, <1>2, MainTyped
<1>3. CASE Killed
  BY <1>0, <1>3, DieTyped, AttemptsAssumption DEF Killed, SelfInv, SelfTypeOK
<1>4. ASSUME NEW h \in Handlers, Request(h) \/ HandlerStep(h) PROVE SelfInv'
  <2> USE <1>0, HandlerGoes, RowType, UpdateType
  <2>0. /\ req[h] \in Updates \cup {NoMarker} /\ req = [req EXCEPT ![h] = req[h]]
        /\ marker \in Updates \cup {NoMarker} /\ outcome \in Rows /\ restarting \in BOOLEAN
        /\ \A next \in {"idle", "download", "install", "reply", "rollback"} : next \in Jobs
        /\ job[h] # "idle" => proc = "serve"
        /\ job[h] \in {"download", "install", "reply"} => req[h] \in Updates
        /\ current \in Pointer /\ TRUE \in BOOLEAN
    BY DEF SelfInv, SelfTypeOK, Jobs, TypeOK
  <2>1. ASSUME NEW v \in Versions, InstallBegin(h, v) PROVE SelfInv'
    <3>1. [from |-> current, to |-> v] \in Updates
      BY <2>0 DEF Updates
    <3> QED BY <2>0, <2>1, <3>1 DEF InstallBegin, Accepts
  <2>2. CASE RollbackBegin(h)
    BY <2>0, <2>2 DEF RollbackBegin, Accepts, dbVars
  <2>3. CASE InstallFails(h)
    <3>1. /\ job[h] # "idle" /\ UNCHANGED <<marker, attempts, restarting>>
          /\ req' = [req EXCEPT ![h] = NoMarker] /\ Serving(h, "idle")
      BY <2>3 DEF InstallFails
    <3>2. outcome' \in Rows
      BY <2>0, <2>3 DEF InstallFails
    <3> QED BY <2>0, <3>1, <3>2
  <2>4. CASE InstallStage(h)
    BY <2>0, <2>4 DEF InstallStage, dbVars
  <2>5. CASE InstallMark(h)
    BY <2>0, <2>5 DEF InstallMark
  <2>6. CASE InstallMarkFails(h)
    <3>1. /\ job[h] # "idle" /\ UNCHANGED <<marker, attempts, restarting>>
          /\ req' = [req EXCEPT ![h] = NoMarker] /\ Serving(h, "idle")
      BY <2>6 DEF InstallMarkFails
    <3>2. outcome' \in Rows
      BY <2>0, <2>6 DEF InstallMarkFails
    <3> QED BY <2>0, <3>1, <3>2
  <2>7. CASE InstallReply(h)
    <3>1. restarting' \in BOOLEAN
      BY <2>0, <2>7, Zenon DEF InstallReply
    <3> QED BY <2>0, <2>7, <3>1 DEF InstallReply, dbVars
  <2>8. CASE RollbackDone(h) \/ RollbackFails(h)
    <3>1. restarting' \in BOOLEAN
      BY <2>0, <2>8, Zenon DEF RollbackDone, RollbackFails
    <3>2. outcome' \in Rows /\ proc = "serve"
      BY <2>0, <2>8 DEF RollbackDone, RollbackFails, dbVars
    <3> QED BY <2>0, <2>8, <3>1, <3>2 DEF RollbackDone, RollbackFails, dbVars
  <2>9. CASE StoreStep(h)
    BY <2>9 DEF StoreStep, SelfInv, SelfTypeOK, mainVars, dbVars, httpVars, Rows, Updates
  <2> QED BY <1>4, <2>1, <2>2, <2>3, <2>4, <2>5, <2>6, <2>7, <2>8, <2>9 DEF Request, HandlerStep
<1> QED BY <1>1, <1>2, <1>3, <1>4 DEF Next

(* The state of an update stays well formed, whatever fails, is killed or  *)
(* requested.                                                              *)
THEOREM SelfTypeCorrect == Spec => []SelfTypeOK
<1>1. SelfInv => SelfTypeOK
  BY DEF SelfInv
<1> QED BY <1>1, SelfInit, SelfNext, PTL DEF Spec

-----------------------------------------------------------------------------
(* Who works on the store, and when.                                       *)

USE DEF StageSteps, ExtractSteps, DiscardSteps, PromoteSteps, RevertSteps, PruneSteps, SwitchSteps

(* A step of one caller leaves the others where they are.                  *)
LEMMA ContinueAlone ==
  ASSUME TypeOK, NEW c \in Callers, Continue(c)
  PROVE  at[c] \notin Ready /\ \A d \in Callers \ {c} : at'[d] = at[d]
<1> USE DEF TypeOK, GoTo, Return
<1>1. CASE StageStep(c) \/ DiscardStep(c)
  BY <1>1 DEF StageStep, StageReadPrevious, StageMakeDir, StageWritePointer, ExtractBegin,
              ExtractEnd, ExtractFails, DiscardStep, DiscardReadStaged, DiscardRemoveFiles,
              DiscardRemoveDir, DiscardUnstage
<1>2. CASE PromoteStep(c) \/ SwitchStep(c) \/ RevertStep(c)
  BY <1>2 DEF PromoteStep, PromoteReadStaged, PromoteReadCurrent, PromoteSavePrevious,
              PromoteActivate, PromoteUnstage, SwitchStep, SwitchReadCurrent, SwitchSavePrevious,
              SwitchActivate, RevertStep, RevertReadCurrent, RevertActivate, RevertSavePrevious
<1>3. CASE PruneStep(c) \/ BootstrapWritePointer(c)
  BY <1>3 DEF PruneStep, PruneSpareCurrent, PruneSparePrevious, PruneSpareStaged, Spare,
              PruneRemoveFiles, PruneRemoveDir, BootstrapWritePointer
<1>4. CASE Fault(c)
  BY <1>4, FaultyAssumption DEF Fault
<1> QED BY <1>1, <1>2, <1>3, <1>4 DEF Continue

LEMMA BeginAlone ==
  ASSUME TypeOK, NEW c \in Callers
  PROVE  /\ RevertReadPrevious(c) \/ PruneList(c) => \A d \in Callers \ {c} : at'[d] = at[d]
         /\ \A v : StageReadCurrent(c, v) => \A d \in Callers \ {c} : at'[d] = at[d]
  BY DEF TypeOK, GoTo, Return, RevertReadPrevious, PruneList, StageReadCurrent

(* The startup goroutine uses the store to recover and to commit, before   *)
(* there is a handler; a handler, in an installation or a rollback; and a  *)
(* patient operator waits for one to end.                                  *)
Reverting == {"guard.rollback", "resume.rollback"}

Turns ==
  /\ at[Main] \notin Ready => proc \in Reverting \cup {"resume.commit"}
  /\ \A h \in Handlers : at[h] \notin Ready => job[h] \in {"install", "rollback"}
  /\ Patient = TRUE => \A g, h \in Handlers : job[g] # "idle" /\ job[h] # "idle" => g = h

LEMMA TurnsInit == Init => Turns
  BY CallersAssumption DEF Init, StoreInit, Turns

LEMMA TurnsNext == ASSUME SelfInv, Turns, [Next]_vars PROVE Turns'
<1> USE DEF Turns, Reverting
<1>0. /\ TypeOK /\ at \in [Callers -> Steps] /\ job \in [Handlers -> Jobs] /\ Main \in Callers
      /\ \A h \in Handlers : h \in Callers /\ h # Main
      /\ \A h \in Handlers : job[h] # "idle" => proc = "serve"
  BY CallersAssumption DEF SelfInv, SelfTypeOK, TypeOK
<1>1. CASE UNCHANGED vars
  BY <1>1 DEF vars, storeVars, mainVars, httpVars
<1>2. ASSUME Die PROVE Turns'
  BY <1>0, <1>2 DEF Die, Crash
<1>3. CASE MainStep
  <2> USE <1>0 DEF Proceed, httpVars
  <2>1. CASE StartDies \/ Exit
    BY <1>2, <2>1 DEF StartDies, Exit
  <2>2. CASE GuardExit \/ ResumeClear
    BY <2>2 DEF GuardExit, ResumeClear, Crash, storeVars
  <2>3. CASE StoreStep(Main)
    BY <2>3, ContinueAlone DEF StoreStep, mainVars
  <2>4. CASE GuardOverBudget \/ ResumeHealthy \/ ResumeUnhealthy
    BY <2>4, BeginAlone DEF GuardOverBudget, ResumeHealthy, ResumeUnhealthy
  <2>5. CASE Exec
    BY <2>5 DEF Exec, storeVars
  <2>6. CASE GuardNothingPending \/ GuardWithinBudget \/ GuardCountFails \/ GuardRecord
             \/ GuardRollbackFailed \/ GuardClear \/ GuardErrorIgnored
    BY <2>6 DEF GuardNothingPending, GuardWithinBudget, GuardCountFails, GuardRecord,
                GuardRollbackFailed, GuardClear, GuardErrorIgnored, storeVars
  <2>7. CASE StartCompletes \/ ResumeNothing \/ ResumeRecord \/ ResumeRecordFails
             \/ ResumeClearFails
    BY <2>7 DEF StartCompletes, ResumeNothing, ResumeRecord, ResumeRecordFails,
                ResumeClearFails, storeVars
  <2> QED BY <1>3, <2>1, <2>2, <2>3, <2>4, <2>5, <2>6, <2>7 DEF MainStep
<1>4. CASE Killed
  BY <1>2, <1>4 DEF Killed
<1>5. ASSUME NEW h \in Handlers, Request(h) \/ HandlerStep(h) PROVE Turns'
  <2> USE <1>0 DEF Serving, mainVars
  <2>1. ASSUME NEW v \in Versions, InstallBegin(h, v) PROVE Turns'
    BY <2>1 DEF InstallBegin, Accepts, storeVars
  <2>2. CASE RollbackBegin(h)
    BY <2>2, BeginAlone DEF RollbackBegin, Accepts
  <2>3. CASE InstallStage(h)
    BY <2>3, BeginAlone DEF InstallStage
  <2>4. CASE StoreStep(h)
    BY <2>4, ContinueAlone DEF StoreStep, httpVars
  <2>5. CASE InstallFails(h) \/ InstallMark(h) \/ InstallMarkFails(h) \/ InstallReply(h)
    BY <2>5 DEF InstallFails, InstallMark, InstallMarkFails, InstallReply, storeVars
  <2>6. CASE RollbackDone(h) \/ RollbackFails(h)
    BY <2>6 DEF RollbackDone, RollbackFails, storeVars
  <2> QED BY <1>5, <2>1, <2>2, <2>3, <2>4, <2>5, <2>6 DEF Request, HandlerStep
<1> QED BY <1>1, <1>3, <1>4, <1>5 DEF Next

LEMMA TurnsAreTaken ==
  ASSUME SelfInv, Turns, Patient = TRUE PROVE OneAtATime
  BY CallersAssumption DEF SelfInv, Turns, OneAtATime, Reverting

(* When the operator waits for an answer and for the restart, the callers  *)
(* of the agent's store take turns: what was proved of such a store holds  *)
(* of the agent's, through every restart and recovery.                     *)
THEOREM PatienceTakesTurns == ASSUME Patient = TRUE PROVE Spec => SerialSpec
<1>1. Init => SelfInv /\ Turns /\ StoreInit
  BY SelfInit, TurnsInit DEF Init
<1>2. SelfInv /\ Turns /\ [Next]_vars => (SelfInv /\ Turns)'
  BY SelfNext, TurnsNext
<1>3. (SelfInv /\ Turns)' => OneAtATime'
  BY TurnsAreTaken, PTL
<1>4. SelfInv /\ Turns /\ [Next]_vars => [StoreNext /\ OneAtATime']_storeVars
  BY <1>2, <1>3, StoreSteps
<1> QED BY <1>1, <1>2, <1>4, PTL DEF Spec, SerialSpec

THEOREM SelfLiveReleasesSafe ==
  ASSUME Patient = TRUE, "switch" \notin Ops, KeepsActivated
  PROVE  Spec => []LiveReleasesUsable
  BY PatienceTakesTurns, LiveReleasesSafe, PTL

-----------------------------------------------------------------------------
(* What a boot decides it decides alone.                                   *)

(* A handler moves only once the process serves.                           *)
LEMMA OnlyServing ==
  ASSUME SelfInv, Turns, NEW h \in Handlers, Request(h) \/ HandlerStep(h)
  PROVE  proc = "serve" /\ UNCHANGED <<proc, running, guardErr>>
<1>0. TypeOK /\ \A g \in Handlers : job[g] # "idle" => proc = "serve"
  BY DEF SelfInv, SelfTypeOK
<1>1. UNCHANGED <<proc, running, guardErr>>
  BY DEF Request, RollbackBegin, InstallBegin, HandlerStep, InstallFails, InstallStage,
         InstallMark, InstallMarkFails, InstallReply, RollbackDone, RollbackFails, StoreStep,
         Serving, mainVars
<1>2. StoreStep(h) => job[h] # "idle"
  BY <1>0, CallersType, ContinueAlone DEF StoreStep, Turns
<1>3. proc = "serve"
  BY <1>0, <1>2 DEF Request, RollbackBegin, InstallBegin, Accepts, HandlerStep, InstallFails,
     InstallStage, InstallMark, InstallMarkFails, InstallReply, RollbackDone, RollbackFails
<1> QED BY <1>1, <1>3

(* Whoever changes the store has moved on.                                 *)
LEMMA WritesMoveOn ==
  ASSUME TypeOK, NEW c \in Callers, Continue(c), at'[c] = at[c]
  PROVE  UNCHANGED <<pointers, files>>
<1> USE DEF TypeOK, GoTo, Return, pointers
<1>1. CASE StageStep(c) \/ DiscardStep(c)
  BY <1>1 DEF StageStep, StageReadPrevious, StageMakeDir, StageWritePointer, ExtractBegin,
              ExtractEnd, ExtractFails, DiscardStep, DiscardReadStaged, DiscardRemoveFiles,
              DiscardRemoveDir, DiscardUnstage
<1>2. CASE PromoteStep(c) \/ SwitchStep(c) \/ RevertStep(c)
  BY <1>2 DEF PromoteStep, PromoteReadStaged, PromoteReadCurrent, PromoteSavePrevious,
              PromoteActivate, PromoteUnstage, SwitchStep, SwitchReadCurrent, SwitchSavePrevious,
              SwitchActivate, RevertStep, RevertReadCurrent, RevertActivate, RevertSavePrevious
<1>3. CASE PruneStep(c) \/ BootstrapWritePointer(c)
  BY <1>3 DEF PruneStep, PruneSpareCurrent, PruneSparePrevious, PruneSpareStaged, Spare,
              PruneRemoveFiles, PruneRemoveDir, BootstrapWritePointer
<1>4. CASE Fault(c)
  BY <1>4 DEF Fault
<1> QED BY <1>1, <1>2, <1>3, <1>4 DEF Continue

LEMMA StartupStep ==
  ASSUME SelfInv, Turns, [Next]_vars, proc # "serve"
  PROVE  /\ <<pointers, files>>' # <<pointers, files>> => at'[Main] # at[Main]
         /\ marker' \in {marker, NoMarker}
<1> USE DEF pointers
<1>0. TypeOK /\ Main \in Callers
  BY MainIsCaller DEF SelfInv, SelfTypeOK
<1>1. CASE UNCHANGED vars
  BY <1>1 DEF vars, storeVars, dbVars
<1>2. ASSUME Die PROVE UNCHANGED <<pointers, files, marker>>
  BY <1>2 DEF Die, Crash
<1>3. CASE MainStep
  <2>1. CASE StoreStep(Main)
    BY <1>0, <2>1, WritesMoveOn DEF StoreStep, dbVars
  <2>2. CASE GuardOverBudget \/ ResumeHealthy \/ ResumeUnhealthy
    BY <2>2 DEF GuardOverBudget, ResumeHealthy, ResumeUnhealthy, RevertReadPrevious, PruneList
  <2>3. CASE GuardExit \/ ResumeClear \/ StartDies \/ Exit
    BY <1>2, <2>3 DEF GuardExit, ResumeClear, StartDies, Exit, Crash, storeVars
  <2>4. CASE Exec \/ GuardNothingPending \/ GuardWithinBudget \/ GuardCountFails \/ GuardRecord
             \/ GuardRollbackFailed \/ GuardClear \/ GuardErrorIgnored
    BY <2>4 DEF Exec, GuardNothingPending, GuardWithinBudget, GuardCountFails, GuardRecord,
                GuardRollbackFailed, GuardClear, GuardErrorIgnored, storeVars, dbVars
  <2>5. CASE StartCompletes \/ ResumeNothing \/ ResumeRecord \/ ResumeRecordFails
             \/ ResumeClearFails
    BY <2>5 DEF StartCompletes, ResumeNothing, ResumeRecord, ResumeRecordFails, ResumeClearFails,
                storeVars, dbVars
  <2> QED BY <1>3, <2>1, <2>2, <2>3, <2>4, <2>5 DEF MainStep
<1>4. CASE Killed
  BY <1>2, <1>4 DEF Killed
<1>5. ~ \E h \in Handlers : Request(h) \/ HandlerStep(h)
  BY OnlyServing
<1> QED BY <1>1, <1>3, <1>4, <1>5 DEF Next

(* From the exec to the listener nobody but the startup goroutine touches  *)
(* the store, and no marker appears, even for an operator who does not     *)
(* wait: the handlers of the process before are gone, and those of this    *)
(* one are not there yet.                                                  *)
THEOREM StartupAlwaysDecidesAlone == Spec => StartupDecidesAlone
<1>1. SelfInv /\ Turns /\ [Next]_vars =>
        [proc # "serve" => /\ <<pointers, files>>' # <<pointers, files>> => at'[Main] # at[Main]
                           /\ marker' \in {marker, NoMarker}]_vars
  BY StartupStep
<1> QED BY <1>1, SelfInit, TurnsInit, SelfNext, TurnsNext, PTL DEF Spec, StartupDecidesAlone

-----------------------------------------------------------------------------
(* Whoever moves a pointer knows where to.                                 *)

(* Whoever moves a pointer moves it to a release, and "previous" to the    *)
(* release he saw.                                                         *)
Moving(c) ==
  /\ at[c] \in {"promote.prev", "revert.swap"} => seen[c] # NoVersion
  /\ at[c] \in {"promote.cur", "promote.prev", "promote.act", "revert.cur", "revert.act"}
       => ver[c] # NoVersion
  /\ at[c] \notin SwitchSteps

Installing(h) ==
  /\ at[h] \in Filling \cup Discarding \cup PromoteSteps \cup {"done"}
  /\ at[h] \in {"promote.act", "promote.unstage", "done"} => previous # NoVersion

Fallback ==
  /\ current # NoVersion
  /\ \A c \in Callers : Moving(c)
  /\ \A h \in Handlers : job[h] = "install" => Installing(h)
  /\ marker # NoMarker => previous # NoVersion

USE DEF Filling, Discarding

(* A caller's step on the store: a release stays live, and "previous" is   *)
(* never lost again.                                                       *)
LEMMA MovingStep ==
  ASSUME TypeOK, NEW c \in Callers, Continue(c), current # NoVersion,
         \A d \in Callers : Moving(d)
  PROVE  /\ current' # NoVersion
         /\ previous # NoVersion => previous' # NoVersion
         /\ \A d \in Callers : Moving(d)'
         /\ Installing(c) => Installing(c)'
<1> USE DEF TypeOK, GoTo, Return, pointers, Moving, Installing
<1>1. CASE StageStep(c)
  BY <1>1 DEF StageStep, StageReadPrevious, StageMakeDir, StageWritePointer, ExtractBegin,
              ExtractEnd, ExtractFails
<1>2. CASE DiscardStep(c)
  BY <1>2 DEF DiscardStep, DiscardReadStaged, DiscardRemoveFiles, DiscardRemoveDir, DiscardUnstage
<1>3. CASE PromoteStep(c)
  <2>1. CASE PromoteReadStaged(c)
    BY <2>1, OwnerAssumption DEF PromoteReadStaged
  <2>2. CASE PromoteReadCurrent(c)
    BY <2>2 DEF PromoteReadCurrent
  <2>3. CASE PromoteSavePrevious(c)
    BY <2>3 DEF PromoteSavePrevious
  <2>4. CASE PromoteActivate(c)
    BY <2>4 DEF PromoteActivate
  <2>5. CASE PromoteUnstage(c)
    BY <2>5 DEF PromoteUnstage
  <2> QED BY <1>3, <2>1, <2>2, <2>3, <2>4, <2>5 DEF PromoteStep
<1>4. ~SwitchStep(c)
  BY DEF SwitchStep, SwitchReadCurrent, SwitchSavePrevious, SwitchActivate
<1>5. CASE RevertStep(c)
  BY <1>5 DEF RevertStep, RevertReadCurrent, RevertActivate, RevertSavePrevious
<1>6. CASE PruneStep(c)
  BY <1>6 DEF PruneStep, PruneSpareCurrent, PruneSparePrevious, PruneSpareStaged, Spare,
              PruneRemoveFiles, PruneRemoveDir
<1>7. CASE BootstrapWritePointer(c)
  BY <1>7, BundledAssumption, VersionsAssumption DEF BootstrapWritePointer
<1>8. CASE Fault(c)
  BY <1>8, OwnerAssumption, FaultyAssumption DEF Fault, Steps
<1> QED BY <1>1, <1>2, <1>3, <1>4, <1>5, <1>6, <1>7, <1>8 DEF Continue

LEMMA MovingBegins ==
  ASSUME TypeOK, NEW c \in Callers, \A d \in Callers : Moving(d),
         RevertReadPrevious(c) \/ PruneList(c) \/ \E v : StageReadCurrent(c, v)
  PROVE  UNCHANGED <<current, previous>> /\ \A d \in Callers : Moving(d)'
  BY DEF RevertReadPrevious, PruneList, StageReadCurrent, TypeOK, GoTo, Return, pointers, Moving

LEMMA FallbackInit == Init => Fallback
  BY BundledAssumption, VersionsAssumption, NoMarkerAssumption
  DEF Init, StoreInit, Fallback, Moving

(* What leaves pointers and marker alone, and has no handler install.      *)
LEMMA FallbackStays ==
  ASSUME Fallback, UNCHANGED <<current, previous>>, \A c \in Callers : Moving(c)',
         marker' # NoMarker => marker # NoMarker,
         \A h \in Handlers : job'[h] = "install" => job[h] = "install" /\ at'[h] = at[h]
  PROVE  Fallback'
  BY DEF Fallback, Installing

LEMMA FallbackNext == ASSUME SelfInv, Turns, Fallback, [Next]_vars PROVE Fallback'
<1>0. /\ TypeOK /\ at \in [Callers -> Steps] /\ job \in [Handlers -> Jobs] /\ Main \in Callers
      /\ \A h \in Handlers : h \in Callers /\ h # Main
      /\ \A h \in Handlers : job[h] # "idle" => proc = "serve"
      /\ \A c \in Callers : Moving(c)
      /\ marker \in Updates \cup {NoMarker}
  BY CallersAssumption DEF SelfInv, SelfTypeOK, TypeOK, Fallback
<1>1. UNCHANGED storeVars => UNCHANGED <<current, previous, at>> /\ \A c \in Callers : Moving(c)'
  BY <1>0 DEF storeVars, Moving
<1>2. Crash => UNCHANGED <<current, previous>> /\ \A c \in Callers : Moving(c)'
  BY <1>0 DEF Crash, pointers, Moving
<1>3. CASE UNCHANGED vars
  BY <1>1, <1>3, FallbackStays DEF vars, dbVars, httpVars, storeVars
<1>4. ASSUME Die PROVE Fallback'
  BY <1>2, <1>4, FallbackStays DEF Die
<1>5. CASE MainStep
  <2> USE <1>0, <1>1, <1>2, FallbackStays DEF Proceed, httpVars, dbVars
  <2>1. CASE StartDies \/ Exit
    BY <1>4, <2>1 DEF StartDies, Exit
  <2>2. CASE GuardExit \/ ResumeClear
    BY <2>2 DEF GuardExit, ResumeClear
  <2>3. CASE StoreStep(Main)
    <3>1. Continue(Main) /\ UNCHANGED <<job, marker>>
      BY <2>3 DEF StoreStep
    <3>2. /\ current' # NoVersion /\ (previous # NoVersion => previous' # NoVersion)
          /\ \A d \in Callers : Moving(d)'
      BY <3>1, MovingStep DEF Fallback
    <3>3. \A h \in Handlers : at'[h] = at[h]
      BY <3>1, ContinueAlone
    <3> QED BY <3>1, <3>2, <3>3 DEF Fallback, Installing
  <2>4. CASE GuardOverBudget \/ ResumeHealthy \/ ResumeUnhealthy
    <3>1. RevertReadPrevious(Main) \/ PruneList(Main)
      BY <2>4 DEF GuardOverBudget, ResumeHealthy, ResumeUnhealthy
    <3>2. UNCHANGED <<current, previous>> /\ \A c \in Callers : Moving(c)'
      BY <3>1, MovingBegins
    <3>3. \A h \in Handlers : at'[h] = at[h]
      BY <3>1, BeginAlone
    <3> QED BY <2>4, <3>2, <3>3 DEF GuardOverBudget, ResumeHealthy, ResumeUnhealthy
  <2>5. CASE Exec
    BY <2>5 DEF Exec
  <2>6. CASE GuardNothingPending \/ GuardWithinBudget \/ GuardCountFails \/ GuardRecord
             \/ GuardRollbackFailed \/ GuardClear \/ GuardErrorIgnored
    BY <2>6 DEF GuardNothingPending, GuardWithinBudget, GuardCountFails, GuardRecord,
                GuardRollbackFailed, GuardClear, GuardErrorIgnored
  <2>7. CASE StartCompletes \/ ResumeNothing \/ ResumeRecord \/ ResumeRecordFails
             \/ ResumeClearFails
    BY <2>7 DEF StartCompletes, ResumeNothing, ResumeRecord, ResumeRecordFails, ResumeClearFails
  <2> QED BY <1>5, <2>1, <2>2, <2>3, <2>4, <2>5, <2>6, <2>7 DEF MainStep
<1>6. CASE Killed
  BY <1>4, <1>6 DEF Killed
<1>7. ASSUME NEW h \in Handlers, Request(h) \/ HandlerStep(h) PROVE Fallback'
  <2> USE <1>0, <1>1, FallbackStays DEF Serving, mainVars, dbVars
  <2>1. ASSUME NEW v \in Versions, InstallBegin(h, v) PROVE Fallback'
    BY <2>1 DEF InstallBegin
  <2>2. CASE RollbackBegin(h)
    <3>1. UNCHANGED <<current, previous>> /\ \A c \in Callers : Moving(c)'
      BY <2>2, MovingBegins DEF RollbackBegin
    <3>2. \A g \in Handlers \ {h} : at'[g] = at[g]
      BY <2>2, BeginAlone DEF RollbackBegin
    <3> QED BY <2>2, <3>1, <3>2 DEF RollbackBegin
  <2>3. CASE InstallStage(h)
    <3>1. UNCHANGED <<current, previous, marker>> /\ \A c \in Callers : Moving(c)'
      BY <2>3, MovingBegins DEF InstallStage
    <3>2. \A g \in Handlers \ {h} : at'[g] = at[g] /\ job'[g] = job[g]
      BY <2>3, BeginAlone DEF InstallStage
    <3>3. at'[h] \in {"stage.prev", "error"}
      BY <2>3 DEF InstallStage, StageReadCurrent, GoTo, Return
    <3> QED BY <3>1, <3>2, <3>3 DEF Fallback, Installing
  <2>4. CASE StoreStep(h)
    <3>1. Continue(h) /\ UNCHANGED <<job, marker>>
      BY <2>4 DEF StoreStep, httpVars
    <3>2. /\ current' # NoVersion /\ (previous # NoVersion => previous' # NoVersion)
          /\ \A d \in Callers : Moving(d)' /\ (Installing(h) => Installing(h)')
      BY <3>1, MovingStep DEF Fallback
    <3>3. \A g \in Handlers \ {h} : at'[g] = at[g]
      BY <3>1, ContinueAlone
    <3> QED BY <3>1, <3>2, <3>3 DEF Fallback, Installing
  <2>5. CASE InstallMark(h)
    <3>1. previous # NoVersion /\ UNCHANGED <<current, previous, at>>
      BY <2>5 DEF InstallMark, Fallback, Installing
    <3>2. \A g \in Handlers : job'[g] = "install" => job[g] = "install"
      BY <2>5 DEF InstallMark
    <3>3. \A c \in Callers : Moving(c)'
      BY <2>5 DEF InstallMark
    <3> QED BY <3>1, <3>2, <3>3 DEF Fallback, Installing
  <2>6. CASE InstallFails(h) \/ InstallMarkFails(h) \/ InstallReply(h)
    BY <2>6 DEF InstallFails, InstallMarkFails, InstallReply
  <2>7. CASE RollbackDone(h) \/ RollbackFails(h)
    BY <2>7 DEF RollbackDone, RollbackFails
  <2> QED BY <1>7, <2>1, <2>2, <2>3, <2>4, <2>5, <2>6, <2>7 DEF Request, HandlerStep
<1> QED BY <1>3, <1>5, <1>6, <1>7 DEF Next

-----------------------------------------------------------------------------
(* The boots of an update are its own.                                     *)

(* The counter outlives the marker only within a forced rollback, and a    *)
(* health check has given the boots back before its verdict ends anything. *)
Budget ==
  /\ marker = NoMarker /\ proc # "guard.reset" => attempts = 0
  /\ proc \in {"resume.commit", "resume.rollback", "resume.clear"} => attempts = 0

LEMMA BudgetInit == Init => Budget
  BY DEF Init, Budget

LEMMA BudgetNext ==
  ASSUME SelfInv, Budget, [Next]_vars, "guard.reset" \notin FailingWrites \cup CrashIn,
         "resume.reset" \notin FailingWrites
  PROVE  Budget'
<1> USE DEF Budget
<1>1. ASSUME UNCHANGED <<marker, attempts>>, proc # "guard.reset",
             proc' \in {"resume.commit", "resume.rollback", "resume.clear"} => attempts = 0
      PROVE  Budget'
  BY <1>1
<1>2. CASE UNCHANGED vars
  BY <1>2 DEF vars, mainVars, dbVars
<1>3. CASE MainStep
  <2> USE DEF Proceed, dbVars
  <2>1. CASE Exec \/ GuardNothingPending \/ GuardCountFails \/ GuardRollbackFailed \/ StartCompletes
             \/ ResumeNothing \/ ResumeRecord \/ ResumeRecordFails \/ ResumeClearFails
    BY <1>1, <2>1 DEF Exec, GuardNothingPending, GuardCountFails, GuardRollbackFailed,
       StartCompletes, ResumeNothing, ResumeRecord, ResumeRecordFails, ResumeClearFails
  <2>2. CASE StartDies \/ Exit
    BY <1>1, <2>2 DEF StartDies, Exit, Die
  <2>3. CASE StoreStep(Main)
    BY <2>3 DEF StoreStep, mainVars
  <2>4. CASE GuardWithinBudget \/ GuardOverBudget
    BY <2>4 DEF GuardWithinBudget, GuardOverBudget
  <2>5. CASE GuardRecord
    BY <2>5, UpdateType DEF GuardRecord, SelfInv
  <2>6. CASE GuardClear
    BY <2>6 DEF GuardClear
  <2>7. CASE GuardExit \/ GuardErrorIgnored
    BY <2>7 DEF GuardExit, GuardErrorIgnored, ResetsAttempts
  <2>8. CASE ResumeHealthy \/ ResumeUnhealthy
    BY <2>8 DEF ResumeHealthy, ResumeUnhealthy, ResetsAttempts
  <2>9. CASE ResumeClear
    BY <2>9 DEF ResumeClear
  <2> QED BY <1>3, <2>1, <2>2, <2>3, <2>4, <2>5, <2>6, <2>7, <2>8, <2>9 DEF MainStep
<1>4. CASE Killed
  BY <1>1, <1>4 DEF Killed, Die
<1>5. ASSUME NEW h \in Handlers, Request(h) \/ HandlerStep(h) PROVE Budget'
  <2>1. UNCHANGED <<proc, attempts>>
    BY <1>5 DEF Request, RollbackBegin, InstallBegin, HandlerStep, InstallFails, InstallStage,
                InstallMark, InstallMarkFails, InstallReply, RollbackDone, RollbackFails,
                StoreStep, Serving, mainVars, dbVars
  <2>2. marker' = NoMarker => marker = NoMarker
    <3>1. CASE InstallMark(h)
      BY <3>1, UpdateType DEF InstallMark, SelfInv
    <3> QED BY <1>5, <3>1
            DEF Request, RollbackBegin, InstallBegin, HandlerStep, InstallFails, InstallStage,
                InstallMarkFails, InstallReply, RollbackDone, RollbackFails, StoreStep, dbVars
  <2> QED BY <2>1, <2>2
<1> QED BY <1>2, <1>3, <1>4, <1>5 DEF Next

(* As long as the counter itself can be deleted, and no kill comes just    *)
(* before that, an update starts with all its boots, whatever ended the    *)
(* one before it, whatever else fails and however requests interleave.     *)
THEOREM UpdatesHaveAllTheirBoots ==
  ASSUME "guard.reset" \notin FailingWrites \cup CrashIn, "resume.reset" \notin FailingWrites
  PROVE  Spec => []FullBudget
<1>1. Budget => FullBudget
  BY DEF Budget, FullBudget
<1>2. SelfInv /\ Budget /\ [Next]_vars => Budget'
  BY BudgetNext
<1> QED BY <1>1, <1>2, SelfInit, BudgetInit, SelfNext, PTL DEF Spec

-----------------------------------------------------------------------------
(* What the process executes.                                              *)

(* A startup that was not made to leave executes the release "current"     *)
(* names, also after a forced rollback that failed.                        *)
Booted ==
  /\ guardErr = FALSE
  /\ proc \in {"guard", "start", "resume", "resume.commit"} => running = current
  /\ proc \in Reverting => at[Main] \in RevertSteps \cup Ready
  /\ proc = "resume.commit" => at[Main] \in PruneSteps \cup Ready
  /\ proc = "guard.rollback" /\ at[Main] \in {"revert.cur", "revert.act", "error"}
       => running = current

LEMMA BootedInit == Init => Booted
  BY DEF Init, Booted, Reverting

(* A rollback that ends in an error has not moved "current".               *)
LEMMA RevertUndone ==
  ASSUME TypeOK, NEW c \in Callers, Continue(c), at[c] \in RevertSteps
  PROVE  /\ at'[c] \in RevertSteps \cup Ready
         /\ at'[c] = "error" => at[c] \in FaultyAt
         /\ "revert.swap" \notin FaultyAt /\ at'[c] \in {"revert.cur", "revert.act", "error"} =>
              at[c] \in {"revert.cur", "revert.act"} /\ UNCHANGED <<current, previous>>
<1> USE DEF TypeOK, GoTo, Return, pointers
<1>1. CASE RevertStep(c)
  BY <1>1 DEF RevertStep, RevertReadCurrent, RevertActivate, RevertSavePrevious
<1>2. CASE Fault(c)
  BY <1>2 DEF Fault
<1>3. ~StageStep(c) /\ ~DiscardStep(c) /\ ~PromoteStep(c)
  BY DEF StageStep, StageReadPrevious, StageMakeDir, StageWritePointer, ExtractBegin, ExtractEnd,
         ExtractFails, DiscardStep, DiscardReadStaged, DiscardRemoveFiles, DiscardRemoveDir,
         DiscardUnstage, PromoteStep, PromoteReadStaged, PromoteReadCurrent, PromoteSavePrevious,
         PromoteActivate, PromoteUnstage
<1>4. ~SwitchStep(c) /\ ~PruneStep(c) /\ ~BootstrapWritePointer(c)
  BY DEF SwitchStep, SwitchReadCurrent, SwitchSavePrevious, SwitchActivate, PruneStep,
         PruneSpareCurrent, PruneSparePrevious, PruneSpareStaged, PruneRemoveFiles,
         PruneRemoveDir, BootstrapWritePointer
<1> QED BY <1>1, <1>2, <1>3, <1>4 DEF Continue

LEMMA RevertOrPruneBegins ==
  ASSUME TypeOK
  PROVE  /\ RevertReadPrevious(Main) => at'[Main] \in {"revert.cur", "error"} /\ UNCHANGED current
         /\ PruneList(Main) => at'[Main] = "prune.cur" /\ UNCHANGED current
  BY MainIsCaller DEF TypeOK, RevertReadPrevious, PruneList, GoTo, Return, pointers

LEMMA BootedNext ==
  ASSUME SelfInv, Turns, Fallback, Booted, [Next]_vars,
         "guard.record" \notin FailingWrites, "guard.clear" \notin FailingWrites,
         "revert.swap" \notin FaultyAt
  PROVE  Booted'
<1> USE DEF Booted, Reverting
<1>0. /\ TypeOK /\ Main \in Callers
      /\ \A h \in Handlers : job[h] # "idle" => proc = "serve"
  BY CallersAssumption DEF SelfInv, SelfTypeOK
<1>1. CASE UNCHANGED vars
  BY <1>1 DEF vars, storeVars, mainVars
<1>2. ASSUME Die PROVE Booted'
  BY <1>2 DEF Die
<1>3. CASE MainStep
  <2> USE DEF Proceed
  <2>1. CASE StartDies \/ Exit
    BY <1>2, <2>1 DEF StartDies, Exit
  <2>2. CASE GuardExit \/ ResumeClear
    BY <2>2 DEF GuardExit, ResumeClear
  <2>3. CASE StoreStep(Main)
    <3>1. Continue(Main) /\ UNCHANGED <<proc, running, guardErr>>
      BY <2>3 DEF StoreStep, mainVars
    <3>2. proc \in Reverting \cup {"resume.commit"} /\ at[Main] \notin Ready
      BY <1>0, <3>1, ContinueAlone DEF Turns
    <3>3. CASE proc = "resume.commit"
      <4>1. at[Main] \in PruneSteps /\ (current = NoVersion => previous = NoVersion)
        BY <3>2, <3>3 DEF Fallback
      <4>2. at'[Main] \in PruneSteps \cup Ready /\ current' = current
        BY <1>0, <3>1, <4>1, InstallEffect, BundledAssumption
      <4> QED BY <3>1, <3>3, <4>2
    <3>4. CASE proc \in Reverting
      BY <1>0, <3>1, <3>2, <3>4, RevertUndone
    <3> QED BY <3>2, <3>3, <3>4
  <2>4. CASE GuardOverBudget \/ ResumeHealthy \/ ResumeUnhealthy
    BY <1>0, <2>4, RevertOrPruneBegins DEF GuardOverBudget, ResumeHealthy, ResumeUnhealthy
  <2>5. CASE Exec
    BY <2>5 DEF Exec, storeVars
  <2>6. CASE GuardNothingPending \/ GuardWithinBudget \/ GuardCountFails \/ GuardRecord
             \/ GuardRollbackFailed \/ GuardClear \/ GuardErrorIgnored
    BY <2>6 DEF GuardNothingPending, GuardWithinBudget, GuardCountFails, GuardRecord,
                GuardRollbackFailed, GuardClear, GuardErrorIgnored, storeVars
  <2>7. CASE StartCompletes \/ ResumeNothing \/ ResumeRecord \/ ResumeRecordFails
             \/ ResumeClearFails
    BY <2>7 DEF StartCompletes, ResumeNothing, ResumeRecord, ResumeRecordFails,
                ResumeClearFails, storeVars
  <2> QED BY <1>3, <2>1, <2>2, <2>3, <2>4, <2>5, <2>6, <2>7 DEF MainStep
<1>4. CASE Killed
  BY <1>2, <1>4 DEF Killed
<1>5. ASSUME NEW h \in Handlers, Request(h) \/ HandlerStep(h) PROVE Booted'
  BY <1>5, OnlyServing
<1> QED BY <1>1, <1>3, <1>4, <1>5 DEF Next

(* As long as a forced rollback can be recorded, and swap the pointers     *)
(* once it has moved "current", no startup goes on in a release that is no *)
(* longer the current one, however requests interleave and whenever the    *)
(* process is killed.                                                      *)
THEOREM BootsTheCurrentRelease ==
  ASSUME "guard.record" \notin FailingWrites, "guard.clear" \notin FailingWrites,
         "revert.swap" \notin FaultyAt
  PROVE  Spec => []BootsCurrent
<1>1. Booted => BootsCurrent
  BY DEF Booted, BootsCurrent
<1>2. SelfInv /\ Turns /\ Fallback /\ Booted /\ [Next]_vars => Booted'
  BY BootedNext
<1> QED BY <1>1, <1>2, SelfInit, TurnsInit, FallbackInit, BootedInit, SelfNext, TurnsNext,
           FallbackNext, PTL DEF Spec

-----------------------------------------------------------------------------
(* What an update can go back to.                                          *)

(* An automatic rollback goes either from the release the process executes *)
(* or, when one before it failed half-way, from where "previous" points to *)
(* as well; so what it moves off is named by "previous", or executing.     *)
Parted(u) == u.from # u.to /\ u.from # NoVersion

Retreats ==
  /\ \A h \in Handlers : job[h] \in {"download", "install", "reply"} => Parted(req[h])
  /\ marker # NoMarker => Parted(marker)
  /\ marker # NoMarker /\ proc \in {"guard", "start", "resume"} => current \in {running, previous}
  /\ proc \in Reverting =>
       /\ at[Main] \in RevertSteps \cup Ready
       /\ at[Main] \in {"revert.cur", "revert.act"} => ver[Main] = previous
       /\ at[Main] \in {"revert.cur", "revert.act", "error"} => current \in {running, previous}
       /\ at[Main] = "revert.swap" => current = previous
  /\ proc = "guard.reset" => marker = NoMarker
  /\ proc = "resume.commit" => at[Main] \in PruneSteps \cup Ready

LEMMA RetreatsInit == Init => Retreats
  BY DEF Init, Retreats, Reverting

(* The steps of RollbackToPrevious: what each of them moves, and what it   *)
(* leaves when it fails.                                                   *)
LEMMA RevertMoves ==
  ASSUME TypeOK, NEW c \in Callers, Continue(c), at[c] \in RevertSteps
  PROVE  /\ at'[c] \in RevertSteps \cup Ready
         /\ at[c] = "revert.cur" =>
              /\ UNCHANGED <<current, previous>>
              /\ at'[c] = "error" \/ (at'[c] = "revert.act" /\ ver'[c] = ver[c])
         /\ at[c] = "revert.act" =>
              /\ UNCHANGED previous
              /\ \/ current' = ver[c] /\ at'[c] \in {"revert.swap", "done"}
                 \/ current' = current /\ at'[c] = "error"
         /\ at[c] = "revert.swap" =>
              /\ UNCHANGED current
              /\ at'[c] = "done" \/ (at'[c] = "error" /\ previous' = previous)
<1> USE DEF TypeOK, GoTo, Return, pointers
<1>1. CASE RevertStep(c)
  BY <1>1 DEF RevertStep, RevertReadCurrent, RevertActivate, RevertSavePrevious
<1>2. CASE Fault(c)
  BY <1>2 DEF Fault
<1>3. ~StageStep(c) /\ ~DiscardStep(c) /\ ~PromoteStep(c)
  BY DEF StageStep, StageReadPrevious, StageMakeDir, StageWritePointer, ExtractBegin, ExtractEnd,
         ExtractFails, DiscardStep, DiscardReadStaged, DiscardRemoveFiles, DiscardRemoveDir,
         DiscardUnstage, PromoteStep, PromoteReadStaged, PromoteReadCurrent, PromoteSavePrevious,
         PromoteActivate, PromoteUnstage
<1>4. ~SwitchStep(c) /\ ~PruneStep(c) /\ ~BootstrapWritePointer(c)
  BY DEF SwitchStep, SwitchReadCurrent, SwitchSavePrevious, SwitchActivate, PruneStep,
         PruneSpareCurrent, PruneSparePrevious, PruneSpareStaged, PruneRemoveFiles,
         PruneRemoveDir, BootstrapWritePointer
<1> QED BY <1>1, <1>2, <1>3, <1>4 DEF Continue

(* A step of the startup goroutine on the store.                           *)
LEMMA StartupOnStore ==
  ASSUME SelfInv, Turns, Fallback, Retreats, StoreStep(Main)
  PROVE  /\ Continue(Main) /\ proc \in Reverting \cup {"resume.commit"}
         /\ UNCHANGED <<proc, running, marker, job, req>>
         /\ proc \in Reverting => at[Main] \in RevertSteps
         /\ proc = "resume.commit" =>
              at'[Main] \in PruneSteps \cup Ready /\ UNCHANGED <<current, previous>>
<1>0. TypeOK /\ Main \in Callers /\ Continue(Main)
  BY MainIsCaller DEF SelfInv, SelfTypeOK, StoreStep
<1>1. at[Main] \notin Ready
  BY <1>0, ContinueAlone
<1>2. proc \in Reverting \cup {"resume.commit"}
  BY <1>1 DEF Turns
<1>3. UNCHANGED <<proc, running, marker, job, req>>
  BY DEF StoreStep, mainVars, dbVars, httpVars
<1>4. proc \in Reverting => at[Main] \in RevertSteps
  BY <1>1 DEF Retreats
<1>5. ASSUME proc = "resume.commit"
      PROVE  at'[Main] \in PruneSteps \cup Ready /\ UNCHANGED <<current, previous>>
  <2>1. at[Main] \in PruneSteps /\ (current = NoVersion => previous = NoVersion)
    BY <1>1, <1>5 DEF Retreats, Fallback
  <2> QED BY <1>0, <2>1, InstallEffect, BundledAssumption
<1> QED BY <1>0, <1>2, <1>3, <1>4, <1>5

LEMMA RetreatsNext ==
  ASSUME SelfInv, Turns, Fallback, Retreats, [Next]_vars, "guard.clear" \notin FailingWrites
  PROVE  Retreats'
<1> USE DEF Retreats, Reverting
<1>0. /\ TypeOK /\ Main \in Callers /\ current # NoVersion
      /\ job \in [Handlers -> Jobs] /\ req \in [Handlers -> Updates \cup {NoMarker}]
      /\ \A h \in Handlers : job[h] # "idle" => proc = "serve"
  BY MainIsCaller DEF SelfInv, SelfTypeOK, Fallback
<1>1. CASE UNCHANGED vars
  BY <1>1 DEF vars, storeVars, mainVars, dbVars, httpVars
<1>2. ASSUME Die PROVE Retreats'
  BY <1>2 DEF Die
<1>3. CASE MainStep
  <2> USE DEF Proceed, httpVars
  <2>1. CASE StartDies \/ Exit
    BY <1>2, <2>1 DEF StartDies, Exit
  <2>2. CASE GuardExit \/ ResumeClear
    BY <2>2 DEF GuardExit, ResumeClear
  <2>3. CASE StoreStep(Main)
    BY <1>0, <2>3, StartupOnStore, RevertMoves
  <2>4. CASE GuardOverBudget \/ ResumeHealthy \/ ResumeUnhealthy
    BY <1>0, <2>4 DEF GuardOverBudget, ResumeHealthy, ResumeUnhealthy, RevertReadPrevious,
                      PruneList, TypeOK, GoTo, Return, pointers
  <2>5. CASE Exec
    BY <2>5 DEF Exec, storeVars, dbVars
  <2>6. CASE GuardNothingPending \/ GuardWithinBudget \/ GuardCountFails \/ GuardRecord
             \/ GuardRollbackFailed \/ GuardClear \/ GuardErrorIgnored
    BY <2>6 DEF GuardNothingPending, GuardWithinBudget, GuardCountFails, GuardRecord,
                GuardRollbackFailed, GuardClear, GuardErrorIgnored, storeVars, dbVars
  <2>7. CASE StartCompletes \/ ResumeNothing \/ ResumeRecord \/ ResumeRecordFails
             \/ ResumeClearFails
    BY <2>7 DEF StartCompletes, ResumeNothing, ResumeRecord, ResumeRecordFails,
                ResumeClearFails, storeVars, dbVars
  <2> QED BY <1>3, <2>1, <2>2, <2>3, <2>4, <2>5, <2>6, <2>7 DEF MainStep
<1>4. CASE Killed
  BY <1>2, <1>4 DEF Killed
<1>5. ASSUME NEW h \in Handlers, Request(h) \/ HandlerStep(h) PROVE Retreats'
  <2>1. proc = "serve" /\ proc' = "serve"
    BY <1>5, OnlyServing
  <2>2. CASE \E v \in Versions : InstallBegin(h, v)
    BY <1>0, <2>1, <2>2 DEF InstallBegin, Serving, Parted
  <2>3. CASE InstallMark(h)
    BY <1>0, <2>1, <2>3 DEF InstallMark, Serving
  <2>4. CASE RollbackBegin(h) \/ RollbackDone(h) \/ RollbackFails(h) \/ StoreStep(h)
    BY <1>0, <2>1, <2>4 DEF RollbackBegin, RollbackDone, RollbackFails, StoreStep, Serving,
                            dbVars, httpVars
  <2>5. CASE InstallFails(h) \/ InstallStage(h) \/ InstallMarkFails(h) \/ InstallReply(h)
    BY <1>0, <2>1, <2>5 DEF InstallFails, InstallStage, InstallMarkFails, InstallReply, Serving,
                            dbVars
  <2> QED BY <1>5, <2>2, <2>3, <2>4, <2>5 DEF Request, HandlerStep
<1> QED BY <1>1, <1>3, <1>4, <1>5 DEF Next

(* A step of a boot that leaves the marker: a pointer that names the       *)
(* release to go back to is moved off it only if the other one names it.   *)
LEMMA RetreatsStep ==
  ASSUME SelfInv, Turns, Fallback, Retreats, [Next]_vars, marker # NoMarker, proc # "serve",
         marker.from \in {current, previous}, running # marker.from
  PROVE  marker.from \in {current', previous'} \ {marker.to, NoVersion}
<1>0. TypeOK /\ Main \in Callers /\ Parted(marker)
  BY MainIsCaller DEF SelfInv, SelfTypeOK, Retreats
<1>1. CASE StoreStep(Main)
  BY <1>0, <1>1, StartupOnStore, RevertMoves DEF Retreats, Parted
<1>2. CASE ~StoreStep(Main)
  <2>1. UNCHANGED vars => UNCHANGED <<current, previous>>
    BY DEF vars, storeVars
  <2>2. Die => UNCHANGED <<current, previous>>
    BY DEF Die, Crash, pointers
  <2>3. MainStep => UNCHANGED <<current, previous>>
    BY <1>2, <2>2
    DEF MainStep, Exec, GuardNothingPending, GuardWithinBudget, GuardCountFails, GuardOverBudget,
        GuardRecord, GuardRollbackFailed, GuardClear, GuardExit, GuardErrorIgnored, StartDies,
        StartCompletes, ResumeNothing, ResumeHealthy, ResumeUnhealthy, ResumeRecord,
        ResumeRecordFails, ResumeClear, ResumeClearFails, Exit, Crash, RevertReadPrevious,
        PruneList, storeVars, pointers
  <2>4. Killed => UNCHANGED <<current, previous>>
    BY <2>2 DEF Killed
  <2>5. UNCHANGED <<current, previous>>
    BY <2>1, <2>3, <2>4, OnlyServing DEF Next
  <2> QED BY <1>0, <2>5 DEF Parted
<1> QED BY <1>1, <1>2

(* While an update is pending, a boot keeps the release to go back to,     *)
(* unless it is the one that executes: even if requests interleave, every  *)
(* other write and any step of a rollback fails, and the process is killed *)
(* anywhere.  A forced rollback whose marker cannot be deleted would have  *)
(* the same boot undo it.                                                  *)
THEOREM TrialAlwaysKeepsFallback ==
  ASSUME "guard.clear" \notin FailingWrites PROVE Spec => TrialKeepsFallback
<1> DEFINE Keeps ==
      marker # NoMarker /\ marker' = marker /\ proc # "serve" =>
        LET fallback == marker.from
        IN  fallback \in {current, previous} /\ running # fallback =>
              fallback \in {current', previous'} \ {marker.to, NoVersion}
<1>1. SelfInv /\ Turns /\ Fallback /\ Retreats /\ [Next]_vars => Retreats'
  BY RetreatsNext
<1>2. SelfInv /\ Turns /\ Fallback /\ Retreats /\ [Next]_vars => [Keeps]_vars
  BY RetreatsStep
<1> QED BY <1>1, <1>2, SelfInit, TurnsInit, FallbackInit, RetreatsInit, SelfNext, TurnsNext,
           FallbackNext, PTL DEF Spec, TrialKeepsFallback

-----------------------------------------------------------------------------
(* A release on trial, when nothing but its own failure disturbs it: the   *)
(* operator waits, the writes that an automatic rollback, a verdict or the *)
(* restart rests on succeed, a rollback's system calls do too, and the     *)
(* process is not killed between the steps of an automatic rollback.  A    *)
(* boot may go uncounted, and the rows and the marker of an operation the  *)
(* operator asked for may be lost.                                         *)
Essential == {"guard.record", "guard.clear", "resume.record", "resume.clear", "install.seen"}

Undisturbed ==
  /\ Patient = TRUE /\ FailingWrites \cap Essential = {} /\ FaultyAt \cap RevertSteps = {}
  /\ CrashIn \cap {"guard.rollback", "guard.clear", "resume.rollback", "resume.clear"} = {}

(* Until it is confirmed or left, the marker says what the pointers say.   *)
OnTrial ==
  /\ marker # NoMarker => marker.from # marker.to
  /\ marker # NoMarker /\ proc \in {"down", "guard", "start", "resume", "resume.commit", "serve"}
       => current = marker.to /\ previous = marker.from
  /\ proc \in Reverting => at[Main] # "error" /\ Reverts(Main, marker.to, marker.from)
  /\ proc = "guard.clear" => current = marker.from
  /\ proc = "guard.reset" => marker = NoMarker
  /\ proc = "resume.clear" => current = marker.from \/ previous = marker.from
  /\ marker # NoMarker /\ proc = "serve" => restarting \/ \E h \in Handlers : job[h] = "reply"

(* A handler changes the store only while no update is pending.            *)
Preparing(h) ==
  /\ job[h] \in {"download", "install", "rollback"} => marker = NoMarker
  /\ job[h] \in {"download", "install"} => req[h].from # req[h].to
  /\ job[h] = "download" => current = req[h].from
  /\ job[h] = "install" => Placed(h, req[h].from, req[h].to)

TrialInv == OnTrial /\ \A h \in Handlers : Preparing(h)

(* A process that serves with an update pending has just been switched and *)
(* is about to restart, so that no request finds the update there.         *)
Served ==
  marker # NoMarker /\ proc = "serve" =>
    /\ marker.from # marker.to /\ current = marker.to /\ previous = marker.from
    /\ restarting \/ \E h \in Handlers : job[h] = "reply"

WhileServing == proc = "serve" /\ Served /\ \A h \in Handlers : Preparing(h)

LEMMA TrialInit == Init => TrialInv
  BY DEF Init, TrialInv, OnTrial, Preparing, Reverting

LEMMA MarkerType ==
  ASSUME SelfInv, marker # NoMarker
  PROVE  marker \in Updates /\ marker.from \in Pointer /\ marker.to \in Versions
  BY UpdateType DEF SelfInv, SelfTypeOK

LEMMA DieOnTrial ==
  ASSUME SelfInv, TrialInv, Die,
         proc \notin {"guard.rollback", "guard.clear", "resume.rollback", "resume.clear"}
  PROVE  TrialInv'
  BY DEF SelfInv, SelfTypeOK, Phases, Guarding, Resuming, Die, Crash, pointers, TrialInv, OnTrial,
         Preparing, Reverting

LEMMA MainOnTrial ==
  ASSUME SelfInv, Turns, Fallback, Booted, TrialInv, Undisturbed, MainStep
  PROVE  OnTrial'
<1> USE DEF TrialInv, OnTrial, Reverting, Undisturbed
<1>0. /\ TypeOK /\ Main \in Callers
      /\ \A h \in Handlers : job[h] # "idle" => proc = "serve"
      /\ marker # NoMarker => previous # NoVersion
      /\ current = NoVersion => previous = NoVersion
  BY CallersAssumption DEF SelfInv, SelfTypeOK, Fallback
<1>1. CASE StartDies \/ Exit
  BY <1>1, DieOnTrial DEF StartDies, Exit
<1>2. CASE GuardExit \/ ResumeClear
  BY <1>2 DEF GuardExit, ResumeClear, Crash, pointers, Proceed, storeVars
<1>3. CASE StoreStep(Main)
  <2>1. Continue(Main) /\ UNCHANGED <<proc, marker, job, restarting>>
    BY <1>3 DEF StoreStep, mainVars, dbVars, httpVars
  <2>2. proc \in Reverting \cup {"resume.commit"} /\ at[Main] \notin Ready
    BY <1>0, <2>1, ContinueAlone DEF Turns
  <2>3. CASE proc = "resume.commit"
    <3>1. at[Main] \in PruneSteps
      BY <2>2, <2>3 DEF Booted
    <3>2. current' = current /\ previous' = previous
      BY <1>0, <2>1, <3>1, InstallEffect, BundledAssumption
    <3> QED BY <2>1, <2>3, <3>2
  <2>4. CASE proc \in Reverting
    <3>1. at[Main] \in RevertSteps /\ Reverts(Main, marker.to, marker.from)
      BY <2>2, <2>4 DEF Booted
    <3>2. Reverts(Main, marker.to, marker.from)'
      BY <1>0, <2>1, <3>1, RevertEffect DEF Reverts
    <3>3. at'[Main] # "error"
      BY <1>0, <2>1, <3>1, RevertUndone
    <3> QED BY <2>1, <2>4, <3>2, <3>3
  <2> QED BY <2>2, <2>3, <2>4
<1>4. CASE GuardOverBudget \/ ResumeUnhealthy
  <2>1. /\ RevertReadPrevious(Main) /\ marker' = marker /\ marker # NoMarker
        /\ proc' \in Reverting /\ proc \in {"guard", "resume"}
    BY <1>4 DEF GuardOverBudget, ResumeUnhealthy, Proceed
  <2>2. current = marker.to /\ previous = marker.from /\ previous # NoVersion
    BY <1>0, <2>1
  <2>3. Reverts(Main, marker.to, marker.from)'
    BY <1>0, <2>1, <2>2, RevertBegins DEF Reverts
  <2>4. at'[Main] # "error"
    BY <1>0, <2>1, <2>2 DEF RevertReadPrevious, GoTo, TypeOK
  <2> QED BY <2>1, <2>3, <2>4
<1>5. CASE ResumeHealthy
  BY <1>5 DEF ResumeHealthy, PruneList, pointers, Proceed
<1>6. CASE GuardRecord
  <2>1. proc = "guard.rollback" /\ proc' = "guard.clear" /\ UNCHANGED <<storeVars, marker>>
    BY <1>6 DEF GuardRecord, Proceed
  <2>2. current = marker.from
    BY <1>6, <2>1 DEF GuardRecord, Reverts
  <2> QED BY <2>1, <2>2 DEF storeVars
<1>7. CASE ResumeRecord
  <2>1. /\ proc \in {"resume.commit", "resume.rollback"} /\ proc' = "resume.clear"
        /\ UNCHANGED <<storeVars, marker>> /\ at[Main] \in Ready
    BY <1>7 DEF ResumeRecord, Proceed
  <2>2. marker # NoMarker
    BY <2>1, UpdateType DEF SelfInv
  <2>3. current = marker.from \/ previous = marker.from
    BY <2>1, <2>2 DEF Reverts
  <2> QED BY <2>1, <2>3 DEF storeVars
<1>8. CASE GuardRollbackFailed \/ ResumeRecordFails \/ ResumeClearFails
  BY <1>8 DEF GuardRollbackFailed, ResumeRecordFails, ResumeClearFails, Essential
<1>9. CASE Exec \/ GuardNothingPending \/ GuardWithinBudget \/ GuardCountFails \/ GuardClear
            \/ GuardErrorIgnored \/ StartCompletes \/ ResumeNothing
  BY <1>9 DEF Exec, GuardNothingPending, GuardWithinBudget, GuardCountFails, GuardClear,
              GuardErrorIgnored, StartCompletes, ResumeNothing, Proceed, storeVars, dbVars, Booted,
              Essential
<1> QED BY <1>1, <1>2, <1>3, <1>4, <1>5, <1>6, <1>7, <1>8, <1>9 DEF MainStep

(* The startup goroutine leaves no handler at work.                        *)
LEMMA MainAlone ==
  ASSUME SelfInv, Turns, MainStep PROVE \A h \in Handlers : job'[h] = "idle"
<1>0. \A h \in Handlers : job[h] # "idle" => proc = "serve"
  BY DEF SelfInv
<1>1. CASE Exit \/ StartDies
  BY <1>1 DEF Exit, StartDies, Die
<1>2. CASE StoreStep(Main)
  <2>1. at[Main] \notin Ready
    BY <1>2, MainIsCaller, ContinueAlone DEF StoreStep, SelfInv, SelfTypeOK
  <2> QED BY <1>0, <1>2, <2>1 DEF StoreStep, Turns, Reverting, httpVars
<1> QED BY <1>0, <1>1, <1>2
        DEF MainStep, Exec, GuardNothingPending, GuardWithinBudget, GuardCountFails,
            GuardOverBudget, GuardRecord, GuardRollbackFailed, GuardClear, GuardExit,
            GuardErrorIgnored, StartCompletes, ResumeNothing, ResumeHealthy, ResumeUnhealthy,
            ResumeRecord, ResumeRecordFails, ResumeClear, ResumeClearFails, Proceed, httpVars

(* Stage begins, or refuses the current release.                           *)
LEMMA StagePlaces ==
  ASSUME TypeOK, NEW h \in Callers, NEW from, NEW to, current = from, StageReadCurrent(h, to),
         req'[h].from = from, req'[h].to = to
  PROVE  Placed(h, req[h].from, req[h].to)'
  BY DEF StageReadCurrent, Placed, TypeOK, GoTo, Return, pointers

LEMMA InstallPlaces ==
  ASSUME TypeOK, NEW h \in Callers, Continue(h), current = NoVersion => previous = NoVersion,
         at[h] \in Filling \cup Discarding \cup PromoteSteps, req' = req,
         req[h].to \in Versions, req[h].from # req[h].to, Placed(h, req[h].from, req[h].to)
  PROVE  Placed(h, req[h].from, req[h].to)'
<1>1. ASSUME NEW from, NEW to \in Versions, from # to, Placed(h, from, to) PROVE Placed(h, from, to)'
  BY <1>1, InstallEffect
<1>2. ASSUME NEW from, NEW to, Placed(h, from, to)', req'[h].from = from, req'[h].to = to
      PROVE  Placed(h, req[h].from, req[h].to)'
  BY <1>2 DEF Placed
<1>3. PICK from, to : from = req[h].from /\ to = req[h].to
  OBVIOUS
<1>4. Placed(h, from, to)'
  BY <1>1, <1>3
<1> QED BY <1>2, <1>3, <1>4

LEMMA HandlerInStore ==
  ASSUME SelfInv, Turns, NEW h \in Handlers, StoreStep(h)
  PROVE  /\ Continue(h) /\ UNCHANGED <<proc, marker, job, req, restarting>>
         /\ at[h] \notin Ready /\ job[h] \in {"install", "rollback"}
  BY CallersType, ContinueAlone
  DEF StoreStep, mainVars, dbVars, httpVars, Turns, SelfInv, SelfTypeOK

(* While a handler works it is the only one, and decides what stays true.  *)
LEMMA HandlerServes ==
  ASSUME SelfInv, Turns, Fallback, Served, \A h \in Handlers : Preparing(h),
         Patient = TRUE, "install.seen" \notin FailingWrites, NEW h \in Handlers,
         Request(h) \/ HandlerStep(h)
  PROVE  WhileServing'
<1> USE DEF WhileServing, Served, Preparing, Serving, mainVars
<1>0. /\ TypeOK /\ job \in [Handlers -> Jobs] /\ req \in [Handlers -> Updates \cup {NoMarker}]
      /\ h \in Callers /\ (job[h] # "idle" => proc = "serve")
      /\ job[h] \in {"download", "install", "reply"} => req[h] \in Updates
      /\ current = NoVersion => previous = NoVersion
      /\ \A g \in Handlers : job[h] # "idle" /\ job[g] # "idle" => g = h
      /\ \A g \in Handlers : proc # "serve" => job[g] = "idle"
  BY CallersType DEF SelfInv, SelfTypeOK, Turns, Fallback
<1>1. Accepts(h) => proc = "serve" /\ marker = NoMarker /\ \A g \in Handlers : job[g] = "idle"
  BY DEF Accepts
<1>2. ASSUME proc = "serve", proc' = "serve",
             \A g \in Handlers \ {h} : job'[g] = "idle" \/ job'[g] = "reply",
             job'[h] \in {"download", "install", "rollback"} => marker' = NoMarker,
             job'[h] \in {"download", "install"} => req'[h].from # req'[h].to,
             job'[h] = "download" => current' = req'[h].from,
             job'[h] = "install" => Placed(h, req[h].from, req[h].to)' /\ req'[h] = req[h],
             marker' # NoMarker =>
               /\ marker'.from # marker'.to /\ current' = marker'.to /\ previous' = marker'.from
               /\ restarting' \/ job'[h] = "reply"
      PROVE  WhileServing'
  BY <1>2 DEF Placed
<1>3. ASSUME NEW v \in Versions, InstallBegin(h, v) PROVE WhileServing'
  <2>1. /\ proc = "serve" /\ marker = NoMarker /\ marker' = marker /\ proc' = proc
        /\ \A g \in Handlers : job[g] = "idle"
        /\ job' = [job EXCEPT ![h] = "download"] /\ current' = current /\ v # current
        /\ req' = [req EXCEPT ![h] = [from |-> current, to |-> v]]
    BY <1>1, <1>3 DEF InstallBegin, storeVars
  <2> QED BY <1>0, <1>2, <2>1
<1>4. CASE RollbackBegin(h)
  <2>1. /\ proc = "serve" /\ marker = NoMarker /\ marker' = marker /\ proc' = proc
        /\ \A g \in Handlers : job[g] = "idle"
        /\ job' = [job EXCEPT ![h] = "rollback"]
    BY <1>1, <1>4 DEF RollbackBegin, dbVars
  <2> QED BY <1>0, <1>2, <2>1
<1>5. CASE InstallStage(h)
  <2>1. job[h] = "download" /\ job[h] # "idle"
    BY <1>5 DEF InstallStage
  <2>2. /\ proc = "serve" /\ marker = NoMarker /\ \A g \in Handlers \ {h} : job[g] = "idle"
        /\ current = req[h].from /\ req[h].from # req[h].to
    BY <1>0, <2>1
  <2>3. /\ marker' = marker /\ proc' = proc /\ req' = req /\ job' = [job EXCEPT ![h] = "install"]
        /\ StageReadCurrent(h, req[h].to)
    BY <1>5 DEF InstallStage, dbVars
  <2>5. Placed(h, req[h].from, req[h].to)'
    BY <1>0, <2>2, <2>3, StagePlaces
  <2> QED BY <1>0, <1>2, <2>2, <2>3, <2>5
<1>6. CASE StoreStep(h)
  <2>1. /\ Continue(h) /\ UNCHANGED <<proc, marker, job, req, restarting>>
        /\ at[h] \notin Ready /\ job[h] \in {"install", "rollback"}
    BY <1>0, <1>6, HandlerInStore
  <2>2. proc = "serve" /\ marker = NoMarker /\ \A g \in Handlers \ {h} : job[g] = "idle"
    BY <1>0, <2>1
  <2>3. ASSUME job[h] = "install" PROVE Placed(h, req[h].from, req[h].to)'
    <3>1. /\ req[h].to \in Versions /\ req[h].from # req[h].to
          /\ Placed(h, req[h].from, req[h].to)
      BY <1>0, <2>3, UpdateType
    <3>2. at[h] \in Filling \cup Discarding \cup PromoteSteps
      BY <2>1, <2>3 DEF Fallback, Installing
    <3> QED BY <1>0, <2>1, <3>1, <3>2, InstallPlaces
  <2> QED BY <1>0, <1>2, <2>1, <2>2, <2>3
<1>7. CASE InstallMark(h)
  <2>1. /\ proc = "serve" /\ proc' = proc /\ marker' = req[h]
        /\ \A g \in Handlers \ {h} : job[g] = "idle"
        /\ job' = [job EXCEPT ![h] = "reply"] /\ req' = req
        /\ current = req[h].to /\ previous = req[h].from /\ req[h].from # req[h].to
        /\ UNCHANGED <<current, previous>>
    BY <1>0, <1>7 DEF InstallMark, Placed, storeVars
  <2> QED BY <1>0, <1>2, <2>1
<1>8. CASE InstallFails(h) \/ InstallMarkFails(h)
  <2>1. /\ proc = "serve" /\ proc' = proc /\ marker' = NoMarker
        /\ \A g \in Handlers \ {h} : job[g] = "idle"
        /\ job' = [job EXCEPT ![h] = "idle"]
    BY <1>0, <1>8 DEF InstallFails, InstallMarkFails
  <2> QED BY <1>0, <1>2, <2>1
<1>9. CASE InstallReply(h)
  <2>1. /\ proc = "serve" /\ proc' = proc /\ restarting' = TRUE /\ marker' = marker
        /\ \A g \in Handlers \ {h} : job[g] = "idle"
        /\ job' = [job EXCEPT ![h] = "idle"] /\ UNCHANGED <<current, previous>>
    BY <1>0, <1>9 DEF InstallReply, storeVars, dbVars
  <2> QED BY <1>0, <1>2, <2>1
<1>10. CASE RollbackDone(h) \/ RollbackFails(h)
  <2>1. /\ proc = "serve" /\ proc' = proc /\ marker' = NoMarker
        /\ \A g \in Handlers \ {h} : job[g] = "idle"
        /\ job' = [job EXCEPT ![h] = "idle"]
    BY <1>0, <1>10 DEF RollbackDone, RollbackFails, dbVars
  <2> QED BY <1>0, <1>2, <2>1
<1> QED BY <1>3, <1>4, <1>5, <1>6, <1>7, <1>8, <1>9, <1>10 DEF Request, HandlerStep

LEMMA TrialNext ==
  ASSUME SelfInv, Turns, Fallback, Booted, TrialInv, Undisturbed, [Next]_vars PROVE TrialInv'
<1>1. CASE UNCHANGED vars
  BY <1>1 DEF vars, storeVars, mainVars, dbVars, httpVars, TrialInv, OnTrial, Preparing,
              Reverting, Reverts, Placed
<1>2. CASE MainStep
  BY <1>2, MainOnTrial, MainAlone DEF TrialInv, Preparing
<1>3. CASE Killed
  BY <1>3, DieOnTrial DEF Killed, Undisturbed
<1>4. ASSUME NEW h \in Handlers, Request(h) \/ HandlerStep(h) PROVE TrialInv'
  <2>1. Served /\ Patient = TRUE /\ "install.seen" \notin FailingWrites
    BY DEF TrialInv, OnTrial, Served, Undisturbed, Essential
  <2>2. WhileServing'
    BY <1>4, <2>1, HandlerServes DEF TrialInv
  <2> QED BY <2>2 DEF WhileServing, Served, TrialInv, OnTrial, Reverting
<1> QED BY <1>1, <1>2, <1>3, <1>4 DEF Next

UndisturbedInv == SelfInv /\ Turns /\ Fallback /\ Booted /\ TrialInv

LEMMA UndisturbedSafe == ASSUME Undisturbed PROVE Spec => []UndisturbedInv
<1>1. Init => UndisturbedInv
  BY SelfInit, TurnsInit, FallbackInit, BootedInit, TrialInit DEF UndisturbedInv
<1>2. UndisturbedInv /\ [Next]_vars => UndisturbedInv'
  <2> SUFFICES ASSUME UndisturbedInv, [Next]_vars PROVE UndisturbedInv'
    OBVIOUS
  <2>1. Booted'
    BY BootedNext DEF UndisturbedInv, Undisturbed, Essential
  <2>2. TrialInv'
    BY TrialNext DEF UndisturbedInv
  <2> QED BY <2>1, <2>2, SelfNext, TurnsNext, FallbackNext DEF UndisturbedInv
<1> QED BY <1>1, <1>2, PTL DEF Spec

(* An automatic rollback goes from the release on trial to the one it      *)
(* replaced, and never the other way round.                                *)
THEOREM AutomaticRollbackRevertsTheTrial == ASSUME Undisturbed PROVE Spec => RevertsTheTrial
<1>1. ASSUME UndisturbedInv, [Next]_vars, AutomaticRollback
      PROVE  current = marker.to /\ current' = marker.from
  <2> USE DEF UndisturbedInv
  <2>1. proc \in Reverting /\ current' # current /\ proc # "serve"
    BY <1>1 DEF AutomaticRollback, Reverting
  <2>2. \A h \in Handlers : job[h] = "idle" /\ at[h] \in Ready
    BY <1>1, <2>1 DEF SelfInv, Turns
  <2>3. StoreStep(Main)
    <3>1. UNCHANGED storeVars \/ UNCHANGED pointers => current' = current
      BY DEF storeVars, pointers
    <3>2. ~UNCHANGED vars /\ ~Killed
      BY <1>1, <2>1, <3>1 DEF vars, Killed, Die, Crash
    <3>3. ASSUME NEW h \in Handlers PROVE ~Request(h) /\ ~HandlerStep(h)
      BY <1>1, <2>1, <2>2, <3>3, CallersType, ContinueAlone
      DEF Request, RollbackBegin, InstallBegin, Accepts, HandlerStep, InstallFails, InstallStage,
          InstallMark, InstallMarkFails, InstallReply, RollbackDone, RollbackFails, StoreStep,
          SelfInv, SelfTypeOK
    <3>4. MainStep
      BY <1>1, <3>2, <3>3 DEF Next
    <3> QED BY <2>1, <3>1, <3>4
        DEF MainStep, Exec, GuardNothingPending, GuardWithinBudget, GuardCountFails,
            GuardOverBudget, GuardRecord, GuardRollbackFailed, GuardClear, GuardExit,
            GuardErrorIgnored, StartDies, StartCompletes, ResumeNothing, ResumeHealthy,
            ResumeUnhealthy, ResumeRecord, ResumeRecordFails, ResumeClear, ResumeClearFails, Exit,
            Die, Crash, RevertReadPrevious, PruneList
  <2>4. /\ at[Main] \in RevertSteps /\ Reverts(Main, marker.to, marker.from)
    BY <1>1, <2>1, <2>3, MainIsCaller, ContinueAlone
    DEF StoreStep, SelfInv, SelfTypeOK, Booted, TrialInv, OnTrial
  <2> QED BY <1>1, <2>1, <2>3, <2>4, RevertEffect, MainIsCaller
          DEF StoreStep, SelfInv, SelfTypeOK, Fallback
<1> QED BY <1>1, UndisturbedSafe, PTL DEF Spec, RevertsTheTrial

(* While an update is pending, every start of its release spends one of    *)
(* its boots, and nothing but its own health check gives one back: a       *)
(* forced rollback, which also resets the count, has ended the trial.      *)
THEOREM TrialAlwaysSpendsBoots == ASSUME Undisturbed PROVE Spec => TrialSpendsBoots
<1> DEFINE Spends == /\ attempts' >= attempts
                     /\ StartsAfresh =>
                          \/ attempts' = attempts + 1 /\ attempts' <= MaxAttempts
                          \/ attempts' = attempts /\ "guard.count" \in FailingWrites
<1>1. ASSUME UndisturbedInv, [Next]_vars, marker # NoMarker, marker' = marker, proc # "resume"
      PROVE  Spends
  <2> USE DEF StartsAfresh, Proceed
  <2>0. attempts \in Nat /\ attempts >= attempts
    BY <1>1, AttemptsAssumption DEF UndisturbedInv, SelfInv, SelfTypeOK
  <2>1. CASE attempts' = attempts /\ ~StartsAfresh
    BY <2>0, <2>1
  <2>2. CASE Exec \/ GuardRecord \/ GuardClear \/ StartCompletes \/ ResumeRecord
             \/ ResumeRecordFails \/ ResumeClear \/ ResumeClearFails \/ StoreStep(Main)
    BY <2>1, <2>2 DEF Exec, GuardRecord, GuardClear, StartCompletes, ResumeRecord,
       ResumeRecordFails, ResumeClear, ResumeClearFails, StoreStep, mainVars, dbVars
  <2>3. CASE StartDies \/ Exit \/ Killed
    BY <2>1, <2>3 DEF StartDies, Exit, Killed, Die
  <2>4. CASE GuardWithinBudget
    <3>1. attempts' = Counted /\ Counted <= MaxAttempts
      BY <2>4 DEF GuardWithinBudget
    <3>2. Counted = attempts + 1
      BY <2>0, <3>1, AttemptsAssumption DEF Counted
    <3> QED BY <2>0, <3>1, <3>2
  <2>5. CASE GuardCountFails
    BY <2>0, <2>5 DEF GuardCountFails, dbVars
  <2>6. CASE GuardOverBudget
    BY <2>0, <2>6 DEF GuardOverBudget, Counted
  <2>7. ~GuardRollbackFailed /\ ~GuardExit /\ ~GuardErrorIgnored
    BY <1>1 DEF UndisturbedInv, TrialInv, OnTrial, Reverting, GuardRollbackFailed, GuardExit,
                GuardErrorIgnored
  <2>8. ASSUME NEW h \in Handlers, Request(h) \/ HandlerStep(h) PROVE Spends
    BY <2>1, <2>8 DEF Request, RollbackBegin, InstallBegin, HandlerStep, InstallFails,
       InstallStage, InstallMark, InstallMarkFails, InstallReply, RollbackDone, RollbackFails,
       StoreStep, Serving, mainVars, dbVars
  <2>9. CASE UNCHANGED vars
    BY <2>1, <2>9 DEF vars, mainVars, dbVars
  <2> QED BY <1>1, <2>2, <2>3, <2>4, <2>5, <2>6, <2>7, <2>8, <2>9
          DEF Next, MainStep, GuardNothingPending, ResumeNothing, ResumeHealthy, ResumeUnhealthy
<1> QED BY <1>1, UndisturbedSafe, PTL DEF Spec, TrialSpendsBoots

(* An update is recorded as succeeded only by the binary it installed.     *)
THEOREM SuccessIsRecordedByTheNewBinary == ASSUME Undisturbed PROVE Spec => SuccessMeansRunning
<1>1. ASSUME UndisturbedInv, [Next]_vars, outcome' # outcome, outcome'.status = "succeeded"
      PROVE  running = outcome'.to
  <2> USE DEF UndisturbedInv
  <2>1. ResumeRecord
    <3>1. ~UNCHANGED vars /\ ~Killed
      BY <1>1 DEF vars, dbVars, Killed, Die
    <3>2. ASSUME NEW h \in Handlers PROVE ~Request(h) /\ ~HandlerStep(h)
      BY <1>1
      DEF Request, RollbackBegin, InstallBegin, HandlerStep, InstallFails, InstallStage,
          InstallMark, InstallMarkFails, InstallReply, RollbackDone, RollbackFails, StoreStep,
          dbVars, Row
    <3>3. MainStep
      BY <1>1, <3>1, <3>2 DEF Next
    <3> QED BY <1>1, <3>3
        DEF MainStep, Exec, GuardNothingPending, GuardWithinBudget, GuardCountFails,
            GuardOverBudget, GuardRecord, GuardRollbackFailed, GuardClear, GuardExit,
            GuardErrorIgnored, StartDies, StartCompletes, ResumeNothing, ResumeHealthy,
            ResumeUnhealthy, ResumeRecordFails, ResumeClear, ResumeClearFails, Exit, Die,
            StoreStep, dbVars, Row
  <2>2. proc = "resume.commit" /\ outcome'.to = marker.to
    BY <1>1, <2>1 DEF ResumeRecord, Verdict, Row
  <2>3. marker # NoMarker
    BY <1>1, <2>2, UpdateType DEF SelfInv
  <2> QED BY <1>1, <2>2, <2>3 DEF Booted, TrialInv, OnTrial
<1> QED BY <1>1, UndisturbedSafe, PTL DEF Spec, SuccessMeansRunning

-----------------------------------------------------------------------------
(* A kill after a rollback, and a rollback that fails or is repeated.      *)

(* The writes that decide whether an update is over, and the restart, are  *)
(* relied on; every other may fail.  Of a rollback only the last pointer   *)
(* write is relied on, and that no kill separates it from the first.       *)
Repeatable ==
  /\ Patient = TRUE
  /\ FailingWrites \cap {"resume.record", "resume.clear", "install.seen"} = {}
  /\ "revert.swap" \notin FaultyAt
  /\ CrashIn \cap Reverting = {}

Both ==
  \/ current = marker.to /\ previous = marker.from
  \/ current = marker.from /\ previous = marker.to

(* A rollback under way swaps the releases of the update, whichever of     *)
(* them it found: nobody knows how many went before it.                    *)
Swapping ==
  /\ at[Main] \in RevertSteps \cup Ready
  /\ Reverts(Main, marker.to, marker.from) \/ Reverts(Main, marker.from, marker.to)
  /\ at[Main] = "error" => Both

BothKept ==
  /\ Served /\ \A h \in Handlers : Preparing(h)
  /\ marker # NoMarker /\ proc \notin Reverting => Both
  /\ proc \in Reverting => Swapping
  /\ proc = "resume.commit" => at[Main] \in PruneSteps \cup Ready

LEMMA BothKeptInit == Init => BothKept
  BY DEF Init, BothKept, Served, Preparing, Reverting

(* A rollback that fails before its last write leaves the pointers as they *)
(* were.                                                                   *)
LEMMA SwappingStep ==
  ASSUME SelfInv, Fallback, Continue(Main), at[Main] \in RevertSteps, Swapping, marker' = marker,
         "revert.swap" \notin FaultyAt
  PROVE  Swapping'
<1>0. TypeOK /\ Main \in Callers /\ (current = NoVersion => previous = NoVersion)
  BY MainIsCaller DEF SelfInv, SelfTypeOK, Fallback
<1>1. at'[Main] \in RevertSteps \cup Ready
  BY <1>0, RevertUndone
<1>2. Reverts(Main, marker.to, marker.from) => Reverts(Main, marker.to, marker.from)'
  BY <1>0, RevertEffect DEF Reverts
<1>3. Reverts(Main, marker.from, marker.to) => Reverts(Main, marker.from, marker.to)'
  BY <1>0, RevertEffect DEF Reverts
<1>4. ASSUME at'[Main] = "error" PROVE Both'
  <2>1. at[Main] \in {"revert.cur", "revert.act"} /\ UNCHANGED <<current, previous>>
    BY <1>0, <1>4, RevertUndone
  <2> QED BY <2>1 DEF Swapping, Reverts, Both
<1>5. Reverts(Main, marker.to, marker.from)' \/ Reverts(Main, marker.from, marker.to)'
  BY <1>2, <1>3 DEF Swapping
<1> QED BY <1>1, <1>4, <1>5 DEF Swapping

LEMMA SwappingBegins ==
  ASSUME SelfInv, Fallback, marker # NoMarker, Both, RevertReadPrevious(Main), marker' = marker
  PROVE  Swapping'
<1>0. TypeOK /\ Main \in Callers /\ previous # NoVersion
  BY MainIsCaller DEF SelfInv, SelfTypeOK, Fallback
<1>1. at'[Main] = "revert.cur"
  BY <1>0 DEF RevertReadPrevious, GoTo, TypeOK
<1>2. CASE current = marker.to /\ previous = marker.from
  <2>1. Reverts(Main, marker.to, marker.from)'
    BY <1>0, <1>2, RevertBegins DEF Reverts
  <2> QED BY <1>1, <2>1 DEF Swapping
<1>3. CASE current = marker.from /\ previous = marker.to
  <2>1. Reverts(Main, marker.from, marker.to)'
    BY <1>0, <1>3, RevertBegins DEF Reverts
  <2> QED BY <1>1, <2>1 DEF Swapping
<1> QED BY <1>2, <1>3 DEF Both

LEMMA SwappingEnds ==
  ASSUME Swapping, at[Main] \in Ready PROVE Both
  BY DEF Swapping, Reverts, Both

(* A startup whose verdict is stored never serves with an update pending.  *)
LEMMA MainKeepsBoth ==
  ASSUME SelfInv, Turns, Fallback, BothKept, Repeatable, MainStep PROVE BothKept'
<1> USE DEF BothKept, Repeatable, Reverting
<1>0. /\ TypeOK /\ Main \in Callers /\ (current = NoVersion => previous = NoVersion)
      /\ proc \in Reverting \cup {"resume.commit"} => marker # NoMarker
  BY MainIsCaller, UpdateType DEF SelfInv, SelfTypeOK, Fallback
<1>1. \A h \in Handlers : Preparing(h)'
  BY MainAlone DEF Preparing
<1>2. ASSUME UNCHANGED <<current, previous>>, Both \/ marker' = NoMarker,
             marker' # NoMarker => marker' = marker /\ proc' # "serve",
             proc' \notin Reverting \cup {"resume.commit"}
      PROVE  BothKept'
  BY <1>1, <1>2 DEF Both, Served
<1>3. ASSUME Die, marker # NoMarker => Both PROVE BothKept'
  BY <1>2, <1>3 DEF Die, Crash, pointers
<1>4. CASE StartDies \/ Exit
  BY <1>3, <1>4 DEF StartDies, Exit
<1>5. CASE StoreStep(Main)
  <2>1. Continue(Main) /\ UNCHANGED <<proc, marker>>
    BY <1>5 DEF StoreStep, mainVars, dbVars
  <2>2. proc \in Reverting \cup {"resume.commit"} /\ at[Main] \notin Ready
    BY <1>0, <2>1, ContinueAlone DEF Turns
  <2>3. CASE proc = "resume.commit"
    <3>1. at[Main] \in PruneSteps
      BY <2>2, <2>3
    <3>2. UNCHANGED <<current, previous>> /\ at'[Main] \in PruneSteps \cup Ready
      BY <1>0, <2>1, <3>1, InstallEffect, BundledAssumption
    <3> QED BY <1>1, <2>1, <2>3, <3>2 DEF Both, Served
  <2>4. CASE proc \in Reverting
    <3>1. at[Main] \in RevertSteps /\ Swapping
      BY <2>2, <2>4 DEF Swapping
    <3>2. Swapping'
      BY <2>1, <3>1, SwappingStep
    <3> QED BY <1>1, <2>1, <2>4, <3>2 DEF Served
  <2> QED BY <2>2, <2>3, <2>4
<1>6. CASE GuardOverBudget \/ ResumeUnhealthy
  <2>1. /\ RevertReadPrevious(Main) /\ marker' = marker /\ marker # NoMarker
        /\ proc' \in Reverting /\ proc \notin Reverting
    BY <1>6 DEF GuardOverBudget, ResumeUnhealthy, Proceed
  <2>2. Swapping'
    BY <2>1, SwappingBegins
  <2> QED BY <1>1, <2>1, <2>2 DEF Served
<1>7. CASE ResumeHealthy
  <2>1. /\ PruneList(Main) /\ marker' = marker /\ marker # NoMarker
        /\ proc' = "resume.commit" /\ proc = "resume"
    BY <1>7 DEF ResumeHealthy, Proceed
  <2>2. at'[Main] = "prune.cur" /\ UNCHANGED <<current, previous>>
    BY <1>0, <2>1 DEF PruneList, GoTo, TypeOK, pointers
  <2> QED BY <1>1, <2>1, <2>2 DEF Both, Served
<1>8. CASE GuardRecord \/ GuardRollbackFailed \/ ResumeRecord
  <2>1. /\ at[Main] \in Ready /\ proc \in Reverting \cup {"resume.commit"}
        /\ proc' \in {"guard.clear", "start", "resume.clear"} /\ marker' = marker
        /\ UNCHANGED storeVars
    BY <1>8 DEF GuardRecord, GuardRollbackFailed, ResumeRecord, Proceed
  <2>2. Both
    BY <1>0, <2>1, SwappingEnds
  <2> QED BY <1>2, <2>1, <2>2 DEF storeVars
<1>9. CASE Exec \/ GuardNothingPending \/ GuardWithinBudget \/ GuardCountFails \/ GuardClear
            \/ GuardErrorIgnored \/ StartCompletes \/ ResumeNothing
  BY <1>2, <1>9 DEF Exec, GuardNothingPending, GuardWithinBudget, GuardCountFails, GuardClear,
     GuardErrorIgnored, StartCompletes, ResumeNothing, Proceed, storeVars, dbVars
<1>10. CASE GuardExit \/ ResumeClear
  BY <1>2, <1>10 DEF GuardExit, ResumeClear, Proceed, Crash, pointers, storeVars
<1>11. ~ResumeRecordFails /\ ~ResumeClearFails
  BY DEF ResumeRecordFails, ResumeClearFails
<1> QED BY <1>4, <1>5, <1>6, <1>7, <1>8, <1>9, <1>10, <1>11 DEF MainStep

LEMMA BothKeptNext ==
  ASSUME SelfInv, Turns, Fallback, BothKept, Repeatable, [Next]_vars PROVE BothKept'
<1> USE DEF BothKept
<1>1. CASE UNCHANGED vars
  BY <1>1 DEF vars, storeVars, mainVars, dbVars, httpVars, Served, Preparing, Placed, Both,
              Swapping, Reverts
<1>2. CASE MainStep
  BY <1>2, MainKeepsBoth
<1>3. CASE Killed
  <2>1. /\ proc \notin Reverting /\ proc' = "down" /\ UNCHANGED <<current, previous, marker>>
        /\ \A h \in Handlers : job'[h] = "idle"
    BY <1>3 DEF Killed, Die, Crash, pointers, Repeatable
  <2> QED BY <2>1 DEF Served, Preparing, Both, Reverting
<1>4. ASSUME NEW h \in Handlers, Request(h) \/ HandlerStep(h) PROVE BothKept'
  <2>1. WhileServing'
    BY <1>4, HandlerServes DEF Repeatable
  <2> QED BY <2>1 DEF WhileServing, Served, Both, Reverting
<1> QED BY <1>1, <1>2, <1>3, <1>4 DEF Next

(* Until its marker is gone an update's two releases are the ones the      *)
(* pointers name, however often a rollback fails or is repeated: a later   *)
(* boot can always go to the other one.                                    *)
THEOREM TrialAlwaysKeepsBoth == ASSUME Repeatable PROVE Spec => []TrialKeepsBoth
<1>1. ASSUME SelfInv, Turns, BothKept PROVE TrialKeepsBoth
  <2>1. ASSUME marker # NoMarker, at[Main] # "revert.swap" PROVE Both
    <3>1. CASE proc \notin Reverting
      BY <2>1, <3>1, <1>1 DEF BothKept
    <3>2. CASE proc \in Reverting
      BY <2>1, <3>2, <1>1 DEF BothKept, Swapping, Reverts, Both
    <3> QED BY <3>1, <3>2
  <2> QED BY <2>1 DEF TrialKeepsBoth, Both
<1>2. SelfInv /\ Turns /\ Fallback /\ BothKept /\ [Next]_vars => BothKept'
  BY BothKeptNext
<1> QED BY <1>1, <1>2, SelfInit, TurnsInit, FallbackInit, BothKeptInit, SelfNext, TurnsNext,
           FallbackNext, PTL DEF Spec

-----------------------------------------------------------------------------
(* An update or a rollback, as Rollout sees it.                            *)

(* A rollback cannot end in an error once it has begun.                    *)
LEMMA RevertsOn ==
  ASSUME TypeOK, NEW c \in Callers, Continue(c), at[c] \in RevertSteps, at[c] \notin FaultyAt
  PROVE  RevertStep(c)
<1>1. ~StageStep(c) /\ ~DiscardStep(c) /\ ~PromoteStep(c)
  BY DEF StageStep, StageReadPrevious, StageMakeDir, StageWritePointer, ExtractBegin, ExtractEnd,
         ExtractFails, DiscardStep, DiscardReadStaged, DiscardRemoveFiles, DiscardRemoveDir,
         DiscardUnstage, PromoteStep, PromoteReadStaged, PromoteReadCurrent, PromoteSavePrevious,
         PromoteActivate, PromoteUnstage
<1>2. ~SwitchStep(c) /\ ~PruneStep(c) /\ ~BootstrapWritePointer(c) /\ ~Fault(c)
  BY DEF SwitchStep, SwitchReadCurrent, SwitchSavePrevious, SwitchActivate, PruneStep,
         PruneSpareCurrent, PruneSparePrevious, PruneSpareStaged, PruneRemoveFiles,
         PruneRemoveDir, BootstrapWritePointer, Fault
<1> QED BY <1>1, <1>2 DEF Continue

(* The newest row is the one of the installation under way; a rollback     *)
(* holds the two releases it swaps.                                        *)
Working(h) ==
  /\ job[h] \in {"download", "install"} => outcome.status = "started"
  /\ job[h] = "rollback" =>
       /\ at[h] \in RevertSteps \cup {"done"}
       /\ at[h] \in {"revert.cur", "revert.act"} => ver[h] = previous /\ previous # NoVersion
       /\ at[h] = "revert.act" => seen[h] = current

LEMMA WorkingInit == Init => \A h \in Handlers : Working(h)
  BY DEF Init, Working

LEMMA WorkingNext ==
  ASSUME SelfInv, Turns, Fallback, Undisturbed, \A h \in Handlers : Working(h), [Next]_vars
  PROVE  \A h \in Handlers : Working(h)'
<1> USE DEF Working
<1>1. CASE UNCHANGED vars
  BY <1>1 DEF vars, storeVars, dbVars, httpVars
<1>2. CASE MainStep
  BY <1>2, MainAlone
<1>3. CASE Killed
  BY <1>3 DEF Killed, Die
<1>4. ASSUME NEW h \in Handlers, Request(h) \/ HandlerStep(h)
      PROVE  \A g \in Handlers : Working(g)'
  <2>0. /\ TypeOK /\ job \in [Handlers -> Jobs] /\ h \in Callers
        /\ \A g \in Handlers : job[h] # "idle" /\ job[g] # "idle" => g = h
    BY CallersType DEF SelfInv, SelfTypeOK, Turns, Undisturbed
  <2>1. ASSUME job[h] # "idle" \/ \A g \in Handlers : job[g] = "idle",
               \A g \in Handlers \ {h} : job'[g] = job[g], Working(h)'
        PROVE  \A g \in Handlers : Working(g)'
    BY <2>0, <2>1
  <2>2. ASSUME NEW v \in Versions, InstallBegin(h, v) PROVE \A g \in Handlers : Working(g)'
    BY <2>0, <2>1, <2>2 DEF InstallBegin, Accepts, Serving, Row, Undisturbed
  <2>3. CASE RollbackBegin(h)
    <3>1. /\ \A g \in Handlers : job[g] = "idle"
          /\ job' = [job EXCEPT ![h] = "rollback"] /\ previous # NoVersion /\ RevertReadPrevious(h)
      BY <2>3 DEF RollbackBegin, Accepts, Serving, Undisturbed
    <3>2. at'[h] = "revert.cur" /\ ver'[h] = previous' /\ previous' = previous
      BY <2>0, <3>1 DEF RevertReadPrevious, GoTo, pointers, TypeOK
    <3> QED BY <2>0, <2>1, <3>1, <3>2
  <2>4. CASE StoreStep(h)
    <3>1. /\ Continue(h) /\ UNCHANGED <<job, outcome>> /\ job[h] # "idle"
          /\ at[h] \notin Ready
      BY <2>4, HandlerInStore DEF StoreStep, dbVars
    <3>2. ASSUME job[h] = "rollback" PROVE Working(h)'
      <4>1. RevertStep(h) /\ at[h] \in RevertSteps
        BY <2>0, <3>1, <3>2, RevertsOn DEF Undisturbed
      <4>2. job[h] = "rollback" /\ job'[h] = "rollback"
        BY <3>1, <3>2
      <4>3. CASE RevertReadCurrent(h)
        BY <2>0, <4>2, <4>3 DEF RevertReadCurrent, GoTo, pointers, TypeOK
      <4>4. CASE RevertActivate(h) \/ RevertSavePrevious(h)
        BY <2>0, <4>2, <4>4 DEF RevertActivate, RevertSavePrevious, GoTo, Return, TypeOK
      <4> QED BY <4>1, <4>3, <4>4 DEF RevertStep
    <3> QED BY <2>1, <3>1, <3>2
  <2>5. CASE InstallStage(h)
    BY <2>0, <2>1, <2>5 DEF InstallStage, Serving, dbVars
  <2>6. CASE InstallFails(h) \/ InstallMark(h) \/ InstallMarkFails(h) \/ InstallReply(h)
    BY <2>0, <2>1, <2>6
    DEF InstallFails, InstallMark, InstallMarkFails, InstallReply, Serving
  <2>7. CASE RollbackDone(h) \/ RollbackFails(h)
    BY <2>0, <2>1, <2>7 DEF RollbackDone, RollbackFails, Serving
  <2> QED BY <1>4, <2>2, <2>3, <2>4, <2>5, <2>6, <2>7 DEF Request, HandlerStep
<1> QED BY <1>1, <1>2, <1>3, <1>4 DEF Next

(* What is under way: an update on trial, or the work of one handler.      *)
Clearing == {"guard.clear", "resume.clear"}

Shows ==
  /\ marker # NoMarker /\ proc \notin Clearing =>
       UnderWay = TrialOf(marker, "undone") /\ UnderWay # NoMarker
  /\ marker = NoMarker \/ proc \in Clearing =>
       /\ \A h \in Handlers :
            /\ job[h] \in {"download", "install"} =>
                 UnderWay = TrialOf(req[h], "prepared") /\ UnderWay # NoMarker
            /\ job[h] = "rollback" => UnderWay = RollbackOf(h) /\ UnderWay # NoMarker
       /\ (\A h \in Handlers : job[h] \in {"idle", "reply"}) => UnderWay = NoMarker

LEMMA TrialIsUnderWay ==
  ASSUME TypeOK, NEW u \in Updates, NEW before \in {"prepared", "undone"}
  PROVE  TrialOf(u, before) # NoMarker
  BY NoMarkerAssumption DEF TrialOf, Updates

LEMMA RollbackIsUnderWay ==
  ASSUME TypeOK, NEW h \in Callers PROVE RollbackOf(h) # NoMarker
  BY NoMarkerAssumption DEF RollbackOf, TypeOK

LEMMA UndisturbedShows ==
  ASSUME Patient = TRUE, SelfInv, Turns PROVE Shows
<1>0. /\ TypeOK /\ job \in [Handlers -> Jobs] /\ marker \in Updates \cup {NoMarker}
      /\ \A g, h \in Handlers : job[g] # "idle" /\ job[h] # "idle" => g = h
  BY DEF SelfInv, SelfTypeOK, Turns
<1>1. CASE marker # NoMarker /\ proc \notin Clearing
  BY <1>0, <1>1, TrialIsUnderWay DEF Shows, UnderWay, Clearing
<1>2. CASE marker = NoMarker \/ proc \in Clearing
  <2>1. ASSUME NEW h \in Handlers, job[h] \in {"download", "install"}
        PROVE  UnderWay = TrialOf(req[h], "prepared") /\ UnderWay # NoMarker
    <3>1. Preparers = {h} /\ req[h] \in Updates
      BY <1>0, <2>1 DEF Preparers, SelfInv
    <3> QED BY <1>0, <1>2, <3>1, TrialIsUnderWay DEF UnderWay, Clearing
  <2>2. ASSUME NEW h \in Handlers, job[h] = "rollback"
        PROVE  UnderWay = RollbackOf(h) /\ UnderWay # NoMarker
    <3>1. Preparers = {} /\ Reverters = {h}
      BY <1>0, <2>2 DEF Preparers, Reverters
    <3> QED BY <1>0, <1>2, <3>1, CallersType, RollbackIsUnderWay DEF UnderWay, Clearing
  <2>3. ASSUME \A h \in Handlers : job[h] \in {"idle", "reply"} PROVE UnderWay = NoMarker
    <3>1. Preparers = {} /\ Reverters = {}
      BY <2>3 DEF Preparers, Reverters
    <3> QED BY <1>2, <3>1 DEF UnderWay, Clearing
  <2> QED BY <1>2, <2>1, <2>2, <2>3 DEF Shows
<1> QED BY <1>1, <1>2

LEMMA SelfContractInit == ASSUME Patient = TRUE PROVE Init => Contract!Init
<1>1. Init => Shows
  BY SelfInit, TurnsInit, UndisturbedShows
<1> QED BY <1>1, BundledAssumption DEF Init, Shows, Row, Contract!Init

UnderWayInv == UndisturbedInv /\ \A h \in Handlers : Working(h)

LEMMA UnderWaySafe == ASSUME Undisturbed PROVE Spec => []UnderWayInv
<1>1. Init => \A h \in Handlers : Working(h)
  BY WorkingInit
<1>2. UndisturbedInv /\ (\A h \in Handlers : Working(h)) /\ [Next]_vars
        => (\A h \in Handlers : Working(h))'
  BY WorkingNext DEF UndisturbedInv
<1> QED BY <1>1, <1>2, UndisturbedSafe, PTL DEF Spec, UnderWayInv

(* What the process does at startup, and what ends it.                     *)
LEMMA StartupKeepsContract ==
  ASSUME Undisturbed, UnderWayInv, Shows, Shows', MainStep \/ Killed
  PROVE  [Contract!Next]_(Contract!rolloutVars)
<1> USE DEF Undisturbed, UnderWayInv, UndisturbedInv, Clearing
<1>0. /\ TypeOK /\ Main \in Callers /\ outcome \in Rows
      /\ \A h \in Handlers : job[h] # "idle" => proc = "serve"
      /\ proc \in Reverting \cup {"resume.commit"} => marker # NoMarker
      /\ current = NoVersion => previous = NoVersion
  BY MainIsCaller, UpdateType DEF SelfInv, SelfTypeOK, Fallback, Reverting
<1>1. \A h \in Handlers : job'[h] = "idle"
  BY MainAlone DEF Killed, Die
<1>2. ASSUME UNCHANGED <<current, marker, outcome>>, proc \notin Clearing,
             marker # NoMarker => proc' \notin Clearing
      PROVE  [Contract!Next]_(Contract!rolloutVars)
  <2>1. CASE marker # NoMarker
    BY <1>2, <2>1 DEF Shows, TrialOf, Contract!rolloutVars
  <2>2. CASE marker = NoMarker
    <3>1. UnderWay' = NoMarker
      BY <1>1, <1>2, <2>2 DEF Shows
    <3>2. UnderWay # NoMarker => Contract!End
      BY <1>2, <3>1 DEF Contract!End
    <3> QED BY <1>2, <3>1, <3>2 DEF Contract!rolloutVars, Contract!Next
  <2> QED BY <2>1, <2>2
<1>3. ASSUME UNCHANGED <<current, outcome>>, proc \in Clearing \cup {"guard.reset"},
             proc = "guard.reset" => marker = NoMarker,
             marker' = NoMarker \/ proc' \in Clearing
      PROVE  [Contract!Next]_(Contract!rolloutVars)
  BY <1>0, <1>1, <1>3 DEF Shows, Contract!rolloutVars
<1>4. CASE StartDies \/ Exit \/ Killed
  BY <1>2, <1>4 DEF StartDies, Exit, Killed, Die, Crash, pointers
<1>5. CASE Exec \/ GuardNothingPending \/ GuardWithinBudget \/ GuardCountFails \/ StartCompletes
             \/ ResumeNothing
  BY <1>2, <1>5 DEF Exec, GuardNothingPending, GuardWithinBudget, GuardCountFails,
                    StartCompletes, ResumeNothing, Proceed, storeVars, dbVars
<1>6. CASE GuardOverBudget \/ ResumeHealthy \/ ResumeUnhealthy
  BY <1>2, <1>6 DEF GuardOverBudget, ResumeHealthy, ResumeUnhealthy, RevertReadPrevious,
                    PruneList, Proceed, pointers
<1>7. CASE StoreStep(Main)
  <2>1. Continue(Main) /\ UNCHANGED <<proc, marker, outcome>>
    BY <1>7 DEF StoreStep, mainVars, dbVars
  <2>2. /\ proc \in Reverting \cup {"resume.commit"} /\ at[Main] \notin Ready
        /\ marker # NoMarker /\ proc \notin Clearing
    BY <1>0, <2>1, ContinueAlone DEF Turns, Reverting
  <2>3. CASE current' = current
    BY <1>2, <2>1, <2>2, <2>3
  <2>4. CASE current' # current
    <3>1. proc # "resume.commit"
      <4>1. proc = "resume.commit" => at[Main] \in PruneSteps
        BY <2>2 DEF Booted
      <4> QED BY <1>0, <2>1, <2>4, <4>1, InstallEffect, BundledAssumption
    <3>2. at[Main] \in RevertSteps /\ Reverts(Main, marker.to, marker.from)
      BY <2>2, <3>1 DEF Booted, TrialInv, OnTrial
    <3>3. current = marker.to /\ current' = marker.from /\ marker.from # marker.to
      BY <1>0, <2>1, <2>2, <2>4, <3>2, RevertEffect DEF TrialInv, OnTrial
    <3>4. /\ UnderWay = [from |-> marker.from, to |-> marker.to, stage |-> "switched"]
          /\ UnderWay' = [from |-> marker.from, to |-> marker.to, stage |-> "undone"]
      BY <2>1, <2>2, <3>3 DEF Shows, TrialOf
    <3>5. Contract!Undo
      BY <2>1, <2>2, <3>3, <3>4 DEF Shows, Contract!Undo
    <3> QED BY <3>5 DEF Contract!Next
  <2> QED BY <2>3, <2>4
<1>8. CASE GuardRecord \/ ResumeRecord
  <2>1. /\ marker # NoMarker /\ proc \notin Clearing /\ proc' \in Clearing
        /\ UNCHANGED <<current, marker>>
    BY <1>0, <1>8 DEF GuardRecord, ResumeRecord, Proceed, storeVars, Reverting
  <2>2. /\ UnderWay = TrialOf(marker, "undone") /\ UnderWay # NoMarker
        /\ UnderWay' = NoMarker
    BY <1>1, <2>1 DEF Shows
  <2>3. CASE proc = "resume.commit"
    <3>1. outcome'.status = "succeeded" /\ current = marker.to
      BY <1>8, <2>1, <2>3 DEF GuardRecord, ResumeRecord, Verdict, Row, TrialInv, OnTrial
    <3>2. Contract!Truthful("succeeded", TRUE, UnderWay.stage)
      BY <2>2, <3>1 DEF TrialOf, Contract!Truthful
    <3> QED BY <2>1, <2>2, <3>1, <3>2 DEF Contract!End, Contract!Next
  <2>4. CASE proc # "resume.commit"
    <3>1. /\ outcome'.status = "rolled_back" /\ at[Main] = "done" /\ proc \in Reverting
      BY <1>8, <2>4 DEF GuardRecord, ResumeRecord, Verdict, Row, TrialInv, OnTrial, Reverting,
                        Essential
    <3>2. current = marker.from /\ marker.from # marker.to
      BY <2>1, <3>1 DEF TrialInv, OnTrial, Reverts
    <3>3. Contract!Truthful("rolled_back", TRUE, UnderWay.stage)
      BY <2>2, <3>2 DEF TrialOf, Contract!Truthful
    <3> QED BY <2>1, <2>2, <3>1, <3>3 DEF Contract!End, Contract!Next
  <2> QED BY <2>3, <2>4
<1>9. CASE GuardClear \/ GuardExit \/ GuardErrorIgnored \/ ResumeClear
  BY <1>3, <1>9 DEF GuardClear, GuardExit, GuardErrorIgnored, ResumeClear, Proceed, Crash, Row,
                    storeVars, pointers, TrialInv, OnTrial, Booted, Essential
<1>10. ~GuardRollbackFailed /\ ~ResumeRecordFails /\ ~ResumeClearFails
  BY DEF GuardRollbackFailed, ResumeRecordFails, ResumeClearFails, Essential, TrialInv, OnTrial,
         Reverting
<1> QED BY <1>4, <1>5, <1>6, <1>7, <1>8, <1>9, <1>10 DEF MainStep

(* What a handler does for a request.                                      *)
LEMMA RequestKeepsContract ==
  ASSUME Undisturbed, UnderWayInv, UnderWayInv', Shows, Shows', NEW h \in Handlers,
         Request(h) \/ HandlerStep(h)
  PROVE  [Contract!Next]_(Contract!rolloutVars)
<1> USE DEF Undisturbed, UnderWayInv, UndisturbedInv, Clearing
<1>0. /\ TypeOK /\ h \in Callers /\ job \in [Handlers -> Jobs] /\ outcome \in Rows
      /\ req \in [Handlers -> Updates \cup {NoMarker}]
      /\ job[h] # "idle" => proc = "serve"
      /\ job[h] \in {"download", "install", "reply"} =>
           req[h] \in Updates /\ req[h].to \in Versions
      /\ current = NoVersion => previous = NoVersion
      /\ \A g \in Handlers : job[h] # "idle" /\ job[g] # "idle" => g = h
      /\ Working(h) /\ Working(h)' /\ Preparing(h)
  BY CallersType, UpdateType DEF SelfInv, SelfTypeOK, Turns, Fallback, TrialInv
<1>1. Accepts(h) => /\ proc = "serve" /\ marker = NoMarker /\ UnderWay = NoMarker
                    /\ \A g \in Handlers : job[g] = "idle"
  BY DEF Accepts, Shows, TrialInv, OnTrial
<1>2. job[h] \in {"download", "install"} =>
        /\ marker = NoMarker /\ outcome.status = "started" /\ req[h].from # req[h].to
        /\ UnderWay = TrialOf(req[h], "prepared") /\ UnderWay # NoMarker
        /\ UnderWay.stage # "undone"
  BY <1>0 DEF Shows, Preparing, Working, TrialOf
<1>3. (job'[h] = "idle" /\ job[h] # "idle" /\ \A g \in Handlers \ {h} : job'[g] = job[g])
        => \A g \in Handlers : job'[g] = "idle"
  BY <1>0
<1>4. ASSUME NEW v \in Versions, InstallBegin(h, v) PROVE Contract!Begin(v)
  <2>1. /\ UnderWay = NoMarker /\ marker' = NoMarker /\ current' = current /\ v # current
        /\ job'[h] = "download" /\ req'[h] = [from |-> current, to |-> v]
        /\ outcome'.status = "started"
    BY <1>0, <1>1, <1>4 DEF InstallBegin, Serving, storeVars, Row
  <2>2. UnderWay' = [from |-> current, to |-> v, stage |-> "prepared"]
    BY <2>1 DEF Shows, TrialOf
  <2> QED BY <2>1, <2>2 DEF Contract!Begin
<1>5. CASE RollbackBegin(h)
  <2>1. /\ UnderWay = NoMarker /\ marker' = NoMarker /\ job'[h] = "rollback"
        /\ previous \in Versions /\ outcome' = outcome /\ RevertReadPrevious(h)
    BY <1>0, <1>1, <1>5 DEF RollbackBegin, Serving, dbVars, TypeOK
  <2>2. at'[h] = "revert.cur" /\ current' = current /\ previous' = previous
    BY <1>0, <2>1, VersionsAssumption DEF RevertReadPrevious, GoTo, pointers, TypeOK
  <2>3. UnderWay' = [from |-> previous, to |-> current, stage |-> "switched"]
    BY <2>1, <2>2 DEF Shows, RollbackOf
  <2>4. Contract!Revert(previous)
    BY <2>1, <2>2, <2>3 DEF Contract!Revert
  <2> QED BY <2>1, <2>4 DEF Contract!Next
<1>6. CASE InstallStage(h)
  <2>1. /\ job[h] = "download" /\ job'[h] = "install" /\ req' = req /\ UNCHANGED <<marker, outcome>>
        /\ current' = current
    BY <1>0, <1>6 DEF InstallStage, Serving, dbVars, StageReadCurrent, pointers
  <2>2. UnderWay' = UnderWay
    BY <1>2, <2>1 DEF Shows, TrialOf
  <2> QED BY <2>1, <2>2 DEF Contract!rolloutVars
<1>7. CASE StoreStep(h)
  <2>1. /\ Continue(h) /\ UNCHANGED <<proc, marker, outcome, job, req>>
        /\ at[h] \notin Ready /\ job[h] \in {"install", "rollback"}
    BY <1>7, HandlerInStore DEF StoreStep, dbVars
  <2>2. marker = NoMarker
    BY <1>0, <2>1 DEF Preparing
  <2>3. CASE job[h] = "install"
    <3>1. /\ UnderWay = TrialOf(req[h], "prepared") /\ UnderWay # NoMarker
          /\ UnderWay' = TrialOf(req[h], "prepared")'
      BY <2>1, <2>2, <2>3 DEF Shows
    <3>2. CASE current' = current
      <4>1. UnderWay' = UnderWay
        BY <2>1, <3>1, <3>2 DEF TrialOf
      <4> QED BY <2>1, <3>2, <4>1 DEF Contract!rolloutVars
    <3>3. CASE current' # current
      <4>1. at[h] \in Filling \cup Discarding \cup PromoteSteps
        BY <2>1, <2>3 DEF Fallback, Installing
      <4>2. PICK from, to : from = req[h].from /\ to = req[h].to /\ to \in Versions
        BY <1>0, <2>3 DEF SelfInv, Updates
      <4>3. from # to /\ Placed(h, from, to)
        BY <1>0, <2>3, <4>2 DEF Preparing
      <4>4. current = from /\ current' = to
        BY <1>0, <2>1, <3>3, <4>1, <4>2, <4>3, InstallEffect
      <4>5. /\ UnderWay = [from |-> from, to |-> to, stage |-> "prepared"]
            /\ UnderWay' = [from |-> from, to |-> to, stage |-> "switched"]
        BY <2>1, <3>1, <4>2, <4>3, <4>4 DEF TrialOf
      <4>6. Contract!Switch
        BY <2>1, <3>1, <4>4, <4>5 DEF Contract!Switch
      <4> QED BY <4>6 DEF Contract!Next
    <3> QED BY <3>2, <3>3
  <2>4. CASE job[h] = "rollback"
    <3>1. /\ UnderWay = RollbackOf(h) /\ UnderWay # NoMarker /\ UnderWay' = RollbackOf(h)'
      BY <2>1, <2>2, <2>4 DEF Shows
    <3>2. RevertStep(h)
      BY <1>0, <2>1, <2>4, RevertsOn DEF Working
    <3>3. CASE RevertReadCurrent(h)
      <4>1. UnderWay' = UnderWay /\ current' = current
        BY <1>0, <3>1, <3>3 DEF RevertReadCurrent, GoTo, pointers, TypeOK, RollbackOf
      <4> QED BY <2>1, <4>1 DEF Contract!rolloutVars
    <3>4. CASE RevertActivate(h)
      <4>1. /\ at[h] = "revert.act" /\ current' = previous /\ previous' = previous
            /\ seen[h] = current /\ current # NoVersion
            /\ at'[h] = "revert.swap" /\ seen'[h] = current
        BY <1>0, <2>4, <3>4 DEF RevertActivate, GoTo, TypeOK, Working, Fallback
      <4>2. /\ UnderWay = [from |-> previous, to |-> current, stage |-> "switched"]
            /\ UnderWay' = [from |-> previous, to |-> current, stage |-> "undone"]
        BY <3>1, <4>1 DEF RollbackOf
      <4>3. Contract!Undo
        BY <2>1, <3>1, <4>1, <4>2 DEF Contract!Undo
      <4> QED BY <4>3 DEF Contract!Next
    <3>5. CASE RevertSavePrevious(h)
      <4>1. UnderWay' = UnderWay /\ current' = current
        BY <1>0, <3>1, <3>5 DEF RevertSavePrevious, GoTo, Return, TypeOK, RollbackOf
      <4> QED BY <2>1, <4>1 DEF Contract!rolloutVars
    <3> QED BY <3>2, <3>3, <3>4, <3>5 DEF RevertStep
  <2> QED BY <2>1, <2>3, <2>4
<1>8. CASE InstallMark(h)
  <2>1. /\ job[h] = "install" /\ at[h] = "done" /\ marker' = req[h] /\ current' = current
        /\ outcome'.status = "started" /\ proc' = "serve" /\ marker' # NoMarker
    BY <1>0, <1>8, NoMarkerAssumption DEF InstallMark, Serving, mainVars, storeVars, Row, Updates
  <2>2. current = req[h].to
    BY <1>0, <2>1 DEF Preparing, Placed
  <2>3. UnderWay' = UnderWay
    BY <1>2, <2>1, <2>2 DEF Shows, TrialOf
  <2> QED BY <1>2, <2>1, <2>3 DEF Contract!rolloutVars
<1>9. CASE InstallFails(h) \/ InstallMarkFails(h)
  <2>1. /\ job[h] \in {"download", "install"} /\ marker' = NoMarker /\ current' = current
        /\ job'[h] = "idle" /\ \A g \in Handlers \ {h} : job'[g] = job[g]
        /\ outcome'.status \in {"started", "failed"}
    BY <1>0, <1>2, <1>9 DEF InstallFails, InstallMarkFails, Serving, storeVars, Row
  <2>2. UnderWay' = NoMarker
    BY <1>3, <2>1 DEF Shows
  <2>3. Contract!Truthful("failed", TRUE, UnderWay.stage)
    BY <1>2, <2>1 DEF Contract!Truthful
  <2>4. Contract!End
    BY <1>2, <2>1, <2>2, <2>3 DEF Contract!End
  <2> QED BY <2>4 DEF Contract!Next
<1>10. CASE InstallReply(h)
  <2>1. /\ job[h] = "reply" /\ job'[h] = "idle" /\ UNCHANGED <<marker, current, outcome>>
        /\ proc = "serve" /\ proc' = "serve" /\ \A g \in Handlers \ {h} : job'[g] = job[g]
    BY <1>0, <1>10 DEF InstallReply, Serving, mainVars, storeVars, dbVars
  <2>2. CASE marker # NoMarker
    BY <2>1, <2>2 DEF Shows, TrialOf, Contract!rolloutVars
  <2>3. CASE marker = NoMarker
    <3>1. UnderWay = NoMarker /\ UnderWay' = NoMarker
      BY <1>0, <1>3, <2>1, <2>3 DEF Shows
    <3> QED BY <2>1, <3>1 DEF Contract!rolloutVars
  <2> QED BY <2>2, <2>3
<1>11. CASE RollbackDone(h) \/ RollbackFails(h)
  <2>1. /\ job[h] = "rollback" /\ at[h] = "done" /\ job'[h] = "idle" /\ UNCHANGED <<marker, current>>
        /\ \A g \in Handlers \ {h} : job'[g] = job[g]
        /\ outcome' = outcome \/ outcome'.status = "rolled_back"
    BY <1>0, <1>11 DEF RollbackDone, RollbackFails, Serving, storeVars, dbVars, Row, Working
  <2>2. marker = NoMarker /\ UnderWay = RollbackOf(h) /\ UnderWay # NoMarker /\ UnderWay' = NoMarker
    BY <1>0, <1>3, <2>1 DEF Shows, Preparing
  <2>3. Contract!Truthful("rolled_back", TRUE, UnderWay.stage)
    BY <2>1, <2>2 DEF RollbackOf, Contract!Truthful
  <2>4. Contract!End
    BY <2>1, <2>2, <2>3 DEF Contract!End
  <2> QED BY <2>4 DEF Contract!Next
<1> QED BY <1>4, <1>5, <1>6, <1>7, <1>8, <1>9, <1>10, <1>11 DEF Request, HandlerStep, Contract!Next

LEMMA SelfContractNext ==
  ASSUME Undisturbed, UnderWayInv, UnderWayInv', Shows, Shows', [Next]_vars
  PROVE  [Contract!Next]_(Contract!rolloutVars)
<1>1. CASE UNCHANGED vars
  BY <1>1 DEF vars, storeVars, mainVars, dbVars, httpVars, Contract!rolloutVars, UnderWay,
              Preparers, Reverters, TrialOf, RollbackOf
<1> QED BY <1>1, StartupKeepsContract, RequestKeepsContract DEF Next

(* The agent's own update implements Rollout, from the request over every  *)
(* restart to the verdict of the new binary or of the boot guard: only the *)
(* release it left and its goal ever serve, it goes back at most once, and *)
(* the row that ends it says what happened.                                *)
THEOREM SelfUpdateImplementsRollout ==
  ASSUME Undisturbed PROVE Spec => KeepsRolloutContract
<1>1. UnderWayInv => Shows
  BY UndisturbedShows DEF Undisturbed, UnderWayInv, UndisturbedInv
<1>2. UnderWayInv /\ UnderWayInv' /\ Shows /\ Shows' /\ [Next]_vars
        => [Contract!Next]_(Contract!rolloutVars)
  BY SelfContractNext
<1>3. Init => Contract!Init
  BY SelfContractInit DEF Undisturbed
<1> QED BY <1>1, <1>2, <1>3, UnderWaySafe, PTL DEF Spec, KeepsRolloutContract, Contract!Spec

-----------------------------------------------------------------------------
(* What follows from Rollout alone follows for every manager that keeps it. *)
Promise == INSTANCE RolloutProofs WITH
  Releases <- Versions, None <- NoVersion, Idle <- NoMarker, Revertible <- TRUE,
  live <- current, job <- UnderWay, report <- [status |-> outcome.status, clean |-> TRUE]

LEMMA UpdateKeepsPromise == Contract!Spec => Contract!OnlyTheJobSwitches /\ Contract!ReportsAreTrue
<1>1. Contract!Init => Promise!Init
  BY DEF Contract!Init, Promise!Init
<1>2. [Contract!Next]_(Contract!rolloutVars) => [Promise!Next]_(Promise!rolloutVars)
  BY DEF Contract!Next, Contract!Begin, Contract!Revert, Contract!Switch, Contract!Undo,
         Contract!End, Contract!Truthful, Contract!rolloutVars, Promise!Next, Promise!Begin,
         Promise!Revert, Promise!Switch, Promise!Undo, Promise!End, Promise!Truthful,
         Promise!rolloutVars
<1>3. Contract!Spec => Promise!Spec
  BY <1>1, <1>2, PTL DEF Contract!Spec, Promise!Spec
<1>4. Promise!Spec => Promise!OnlyTheJobSwitches /\ Promise!ReportsAreTrue
  BY Promise!OnlyJobsSwitch, Promise!RowsAreTrue
<1> QED BY <1>3, <1>4, PTL
        DEF Promise!OnlyTheJobSwitches, Contract!OnlyTheJobSwitches, Promise!ReportsAreTrue,
            Contract!ReportsAreTrue, Promise!rolloutVars, Contract!rolloutVars

(* Nothing but an update or a rollback that was asked for changes what the *)
(* agent is started from, and its rows are true of that when written.      *)
THEOREM SelfUpdateRowsAreTrue ==
  ASSUME Undisturbed
  PROVE  Spec => Contract!OnlyTheJobSwitches /\ Contract!ReportsAreTrue
  BY UpdateKeepsPromise, SelfUpdateImplementsRollout, PTL DEF KeepsRolloutContract
=============================================================================
