-------------------------- MODULE CoreServiceProofs --------------------------
(***************************************************************************)
(* Proofs about CoreService: what an update and a switch of QRX Core keep, *)
(* whichever calls fail, however often the node and the agent die and the  *)
(* guardian restarts the node.                                             *)
(***************************************************************************)
EXTENDS CoreService, ReleaseStoreProofs

USE DEF Pointer, Ready

(* An operation under way has a task, and the guardian that means to       *)
(* restart the node has budget left.                                       *)
CoreInv ==
  /\ CoreTypeOK
  /\ \A h \in Callers : phase[h] # "idle" => task[h] \in Tasks
  /\ alarm = TRUE => restarts < MaxRestarts

(* A node that comes up executes what "current" names.                     *)
LEMMA BootedType == ASSUME TypeOK PROVE Booted \in Pointer /\ Booted \in {current, NoVersion}
  BY DEF TypeOK, Booted

(* The node that runs when the agent starts is the installed one.          *)
LEMMA CoreInit == Init => CoreInv
<1> SUFFICES ASSUME Init PROVE CoreInv
  OBVIOUS
<1>1. TypeOK
  BY InitTypeOK DEF Init
<1>2. /\ unit \in {"active", "stopped"} /\ core \in Pointer
      /\ deaths \in 0 .. MaxDeaths /\ crashes \in 0 .. MaxCrashes /\ restarts \in 0 .. MaxRestarts
  BY <1>1, BootedType, NodeAssumption DEF Init
<1>3. "idle" \in Operations
  BY DEF Operations
<1>4. /\ phase \in [Callers -> Operations] /\ task \in [Callers -> Tasks \cup {NoTask}]
      /\ clean \in [Callers -> BOOLEAN] /\ alarm = FALSE /\ \A h \in Callers : phase[h] = "idle"
  BY <1>3 DEF Init
<1>5. log \in Outcomes
  BY DEF Init, Outcomes
<1> QED BY <1>1, <1>2, <1>4, <1>5 DEF CoreInv, CoreTypeOK

(* What the manager does to the store is a step of the store, or none.     *)
LEMMA StoreTurns ==
  ASSUME CoreInv, [Next]_vars
  PROVE  AgentCrash \/ UNCHANGED storeVars \/ \E h \in Callers : Begin(h) \/ Continue(h)
<1> DEFINE Turn(h) == UNCHANGED storeVars \/ Begin(h) \/ Continue(h)
<1>1. CASE UNCHANGED vars
  BY <1>1 DEF vars, storeVars
<1>2. CASE Node \/ Guard
  BY <1>2 DEF Node, NodeDies, NodeRespawns, Guard, GuardianSeesTrouble, GuardianRestarts
<1>3. ASSUME NEW h \in Callers, Request(h) PROVE Turn(h)
  BY <1>3 DEF Request, SwitchVersion, Update, Begin
<1>4. ASSUME NEW h \in Callers, Working(h) PROVE Turn(h)
  <2>1. task[h] \in Tasks => task[h].to \in Versions /\ task[h].from \in Pointer
    BY DEF Tasks
  <2>2. phase[h] # "idle" => task[h] \in Tasks
    BY DEF CoreInv
  <2>3. CASE SwitchStop(h)
    BY <2>1, <2>2, <2>3 DEF SwitchStop, Begin
  <2>4. CASE Start(h)
    BY <2>1, <2>2, <2>4 DEF Start, Begin
  <2>5. CASE ProbeFails(h)
    BY <2>1, <2>2, <2>5 DEF ProbeFails, Begin
  <2>6. CASE ProbePasses(h)
    BY <2>6 DEF ProbePasses, Begin
  <2>7. CASE StoreStep(h)
    BY <2>7 DEF StoreStep
  <2> QED BY <1>4, <2>3, <2>4, <2>5, <2>6, <2>7
          DEF Working, SwitchFails, SwitchDone, UpdateFails, UpdatePromoted, UpdateStop, Commit,
              UndoPromoted, UndoStop, UndoStart, UndoRecord
<1> QED BY <1>1, <1>2, <1>3, <1>4 DEF Next

LEMMA StoreSteps == ASSUME CoreInv, [Next]_vars PROVE [StoreNext]_storeVars
  BY StoreTurns DEF AgentCrash, StoreNext

(* A caller moves on, or is done with its task.                            *)
LEMMA GoOnTyped ==
  ASSUME CoreInv, NEW h \in Callers, NEW next \in Operations, Go(h, next)
  PROVE  /\ phase' \in [Callers -> Operations]
         /\ \A g \in Callers \ {h} : phase'[g] = phase[g]
         /\ phase'[h] = next
  BY DEF Go, CoreInv, CoreTypeOK

LEMMA Moves ==
  ASSUME CoreInv, NEW h \in Callers, NEW next \in Operations, GoOn(h, next),
         phase[h] # "idle", TypeOK', service' \in {"active", "stopped"} \X Pointer
  PROVE  CoreInv'
<1>1. /\ phase' \in [Callers -> Operations] /\ UNCHANGED <<task, clean, log, alarm, bounds>>
      /\ \A g \in Callers : phase'[g] # "idle" => phase[g] # "idle"
  BY GoOnTyped DEF GoOn
<1> QED BY <1>1 DEF CoreInv, CoreTypeOK, bounds, service, Tasks, Outcomes

LEMMA Finishes ==
  ASSUME CoreInv, NEW h \in Callers, Finish(h), log' \in Outcomes, UNCHANGED <<alarm, bounds>>,
         TypeOK', service' \in {"active", "stopped"} \X Pointer
  PROVE  CoreInv'
<1>1. "idle" \in Operations /\ Go(h, "idle")
  BY DEF Operations, Finish
<1>2. /\ phase' \in [Callers -> Operations] /\ phase'[h] = "idle"
      /\ \A g \in Callers \ {h} : phase'[g] = phase[g]
  BY <1>1, GoOnTyped
<1>3. /\ task' = [task EXCEPT ![h] = NoTask] /\ clean' = [clean EXCEPT ![h] = TRUE]
  BY DEF Finish
<1>4. /\ task' \in [Callers -> Tasks \cup {NoTask}] /\ clean' \in [Callers -> BOOLEAN]
      /\ \A g \in Callers \ {h} : task'[g] = task[g]
  BY <1>3 DEF CoreInv, CoreTypeOK
<1> QED BY <1>2, <1>4 DEF CoreInv, CoreTypeOK, bounds, service, Tasks, Outcomes

LEMMA Begins1 ==
  ASSUME CoreInv, NEW h \in Callers, NEW v \in Versions, NEW next \in Operations,
         task' = [task EXCEPT ![h] = [from |-> current, to |-> v]], Go(h, next),
         UNCHANGED <<clean, log, alarm, bounds, service>>, TypeOK'
  PROVE  CoreInv'
<1>1. /\ phase' \in [Callers -> Operations] /\ \A g \in Callers \ {h} : phase'[g] = phase[g]
  BY GoOnTyped
<1>2. [from |-> current, to |-> v] \in Tasks
  BY DEF Tasks, CoreInv, CoreTypeOK, TypeOK
<1>3. /\ task' \in [Callers -> Tasks \cup {NoTask}] /\ task'[h] \in Tasks
      /\ \A g \in Callers \ {h} : task'[g] = task[g]
  BY <1>2 DEF CoreInv, CoreTypeOK
<1> QED BY <1>1, <1>3 DEF CoreInv, CoreTypeOK, bounds, service, Outcomes, Tasks

LEMMA UndoFails ==
  ASSUME CoreInv, NEW h \in Callers, UndoGoesWrong(h), phase[h] # "idle",
         TypeOK', service' \in {"active", "stopped"} \X Pointer
  PROVE  CoreInv'
<1>1. "undo.record" \in Operations /\ Go(h, "undo.record")
  BY DEF Operations, UndoGoesWrong
<1>2. /\ phase' \in [Callers -> Operations] /\ \A g \in Callers \ {h} : phase'[g] = phase[g]
  BY <1>1, GoOnTyped
<1>3. clean' \in [Callers -> BOOLEAN] /\ UNCHANGED <<task, log, alarm, bounds>>
  BY DEF UndoGoesWrong, CoreInv, CoreTypeOK
<1> QED BY <1>2, <1>3 DEF CoreInv, CoreTypeOK, bounds, service, Outcomes, Tasks

(* systemctl leaves the service in one of its states, failing or not.      *)
LEMMA ServiceType ==
  ASSUME CoreInv
  PROVE  /\ UNCHANGED service => service' \in {"active", "stopped"} \X Pointer
         /\ SystemctlStop \/ SystemctlStart => service' \in {"active", "stopped"} \X Pointer
         /\ \A call : StopFails(call) \/ StartFails(call)
                         => service' \in {"active", "stopped"} \X Pointer
  BY BootedType DEF CoreInv, CoreTypeOK, SystemctlStop, SystemctlStart, StopFails, StartFails, service

LEMMA RowType ==
  ASSUME CoreInv, NEW h \in Callers, phase[h] # "idle",
         NEW status \in {"succeeded", "rolled_back"}, RecordRow(h, status)
  PROVE  log' \in Outcomes
<1>1. task[h].from \in Pointer /\ task[h].to \in Versions /\ clean[h] \in BOOLEAN /\ log \in Outcomes
  BY DEF CoreInv, CoreTypeOK, Tasks
<1> QED BY <1>1 DEF RecordRow, Outcomes

(* Every step of the node, the guardian, the manager and its store, a      *)
(* failing call and a crash leave everything well formed.                  *)
LEMMA CoreNext == CoreInv /\ [Next]_vars => CoreInv'
<1> SUFFICES ASSUME CoreInv, [Next]_vars PROVE CoreInv'
  OBVIOUS
<1>0. TypeOK'
  BY StoreSteps, StepTypeOK DEF CoreInv, CoreTypeOK
<1>1. CASE UNCHANGED vars
  BY <1>0, <1>1 DEF CoreInv, CoreTypeOK, vars, manager, service, bounds, Tasks, Outcomes
<1>2. CASE Node \/ Guard
  <2> USE NodeAssumption DEF CoreInv, CoreTypeOK, manager, service, bounds
  <2>1. CASE NodeDies
    BY <1>0, <2>1 DEF NodeDies
  <2>2. CASE NodeRespawns
    BY <1>0, <2>2, BootedType DEF NodeRespawns
  <2>3. CASE GuardianSeesTrouble
    BY <1>0, <2>3 DEF GuardianSeesTrouble
  <2>4. CASE GuardianRestarts
    <3>1. restarts < MaxRestarts /\ alarm' = FALSE
      BY <2>4, Zenon DEF GuardianRestarts
    <3>2. restarts' \in 0 .. MaxRestarts
      BY <2>4, <3>1 DEF GuardianRestarts
    <3>3. unit' = "active" /\ core' \in Pointer /\ UNCHANGED <<manager, deaths, crashes>>
      BY <2>4, BootedType DEF GuardianRestarts
    <3> QED BY <1>0, <3>1, <3>2, <3>3
  <2> QED BY <1>2, <2>1, <2>2, <2>3, <2>4 DEF Node, Guard
<1>3. CASE AgentCrash
  <2>1. crashes' \in 0 .. MaxCrashes /\ UNCHANGED <<service, log, deaths, restarts>>
    BY <1>3, NodeAssumption DEF AgentCrash, CoreInv, CoreTypeOK
  <2>2. "idle" \in Operations
    BY DEF Operations
  <2>3. /\ phase' \in [Callers -> Operations] /\ task' \in [Callers -> Tasks \cup {NoTask}]
        /\ clean' \in [Callers -> BOOLEAN] /\ alarm' = FALSE
        /\ \A h \in Callers : phase'[h] = "idle"
    BY <1>3, <2>2 DEF AgentCrash
  <2> QED BY <1>0, <2>1, <2>3 DEF CoreInv, CoreTypeOK, service
<1>4. ASSUME NEW h \in Callers, Request(h) PROVE CoreInv'
  <2>1. PICK v \in Versions : SwitchVersion(h, v) \/ Update(h, v)
    BY <1>4 DEF Request
  <2>2. {"switch", "install"} \subseteq Operations
    BY DEF Operations
  <2> QED BY <1>0, <2>1, <2>2, Begins1 DEF SwitchVersion, Update
<1>5. ASSUME NEW h \in Callers, Working(h) PROVE CoreInv'
  <2> USE ServiceType, Moves, Finishes, UndoFails, <1>0
  <2>0. log \in Outcomes /\ \A next \in {"activate", "start", "promoted", "probe", "undo", "commit",
            "undo.stop", "undo.start", "undo.record"} : next \in Operations
    BY DEF Operations, CoreInv, CoreTypeOK
  <2>1. CASE SwitchStop(h)
    BY <2>0, <2>1 DEF SwitchStop, GiveUp
  <2>2. CASE SwitchFails(h) \/ UpdateFails(h)
    BY <2>0, <2>2 DEF SwitchFails, UpdateFails, GiveUp
  <2>3. CASE SwitchDone(h)
    BY <2>0, <2>3 DEF SwitchDone
  <2>4. CASE UpdatePromoted(h)
    BY <2>0, <2>4 DEF UpdatePromoted, GiveUp
  <2>5. CASE UpdateStop(h)
    BY <2>0, <2>5 DEF UpdateStop, GiveUp
  <2>6. CASE Start(h)
    BY <2>0, <2>6 DEF Start
  <2>7. CASE ProbePasses(h) \/ ProbeFails(h)
    BY <2>0, <2>7 DEF ProbePasses, ProbeFails
  <2>8. CASE Commit(h)
    BY <2>0, <2>8, RowType DEF Commit
  <2>9. CASE UndoPromoted(h)
    BY <2>0, <2>9 DEF UndoPromoted
  <2>10. CASE UndoStop(h)
    BY <2>0, <2>10 DEF UndoStop
  <2>11. CASE UndoStart(h)
    BY <2>0, <2>11 DEF UndoStart
  <2>12. CASE UndoRecord(h)
    BY <2>0, <2>12, RowType DEF UndoRecord
  <2>13. CASE StoreStep(h)
    BY <2>13 DEF StoreStep, CoreInv, CoreTypeOK, service, manager, bounds, Tasks, Outcomes
  <2> QED BY <1>5, <2>1, <2>2, <2>3, <2>4, <2>5, <2>6, <2>7, <2>8, <2>9, <2>10, <2>11, <2>12,
             <2>13 DEF Working
<1> QED BY <1>1, <1>2, <1>3, <1>4, <1>5 DEF Next

(* The state of QRX Core's updates and of the service stays well formed,   *)
(* for any number of callers at once.                                      *)
THEOREM CoreTypeCorrect == Spec => []CoreTypeOK
<1>1. CoreInv => CoreTypeOK
  BY DEF CoreInv
<1> QED BY <1>1, CoreInit, CoreNext, PTL DEF Spec

-----------------------------------------------------------------------------
(* One caller at a time takes turns with itself: its store is one of       *)
(* SerialSpec, and what was proved of those holds of it.                   *)
LEMMA OneCaller ==
  ASSUME NEW h, Callers = {h} PROVE Spec => SerialSpec
<1>1. OneAtATime'
  BY DEF OneAtATime
<1>2. Init => StoreInit
  BY DEF Init
<1>3. CoreInv /\ [Next]_vars => [StoreNext /\ OneAtATime']_storeVars
  BY StoreSteps, <1>1
<1> QED BY <1>2, <1>3, CoreInit, CoreNext, PTL DEF Spec, SerialSpec

(* An update or a switch of QRX Core never loses the release it replaces.  *)
THEOREM CorePromotionSafe ==
  ASSUME NEW h, Callers = {h} PROVE Spec => PromotionKeepsPredecessor
  BY OneCaller, PromotionSafe, PTL

(* The steps of the store between two of the manager's.                    *)
Staging == StageSteps \cup ExtractSteps \cup DiscardSteps \cup PromoteSteps

USE DEF StageSteps, ExtractSteps, DiscardSteps, PromoteSteps, SwitchSteps, RevertSteps,
        PruneSteps, Staging

(* The release that is being staged and promoted is v.                     *)
Carries(h, v) ==
  /\ at[h] \in {"stage.prev", "stage.dir", "stage.ptr", "promote.cur", "promote.prev",
                "promote.act"} => ver[h] = v
  /\ at[h] \in {"staged", "extract", "filled"} => staged = v
  /\ at[h] \in {"promote.unstage", "done"} => current = v

(* PromoteVersion goes to v.                                               *)
SwitchesTo(h, v) ==
  /\ at[h] \in SwitchSteps => ver[h] = v
  /\ at[h] = "done" => current = v

(* An operation of the store stays within its steps until it returns.      *)
LEMMA StoreEffect ==
  ASSUME TypeOK, NEW h \in Callers, NEW v, Continue(h)
  PROVE  /\ at[h] \notin Ready
         /\ at[h] \in Staging => at'[h] \in Staging \cup Ready
         /\ at[h] \in Staging /\ Carries(h, v) => Carries(h, v)'
         /\ at[h] \in SwitchSteps => at'[h] \in SwitchSteps \cup Ready
         /\ at[h] \in SwitchSteps /\ SwitchesTo(h, v) => SwitchesTo(h, v)'
         /\ at[h] \in PruneSteps => at'[h] \in PruneSteps \cup Ready /\ current' = current
<1> USE DEF TypeOK, GoTo, Return, pointers, Carries, SwitchesTo
<1>1. CASE StageStep(h)
  BY <1>1 DEF StageStep, StageReadPrevious, StageMakeDir, StageWritePointer, ExtractBegin,
              ExtractEnd, ExtractFails
<1>2. CASE DiscardStep(h)
  BY <1>2 DEF DiscardStep, DiscardReadStaged, DiscardRemoveFiles, DiscardRemoveDir, DiscardUnstage
<1>3. CASE PromoteStep(h)
  BY <1>3, OwnerAssumption DEF PromoteStep, PromoteReadStaged, PromoteReadCurrent,
              PromoteSavePrevious, PromoteActivate, PromoteUnstage
<1>4. CASE SwitchStep(h)
  BY <1>4 DEF SwitchStep, SwitchReadCurrent, SwitchSavePrevious, SwitchActivate
<1>5. CASE RevertStep(h)
  BY <1>5 DEF RevertStep, RevertReadCurrent, RevertActivate, RevertSavePrevious
<1>6. CASE PruneStep(h)
  BY <1>6 DEF PruneStep, PruneSpareCurrent, PruneSparePrevious, PruneSpareStaged, Spare,
              PruneRemoveFiles, PruneRemoveDir
<1>7. CASE BootstrapWritePointer(h)
  BY <1>7 DEF BootstrapWritePointer
<1>8. CASE Fault(h)
  BY <1>8, OwnerAssumption, FaultyAssumption DEF Fault, Steps
<1> QED BY <1>1, <1>2, <1>3, <1>4, <1>5, <1>6, <1>7, <1>8 DEF Continue

(* PromoteVersion begins, or finds no such release.                        *)
LEMMA SwitchBegins ==
  ASSUME TypeOK, NEW h \in Callers, NEW v \in Versions, SwitchStat(h, v)
  PROVE  /\ at'[h] \in SwitchSteps \cup {"error"} /\ SwitchesTo(h, v)'
         /\ current' = current
  BY DEF SwitchStat, TypeOK, Return, GoTo, pointers, SwitchesTo

(* Where a caller may stand in the store in each phase of its operation.   *)
Control(h) ==
  /\ phase[h] \in {"idle", "switch", "promoted", "start", "probe", "undo.stop", "undo.start",
                   "undo.record"} => at[h] \in Ready
  /\ phase[h] = "install" => at[h] \in Staging \cup Ready
  /\ phase[h] \in {"activate", "undo"} => at[h] \in SwitchSteps \cup Ready
  /\ phase[h] = "commit" => at[h] \in PruneSteps \cup Ready

(* On the way back: PromoteVersion goes to the release the operation left, *)
(* and once it is done "current" names that one; the node that is started  *)
(* then executes it, also when the guardian was faster.                    *)
Undoing(h) ==
  /\ phase[h] = "undo" => SwitchesTo(h, task[h].from)
  /\ phase[h] \in {"undo.stop", "undo.start"} => current = task[h].from
  /\ phase[h] = "undo.start" => core \in {current, NoVersion}
  /\ phase[h] = "undo.record" /\ clean[h] = TRUE /\ task[h].from # NoVersion =>
       current = task[h].from /\ core \in {current, NoVersion}

(* An operation that has not begun stands nowhere.                         *)
LEMMA WayInit == ASSUME NEW h, Callers = {h} PROVE Init => Control(h) /\ Undoing(h)
  BY DEF Init, StoreInit, Control, Undoing

LEMMA WayNext ==
  ASSUME NEW h, Callers = {h}, CoreInv, Control(h), Undoing(h), [Next]_vars
  PROVE  Control(h)' /\ Undoing(h)'
<1> USE DEF CoreInv, CoreTypeOK, Control, Undoing, GoOn, Go
<1>0. /\ at \in [Callers -> Steps] /\ TypeOK
      /\ phase[h] # "idle" => task[h] \in Tasks /\ task[h].from \in Pointer /\ task[h].to \in Versions
  BY DEF TypeOK, Tasks
<1>1. CASE UNCHANGED vars
  BY <1>1 DEF vars, storeVars, service, manager, SwitchesTo
<1>2. CASE Node \/ Guard
  <2>1. UNCHANGED <<storeVars, manager>> /\ core' \in {core, current, NoVersion}
    BY <1>0, <1>2, BootedType DEF Node, NodeDies, NodeRespawns, Guard, GuardianSeesTrouble,
                            GuardianRestarts, service
  <2> QED BY <2>1 DEF storeVars, manager, SwitchesTo
<1>3. CASE AgentCrash
  BY <1>3 DEF AgentCrash, Crash
<1>4. CASE Request(h)
  BY <1>0, <1>4 DEF Request, SwitchVersion, Update, StageReadCurrent, Begins, storeVars, GoTo,
                    Return
<1>5. CASE Working(h)
  <2> USE <1>0
  <2>1. CASE SwitchStop(h)
    BY <2>1, SwitchBegins DEF SwitchStop, GiveUp, Finish, storeVars
  <2>2. CASE SwitchFails(h) \/ UpdateFails(h)
    BY <2>2 DEF SwitchFails, UpdateFails, GiveUp, Finish, storeVars
  <2>3. CASE SwitchDone(h)
    BY <2>3 DEF SwitchDone, storeVars
  <2>4. CASE UpdatePromoted(h)
    BY <2>4 DEF UpdatePromoted, GiveUp, Finish, storeVars
  <2>5. CASE UpdateStop(h)
    BY <2>5 DEF UpdateStop, GiveUp, Finish, storeVars
  <2>6. CASE Start(h)
    BY <2>6, SwitchBegins DEF Start, storeVars
  <2>7. CASE ProbePasses(h)
    BY <2>7 DEF ProbePasses, PruneList, GoTo, Begins
  <2>8. CASE ProbeFails(h)
    BY <2>8, SwitchBegins DEF ProbeFails, storeVars
  <2>9. CASE Commit(h) \/ UndoRecord(h)
    BY <2>9 DEF Commit, UndoRecord, Finish, storeVars
  <2>10. CASE UndoPromoted(h)
    BY <2>10 DEF UndoPromoted, UndoGoesWrong, storeVars, SwitchesTo
  <2>11. CASE UndoStop(h)
    BY <2>11 DEF UndoStop, UndoGoesWrong, storeVars, SystemctlStop
  <2>12. CASE UndoStart(h)
    BY <2>12, BootedType DEF UndoStart, UndoGoesWrong, storeVars, SystemctlStart
  <2>13. CASE StoreStep(h)
    <3>1. UNCHANGED <<service, manager>> /\ Continue(h)
      BY <2>13 DEF StoreStep
    <3>2. at[h] \notin Ready
      BY <3>1, StoreEffect
    <3>3. phase[h] \in {"install", "activate", "undo", "commit"}
      BY <3>2 DEF Operations
    <3> QED BY <3>1, <3>2, <3>3, StoreEffect DEF manager, service
  <2> QED BY <1>5, <2>1, <2>2, <2>3, <2>4, <2>5, <2>6, <2>7, <2>8, <2>9, <2>10, <2>11, <2>12,
             <2>13 DEF Working
<1> QED BY <1>1, <1>2, <1>3, <1>4, <1>5 DEF Next

(* A row comes from the step that ends an operation.                       *)
LEMMA RowsComeFrom ==
  ASSUME NEW h, Callers = {h}, [Next]_vars, log' # log
  PROVE  \/ Commit(h) /\ RecordRow(h, "succeeded")
         \/ UndoRecord(h) /\ RecordRow(h, "rolled_back")
<1>1. Commit(h) \/ UndoRecord(h)
  BY DEF vars, manager, Next, Node, NodeDies, NodeRespawns, Guard, GuardianSeesTrouble,
         GuardianRestarts, AgentCrash, Request, SwitchVersion, Update, Working, SwitchStop,
         SwitchFails, SwitchDone, UpdateFails, UpdatePromoted, UpdateStop, Start, ProbePasses,
         ProbeFails, UndoPromoted, UndoStop, UndoStart, StoreStep, GoOn, GiveUp, UndoGoesWrong
<1> QED BY <1>1 DEF Commit, UndoRecord

(* A rollback that is recorded without an error of its own has put back    *)
(* pointer and process, whatever the guardian, the node and failing calls  *)
(* did in between.                                                         *)
THEOREM RollbackAlwaysRestores ==
  ASSUME NEW h, Callers = {h} PROVE Spec => RollbackRestores
<1> DEFINE Inv == CoreInv /\ Control(h) /\ Undoing(h)
           Restored == log' # log /\ log'.status = "rolled_back" /\ log'.clean /\ log'.from # NoVersion =>
                         current = log'.from /\ core \in {log'.from, NoVersion}
<1>1. Init => Inv
  BY CoreInit, WayInit
<1>2. Inv /\ [Next]_vars => Inv'
  BY CoreNext, WayNext
<1>3. ASSUME Inv, [Next]_vars, log' # log, log'.status = "rolled_back", log'.clean,
             log'.from # NoVersion
      PROVE  current = log'.from /\ core \in {log'.from, NoVersion}
  <2>1. UndoRecord(h)
    BY <1>3, RowsComeFrom DEF RecordRow
  <2>2. clean[h] \in BOOLEAN /\ log' = [status |-> "rolled_back", from |-> task[h].from,
                                       to |-> task[h].to, clean |-> clean[h]]
    BY <1>3, <2>1 DEF UndoRecord, RecordRow, CoreInv, CoreTypeOK
  <2> QED BY <1>3, <2>1, <2>2 DEF UndoRecord, Undoing
<1>4. Inv /\ [Next]_vars => [Restored]_vars
  BY <1>3
<1> QED BY <1>1, <1>2, <1>4, PTL DEF Spec, RollbackRestores

-----------------------------------------------------------------------------
(* Once an operation has started the node, on the way there or back, no    *)
(* step but its own stop could take back the order to run it.              *)
Ordered(h) ==
  /\ phase[h] \in {"probe", "commit"} => unit = "active"
  /\ phase[h] = "undo.record" /\ clean[h] = TRUE /\ task[h].from # NoVersion => unit = "active"

LEMMA OrderedInit == ASSUME NEW h, Callers = {h} PROVE Init => Ordered(h)
  BY DEF Init, Ordered

LEMMA OrderedNext ==
  ASSUME NEW h, Callers = {h}, CoreInv, Control(h), Ordered(h), [Next]_vars
  PROVE  Ordered(h)'
<1> USE DEF CoreInv, CoreTypeOK, Ordered, GoOn, Go
<1>1. CASE UNCHANGED vars
  BY <1>1 DEF vars, service, manager
<1>2. CASE Node \/ Guard
  <2>1. UNCHANGED manager /\ unit' \in {unit, "active"}
    BY <1>2 DEF Node, NodeDies, NodeRespawns, Guard, GuardianSeesTrouble, GuardianRestarts, service
  <2> QED BY <2>1 DEF manager
<1>3. CASE AgentCrash
  BY <1>3 DEF AgentCrash
<1>4. CASE Request(h)
  BY <1>4 DEF Request, SwitchVersion, Update
<1>5. CASE Working(h)
  <2>1. CASE SwitchStop(h) \/ SwitchFails(h) \/ SwitchDone(h)
    BY <2>1 DEF SwitchStop, SwitchFails, SwitchDone, GiveUp, Finish
  <2>2. CASE UpdateFails(h) \/ UpdatePromoted(h) \/ UpdateStop(h)
    BY <2>2 DEF UpdateFails, UpdatePromoted, UpdateStop, GiveUp, Finish
  <2>3. CASE Start(h)
    BY <2>3 DEF Start, SystemctlStart
  <2>4. CASE ProbePasses(h) \/ ProbeFails(h)
    BY <2>4 DEF ProbePasses, ProbeFails, service
  <2>5. CASE Commit(h) \/ UndoRecord(h)
    BY <2>5 DEF Commit, UndoRecord, Finish
  <2>6. CASE UndoPromoted(h) \/ UndoStop(h)
    BY <2>6 DEF UndoPromoted, UndoStop, UndoGoesWrong
  <2>7. CASE UndoStart(h)
    BY <2>7 DEF UndoStart, UndoGoesWrong, SystemctlStart
  <2>8. CASE StoreStep(h)
    BY <2>8 DEF StoreStep, service, manager
  <2> QED BY <1>5, <2>1, <2>2, <2>3, <2>4, <2>5, <2>6, <2>7, <2>8 DEF Working
<1> QED BY <1>1, <1>2, <1>3, <1>4, <1>5 DEF Next

(* No row claims that a release was put to work and leaves qrxd.service    *)
(* stopped, whatever fails, dies or restarts the node in between.          *)
THEOREM RowsAlwaysMeanStarted ==
  ASSUME NEW h, Callers = {h} PROVE Spec => RowsMeanStarted
<1> DEFINE Inv == CoreInv /\ Control(h) /\ Undoing(h) /\ Ordered(h)
           Runs == log' # log /\ log'.clean /\ (log'.status = "rolled_back" => log'.from # NoVersion)
                     => unit = "active"
<1>1. Init => Inv
  BY CoreInit, WayInit, OrderedInit
<1>2. Inv /\ [Next]_vars => Inv'
  BY CoreNext, WayNext, OrderedNext
<1>3. ASSUME Inv, [Next]_vars, log' # log, log'.clean,
             log'.status = "rolled_back" => log'.from # NoVersion
      PROVE  unit = "active"
  <2>1. CASE Commit(h)
    BY <1>3, <2>1 DEF Commit, Ordered
  <2>2. CASE UndoRecord(h) /\ RecordRow(h, "rolled_back")
    <3>1. phase[h] = "undo.record" /\ clean[h] \in BOOLEAN
      BY <1>3, <2>2 DEF UndoRecord, CoreInv, CoreTypeOK
    <3>2. clean[h] = TRUE /\ task[h].from # NoVersion
      BY <1>3, <2>2, <3>1 DEF RecordRow
    <3> QED BY <1>3, <3>1, <3>2 DEF Ordered
  <2> QED BY <1>3, <2>1, <2>2, RowsComeFrom
<1>4. Inv /\ [Next]_vars => [Runs]_vars
  BY <1>3
<1> QED BY <1>1, <1>2, <1>4, PTL DEF Spec, RowsMeanStarted

-----------------------------------------------------------------------------
(* On the way there, with a guardian that does nothing: the release that   *)
(* is staged and promoted is the one the task names, the node is down when *)
(* it is started, so that what the probe judges is what "current" names.   *)
Trial(h) ==
  /\ phase[h] = "install" => Carries(h, task[h].to)
  /\ phase[h] = "activate" => SwitchesTo(h, task[h].to)
  /\ phase[h] \in {"promoted", "start", "probe", "commit"} => current = task[h].to
  /\ phase[h] \in {"activate", "start"} => unit = "stopped" /\ core = NoVersion
  /\ phase[h] \in {"probe", "commit"} => core \in {current, NoVersion}

LEMMA TrialInit == ASSUME NEW h, Callers = {h} PROVE Init => Trial(h)
  BY DEF Init, StoreInit, Trial

LEMMA TrialNext ==
  ASSUME NEW h, Callers = {h}, MaxRestarts = 0, CoreInv, Control(h), Trial(h), [Next]_vars
  PROVE  Trial(h)'
<1> USE DEF CoreInv, CoreTypeOK, Control, Trial, GoOn, Go
<1>0. /\ at \in [Callers -> Steps] /\ TypeOK
      /\ phase[h] # "idle" => task[h] \in Tasks /\ task[h].from \in Pointer /\ task[h].to \in Versions
  BY DEF TypeOK, Tasks
<1>1. CASE UNCHANGED vars
  BY <1>1 DEF vars, storeVars, service, manager, SwitchesTo, Carries
<1>2. CASE Node \/ Guard
  <2>1. alarm = FALSE
    BY NodeAssumption
  <2>2. ~GuardianRestarts
    BY <2>1, Zenon DEF GuardianRestarts
  <2>3. /\ UNCHANGED <<storeVars, unit, manager>>
        /\ core' # core => core' = NoVersion \/ (unit = "active" /\ core' = Booted)
    BY <1>2, <2>2 DEF Node, NodeDies, NodeRespawns, Guard, GuardianSeesTrouble, service
  <2> QED BY <1>0, <2>3, BootedType DEF storeVars, manager, SwitchesTo, Carries
<1>3. CASE AgentCrash
  BY <1>3 DEF AgentCrash
<1>4. CASE Request(h)
  <2>1. PICK v \in Versions : SwitchVersion(h, v) \/ Update(h, v)
    BY <1>4 DEF Request
  <2>2. CASE SwitchVersion(h, v)
    BY <2>2 DEF SwitchVersion
  <2>3. CASE Update(h, v)
    <3>1. phase'[h] = "install" /\ task'[h].to = v /\ StageReadCurrent(h, v)
      BY <2>3 DEF Update
    <3>2. Carries(h, v)'
      BY <1>0, <3>1 DEF StageReadCurrent, GoTo, Return, Carries, TypeOK
    <3> QED BY <3>1, <3>2 DEF Carries
  <2> QED BY <2>1, <2>2, <2>3
<1>5. CASE Working(h)
  <2> USE <1>0
  <2>1. CASE SwitchStop(h)
    BY <2>1, SwitchBegins DEF SwitchStop, GiveUp, Finish, SystemctlStop
  <2>2. CASE SwitchFails(h) \/ UpdateFails(h)
    BY <2>2 DEF SwitchFails, UpdateFails, GiveUp, Finish
  <2>3. CASE SwitchDone(h)
    BY <2>3 DEF SwitchDone, storeVars, service, SwitchesTo
  <2>4. CASE UpdatePromoted(h)
    BY <2>4 DEF UpdatePromoted, GiveUp, Finish, storeVars, service, Carries
  <2>5. CASE UpdateStop(h)
    BY <2>5 DEF UpdateStop, GiveUp, Finish, storeVars, SystemctlStop
  <2>6. CASE Start(h)
    BY <2>6, BootedType DEF Start, storeVars, SystemctlStart
  <2>7. CASE ProbePasses(h)
    BY <2>7 DEF ProbePasses, PruneList, pointers, service
  <2>8. CASE ProbeFails(h)
    BY <2>8 DEF ProbeFails
  <2>9. CASE Commit(h) \/ UndoRecord(h)
    BY <2>9 DEF Commit, UndoRecord, Finish
  <2>10. CASE UndoPromoted(h) \/ UndoStop(h) \/ UndoStart(h)
    BY <2>10 DEF UndoPromoted, UndoStop, UndoStart, UndoGoesWrong
  <2>11. CASE StoreStep(h)
    <3>1. UNCHANGED <<service, manager>> /\ Continue(h)
      BY <2>11 DEF StoreStep
    <3>2. at[h] \notin Ready
      BY <3>1, StoreEffect
    <3>3. phase[h] \in {"install", "activate", "undo", "commit"}
      BY <3>2 DEF Operations
    <3> QED BY <3>1, <3>2, <3>3, StoreEffect DEF manager, service
  <2> QED BY <1>5, <2>1, <2>2, <2>3, <2>4, <2>5, <2>6, <2>7, <2>8, <2>9, <2>10, <2>11 DEF Working
<1> QED BY <1>1, <1>2, <1>3, <1>4, <1>5 DEF Next

(* Where the guardian stays out of it, an update or a switch is recorded   *)
(* as succeeded only if nothing but its own release can be running: the    *)
(* probe judged the right binary, whatever failed and however often the    *)
(* node died.                                                              *)
THEOREM CoreSuccessAlwaysMeansRunning ==
  ASSUME NEW h, Callers = {h}, MaxRestarts = 0 PROVE Spec => CoreSuccessMeansRunning
<1> DEFINE Inv == CoreInv /\ Control(h) /\ Undoing(h) /\ Trial(h)
           Ran == log' # log /\ log'.status = "succeeded" => core \in {log'.to, NoVersion}
<1>1. Init => Inv
  BY CoreInit, WayInit, TrialInit
<1>2. Inv /\ [Next]_vars => Inv'
  BY CoreNext, WayNext, TrialNext
<1>3. ASSUME Inv, [Next]_vars, log' # log, log'.status = "succeeded"
      PROVE  core \in {log'.to, NoVersion}
  <2>1. Commit(h)
    BY <1>3, RowsComeFrom DEF RecordRow
  <2>2. log'.to = task[h].to
    BY <1>3, <2>1 DEF Commit, RecordRow
  <2> QED BY <1>3, <2>1, <2>2 DEF Commit, Trial
<1>4. Inv /\ [Next]_vars => [Ran]_vars
  BY <1>3
<1> QED BY <1>1, <1>2, <1>4, PTL DEF Spec, CoreSuccessMeansRunning

-----------------------------------------------------------------------------
(* Where "current" may be ahead of the node that runs: from the promotion  *)
(* to the stop that follows it, on the way there and on the way back.      *)
Serving(h) ==
  /\ phase[h] \notin {"install", "promoted", "undo", "undo.stop"} => core \in {current, NoVersion}
  /\ phase[h] = "install" /\ at[h] \notin {"promote.unstage", "done"} => core \in {current, NoVersion}
  /\ phase[h] = "undo" /\ at[h] # "done" => core \in {current, NoVersion}

LEMMA ServingInit == Init => \A h \in Callers : Serving(h)
<1> SUFFICES ASSUME Init PROVE \A h \in Callers : Serving(h)
  OBVIOUS
<1>1. core \in {current, NoVersion}
  BY InitTypeOK, BootedType DEF Init
<1>2. \A h \in Callers : phase[h] = "idle"
  BY DEF Init
<1> QED BY <1>1, <1>2 DEF Serving

(* "current" moves in the step that promotes, and in no other.             *)
LEMMA StoreMoves ==
  ASSUME TypeOK, NEW h \in Callers, Continue(h), "promote.unstage" \notin FaultyAt
  PROVE  /\ at[h] \in Staging /\ at'[h] \notin {"promote.unstage", "done"} =>
              at[h] # "promote.unstage" /\ current' = current
         /\ at[h] \in SwitchSteps /\ at'[h] # "done" => current' = current
<1> USE DEF TypeOK, GoTo, Return, pointers
<1>1. CASE StageStep(h)
  BY <1>1 DEF StageStep, StageReadPrevious, StageMakeDir, StageWritePointer, ExtractBegin,
              ExtractEnd, ExtractFails
<1>2. CASE DiscardStep(h)
  BY <1>2 DEF DiscardStep, DiscardReadStaged, DiscardRemoveFiles, DiscardRemoveDir, DiscardUnstage
<1>3. CASE PromoteStep(h)
  BY <1>3, OwnerAssumption DEF PromoteStep, PromoteReadStaged, PromoteReadCurrent,
              PromoteSavePrevious, PromoteActivate, PromoteUnstage
<1>4. CASE SwitchStep(h)
  BY <1>4 DEF SwitchStep, SwitchReadCurrent, SwitchSavePrevious, SwitchActivate
<1>5. CASE RevertStep(h)
  BY <1>5 DEF RevertStep, RevertReadCurrent, RevertActivate, RevertSavePrevious
<1>6. CASE PruneStep(h)
  BY <1>6 DEF PruneStep, PruneSpareCurrent, PruneSparePrevious, PruneSpareStaged, Spare,
              PruneRemoveFiles, PruneRemoveDir
<1>7. CASE BootstrapWritePointer(h)
  BY <1>7 DEF BootstrapWritePointer
<1>8. CASE Fault(h)
  BY <1>8 DEF Fault
<1> QED BY <1>1, <1>2, <1>3, <1>4, <1>5, <1>6, <1>7, <1>8 DEF Continue

LEMMA ServingNext ==
  ASSUME NEW h, Callers = {h}, MaxRestarts = 0, MaxCrashes = 0,
         {"seen", "stop", "undo.stop"} \cap FailingCalls = {}, "promote.unstage" \notin FaultyAt,
         CoreInv, Control(h), Undoing(h), Trial(h), Trial(h)', Undoing(h)', Serving(h), [Next]_vars
  PROVE  Serving(h)'
<1> USE DEF CoreInv, CoreTypeOK, Control, Serving, GoOn, Go
<1>0. /\ at \in [Callers -> Steps] /\ TypeOK /\ phase[h] \in Operations
  BY DEF TypeOK
<1>1. CASE UNCHANGED vars
  BY <1>1 DEF vars, storeVars, service, manager
<1>2. CASE Node \/ Guard
  <2>1. alarm = FALSE
    BY NodeAssumption
  <2>2. ~GuardianRestarts
    BY <2>1, Zenon DEF GuardianRestarts
  <2>3. UNCHANGED <<storeVars, manager>> /\ core' \in {core, current, NoVersion}
    BY <1>0, <1>2, <2>2, BootedType DEF Node, NodeDies, NodeRespawns, Guard, GuardianSeesTrouble, service
  <2> QED BY <2>3 DEF storeVars, manager
<1>3. ~AgentCrash
  BY NodeAssumption DEF AgentCrash
<1>4. CASE Request(h)
  BY <1>0, <1>4 DEF Request, SwitchVersion, Update, StageReadCurrent, Begins, storeVars, service,
                    pointers, GoTo, Return
<1>5. CASE Working(h)
  <2> USE <1>0
  <2>1. CASE SwitchStop(h)
    BY <2>1 DEF SwitchStop, StopFails, SystemctlStop
  <2>2. CASE SwitchFails(h) \/ UpdateFails(h)
    <3>1. core \in {current, NoVersion} /\ UNCHANGED <<storeVars, service>> /\ phase'[h] = "idle"
      BY <2>2 DEF SwitchFails, UpdateFails, GiveUp, Finish
    <3> QED BY <3>1 DEF storeVars, service
  <2>3. CASE SwitchDone(h)
    BY <2>3 DEF SwitchDone, storeVars, service
  <2>4. CASE UpdatePromoted(h) \/ UpdateStop(h)
    BY <2>4 DEF UpdatePromoted, UpdateStop, StopFails, SystemctlStop
  <2>5. CASE Start(h)
    <3>1. unit = "stopped" /\ core = NoVersion
      BY <2>5 DEF Start, Trial
    <3>2. core' \in {current, NoVersion} /\ current' = current
      BY <2>5, <3>1, BootedType DEF Start, StartFails, SystemctlStart, service, storeVars, SwitchStat,
                              pointers
    <3>3. phase'[h] \in {"probe", "undo", "undo.record"}
      BY <2>5 DEF Start
    <3> QED BY <3>2, <3>3
  <2>6. CASE ProbePasses(h) \/ ProbeFails(h)
    <3>1. core \in {current, NoVersion} /\ UNCHANGED core /\ current' = current
      BY <2>6 DEF ProbePasses, ProbeFails, service, storeVars, SwitchStat, PruneList, pointers
    <3>2. phase'[h] \in {"commit", "undo", "undo.record"}
      BY <2>6 DEF ProbePasses, ProbeFails
    <3> QED BY <3>1, <3>2
  <2>7. CASE Commit(h) \/ UndoRecord(h)
    BY <2>7 DEF Commit, UndoRecord, Finish, storeVars, service
  <2>8. CASE UndoPromoted(h)
    BY <2>8 DEF UndoPromoted, UndoGoesWrong, storeVars, service
  <2>9. CASE UndoStop(h)
    BY <2>9 DEF UndoStop, StopFails, SystemctlStop
  <2>10. CASE UndoStart(h)
    <3>1. core' \in {current, NoVersion} /\ current' = current
      BY <2>10, BootedType DEF UndoStart, StartFails, SystemctlStart, service, storeVars
    <3>2. phase'[h] = "undo.record"
      BY <2>10 DEF UndoStart, UndoGoesWrong
    <3> QED BY <3>1, <3>2
  <2>11. CASE StoreStep(h)
    <3>1. UNCHANGED <<service, manager>> /\ Continue(h)
      BY <2>11 DEF StoreStep
    <3>2. at[h] \notin Ready
      BY <3>1, StoreEffect
    <3>3. phase[h] \in {"install", "activate", "undo", "commit"}
      BY <3>2 DEF Operations
    <3>4. CASE phase[h] \in {"install", "undo"}
      BY <3>1, <3>2, <3>4, StoreMoves DEF manager, service
    <3>5. CASE phase[h] \in {"activate", "commit"}
      BY <3>1, <3>2, <3>5, StoreEffect DEF manager, service, Trial
    <3> QED BY <3>3, <3>4, <3>5
  <2> QED BY <1>5, <2>1, <2>2, <2>3, <2>4, <2>5, <2>6, <2>7, <2>8, <2>9, <2>10, <2>11 DEF Working
<1> QED BY <1>1, <1>2, <1>3, <1>4, <1>5 DEF Next

(* Between operations the node executes the release "current" names, when  *)
(* nothing but the operation touches the node and no step fails between    *)
(* the promotion and the stop: a promotion, a start, a rollback's          *)
(* promotion and a row may fail, and the node may die, as often as they    *)
(* like.                                                                   *)
THEOREM AlwaysServesCurrent ==
  ASSUME NEW h, Callers = {h}, MaxRestarts = 0, MaxCrashes = 0,
         {"seen", "stop", "undo.stop"} \cap FailingCalls = {}, "promote.unstage" \notin FaultyAt
  PROVE  Spec => []ServesCurrent
<1> DEFINE Inv == CoreInv /\ Control(h) /\ Undoing(h) /\ Trial(h) /\ Serving(h)
<1>1. Init => Inv
  BY CoreInit, WayInit, TrialInit, ServingInit
<1>2. Inv /\ [Next]_vars => Inv'
  BY CoreNext, WayNext, TrialNext, ServingNext
<1>3. Inv => ServesCurrent
  BY DEF Serving, ServesCurrent
<1> QED BY <1>1, <1>2, <1>3, PTL DEF Spec

-----------------------------------------------------------------------------
(* One caller's operations, as Rollout sees them.                          *)

(* Stage and Promote go from one release to the other; PromoteVersion too. *)
Promotes(h, from, to) ==
  /\ Carries(h, to)
  /\ at[h] \notin {"promote.unstage", "done"} \cup DiscardSteps \cup {"rejected", "error"}
       => current = from
  /\ current \in {from, to}

Swaps(h, from, to) ==
  /\ SwitchesTo(h, to)
  /\ at[h] # "done" => current = from

LEMMA SwapEffect ==
  ASSUME TypeOK, NEW h \in Callers, NEW from, NEW to, Continue(h)
  PROVE  /\ at[h] \in Staging /\ Promotes(h, from, to) =>
              /\ Promotes(h, from, to)'
              /\ current' # current => current = from /\ current' = to
         /\ at[h] \in SwitchSteps /\ Swaps(h, from, to) =>
              /\ Swaps(h, from, to)'
              /\ current' # current => current = from /\ current' = to
<1> USE DEF TypeOK, GoTo, Return, pointers, Carries, SwitchesTo, Promotes, Swaps
<1>1. CASE StageStep(h)
  BY <1>1 DEF StageStep, StageReadPrevious, StageMakeDir, StageWritePointer, ExtractBegin,
              ExtractEnd, ExtractFails
<1>2. CASE DiscardStep(h)
  BY <1>2 DEF DiscardStep, DiscardReadStaged, DiscardRemoveFiles, DiscardRemoveDir, DiscardUnstage
<1>3. CASE PromoteStep(h)
  BY <1>3, OwnerAssumption DEF PromoteStep, PromoteReadStaged, PromoteReadCurrent,
              PromoteSavePrevious, PromoteActivate, PromoteUnstage
<1>4. CASE SwitchStep(h)
  BY <1>4 DEF SwitchStep, SwitchReadCurrent, SwitchSavePrevious, SwitchActivate
<1>5. CASE RevertStep(h)
  BY <1>5 DEF RevertStep, RevertReadCurrent, RevertActivate, RevertSavePrevious
<1>6. CASE PruneStep(h)
  BY <1>6 DEF PruneStep, PruneSpareCurrent, PruneSparePrevious, PruneSpareStaged, Spare,
              PruneRemoveFiles, PruneRemoveDir
<1>7. CASE BootstrapWritePointer(h)
  BY <1>7 DEF BootstrapWritePointer
<1>8. CASE Fault(h)
  BY <1>8, OwnerAssumption, FaultyAssumption DEF Fault, Steps
<1> QED BY <1>1, <1>2, <1>3, <1>4, <1>5, <1>6, <1>7, <1>8 DEF Continue

LEMMA SwapBegins ==
  ASSUME TypeOK, NEW h \in Callers, NEW from, NEW to, current = from,
         SwitchStat(h, to) \/ StageReadCurrent(h, to)
  PROVE  /\ SwitchStat(h, to) => Swaps(h, from, to)'
         /\ StageReadCurrent(h, to) => Promotes(h, from, to)'
  BY DEF SwitchStat, StageReadCurrent, TypeOK, Return, GoTo, pointers, SwitchesTo, Carries,
         Promotes, Swaps

(* Where "current" is in each phase of an operation, whatever the service, *)
(* the node and the guardian do.                                           *)
Pointed(h) ==
  /\ phase[h] = "switch" => current = task[h].from
  /\ phase[h] = "install" => Promotes(h, task[h].from, task[h].to)
  /\ phase[h] = "activate" => Swaps(h, task[h].from, task[h].to)
  /\ phase[h] \in {"promoted", "start", "probe", "commit"} => current = task[h].to
  /\ phase[h] = "undo" => Swaps(h, task[h].to, task[h].from)
  /\ phase[h] \in {"undo.stop", "undo.start"} => current = task[h].from
  /\ phase[h] = "undo.record" =>
       /\ current \in {task[h].from, task[h].to}
       /\ clean[h] = TRUE => current = task[h].from \/ task[h].from = NoVersion

LEMMA PointedInit == ASSUME NEW h, Callers = {h} PROVE Init => Pointed(h)
  BY DEF Init, Pointed

LEMMA PointedNext ==
  ASSUME NEW h, Callers = {h}, CoreInv, Control(h), Pointed(h), [Next]_vars
  PROVE  Pointed(h)'
<1> USE DEF CoreInv, CoreTypeOK, Control, Pointed, GoOn, Go
<1>0. /\ at \in [Callers -> Steps] /\ TypeOK /\ h \in Callers
      /\ phase[h] # "idle" => task[h] \in Tasks /\ task[h].from \in Pointer /\ task[h].to \in Versions
  BY DEF TypeOK, Tasks
<1>1. CASE UNCHANGED vars
  BY <1>1 DEF vars, storeVars, service, manager, SwitchesTo, Carries, Promotes, Swaps
<1>2. CASE Node \/ Guard
  BY <1>2 DEF Node, NodeDies, NodeRespawns, Guard, GuardianSeesTrouble, GuardianRestarts,
              storeVars, manager, SwitchesTo, Carries, Promotes, Swaps
<1>3. CASE AgentCrash
  BY <1>3 DEF AgentCrash
<1>4. CASE Request(h)
  <2>1. PICK v \in Versions : SwitchVersion(h, v) \/ Update(h, v)
    BY <1>4 DEF Request
  <2>2. CASE SwitchVersion(h, v)
    BY <2>2 DEF SwitchVersion, storeVars
  <2>3. CASE Update(h, v)
    <3>1. /\ phase'[h] = "install" /\ task'[h].from = current /\ task'[h].to = v
          /\ StageReadCurrent(h, v)
      BY <2>3 DEF Update
    <3>2. ASSUME NEW from, current = from PROVE Promotes(h, from, v)'
      BY <1>0, <3>1, <3>2, SwapBegins
    <3> QED BY <3>1, <3>2 DEF Promotes, Carries
  <2> QED BY <2>1, <2>2, <2>3
<1>5. CASE Working(h)
  <2> USE <1>0
  <2>1. ASSUME NEW v, current = v, NEW w, SwitchStat(h, w) PROVE Swaps(h, v, w)'
    BY <2>1, SwapBegins
  <2>2. CASE SwitchStop(h)
    BY <2>1, <2>2 DEF SwitchStop, GiveUp, Finish, Swaps, SwitchesTo
  <2>3. CASE SwitchFails(h) \/ UpdateFails(h) \/ SwitchDone(h)
    BY <2>3 DEF SwitchFails, UpdateFails, SwitchDone, GiveUp, Finish, storeVars, Swaps, SwitchesTo
  <2>4. CASE UpdatePromoted(h) \/ UpdateStop(h)
    <3>1. CASE UpdatePromoted(h)
      BY <3>1 DEF UpdatePromoted, GiveUp, Finish, storeVars, Promotes, Carries
    <3>2. CASE UpdateStop(h)
      BY <3>2 DEF UpdateStop, GiveUp, Finish, storeVars
    <3> QED BY <2>4, <3>1, <3>2
  <2>5. CASE Start(h)
    BY <2>1, <2>5 DEF Start, storeVars, Swaps, SwitchesTo
  <2>6. CASE ProbePasses(h)
    BY <2>6 DEF ProbePasses, PruneList, pointers
  <2>7. CASE ProbeFails(h)
    BY <2>1, <2>7 DEF ProbeFails, storeVars, Swaps, SwitchesTo
  <2>8. CASE Commit(h) \/ UndoRecord(h)
    BY <2>8 DEF Commit, UndoRecord, Finish, storeVars
  <2>9. CASE UndoPromoted(h)
    BY <2>9 DEF UndoPromoted, UndoGoesWrong, storeVars, Swaps, SwitchesTo
  <2>10. CASE UndoStop(h) \/ UndoStart(h)
    BY <2>10 DEF UndoStop, UndoStart, UndoGoesWrong, storeVars
  <2>11. CASE StoreStep(h)
    <3>1. UNCHANGED <<phase, task, clean>> /\ Continue(h) /\ at[h] \notin Ready
      <4>1. UNCHANGED <<phase, task, clean>> /\ Continue(h)
        BY <2>11 DEF StoreStep, manager
      <4> QED BY <4>1, StoreEffect
    <3>2. phase[h] \in {"install", "activate", "undo", "commit"}
      BY <3>1 DEF Operations
    <3>3. CASE phase[h] = "install"
      BY <3>1, <3>3, SwapEffect DEF Promotes, Carries
    <3>4. CASE phase[h] \in {"activate", "undo"}
      BY <3>1, <3>4, SwapEffect DEF Swaps, SwitchesTo
    <3>5. CASE phase[h] = "commit"
      BY <3>1, <3>5, StoreEffect
    <3> QED BY <3>2, <3>3, <3>4, <3>5
  <2> QED BY <1>5, <2>2, <2>3, <2>4, <2>5, <2>6, <2>7, <2>8, <2>9, <2>10, <2>11 DEF Working
<1> QED BY <1>1, <1>2, <1>3, <1>4, <1>5 DEF Next

-----------------------------------------------------------------------------
(* The directories of the releases.  PromoteVersion takes any directory it *)
(* finds for an installed release.  What an operator asks it for is one    *)
(* thing; the way back is another: the release an operation left is named  *)
(* by a pointer until the operation ends, and so it is still whole.        *)
AskedForWhole ==
  \A h \in Callers, v \in Versions : SwitchVersion(h, v) => Usable(v)

(* The release the operation left is within reach.                         *)
Reach(from) == from # NoVersion => from \in {current, previous}

WayBack(h) ==
  /\ phase[h] = "switch" => Usable(task[h].to)
  /\ phase[h] = "install" /\ at[h] \in {"promote.unstage", "done"} => Reach(task[h].from)
  /\ phase[h] = "activate" /\ at[h] = "done" => Reach(task[h].from)
  /\ phase[h] \in {"promoted", "start", "probe"} => Reach(task[h].from)

LEMMA WayBackInit == ASSUME NEW h, Callers = {h} PROVE Init => WayBack(h)
  BY DEF Init, WayBack

(* "current" moves off a release that "previous" names by then.            *)
LEMMA ReachEffect ==
  ASSUME TypeOK, PointersAsRead, NEW h \in Callers, NEW from, NEW to, Continue(h)
  PROVE  /\ (/\ at[h] \in Staging /\ Promotes(h, from, to)
             /\ at[h] \in {"promote.unstage", "done"} => Reach(from)
             /\ at'[h] \in {"promote.unstage", "done"})
            => Reach(from)'
         /\ at[h] \in SwitchSteps /\ Swaps(h, from, to) /\ at'[h] = "done" => Reach(from)'
<1> USE DEF TypeOK, GoTo, Return, pointers, Carries, SwitchesTo, Promotes, Swaps, Reach
<1>1. CASE StageStep(h)
  BY <1>1 DEF StageStep, StageReadPrevious, StageMakeDir, StageWritePointer, ExtractBegin,
              ExtractEnd, ExtractFails
<1>2. CASE DiscardStep(h)
  BY <1>2 DEF DiscardStep, DiscardReadStaged, DiscardRemoveFiles, DiscardRemoveDir, DiscardUnstage
<1>3. CASE PromoteStep(h)
  <2>1. CASE PromoteReadStaged(h)
    BY <2>1, OwnerAssumption DEF PromoteReadStaged
  <2>2. CASE PromoteReadCurrent(h) \/ PromoteSavePrevious(h)
    BY <2>2 DEF PromoteReadCurrent, PromoteSavePrevious
  <2>3. CASE PromoteActivate(h)
    BY <2>3 DEF PromoteActivate, PointersAsRead
  <2>4. CASE PromoteUnstage(h)
    BY <2>4 DEF PromoteUnstage
  <2> QED BY <1>3, <2>1, <2>2, <2>3, <2>4 DEF PromoteStep
<1>4. CASE SwitchStep(h)
  <2>1. CASE SwitchReadCurrent(h) \/ SwitchSavePrevious(h)
    BY <2>1 DEF SwitchReadCurrent, SwitchSavePrevious
  <2>2. CASE SwitchActivate(h)
    BY <2>2 DEF SwitchActivate, PointersAsRead
  <2> QED BY <1>4, <2>1, <2>2 DEF SwitchStep
<1>5. ~RevertStep(h) \/ at[h] \in RevertSteps
  BY DEF RevertStep, RevertReadCurrent, RevertActivate, RevertSavePrevious
<1>6. ~PruneStep(h) \/ at[h] \in PruneSteps
  BY DEF PruneStep, PruneSpareCurrent, PruneSparePrevious, PruneSpareStaged, PruneRemoveFiles,
         PruneRemoveDir
<1>7. ~BootstrapWritePointer(h) \/ at[h] = "boot.ptr"
  BY DEF BootstrapWritePointer
<1>8. CASE Fault(h)
  BY <1>8, OwnerAssumption DEF Fault
<1> QED BY <1>1, <1>2, <1>3, <1>4, <1>5, <1>6, <1>7, <1>8 DEF Continue

LEMMA WayBackNext ==
  ASSUME NEW h, Callers = {h}, CoreInv, Control(h), Pointed(h), PointersAsRead, WayBack(h),
         AskedForWhole, [Next]_vars
  PROVE  WayBack(h)'
<1> USE DEF CoreInv, CoreTypeOK, Control, WayBack, GoOn, Go
<1>0. /\ at \in [Callers -> Steps] /\ TypeOK /\ h \in Callers
      /\ phase[h] # "idle" => task[h] \in Tasks /\ task[h].from \in Pointer /\ task[h].to \in Versions
  BY DEF TypeOK, Tasks
<1>1. CASE UNCHANGED vars
  BY <1>1 DEF vars, storeVars, manager, Reach, Usable
<1>2. CASE Node \/ Guard
  BY <1>2 DEF Node, NodeDies, NodeRespawns, Guard, GuardianSeesTrouble, GuardianRestarts,
              storeVars, manager, Reach, Usable
<1>3. CASE AgentCrash
  BY <1>3 DEF AgentCrash
<1>4. CASE Request(h)
  <2>1. PICK v \in Versions : SwitchVersion(h, v) \/ Update(h, v)
    BY <1>4 DEF Request
  <2>2. CASE SwitchVersion(h, v)
    <3>1. Usable(v) /\ UNCHANGED files
      BY <2>2 DEF AskedForWhole, SwitchVersion, storeVars
    <3>2. phase'[h] = "switch" /\ task'[h].to = v
      BY <2>2 DEF SwitchVersion
    <3> QED BY <3>1, <3>2 DEF Usable
  <2>3. CASE Update(h, v)
    BY <1>0, <2>3 DEF Update, StageReadCurrent, GoTo, Return
  <2> QED BY <2>1, <2>2, <2>3
<1>5. CASE Working(h)
  <2> USE <1>0
  <2>1. CASE SwitchStop(h)
    <3>1. CASE GoOn(h, "activate") /\ SwitchStat(h, task[h].to)
      BY <3>1 DEF SwitchStat, GoTo, Return
    <3>2. CASE GiveUp(h)
      BY <3>2 DEF GiveUp, Finish
    <3> QED BY <2>1, <3>1, <3>2 DEF SwitchStop
  <2>2. CASE SwitchFails(h) \/ UpdateFails(h)
    BY <2>2 DEF SwitchFails, UpdateFails, GiveUp, Finish
  <2>3. CASE SwitchDone(h)
    BY <2>3 DEF SwitchDone, storeVars, Reach
  <2>4. CASE UpdatePromoted(h) \/ UpdateStop(h)
    BY <2>4 DEF UpdatePromoted, UpdateStop, GiveUp, Finish, storeVars, Reach
  <2>5. CASE Start(h)
    BY <2>5 DEF Start, storeVars, Reach
  <2>6. CASE ProbePasses(h) \/ ProbeFails(h)
    BY <2>6 DEF ProbePasses, ProbeFails
  <2>7. CASE Commit(h) \/ UndoRecord(h)
    BY <2>7 DEF Commit, UndoRecord, Finish
  <2>8. CASE UndoPromoted(h) \/ UndoStop(h) \/ UndoStart(h)
    BY <2>8 DEF UndoPromoted, UndoStop, UndoStart, UndoGoesWrong
  <2>9. CASE StoreStep(h)
    <3>1. UNCHANGED <<phase, task>> /\ Continue(h)
      BY <2>9 DEF StoreStep, manager
    <3>2. at[h] \notin Ready
      BY <3>1, StoreEffect
    <3>3. phase[h] \in {"install", "activate", "undo", "commit"}
      BY <3>2 DEF Operations
    <3> QED BY <3>1, <3>2, <3>3, ReachEffect DEF Pointed
  <2> QED BY <1>5, <2>1, <2>2, <2>3, <2>4, <2>5, <2>6, <2>7, <2>8, <2>9 DEF Working
<1> QED BY <1>1, <1>2, <1>3, <1>4, <1>5 DEF Next

(* The manager switches to what it was asked for, or back to what it left. *)
LEMMA SwitchesAreWhole ==
  ASSUME NEW h, Callers = {h}, CoreInv, WayBack(h), FilesInv, [Next]_vars,
         NEW v \in Installed, SwitchStat(h, v)
  PROVE  Usable(v)
<1>0. /\ at \in [Callers -> Steps] /\ ver \in [Callers -> Pointer] /\ h \in Callers
      /\ phase[h] # "idle" => task[h] \in Tasks /\ task[h].from \in Pointer
  BY DEF CoreInv, CoreTypeOK, TypeOK, Tasks
<1>1. at'[h] = "switch.cur" /\ ver'[h] = v /\ at[h] \in Ready
  BY <1>0 DEF SwitchStat, Begins, GoTo
<1>2. ASSUME NEW w, SwitchStat(h, w) PROVE w = v
  BY <1>0, <1>1, <1>2 DEF SwitchStat, Return, GoTo
<1>3. ASSUME Reach(v), v # NoVersion PROVE Usable(v)
  BY <1>3 DEF Reach, FilesInv, LiveReleasesUsable
<1>4. v # NoVersion
  BY VersionsAssumption DEF Installed
<1>5. ~UNCHANGED storeVars
  BY <1>1 DEF storeVars
<1>6. Request(h) \/ Working(h)
  BY <1>0, <1>1, <1>5 DEF Next, Node, NodeDies, NodeRespawns, Guard, GuardianSeesTrouble, GuardianRestarts,
                    AgentCrash, Crash, vars, storeVars
<1>7. ~Request(h)
  BY <1>0, <1>1, <1>5 DEF Request, SwitchVersion, Update, StageReadCurrent, GoTo, Return
<1>8. ~StoreStep(h) /\ ~ProbePasses(h)
  BY <1>0, <1>1, StoreEffect DEF StoreStep, ProbePasses, PruneList, GoTo, CoreInv, CoreTypeOK
<1>9. SwitchStop(h) \/ Start(h) \/ ProbeFails(h)
  BY <1>5, <1>6, <1>7, <1>8 DEF Working, SwitchFails, SwitchDone, UpdateFails, UpdatePromoted,
     UpdateStop, Commit, UndoPromoted, UndoStop, UndoStart, UndoRecord
<1>10. CASE SwitchStop(h)
  BY <1>2, <1>5, <1>10 DEF SwitchStop, WayBack
<1>11. CASE Start(h) \/ ProbeFails(h)
  <2>1. task[h].from = v /\ phase[h] \in {"start", "probe"}
    BY <1>2, <1>5, <1>11 DEF Start, ProbeFails
  <2> QED BY <1>3, <1>4, <2>1 DEF WayBack
<1> QED BY <1>9, <1>10, <1>11

(* So its store is asked to switch to whole releases only.                 *)
LEMMA FilesKept ==
  ASSUME NEW h, Callers = {h}, "promote.unstage" \notin FaultyAt, CoreInv, Control(h), Pointed(h),
         PointersAsRead, FilesInv, WayBack(h), [Next]_vars, [AskedForWhole]_vars
  PROVE  PointersAsRead' /\ FilesInv' /\ WayBack(h)'
<1>1. CASE UNCHANGED vars
  <2>1. UNCHANGED storeVars /\ UNCHANGED <<phase, task>>
    BY <1>1 DEF vars, storeVars, manager
  <2>2. PointersAsRead' /\ FilesInv'
    BY <2>1 DEF storeVars, PointersAsRead, FilesInv, LiveReleasesUsable, FilesApart, Usable, Live
  <2>3. WayBack(h)'
    BY <2>1 DEF storeVars, WayBack, Usable, Reach
  <2> QED BY <2>2, <2>3
<1>2. CASE AskedForWhole
  <2>1. TypeOK /\ OneAtATime /\ OneAtATime' /\ [StoreNext]_storeVars
    BY StoreSteps DEF CoreInv, CoreTypeOK, OneAtATime
  <2>2. WholeSwitches
    BY SwitchesAreWhole DEF WholeSwitches
  <2>3. PointersAsRead' /\ FilesInv'
    BY <2>1, <2>2, StepPointersAsRead, StepFilesInv DEF KeepsActivated
  <2> QED BY <1>2, <2>3, WayBackNext
<1> QED BY <1>1, <1>2

(* What "current" and "previous" name stays whole through updates,         *)
(* switches and their rollbacks, whichever calls fail, but for the last    *)
(* step of Promote, and wherever the agent dies, if operators switch only  *)
(* to releases that were filled.                                           *)
THEOREM WholeRequestsKeepLiveReleases ==
  ASSUME NEW h, Callers = {h}, "promote.unstage" \notin FaultyAt
  PROVE  Spec /\ [][AskedForWhole]_vars => []LiveReleasesUsable
<1> DEFINE Way == CoreInv /\ Control(h) /\ Undoing(h) /\ Pointed(h)
           Inv == PointersAsRead /\ FilesInv /\ WayBack(h)
<1>1. Init => Way /\ Inv
  BY CoreInit, WayInit, PointedInit, WayBackInit, InitPointersAsRead, InitFilesInv DEF Init
<1>2. Way /\ [Next]_vars => Way'
  BY CoreNext, WayNext, PointedNext
<1>3. Way /\ Inv /\ [Next]_vars /\ [AskedForWhole]_vars => Inv'
  BY FilesKept
<1>4. Inv => LiveReleasesUsable
  BY DEF FilesInv
<1> QED BY <1>1, <1>2, <1>3, <1>4, PTL DEF Spec

(* Where the agent does not die and no removal fails half-way, there is    *)
(* nothing else to ask for: what "current" and "previous" name stays whole *)
(* whatever operators do, one operation at a time.                         *)
THEOREM CoreLiveReleasesSafe ==
  ASSUME NEW h, Callers = {h}, MaxCrashes = 0,
         FaultyAt \cap ({"promote.unstage"} \cup Halfway) = {}
  PROVE  Spec => []LiveReleasesUsable
<1> DEFINE Way == CoreInv /\ Control(h) /\ Undoing(h) /\ Pointed(h)
           Inv == PointersAsRead /\ FilesInv /\ WayBack(h)
<1>1. Init => Way /\ Inv /\ NothingAbandoned
  BY CoreInit, WayInit, PointedInit, WayBackInit, InitPointersAsRead, InitFilesInv,
     InitNothingAbandoned DEF Init
<1>2. Way /\ [Next]_vars => Way'
  BY CoreNext, WayNext, PointedNext
<1>3. Way /\ NothingAbandoned => AskedForWhole
  <2> SUFFICES ASSUME Way, NothingAbandoned, NEW v \in Versions, SwitchVersion(h, v)
               PROVE  files[v] = "complete"
    BY DEF AskedForWhole, Usable
  <2>1. at[h] \in Ready /\ files[v] # "absent"
    BY DEF SwitchVersion, Control, Installed
  <2>2. files[v] # "partial"
    BY <2>1 DEF NothingAbandoned, WorksOn
  <2> QED BY <2>1, <2>2 DEF CoreInv, CoreTypeOK, TypeOK, Contents
<1>4. Way /\ Inv /\ NothingAbandoned /\ [Next]_vars => Inv'
  BY <1>3, FilesKept
<1>5. Way /\ Inv /\ NothingAbandoned /\ [Next]_vars => NothingAbandoned'
  <2> SUFFICES ASSUME Way, Inv, NothingAbandoned, [Next]_vars PROVE NothingAbandoned'
    OBVIOUS
  <2>1. CASE UNCHANGED storeVars
    BY <2>1 DEF NothingAbandoned, WorksOn, storeVars
  <2>2. CASE Begin(h) \/ Continue(h)
    BY <2>2, StepNothingAbandoned DEF CoreInv, CoreTypeOK, FilesInv, OneAtATime
  <2>3. ~AgentCrash
    BY NodeAssumption DEF AgentCrash, CoreInv, CoreTypeOK
  <2>4. Begin(h) \/ Continue(h) \/ UNCHANGED storeVars
    BY StoreTurns, <2>3
  <2> QED BY <2>1, <2>2, <2>4
<1>6. Inv => LiveReleasesUsable
  BY DEF FilesInv
<1> QED BY <1>1, <1>2, <1>4, <1>5, <1>6, PTL DEF Spec

UndoPhases == {"undo", "undo.stop", "undo.start", "undo.record"}

LEMMA TheOne == ASSUME NEW h, Callers = {h} PROVE TheCaller = h
  BY DEF TheCaller

(* An operation under way is a job of Rollout.                             *)
LEMMA JobType ==
  ASSUME CoreInv, NEW h \in Callers
  PROVE  /\ phase[h] = "idle" => JobOf(h) = NoTask
         /\ phase[h] # "idle" =>
              /\ JobOf(h) # NoTask
              /\ JobOf(h) = [from |-> task[h].from, to |-> task[h].to, stage |-> JobOf(h).stage]
              /\ JobOf(h).stage =
                   IF current = task[h].to
                      /\ (task[h].from = task[h].to => phase[h] \notin UndoPhases \ {"undo"})
                   THEN "switched" ELSE IF phase[h] \in UndoPhases THEN "undone" ELSE "prepared"
<1>1. phase[h] # "idle" => task[h].from \in Pointer /\ task[h].to \in Versions
  BY DEF CoreInv, Tasks
<1> QED BY <1>1, NoTaskAssumption DEF JobOf, UndoPhases

Reported == [status |-> log.status,
             clean |-> log.clean /\ (log.status = "rolled_back" => log.from # NoVersion)]

LEMMA CoreContractInit == ASSUME NEW h, Callers = {h} PROVE Init => Contract!Init
<1> SUFFICES ASSUME Init PROVE Contract!Init
  OBVIOUS
<1>1. CoreInv /\ phase[h] = "idle"
  BY CoreInit DEF Init
<1>2. JobOf(TheCaller) = NoTask
  BY <1>1, JobType, TheOne
<1> QED BY <1>1, <1>2 DEF Init, Contract!Init, CoreInv, CoreTypeOK, TypeOK

(* The steps an operation shows: nothing else of it is visible.            *)
LEMMA Unseen ==
  ASSUME NEW h, Callers = {h}, UNCHANGED <<current, log>>, JobOf(h)' = JobOf(h)
  PROVE  UNCHANGED Contract!rolloutVars
  BY TheOne DEF Contract!rolloutVars

LEMMA UnseenPhase ==
  ASSUME NEW h, Callers = {h}, UNCHANGED <<current, log>>, task'[h] = task[h],
         phase[h] # "idle", phase'[h] # "idle",
         \/ phase[h] \notin UndoPhases /\ phase'[h] \notin UndoPhases
         \/ phase[h] \notin UndoPhases /\ phase'[h] \in UndoPhases
              /\ current = task[h].to /\ task[h].from # task[h].to
         \/ phase[h] \notin UndoPhases /\ phase'[h] = "undo" /\ current = task[h].to
         \/ phase[h] = "undo" /\ task[h].from # task[h].to /\ phase'[h] \in UndoPhases
         \/ phase[h] \in UndoPhases \ {"undo"} /\ phase'[h] \in UndoPhases \ {"undo"}
  PROVE  UNCHANGED Contract!rolloutVars
<1>1. JobOf(h)' = JobOf(h)
  BY DEF JobOf, UndoPhases
<1> QED BY <1>1, Unseen

LEMMA CoreEnds ==
  ASSUME NEW h, Callers = {h}, CoreInv, CoreInv', phase[h] # "idle", phase'[h] = "idle",
         UNCHANGED current,
         \/ UNCHANGED log
         \/ \E status \in {"succeeded", "rolled_back"} :
              /\ RecordRow(h, status)
              /\ Contract!Truthful(status, Reported'.clean, JobOf(h).stage) \/ UNCHANGED log
  PROVE  Contract!End
<1>1. JobOf(h) # NoTask /\ JobOf(h)' = NoTask /\ TheCaller = h
  BY JobType, TheOne DEF JobOf
<1>2. CASE UNCHANGED log
  BY <1>1, <1>2 DEF Contract!End
<1>3. ASSUME NEW status \in {"succeeded", "rolled_back"}, RecordRow(h, status), log' # log,
             Contract!Truthful(status, Reported'.clean, JobOf(h).stage)
      PROVE  Contract!End
  <2>1. log'.status = status /\ Reported' = [status |-> status, clean |-> Reported'.clean]
        /\ Reported'.clean \in BOOLEAN
    BY <1>3 DEF RecordRow, Reported
  <2> QED BY <1>1, <1>3, <2>1 DEF Contract!End, Reported
<1> QED BY <1>2, <1>3

(* Every step is one of Rollout's, or is not visible there.                *)
LEMMA CoreContractNext ==
  ASSUME NEW h, Callers = {h}, CoreInv, CoreInv', Control(h), Pointed(h), [Next]_vars
  PROVE  [Contract!Next]_(Contract!rolloutVars)
<1> USE DEF Pointed, GoOn, Go
<1>0. /\ TypeOK /\ h \in Callers /\ TheCaller = h /\ CoreTypeOK
      /\ phase \in [Callers -> Operations] /\ task \in [Callers -> Tasks \cup {NoTask}]
      /\ phase[h] # "idle" =>
           task[h] \in Tasks /\ task[h].to \in Versions /\ task[h].from \in Pointer
  BY TheOne DEF CoreInv, CoreTypeOK, Tasks
<1>1. CASE UNCHANGED vars
  <2>1. JobOf(h)' = JobOf(h) /\ UNCHANGED <<current, log>>
    BY <1>1 DEF vars, storeVars, manager, JobOf
  <2> QED BY <2>1, Unseen
<1>2. CASE Node \/ Guard
  <2>1. JobOf(h)' = JobOf(h) /\ UNCHANGED <<current, log>>
    BY <1>2 DEF Node, NodeDies, NodeRespawns, Guard, GuardianSeesTrouble, GuardianRestarts,
                storeVars, manager, JobOf
  <2> QED BY <2>1, Unseen
<1>3. CASE AgentCrash
  <2>1. phase'[h] = "idle" /\ UNCHANGED <<current, log>>
    BY <1>3 DEF AgentCrash, Crash, pointers
  <2>2. CASE phase[h] = "idle"
    BY <1>0, <2>1, <2>2, JobType, Unseen DEF JobOf
  <2> QED BY <2>1, <2>2, CoreEnds DEF Contract!Next
<1>4. ASSUME NEW v \in Versions, SwitchVersion(h, v) \/ Update(h, v) PROVE Contract!Begin(v)
  <2>1. /\ phase[h] = "idle" /\ phase'[h] \in {"switch", "install"}
        /\ task'[h] = [from |-> current, to |-> v]
        /\ UNCHANGED <<current, log>>
    BY <1>0, <1>4 DEF SwitchVersion, Update, StageReadCurrent, storeVars, pointers
  <2>2. JobOf(h) = NoTask
        /\ JobOf(h)' = [from |-> current, to |-> v,
                        stage |-> IF v = current THEN "switched" ELSE "prepared"]
    BY <2>1 DEF JobOf
  <2> QED BY <1>0, <2>1, <2>2 DEF Contract!Begin
<1>5. CASE Working(h)
  <2>1. CASE SwitchStop(h) \/ UpdateStop(h)
    <3>1. CASE phase'[h] = "idle"
      BY <1>0, <2>1, <3>1, CoreEnds DEF SwitchStop, UpdateStop, GiveUp, Finish, storeVars,
                                        Contract!Next
    <3>2. CASE phase'[h] # "idle"
      BY <1>0, <2>1, <3>2, UnseenPhase DEF SwitchStop, UpdateStop, SwitchStat, GiveUp, Finish,
                                           storeVars, pointers, UndoPhases
    <3> QED BY <3>1, <3>2
  <2>2. CASE SwitchFails(h) \/ UpdateFails(h)
    BY <1>0, <2>2, CoreEnds DEF SwitchFails, UpdateFails, GiveUp, Finish, storeVars, Contract!Next
  <2>3. CASE SwitchDone(h) \/ UpdatePromoted(h)
    <3>1. CASE GiveUp(h)
      BY <1>0, <2>3, <3>1, CoreEnds DEF SwitchDone, UpdatePromoted, GiveUp, Finish, storeVars,
                                        Contract!Next
    <3>2. CASE ~GiveUp(h)
      BY <1>0, <2>3, <3>2, UnseenPhase DEF SwitchDone, UpdatePromoted, storeVars, UndoPhases
    <3> QED BY <3>1, <3>2
  <2>4. CASE Start(h) \/ ProbeFails(h)
    <3>1. /\ phase[h] \in {"start", "probe"} /\ current = task[h].to /\ UNCHANGED <<current, log>>
          /\ task' = task /\ phase'[h] \in {"probe", "undo", "undo.record"}
          /\ phase'[h] = "undo.record" => task[h].from = NoVersion
      BY <1>0, <2>4 DEF Start, ProbeFails, storeVars, SwitchStat, pointers
    <3>2. task[h].from = NoVersion => task[h].from # task[h].to
      BY <1>0, <3>1, VersionsAssumption
    <3> QED BY <3>1, <3>2, UnseenPhase DEF UndoPhases
  <2>5. CASE ProbePasses(h)
    BY <1>0, <2>5, UnseenPhase DEF ProbePasses, PruneList, pointers, UndoPhases
  <2>6. CASE Commit(h)
    <3>1. phase[h] = "commit" /\ current = task[h].to /\ JobOf(h).stage = "switched"
      BY <1>0, <2>6, JobType DEF Commit, UndoPhases
    <3>2. Contract!Truthful("succeeded", Reported'.clean, JobOf(h).stage)
      BY <3>1 DEF Contract!Truthful
    <3>3. Contract!End
      BY <1>0, <2>6, <3>2, CoreEnds DEF Commit, Finish, storeVars
    <3> QED BY <3>3 DEF Contract!Next
  <2>7. CASE UndoPromoted(h)
    <3>1. /\ phase[h] = "undo" /\ phase'[h] \in UndoPhases \ {"undo"} /\ task' = task
          /\ UNCHANGED <<current, log>>
      BY <1>0, <2>7 DEF UndoPromoted, UndoGoesWrong, UndoPhases, storeVars
    <3>2. CASE task[h].from # task[h].to
      BY <3>1, <3>2, UnseenPhase DEF UndoPhases
    <3>3. CASE task[h].from = task[h].to
      <4>1. current = task[h].from
        BY <2>7, <3>1, <3>3 DEF UndoPromoted, Swaps, SwitchesTo
      <4>2. /\ JobOf(h) = [from |-> task[h].from, to |-> task[h].to, stage |-> "switched"]
            /\ JobOf(h)' = [from |-> task[h].from, to |-> task[h].to, stage |-> "undone"]
        BY <3>1, <3>3, <4>1 DEF JobOf, UndoPhases
      <4>3. JobOf(h) # NoTask
        BY <3>1, JobType
      <4>4. Contract!Undo
        BY <1>0, <3>1, <4>1, <4>2, <4>3 DEF Contract!Undo
      <4> QED BY <4>4 DEF Contract!Next
    <3> QED BY <3>2, <3>3
  <2>8. CASE UndoStop(h) \/ UndoStart(h)
    BY <1>0, <2>8, UnseenPhase DEF UndoStop, UndoStart, UndoGoesWrong, storeVars, UndoPhases
  <2>9. CASE UndoRecord(h)
    <3>1. phase[h] = "undo.record" /\ task[h].from \in Pointer /\ clean[h] \in BOOLEAN
          /\ UNCHANGED current
      BY <1>0, <2>9 DEF UndoRecord, CoreTypeOK, storeVars
    <3>2. clean[h] = TRUE /\ task[h].from # NoVersion => JobOf(h).stage = "undone"
      BY <3>1, JobType DEF UndoPhases
    <3>3. log' # log => Reported'.clean = (clean[h] /\ task[h].from # NoVersion)
      BY <2>9, <3>1 DEF UndoRecord, RecordRow, Reported
    <3>4. log' # log => Contract!Truthful("rolled_back", Reported'.clean, JobOf(h).stage)
      BY <3>1, <3>2, <3>3 DEF Contract!Truthful
    <3>5. Contract!End
      BY <1>0, <2>9, <3>4, CoreEnds DEF UndoRecord, Finish, storeVars
    <3> QED BY <3>5 DEF Contract!Next
  <2>10. CASE StoreStep(h)
    <3>1. UNCHANGED manager /\ Continue(h) /\ at[h] \notin Ready
      BY <1>0, <2>10, StoreEffect DEF StoreStep
    <3>2. phase[h] \in {"install", "activate", "undo", "commit"}
      BY <1>0, <3>1 DEF Operations, Control
    <3>3. CASE current' = current
      BY <3>1, <3>3, Unseen DEF JobOf, manager
    <3>4. CASE current' # current
      <4>1. phase[h] # "commit"
        BY <1>0, <3>1, <3>4, StoreEffect DEF Control
      <4>2. CASE phase[h] \in {"install", "activate"}
        <5>1. current = task[h].from /\ current' = task[h].to
          BY <1>0, <3>1, <3>4, <4>2, SwapEffect DEF Control
        <5>2. /\ JobOf(h) = [from |-> task[h].from, to |-> task[h].to, stage |-> "prepared"]
              /\ JobOf(h)' = [from |-> task[h].from, to |-> task[h].to, stage |-> "switched"]
          BY <3>1, <3>4, <4>2, <5>1 DEF JobOf, manager
        <5>3. Contract!Switch
          BY <1>0, <3>1, <4>2, <5>1, <5>2, JobType DEF Contract!Switch, manager
        <5> QED BY <5>3 DEF Contract!Next
      <4>3. CASE phase[h] = "undo"
        <5>1. current = task[h].to /\ current' = task[h].from
          BY <1>0, <3>1, <3>4, <4>3, SwapEffect DEF Control
        <5>2. /\ JobOf(h) = [from |-> task[h].from, to |-> task[h].to, stage |-> "switched"]
              /\ JobOf(h)' = [from |-> task[h].from, to |-> task[h].to, stage |-> "undone"]
          BY <3>1, <3>4, <4>3, <5>1 DEF JobOf, manager
        <5>3. Contract!Undo
          BY <1>0, <3>1, <4>3, <5>1, <5>2, JobType DEF Contract!Undo, manager
        <5> QED BY <5>3 DEF Contract!Next
      <4> QED BY <3>2, <4>1, <4>2, <4>3
    <3> QED BY <3>3, <3>4
  <2> QED BY <1>5, <2>1, <2>2, <2>3, <2>4, <2>5, <2>6, <2>7, <2>8, <2>9, <2>10 DEF Working
<1>6. ASSUME Request(h) PROVE Contract!Next
  BY <1>4, <1>6 DEF Request, Contract!Next
<1> QED BY <1>1, <1>2, <1>3, <1>5, <1>6 DEF Next

(* One caller's updates and switches of QRX Core implement Rollout, though *)
(* the node dies and comes back, the guardian restarts it and any call may *)
(* fail: "current" only ever names the release the operation left or its   *)
(* goal, and the row that ends it says which.                              *)
THEOREM CoreImplementsRollout ==
  ASSUME NEW h, Callers = {h} PROVE Spec => KeepsRolloutContract
<1> DEFINE Inv == CoreInv /\ Control(h) /\ Undoing(h) /\ Pointed(h)
<1>1. Init => Inv /\ Contract!Init
  BY CoreInit, WayInit, PointedInit, CoreContractInit
<1>2. Inv /\ [Next]_vars => Inv'
  BY CoreNext, WayNext, PointedNext
<1>3. Inv /\ Inv' /\ [Next]_vars => [Contract!Next]_(Contract!rolloutVars)
  BY CoreContractNext
<1> QED BY <1>1, <1>2, <1>3, PTL DEF Spec, KeepsRolloutContract, Contract!Spec

-----------------------------------------------------------------------------
(* What follows from Rollout alone follows for every manager that keeps it. *)
Promise == INSTANCE RolloutProofs WITH
  Releases <- Versions, None <- NoVersion, Idle <- NoTask, Revertible <- FALSE,
  live <- current, job <- JobOf(TheCaller), report <- [status |-> log.status,
             clean |-> log.clean /\ (log.status = "rolled_back" => log.from # NoVersion)]

LEMMA CoreKeepsPromise == Contract!Spec => Contract!OnlyTheJobSwitches /\ Contract!ReportsAreTrue
<1>1. Contract!Init => Promise!Init
  BY DEF Contract!Init, Promise!Init
<1>2. [Contract!Next]_(Contract!rolloutVars) => [Promise!Next]_(Promise!rolloutVars)
  BY DEF Contract!Next, Contract!Begin, Contract!Revert, Contract!Switch, Contract!Undo,
         Contract!End, Contract!Truthful, Contract!rolloutVars, Promise!Next, Promise!Begin,
         Promise!Revert, Promise!Switch, Promise!Undo, Promise!End, Promise!Truthful,
         Promise!rolloutVars
<1>3. Contract!Spec => Promise!Spec
  BY <1>1, <1>2, PTL DEF Contract!Spec, Promise!Spec
<1>4. Promise!Spec => Promise!OnlyTheJobSwitches /\ Promise!ReportsAreTrue
  BY Promise!OnlyJobsSwitch, Promise!RowsAreTrue
<1> QED BY <1>3, <1>4, PTL
        DEF Promise!OnlyTheJobSwitches, Contract!OnlyTheJobSwitches, Promise!ReportsAreTrue,
            Contract!ReportsAreTrue, Promise!rolloutVars, Contract!rolloutVars

(* Nothing but an update or a switch changes what qrxd is started from,    *)
(* and its rows are true of that when they are written.                    *)
THEOREM CoreRowsAreTrue ==
  ASSUME NEW h, Callers = {h}
  PROVE  Spec => Contract!OnlyTheJobSwitches /\ Contract!ReportsAreTrue
  BY CoreKeepsPromise, CoreImplementsRollout, PTL DEF KeepsRolloutContract
=============================================================================
