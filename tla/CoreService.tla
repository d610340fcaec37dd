----------------------------- MODULE CoreService -----------------------------
(***************************************************************************)
(* QRXCoreUpdateManager: updating QRX Core, and switching between its      *)
(* installed releases, around the service qrxd.service.                    *)
(*                                                                         *)
(* An operation stops the service, moves "current", starts the service,    *)
(* asks a probe whether the node is well, and otherwise moves "current"    *)
(* back.  Meanwhile the node may die by itself, systemd starts it again    *)
(* from whatever "current" names then, and the guardian, which looks at    *)
(* the node from another goroutine, may ask for a restart.  Nothing keeps  *)
(* these apart.                                                            *)
(***************************************************************************)
EXTENDS ReleaseStore

CONSTANTS
  NoTask,        \* no operation is being performed
  Unfit,         \* releases that run and fail validation
  Stillborn,     \* releases that do not come up
  HasProbe,      \* whether the manager was given a QRXCoreHealthProbe
  FailingCalls,  \* service and database calls that may fail
  MaxDeaths,     \* how often the node dies by itself
  MaxCrashes,    \* how often the agent dies in the middle of an operation
  MaxRestarts    \* the guardian's restart budget

VARIABLES
  unit,      \* what systemd was asked for: "active" or "stopped"
  core,      \* the release whose binary qrxd executes, NoVersion while it is down
  phase,     \* per caller: how far SwitchVersion or Update has come
  task,      \* per caller: the versions it goes from and to
  clean,     \* per caller: no step of the automatic rollback failed
  log,       \* the newest row of update_history for qrx_core
  alarm,     \* the guardian has seen a bad node and will restart it
  deaths, crashes, restarts

service == <<unit, core>>
manager == <<phase, task, clean, log>>
bounds  == <<deaths, crashes, restarts>>
vars == <<storeVars, service, manager, alarm, bounds>>

ASSUME FitnessAssumption == Unfit \subseteq Versions /\ Stillborn \subseteq Versions
ASSUME CallsAssumption ==
  FailingCalls \subseteq {"seen", "stop", "start", "undo.stop", "undo.start", "record"}
ASSUME NodeAssumption ==
  /\ MaxDeaths \in Nat /\ MaxCrashes \in Nat /\ MaxRestarts \in Nat /\ HasProbe \in BOOLEAN
ASSUME NoTaskAssumption ==
  /\ NoTask \notin [from : Versions \cup {NoVersion}, to : Versions]
  /\ NoTask \notin [from : Pointer, to : Versions, stage : {"prepared", "switched", "undone"}]

Operations == {"idle", "switch", "activate", "install", "promoted", "start", "probe",
               "commit", "undo", "undo.stop", "undo.start", "undo.record"}
Tasks == [from : Pointer, to : Versions]
Outcomes == [status : {"none", "succeeded", "rolled_back"}, from : Pointer, to : Pointer,
             clean : BOOLEAN]

CoreTypeOK ==
  /\ TypeOK
  /\ unit \in {"active", "stopped"} /\ core \in Pointer
  /\ phase \in [Callers -> Operations] /\ task \in [Callers -> Tasks \cup {NoTask}]
  /\ clean \in [Callers -> BOOLEAN] /\ log \in Outcomes /\ alarm \in BOOLEAN
  /\ deaths \in 0 .. MaxDeaths /\ crashes \in 0 .. MaxCrashes /\ restarts \in 0 .. MaxRestarts

(* What comes up when qrxd is executed: the unit's ExecStart is a path     *)
(* through the "current" link.                                             *)
Booted ==
  IF current # NoVersion /\ files[current] = "complete" /\ current \notin Stillborn
  THEN current ELSE NoVersion

Init ==
  /\ StoreInit
  /\ unit = "active" /\ core = Booted
  /\ phase = [h \in Callers |-> "idle"] /\ task = [h \in Callers |-> NoTask]
  /\ clean = [h \in Callers |-> TRUE]
  /\ log = [status |-> "none", from |-> NoVersion, to |-> NoVersion, clean |-> TRUE]
  /\ alarm = FALSE /\ deaths = 0 /\ crashes = 0 /\ restarts = 0

-----------------------------------------------------------------------------
(* qrxd.service, and the guardian beside it.                               *)

SystemctlStop  == unit' = "stopped" /\ core' = NoVersion
(* Starting an active unit does nothing.                                   *)
SystemctlStart == unit' = "active" /\ core' = IF core = NoVersion THEN Booted ELSE core

(* A call that fails may or may not have had its effect.                   *)
StopFails(call)  == call \in FailingCalls /\ (SystemctlStop \/ UNCHANGED service)
StartFails(call) == call \in FailingCalls /\ (SystemctlStart \/ UNCHANGED service)

NodeDies ==
  /\ core # NoVersion /\ deaths < MaxDeaths
  /\ core' = NoVersion /\ deaths' = deaths + 1
  /\ UNCHANGED <<storeVars, unit, manager, alarm, crashes, restarts>>

(* Restart=on-failure *)
NodeRespawns ==
  /\ unit = "active" /\ core = NoVersion /\ Booted # NoVersion
  /\ core' = Booted
  /\ UNCHANGED <<storeVars, unit, manager, alarm, bounds>>

(* A poll has found the node down or unwell, and Guardian.Evaluate changes *)
(* its state to OFFLINE or UNHEALTHY with budget left.                     *)
GuardianSeesTrouble ==
  /\ ~alarm /\ restarts < MaxRestarts
  /\ core \in Unfit \cup {NoVersion}
  /\ alarm' = TRUE
  /\ UNCHANGED <<storeVars, service, manager, bounds>>

GuardianRestarts ==
  /\ alarm
  /\ alarm' = FALSE /\ restarts' = restarts + 1
  /\ unit' = "active" /\ core' = Booted
  /\ UNCHANGED <<storeVars, manager, deaths, crashes>>

-----------------------------------------------------------------------------
Go(h, next) == phase' = [phase EXCEPT ![h] = next]

GoOn(h, next) == Go(h, next) /\ UNCHANGED <<task, clean, log, alarm, bounds>>

(* The operation returns, with or without an error.                        *)
Finish(h) ==
  /\ Go(h, "idle")
  /\ task' = [task EXCEPT ![h] = NoTask]
  /\ clean' = [clean EXCEPT ![h] = TRUE]

GiveUp(h) == Finish(h) /\ UNCHANGED <<log, alarm, bounds>>

(* The new row is the caller's task; a row that cannot be written is lost. *)
RecordRow(h, status) ==
  \/ log' = [status |-> status, from |-> task[h].from, to |-> task[h].to, clean |-> clean[h]]
  \/ "record" \in FailingCalls /\ UNCHANGED log

(* SwitchVersion(v), whose compatibility profile was found safe.           *)
SwitchVersion(h, v) ==
  /\ phase[h] = "idle" /\ v \in Installed
  /\ task' = [task EXCEPT ![h] = [from |-> current, to |-> v]]
  /\ Go(h, "switch")
  /\ UNCHANGED <<storeVars, service, clean, log, alarm, bounds>>

(* Mutant: the node keeps running while "current" moves.                   *)
SwitchRunning(h) ==
  /\ phase[h] = "switch"
  /\ SwitchStat(h, task[h].to)
  /\ GoOn(h, "activate") /\ UNCHANGED service

SwitchStop(h) ==
  /\ phase[h] = "switch"
  /\ \/ SystemctlStop /\ SwitchStat(h, task[h].to) /\ GoOn(h, "activate")
     \/ StopFails("stop") /\ GiveUp(h) /\ UNCHANGED storeVars

(* PromoteVersion failed: the node stays stopped.                          *)
SwitchFails(h) ==
  /\ phase[h] = "activate" /\ at[h] = "error"
  /\ GiveUp(h)
  /\ UNCHANGED <<storeVars, service>>

SwitchDone(h) ==
  /\ phase[h] = "activate" /\ at[h] = "done"
  /\ GoOn(h, "start")
  /\ UNCHANGED <<storeVars, service>>

(* Update, from the download on: the manifest offers v.                    *)
Update(h, v) ==
  /\ phase[h] = "idle"
  /\ StageReadCurrent(h, v)
  /\ task' = [task EXCEPT ![h] = [from |-> current, to |-> v]]
  /\ Go(h, "install")
  /\ UNCHANGED <<service, clean, log, alarm, bounds>>

UpdateFails(h) ==
  /\ phase[h] = "install" /\ at[h] = "error"
  /\ GiveUp(h)
  /\ UNCHANGED <<storeVars, service>>

(* RecordManifestSeen, after Promote; its failure ends the operation.      *)
UpdatePromoted(h) ==
  /\ phase[h] = "install" /\ at[h] = "done"
  /\ GoOn(h, "promoted") \/ ("seen" \in FailingCalls /\ GiveUp(h))
  /\ UNCHANGED <<storeVars, service>>

(* Mutant: the running node is taken for the promoted one.                 *)
UpdateKeepsRunning(h) ==
  /\ phase[h] = "promoted"
  /\ GoOn(h, "start")
  /\ UNCHANGED <<storeVars, service>>

UpdateStop(h) ==
  /\ phase[h] = "promoted"
  /\ \/ SystemctlStop /\ GoOn(h, "start")
     \/ StopFails("stop") /\ GiveUp(h)
  /\ UNCHANGED storeVars

-----------------------------------------------------------------------------
(* activateAndValidate, from StartCore on.                                 *)

Start(h) ==
  /\ phase[h] = "start"
  /\ \/ SystemctlStart /\ GoOn(h, "probe") /\ UNCHANGED storeVars
     \/ /\ StartFails("start")
        /\ IF task[h].from = NoVersion
           THEN GoOn(h, "undo.record") /\ UNCHANGED storeVars
           ELSE GoOn(h, "undo") /\ SwitchStat(h, task[h].from)

Healthy == HasProbe /\ core \notin Unfit \cup {NoVersion}

ProbePasses(h) ==
  /\ phase[h] = "probe" /\ Healthy
  /\ PruneList(h)
  /\ GoOn(h, "commit")
  /\ UNCHANGED service

ProbeFails(h) ==
  /\ phase[h] = "probe" /\ ~Healthy
  /\ IF task[h].from = NoVersion
     THEN GoOn(h, "undo.record") /\ UNCHANGED storeVars
     ELSE GoOn(h, "undo") /\ SwitchStat(h, task[h].from)
  /\ UNCHANGED service

Commit(h) ==
  /\ phase[h] = "commit" /\ at[h] \in Ready
  /\ RecordRow(h, "succeeded")
  /\ Finish(h)
  /\ UNCHANGED <<storeVars, service, alarm, bounds>>

(* rollbackBinary: PromoteVersion of the old release, stop, start.  The    *)
(* first error skips the rest, and the row is written in any case.         *)
UndoGoesWrong(h) ==
  /\ clean' = [clean EXCEPT ![h] = FALSE]
  /\ Go(h, "undo.record")
  /\ UNCHANGED <<task, log, alarm, bounds>>

(* Mutant: the release on trial is not stopped before the old one starts.  *)
UndoKeepsRunning(h) ==
  /\ phase[h] = "undo" /\ at[h] \in Ready
  /\ GoOn(h, "undo.start")
  /\ UNCHANGED <<storeVars, service>>

(* Mutant: an error of PromoteVersion is not carried into the row. *)
UndoneAnyway(h) ==
  /\ phase[h] = "undo" /\ at[h] \in Ready
  /\ GoOn(h, "undo.stop")
  /\ UNCHANGED <<storeVars, service>>

UndoPromoted(h) ==
  /\ phase[h] = "undo"
  /\ \/ at[h] = "done" /\ GoOn(h, "undo.stop")
     \/ at[h] = "error" /\ UndoGoesWrong(h)
  /\ UNCHANGED <<storeVars, service>>

UndoStop(h) ==
  /\ phase[h] = "undo.stop"
  /\ \/ SystemctlStop /\ GoOn(h, "undo.start")
     \/ StopFails("undo.stop") /\ UndoGoesWrong(h)
  /\ UNCHANGED storeVars

(* Mutant: the old release is left to be started by someone else.          *)
UndoEndsStopped(h) ==
  /\ phase[h] = "undo.start"
  /\ GoOn(h, "undo.record")
  /\ UNCHANGED <<storeVars, service>>

UndoStart(h) ==
  /\ phase[h] = "undo.start"
  /\ \/ SystemctlStart /\ GoOn(h, "undo.record")
     \/ StartFails("undo.start") /\ UndoGoesWrong(h)
  /\ UNCHANGED storeVars

UndoRecord(h) ==
  /\ phase[h] = "undo.record"
  /\ RecordRow(h, "rolled_back")
  /\ Finish(h)
  /\ UNCHANGED <<storeVars, service, alarm, bounds>>

(* The agent dies; the node does not notice.                               *)
AgentCrash ==
  /\ crashes < MaxCrashes /\ crashes' = crashes + 1
  /\ Crash
  /\ phase' = [h \in Callers |-> "idle"] /\ task' = [h \in Callers |-> NoTask]
  /\ clean' = [h \in Callers |-> TRUE] /\ alarm' = FALSE
  /\ UNCHANGED <<service, log, deaths, restarts>>

StoreStep(h) == Continue(h) /\ UNCHANGED <<service, manager, alarm, bounds>>

Request(h) == \E v \in Versions : SwitchVersion(h, v) \/ Update(h, v)

Working(h) ==
  \/ SwitchStop(h) \/ SwitchFails(h) \/ SwitchDone(h)
  \/ UpdateFails(h) \/ UpdatePromoted(h) \/ UpdateStop(h)
  \/ Start(h) \/ ProbePasses(h) \/ ProbeFails(h) \/ Commit(h)
  \/ UndoPromoted(h) \/ UndoStop(h) \/ UndoStart(h) \/ UndoRecord(h)
  \/ StoreStep(h)

Node == NodeDies \/ NodeRespawns
Guard == GuardianSeesTrouble \/ GuardianRestarts

Next == Node \/ Guard \/ AgentCrash \/ \E h \in Callers : Request(h) \/ Working(h)

Spec == Init /\ [][Next]_vars

(* Goroutines run to the end of their operation.                           *)
FairSpec == Spec /\ \A h \in Callers : WF_vars(Working(h))

-----------------------------------------------------------------------------
(* An operation is recorded as succeeded only while no release but the one *)
(* it went to is running: the probe judged the right binary.               *)
CoreSuccessMeansRunning ==
  [][log' # log /\ log'.status = "succeeded" => core \in {log'.to, NoVersion}]_vars

(* A rollback that is recorded without an error of its own has put back    *)
(* both the pointer and the process, whatever died in between.             *)
RollbackRestores ==
  [][log' # log /\ log'.status = "rolled_back" /\ log'.clean /\ log'.from # NoVersion =>
        current = log'.from /\ core \in {log'.from, NoVersion}]_vars

(* A row that says a release was put to work, the new one or the old one,  *)
(* is written only while systemd has orders to run the node: no operation  *)
(* claims an end state and leaves qrxd.service stopped.                    *)
RowsMeanStarted ==
  [][log' # log /\ log'.clean /\ (log'.status = "rolled_back" => log'.from # NoVersion) =>
        unit = "active"]_vars

(* One caller's operations keep the promise of Rollout, however the node   *)
(* and the guardian behave meanwhile.  A row that names no release it came *)
(* from does not claim that one was put back.                              *)
TheCaller == CHOOSE h \in Callers : TRUE

JobOf(h) ==
  LET undoing == phase[h] \in {"undo", "undo.stop", "undo.start", "undo.record"}
      undone  == phase[h] \in {"undo.stop", "undo.start", "undo.record"}
  IN  IF phase[h] = "idle" THEN NoTask
      ELSE [from |-> task[h].from, to |-> task[h].to,
            stage |-> IF current = task[h].to /\ (task[h].from = task[h].to => ~undone)
                      THEN "switched" ELSE IF undoing THEN "undone" ELSE "prepared"]

Contract == INSTANCE Rollout WITH
  Releases <- Versions, None <- NoVersion, Idle <- NoTask, Revertible <- FALSE,
  live <- current, job <- JobOf(TheCaller),
  report <- [status |-> log.status, clean |-> log.clean /\ (log.status = "rolled_back" => log.from # NoVersion)]

KeepsRolloutContract == Contract!Spec

(* Between operations the node executes the release "current" names.       *)
ServesCurrent ==
  (\A h \in Callers : phase[h] = "idle") => core \in {current, NoVersion}

(* Update and SwitchVersion roll back what validation rejects: a release   *)
(* that runs and is well stays.                                            *)
OnlyUnfitRolledBack ==
  [][log' # log /\ log'.status = "rolled_back" => log'.to \in Unfit \cup Stillborn]_vars

(* An operation that has stopped the node, and has a release to go back    *)
(* to, gets it started again: with the new release or with the old one.    *)
StopIsTemporary ==
  \A h \in Callers :
    /\ unit = "stopped" /\ phase[h] \in {"activate", "start", "undo.start"}
    /\ task[h].from # NoVersion
    ~> unit = "active"
=============================================================================
