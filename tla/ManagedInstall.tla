---------------------------- MODULE ManagedInstall ----------------------------
(***************************************************************************)
(* Manager.Install and Manager.Rollback for a component the agent updates  *)
(* while it runs: the dashboard, or a compatibility profile                *)
(* (agent/updates/manager.go, rollback.go).  A handler checks the channel's *)
(* manifest against the policy and the installed release, downloads,       *)
(* stages and promotes the new release, has its controller start and check *)
(* it, and otherwise reverts the store.  The dashboard is served from the  *)
(* release "current" names at each request.                                *)
(*                                                                         *)
(* The steps of the store are those of ReleaseStore.  A handler is the     *)
(* goroutine of one admin request, which always says Manual: the update    *)
(* window does not apply to it.                                            *)
(***************************************************************************)
EXTENDS ReleaseStore, UpdateRules

CONSTANTS
  Published,       \* the manifests ever signed for the channel
  Running,         \* the versions CurrentVersions reports
  Pins,            \* the versions an operator pins the component to
  NoTask,          \* no operation is being performed
  StartFails,      \* releases whose Start fails
  HealthFails,     \* releases whose HealthCheck fails
  RequiresRestart, \* whether the controller is stopped before the switch
  FailingCalls     \* controller and database calls that may fail

VARIABLES
  phase,           \* per handler: how far Install or Rollback has come
  task,            \* per handler: the versions it goes from and to, and the manifest
  clean,           \* per handler: no step of the automatic rollback failed
  log,             \* the newest row of update_history for the component
  lastSeen,        \* settings: released_at of the last manifest acted on
  pin, locked      \* settings: the pinned version, the update lock

manager  == <<phase, task, clean, log>>
settings == <<lastSeen, pin, locked>>
vars == <<storeVars, manager, settings>>

Bad == StartFails \cup HealthFails
Dates == {m.date : m \in Published}

ASSUME StringsAssumption == Versions \subseteq Strings /\ Unset \notin Strings
ASSUME ControllerAssumption ==
  Bad \cup Pins \subseteq Versions /\ RequiresRestart \in BOOLEAN
ASSUME CallsAssumption ==
  FailingCalls \subseteq {"started", "download", "stop", "start", "seen", "record"}
ASSUME PublishedAssumption == \A m \in Published : m.version \in Versions /\ m.date \in Nat

Undoing == {"undo", "undo.start", "undo.record", "back.undo"}
Phases == {"idle", "fetched", "admitted", "install", "stopped", "start", "check", "commit",
           "record", "back", "back.start", "back.check"} \cup Undoing
Tasks == [from : Pointer, to : Versions, date : Dates \cup {Unset}, down : BOOLEAN]
ASSUME NoTaskAssumption ==
  /\ NoTask \notin Tasks
  /\ NoTask \notin [from : Pointer, to : Versions, stage : {"prepared", "switched", "undone"}]

HistoryRows == [status : {"none", "started", "failed", "succeeded", "rolled_back"},
                clean : BOOLEAN]

InstallTypeOK ==
  /\ TypeOK
  /\ phase \in [Callers -> Phases] /\ task \in [Callers -> Tasks \cup {NoTask}]
  /\ clean \in [Callers -> BOOLEAN] /\ log \in HistoryRows
  /\ lastSeen \in Dates \cup {Unset} /\ pin \in Pins \cup {Unset} /\ locked \in BOOLEAN
  /\ \A h \in Callers : (phase[h] = "idle") = (task[h] = NoTask)

Init ==
  /\ StoreInit
  /\ phase = [h \in Callers |-> "idle"] /\ task = [h \in Callers |-> NoTask]
  /\ clean = [h \in Callers |-> TRUE]
  /\ log = [status |-> "none", clean |-> TRUE]
  /\ lastSeen = Unset /\ pin = Unset /\ locked = FALSE

-----------------------------------------------------------------------------
Go(h, next) == phase' = [phase EXCEPT ![h] = next]

GoOn(h, next) == Go(h, next) /\ UNCHANGED <<task, clean, log>>

Finish(h) ==
  /\ Go(h, "idle")
  /\ task' = [task EXCEPT ![h] = NoTask]
  /\ clean' = [clean EXCEPT ![h] = TRUE]

(* Mutant: an abandoned operation keeps its task.                          *)
GoesAway(h) == Go(h, "idle") /\ UNCHANGED <<task, clean, log>>

GiveUp(h) == Finish(h) /\ UNCHANGED log

(* A row that cannot be written is lost. *)
RecordRow(h, status) ==
  \/ log' = [status |-> status, clean |-> clean[h]]
  \/ "record" \in FailingCalls /\ UNCHANGED log

Fails(h) == RecordRow(h, "failed") /\ Finish(h)

-----------------------------------------------------------------------------
(* What Install asks of the manifest's entry once the update lock is open  *)
(* and the manifest's signature and date have been checked.                *)

CurrentVersion == IF current = NoVersion THEN Unset ELSE current

Admissible(m, down) ==
  /\ pin \in {Unset, m.version}
  /\ m.version \notin {current, previous}
  /\ CheckNotDowngrade(CurrentVersion, m.version, down)
  /\ CheckCompatibility(m.notes, Running)

-----------------------------------------------------------------------------
(* Install(component, opts): down is AllowDowngrade; the source serves any *)
(* manifest it ever published.  A refused request changes nothing.         *)

fetchVerifiedManifest(m) == m \in Published /\ CheckNotReplayed(m.date, lastSeen)

Install(h, m, down, force) ==
  /\ phase[h] = "idle"
  /\ ~locked \/ force
  /\ fetchVerifiedManifest(m)
  /\ task' = [task EXCEPT ![h] = [from |-> current, to |-> m.version, date |-> m.date,
                                  down |-> down]]
  /\ Go(h, "fetched")
  /\ UNCHANGED <<storeVars, clean, log>> /\ UNCHANGED settings

(* The remaining checks read the settings and the store again.             *)
Admit(h, m) ==
  /\ phase[h] = "fetched" /\ m.version = task[h].to /\ m.date = task[h].date
  /\ task' = [task EXCEPT ![h].from = current]
  /\ Admissible(m, task[h].down)
  /\ log' = [status |-> "started", clean |-> TRUE]
  /\ Go(h, "admitted")
  /\ UNCHANGED <<storeVars, clean>> /\ UNCHANGED settings

Refuse(h, m) ==
  /\ phase[h] = "fetched" /\ m.version = task[h].to /\ m.date = task[h].date
  /\ ~Admissible(m, task[h].down) \/ "started" \in FailingCalls
  /\ GiveUp(h)
  /\ UNCHANGED storeVars /\ UNCHANGED settings

(* DOWNLOAD and VERIFY, then STAGE.                                        *)
Download(h) ==
  /\ phase[h] = "admitted"
  /\ \/ StageReadCurrent(h, task[h].to) /\ GoOn(h, "install")
     \/ "download" \in FailingCalls /\ Fails(h) /\ UNCHANGED storeVars
  /\ UNCHANGED settings

(* Stage or the extraction failed, or Promote did.                         *)
InstallFails(h) ==
  /\ phase[h] \in {"install", "stopped"} /\ at[h] = "error"
  /\ Fails(h)
  /\ UNCHANGED storeVars /\ UNCHANGED settings

(* STOP: its failure discards what is staged.                              *)
Stop(h) ==
  /\ phase[h] = "install" /\ at[h] = "filled"
  /\ \/ GoOn(h, "stopped") /\ UNCHANGED storeVars
     \/ /\ RequiresRestart /\ "stop" \in FailingCalls
        /\ GoTo(h, "rejected") /\ UNCHANGED <<pointers, files, ver, seen, list, manager>>
  /\ UNCHANGED settings

Promoted(h) ==
  /\ phase[h] = "stopped" /\ at[h] = "done"
  /\ GoOn(h, "start")
  /\ UNCHANGED storeVars /\ UNCHANGED settings

(* Controller.Extract unpacks the artifact into the staged directory.      *)
Extract(h) ==
  /\ phase[h] = "install" /\ at[h] \in {"staged", "extract"}
  /\ Continue(h)
  /\ UNCHANGED manager /\ UNCHANGED settings

StoreStep(h) ==
  /\ phase[h] = "install" => at[h] \notin {"staged", "extract", "filled"}
  /\ Continue(h)
  /\ UNCHANGED manager /\ UNCHANGED settings

-----------------------------------------------------------------------------
(* START, HEALTH CHECK, and COMMIT or ROLLBACK.                            *)

StartSucceeds == current # NoVersion /\ current \notin StartFails
StartMayFail  == ~StartSucceeds \/ "start" \in FailingCalls
Healthy == current # NoVersion /\ current \notin HealthFails

Start(h) ==
  /\ phase[h] = "start"
  /\ \/ StartSucceeds /\ GoOn(h, "check") /\ UNCHANGED storeVars
     \/ StartMayFail /\ GoOn(h, "undo") /\ RevertReadPrevious(h)
  /\ UNCHANGED settings

(* Mutant: what the health check finds is not looked at.                   *)
HealthIgnored(h) ==
  /\ phase[h] = "check"
  /\ GoOn(h, "commit") /\ PruneList(h)
  /\ UNCHANGED settings

HealthCheck(h) ==
  /\ phase[h] = "check"
  /\ IF Healthy
     THEN GoOn(h, "commit") /\ PruneList(h)
     ELSE GoOn(h, "undo") /\ RevertReadPrevious(h)
  /\ UNCHANGED settings

(* An error of Prune is ignored; one of RecordManifestSeen is returned,    *)
(* with the new release live and no row.                                   *)
Commit(h) ==
  /\ phase[h] = "commit" /\ at[h] \in Ready
  /\ \/ lastSeen' = task[h].date /\ GoOn(h, "record")
     \/ "seen" \in FailingCalls /\ GiveUp(h) /\ UNCHANGED lastSeen
  /\ UNCHANGED <<storeVars, pin, locked>>

Succeed(h) ==
  /\ phase[h] = "record"
  /\ RecordRow(h, "succeeded") /\ Finish(h)
  /\ UNCHANGED storeVars /\ UNCHANGED settings

UndoGoesWrong(h) ==
  /\ clean' = [clean EXCEPT ![h] = FALSE]
  /\ Go(h, "undo.record")
  /\ UNCHANGED <<task, log>>

(* Mutant: an error of RollbackToPrevious is not carried into the row.     *)
UndoneAnyway(h) ==
  /\ phase[h] = "undo" /\ at[h] \in Ready
  /\ GoOn(h, "undo.start")
  /\ UNCHANGED storeVars /\ UNCHANGED settings

Undone(h) ==
  /\ phase[h] = "undo"
  /\ \/ at[h] = "done" /\ GoOn(h, "undo.start")
     \/ at[h] = "error" /\ UndoGoesWrong(h)
  /\ UNCHANGED storeVars /\ UNCHANGED settings

UndoStart(h) ==
  /\ phase[h] = "undo.start"
  /\ \/ StartSucceeds /\ GoOn(h, "undo.record")
     \/ StartMayFail /\ UndoGoesWrong(h)
  /\ UNCHANGED storeVars /\ UNCHANGED settings

UndoRecord(h) ==
  /\ phase[h] = "undo.record"
  /\ RecordRow(h, "rolled_back") /\ Finish(h)
  /\ UNCHANGED storeVars /\ UNCHANGED settings

-----------------------------------------------------------------------------
(* Rollback(component), on an operator's request.                          *)

Rollback(h) ==
  /\ phase[h] = "idle"
  /\ previous # NoVersion /\ RevertReadPrevious(h)
  /\ task' = [task EXCEPT ![h] = [from |-> current, to |-> previous, date |-> Unset,
                                  down |-> TRUE]]
  /\ Go(h, "back")
  /\ UNCHANGED <<clean, log>> /\ UNCHANGED settings

RolledBack(h) ==
  /\ phase[h] = "back"
  /\ \/ at[h] = "done" /\ GoOn(h, "back.start")
     \/ at[h] = "error" /\ GiveUp(h)
  /\ UNCHANGED storeVars /\ UNCHANGED settings

(* A target that does not start stays.                                     *)
BackStart(h) ==
  /\ phase[h] = "back.start"
  /\ \/ StartSucceeds /\ GoOn(h, "back.check")
     \/ StartMayFail /\ GiveUp(h)
  /\ UNCHANGED storeVars /\ UNCHANGED settings

(* A target that fails its health check is left again.                     *)
BackCheck(h) ==
  /\ phase[h] = "back.check"
  /\ IF Healthy
     THEN RecordRow(h, "succeeded") /\ Finish(h) /\ UNCHANGED storeVars
     ELSE GoOn(h, "back.undo") /\ RevertReadPrevious(h)
  /\ UNCHANGED settings

BackUndone(h) ==
  /\ phase[h] = "back.undo" /\ at[h] \in Ready
  /\ GiveUp(h)
  /\ UNCHANGED storeVars /\ UNCHANGED settings

-----------------------------------------------------------------------------
(* The policy, which is set behind a running operation's back.             *)

SetPin(v) == pin' = v /\ UNCHANGED <<storeVars, manager, lastSeen, locked>>
ClearPin == pin' = Unset /\ UNCHANGED <<storeVars, manager, lastSeen, locked>>
SetLocked(on) == locked' = on /\ UNCHANGED <<storeVars, manager, lastSeen, pin>>

(* The agent dies in the middle of an operation.  Nothing takes it up again. *)
AgentCrash ==
  /\ \E h \in Callers : phase[h] # "idle"
  /\ Crash
  /\ phase' = [h \in Callers |-> "idle"] /\ task' = [h \in Callers |-> NoTask]
  /\ clean' = [h \in Callers |-> TRUE]
  /\ UNCHANGED <<log, settings>>

Operator ==
  \/ \E v \in Pins : SetPin(v)
  \/ ClearPin
  \/ \E on \in BOOLEAN : SetLocked(on)

Request(h) ==
  \/ \E m \in Published, down, force \in BOOLEAN : Install(h, m, down, force)
  \/ Rollback(h)

Working(h) ==
  \/ \E m \in Published : Admit(h, m) \/ Refuse(h, m)
  \/ Download(h) \/ InstallFails(h) \/ Stop(h) \/ Promoted(h)
  \/ Extract(h) \/ StoreStep(h)
  \/ Start(h) \/ HealthCheck(h) \/ Commit(h) \/ Succeed(h)
  \/ Undone(h) \/ UndoStart(h) \/ UndoRecord(h)
  \/ RolledBack(h) \/ BackStart(h) \/ BackCheck(h) \/ BackUndone(h)

Next == Operator \/ AgentCrash \/ \E h \in Callers : Request(h) \/ Working(h)

Spec == Init /\ [][Next]_vars

(* Goroutines run to the end of their operation.                           *)
FairSpec == Spec /\ \A h \in Callers : WF_vars(Working(h))

-----------------------------------------------------------------------------
(* One handler's operations keep the promise of Rollout: only the release  *)
(* it left or the one it is going to ever serves, it switches at most once *)
(* and back at most once, and the row that ends it says what happened,     *)
(* also when pointer writes fail half-way and when the agent dies.         *)
TheHandler == CHOOSE h \in Callers : TRUE

JobOf(h) ==
  IF phase[h] \in {"idle", "fetched"} THEN NoTask
  ELSE [from |-> task[h].from, to |-> task[h].to,
        stage |-> IF current = task[h].to THEN "switched"
                  ELSE IF phase[h] \in Undoing THEN "undone" ELSE "prepared"]

Contract == INSTANCE Rollout WITH
  Releases <- Versions, None <- NoVersion, Idle <- NoTask, Revertible <- FALSE,
  live <- current, job <- JobOf(TheHandler), report <- log

KeepsRolloutContract == Contract!Spec

(* The date a manifest is compared with never moves back, so that a        *)
(* manifest older than one acted on stays rejected.                        *)
ReplayGuardAdvances == [][lastSeen' # lastSeen /\ lastSeen # Unset => lastSeen' > lastSeen]_vars

(* The precedence of semantic versions, field by field.                    *)
Precedes(a, b) ==
  LET x == Parsed[a]
      y == Parsed[b]
  IN  \/ x.major < y.major
      \/ x.major = y.major /\ x.minor < y.minor
      \/ x.major = y.major /\ x.minor = y.minor /\ x.patch < y.patch
      \/ /\ x.major = y.major /\ x.minor = y.minor /\ x.patch = y.patch
         /\ x.pre # 0 /\ (y.pre = 0 \/ x.pre < y.pre)

(* The component moves to an older version only where an operator asked    *)
(* for it (AllowDowngrade, Rollback), or where an update is being undone.  *)
DowngradeAsked ==
  \E h \in Callers : task[h] # NoTask /\ (task[h].down \/ phase[h] \in Undoing)

NoUnaskedDowngrade ==
  [][current' # current /\ current # NoVersion /\ Precedes(current', current) =>
       DowngradeAsked]_vars

(* A release that fails its health check does not stay, unless the         *)
(* rollback reports an error of its own, there is nothing to roll back to, *)
(* or the agent dies: then the row "started" stays the last one.           *)
BadReleaseLeaves ==
  \A h \in Callers :
    phase[h] = "check" /\ current \in HealthFails /\ previous # NoVersion
      ~> \/ current \notin HealthFails \/ ~clean[h]
         \/ phase[h] = "idle" /\ log.status = "started"
=============================================================================
