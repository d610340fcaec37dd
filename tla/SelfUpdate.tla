----------------------------- MODULE SelfUpdate -----------------------------
(***************************************************************************)
(* The life of a self-binary update of the "agent" component.              *)
(*                                                                         *)
(* An HTTP handler runs Manager.Install or Manager.Rollback on the agent's *)
(* release store and asks the process to restart.  systemd execs whatever  *)
(* "current" names, because the launcher is a symlink chain into the       *)
(* store.  The new process first runs BootGuard, which counts boots while  *)
(* a pending_self_update marker exists and rolls back when there are too   *)
(* many, and later ResumeSelfUpdate, which runs the health check that      *)
(* Install deferred and commits or rolls back.                             *)
(*                                                                         *)
(* The marker, the boot counter and the update history live in SQLite,     *)
(* the pointers in the file system: no transaction spans the two, and the  *)
(* process may die between any two steps.  Main is the startup goroutine,  *)
(* the other callers of the store are the HTTP handlers.                   *)
(***************************************************************************)
EXTENDS ReleaseStore

CONSTANTS
  Main,              \* the startup goroutine
  Handlers,          \* goroutines serving POST /updates/install and /updates/rollback
  NoMarker,          \* there is no pending_self_update.agent setting
  Broken,            \* releases whose binary dies before it reaches ResumeSelfUpdate
  Mislabelled,       \* releases whose binary reports another version than their name
  MaxAttempts,       \* BootGuard.EffectiveMaxAttempts
  Patient,           \* requests are made only while no other one is being served
  OperatorRollback,  \* whether POST /updates/rollback is ever called
  FailingWrites,     \* database writes that may fail
  CrashIn,           \* phases of the process in which it may be killed
  MaxCrashes         \* how often it may be killed

ASSUME CallersAssumption == Callers = Handlers \cup {Main} /\ Main \notin Handlers
ASSUME AttemptsAssumption == MaxAttempts \in Nat \ {0} /\ MaxCrashes \in Nat
ASSUME OperatorAssumption == Patient \in BOOLEAN /\ OperatorRollback \in BOOLEAN
ASSUME NoMarkerAssumption ==
  /\ NoMarker \notin [from : Versions \cup {NoVersion}, to : Versions]
  /\ NoMarker \notin [from : Pointer, to : Pointer, stage : {"prepared", "switched", "undone"}]

VARIABLES
  proc,        \* how far the process has come, "down" when there is none
  running,     \* the release whose binary the process executes
  marker,      \* pending_self_update.agent
  attempts,    \* boot_attempts.agent
  outcome,     \* the newest row of update_history
  job, req,    \* per handler: what it is doing, and for which update
  restarting,  \* RequestSelfRestart was called
  guardErr,    \* the error CheckAndRecordAttempt will return
  crashes      \* how often the process was killed

mainVars == <<proc, running, guardErr>>
dbVars   == <<marker, attempts, outcome>>
httpVars == <<job, req, restarting>>
vars == <<storeVars, mainVars, dbVars, httpVars, crashes>>

Guarding == {"guard", "guard.rollback", "guard.clear", "guard.reset"}
Resuming == {"resume", "resume.commit", "resume.rollback", "resume.clear"}
Phases == {"down", "start", "serve"} \cup Guarding \cup Resuming
Jobs == {"idle", "download", "install", "reply", "rollback"}
Updates == [from : Pointer, to : Versions]
Rows == [status : {"none", "started", "succeeded", "rolled_back", "failed"}, to : Pointer]
Writes == {"guard.count", "guard.record", "guard.clear", "guard.reset",
           "resume.reset", "resume.record", "resume.clear",
           "install.record", "install.mark", "install.seen", "rollback.record"}

ASSUME FailuresAssumption ==
  /\ Broken \subseteq Versions /\ Mislabelled \subseteq Versions
  /\ FailingWrites \subseteq Writes /\ CrashIn \subseteq Phases \ {"down"}

SelfTypeOK ==
  /\ TypeOK
  /\ proc \in Phases /\ running \in Pointer /\ guardErr \in BOOLEAN
  /\ marker \in Updates \cup {NoMarker} /\ attempts \in 0 .. MaxAttempts + 1
  /\ outcome \in Rows
  /\ job \in [Handlers -> Jobs] /\ restarting \in BOOLEAN
  /\ req \in [Handlers -> Updates \cup {NoMarker}]
  /\ crashes \in 0 .. MaxCrashes

Row(status, to) == [status |-> status, to |-> to]

(* install.sh laid out the bundled release, and the process is not up yet. *)
Init ==
  /\ StoreInit /\ current = Bundled
  /\ proc = "down" /\ running = NoVersion /\ guardErr = FALSE
  /\ marker = NoMarker /\ attempts = 0 /\ outcome = Row("none", NoVersion)
  /\ job = [h \in Handlers |-> "idle"] /\ req = [h \in Handlers |-> NoMarker]
  /\ restarting = FALSE /\ crashes = 0

-----------------------------------------------------------------------------
(* The process ends: every goroutine is gone, disk and database remain.    *)
Die ==
  /\ Crash
  /\ proc' = "down" /\ running' = NoVersion /\ guardErr' = FALSE
  /\ job' = [h \in Handlers |-> "idle"] /\ req' = [h \in Handlers |-> NoMarker]
  /\ restarting' = FALSE
  /\ UNCHANGED <<marker, attempts, outcome>>

(* systemd execs the launcher, a symlink into the release "current" names. *)
Exec ==
  /\ proc = "down"
  /\ current # NoVersion /\ files[current] = "complete"
  /\ proc' = "guard"
  /\ running' = current
  /\ UNCHANGED <<storeVars, guardErr, dbVars, httpVars, crashes>>

Proceed(phase) == proc' = phase /\ UNCHANGED <<running, crashes, httpVars>>

-----------------------------------------------------------------------------
(* BootGuard.CheckAndRecordAttempt.                                        *)

(* Mutant: every boot is the first.                                        *)
CountedAfresh == 1

(* The boots counted so far.  Beyond MaxAttempts the code only ever asks   *)
(* whether the budget is spent, so the count stops there.                  *)
Counted == IF attempts > MaxAttempts THEN attempts ELSE attempts + 1

GuardNothingPending ==
  /\ proc = "guard" /\ marker = NoMarker
  /\ Proceed("start")
  /\ UNCHANGED <<storeVars, guardErr, dbVars>>

GuardWithinBudget ==
  /\ proc = "guard" /\ marker # NoMarker /\ Counted <= MaxAttempts
  /\ attempts' = Counted
  /\ Proceed("start")
  /\ UNCHANGED <<storeVars, guardErr, marker, outcome>>

(* The count cannot be stored: the boot goes on, and is not counted.       *)
GuardCountFails ==
  /\ proc = "guard" /\ marker # NoMarker
  /\ "guard.count" \in FailingWrites
  /\ Proceed("start")
  /\ UNCHANGED <<storeVars, guardErr, dbVars>>

GuardOverBudget ==
  /\ proc = "guard" /\ marker # NoMarker /\ Counted > MaxAttempts
  /\ attempts' = Counted
  /\ RevertReadPrevious(Main)
  /\ Proceed("guard.rollback")
  /\ UNCHANGED <<guardErr, marker, outcome>>

(* Mutant: the process ends before the marker is deleted.                  *)
GuardRecordOnly ==
  /\ proc = "guard.rollback" /\ at[Main] = "done"
  /\ Crash
  /\ proc' = "down" /\ running' = NoVersion
  /\ outcome' = Row("rolled_back", marker.from)
  /\ UNCHANGED <<guardErr, marker, attempts, httpVars, crashes>>

(* The rollback worked: the history row is written, then the marker and    *)
(* the counter are deleted, each in a transaction of its own.              *)
GuardRecord ==
  /\ proc = "guard.rollback" /\ at[Main] = "done"
  /\ \/ outcome' = Row("rolled_back", marker.from) /\ UNCHANGED guardErr
     \/ "guard.record" \in FailingWrites /\ guardErr' = TRUE /\ UNCHANGED outcome
  /\ Proceed("guard.clear")
  /\ UNCHANGED <<storeVars, marker, attempts>>

(* It did not: marker and counter stay, and the startup goes on regardless. *)
GuardRollbackFailed ==
  /\ proc = "guard.rollback" /\ at[Main] = "error"
  /\ \/ outcome' = Row("failed", marker.from)
     \/ "guard.record" \in FailingWrites /\ UNCHANGED outcome
  /\ Proceed("start")
  /\ UNCHANGED <<storeVars, guardErr, marker, attempts>>

(* Mutant: the marker stays.                                               *)
GuardKeepsMarker ==
  /\ proc = "guard.clear"
  /\ Proceed("guard.reset")
  /\ UNCHANGED <<storeVars, guardErr, dbVars>>

GuardClear ==
  /\ proc = "guard.clear"
  /\ \/ marker' = NoMarker /\ UNCHANGED guardErr
     \/ "guard.clear" \in FailingWrites /\ guardErr' = TRUE /\ UNCHANGED marker
  /\ Proceed("guard.reset")
  /\ UNCHANGED <<storeVars, attempts, outcome>>

(* Mutant: a forced rollback leaves the counter as it is.                  *)
ResetsByVerdict(write) ==
  IF write = "resume.reset" THEN attempts' = 0 ELSE UNCHANGED attempts

(* clearBootAttempts, whose error nobody looks at.                         *)
ResetsAttempts(write) ==
  \/ attempts' = 0
  \/ write \in FailingWrites /\ UNCHANGED attempts

(* Mutant: the startup goes on in the release that was rolled back.        *)
GuardGoesOn ==
  /\ proc = "guard.reset"
  /\ attempts' = 0 /\ guardErr' = FALSE
  /\ Proceed("start")
  /\ UNCHANGED <<storeVars, marker, outcome>>

(* run() exits after a forced rollback, but not when an error came with it. *)
GuardExit ==
  /\ proc = "guard.reset" /\ ~guardErr
  /\ Crash
  /\ proc' = "down" /\ running' = NoVersion
  /\ ResetsAttempts("guard.reset")
  /\ UNCHANGED <<guardErr, marker, outcome, httpVars, crashes>>

GuardErrorIgnored ==
  /\ proc = "guard.reset" /\ guardErr
  /\ ResetsAttempts("guard.reset")
  /\ guardErr' = FALSE
  /\ Proceed("start")
  /\ UNCHANGED <<storeVars, marker, outcome>>

-----------------------------------------------------------------------------
(* Adapter selection and buildControllers, whose BootstrapCurrent changes  *)
(* nothing because "current" is set.  A broken binary does not survive it. *)

StartDies == proc = "start" /\ running \in Broken /\ Die /\ UNCHANGED crashes

StartCompletes ==
  /\ proc = "start" /\ running \notin Broken
  /\ Proceed("resume")
  /\ UNCHANGED <<storeVars, guardErr, dbVars>>

-----------------------------------------------------------------------------
(* Manager.ResumeSelfUpdate for "agent".                                   *)

ResumeNothing ==
  /\ proc = "resume" /\ marker = NoMarker
  /\ Proceed("serve")
  /\ UNCHANGED <<storeVars, guardErr, dbVars>>

(* components.Agent.HealthCheck *)
Reported(v) == IF v \in Mislabelled THEN NoVersion ELSE v
HealthCheck == current = Reported(running)

ResumeHealthy ==
  /\ proc = "resume" /\ marker # NoMarker /\ HealthCheck
  /\ ResetsAttempts("resume.reset")
  /\ PruneList(Main)
  /\ Proceed("resume.commit")
  /\ UNCHANGED <<guardErr, marker, outcome>>

ResumeUnhealthy ==
  /\ proc = "resume" /\ marker # NoMarker /\ ~HealthCheck
  /\ ResetsAttempts("resume.reset")
  /\ RevertReadPrevious(Main)
  /\ Proceed("resume.rollback")
  /\ UNCHANGED <<guardErr, marker, outcome>>

(* Mutant: a status the history does not have.                             *)
LooseVerdict == IF proc = "resume.commit" THEN "succeeded" ELSE "reverted"

Verdict ==
  IF proc = "resume.commit" THEN "succeeded"
  ELSE IF at[Main] = "done" THEN "rolled_back" ELSE "failed"

ResumeRecord ==
  /\ proc \in {"resume.commit", "resume.rollback"} /\ at[Main] \in Ready
  /\ outcome' = Row(Verdict, marker.to)
  /\ Proceed("resume.clear")
  /\ UNCHANGED <<storeVars, guardErr, marker, attempts>>

(* The row cannot be written: ResumeSelfUpdate returns early and the agent *)
(* keeps serving, with the marker left and perhaps the pointers reverted.  *)
ResumeRecordFails ==
  /\ proc \in {"resume.commit", "resume.rollback"} /\ at[Main] \in Ready
  /\ "resume.record" \in FailingWrites
  /\ Proceed("serve")
  /\ UNCHANGED <<storeVars, guardErr, dbVars>>

(* selfUpdateRollbackRequiresRestart: after a rollback the process exits.  *)
ResumeClear ==
  /\ proc = "resume.clear"
  /\ marker' = NoMarker
  /\ IF outcome.status = "rolled_back"
     THEN /\ Crash
          /\ proc' = "down" /\ running' = NoVersion
          /\ UNCHANGED <<crashes, httpVars>>
     ELSE Proceed("serve") /\ UNCHANGED storeVars
  /\ UNCHANGED <<guardErr, attempts, outcome>>

ResumeClearFails ==
  /\ proc = "resume.clear" /\ "resume.clear" \in FailingWrites
  /\ Proceed("serve")
  /\ UNCHANGED <<storeVars, guardErr, dbVars>>

-----------------------------------------------------------------------------
(* The HTTP handlers.                                                      *)

(* Mutant: the listener is up before ResumeSelfUpdate has decided.         *)
AcceptsEarly(h) ==
  /\ proc \in Resuming \cup {"serve"} /\ job[h] = "idle"
  /\ Patient => ~restarting /\ \A g \in Handlers : job[g] = "idle"

(* No request is accepted before the listener is up.  A patient operator   *)
(* also waits for the answer to the last one, and for the restart.         *)
Accepts(h) ==
  /\ proc = "serve" /\ job[h] = "idle"
  /\ Patient => ~restarting /\ \A g \in Handlers : job[g] = "idle"

Serving(h, next) ==
  /\ job' = [job EXCEPT ![h] = next]
  /\ UNCHANGED <<mainVars, crashes>>

(* Manager.Install up to the download.  The manifest may offer any version *)
(* that policy, downgrade and compatibility checks let through; current    *)
(* and previous are refused.                                               *)
InstallBegin(h, v) ==
  /\ Accepts(h) /\ v \notin {current, previous}
  /\ req' = [req EXCEPT ![h] = [from |-> current, to |-> v]]
  /\ outcome' = Row("started", v)
  /\ Serving(h, "download")
  /\ UNCHANGED <<storeVars, marker, attempts, restarting>>

(* Download, checksum or signature failed, or a store operation did.       *)
InstallFails(h) ==
  /\ job[h] = "download" \/ (job[h] = "install" /\ at[h] = "error")
  /\ \/ outcome' = Row("failed", req[h].to)
     \/ "install.record" \in FailingWrites /\ UNCHANGED outcome
  /\ req' = [req EXCEPT ![h] = NoMarker]
  /\ Serving(h, "idle")
  /\ UNCHANGED <<storeVars, marker, attempts, restarting>>

InstallStage(h) ==
  /\ job[h] = "download"
  /\ StageReadCurrent(h, req[h].to)
  /\ Serving(h, "install")
  /\ UNCHANGED <<dbVars, req, restarting>>

(* Promoted: a second "started" row, and then the marker.                  *)
InstallMark(h) ==
  /\ job[h] = "install" /\ at[h] = "done"
  /\ outcome' = Row("started", req[h].to)
  /\ marker' = req[h]
  /\ Serving(h, "reply")
  /\ UNCHANGED <<storeVars, attempts, req, restarting>>

InstallMarkFails(h) ==
  /\ job[h] = "install" /\ at[h] = "done"
  /\ \/ "install.record" \in FailingWrites /\ UNCHANGED outcome
     \/ "install.mark" \in FailingWrites /\ outcome' = Row("started", req[h].to)
  /\ req' = [req EXCEPT ![h] = NoMarker]
  /\ Serving(h, "idle")
  /\ UNCHANGED <<storeVars, marker, attempts, restarting>>

(* RecordManifestSeen, the response, and RequestSelfRestart after it.      *)
InstallReply(h) ==
  /\ job[h] = "reply"
  /\ restarting' = TRUE \/ ("install.seen" \in FailingWrites /\ UNCHANGED restarting)
  /\ req' = [req EXCEPT ![h] = NoMarker]
  /\ Serving(h, "idle")
  /\ UNCHANGED <<storeVars, dbVars>>

(* Manager.Rollback for a self-binary component.                           *)
RollbackBegin(h) ==
  /\ OperatorRollback
  /\ Accepts(h) /\ previous # NoVersion
  /\ RevertReadPrevious(h)
  /\ Serving(h, "rollback")
  /\ UNCHANGED <<dbVars, req, restarting>>

RollbackDone(h) ==
  /\ job[h] = "rollback" /\ at[h] = "done"
  /\ \/ outcome' = Row("rolled_back", current) /\ restarting' = TRUE
     \/ "rollback.record" \in FailingWrites /\ UNCHANGED <<outcome, restarting>>
  /\ Serving(h, "idle")
  /\ UNCHANGED <<storeVars, marker, attempts, req>>

RollbackFails(h) ==
  /\ job[h] = "rollback" /\ at[h] = "error"
  /\ Serving(h, "idle")
  /\ UNCHANGED <<storeVars, dbVars, req, restarting>>

(* Some time after RequestSelfRestart the server is shut down and run()    *)
(* returns, whatever the other handlers are doing.                         *)
Exit == proc = "serve" /\ restarting /\ Die /\ UNCHANGED crashes

(* The process is killed from outside. *)
Killed ==
  /\ proc \in CrashIn /\ crashes < MaxCrashes
  /\ crashes' = crashes + 1
  /\ Die

StoreStep(c) == Continue(c) /\ UNCHANGED <<mainVars, dbVars, httpVars, crashes>>

MainStep ==
  \/ Exec
  \/ GuardNothingPending \/ GuardWithinBudget \/ GuardCountFails \/ GuardOverBudget
  \/ GuardRecord \/ GuardRollbackFailed \/ GuardClear \/ GuardExit \/ GuardErrorIgnored
  \/ StartDies \/ StartCompletes
  \/ ResumeNothing \/ ResumeHealthy \/ ResumeUnhealthy
  \/ ResumeRecord \/ ResumeRecordFails \/ ResumeClear \/ ResumeClearFails
  \/ StoreStep(Main) \/ Exit

Request(h) == RollbackBegin(h) \/ \E v \in Versions : InstallBegin(h, v)

HandlerStep(h) ==
  \/ InstallFails(h) \/ InstallStage(h) \/ InstallMark(h) \/ InstallMarkFails(h)
  \/ InstallReply(h) \/ RollbackDone(h) \/ RollbackFails(h)
  \/ StoreStep(h)

Next == MainStep \/ Killed \/ \E h \in Handlers : Request(h) \/ HandlerStep(h)

Spec == Init /\ [][Next]_vars

(* systemd restarts the process (Restart=always), and goroutines run.      *)
FairSpec ==
  Spec /\ WF_vars(MainStep) /\ \A h \in Handlers : WF_vars(HandlerStep(h))

-----------------------------------------------------------------------------
(* An update is recorded as succeeded only by the binary it installed: the *)
(* health check that decides it ran in the new code.                       *)
SuccessMeansRunning ==
  [][outcome' # outcome /\ outcome'.status = "succeeded" => running = outcome'.to]_vars

(* An automatic rollback goes from the release on trial to the one it      *)
(* replaced, and never the other way round.                                *)
AutomaticRollback ==
  proc \in {"guard.rollback", "resume.rollback"} /\ current' # current
RevertsTheTrial ==
  [][AutomaticRollback => current = marker.to /\ current' = marker.from]_vars

(* While an update is pending, every start of its release spends one of    *)
(* MaxAttempts boots, unless the count cannot be stored, and nothing but   *)
(* the release's own health check gives one back.                          *)
StartsAfresh == proc # "start" /\ proc' = "start"
TrialSpendsBoots ==
  [][marker # NoMarker /\ marker' = marker /\ proc # "resume" =>
       /\ attempts' >= attempts
       /\ StartsAfresh =>
            \/ attempts' = attempts + 1 /\ attempts' <= MaxAttempts
            \/ attempts' = attempts /\ "guard.count" \in FailingWrites]_vars

(* An update, from the request over the restart to the verdict of the new  *)
(* binary or of the boot guard, keeps the promise of Rollout: it is over   *)
(* once its row is written, and nothing but it moves "current" until then. *)
TrialOf(u, before) ==
  [from |-> u.from, to |-> u.to, stage |-> IF current = u.to THEN "switched" ELSE before]

(* The operator's rollback, which goes back to "previous".                 *)
RollbackOf(h) ==
  IF at[h] \in {"revert.cur", "revert.act"}
  THEN [from |-> previous, to |-> current, stage |-> "switched"]
  ELSE [from |-> current, to |-> IF at[h] = "revert.swap" THEN seen[h] ELSE previous,
        stage |-> "undone"]

Preparers == {h \in Handlers : job[h] \in {"download", "install"}}
Reverters == {h \in Handlers : job[h] = "rollback"}

UnderWay ==
  IF marker # NoMarker /\ proc \notin {"guard.clear", "resume.clear"}
  THEN TrialOf(marker, "undone")
  ELSE IF Preparers # {} THEN TrialOf(req[CHOOSE h \in Preparers : TRUE], "prepared")
  ELSE IF Reverters # {} THEN RollbackOf(CHOOSE h \in Reverters : TRUE)
  ELSE NoMarker

Contract == INSTANCE Rollout WITH
  Releases <- Versions, None <- NoVersion, Idle <- NoMarker, Revertible <- TRUE,
  live <- current, job <- UnderWay, report <- [status |-> outcome.status, clean |-> TRUE]

KeepsRolloutContract == Contract!Spec

(* What a boot decides about an update it decides alone: until run() has    *)
(* come to the listener, only the startup goroutine's own recovery changes *)
(* the store, and no update begins to wait for a verdict.                  *)
StartupDecidesAlone ==
  [][proc # "serve" =>
       /\ <<pointers, files>>' # <<pointers, files>> => at'[Main] # at[Main]
       /\ marker' \in {marker, NoMarker}]_vars

(* Both releases of an update stay within reach until its marker is gone:  *)
(* a kill that separates a rollback from the deletion of the marker may    *)
(* have it repeated, but never mixes a third release in or loses one.      *)
TrialKeepsBoth ==
  marker # NoMarker /\ at[Main] # "revert.swap" =>
    {current, previous} = {marker.from, marker.to}

(* While an update is pending, no boot loses the release to go back to:    *)
(* however often a rollback is begun, cut off or fails half-way, one of    *)
(* the pointers names it, and it is not the release on trial.  It can only *)
(* be lost by a process that executes it: a rollback that worked but whose *)
(* marker stays is repeated on the next boot, in the other direction.      *)
TrialKeepsFallback ==
  [][marker # NoMarker /\ marker' = marker /\ proc # "serve" =>
       LET fallback == marker.from
       IN  fallback \in {current, previous} /\ running # fallback =>
             fallback \in {current', previous'} \ {marker.to, NoVersion}]_vars

(* Whatever ended the last update, the next one has all its boots: no      *)
(* request finds boots already spent.                                      *)
FullBudget == proc = "serve" /\ marker = NoMarker => attempts = 0

(* A process that gets past BootGuard executes the release "current" names: *)
(* a forced rollback ends the process that performed it.                   *)
BootsCurrent == proc \in {"start", "resume"} => running = current

(* A release on trial is either confirmed or left: the agent always comes  *)
(* back to serving with no update pending.                                 *)
TrialSettles == marker # NoMarker ~> (marker = NoMarker /\ proc = "serve")

(* The agent never ends up in an endless loop of crashing boots.           *)
Recovers == []<>(proc = "serve")
=============================================================================
