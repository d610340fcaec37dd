# QRX Node Suite: a TLA+ model of the agent

The agent (`agent/`, Go) runs beside a QRX Core node. It polls the node, restarts it when it is
unhealthy, raises alerts, serves a dashboard and an HTTP API, and installs signed updates of
itself, of its adapters, of the dashboard and of QRX Core. This directory models the parts of it
in which order, failure and interleaving matter, checks them with TLC on small instances, and
proves the central facts with TLAPS for every instance.

## Inventory

| Component | State it keeps | Operations | Interacts with | What is hard |
|---|---|---|---|---|
| Release store (`updates/store`) | per component: release directories, pointer files `current`, `previous`, `staged` | Stage, DiscardStaged, Promote, PromoteVersion, RollbackToPrevious, Prune, BootstrapCurrent | called by Manager, BootGuard, QRXCoreUpdateManager and startup | several file-system steps per operation, crashes between them, failing calls, no lock |
| Self-binary update (`manager.go`, `selfupdate.go`, `rollback.go`, `main.go`) | `pending_self_update.*` and `update_history` in SQLite | Install, Rollback, ResumeSelfUpdate, self-restart | store, database, systemd | file system and database are not written in one transaction; the process that decides is the one under trial |
| Boot guard (`bootguard.go`) | `boot_attempts.*` | CheckAndRecordAttempt on every start | store, database, systemd | must work when nothing else of the release does |
| Synchronous install (`manager.go`, `components/dashboard.go`, `components/compatibility_profile.go`) | the same store and history | stop, promote, start, health check, commit or roll back | store, history | partial failures, and a history that must stay true |
| QRX Core manager (`qrx_core.go`) | its own release store | Update, SwitchVersion, rollbackBinary | store, qrxd.service, history | stop/start of a service around a pointer swap |
| Guardian (`guardian/`), poller (`cmd/agentd/poller.go`) | health state, cooldown, restart window; the snapshot | Evaluate, attemptRestart, collect, Cache.Set | qrxd.service, adapters, event bus, alerts | timers, limits, races with a core switch |
| Event bus (`events/`) | subscriber queues | Publish, Subscribe, ServeSSE | guardian, alerts, dashboard | full queues, unsubscribing while publishing |
| Alert engine (`alerts/`) | open alerts in SQLite | Evaluate | poller, bus | one open alert per rule across restarts |
| Adapter registry (`adapters/registry.go`) | adapters, which are disabled, the active one | Activate, SelectAutomatic, DisableIncompatible | startup, HTTP | starting and stopping outside the lock |
| Policy, manifest, versions | pins, windows, last manifest seen | pure decisions | Install, Check, the registry | boundaries: midnight, prereleases, replay |
| Storage and migrations | schema version | migrate | startup | a crash between migration and record |
| Installer, update sources, configuration, monitoring, adapters' parsers, Telegram, signing tools, dashboard | none that outlives a call | I/O | | not modelled |

`PROJECT.json` lists every component with its status, and under `hazards` each thing in this code
that is hard to test, at the line where it bites.

## Modules

### ReleaseStore: the store, one file-system step at a time

A version directory is `absent`, `partial` or `complete` (`files`); `current`, `previous` and
`staged` hold a version or `NoVersion`. `writePointerAtomic` renames a temporary file over the
pointer, so a pointer write is one atomic step; everything else is not. `os.RemoveAll` takes two
steps (the directory is `partial` in between), and an extraction two as well. Each caller `c`
(a goroutine) has the step it performs next, `at[c]`, and the Go locals that live across steps:
`ver[c]` (the version it works on), `seen[c]` (what it read of `current`) and `list[c]` (what
Prune still considers). Versions are numbers in the lexical order of their names, which is the
order Prune uses.

`Fault(c)` lets the system call of a step fail: the Go functions return the error at once, so
the operation ends there, and what was written stays. `Crash` ends every operation, and keeps the
disk. The extraction, which is the caller's business, is part of the module, because what the
caller does when it fails (`DiscardStaged(true)`) is what makes the store safe or unsafe.

`StoreSpec` lets callers interleave. `SerialSpec` lets them take turns. The code has no lock that
makes them, so a property of `SerialSpec` is a property of one request at a time.

### SelfUpdate: install, restart, boot guard, resume

Extends ReleaseStore with the process (`proc`: what the startup goroutine has reached; `running`:
which release it executes), the database (`marker`, `attempts`, `outcome`, the newest history
row) and the HTTP handlers (`job`, `req`). `Exec` is systemd starting whatever `current` names.
`Guard*` are the stages of `CheckAndRecordAttempt` and what `run()` makes of its result,
`Resume*` those of `ResumeSelfUpdate`, `Install*` and `Rollback*` those of the two handlers.
Every database statement is one action, and `FailingWrites` says which may fail. `Killed` ends
the process from outside in the phases `CrashIn`, at most `MaxCrashes` times. A release in
`Broken` dies before it reaches ResumeSelfUpdate; one in `Mislabelled` reports another version
than its directory's name, which is what `Agent.HealthCheck` detects.

The boot counter stops at `MaxAttempts + 1`: the code only asks whether it exceeds `MaxAttempts`.
`Patient` says whether an operator waits for the answer and the restart before the next request.

### CoreService: QRX Core and qrxd.service

Extends ReleaseStore, this time as the store of QRX Core. `phase[h]` is how far caller `h` is in
`SwitchVersion` or `Update`, `task[h]` the versions it goes between; the steps of the store that
its calls make are `StoreStep`. `unit` is what systemd was asked for and `core` the release that
qrxd executes. `systemctl start` of an active unit does nothing, `restart` executes what
`current` names, and systemd itself starts a node that died (`NodeRespawns`). `Start`, the probe,
`Commit` and the `Undo*` steps are `activateAndValidate` and `rollbackBinary` in their order,
with the error path of each call in `FailingCalls`; a failing `systemctl` call may have had its
effect. The guardian is here an actor that, within a budget, restarts a node it saw down or
unwell: between what it sees (`GuardianSeesTrouble`) and what it does (`GuardianRestarts`)
anything may happen.

As given: `HasProbe` says whether the manager was given a probe, and agentd gives it none; the
unit's `ExecStart` goes through `current`, the layout docs/updates.md describes under "QRX Core
version selection", while `installer/qrx-core-sources.sh:48` writes a unit that names one
versioned directory, and on such a node a switch changes nothing; `Update` is an operation of the
manager that no HTTP handler calls yet. One caller is checked: nothing in the code keeps two
switches apart.

### UpdateRules: the decisions

No variables: the order of versions, ranges (`^`, `~`, comparisons), the lookup in the
compatibility matrix, and the checks of a manifest entry against downgrade, replay and
incompatibility. A version string is a number, its place in the lexical order of the strings, and
`Parsed` says what `ParseSemVer` makes of it; so the fallback of `Compare` to text, and the order
of prereleases, are those of the code. `Precedes` in ManagedInstall is the reference the order is
compared with.

### Rollout: what an operation promises

The abstract specification of an installation: one release serves; an operation moves it to its
goal in one visible step, and at most once back; the row that ends the operation says what
happened. A `rolled_back` row without an error means the old release serves again; one with an
error promises nothing about which does, and that is why `HistoryRows` records `clean`. An
operation may also find its release live and only undo it (`Revert`), where `Revertible` allows
that: so does an operator's rollback of the agent, which no new process judges. A row may always be
lost; one that equals the row before it is no change of `report`, and so is not seen.

All three managers implement it, each under a mapping of its own. In `ManagedInstall`
`live <- current`, `report <- log` and `job <- JobOf(TheHandler)`: an operation begins where it is
admitted, has switched when `current` is its goal, and has undone the switch when it is in an
`Undoing` phase and `current` is something else. `CoreService` maps its phases the same way
(`JobOf`), except that a `rolled_back` row which names no release the node came from claims nothing:
after a failed first installation there is nothing to go back to, and `rollbackBinary` returns no
error. In `SelfUpdate` an operation outlives its process: it is what `UnderWay` says, the update of
the pending marker from the write of that marker to the row of its verdict, whichever process
writes it; before that, what the handler downloads and installs; or else the operator's rollback.

### ManagedInstall: the components updated in place

Extends ReleaseStore and UpdateRules with what `Manager.Install` and `Rollback` do for the
dashboard and the compatibility profile: `phase`, `task` and `clean` are the handler's locals
(how far it is, its versions and the manifest, whether the automatic rollback went well), `log` is
the newest history row, and `lastSeen`, `pin`, `locked` are rows of the settings table. `Install`
is lock, manifest and replay check; `Admit` and `Refuse` read settings and store once more;
`Download`, `Stop`, the steps of the store, `Start`, `HealthCheck`, `Commit`, `Succeed` and the
`Undo*` steps follow in the order of the code. `Back*` are the steps of an operator's rollback.
The policy is set at any moment, behind a running operation's back. `AgentCrash` ends every
operation; nothing takes one up again.

`KeepsRolloutContract` is `Contract!Spec`, with `Contract == INSTANCE Rollout`, here as in
`SelfUpdate` and `CoreService`.

### Monitor: poller, guardian, cache, alerts, event stream

One tick of the polling goroutine, step by step: `Collect` (the status), `Ping` (the time of the
last success, then the adapter's Health), `Evaluate` (the guardian's classification, the event,
`attemptRestart`), `Restart`, `Announce` (Cache.Set and what it publishes), `EvaluateRule(1)` and
`(2)` (the engine's rules about the node, each a query, a row and an event). The node changes,
time elapses and clients subscribe, read and leave between any two steps; the agent dies at any.
Time is kept as ages (`since`, `restartTimes`, `lastRestart`), which stop growing at the limit
they are compared with; so the state space is finite without a clock. `granted` is history: the
ages of all restarts asked for within the window, whatever the guardian remembers. `lost` and
`view` follow what a client of the stream can believe.

### AdapterRegistry and NodeFeed: who answers for the node

AdapterRegistry has the registry's variables (`disabled`, `active`), the adapters' own (`caps`
of qrx007, which it probes once; `simulating` of the mock), and for each caller of `Activate` the
step it is at: deactivate, activate, ping, health check, drop, restore, record. Only the first
look at the active name and the last write are made under the lock, so each call to an adapter is
an action. The startup (`detectQRXCoreVersion`, `SelectAutomatic` or `SelectConfigured`,
`Selected`) is one more caller; a configured adapter that cannot be activated ends the process.

NodeFeed adds the poller once more, now for the data: `tick` says which field it reads through
which adapter (the one active when the tick began), `CollectField` reads one field, or falls back
to what the cache holds, and `TickEnds` replaces the cache. `Get(a, f)` is what each adapter makes
of an answer, of a garbled one and of none, field by field. The mock's numbers are the one value
`"simulated"`.

### How the modules compose

`SelfUpdate`, `CoreService` and `ManagedInstall` extend `ReleaseStore` and interleave their steps
with its. The theorem `PatienceTakesTurns` of `SelfUpdate`, and lemmas of the same kind for the
other two, show that their callers are the turn-taking callers the store's theorems ask for. That
operators wait is an assumption, and no lock enforces it; what the code itself enforces, that a boot
decides before it serves, is the property `StartupDecidesAlone`. `NodeFeed`
extends `AdapterRegistry`, and both installation rules and registry rest on `UpdateRules`.
`ManagedInstall`, `SelfUpdate` and `CoreService` implement `Rollout`, and what is proved of `Rollout`
alone holds of each. `CoreService` has the guardian as an actor that restarts
the node at any moment; `Monitor` has the one that is in the code.

## Runs

| Run | Question | Result |
|---|---|---|
| `store` | Bootstrap, stage, extract, discard, promote, roll back and prune by two callers that take turns, crash anywhere, any system call but Promote's last may fail | live releases whole; predecessor kept; Prune deletes only what it may and enough, and keeps the last of what it might (in lexical order, see below) |
| `selfupdate` | the life of an agent update: two handlers, a release that crashes, one that is unhealthy, good ones, operator rollbacks, two kills outside an automatic rollback; every database write fails that neither a verdict nor the boot guard needs | success is recorded only by the new binary; an automatic rollback leaves the trial for its predecessor; until it serves, a boot's startup alone moves the store, and no marker appears (`StartupDecidesAlone`); Rollout is implemented; every start of a release on trial spends one of its boots |
| `selfupdate_faults` | requests that do not wait; every step of an automatic rollback may fail, on every boot, and every write but the deletion of the boot counter and that of the marker after a forced rollback; two kills anywhere but just before the counter's deletion | no boot of another release takes the one the update replaced out of both pointers (`TrialKeepsFallback`); no update inherits boots that another one spent |
| `selfupdate_live` | systemd keeps restarting the process; two kills around the trial's judgements, a row and the counters that cannot be written | a rollback may be repeated, but the two releases of the update stay the ones the pointers name; every trial ends, and the agent always serves again |
| `selfupdate_operator` | operator rolls back before the restart of an install | **violated**: the old binary records the update as succeeded |
| `core` | update and switch of QRX Core; one release fails validation, one does not come up; extraction, Promote and start may fail, the node may die | between operations the node runs what `current` names; success is recorded only of what runs; a stopped node is started again |
| `core_guarded` | the same while the guardian restarts the node, every service, history and pointer write may fail, and the agent may crash | a rollback that reports no error has put back pointer and process; a row without an error means that the node was last asked to run; Rollout is implemented |
| `core_no_probe` | the manager as agentd builds it | **violated**: a healthy release is rolled back |
| `install` | in-place installs and rollbacks by one handler; a prerelease that fails its health check, a release older than the live one, old manifests served again, pins and locks set meanwhile; database, controller and pointer writes fail; crashes | Rollout is implemented; manifests are never replayed; no downgrade nobody asked for; what the pointers name stays whole, also when Promote fails after it has switched; a bad release is left again |
| `monitor` | the node dies, hangs and recovers at any moment, restarts and database calls fail, a client with a short channel, the agent dies anywhere | restarts stay within budget, window and cooldown; one open alert per rule; alerts, stream and snapshot agree; a node that stays up ends up reported healthy |
| `adapters` | automatic and configured selection, activations with and without override, the node answering all, some or no commands, the poller collecting meanwhile | what is active is compatible and activated; no field is blanked; simulated values go once a real adapter is in use |
| `adapters_simulation` | a command fails after a switch from the mock to a real adapter | **violated**: the mock's value stays, and nothing marks it |

Bounds. Of the store: four versions are what a rollback target, a live release, a staged one and a
prunable one need; two callers are what an interleaving needs; `Retain = 1` makes Prune both keep
and delete. `MaxAttempts = 2` separates a boot within the budget from the last and from one beyond
it, and the counter stops at `MaxAttempts + 1`, because the code only asks whether it exceeds
`MaxAttempts`. Two kills allow one to hit the recovery from another. `Dispensable` are the writes
`selfupdate` may lose: a boot then goes uncounted, or an operation the operator asked for leaves no
row or no marker; the writes it may not lose are the ones named under "What the code does not
guarantee". `AroundReset` and `OutsideReset` are the writes
`selfupdate_faults` lets fail and the phases it kills in: all but those that leave spent boots behind,
and but the deletion of the marker after a forced rollback, without which the same boot undoes it;
one handler is enough there, as it interleaves with the startup. `Guarded` are the phases
`selfupdate_live` kills in: not between Promote and the marker, and not between a forced rollback and
the deletion of its marker, because after such a kill the crashing release can stay (see below).
In CoreService one death of the node, one crash of the agent and one restart by the
guardian fit into each step of one operation and into the operations after it; `core` has four
releases (fit, unfit, stillborn, and one more fit to switch to), `core_guarded` three.

`install` has three releases whose lexical order is not their precedence (1.10.0, 1.9.0 and
2.0.0-rc.1; 1.9.0 is bundled, and the node runs it), four manifests, two of them of the same date
and one a release back, release notes that are met, not met and absent, and `Retain = 0`, so that
every commit prunes. `monitor` has thresholds one unit apart, a budget of two restarts in a window
of three units with a cooldown of one, so that the budget, the cooldown and the window each refuse
in some state, and one client with a channel of two events: a tick publishes up to four, so the
channel does overflow. `adapters` has the three adapters agentd registers, the rows of the shipped
matrix, the status and one optional field, three kinds of node, and one handler beside the startup
and the poller. Nothing else is bounded.

Fairness. In SelfUpdate `FairSpec` has weak fairness of `MainStep` (systemd's `Restart=always`
starts the process, the startup goroutine runs, a requested restart happens) and of each handler's
steps (goroutines run). In CoreService and ManagedInstall only the steps of an operation under way
are fair (`Working`); in Monitor the poller's goroutine; in NodeFeed the poller, the startup and
each activation, whose calls of qrx-cli all have a timeout. Requests, kills, deaths, failing calls,
the passing of time and the node itself are not fair. `Restart=always` holds only within
`StartLimitBurst`: a `max_boot_attempts` of 8 or more would stop systemd first.

## Proofs

The theorems hold for any finite set of versions, any callers, thresholds, windows, budgets,
matrices and manifests that satisfy the named `ASSUME`s, and for any number of crashes. A further
assumption a theorem needs about the environment (one handler, a call that does not fail) is an
`ASSUME` of the theorem, so it is in its statement.

**ReleaseStoreProofs.** `StoreTypeCorrect` for any interleaving. The others for `SerialSpec`: the
inductive invariant is `OneAtATime` (one caller is not ready) with `PointersAsRead` (what an
operation read of `current` and `previous` is still so when it writes a pointer), and gives
`PromotionSafe` and `PointersAlwaysAsRead`. `FilesApart` (what is being filled or deleted is never
what a live pointer names) strengthens it for `WholeSwitchesKeepLiveReleases`: live releases are
whole as long as PromoteVersion is only asked for releases that are (`WholeSwitches`), and either
Promote's last unlink does not fail or its caller discards nothing after a Promote that failed
(`KeepsActivated`); both are needed. `LiveReleasesSafe` is its case for owners that never
call PromoteVersion. An owner that may ask for any directory there is needs `NothingAbandoned` as
well: a release is in pieces only while a caller works on it, unless a crash or a call that fails
half-way (`Halfway`) left it so. `PruneAlwaysBoundsDisk` and
`PruneAlwaysRetainsLast` rest on: the list Prune still works on is what no pointer names, less
what it has deleted, in descending order. The lemmas "what an operation means to its caller"
(`Placed`, `Reverts`) are what the proofs about the managers cite.

**RolloutProofs.** What follows from the promise alone. `JobTellsWhatServes` is its inductive
invariant: the stage of the operation under way says exactly which of its two releases serves. From
it, `OnlyJobsSwitch` (nothing but an operation changes what serves, and only between those two) and
`RowsAreTrue` (`succeeded` is written while the goal serves, `rolled_back` without an error while
the release that was left serves). Each manager's proofs instantiate this module under the
manager's mapping and carry both over: `InstallRowsAreTrue`, `CoreRowsAreTrue`,
`SelfUpdateRowsAreTrue`.

**SelfUpdateProofs.** `SelfTypeCorrect` for any interleaving. `PatienceTakesTurns`: with a patient
operator the startup goroutine uses the store only in the two reverting phases and the commit, a
handler only in its own request, and never both (`Turns`); so the specification implies
`SerialSpec`, and `SelfLiveReleasesSafe` follows from the store's theorem.
`StartupAlwaysDecidesAlone` assumes nothing, for a handler works only in a process that serves
(`OnlyServing`). `TrialAlwaysKeepsFallback` assumes only that a forced rollback can delete its
marker, and allows any requests, kills and other failures; its invariant `Retreats` says that, as
long as a boot decides about a marker, `current` names what executes or what `previous` names, and
which of the two pointers an automatic rollback under way has written; so it overwrites no name but
that of the release which executes. `UpdatesHaveAllTheirBoots` holds for any requests:
the counter outlives the marker only between the two deletions of a forced rollback, and a health
check has given the boots back before its verdict ends anything (`Budget`).
`BootsTheCurrentRelease` needs that the boot guard
can record and clear, and can finish its swap.
`AutomaticRollbackRevertsTheTrial` and `SuccessIsRecordedByTheNewBinary` are proved under
`Undisturbed`: a patient operator, no failing step of a revert, no kill between an automatic
rollback and the deletion of its marker, and no failure of the five writes in `Essential` (the rows
and the deletions of the marker that a verdict or a forced rollback makes, and RecordManifestSeen);
every other write may fail. Their invariant `OnTrial` says
that until a trial is confirmed or left, marker and pointers name the same two releases.
`TrialAlwaysSpendsBoots`, also from it, is the safety half of `TrialSettles`: no release on trial is
started more than `MaxAttempts` times, boots that could not be counted aside.
`SelfUpdateImplementsRollout` holds under the same assumptions: an operation spans two processes
and up to `MaxAttempts` boots, and each of their steps is one of Rollout's or none. It adds to
`OnTrial` that the newest row is the one of the installation under way and that an operator's
rollback holds the two releases it swaps (`Working`); `Shows` says which operation `UnderWay` picks.
`TrialAlwaysKeepsBoth` allows most of what `Undisturbed` excludes (`Repeatable`): kills after a
rollback and before its marker is deleted, rollbacks that fail before their last pointer write, rows
and deletions the boot guard cannot make. Then nobody knows how often the pointers were swapped, and
`OnTrial` is lost; what stays is that marker and pointers name the same two releases in one of the
two orders, and that a rollback under way swaps these (`Swapping`). The run `selfupdate_live` shows a
part of this: its rollbacks do not fail and its kills spare the serving process. What a handler does for an
update is one lemma for both (`HandlerServes`).
What happens without a patient operator, or with a kill within a rollback, is listed below.

**CoreServiceProofs.** `CoreTypeCorrect` for any callers. With one operation at a time: the store's
callers take turns (`CorePromotionSafe`); `RollbackAlwaysRestores` whatever the guardian does, from
an invariant that relates the phase, the task and what the store's operation has read and written;
`CoreSuccessAlwaysMeansRunning` if the guardian does not restart; `AlwaysServesCurrent` if in
addition the agent does not crash and neither Promote's last unlink, RecordManifestSeen, nor a stop
fails. `RowsAlwaysMeanStarted` needs only that there is one operation at a time: the phases that
write such a row are reached past a start of the unit that was not followed by a stop (`Ordered`).
Of the files, `WholeRequestsKeepLiveReleases` says that what `current` and `previous` name stays whole
as long as operators ask only for releases that are. It rests on the store's invariant, and on this:
`rollbackBinary` calls PromoteVersion too, but for a release that was live when the operation began
and that a pointer still names (`WayBack`). `CoreLiveReleasesSafe` needs no such condition when the
agent does not crash and no removal fails half-way (`NothingAbandoned`). `CoreImplementsRollout`
needs none of these: whatever fails, dies or restarts, the phase, the
task and the step the store has reached determine `current` (`Pointed`, from `Promotes` and
`Swaps`, which say what an operation of the store has read and written so far).

**ManagedInstallProofs.** `InstallTypeCorrect` for any number of handlers, the others for one. `InstallImplementsRollout` is the refinement: initial states
map to initial states and each action to a step of Rollout or a stutter; it needs to know which
pointer write an operation of the store has reached (`Placed`, `Reverts`) and what it is entitled to
assume of `current` in each phase (`Way`, `Grounded`). `InstallLiveReleasesSafe` carries
`FilesApart` through an installation: one step is not a step of the store, a component that does not
stop, after which what was filled is discarded, and it keeps the invariant as well. It holds with a failing
last unlink of Promote too, because this path of `Install` records the failure and discards nothing
(`KeepsActivated`).
`ReplayGuardAlwaysAdvances` needs that the manifest of an admitted operation is not older than
`lastSeen` (`Dated`). `NeverAnUnaskedDowngrade` is for releases that are all named by semantic
versions; for strings that are not, the code compares text, and a downgrade is then what text says.
`CompareIsPrecedence` and `CompareIsTransitive` state that `Compare` is the precedence of semantic
versions, and an order.

**MonitorProofs.** `MonitorTypeCorrect`, `RestartsAlwaysBounded` (no remembered restart is younger
than `lastRestart`, and what the guardian remembers within the window is what was granted),
`NeverTwoOpenAlerts`, `AlertsAlwaysMatchHealth` (between the two rules the first one's row already
agrees), `ViewAlwaysMatchesCache` (the last event about the node in a channel that lost none, or
else what its reader believes, is what the snapshot says). Any number of clients, any channel size.

**NodeFeedProofs.** `FeedTypeCorrect`, `ActiveAlwaysCompatible` and `NothingEverBlanked` for any
number of concurrent activations: what is under way was admitted by the guard, no adapter stays
active across a restart, and a tick that began without an adapter began with a blank cache.
`ActiveAlwaysActivated` for one activation at a time: the operation under way knows what was active
(`Switching`), and puts it back if it fails.

Checked by TLC only: the liveness properties (`TrialSettles`, `Recovers`, `StopIsTemporary`,
`BadReleaseLeaves`, `HealthReturns`, `SimulationEnds`), because the proof system handles neither
fairness nor ENABLED. Every safety property of a passing run has a theorem, under the assumptions
above, and `CoreTypeOK`, the base of CoreService's proofs, has one without being listed in a run; so have the store's two strengthenings, `PointersAsRead` and `FilesApart`, which no run
lists: `PromotionKeepsPredecessor` and `LiveReleasesUsable` are what they are for. The modules use
no recursive operators.

## What the code does not guarantee

Besides the three violated runs, these follow from the same modules by changing constants.

Updates of the agent and its store:

* two handlers at once (`Patient = FALSE`, or `StoreSpec` instead of `SerialSpec`): live pointers
  can name partial or missing releases (`manager.go:409`);
* Promote's last unlink fails: Promote reports an error after `current` moved, and the clean-up
  deletes the live release (`"promote.unstage" \in FaultyAt`; `store.go:171`);
* a kill between Promote and the write of the marker (`CrashIn = {"serve"}` with fairness): the
  new release is not guarded, and if it crashes it crashes for ever (`manager.go:442`); a
  cancelled request context after Promote has the same effect (`manager.go:437`);
* a kill between the guard's forced rollback and the deletion of the marker: the next boot rolls
  back a second time, onto the crashing release (`"guard.clear" \in CrashIn`);
* an operator rollback onto the release an automatic rollback left: no marker, no guard
  (`rollback.go:35`);
* a history row that cannot be written after a forced rollback: `run()` goes on with the binary
  that was rolled back (`main.go:123`);
* the counter of boots cannot be cleared (`"guard.reset"`, `"resume.reset"`; the error is ignored),
  or a kill comes between the deletion of the marker and that of the counter
  (`"guard.reset" \in CrashIn`): the next update inherits the boots already spent, and may be rolled
  back on its first one (`bootguard.go:153`);
* a kill between the two pointer writes of a rollback: both pointers name the release gone back to,
  and the other is out of reach (`"guard.rollback" \in CrashIn`; `store.go:214`);
* PromoteVersion takes a directory whose extraction was cut short, by a crash or by a clean-up that
  failed, for an installed release (`store.go:184`); QRX Core's SwitchVersion then activates it;
* Prune counts the retained releases in the lexical order of their names (`sort.Strings`,
  `store.go:246`), which `store.go:277` assumes to be newest-ish, while `store.go:249` promises the
  most recently installed ones: of 0.0.9 and 0.0.10, the older one is kept. `PruneRetainsLast`
  states what the code does;
* the release to go back to can be lost in three ways, the ones `TrialKeepsFallback` leaves out: it
  speaks of the boots that execute another release than that one, and of their steps that keep the
  marker. A
  rollback that is complete but whose marker stays, after a kill or a failing write, is repeated by
  the next boot in the other direction; if its second pointer write fails, both pointers name the
  release on trial. A forced rollback whose marker cannot be deleted (`"guard.clear" \in
  FailingWrites`) is undone by the same boot, which goes on to ResumeSelfUpdate in the release it
  just left (`main.go:123`). And an operator's install or rollback while the marker is still there
  moves the pointers whatever it says;
* the comment at `store.go:150` has Promote advance `current` first; it writes `previous` first.

QRX Core:

* the guardian restarts the node between StopCore and PromoteVersion: the start that follows is a
  no-op, the probe judges the old release and the switch is recorded as succeeded
  (`core` with `MaxRestarts = 1` refutes `ServesCurrent` and `CoreSuccessMeansRunning`; `main.go:203`);
* the rollback's own stop or start fails, which a request context cancelled during the start is
  enough for, or PromoteVersion fails after the stop: the node stays stopped (`qrx_core.go:331`,
  `:378`); so it does after a failed first install, when there is nothing to go back to;
* RecordManifestSeen fails after Promote: the new release is current, the old one runs, and no
  row says so (`qrx_core.go:310`).

In-place installs:

* two handlers on one component: the contract of Rollout is not kept, since nothing locks;
* Promote's last unlink fails: a `failed` row, and the new release live, which Rollout therefore
  has to allow;
* a crash between Promote and the health check leaves a release live that nobody checked;
* RecordManifestSeen fails: the new release is live, with no row but `started`;
* Check is advice: it shows as available and unblocked what Install refuses under the update lock
  (`manager.go:278`), and the release a rollback has just left, which Install tells to reach by
  Rollback (`ErrAlreadyPrevious`, `manager.go:342`). It changes no state and is not modelled;
* pin and lock have no setter in the HTTP API, and no shipped in-place controller asks for a stop;
  `RequiresRestart = TRUE` is what the `Controller` interface allows.

Monitoring:

* one failed poll makes the node OFFLINE at once, whatever the thresholds say: they count only
  while polls succeed but are slow;
* the guardian starts out OFFLINE, so a node that is down when the agent starts is not restarted;
  a restart that cooldown or budget refused is not tried again while the state stays what it is;
  a restarted agent has forgotten the budget;
* a full channel drops the newest event; a comment says the oldest (`bus.go:50`).

Adapters:

* two concurrent Activates leave an adapter active that was deactivated (`registry.go:195`; with a
  second handler TLC refutes `ActiveIsActivated`);
* legacy006 reports version 0.9.5, which no row of the shipped matrix (`^1.2.0`) admits: it is
  UNKNOWN for every node, automatic selection disables it, and so always fails for QRX Core 0.0.6,
  because `BestAdapterFor` does not look at the adapter's version;
* qrx007 probes its capabilities once per activation: a command that was not there then is
  reported unsupported until the next;
* a configured adapter bypasses DisableIncompatible, and ends the agent when its activation fails,
  so systemd restarts it as long as the node is down; automatic selection while the node is down
  leaves no adapter, until an operator activates one.

## Not modelled

* Adapter markers: the adapter components share the code of SelfUpdate, but their health check
  asks the active adapter; a marker of an adapter that is no longer active is counted on every boot.
* What precedes the staging in an update of QRX Core (manifest, profile, download), which decides
  only whether the modelled operation begins.
* The update window: no installation agentd performs consults it. `Registry.Rollback`: only tests
  call it. The branch of `collect` for a wallet without an address, which no adapter reaches.
* Signatures and checksums are a check that fails or does not. A migration and its row are one
  transaction of SQLite. The alert rules about disk, processor and memory read the host, and open
  and resolve rows the same way.
* Pure I/O without state that an order of events could break: update sources, system monitoring,
  Telegram, routing, authentication and JSON of the HTTP API, the configuration file, the
  installer, the dashboard, the signing tools.

## Plan

1. More proofs: the agent's rollback under `Repeatable` as a refinement of a Rollout that may be
   undone more than once; two updates of QRX Core at once, once something orders them.
2. The markers of the adapter components in SelfUpdate, beside AdapterRegistry.
3. What precedes the staging in `QRXCoreUpdateManager.Update`, with UpdateRules.
4. The guardian of Monitor shown to implement the guardian CoreService assumes.
5. The update window, across midnight, once an automatic installation consults it; the alert
   rules that read the host.
