------------------------- MODULE ManagedInstallProofs -------------------------
(***************************************************************************)
(* Proofs about ManagedInstall: what an installation and a rollback of a   *)
(* component keep, whichever calls fail and wherever the agent dies; that  *)
(* they implement Rollout; and that the comparison of versions they rest   *)
(* on is an order.                                                         *)
(***************************************************************************)
EXTENDS ManagedInstall, ReleaseStoreProofs

USE DEF Pointer, Ready

-----------------------------------------------------------------------------
(* The order of versions.                                                  *)

LEMMA CmpIntSign ==
  ASSUME NEW a \in Int, NEW b \in Int
  PROVE  /\ CmpInt(a, b) \in {-1, 0, 1}
         /\ (CmpInt(a, b) = -1 <=> a < b) /\ (CmpInt(a, b) = 1 <=> b < a)
         /\ CmpInt(a, a) = 0
  BY DEF CmpInt

(* A version that parses is made of numbers.                               *)
LEMMA ParsedType ==
  ASSUME NEW a \in Strings, IsValidSemVer(a)
  PROVE  Parsed[a] \in [major : Nat, minor : Nat, patch : Nat, pre : Nat]
  BY ParsedAssumption DEF IsValidSemVer

(* The first field in which two versions differ decides.                   *)
LEMMA FirstDifference ==
  ASSUME NEW a \in Strings, NEW b \in Strings, NEW k \in 1 .. 5,
         SortKey(a)[k] # SortKey(b)[k],
         \A j \in 1 .. 5 : j < k => SortKey(a)[j] = SortKey(b)[j]
  PROVE  CompareStrict(a, b) = CmpInt(SortKey(a)[k], SortKey(b)[k])
<1> DEFINE x == SortKey(a)
           y == SortKey(b)
           differ == {i \in DOMAIN x : x[i] # y[i]}
           First(i) == i \in differ /\ \A j \in differ : i <= j
           i == CHOOSE n \in differ : \A j \in differ : n <= j
<1>1. DOMAIN x = 1 .. 5
  BY DEF SortKey
<1>2. First(k)
  BY <1>1
<1>3. First(i)
  BY <1>2
<1>4. i = k
  BY <1>1, <1>2, <1>3
<1>5. differ # {}
  BY <1>2
<1> QED BY <1>4, <1>5 DEF CompareStrict

(* CompareStrict follows the precedence of semantic versions.              *)
LEMMA PrecedesCompares ==
  ASSUME NEW a \in Strings, NEW b \in Strings, IsValidSemVer(a), IsValidSemVer(b), Precedes(a, b)
  PROVE  CompareStrict(a, b) = -1 /\ CompareStrict(b, a) = 1
<1> DEFINE x == Parsed[a]
           y == Parsed[b]
<1>0. /\ x \in [major : Nat, minor : Nat, patch : Nat, pre : Nat]
      /\ y \in [major : Nat, minor : Nat, patch : Nat, pre : Nat]
  BY ParsedType
<1>1. /\ SortKey(a)[1] = x.major /\ SortKey(a)[2] = x.minor /\ SortKey(a)[3] = x.patch
      /\ SortKey(a)[4] = (IF x.pre = 0 THEN 1 ELSE 0) /\ SortKey(a)[5] = x.pre
      /\ SortKey(b)[1] = y.major /\ SortKey(b)[2] = y.minor /\ SortKey(b)[3] = y.patch
      /\ SortKey(b)[4] = (IF y.pre = 0 THEN 1 ELSE 0) /\ SortKey(b)[5] = y.pre
  BY DEF SortKey
<1>2. PICK k \in 1 .. 5 :
        /\ SortKey(a)[k] \in Nat /\ SortKey(b)[k] \in Nat /\ SortKey(a)[k] < SortKey(b)[k]
        /\ \A j \in 1 .. 5 : j < k => SortKey(a)[j] = SortKey(b)[j]
  <2>1. CASE x.major < y.major
    BY <1>0, <1>1, <2>1
  <2>2. CASE x.major = y.major /\ x.minor < y.minor
    BY <1>0, <1>1, <2>2
  <2>3. CASE x.major = y.major /\ x.minor = y.minor /\ x.patch < y.patch
    BY <1>0, <1>1, <2>3
  <2>4. CASE x.major = y.major /\ x.minor = y.minor /\ x.patch = y.patch /\ x.pre # 0 /\ y.pre = 0
    BY <1>0, <1>1, <2>4
  <2>5. CASE /\ x.major = y.major /\ x.minor = y.minor /\ x.patch = y.patch
             /\ x.pre # 0 /\ y.pre # 0 /\ x.pre < y.pre
    BY <1>0, <1>1, <2>5
  <2> QED BY <2>1, <2>2, <2>3, <2>4, <2>5 DEF Precedes
<1>3. CompareStrict(a, b) = CmpInt(SortKey(a)[k], SortKey(b)[k])
  BY <1>2, FirstDifference
<1>4. CompareStrict(b, a) = CmpInt(SortKey(b)[k], SortKey(a)[k])
  BY <1>2, FirstDifference
<1> QED BY <1>2, <1>3, <1>4 DEF CmpInt

(* Neither precedes the other: they differ in nothing that is compared.    *)
LEMMA PrecedesTotal ==
  ASSUME NEW a \in Strings, NEW b \in Strings, IsValidSemVer(a), IsValidSemVer(b),
         ~Precedes(a, b), ~Precedes(b, a)
  PROVE  Parsed[a] = Parsed[b] /\ CompareStrict(a, b) = 0
<1>1. /\ Parsed[a] \in [major : Nat, minor : Nat, patch : Nat, pre : Nat]
      /\ Parsed[b] \in [major : Nat, minor : Nat, patch : Nat, pre : Nat]
  BY ParsedType
<1>2. Parsed[a] = Parsed[b]
  BY <1>1 DEF Precedes
<1>3. SortKey(a) = SortKey(b)
  BY <1>2 DEF SortKey
<1> QED BY <1>2, <1>3 DEF CompareStrict

(* Compare is the order of semantic versions wherever both strings are     *)
(* versions: what it calls newer never precedes, and it depends neither on *)
(* the order of its arguments nor on a version in between.                 *)
THEOREM CompareIsPrecedence ==
  ASSUME NEW a \in Strings, NEW b \in Strings, IsValidSemVer(a), IsValidSemVer(b)
  PROVE  /\ Compare(a, b) \in {-1, 0, 1}
         /\ Compare(a, b) < 0 <=> Precedes(a, b)
         /\ Compare(b, a) = -Compare(a, b)
<1>1. Compare(a, b) = CompareStrict(a, b) /\ Compare(b, a) = CompareStrict(b, a)
  BY DEF Compare
<1>2. CASE Precedes(a, b)
  BY <1>1, <1>2, PrecedesCompares
<1>3. CASE ~Precedes(a, b) /\ Precedes(b, a)
  BY <1>1, <1>3, PrecedesCompares
<1>4. CASE ~Precedes(a, b) /\ ~Precedes(b, a)
  BY <1>1, <1>4, PrecedesTotal
<1> QED BY <1>2, <1>3, <1>4

THEOREM CompareIsTransitive ==
  ASSUME NEW a \in Strings, NEW b \in Strings, NEW c \in Strings,
         IsValidSemVer(a), IsValidSemVer(b), IsValidSemVer(c),
         Compare(a, b) <= 0, Compare(b, c) <= 0
  PROVE  Compare(a, c) <= 0
<1>1. ~Precedes(b, a) /\ ~Precedes(c, b)
  BY CompareIsPrecedence
<1>2. /\ Parsed[a] \in [major : Nat, minor : Nat, patch : Nat, pre : Nat]
      /\ Parsed[b] \in [major : Nat, minor : Nat, patch : Nat, pre : Nat]
      /\ Parsed[c] \in [major : Nat, minor : Nat, patch : Nat, pre : Nat]
  BY ParsedType
<1>3. ~Precedes(c, a)
  BY <1>1, <1>2 DEF Precedes
<1> QED BY <1>3, CompareIsPrecedence

LEMMA CompareSelf == ASSUME NEW a \in Strings PROVE Compare(a, a) = 0
<1>1. a \in Nat
  BY ParsedAssumption
<1> QED BY <1>1 DEF Compare, CompareStrict, CmpInt

LEMMA CompareType == \A a, b : Compare(a, b) \in {-1, 0, 1}
  BY DEF Compare, CompareStrict, CmpInt

-----------------------------------------------------------------------------
(* Every step leaves everything well formed.                               *)

LEMMA TaskType ==
  ASSUME InstallTypeOK, NEW h \in Callers, phase[h] # "idle"
  PROVE  /\ task[h] \in Tasks /\ task[h] # NoTask /\ clean[h] \in BOOLEAN
         /\ task[h].from \in Pointer /\ task[h].to \in Versions /\ task[h].down \in BOOLEAN
         /\ task[h].date \in Dates \cup {Unset}
<1>1. task[h] \in Tasks /\ task[h] # NoTask /\ clean[h] \in BOOLEAN
  BY DEF InstallTypeOK
<1> QED BY <1>1 DEF Tasks

LEMMA InstallInit == Init => InstallTypeOK
<1> SUFFICES ASSUME Init PROVE InstallTypeOK
  OBVIOUS
<1>1. TypeOK
  BY InitTypeOK DEF Init
<1>2. "idle" \in Phases
  BY DEF Phases
<1> QED BY <1>1, <1>2 DEF Init, InstallTypeOK, HistoryRows

(* What a handler does to the store is a step of the store, or none; or    *)
(* the component could not be stopped, and what was filled is discarded.   *)
StopRejects(h) ==
  at[h] = "filled" /\ GoTo(h, "rejected") /\ UNCHANGED <<pointers, files, ver, seen, list>>

LEMMA StoreSteps ==
  ASSUME InstallTypeOK, [Next]_vars
  PROVE  [StoreNext]_storeVars \/ \E h \in Callers : StopRejects(h)
<1>1. CASE UNCHANGED vars
  BY <1>1 DEF vars, storeVars
<1>2. CASE Operator
  BY <1>2 DEF Operator, SetPin, ClearPin, SetLocked
<1>3. CASE AgentCrash
  BY <1>3 DEF AgentCrash, StoreNext
<1>4. ASSUME NEW h \in Callers, Request(h) PROVE [StoreNext]_storeVars
  BY <1>4 DEF Request, Install, Rollback, StoreNext, Begin
<1>5. ASSUME NEW h \in Callers, Working(h) PROVE [StoreNext]_storeVars \/ StopRejects(h)
  <2>1. CASE Download(h)
    BY <2>1, TaskType DEF Download, StoreNext, Begin
  <2>2. CASE Stop(h)
    BY <2>2 DEF Stop, StopRejects
  <2>3. CASE Extract(h) \/ StoreStep(h)
    BY <2>3 DEF Extract, StoreStep, StoreNext
  <2>4. CASE Start(h) \/ HealthCheck(h) \/ BackCheck(h)
    BY <2>4 DEF Start, HealthCheck, BackCheck, StoreNext, Begin
  <2> QED BY <1>5, <2>1, <2>2, <2>3, <2>4
          DEF Working, Admit, Refuse, InstallFails, Promoted, Commit, Succeed, Undone, UndoStart,
              UndoRecord, RolledBack, BackStart, BackUndone
<1> QED BY <1>1, <1>2, <1>3, <1>4, <1>5 DEF Next

LEMMA StoreType == ASSUME InstallTypeOK, [Next]_vars PROVE TypeOK'
<1>1. CASE [StoreNext]_storeVars
  BY <1>1, StepTypeOK DEF InstallTypeOK
<1>2. ASSUME NEW h \in Callers, StopRejects(h) PROVE TypeOK'
  <2>1. "rejected" \in Steps
    BY DEF Steps, ExtractSteps
  <2>2. at' \in [Callers -> Steps]
    BY <1>2, <2>1 DEF StopRejects, GoTo, InstallTypeOK, TypeOK
  <2> QED BY <1>2, <2>2 DEF StopRejects, InstallTypeOK, TypeOK, pointers
<1> QED BY <1>1, <1>2, StoreSteps

(* A handler moves on, or is done with its task.                           *)
LEMMA Goes ==
  ASSUME InstallTypeOK, NEW h \in Callers, NEW next \in Phases, Go(h, next)
  PROVE  /\ phase' \in [Callers -> Phases]
         /\ \A g \in Callers \ {h} : phase'[g] = phase[g]
         /\ phase'[h] = next
  BY DEF Go, InstallTypeOK

LEMMA Moves ==
  ASSUME InstallTypeOK, NEW h \in Callers, NEW next \in Phases \ {"idle"}, Go(h, next),
         phase[h] # "idle", TypeOK', UNCHANGED <<task, pin, locked>>,
         clean' \in [Callers -> BOOLEAN], log' \in HistoryRows, lastSeen' \in Dates \cup {Unset}
  PROVE  InstallTypeOK'
<1>1. phase' \in [Callers -> Phases] /\ \A g \in Callers : (phase'[g] = "idle") = (phase[g] = "idle")
  BY Goes
<1> QED BY <1>1 DEF InstallTypeOK, Tasks, HistoryRows

LEMMA Finishes ==
  ASSUME InstallTypeOK, NEW h \in Callers, Finish(h), log' \in HistoryRows,
         UNCHANGED settings, TypeOK'
  PROVE  InstallTypeOK'
<1>1. "idle" \in Phases /\ Go(h, "idle")
  BY DEF Phases, Finish
<1>2. /\ phase' \in [Callers -> Phases] /\ phase'[h] = "idle"
      /\ \A g \in Callers \ {h} : phase'[g] = phase[g]
  BY <1>1, Goes
<1>3. /\ task' \in [Callers -> Tasks \cup {NoTask}] /\ task'[h] = NoTask
      /\ \A g \in Callers \ {h} : task'[g] = task[g]
  BY DEF Finish, InstallTypeOK
<1>4. clean' \in [Callers -> BOOLEAN]
  BY DEF Finish, InstallTypeOK
<1> QED BY <1>2, <1>3, <1>4 DEF InstallTypeOK, settings, Tasks, HistoryRows

(* A request, or its admission, gives the handler a task.                  *)
LEMMA Takes ==
  ASSUME InstallTypeOK, NEW h \in Callers, NEW next \in Phases \ {"idle"}, Go(h, next),
         NEW t \in Tasks, task' = [task EXCEPT ![h] = t],
         UNCHANGED <<clean, settings>>, log' \in HistoryRows, TypeOK'
  PROVE  InstallTypeOK'
<1>1. /\ phase' \in [Callers -> Phases] /\ phase'[h] = next
      /\ \A g \in Callers \ {h} : phase'[g] = phase[g]
  BY Goes
<1>2. /\ task' \in [Callers -> Tasks \cup {NoTask}] /\ task'[h] = t /\ t # NoTask
      /\ \A g \in Callers \ {h} : task'[g] = task[g]
  BY NoTaskAssumption DEF InstallTypeOK
<1> QED BY <1>1, <1>2 DEF InstallTypeOK, settings, Tasks, HistoryRows

LEMMA RowType ==
  ASSUME InstallTypeOK, NEW h \in Callers,
         NEW status \in {"started", "failed", "succeeded", "rolled_back"}, RecordRow(h, status)
  PROVE  log' \in HistoryRows
  BY DEF RecordRow, InstallTypeOK, HistoryRows

LEMMA InstallNext == InstallTypeOK /\ [Next]_vars => InstallTypeOK'
<1> SUFFICES ASSUME InstallTypeOK, [Next]_vars PROVE InstallTypeOK'
  OBVIOUS
<1>0. TypeOK' /\ log \in HistoryRows /\ clean \in [Callers -> BOOLEAN] /\ lastSeen \in Dates \cup {Unset}
  BY StoreType DEF InstallTypeOK
<1>1. CASE UNCHANGED vars
  BY <1>0, <1>1 DEF InstallTypeOK, vars, manager, settings, Tasks, HistoryRows
<1>2. CASE Operator
  BY <1>0, <1>2 DEF Operator, SetPin, ClearPin, SetLocked, InstallTypeOK, manager, Tasks, HistoryRows
<1>3. CASE AgentCrash
  <2>1. "idle" \in Phases
    BY DEF Phases
  <2> QED BY <1>0, <1>3, <2>1 DEF AgentCrash, InstallTypeOK, settings, Tasks, HistoryRows
<1>4. ASSUME NEW h \in Callers, Request(h) PROVE InstallTypeOK'
  <2>0. "fetched" \in Phases \ {"idle"} /\ "back" \in Phases \ {"idle"}
    BY DEF Phases
  <2>1. ASSUME NEW m \in Published, NEW down \in BOOLEAN, NEW force \in BOOLEAN,
               Install(h, m, down, force)
        PROVE  InstallTypeOK'
    <3>1. [from |-> current, to |-> m.version, date |-> m.date, down |-> down] \in Tasks
      BY PublishedAssumption DEF Tasks, InstallTypeOK, TypeOK, Dates
    <3> QED BY <1>0, <2>0, <2>1, <3>1, Takes DEF Install
  <2>2. CASE Rollback(h)
    <3>1. [from |-> current, to |-> previous, date |-> Unset, down |-> TRUE] \in Tasks
      BY <2>2 DEF Tasks, InstallTypeOK, TypeOK, Rollback
    <3> QED BY <1>0, <2>0, <2>2, <3>1, Takes DEF Rollback
  <2> QED BY <1>4, <2>1, <2>2 DEF Request
<1>5. ASSUME NEW h \in Callers, Working(h) PROVE InstallTypeOK'
  <2> USE <1>0, Moves, Finishes, RowType
  <2>0. \A next \in {"admitted", "install", "stopped", "start", "check", "commit", "record",
                     "undo", "undo.start", "undo.record", "back.start", "back.check",
                     "back.undo"} : next \in Phases \ {"idle"}
    BY DEF Phases, Undoing
  <2>1. ASSUME NEW m \in Published, Admit(h, m) PROVE InstallTypeOK'
    <3> DEFINE t == [task[h] EXCEPT !.from = current]
    <3>1. t \in Tasks
      <4>1. phase[h] # "idle" /\ current \in Pointer
        BY <2>1 DEF Admit, InstallTypeOK, TypeOK
      <4>2. task[h] \in Tasks
        BY <4>1, TaskType
      <4> QED BY <4>1, <4>2 DEF Tasks
    <3>2. task' = [task EXCEPT ![h] = t] /\ log' \in HistoryRows
      BY <2>1 DEF Admit, HistoryRows
    <3> QED BY <2>0, <2>1, <3>1, <3>2, Takes DEF Admit
  <2>2. ASSUME NEW m \in Published, Refuse(h, m) PROVE InstallTypeOK'
    BY <2>2 DEF Refuse, GiveUp
  <2>3. CASE Download(h)
    BY <2>0, <2>3 DEF Download, GoOn, Fails, settings
  <2>4. CASE InstallFails(h)
    BY <2>4 DEF InstallFails, Fails
  <2>5. CASE Stop(h)
    BY <2>0, <2>5 DEF Stop, GoOn, settings, manager, InstallTypeOK, Tasks, HistoryRows
  <2>6. CASE Promoted(h)
    BY <2>0, <2>6 DEF Promoted, GoOn, settings
  <2>7. CASE Extract(h) \/ StoreStep(h)
    BY <2>7 DEF Extract, StoreStep, InstallTypeOK, manager, settings, Tasks, HistoryRows
  <2>8. CASE Start(h) \/ HealthCheck(h)
    BY <2>0, <2>8 DEF Start, HealthCheck, GoOn, settings
  <2>9. CASE Commit(h)
    <3>1. CASE GiveUp(h) /\ UNCHANGED lastSeen
      BY <2>9, <3>1 DEF Commit, GiveUp, settings
    <3>2. CASE lastSeen' = task[h].date /\ GoOn(h, "record")
      BY <2>0, <2>9, <3>2, TaskType DEF Commit, GoOn
    <3> QED BY <2>9, <3>1, <3>2 DEF Commit
  <2>10. CASE Succeed(h) \/ UndoRecord(h)
    BY <2>10 DEF Succeed, UndoRecord
  <2>11. CASE Undone(h) \/ UndoStart(h)
    <3>1. CASE UndoGoesWrong(h)
      <4>1. clean' \in [Callers -> BOOLEAN]
        BY <3>1 DEF UndoGoesWrong
      <4> QED BY <2>0, <2>11, <3>1, <4>1 DEF Undone, UndoStart, UndoGoesWrong, settings
    <3> QED BY <2>0, <2>11, <3>1 DEF Undone, UndoStart, GoOn, settings
  <2>12. CASE RolledBack(h) \/ BackStart(h) \/ BackCheck(h) \/ BackUndone(h)
    BY <2>0, <2>12 DEF RolledBack, BackStart, BackCheck, BackUndone, GoOn, GiveUp, settings
  <2> QED BY <1>5, <2>1, <2>2, <2>3, <2>4, <2>5, <2>6, <2>7, <2>8, <2>9, <2>10, <2>11, <2>12
          DEF Working
<1> QED BY <1>1, <1>2, <1>3, <1>4, <1>5 DEF Next

(* The state of a component's updates stays well formed, for any number of *)
(* handlers at once.                                                       *)
THEOREM InstallTypeCorrect == Spec => []InstallTypeOK
  BY InstallInit, InstallNext, PTL DEF Spec

-----------------------------------------------------------------------------
(* One handler: where it may stand in the store in each phase.             *)

USE DEF StageSteps, ExtractSteps, DiscardSteps, PromoteSteps, RevertSteps, PruneSteps, Filling,
        Discarding

Control(h) ==
  /\ phase[h] \in {"idle", "fetched", "admitted", "start", "check", "record", "undo.start",
                   "undo.record", "back.start", "back.check"} => at[h] \in Ready
  /\ phase[h] = "install" => at[h] \in Filling \cup Discarding
  /\ phase[h] = "stopped" => at[h] \in {"filled", "done"} \cup PromoteSteps \cup Discarding
  /\ phase[h] = "commit" => at[h] \in PruneSteps \cup Ready
  /\ phase[h] \in {"undo", "back", "back.undo"} => at[h] \in RevertSteps \cup Ready

(* What holds of the pointers along an installation, its undoing, and a    *)
(* rollback.                                                               *)
Way(h) ==
  LET from == task[h].from
      to == task[h].to
  IN /\ phase[h] \notin {"idle", "fetched", "back", "back.start", "back.check", "back.undo"}
          => from # to
     /\ phase[h] = "admitted" => current = from
     /\ phase[h] \in {"install", "stopped"} => Placed(h, from, to)
     /\ phase[h] \in {"start", "check", "commit", "record"} => current = to /\ previous = from
     /\ phase[h] \in {"undo", "back.undo"} => Reverts(h, to, from)
     /\ phase[h] = "undo.start" => current = from
     /\ phase[h] = "undo.record" => current \in {from, to} /\ (clean[h] => current = from)
     /\ phase[h] = "back" => Reverts(h, from, to)
     /\ phase[h] \in {"back.start", "back.check"} => current = to /\ previous = from

(* Nothing to serve is nothing to go back to.                              *)
Grounded == current = NoVersion => previous = NoVersion

LEMMA WayInit == ASSUME NEW h, Callers = {h} PROVE Init => Control(h) /\ Way(h) /\ Grounded
  BY DEF Init, StoreInit, Control, Way, Grounded

(* A step of the store on the way, and what it does to the pointers.       *)
LEMMA WayStep ==
  ASSUME NEW h \in Callers, InstallTypeOK, Control(h), Way(h), Grounded,
         Continue(h), UNCHANGED manager,
         phase[h] = "install" => at[h] # "filled"
  PROVE  /\ Control(h)' /\ Way(h)' /\ Grounded'
         /\ current' # current =>
              \/ /\ phase[h] = "stopped"
                 /\ current = task[h].from /\ current' = task[h].to
              \/ /\ phase[h] \in {"undo", "back.undo"}
                 /\ current = task[h].to /\ current' = task[h].from
              \/ /\ phase[h] = "back"
                 /\ current = task[h].from /\ current' = task[h].to
         /\ current' # current => previous = current \/ current' = previous
<1> DEFINE from == task[h].from
           to == task[h].to
<1>0. TypeOK /\ phase[h] \in Phases /\ phase'[h] = phase[h] /\ task'[h] = task[h]
      /\ clean'[h] = clean[h]
  BY DEF InstallTypeOK, manager
<1>1. \A v \in Versions : at[h] \notin Ready
  BY <1>0, InstallEffect DEF Grounded
<1>2. at[h] \notin Ready
  BY <1>1, BundledAssumption
<1>3. /\ phase[h] \in {"install", "stopped", "commit", "undo", "back.undo", "back"}
      /\ task[h].to \in Versions /\ task[h].from \in Pointer
  <2>1. phase[h] \in {"install", "stopped", "commit", "undo", "back.undo", "back"}
    BY <1>0, <1>2 DEF Control, Phases, Undoing
  <2> QED BY <2>1, TaskType
<1>4. CASE phase[h] \in {"install", "stopped"}
  <2>1. at[h] \in Filling \cup Discarding \cup PromoteSteps /\ Placed(h, from, to) /\ from # to
    BY <1>2, <1>4 DEF Control, Way
  <2>2. /\ Placed(h, from, to)'
        /\ current' # current => at[h] = "promote.act" /\ current = from /\ current' = to
        /\ previous' # previous => previous' = current
    BY <1>0, <1>3, <2>1, InstallEffect DEF Grounded
  <2>3. Control(h)'
    BY <1>0, <1>2, <1>3, <1>4, InstallEffect DEF Control, Grounded
  <2>4. Grounded'
    BY <1>3, <2>2, VersionsAssumption DEF Grounded
  <2>5. phase[h] = "install" => at[h] # "promote.act"
    BY <1>4 DEF Control
  <2>6. at[h] = "promote.act" => previous = from
    BY <2>1 DEF Placed
  <2> QED BY <1>0, <1>4, <2>1, <2>2, <2>3, <2>4, <2>5, <2>6 DEF Way
<1>5. CASE phase[h] = "commit"
  <2>1. at[h] \in PruneSteps
    BY <1>2, <1>5 DEF Control
  <2>2. at'[h] \in PruneSteps \cup Ready /\ current' = current /\ previous' = previous
    BY <1>0, <1>3, <2>1, InstallEffect DEF Grounded
  <2> QED BY <1>0, <1>5, <2>2 DEF Control, Way, Grounded
<1>6. CASE phase[h] \in {"undo", "back.undo"}
  <2>1. at[h] \in RevertSteps /\ Reverts(h, to, from)
    BY <1>2, <1>6 DEF Control, Way
  <2>2. /\ at'[h] \in RevertSteps \cup Ready /\ Reverts(h, to, from)'
        /\ current' # current => at[h] = "revert.act" /\ current = to /\ current' = from
        /\ current' # NoVersion \/ current = NoVersion
        /\ previous' # previous => current # NoVersion
    BY <1>0, <2>1, RevertEffect DEF Grounded
  <2>3. at[h] = "revert.act" => previous = from
    BY <2>1 DEF Reverts
  <2> QED BY <1>0, <1>6, <2>2, <2>3 DEF Control, Way, Grounded
<1>7. CASE phase[h] = "back"
  <2>1. at[h] \in RevertSteps /\ Reverts(h, from, to)
    BY <1>2, <1>7 DEF Control, Way
  <2>2. /\ at'[h] \in RevertSteps \cup Ready /\ Reverts(h, from, to)'
        /\ current' # current => at[h] = "revert.act" /\ current = from /\ current' = to
        /\ current' # NoVersion \/ current = NoVersion
        /\ previous' # previous => current # NoVersion
    BY <1>0, <2>1, RevertEffect DEF Grounded
  <2>3. at[h] = "revert.act" => previous = to
    BY <2>1 DEF Reverts
  <2> QED BY <1>0, <1>7, <2>2, <2>3 DEF Control, Way, Grounded
<1> QED BY <1>3, <1>4, <1>5, <1>6, <1>7

LEMMA WayNext ==
  ASSUME NEW h, Callers = {h}, InstallTypeOK, Control(h), Way(h), Grounded, [Next]_vars
  PROVE  Control(h)' /\ Way(h)' /\ Grounded'
<1> USE DEF Control, Way, Grounded, GoOn, Go
<1>0. /\ TypeOK /\ at \in [Callers -> Steps] /\ phase \in [Callers -> Phases]
      /\ task \in [Callers -> Tasks \cup {NoTask}] /\ clean \in [Callers -> BOOLEAN]
      /\ phase[h] # "idle" => task[h].to \in Versions /\ task[h].from \in Pointer /\ task[h] \in Tasks
  BY TaskType DEF TypeOK, InstallTypeOK
<1>1. CASE UNCHANGED vars
  BY <1>1 DEF vars, storeVars, manager, Placed, Reverts
<1>2. CASE Operator
  BY <1>2 DEF Operator, SetPin, ClearPin, SetLocked, storeVars, manager, Placed, Reverts
<1>3. CASE AgentCrash
  BY <1>3 DEF AgentCrash, Crash, pointers
<1>4. CASE Request(h)
  <2>1. ASSUME NEW m \in Published, NEW down \in BOOLEAN, NEW force \in BOOLEAN,
               Install(h, m, down, force)
        PROVE  Control(h)' /\ Way(h)' /\ Grounded'
    BY <1>0, <2>1 DEF Install, storeVars
  <2>2. CASE Rollback(h)
    <3>1. task'[h].from = current /\ task'[h].to = previous /\ phase'[h] = "back"
      BY <1>0, <2>2 DEF Rollback
    <3>2. /\ at'[h] \in RevertSteps \cup Ready /\ Reverts(h, current, previous)'
          /\ current' = current /\ previous' = previous
      <4>1. RevertReadPrevious(h) /\ h \in Callers
        BY <2>2 DEF Rollback
      <4> QED BY ONLY <1>0, <4>1, RevertBegins
    <3>3. Reverts(h, task[h].from, task[h].to)'
      BY <3>1, <3>2
    <3>4. Control(h)'
      BY <3>1, <3>2
    <3>5. Way(h)'
      BY <3>1, <3>3
    <3>6. Grounded'
      BY <2>2 DEF Rollback, RevertReadPrevious, pointers
    <3> QED BY <3>4, <3>5, <3>6
  <2> QED BY <1>4, <2>1, <2>2 DEF Request
<1>5. CASE Working(h)
  <2> USE <1>0
  <2>1. ASSUME NEW m \in Published, Admit(h, m) PROVE Control(h)' /\ Way(h)' /\ Grounded'
    <3>1. task'[h].from = current /\ task'[h].to = m.version /\ phase'[h] = "admitted"
      BY <2>1 DEF Admit, Tasks
    <3> QED BY <2>1, <3>1 DEF Admit, Admissible, storeVars
  <2>2. ASSUME NEW m \in Published, Refuse(h, m) PROVE Control(h)' /\ Way(h)' /\ Grounded'
    BY <2>2 DEF Refuse, GiveUp, Finish, storeVars
  <2>3. CASE Download(h)
    <3>1. CASE StageReadCurrent(h, task[h].to) /\ GoOn(h, "install")
      BY <2>3, <3>1 DEF Download, StageReadCurrent, Begins, GoTo, Return, pointers, Placed, TypeOK
    <3>2. CASE Fails(h) /\ UNCHANGED storeVars
      BY <2>3, <3>2 DEF Download, Fails, Finish, storeVars
    <3> QED BY <2>3, <3>1, <3>2 DEF Download
  <2>4. CASE InstallFails(h)
    BY <2>4 DEF InstallFails, Fails, Finish, storeVars
  <2>5. CASE Stop(h)
    <3>1. CASE GoOn(h, "stopped") /\ UNCHANGED storeVars
      BY <2>5, <3>1 DEF Stop, storeVars, Placed
    <3>2. CASE GoTo(h, "rejected") /\ UNCHANGED <<pointers, files, ver, seen, list, manager>>
      BY <2>5, <3>2 DEF Stop, GoTo, pointers, manager, Placed
    <3> QED BY <2>5, <3>1, <3>2 DEF Stop
  <2>6. CASE Promoted(h)
    BY <2>6 DEF Promoted, storeVars, Placed
  <2>7. CASE Extract(h) \/ StoreStep(h)
    <3>1. Continue(h) /\ UNCHANGED manager /\ (phase[h] = "install" => at[h] # "filled")
      BY <2>7 DEF Extract, StoreStep
    <3> QED BY <3>1, WayStep
  <2>8. CASE Start(h)
    <3>1. CASE GoOn(h, "check") /\ UNCHANGED storeVars
      BY <2>8, <3>1 DEF Start, storeVars
    <3>2. CASE GoOn(h, "undo") /\ RevertReadPrevious(h)
      BY <2>8, <3>2, RevertBegins DEF Start, pointers
    <3> QED BY <2>8, <3>1, <3>2 DEF Start
  <2>9. CASE HealthCheck(h)
    <3>1. CASE GoOn(h, "commit") /\ PruneList(h)
      BY <2>9, <3>1 DEF HealthCheck, PruneList, GoTo, pointers
    <3>2. CASE GoOn(h, "undo") /\ RevertReadPrevious(h)
      BY <2>9, <3>2, RevertBegins DEF HealthCheck, pointers
    <3> QED BY <2>9, <3>1, <3>2 DEF HealthCheck
  <2>10. CASE Commit(h) \/ Succeed(h) \/ UndoRecord(h)
    BY <2>10 DEF Commit, Succeed, UndoRecord, GiveUp, Finish, storeVars
  <2>11. CASE Undone(h) \/ UndoStart(h)
    BY <2>11 DEF Undone, UndoStart, UndoGoesWrong, storeVars, Reverts
  <2>12. CASE RolledBack(h) \/ BackStart(h) \/ BackUndone(h)
    BY <2>12 DEF RolledBack, BackStart, BackUndone, GiveUp, Finish, storeVars, Reverts
  <2>13. CASE BackCheck(h)
    <3>1. CASE Finish(h) /\ UNCHANGED storeVars
      BY <2>13, <3>1 DEF BackCheck, Finish, storeVars
    <3>2. CASE GoOn(h, "back.undo") /\ RevertReadPrevious(h)
      BY <2>13, <3>2, RevertBegins DEF BackCheck, pointers
    <3> QED BY <2>13, <3>1, <3>2 DEF BackCheck
  <2> QED BY <1>5, <2>1, <2>2, <2>3, <2>4, <2>5, <2>6, <2>7, <2>8, <2>9, <2>10, <2>11, <2>12,
             <2>13 DEF Working
<1> QED BY <1>1, <1>2, <1>3, <1>4, <1>5 DEF Next

(* A handler's manifest is no older than the last one acted on, and goes   *)
(* to an older version only where that was asked for.                      *)
Forward == {"admitted", "install", "stopped", "start", "check", "commit", "record"}
Back == {"back", "back.start", "back.check", "back.undo"}

Dated(h) ==
  /\ phase[h] \in Forward \cup {"fetched"} =>
       task[h].date \in Dates /\ (lastSeen # Unset => task[h].date >= lastSeen)
  /\ phase[h] \in Back => task[h].down
  /\ phase[h] \in Forward /\ ~task[h].down /\ task[h].from # NoVersion =>
       Compare(task[h].to, task[h].from) >= 0

LEMMA DatedInit == ASSUME NEW h, Callers = {h} PROVE Init => Dated(h)
  BY DEF Init, Dated, Forward, Back

(* A step within an operation leaves its task and the dates alone.         *)
LEMMA DatedStays ==
  ASSUME NEW h \in Callers, Dated(h), UNCHANGED lastSeen, task'[h] = task[h],
         phase'[h] \in Forward => phase[h] \in Forward,
         phase'[h] # "fetched" \/ phase[h] = "fetched",
         phase'[h] \in Back => phase[h] \in Back
  PROVE  Dated(h)'
  BY DEF Dated

LEMMA DatedEnds == ASSUME NEW h, phase'[h] = "idle" PROVE Dated(h)'
  BY DEF Dated, Forward, Back

LEMMA DatedNext ==
  ASSUME NEW h, Callers = {h}, InstallTypeOK, Dated(h), [Next]_vars
  PROVE  Dated(h)'
<1> USE DatedStays, DatedEnds DEF Forward, Back
<1>0. /\ phase \in [Callers -> Phases] /\ h \in Callers
      /\ task \in [Callers -> Tasks \cup {NoTask}]
      /\ phase[h] # "idle" => task[h].to \in Versions /\ task[h].from \in Pointer /\ task[h] \in Tasks
  BY TaskType DEF InstallTypeOK
<1>1. CASE UNCHANGED vars
  BY <1>1 DEF vars, manager, settings
<1>2. CASE Operator
  BY <1>2 DEF Operator, SetPin, ClearPin, SetLocked, manager
<1>3. CASE AgentCrash
  BY <1>0, <1>3 DEF AgentCrash
<1>4. CASE Request(h)
  <2>1. ASSUME NEW m \in Published, NEW down \in BOOLEAN, NEW force \in BOOLEAN,
               Install(h, m, down, force)
        PROVE  Dated(h)'
    <3>1. m.date \in Dates /\ (lastSeen # Unset => m.date >= lastSeen)
      BY <2>1 DEF Install, fetchVerifiedManifest, CheckNotReplayed, Dates
    <3>2. task'[h].date = m.date /\ phase'[h] = "fetched" /\ UNCHANGED lastSeen
      BY <1>0, <2>1 DEF Install, Go, settings
    <3> QED BY <3>1, <3>2 DEF Dated
  <2>2. CASE Rollback(h)
    BY <1>0, <2>2 DEF Rollback, Go, settings, Dated
  <2> QED BY <1>4, <2>1, <2>2 DEF Request
<1>5. CASE Working(h)
  <2> USE <1>0
  <2>1. ASSUME NEW m \in Published, Admit(h, m) PROVE Dated(h)'
    <3>1. /\ task'[h].from = current /\ task'[h].to = m.version /\ task'[h].date = task[h].date
          /\ task'[h].down = task[h].down
          /\ phase'[h] = "admitted" /\ phase[h] = "fetched" /\ UNCHANGED lastSeen
      BY <2>1 DEF Admit, Tasks, Go, settings
    <3>2. current # NoVersion /\ ~task[h].down => Compare(m.version, current) >= 0
      BY <2>1, StringsAssumption
      DEF Admit, Admissible, CheckNotDowngrade, CurrentVersion, InstallTypeOK, TypeOK
    <3> QED BY <3>1, <3>2 DEF Dated
  <2>2. ASSUME NEW m \in Published, Refuse(h, m) PROVE Dated(h)'
    BY <2>2 DEF Refuse, GiveUp, Finish, Go
  <2>3. CASE Download(h) \/ InstallFails(h) \/ Stop(h) \/ Promoted(h)
    BY <2>3 DEF Download, InstallFails, Stop, Promoted, GoOn, Go, Fails, Finish, manager, settings
  <2>4. CASE Extract(h) \/ StoreStep(h)
    BY <2>4 DEF Extract, StoreStep, manager, settings
  <2>5. CASE Start(h) \/ HealthCheck(h)
    BY <2>5 DEF Start, HealthCheck, GoOn, Go, settings
  <2>6. CASE Commit(h)
    <3>1. CASE GiveUp(h)
      BY <3>1 DEF GiveUp, Finish, Go
    <3>2. CASE lastSeen' = task[h].date /\ GoOn(h, "record")
      <4>1. task[h].date \in Dates
        BY <2>6 DEF Commit, Dated
      <4>2. \A d \in Dates : d >= d
        BY PublishedAssumption DEF Dates
      <4> QED BY <2>6, <3>2, <4>1, <4>2 DEF Commit, GoOn, Go, Dated
    <3> QED BY <2>6, <3>1, <3>2 DEF Commit
  <2>7. CASE Succeed(h) \/ UndoRecord(h) \/ BackUndone(h)
    BY <2>7 DEF Succeed, UndoRecord, BackUndone, GiveUp, Finish, Go
  <2>8. CASE Undone(h) \/ UndoStart(h)
    BY <2>8 DEF Undone, UndoStart, UndoGoesWrong, GoOn, Go, settings
  <2>9. CASE RolledBack(h) \/ BackStart(h) \/ BackCheck(h)
    BY <2>9 DEF RolledBack, BackStart, BackCheck, GoOn, Go, GiveUp, Finish, settings
  <2> QED BY <1>5, <2>1, <2>2, <2>3, <2>4, <2>5, <2>6, <2>7, <2>8, <2>9 DEF Working
<1> QED BY <1>1, <1>2, <1>3, <1>4, <1>5 DEF Next

-----------------------------------------------------------------------------
(* What one handler keeps.                                                 *)

InstallInv(h) == InstallTypeOK /\ Control(h) /\ Way(h) /\ Grounded /\ Dated(h)

LEMMA InvInit == ASSUME NEW h, Callers = {h} PROVE Init => InstallInv(h)
  BY InstallInit, WayInit, DatedInit DEF InstallInv

LEMMA InvNext ==
  ASSUME NEW h, Callers = {h} PROVE InstallInv(h) /\ [Next]_vars => InstallInv(h)'
  BY InstallNext, WayNext, DatedNext DEF InstallInv

(* The release that serves changes when Promote or a rollback activates,   *)
(* and in no other step.                                                   *)
LEMMA Switches ==
  ASSUME NEW h, Callers = {h}, InstallInv(h), [Next]_vars, current' # current
  PROVE  /\ UNCHANGED <<manager, settings>> /\ Continue(h)
         /\ \/ /\ phase[h] \in {"stopped", "back"}
               /\ current = task[h].from /\ current' = task[h].to
            \/ /\ phase[h] \in {"undo", "back.undo"}
               /\ current = task[h].to /\ current' = task[h].from
         /\ previous = current \/ current' = previous
<1>1. Extract(h) \/ StoreStep(h)
  BY DEF vars, storeVars, pointers, Next, Operator, SetPin, ClearPin, SetLocked, AgentCrash, Crash,
         Request, Install, Rollback, RevertReadPrevious, Working, Admit, Refuse, Download,
         StageReadCurrent, InstallFails, Stop, Promoted, Start, HealthCheck, PruneList, Commit,
         Succeed, Undone, UndoStart, UndoRecord, RolledBack, BackStart, BackCheck, BackUndone
<1>2. /\ Continue(h) /\ UNCHANGED <<manager, settings>>
      /\ phase[h] = "install" => at[h] # "filled"
  BY <1>1 DEF Extract, StoreStep
<1> QED BY <1>2, WayStep DEF InstallInv

(* The date a manifest is compared with never moves back.                  *)
THEOREM ReplayGuardAlwaysAdvances ==
  ASSUME NEW h, Callers = {h} PROVE Spec => ReplayGuardAdvances
<1> DEFINE Advances == lastSeen' # lastSeen /\ lastSeen # Unset => lastSeen' > lastSeen
<1>1. ASSUME InstallInv(h), [Next]_vars, lastSeen' # lastSeen, lastSeen # Unset
      PROVE  lastSeen' > lastSeen
  <2>1. Commit(h) /\ lastSeen' = task[h].date
    BY <1>1 DEF vars, settings, Next, Operator, SetPin, ClearPin, SetLocked, AgentCrash, Request,
                Install, Rollback, Working, Admit, Refuse, Download, InstallFails, Stop, Promoted,
                Extract, StoreStep, Start, HealthCheck, Commit, Succeed, Undone, UndoStart,
                UndoRecord, RolledBack, BackStart, BackCheck, BackUndone
  <2>2. task[h].date \in Dates /\ task[h].date >= lastSeen
    BY <1>1, <2>1 DEF Commit, InstallInv, Dated, Forward
  <2>3. lastSeen \in Dates /\ \A d \in Dates : d \in Nat
    BY <1>1, PublishedAssumption DEF InstallInv, InstallTypeOK, Dates
  <2> QED BY <1>1, <2>1, <2>2, <2>3
<1>2. InstallInv(h) /\ [Next]_vars => [Advances]_vars
  BY <1>1
<1> QED BY <1>2, InvInit, InvNext, PTL DEF Spec, ReplayGuardAdvances

(* Where every release is named by a version, the component goes to one    *)
(* that precedes its own only on request or to undo an update.             *)
THEOREM NeverAnUnaskedDowngrade ==
  ASSUME NEW h, Callers = {h}, \A v \in Versions : IsValidSemVer(v)
  PROVE  Spec => NoUnaskedDowngrade
<1> DEFINE Kept == current' # current /\ current # NoVersion /\ Precedes(current', current) =>
                     DowngradeAsked
<1>1. ASSUME InstallInv(h), [Next]_vars, current' # current, current # NoVersion,
             Precedes(current', current)
      PROVE  DowngradeAsked
  <2>1. \/ /\ phase[h] \in {"stopped", "back"}
           /\ current = task[h].from /\ current' = task[h].to
        \/ phase[h] \in {"undo", "back.undo"}
    BY <1>1, Switches
  <2>2. task[h] # NoTask /\ task[h].to \in Versions /\ current \in Versions
    BY <1>1, <2>1, TaskType DEF InstallInv, InstallTypeOK, TypeOK
  <2>3. CASE phase[h] = "stopped" /\ current = task[h].from /\ current' = task[h].to
    <3>1. Compare(task[h].to, task[h].from) < 0
      BY <1>1, <2>2, <2>3, CompareIsPrecedence, StringsAssumption
    <3>2. ~(Compare(task[h].to, task[h].from) >= 0)
      BY <3>1, CompareType
    <3> QED BY <1>1, <2>2, <2>3, <3>2 DEF InstallInv, Dated, Forward, DowngradeAsked
  <2>4. CASE phase[h] = "back"
    BY <1>1, <2>2, <2>4 DEF InstallInv, Dated, Back, DowngradeAsked
  <2> QED BY <2>1, <2>2, <2>3, <2>4 DEF Undoing, DowngradeAsked
<1>2. InstallInv(h) /\ [Next]_vars => [Kept]_vars
  BY <1>1
<1> QED BY <1>2, InvInit, InvNext, PTL DEF Spec, NoUnaskedDowngrade

(* An installation never loses the release it replaces.                    *)
THEOREM InstallPromotionSafe ==
  ASSUME NEW h, Callers = {h} PROVE Spec => PromotionKeepsPredecessor
<1>1. InstallInv(h) /\ [Next]_vars => [KeepsPredecessor]_storeVars
  BY Switches DEF KeepsPredecessor
<1> QED BY <1>1, InvInit, InvNext, PTL DEF Spec, PromotionKeepsPredecessor

(* A component that does not stop leaves the store's strengthening as it   *)
(* is: what was filled and is now to be discarded is no live release.      *)
LEMMA StopKeepsFiles ==
  ASSUME NEW h, Callers = {h}, TypeOK, PointersAsRead, FilesInv, StopRejects(h)
  PROVE  PointersAsRead' /\ FilesInv'
<1>1. /\ at[h] = "filled" /\ at'[h] = "rejected"
      /\ UNCHANGED <<current, previous, staged, files, ver, seen, list>>
  BY DEF StopRejects, GoTo, TypeOK, pointers
<1>2. PointersAsRead'
  BY <1>1 DEF PointersAsRead
<1>3. staged = ver[h] /\ ver[h] \in Versions \ Live
  BY <1>1 DEF FilesInv, FilesApart
<1>4. FilesApart'
  BY <1>1, <1>3 DEF FilesApart, Live, SwitchSteps
<1>5. LiveReleasesUsable'
  BY <1>1 DEF FilesInv, LiveReleasesUsable, Usable
<1> QED BY <1>2, <1>4, <1>5 DEF FilesInv

(* What "current" and "previous" name stays whole on disk through every    *)
(* installation and rollback, whichever calls fail and wherever the agent  *)
(* dies: after a Promote that failed on its last step, "staged" names the  *)
(* live release, and Install leaves it alone as it discards nothing then.  *)
THEOREM InstallLiveReleasesSafe ==
  ASSUME NEW h, Callers = {h}, "switch" \notin Ops, KeepsActivated
  PROVE  Spec => []LiveReleasesUsable
<1> DEFINE Inv == InstallTypeOK /\ PointersAsRead /\ FilesInv
<1>1. Init => Inv
  BY InstallInit, InitPointersAsRead, InitFilesInv DEF Init
<1>2. ASSUME Inv, [Next]_vars PROVE Inv'
  <2>1. OneAtATime /\ OneAtATime'
    BY DEF OneAtATime
  <2>2. TypeOK
    BY <1>2 DEF InstallTypeOK
  <2>3. CASE [StoreNext]_storeVars
    BY <1>2, <2>1, <2>2, <2>3, StepPointersAsRead, StepFilesInv, NoSwitches, InstallNext
  <2>4. CASE StopRejects(h)
    BY <1>2, <2>2, <2>4, StopKeepsFiles, InstallNext
  <2> QED BY <1>2, <2>3, <2>4, StoreSteps
<1>3. Inv => LiveReleasesUsable
  BY DEF FilesInv
<1> QED BY <1>1, <1>2, <1>3, PTL DEF Spec

-----------------------------------------------------------------------------
(* The operations of one handler implement Rollout.                        *)

Jobs == [from : Pointer, to : Versions, stage : {"prepared", "switched", "undone"}]

LEMMA TheOne == ASSUME NEW h, Callers = {h} PROVE TheHandler = h
  BY DEF TheHandler

(* An operation under way is a job of Rollout.                             *)
LEMMA JobType ==
  ASSUME NEW h \in Callers, InstallTypeOK
  PROVE  /\ phase[h] \in {"idle", "fetched"} => JobOf(h) = NoTask
         /\ phase[h] \notin {"idle", "fetched"} =>
              /\ JobOf(h) # NoTask /\ JobOf(h) \in Jobs
              /\ JobOf(h).from = task[h].from /\ JobOf(h).to = task[h].to
              /\ JobOf(h).stage = IF current = task[h].to THEN "switched"
                                  ELSE IF phase[h] \in Undoing THEN "undone" ELSE "prepared"
<1>1. phase[h] \in {"idle", "fetched"} => JobOf(h) = NoTask
  BY DEF JobOf
<1>2. ASSUME phase[h] \notin {"idle", "fetched"}
      PROVE  /\ JobOf(h) \in Jobs
             /\ JobOf(h).from = task[h].from /\ JobOf(h).to = task[h].to
             /\ JobOf(h).stage = IF current = task[h].to THEN "switched"
                                 ELSE IF phase[h] \in Undoing THEN "undone" ELSE "prepared"
  <2>1. task[h].from \in Pointer /\ task[h].to \in Versions
    BY <1>2, TaskType
  <2> QED BY <1>2, <2>1 DEF JobOf, Jobs
<1> QED BY <1>1, <1>2, NoTaskAssumption DEF Jobs

LEMMA ContractInit == ASSUME NEW h, Callers = {h} PROVE Init => Contract!Init
<1> SUFFICES ASSUME Init PROVE Contract!Init
  OBVIOUS
<1>1. InstallTypeOK /\ phase[h] = "idle" /\ h \in Callers
  BY InstallInit DEF Init
<1> QED BY <1>1, JobType, TheOne DEF Init, Contract!Init, InstallTypeOK, TypeOK

(* The steps an operation shows: nothing else of it is visible.            *)
LEMMA Shows ==
  ASSUME NEW h, Callers = {h}, UNCHANGED <<current, log>>, JobOf(h)' = JobOf(h)
  PROVE  UNCHANGED Contract!rolloutVars
  BY TheOne DEF Contract!rolloutVars

LEMMA Ends ==
  ASSUME NEW h, Callers = {h}, InstallTypeOK, InstallTypeOK', phase[h] \notin {"idle", "fetched"},
         phase'[h] = "idle", UNCHANGED current,
         \/ UNCHANGED log
         \/ \E status \in {"succeeded", "failed", "rolled_back"} :
              /\ log' = [status |-> status, clean |-> clean[h]]
              /\ Contract!Truthful(status, clean[h], JobOf(h).stage)
  PROVE  Contract!End
<1>1. JobOf(h) # NoTask /\ JobOf(h)' = NoTask /\ clean[h] \in BOOLEAN
  BY JobType, TaskType DEF JobOf
<1> QED BY <1>1, TheOne DEF Contract!End

LEMMA GoesOnUnseen ==
  ASSUME NEW h, Callers = {h}, UNCHANGED <<current, log>>, task'[h] = task[h],
         phase[h] \notin {"idle", "fetched"}, phase'[h] \notin {"idle", "fetched"},
         current = task[h].to \/ (phase'[h] \in Undoing <=> phase[h] \in Undoing)
  PROVE  UNCHANGED Contract!rolloutVars
<1>1. JobOf(h)' = JobOf(h)
  BY DEF JobOf
<1> QED BY <1>1, Shows

(* Every step is one of Rollout's, or is not visible there.                *)
LEMMA ContractNext ==
  ASSUME NEW h, Callers = {h}, InstallInv(h), InstallInv(h)', [Next]_vars
  PROVE  [Contract!Next]_(Contract!rolloutVars)
<1> USE GoesOnUnseen, Ends DEF GoOn, Go
<1>0. /\ InstallTypeOK /\ InstallTypeOK' /\ h \in Callers /\ TheHandler = h
      /\ phase \in [Callers -> Phases] /\ task \in [Callers -> Tasks \cup {NoTask}]
      /\ phase[h] # "idle" =>
           /\ task[h].to \in Versions /\ task[h].from \in Pointer /\ task[h] \in Tasks
           /\ clean[h] \in BOOLEAN
      /\ current \in Pointer
  BY TaskType, TheOne DEF InstallInv, InstallTypeOK, TypeOK
<1>1. CASE UNCHANGED vars
  <2>1. JobOf(h)' = JobOf(h) /\ UNCHANGED <<current, log>>
    BY <1>1 DEF vars, storeVars, manager, JobOf
  <2> QED BY <2>1, Shows
<1>2. CASE Operator
  <2>1. JobOf(h)' = JobOf(h) /\ UNCHANGED <<current, log>>
    BY <1>2 DEF Operator, SetPin, ClearPin, SetLocked, storeVars, manager, JobOf
  <2> QED BY <2>1, Shows
<1>3. CASE AgentCrash
  <2>1. phase[h] # "idle" /\ phase'[h] = "idle" /\ UNCHANGED <<current, log>>
    BY <1>3 DEF AgentCrash, Crash, pointers
  <2>2. CASE phase[h] = "fetched"
    <3>1. JobOf(h)' = JobOf(h)
      BY <2>1, <2>2 DEF JobOf
    <3> QED BY <2>1, <3>1, Shows
  <2> QED BY <1>0, <2>1, <2>2 DEF Contract!Next
<1>4. CASE Request(h)
  <2>1. ASSUME NEW m \in Published, NEW down \in BOOLEAN, NEW force \in BOOLEAN,
               Install(h, m, down, force)
        PROVE  UNCHANGED Contract!rolloutVars
    <3>1. /\ phase[h] = "idle" /\ phase'[h] = "fetched" /\ UNCHANGED <<current, log>>
      BY <1>0, <2>1 DEF Install, storeVars
    <3>2. JobOf(h)' = JobOf(h)
      BY <3>1 DEF JobOf
    <3> QED BY <3>1, <3>2, Shows
  <2>2. CASE Rollback(h)
    <3>1. /\ phase[h] = "idle" /\ phase'[h] = "back" /\ UNCHANGED <<current, log>>
          /\ task'[h].from = current /\ task'[h].to = previous /\ previous \in Versions
      BY <1>0, <2>2 DEF Rollback, RevertReadPrevious, pointers, InstallTypeOK, TypeOK
    <3>2. /\ JobOf(h) = NoTask
          /\ JobOf(h)' = [from |-> current, to |-> previous,
                          stage |-> IF previous = current THEN "switched" ELSE "prepared"]
      BY <3>1 DEF JobOf, Undoing
    <3>3. Contract!Begin(previous)
      BY <1>0, <3>1, <3>2, TheOne DEF Contract!Begin
    <3> QED BY <3>1, <3>3 DEF Contract!Next
  <2> QED BY <1>4, <2>1, <2>2 DEF Request
<1>5. CASE Working(h)
  <2> USE <1>0 DEF Undoing
  <2>1. ASSUME NEW m \in Published, Admit(h, m) PROVE Contract!Next
    <3>1. /\ phase[h] = "fetched" /\ phase'[h] = "admitted" /\ UNCHANGED current
          /\ task'[h].from = current /\ task'[h].to = m.version /\ m.version # current
          /\ log' = [status |-> "started", clean |-> TRUE] /\ m.version \in Versions
      BY <2>1, PublishedAssumption DEF Admit, Admissible, Tasks, storeVars
    <3>2. /\ JobOf(h) = NoTask
          /\ JobOf(h)' = [from |-> current, to |-> m.version, stage |-> "prepared"]
      BY <3>1 DEF JobOf
    <3>3. Contract!Begin(m.version)
      BY <3>1, <3>2 DEF Contract!Begin
    <3> QED BY <3>1, <3>3 DEF Contract!Next
  <2>2. ASSUME NEW m \in Published, Refuse(h, m) PROVE UNCHANGED Contract!rolloutVars
    <3>1. JobOf(h)' = JobOf(h) /\ UNCHANGED <<current, log>>
      BY <2>2 DEF Refuse, GiveUp, Finish, JobOf, storeVars
    <3> QED BY <3>1, Shows
  <2>3. ASSUME phase[h] \in {"admitted", "install", "stopped"}, Fails(h), UNCHANGED storeVars
        PROVE  Contract!Next
    <3>1. JobOf(h).stage # "undone"
      BY <2>3, JobType
    <3>2. Contract!Truthful("failed", clean[h], JobOf(h).stage)
      BY <3>1 DEF Contract!Truthful
    <3>3. Contract!End
      BY <2>3, <3>2 DEF Fails, RecordRow, Finish, storeVars
    <3> QED BY <3>3 DEF Contract!Next
  <2>4. ASSUME phase[h] \notin {"idle", "fetched"}, GiveUp(h), UNCHANGED storeVars
        PROVE  Contract!Next
    <3>1. Contract!End
      BY <2>4 DEF GiveUp, Finish, storeVars
    <3> QED BY <3>1 DEF Contract!Next
  <2>5. ASSUME phase[h] \in {"record", "back.check"}, RecordRow(h, "succeeded"), Finish(h),
               UNCHANGED storeVars
        PROVE  Contract!Next
    <3>1. JobOf(h).stage = "switched"
      BY <2>5, JobType DEF InstallInv, Way
    <3>2. Contract!Truthful("succeeded", clean[h], JobOf(h).stage)
      BY <3>1 DEF Contract!Truthful
    <3>3. Contract!End
      BY <2>5, <3>2 DEF RecordRow, Finish, storeVars
    <3> QED BY <3>3 DEF Contract!Next
  <2>6. CASE Download(h)
    BY <2>3, <2>6 DEF Download, StageReadCurrent, pointers
  <2>7. CASE InstallFails(h)
    BY <2>3, <2>7 DEF InstallFails
  <2>8. CASE Stop(h) \/ Promoted(h)
    BY <2>8 DEF Stop, Promoted, storeVars, pointers, manager
  <2>9. CASE Extract(h) \/ StoreStep(h)
    <3>1. UNCHANGED manager
      BY <2>9 DEF Extract, StoreStep
    <3>2. CASE current' = current
      <4>1. JobOf(h)' = JobOf(h) /\ UNCHANGED <<current, log>>
        BY <3>1, <3>2 DEF JobOf, manager
      <4> QED BY <4>1, Shows
    <3>3. CASE /\ current' # current /\ phase[h] \in {"stopped", "back"}
               /\ current = task[h].from /\ current' = task[h].to
      <4>1. /\ JobOf(h) = [from |-> task[h].from, to |-> task[h].to, stage |-> "prepared"]
            /\ JobOf(h)' = [from |-> task[h].from, to |-> task[h].to, stage |-> "switched"]
        BY <3>1, <3>3 DEF JobOf, manager
      <4>2. JobOf(h) # NoTask /\ UNCHANGED log
        BY <3>1, <3>3, JobType DEF manager
      <4>3. Contract!Switch
        BY <3>3, <4>1, <4>2 DEF Contract!Switch
      <4> QED BY <4>3 DEF Contract!Next
    <3>4. CASE /\ current' # current /\ phase[h] \in {"undo", "back.undo"}
               /\ current = task[h].to /\ current' = task[h].from
      <4>1. /\ JobOf(h) = [from |-> task[h].from, to |-> task[h].to, stage |-> "switched"]
            /\ JobOf(h)' = [from |-> task[h].from, to |-> task[h].to, stage |-> "undone"]
        BY <3>1, <3>4 DEF JobOf, manager
      <4>2. JobOf(h) # NoTask /\ UNCHANGED log
        BY <3>1, <3>4, JobType DEF manager
      <4>3. Contract!Undo
        BY <3>4, <4>1, <4>2 DEF Contract!Undo
      <4> QED BY <4>3 DEF Contract!Next
    <3> QED BY <3>2, <3>3, <3>4, Switches
  <2>10. CASE Start(h) \/ HealthCheck(h)
    <3>1. phase[h] \in {"start", "check"} => current = task[h].to
      BY DEF InstallInv, Way
    <3> QED BY <2>10, <3>1 DEF Start, HealthCheck, PruneList, RevertReadPrevious, storeVars, pointers
  <2>11. CASE Commit(h)
    BY <2>4, <2>11 DEF Commit, storeVars
  <2>12. CASE Succeed(h)
    BY <2>5, <2>12 DEF Succeed
  <2>13. CASE Undone(h) \/ UndoStart(h)
    BY <2>13 DEF Undone, UndoStart, UndoGoesWrong, storeVars
  <2>14. CASE UndoRecord(h)
    <3>1. clean[h] => JobOf(h).stage = "undone"
      BY <2>14, JobType DEF UndoRecord, InstallInv, Way
    <3>2. Contract!Truthful("rolled_back", clean[h], JobOf(h).stage)
      BY <3>1 DEF Contract!Truthful
    <3>3. Contract!End
      BY <2>14, <3>2 DEF UndoRecord, RecordRow, Finish, storeVars
    <3> QED BY <3>3 DEF Contract!Next
  <2>15. CASE RolledBack(h) \/ BackStart(h) \/ BackUndone(h)
    BY <2>4, <2>15 DEF RolledBack, BackStart, BackUndone, storeVars
  <2>16. CASE BackCheck(h)
    <3>1. phase[h] = "back.check" => current = task[h].to
      BY DEF InstallInv, Way
    <3> QED BY <2>5, <2>16, <3>1 DEF BackCheck, RevertReadPrevious, pointers
  <2> QED BY <1>5, <2>1, <2>2, <2>6, <2>7, <2>8, <2>9, <2>10, <2>11, <2>12, <2>13, <2>14, <2>15,
             <2>16 DEF Working
<1> QED BY <1>1, <1>2, <1>3, <1>4, <1>5 DEF Next

(* One handler's operations implement Rollout: only the release it left or *)
(* its goal ever serves, and the row that ends it says what happened,      *)
(* whatever calls and pointer writes fail and wherever the agent dies.     *)
THEOREM InstallImplementsRollout ==
  ASSUME NEW h, Callers = {h} PROVE Spec => KeepsRolloutContract
<1>1. InstallInv(h) /\ InstallInv(h)' /\ [Next]_vars => [Contract!Next]_(Contract!rolloutVars)
  BY ContractNext
<1> QED BY <1>1, InvInit, InvNext, ContractInit, PTL DEF Spec, KeepsRolloutContract, Contract!Spec

-----------------------------------------------------------------------------
(* What follows from Rollout alone follows for every manager that keeps it. *)
Promise == INSTANCE RolloutProofs WITH
  Releases <- Versions, None <- NoVersion, Idle <- NoTask, Revertible <- FALSE,
  live <- current, job <- JobOf(TheHandler), report <- log

LEMMA InstallKeepsPromise == Contract!Spec => Contract!OnlyTheJobSwitches /\ Contract!ReportsAreTrue
<1>1. Contract!Init => Promise!Init
  BY DEF Contract!Init, Promise!Init
<1>2. [Contract!Next]_(Contract!rolloutVars) => [Promise!Next]_(Promise!rolloutVars)
  BY DEF Contract!Next, Contract!Begin, Contract!Revert, Contract!Switch, Contract!Undo,
         Contract!End, Contract!Truthful, Contract!rolloutVars, Promise!Next, Promise!Begin,
         Promise!Revert, Promise!Switch, Promise!Undo, Promise!End, Promise!Truthful,
         Promise!rolloutVars
<1>3. Contract!Spec => Promise!Spec
  BY <1>1, <1>2, PTL DEF Contract!Spec, Promise!Spec
<1>4. Promise!Spec => Promise!OnlyTheJobSwitches /\ Promise!ReportsAreTrue
  BY Promise!OnlyJobsSwitch, Promise!RowsAreTrue
<1> QED BY <1>3, <1>4, PTL
        DEF Promise!OnlyTheJobSwitches, Contract!OnlyTheJobSwitches, Promise!ReportsAreTrue,
            Contract!ReportsAreTrue, Promise!rolloutVars, Contract!rolloutVars

(* Nothing but an operation changes what the dashboard is served from, and *)
(* its rows are true of what serves when they are written.                 *)
THEOREM InstallRowsAreTrue ==
  ASSUME NEW h, Callers = {h}
  PROVE  Spec => Contract!OnlyTheJobSwitches /\ Contract!ReportsAreTrue
  BY InstallKeepsPromise, InstallImplementsRollout, PTL DEF KeepsRolloutContract
=============================================================================
