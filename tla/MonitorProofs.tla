--------------------------- MODULE MonitorProofs ---------------------------
(***************************************************************************)
(* Proofs about Monitor for every threshold, window, cooldown and budget,  *)
(* every number of clients and every choice of failing calls.              *)
(***************************************************************************)
EXTENDS Monitor, TLAPS, FiniteSetTheorems

(* The shape of Guardian's variables; restartTimes holds what was granted, *)
(* and ages that are too old to count; nothing is younger than             *)
(* lastRestart.  Without the last part the cooldown would say nothing of   *)
(* the restarts before the latest one.                                     *)
GuardianType ==
  /\ restartTimes \subseteq 0 .. RestartWindow
  /\ lastRestart \in 0 .. MinRestartInterval
  /\ granted \subseteq 0 .. RestartWindow - 1

GuardianInv ==
  /\ GuardianType
  /\ granted = Kept
  /\ IsFiniteSet(granted)
  /\ \A t \in granted : t >= lastRestart
  /\ RestartsBounded

-----------------------------------------------------------------------------
(* Growing older maps a set of ages one to one, apart from the oldest: no  *)
(* set grows by it.                                                        *)
LEMMA OlderIsNoMore ==
  ASSUME NEW S \in SUBSET Int, IsFiniteSet(S), NEW limit \in Int
  PROVE  LET T == {t + 1 : t \in S} \ {limit}
         IN  IsFiniteSet(T) /\ Cardinality(T) <= Cardinality(S)
<1> DEFINE T == {t + 1 : t \in S} \ {limit}
           f == [t \in T |-> t - 1]
<1>1. f \in Injection(T, S)
  BY DEF Injection, IsInjective
<1> QED BY <1>1, FS_Injection

(* What is kept of the ages after a unit of time is what was kept before,  *)
(* a unit older and without those that reach the window's end.             *)
LEMMA KeptOlder ==
  ASSUME GuardianType, restartTimes' = {Older(t, RestartWindow) : t \in restartTimes}
  PROVE  Kept' = {t + 1 : t \in Kept} \ {RestartWindow}
<1> USE BudgetAssumption
<1>1. ASSUME NEW t, t \in Kept' PROVE t \in {u + 1 : u \in Kept} \ {RestartWindow}
  <2>1. PICK u \in restartTimes : t = Older(u, RestartWindow)
    BY <1>1 DEF Kept
  <2>2. u \in 0 .. RestartWindow /\ t < RestartWindow
    BY <1>1, <2>1 DEF Kept, GuardianType
  <2>3. u < RestartWindow /\ t = u + 1
    BY <2>1, <2>2 DEF Older
  <2> QED BY <2>2, <2>3 DEF Kept
<1>2. ASSUME NEW t, t \in {u + 1 : u \in Kept} \ {RestartWindow} PROVE t \in Kept'
  <2>1. PICK u \in Kept : t = u + 1
    BY <1>2
  <2>2. u \in restartTimes /\ u \in 0 .. RestartWindow /\ u < RestartWindow
    BY <2>1 DEF Kept, GuardianType
  <2>3. t = Older(u, RestartWindow) /\ t < RestartWindow
    BY <1>2, <2>1, <2>2 DEF Older
  <2> QED BY <2>2, <2>3 DEF Kept
<1> QED BY <1>1, <1>2

LEMMA GuardianInit == Init => GuardianInv
<1> SUFFICES ASSUME Init PROVE GuardianInv
  OBVIOUS
<1>1. granted = {} /\ Kept = {} /\ IsFiniteSet({}) /\ Cardinality({}) = 0
  BY FS_EmptySet DEF Init, Kept
<1> QED BY <1>1, BudgetAssumption DEF Init, GuardianInv, GuardianType, RestartsBounded

(* Steps that leave the guardian alone.                                    *)
LEMMA GuardianUnchanged ==
  ASSUME GuardianInv, UNCHANGED <<restartTimes, lastRestart, granted>>
  PROVE  GuardianInv'
  BY DEF GuardianInv, GuardianType, RestartsBounded, Kept

(* A new process remembers nothing, and is judged by its own restarts.     *)
LEMMA GuardianForgets == AgentDies => GuardianInv'
<1> SUFFICES ASSUME AgentDies PROVE GuardianInv'
  OBVIOUS
<1>1. granted' = {} /\ restartTimes' = {} /\ lastRestart' = MinRestartInterval
  BY DEF AgentDies, Fresh
<1>2. Kept' = {} /\ IsFiniteSet(granted') /\ Cardinality(granted') = 0
  BY <1>1, FS_EmptySet DEF Kept
<1>3. GuardianType'
  BY <1>1, BudgetAssumption DEF GuardianType
<1> QED BY <1>1, <1>2, <1>3, BudgetAssumption DEF GuardianInv, RestartsBounded

LEMMA GuardianElapse == ASSUME GuardianInv, Elapse PROVE GuardianInv'
<1> USE BudgetAssumption
<1>1. GuardianType'
  BY DEF GuardianInv, GuardianType, Elapse, Older
<1>2. granted' = Kept'
  BY KeptOlder DEF GuardianInv, Elapse
<1>3. IsFiniteSet(granted') /\ Cardinality(granted') <= Cardinality(granted)
  BY OlderIsNoMore DEF GuardianInv, GuardianType, Elapse
<1>4. Cardinality(granted) \in Nat /\ Cardinality(granted') \in Nat
  BY <1>3, FS_CardinalityType DEF GuardianInv
<1>5. Cardinality(granted') <= MaxAutoRestarts
  BY <1>3, <1>4 DEF GuardianInv, RestartsBounded
<1>6. \A t \in granted' : t >= lastRestart'
  BY DEF GuardianInv, GuardianType, Elapse, Older
<1>7. \A t, u \in granted' : t < u => u - t >= MinRestartInterval
  BY DEF GuardianInv, GuardianType, RestartsBounded, Elapse
<1> QED BY <1>1, <1>2, <1>3, <1>5, <1>6, <1>7 DEF GuardianInv, RestartsBounded

(* A restart is asked for only while the window has room and the cooldown  *)
(* is over; one that is refused strikes out what does not count any more.  *)
LEMMA GuardianAttempts == ASSUME GuardianInv, AttemptRestart PROVE GuardianInv'
<1> USE BudgetAssumption
<1>1. CASE MayRestart
  <2>1. granted' = granted \cup {0} /\ lastRestart' = 0 /\ restartTimes' = Kept \cup {0}
    BY <1>1 DEF AttemptRestart
  <2>2. GuardianType' /\ granted' = Kept'
    BY <2>1 DEF GuardianInv, GuardianType, Kept
  <2>3. IsFiniteSet(granted) /\ Cardinality(granted) \in Nat
    BY FS_CardinalityType DEF GuardianInv
  <2>4. /\ IsFiniteSet(granted')
        /\ Cardinality(granted') = IF 0 \in granted THEN Cardinality(granted)
                                                   ELSE Cardinality(granted) + 1
    BY <2>1, <2>3, FS_AddElement
  <2>5. Cardinality(granted) < MaxAutoRestarts
    BY <1>1 DEF MayRestart, GuardianInv
  <2>6. Cardinality(granted') <= MaxAutoRestarts
    BY <2>3, <2>4, <2>5
  <2>7. \A t \in granted' : t >= lastRestart'
    BY <2>1 DEF GuardianInv, GuardianType
  <2>8. \A t \in granted : t >= MinRestartInterval
    BY <1>1 DEF MayRestart, GuardianInv, GuardianType
  <2>9. \A t, u \in granted' : t < u => u - t >= MinRestartInterval
    BY <2>1, <2>8 DEF GuardianInv, GuardianType, RestartsBounded
  <2> QED BY <2>2, <2>4, <2>6, <2>7, <2>9 DEF GuardianInv, RestartsBounded
<1>2. CASE ~MayRestart
  <2>1. UNCHANGED <<lastRestart, granted>> /\ restartTimes' \in {Kept, restartTimes}
    BY <1>2 DEF AttemptRestart
  <2>2. GuardianType' /\ Kept' = Kept
    BY <2>1 DEF GuardianInv, GuardianType, Kept
  <2> QED BY <2>1, <2>2 DEF GuardianInv, RestartsBounded
<1> QED BY <1>1, <1>2

LEMMA GuardianNext == GuardianInv /\ [Next]_vars => GuardianInv'
<1> SUFFICES ASSUME GuardianInv, [Next]_vars PROVE GuardianInv'
  OBVIOUS
<1> USE GuardianUnchanged DEF guardian
<1>1. CASE UNCHANGED vars
  BY <1>1 DEF vars
<1>2. CASE NodeChanges
  BY <1>2 DEF NodeChanges
<1>3. CASE Elapse
  BY <1>3, GuardianElapse
<1>4. CASE AgentDies
  BY <1>4, GuardianForgets
<1>5. ASSUME NEW c \in Clients, Client(c) PROVE GuardianInv'
  BY <1>5 DEF Client, TrySubscribe, Unsubscribe, Receive
<1>6. CASE Poll
  <2>1. CASE Evaluate
    BY <2>1, GuardianAttempts DEF Evaluate
  <2>2. CASE Collect \/ Ping \/ Restart \/ Announce
    BY <2>2 DEF Collect, Ping, Restart, Announce
  <2>3. ASSUME NEW i \in DOMAIN Rules, EvaluateRule(i) PROVE GuardianInv'
    BY <2>3 DEF EvaluateRule
  <2> QED BY <1>6, <2>1, <2>2, <2>3 DEF Poll
<1> QED BY <1>1, <1>2, <1>3, <1>4, <1>5, <1>6 DEF Next

(* Guardian.Evaluate and attemptRestart keep the node's automatic restarts *)
(* within the budget and apart by the cooldown, whatever the node does and *)
(* however long a tick takes.                                              *)
THEOREM RestartsAlwaysBounded == Spec => []RestartsBounded
<1>1. GuardianInv => RestartsBounded
  BY DEF GuardianInv
<1> QED BY <1>1, GuardianInit, GuardianNext, PTL DEF Spec

-----------------------------------------------------------------------------
(* The alerts.  Between the two rules the first one's row already agrees   *)
(* with the health the rules are evaluated for: without that part nothing  *)
(* would be known of it when the second one is done.                       *)
RuleNames == {"node_offline", "node_unhealthy"}

Agrees(r) == alerts[r] = 1 <=> Fires(r)

AlertInv ==
  /\ alerts \in [RuleNames -> {0, 1}]
  /\ step = "alert 2" => Agrees("node_offline")
  /\ step = "idle" /\ evaluated = TRUE => \A r \in RuleNames : Agrees(r)

LEMMA RulesInOrder == /\ Len(Rules) = 2 /\ 1 # Len(Rules)
                      /\ DOMAIN Rules = {1, 2}
                      /\ Rules[1] = "node_offline" /\ Rules[2] = "node_unhealthy"
  BY DEF Rules

LEMMA AlertInit == Init => AlertInv
  BY DEF Init, AlertInv, RuleNames

(* Steps away from the rules keep the alerts and, while idle, the health.  *)
LEMMA AlertElsewhere ==
  ASSUME AlertInv, UNCHANGED alerts,
         \/ step' \notin {"idle", "alert 2"}
         \/ UNCHANGED <<step, cache, evaluated>>
         \/ step' = "idle" /\ evaluated' = FALSE
  PROVE  AlertInv'
<1>1. CASE step' \notin {"idle", "alert 2"}
  BY <1>1 DEF AlertInv
<1>2. CASE UNCHANGED <<step, cache, evaluated>>
  BY <1>2 DEF AlertInv, Agrees, Fires
<1>3. CASE step' = "idle" /\ evaluated' = FALSE
  BY <1>3 DEF AlertInv
<1> QED BY <1>1, <1>2, <1>3

(* A row that is written, or found right, agrees with the health; one that *)
(* is written when it was wrong is opened only if it was not open.         *)
LEMMA RuleWrites ==
  ASSUME AlertInv, NEW r \in RuleNames, Fires(r) # (alerts[r] > 0),
         alerts' = [alerts EXCEPT ![r] = IF Fires(r) THEN alerts[r] + 1 ELSE 0]
  PROVE  /\ alerts' \in [RuleNames -> {0, 1}]
         /\ alerts'[r] = 1 <=> Fires(r)
         /\ \A q \in RuleNames \ {r} : alerts'[q] = alerts[q]
<1>1. CASE Fires(r)
  <2>1. alerts[r] \in {0, 1} /\ alerts \in [RuleNames -> {0, 1}]
    BY DEF AlertInv
  <2>2. alerts[r] = 0
    BY <1>1, <2>1 DEF Fires
  <2>3. alerts' = [alerts EXCEPT ![r] = 1]
    BY <1>1, <2>2
  <2> QED BY <1>1, <2>1, <2>3
<1>2. CASE ~Fires(r)
  <2>1. alerts' = [alerts EXCEPT ![r] = 0] /\ alerts \in [RuleNames -> {0, 1}]
    BY <1>2 DEF AlertInv
  <2> QED BY <1>2, <2>1
<1> QED BY <1>1, <1>2 DEF Fires

LEMMA RuleSettles ==
  ASSUME AlertInv, NEW r \in RuleNames, OpensOrResolves(r)
  PROVE  /\ alerts' \in [RuleNames -> {0, 1}]
         /\ alerts'[r] = 1 <=> Fires(r)
         /\ \A q \in RuleNames \ {r} : alerts'[q] = alerts[q]
<1>1. CASE Fires(r) = (alerts[r] > 0)
  <2>1. UNCHANGED alerts
    BY <1>1 DEF OpensOrResolves
  <2>2. alerts[r] \in {0, 1}
    BY DEF AlertInv
  <2>3. alerts[r] > 0 <=> alerts[r] = 1
    BY <2>2
  <2>4. alerts[r] = 1 <=> Fires(r)
    BY <1>1, <2>3
  <2> QED BY <2>1, <2>4 DEF AlertInv
<1>2. CASE Fires(r) # (alerts[r] > 0)
  BY <1>2, RuleWrites DEF OpensOrResolves
<1> QED BY <1>1, <1>2

LEMMA AlertRule ==
  ASSUME AlertInv, NEW i \in DOMAIN Rules, EvaluateRule(i) PROVE AlertInv'
<1>1. UNCHANGED cache
  BY DEF EvaluateRule
<1>2. CASE EvaluationFails
  BY <1>2, AlertElsewhere DEF EvaluationFails
<1>3. CASE OpensOrResolves(Rules[i]) /\ i = 1 /\ step' = "alert 2"
  BY <1>1, <1>3, RulesInOrder, RuleSettles DEF AlertInv, Agrees, Fires, RuleNames
<1>4. CASE OpensOrResolves(Rules[i]) /\ i = 2 /\ step = "alert 2" /\ step' = "idle"
  <2>1. /\ alerts' \in [RuleNames -> {0, 1}]
        /\ alerts'["node_unhealthy"] = 1 <=> Fires("node_unhealthy")
        /\ alerts'["node_offline"] = alerts["node_offline"]
    BY <1>4, RulesInOrder, RuleSettles DEF RuleNames
  <2>2. alerts["node_offline"] = 1 <=> Fires("node_offline")
    BY <1>4 DEF AlertInv, Agrees
  <2> QED BY <1>1, <1>4, <2>1, <2>2 DEF AlertInv, Agrees, Fires, RuleNames
<1>6. CASE OpensOrResolves(Rules[i]) /\ step' = IF i = Len(Rules) THEN "idle" ELSE "alert 2"
  <2>1. step = IF i = 1 THEN "alert 1" ELSE "alert 2"
    BY DEF EvaluateRule
  <2>2. step' = IF i = Len(Rules) THEN "idle" ELSE "alert 2"
    BY <1>6
  <2>3. \/ i = 1 /\ step' = "alert 2"
        \/ i = 2 /\ step = "alert 2" /\ step' = "idle"
    BY RulesInOrder, <2>1, <2>2
  <2> QED BY <1>3, <1>4, <1>6, <2>3
<1> QED BY <1>2, <1>6 DEF EvaluateRule

(* A process that dies in the middle of a write leaves a row of its own    *)
(* rule, or none.                                                          *)
LEMMA AlertDies == ASSUME AlertInv, AgentDies PROVE AlertInv'
<1>1. step' = "idle" /\ evaluated' = FALSE
  BY DEF AgentDies, Fresh
<1>2. CASE UNCHANGED alerts
  BY <1>1, <1>2, AlertElsewhere
<1>3. ASSUME NEW i \in DOMAIN Rules, Fires(Rules[i]) # (alerts[Rules[i]] > 0),
             alerts' = [alerts EXCEPT ![Rules[i]] = IF Fires(Rules[i]) THEN @ + 1 ELSE 0]
      PROVE  AlertInv'
  <2>1. Rules[i] \in RuleNames
    BY DEF Rules, RuleNames
  <2>2. alerts' \in [RuleNames -> {0, 1}]
    BY <1>3, <2>1, RuleWrites
  <2> QED BY <1>1, <2>2 DEF AlertInv
<1> QED BY <1>2, <1>3 DEF AgentDies

LEMMA AlertNext == AlertInv /\ [Next]_vars => AlertInv'
<1> SUFFICES ASSUME AlertInv, [Next]_vars PROVE AlertInv'
  OBVIOUS
<1> USE AlertElsewhere DEF engine
<1>1. CASE UNCHANGED vars
  BY <1>1 DEF vars
<1>2. CASE NodeChanges \/ Elapse
  BY <1>2 DEF NodeChanges, Elapse
<1>3. CASE AgentDies
  BY <1>3, AlertDies
<1>4. ASSUME NEW c \in Clients, Client(c) PROVE AlertInv'
  BY <1>4 DEF Client, TrySubscribe, Unsubscribe, Receive
<1>5. CASE Poll
  <2>1. CASE Collect \/ Ping \/ Restart \/ Announce
    BY <2>1 DEF Collect, Ping, Restart, Announce
  <2>2. CASE Evaluate
    <3>1. step' \in {"restart", "judged"} /\ UNCHANGED alerts
      BY <2>2 DEF Evaluate, AttemptRestart
    <3> QED BY <3>1
  <2>3. ASSUME NEW i \in DOMAIN Rules, EvaluateRule(i) PROVE AlertInv'
    BY <2>3, AlertRule
  <2> QED BY <1>5, <2>1, <2>2, <2>3 DEF Poll
<1> QED BY <1>1, <1>2, <1>3, <1>4, <1>5 DEF Next

(* Engine.Evaluate never opens a second row for a rule that has an open    *)
(* one, whatever fails and wherever the agent dies.                        *)
THEOREM NeverTwoOpenAlerts == Spec => []OneOpenAlert
<1>1. AlertInv => OneOpenAlert
  <2> SUFFICES ASSUME AlertInv, NEW r \in DOMAIN alerts PROVE alerts[r] <= 1
    BY DEF OneOpenAlert
  <2>1. alerts[r] \in {0, 1}
    BY DEF AlertInv
  <2> QED BY <2>1
<1> QED BY <1>1, AlertInit, AlertNext, PTL DEF Spec

(* After an evaluation that succeeded the open rows are those of the       *)
(* health the API serves, also the rows an earlier process wrote.          *)
THEOREM AlertsAlwaysMatchHealth == Spec => []AlertsMatchHealth
<1>1. AlertInv => AlertsMatchHealth
  BY DEF AlertInv, AlertsMatchHealth, Agrees
<1> QED BY <1>1, AlertInit, AlertNext, PTL DEF Spec

-----------------------------------------------------------------------------
(* The types of what a tick keeps.                                         *)
PollType ==
  /\ node \in {"up", "hung", "dead"} /\ step \in PollSteps
  /\ online \in BOOLEAN /\ reachable \in BOOLEAN /\ since \in 0 .. OfflineAfter
  /\ state \in HealthStates
  /\ cache \in [online : BOOLEAN, health : HealthStates] /\ evaluated \in BOOLEAN

(* The snapshot before the first tick, and the steps of a tick, have their *)
(* types.                                                                  *)
LEMMA BlankSnapshot ==
  [online |-> FALSE, health |-> "OFFLINE"] \in [online : BOOLEAN, health : HealthStates]
  BY DEF HealthStates

LEMMA StepsListed ==
  PollSteps = {"idle", "sampled", "pinged", "restart", "judged", "alert 1", "alert 2"}
  BY DEF PollSteps, RuleSteps

LEMMA PollTypeInit == Init => PollType
<1> SUFFICES ASSUME Init PROVE PollType
  OBVIOUS
<1>1. since \in 0 .. OfflineAfter
  BY ThresholdsAssumption DEF Init
<1>2. cache \in [online : BOOLEAN, health : HealthStates]
  BY BlankSnapshot DEF Init
<1> QED BY <1>1, <1>2, StepsListed DEF Init, PollType, HealthStates

LEMMA PollTypeNext == PollType /\ [Next]_vars => PollType'
<1> SUFFICES ASSUME PollType, [Next]_vars PROVE PollType'
  OBVIOUS
<1> USE ThresholdsAssumption DEF PollType, sample, guardian, engine
<1>1. CASE UNCHANGED vars
  BY <1>1 DEF vars
<1>2. CASE NodeChanges
  BY <1>2 DEF NodeChanges
<1>3. CASE Elapse
  <2>1. since' \in 0 .. OfflineAfter
    BY <1>3 DEF Elapse, Older
  <2> QED BY <1>3, <2>1 DEF Elapse
<1>4. CASE AgentDies
  <2>1. /\ step' = "idle" /\ online' = FALSE /\ reachable' = FALSE /\ since' = OfflineAfter
        /\ state' = "OFFLINE" /\ cache' = [online |-> FALSE, health |-> "OFFLINE"]
        /\ evaluated' = FALSE /\ node' = node
    BY <1>4 DEF AgentDies, Fresh
  <2>2. since' \in 0 .. OfflineAfter
    BY <2>1
  <2>3. cache' \in [online : BOOLEAN, health : HealthStates]
    BY <2>1, BlankSnapshot
  <2> QED BY <2>1, <2>2, <2>3, StepsListed DEF HealthStates
<1>5. ASSUME NEW c \in Clients, Client(c) PROVE PollType'
  BY <1>5 DEF Client, TrySubscribe, Unsubscribe, Receive
<1>6. CASE Poll
  <2>1. CASE Collect
    BY <2>1, StepsListed DEF Collect
  <2>2. CASE Ping
    <3>1. since' \in 0 .. OfflineAfter /\ reachable' \in BOOLEAN
      BY <2>2 DEF Ping
    <3> QED BY <2>2, <3>1, StepsListed DEF Ping
  <2>3. CASE Restart
    BY <2>3, StepsListed DEF Restart
  <2>4. CASE Announce
    <3>1. cache' \in [online : BOOLEAN, health : HealthStates]
      BY <2>4 DEF Announce
    <3> QED BY <2>4, <3>1, StepsListed DEF Announce
  <2>5. CASE Evaluate
    <3>1. state' \in HealthStates
      BY <2>5 DEF Evaluate, Classify, HealthStates
    <3>2. step' \in {"restart", "judged"} /\ UNCHANGED <<node, sample, cache, evaluated>>
      BY <2>5 DEF Evaluate, AttemptRestart
    <3> QED BY <3>1, <3>2, StepsListed
  <2>6. ASSUME NEW i \in DOMAIN Rules, EvaluateRule(i) PROVE PollType'
    <3>1. UNCHANGED <<node, sample, guardian, cache>>
      BY <2>6 DEF EvaluateRule
    <3>2. step' \in {"idle", "alert 2"} /\ evaluated' \in {TRUE, FALSE, evaluated}
      BY <2>6 DEF EvaluateRule, EvaluationFails
    <3> QED BY <3>1, <3>2, StepsListed
  <2> QED BY <1>6, <2>1, <2>2, <2>3, <2>4, <2>5, <2>6 DEF Poll
<1> QED BY <1>1, <1>2, <1>3, <1>4, <1>5, <1>6 DEF Next
-----------------------------------------------------------------------------
(* The event stream.  Of the events that wait for a client the last one    *)
(* about the node says what the snapshot says; when none of them is about  *)
(* the node, what the client believes does.                                *)
Says(up) == IF up THEN "node.online" ELSE "node.offline"

ToldRight(q, v, up) ==
  /\ \A i \in 1 .. Len(q) :
       q[i] # "other" /\ (\A j \in i + 1 .. Len(q) : q[j] = "other") => q[i] = Says(up)
  /\ (\A i \in 1 .. Len(q) : q[i] = "other") => v \in {"other", Says(up)}

StreamType ==
  /\ subs \subseteq Clients
  /\ queue \in [Clients -> Seq(Events)]
  /\ lost \in [Clients -> BOOLEAN] /\ view \in [Clients -> Events]

StreamInv ==
  /\ StreamType
  /\ \A c \in Clients \ subs : queue[c] = <<>> /\ view[c] = "other"
  /\ \A c \in subs : lost[c] = FALSE => ToldRight(queue[c], view[c], cache.online)

(* What is told stays right when news of another kind is appended, when    *)
(* the news of a change is, and when the client reads the oldest event.    *)
LEMMA AppendOther ==
  ASSUME NEW q \in Seq(Events), NEW v, NEW up, ToldRight(q, v, up)
  PROVE  ToldRight(Append(q, "other"), v, up)
<1> DEFINE p == Append(q, "other")
           n == Len(q)
<1>1. /\ n \in Nat /\ Len(p) = n + 1 /\ p[n + 1] = "other"
      /\ \A i \in 1 .. n : p[i] = q[i]
  BY DEF Events
<1> HIDE DEF p
<1>2. ASSUME NEW i \in 1 .. Len(p), p[i] # "other",
             \A j \in i + 1 .. Len(p) : p[j] = "other"
      PROVE  p[i] = Says(up)
  <2>1. i \in 1 .. n /\ \A j \in i + 1 .. n : q[j] = "other"
    BY <1>1, <1>2
  <2> QED BY <1>1, <1>2, <2>1 DEF ToldRight
<1>3. ASSUME \A i \in 1 .. Len(p) : p[i] = "other" PROVE v \in {"other", Says(up)}
  <2>1. \A i \in 1 .. n : q[i] = "other"
    BY <1>1, <1>3
  <2> QED BY <2>1 DEF ToldRight
<1>4. ToldRight(p, v, up)
  BY <1>2, <1>3 DEF ToldRight
<1> QED BY <1>4 DEF p

LEMMA AppendNews ==
  ASSUME NEW q \in Seq(Events), NEW v, NEW up \in BOOLEAN
  PROVE  ToldRight(Append(q, Says(up)), v, up)
<1> DEFINE p == Append(q, Says(up))
           n == Len(q)
<1>1. Says(up) # "other" /\ Says(up) \in Events
  BY DEF Says, Events
<1>2. n \in Nat /\ Len(p) = n + 1 /\ p[n + 1] = Says(up)
  BY <1>1
<1> HIDE DEF p
<1>3. ASSUME NEW i \in 1 .. Len(p), \A j \in i + 1 .. Len(p) : p[j] = "other"
      PROVE  p[i] = Says(up)
  BY <1>1, <1>2, <1>3
<1>4. ToldRight(p, v, up)
  BY <1>1, <1>2, <1>3 DEF ToldRight
<1> QED BY <1>4 DEF p

LEMMA ReadOldest ==
  ASSUME NEW q \in Seq(Events), q # <<>>, NEW v, NEW up, ToldRight(q, v, up)
  PROVE  ToldRight(Tail(q), IF Head(q) = "other" THEN v ELSE Head(q), up)
<1> DEFINE p == Tail(q)
           n == Len(q)
           w == IF Head(q) = "other" THEN v ELSE Head(q)
<1>1. /\ n \in Nat \ {0} /\ Len(p) = n - 1 /\ Head(q) = q[1]
      /\ \A i \in 1 .. n - 1 : p[i] = q[i + 1]
  OBVIOUS
<1> HIDE DEF p
<1>2. ASSUME NEW i \in 1 .. Len(p), p[i] # "other",
             \A j \in i + 1 .. Len(p) : p[j] = "other"
      PROVE  p[i] = Says(up)
  <2>1. i + 1 \in 1 .. n /\ q[i + 1] = p[i]
    BY <1>1
  <2>2. ASSUME NEW j \in i + 2 .. n PROVE q[j] = "other"
    <3>1. j - 1 \in i + 1 .. Len(p) /\ j - 1 \in 1 .. n - 1 /\ (j - 1) + 1 = j
      BY <1>1
    <3> QED BY <1>1, <1>2, <3>1
  <2> QED BY <1>2, <2>1, <2>2 DEF ToldRight
<1>3. ASSUME \A i \in 1 .. Len(p) : p[i] = "other" PROVE w \in {"other", Says(up)}
  <2>1. ASSUME NEW j \in 2 .. n PROVE q[j] = "other"
    <3>1. j - 1 \in 1 .. Len(p) /\ j - 1 \in 1 .. n - 1 /\ (j - 1) + 1 = j
      BY <1>1
    <3> QED BY <1>1, <1>3, <3>1
  <2>2. CASE q[1] = "other"
    <3>1. \A i \in 1 .. n : q[i] = "other"
      BY <1>1, <2>1, <2>2
    <3> QED BY <1>1, <2>2, <3>1 DEF ToldRight
  <2>3. CASE q[1] # "other"
    <3>1. q[1] = Says(up)
      BY <1>1, <2>1, <2>3 DEF ToldRight
    <3> QED BY <1>1, <2>3, <3>1
  <2> QED BY <2>2, <2>3
<1>4. ToldRight(p, w, up)
  BY <1>2, <1>3 DEF ToldRight
<1> QED BY <1>4 DEF p

LEMMA StreamInit == Init => StreamInv
<1> SUFFICES ASSUME Init PROVE StreamInv
  OBVIOUS
<1>1. StreamType
  BY DEF Init, StreamType, Events
<1> QED BY <1>1 DEF Init, StreamInv

LEMMA StreamUnchanged ==
  ASSUME StreamInv, UNCHANGED bus, cache'.online = cache.online
  PROVE  StreamInv'
  BY DEF StreamInv, StreamType, ToldRight, bus, Says

(* An event is right to publish when it is about something else and the    *)
(* snapshot's Online stays, or when it says what Online is now.            *)
LEMMA StreamPublish ==
  ASSUME StreamInv, NEW e, Publish(e),
         \/ e = "other" /\ cache'.online = cache.online
         \/ e = Says(cache'.online) /\ cache'.online \in BOOLEAN
  PROVE  StreamInv'
<1> DEFINE full == {c \in subs : Len(queue[c]) = BufSize}
<1>1. /\ queue' = [c \in Clients |-> IF c \in subs \ full THEN Append(queue[c], e)
                                                         ELSE queue[c]]
      /\ lost' = [c \in Clients |-> lost[c] \/ c \in full]
      /\ view' = [c \in Clients |-> IF c \in full THEN "other" ELSE view[c]]
      /\ subs' = subs
  BY DEF Publish
<1>2. e \in Events
  BY DEF Says, Events
<1> HIDE DEF full
<1>3. StreamType'
  <2>1. ASSUME NEW c \in Clients PROVE queue'[c] \in Seq(Events)
    BY <1>1, <1>2 DEF StreamInv, StreamType
  <2>2. ASSUME NEW c \in Clients PROVE view'[c] \in Events
    BY <1>1 DEF StreamInv, StreamType, Events
  <2>3. ASSUME NEW c \in Clients PROVE lost'[c] \in BOOLEAN
    BY <1>1
  <2> QED BY <1>1, <2>1, <2>2, <2>3 DEF StreamInv, StreamType
<1>4. ASSUME NEW c \in Clients \ subs PROVE queue'[c] = <<>> /\ view'[c] = "other"
  BY <1>1, <1>4 DEF StreamInv
<1>5. ASSUME NEW c \in subs, lost'[c] = FALSE
      PROVE  ToldRight(queue'[c], view'[c], cache'.online)
  <2>1. c \in Clients /\ queue[c] \in Seq(Events) /\ lost[c] \in BOOLEAN
    BY DEF StreamInv, StreamType
  <2>2. c \notin full /\ lost[c] = FALSE
    BY <1>1, <1>5, <2>1
  <2>3. queue'[c] = Append(queue[c], e) /\ view'[c] = view[c]
    BY <1>1, <2>1, <2>2
  <2>4. ToldRight(queue[c], view[c], cache.online)
    BY <2>2 DEF StreamInv
  <2>5. CASE e = "other" /\ cache'.online = cache.online
    BY <2>1, <2>3, <2>4, <2>5, AppendOther
  <2>6. CASE e = Says(cache'.online) /\ cache'.online \in BOOLEAN
    BY <2>1, <2>3, <2>6, AppendNews
  <2> QED BY <2>5, <2>6
<1> QED BY <1>1, <1>3, <1>4, <1>5 DEF StreamInv

LEMMA StreamOther ==
  ASSUME StreamInv, UNCHANGED bus \/ Publish("other"), UNCHANGED cache
  PROVE  StreamInv'
<1>1. CASE UNCHANGED bus
  BY <1>1, StreamUnchanged
<1>2. CASE Publish("other")
  BY <1>2, StreamPublish DEF StreamInv
<1> QED BY <1>1, <1>2

LEMMA StreamClient ==
  ASSUME StreamInv, NEW c \in Clients, Client(c) PROVE StreamInv'
<1>1. UNCHANGED cache
  BY DEF Client, TrySubscribe, Unsubscribe, Receive
<1>2. CASE TrySubscribe(c)
  <2>1. StreamType' /\ UNCHANGED <<queue, lost, view>> /\ subs' = subs \cup {c}
    BY <1>2 DEF TrySubscribe, StreamInv, StreamType
  <2>2. ToldRight(queue[c], view[c], cache.online)
    BY <1>2 DEF TrySubscribe, StreamInv, ToldRight
  <2> QED BY <1>1, <2>1, <2>2 DEF StreamInv
<1>3. CASE Unsubscribe(c)
  <2>1. StreamType'
    BY <1>3 DEF Unsubscribe, StreamInv, StreamType, Events
  <2>2. /\ queue'[c] = <<>> /\ view'[c] = "other" /\ subs' = subs \ {c}
        /\ \A d \in Clients \ {c} : /\ queue'[d] = queue[d] /\ view'[d] = view[d]
                                   /\ lost'[d] = lost[d]
    BY <1>3 DEF Unsubscribe, StreamInv, StreamType
  <2> QED BY <1>1, <2>1, <2>2 DEF StreamInv, StreamType
<1>4. CASE Receive(c)
  <2>1. queue[c] \in Seq(Events) /\ queue[c] # <<>> /\ Head(queue[c]) \in Events
        /\ Tail(queue[c]) \in Seq(Events) /\ c \in subs
    BY <1>4 DEF Receive, StreamInv, StreamType
  <2>2. StreamType'
    BY <1>4, <2>1 DEF Receive, StreamInv, StreamType
  <2>3. /\ UNCHANGED <<subs, lost>> /\ queue'[c] = Tail(queue[c])
        /\ lost[c] = FALSE =>
             view'[c] = IF Head(queue[c]) = "other" THEN view[c] ELSE Head(queue[c])
        /\ \A d \in Clients \ {c} : queue'[d] = queue[d] /\ view'[d] = view[d]
    BY <1>4 DEF Receive, StreamInv, StreamType
  <2>4. lost[c] = FALSE => ToldRight(queue'[c], view'[c], cache.online)
    BY <2>1, <2>3, ReadOldest DEF StreamInv
  <2> QED BY <1>1, <2>1, <2>2, <2>3, <2>4 DEF StreamInv, StreamType
<1> QED BY <1>2, <1>3, <1>4 DEF Client

LEMMA StreamNext == StreamInv /\ PollType /\ [Next]_vars => StreamInv'
<1> SUFFICES ASSUME StreamInv, PollType, [Next]_vars PROVE StreamInv'
  OBVIOUS
<1> USE StreamUnchanged
<1>1. CASE UNCHANGED vars
  BY <1>1 DEF vars, bus
<1>2. CASE NodeChanges \/ Elapse
  BY <1>2 DEF NodeChanges, Elapse
<1>3. CASE AgentDies
  <2>1. /\ subs' = {} /\ queue' = [c \in Clients |-> <<>>]
        /\ lost' = [c \in Clients |-> FALSE] /\ view' = [c \in Clients |-> "other"]
    BY <1>3 DEF AgentDies, Fresh
  <2> QED BY <2>1 DEF StreamInv, StreamType, Events
<1>4. ASSUME NEW c \in Clients, Client(c) PROVE StreamInv'
  BY <1>4, StreamClient
<1>5. CASE Poll
  <2>1. CASE Collect \/ Ping \/ Restart
    BY <2>1 DEF Collect, Ping, Restart
  <2>2. CASE Evaluate
    <3>1. (UNCHANGED bus \/ Publish("other")) /\ UNCHANGED cache
      BY <2>2 DEF Evaluate
    <3> QED BY <3>1, StreamOther
  <2>3. CASE Announce
    <3>1. cache'.online = online
      BY <2>3 DEF Announce
    <3>2. CASE UNCHANGED bus /\ cache.online = online
      BY <3>1, <3>2
    <3>3. CASE Publish(Says(online))
      BY <3>1, <3>3, StreamPublish DEF PollType
    <3> QED BY <2>3, <3>2, <3>3 DEF Announce, Says, PollType
  <2>4. ASSUME NEW i \in DOMAIN Rules, EvaluateRule(i) PROVE StreamInv'
    <3>1. (UNCHANGED bus \/ Publish("other")) /\ UNCHANGED cache
      BY <2>4 DEF EvaluateRule, EvaluationFails, OpensOrResolves
    <3> QED BY <3>1, StreamOther
  <2> QED BY <1>5, <2>1, <2>2, <2>3, <2>4 DEF Poll
<1> QED BY <1>1, <1>2, <1>3, <1>4, <1>5 DEF Next

(* A client of /api/v1/events that lost no event and has read all of them  *)
(* believes of the node what the snapshot says, however small its channel, *)
(* however many clients there are and whenever it subscribed.              *)
THEOREM ViewAlwaysMatchesCache == Spec => []ViewMatchesCache
<1>1. StreamInv => ViewMatchesCache
  <2> SUFFICES ASSUME StreamInv, NEW c \in subs, lost[c] = FALSE, queue[c] = <<>>
               PROVE  view[c] \in {"other", Says(cache.online)}
    BY DEF ViewMatchesCache, Says, StreamInv, StreamType
  <2>1. ToldRight(queue[c], view[c], cache.online)
    BY DEF StreamInv
  <2>2. Len(queue[c]) = 0 /\ 1 .. 0 = {}
    OBVIOUS
  <2>3. \A i \in 1 .. Len(queue[c]) : queue[c][i] = "other"
    BY <2>2
  <2> QED BY <2>1, <2>3 DEF ToldRight
<1> QED BY <1>1, StreamInit, PollTypeInit, StreamNext, PollTypeNext, PTL DEF Spec

-----------------------------------------------------------------------------
(* The types.  The channels and the subscribers need the bounds of the     *)
(* limits that fill them, and the ages those of the guardian.              *)
BusBounds ==
  /\ IsFiniteSet(subs) /\ (MaxSubscribers = 0 \/ Cardinality(subs) <= MaxSubscribers)
  /\ \A c \in Clients : Len(queue[c]) <= BufSize

BudgetBound == IsFiniteSet(restartTimes) /\ Cardinality(restartTimes) <= MaxAutoRestarts

LEMMA BusBoundsInit == Init => BusBounds
  BY FS_EmptySet, BusAssumption DEF Init, BusBounds

LEMMA BusBoundsPublish ==
  ASSUME StreamInv, BusBounds, NEW e \in Events, Publish(e) PROVE BusBounds'
<1> USE BusAssumption
<1>1. ASSUME NEW c \in Clients PROVE Len(queue'[c]) <= BufSize
  <2>1. queue[c] \in Seq(Events) /\ Len(queue[c]) \in Nat /\ Len(queue[c]) <= BufSize
    BY DEF StreamInv, StreamType, BusBounds
  <2>2. CASE queue'[c] = queue[c]
    BY <2>1, <2>2
  <2>3. CASE queue'[c] = Append(queue[c], e) /\ Len(queue[c]) # BufSize
    BY <2>1, <2>3
  <2> QED BY <2>2, <2>3 DEF Publish
<1>2. UNCHANGED subs
  BY DEF Publish
<1> QED BY <1>1, <1>2 DEF BusBounds

LEMMA BusBoundsUnchanged == ASSUME BusBounds, UNCHANGED bus PROVE BusBounds'
  BY DEF BusBounds, bus

LEMMA BusBoundsClient ==
  ASSUME StreamInv, BusBounds, NEW c \in Clients, Client(c) PROVE BusBounds'
<1> USE BusAssumption
<1>1. CASE TrySubscribe(c)
  <2>1. IsFiniteSet(subs) /\ Cardinality(subs) \in Nat
    BY FS_CardinalityType DEF BusBounds
  <2>2. IsFiniteSet(subs') /\ Cardinality(subs') = Cardinality(subs) + 1
    BY <1>1, <2>1, FS_AddElement DEF TrySubscribe
  <2> QED BY <1>1, <2>1, <2>2 DEF TrySubscribe, BusBounds
<1>2. CASE Unsubscribe(c)
  <2>1. IsFiniteSet(subs) /\ Cardinality(subs) \in Nat
    BY FS_CardinalityType DEF BusBounds
  <2>2. IsFiniteSet(subs') /\ Cardinality(subs') = Cardinality(subs) - 1
    BY <1>2, <2>1, FS_RemoveElement DEF Unsubscribe
  <2>3. ASSUME NEW d \in Clients PROVE Len(queue'[d]) <= BufSize
    BY <1>2 DEF Unsubscribe, StreamInv, StreamType, BusBounds
  <2> QED BY <2>1, <2>2, <2>3 DEF BusBounds
<1>3. CASE Receive(c)
  <2>1. queue[c] \in Seq(Events) /\ queue[c] # <<>> /\ Len(queue[c]) \in Nat
    BY <1>3 DEF Receive, StreamInv, StreamType
  <2>2. Len(Tail(queue[c])) = Len(queue[c]) - 1
    BY <2>1
  <2>3. ASSUME NEW d \in Clients PROVE Len(queue'[d]) <= BufSize
    BY <1>3, <2>1, <2>2 DEF Receive, StreamInv, StreamType, BusBounds
  <2> QED BY <1>3, <2>3 DEF Receive, BusBounds
<1> QED BY <1>1, <1>2, <1>3 DEF Client

LEMMA BusBoundsNext == StreamInv /\ PollType /\ BusBounds /\ [Next]_vars => BusBounds'
<1> SUFFICES ASSUME StreamInv, PollType, BusBounds, [Next]_vars PROVE BusBounds'
  OBVIOUS
<1> USE BusBoundsUnchanged
<1>1. CASE UNCHANGED vars
  BY <1>1 DEF vars
<1>2. CASE NodeChanges \/ Elapse
  BY <1>2 DEF NodeChanges, Elapse
<1>3. CASE AgentDies
  <2>1. subs' = {} /\ queue' = [c \in Clients |-> <<>>]
    BY <1>3 DEF AgentDies, Fresh
  <2> QED BY <2>1, FS_EmptySet, BusAssumption DEF BusBounds
<1>4. ASSUME NEW c \in Clients, Client(c) PROVE BusBounds'
  BY <1>4, BusBoundsClient
<1>5. CASE Poll
  <2>1. UNCHANGED bus \/ \E e \in Events : Publish(e)
    <3>1. CASE Collect \/ Ping \/ Restart
      BY <3>1 DEF Collect, Ping, Restart
    <3>2. CASE Evaluate
      BY <3>2 DEF Evaluate, Events
    <3>3. CASE Announce
      BY <3>3 DEF Announce, Events
    <3>4. ASSUME NEW i \in DOMAIN Rules, EvaluateRule(i)
          PROVE  UNCHANGED bus \/ \E e \in Events : Publish(e)
      BY <3>4 DEF EvaluateRule, EvaluationFails, OpensOrResolves, Events
    <3> QED BY <1>5, <3>1, <3>2, <3>3, <3>4 DEF Poll
  <2> QED BY <2>1, BusBoundsPublish
<1> QED BY <1>1, <1>2, <1>3, <1>4, <1>5 DEF Next

LEMMA BudgetBoundInit == Init => BudgetBound
  BY FS_EmptySet, BudgetAssumption DEF Init, BudgetBound

(* Ages grow together, so the set of them does not get larger; what is     *)
(* kept is a part of it; and what a granted restart leaves is granted'.    *)
LEMMA BudgetBoundElapse ==
  ASSUME GuardianInv, BudgetBound, Elapse PROVE BudgetBound'
<1> DEFINE f == [t \in restartTimes |-> Older(t, RestartWindow)]
<1>1. f \in Surjection(restartTimes, restartTimes')
  BY DEF Elapse, Surjection
<1>2. IsFiniteSet(restartTimes') /\ Cardinality(restartTimes') <= Cardinality(restartTimes)
  BY <1>1, FS_Surjection DEF BudgetBound
<1>3. Cardinality(restartTimes') \in Nat /\ Cardinality(restartTimes) \in Nat
  BY <1>2, FS_CardinalityType DEF BudgetBound
<1> QED BY <1>2, <1>3, BudgetAssumption DEF BudgetBound

LEMMA BudgetBoundAttempts ==
  ASSUME GuardianInv, BudgetBound, AttemptRestart PROVE BudgetBound'
<1>1. CASE MayRestart
  <2>1. restartTimes' = granted'
    BY <1>1 DEF AttemptRestart, GuardianInv
  <2>2. IsFiniteSet(granted') /\ Cardinality(granted') <= MaxAutoRestarts
    BY GuardianAttempts DEF GuardianInv, RestartsBounded
  <2> QED BY <2>1, <2>2 DEF BudgetBound
<1>2. CASE ~MayRestart
  <2>1. CASE restartTimes' = restartTimes
    BY <2>1 DEF BudgetBound
  <2>2. CASE restartTimes' = Kept
    <3>1. IsFiniteSet(granted) /\ Cardinality(granted) <= MaxAutoRestarts
      BY DEF GuardianInv, RestartsBounded
    <3>2. restartTimes' = granted
      BY <2>2 DEF GuardianInv
    <3> QED BY <3>1, <3>2 DEF BudgetBound
  <2> QED BY <1>2, <2>1, <2>2 DEF AttemptRestart
<1> QED BY <1>1, <1>2

LEMMA BudgetBoundNext == GuardianInv /\ BudgetBound /\ [Next]_vars => BudgetBound'
<1> SUFFICES ASSUME GuardianInv, BudgetBound, [Next]_vars PROVE BudgetBound'
  OBVIOUS
<1>1. CASE UNCHANGED restartTimes
  BY <1>1 DEF BudgetBound
<1>2. CASE Elapse
  BY <1>2, BudgetBoundElapse
<1>3. CASE AttemptRestart
  BY <1>3, BudgetBoundAttempts
<1>4. CASE AgentDies
  <2>1. restartTimes' = {}
    BY <1>4 DEF AgentDies, Fresh
  <2> QED BY <2>1, FS_EmptySet, BudgetAssumption DEF BudgetBound
<1>5. UNCHANGED restartTimes \/ Elapse \/ AttemptRestart \/ AgentDies
  <2>1. CASE Poll
    BY <2>1 DEF Poll, Collect, Ping, Evaluate, Restart, Announce, EvaluateRule, guardian
  <2>2. ASSUME NEW c \in Clients, Client(c) PROVE UNCHANGED restartTimes
    BY <2>2 DEF Client, TrySubscribe, Unsubscribe, Receive, guardian
  <2> QED BY <2>1, <2>2 DEF Next, NodeChanges, vars, guardian
<1> QED BY <1>1, <1>2, <1>3, <1>4, <1>5

(* Every variable keeps its type and its bounds: the ages, the remembered  *)
(* restarts, the subscribers and the events in their channels.             *)
THEOREM MonitorTypeCorrect == Spec => []MonitorTypeOK
<1> DEFINE Inv == GuardianInv /\ AlertInv /\ PollType /\ StreamInv /\ BusBounds /\ BudgetBound
<1>1. Init => Inv
  BY GuardianInit, AlertInit, PollTypeInit, StreamInit, BusBoundsInit, BudgetBoundInit
<1>2. Inv /\ [Next]_vars => Inv'
  BY GuardianNext, AlertNext, PollTypeNext, StreamNext, BusBoundsNext, BudgetBoundNext
<1>3. Inv => MonitorTypeOK
  <2> SUFFICES ASSUME Inv PROVE MonitorTypeOK
    OBVIOUS
  <2>1. alerts \in [{"node_offline", "node_unhealthy"} -> Nat]
    <3>1. alerts \in [RuleNames -> {0, 1}]
      BY DEF AlertInv
    <3>2. \A r \in RuleNames : alerts[r] \in Nat
      BY <3>1
    <3> QED BY <3>1, <3>2 DEF RuleNames
  <2>2. \A c \in Clients : Len(queue[c]) <= BufSize /\ (c \notin subs => queue[c] = <<>>)
    BY DEF BusBounds, StreamInv
  <2> QED BY <2>1, <2>2 DEF MonitorTypeOK, PollType, GuardianInv, GuardianType, StreamInv,
                            StreamType, BusBounds, BudgetBound
<1> QED BY <1>1, <1>2, <1>3, PTL DEF Spec
=============================================================================
