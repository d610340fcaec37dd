------------------------------- MODULE Monitor -------------------------------
(***************************************************************************)
(* How the agent watches the node (agent/cmd/agentd/poller.go): one        *)
(* goroutine that samples the node at every tick, lets the guardian        *)
(* (agent/guardian) judge the sample and ask for a restart, swaps the      *)
(* snapshot every API handler reads (agent/api/cache.go), publishes the    *)
(* differences on the event bus (agent/events) and has the alert engine    *)
(* (agent/alerts) open and resolve the alerts in the database.             *)
(*                                                                         *)
(* The node changes, time passes and clients of the event stream come and  *)
(* go between any two of these steps; the agent may die at any of them.    *)
(* Time is kept as ages, which stop growing where nothing can tell them    *)
(* apart any more.                                                         *)
(***************************************************************************)
EXTENDS Integers, Sequences, FiniteSets

CONSTANTS
  Clients,            \* clients of the event stream
  MaxSubscribers,     \* Bus.MaxSubscribers; 0 is no limit
  BufSize,            \* events a subscriber's channel holds
  DegradedAfter, UnhealthyAfter, OfflineAfter,
  MaxAutoRestarts, RestartWindow, MinRestartInterval,
  FailingCalls        \* calls that may fail: "restart", and the database's "open", "write"

ASSUME ThresholdsAssumption ==
  /\ DegradedAfter \in Nat /\ UnhealthyAfter \in Nat /\ OfflineAfter \in Nat
  /\ DegradedAfter <= UnhealthyAfter /\ UnhealthyAfter <= OfflineAfter
ASSUME BudgetAssumption ==
  MaxAutoRestarts \in Nat /\ RestartWindow \in Nat \ {0} /\ MinRestartInterval \in Nat \ {0}
ASSUME BusAssumption == MaxSubscribers \in Nat /\ BufSize \in Nat \ {0}
ASSUME FailingAssumption == FailingCalls \subseteq {"restart", "open", "write"}

VARIABLES
  node,          \* qrxd: "up", "hung" (running, not answering) or "dead"
  step,          \* what the poller does next
  online,        \* the sample: GetNodeStatus succeeded
  reachable,     \* the sample: the adapter's Health succeeded
  since,         \* age of the last successful poll; OfflineAfter stands for none, too
  state,         \* Guardian.state
  restartTimes,  \* Guardian.restartTimes: ages of the restarts it remembers
  lastRestart,   \* Guardian.lastRestart, as an age
  granted,       \* ages of the restarts asked for, within the last RestartWindow
  cache,         \* the snapshot: Node.Online and Health
  alerts,        \* unresolved rows of the alerts table, by rule
  evaluated,     \* the engine's last evaluation returned no error
  subs,          \* registered subscribers
  queue,         \* per client: its channel
  lost,          \* per client: an event was dropped since it subscribed
  view           \* per client: what node.online and node.offline told it

sample   == <<online, reachable, since>>
guardian == <<state, restartTimes, lastRestart, granted>>
engine   == <<alerts, evaluated>>
bus      == <<subs, queue, lost, view>>
vars == <<node, step, sample, guardian, cache, engine, bus>>

HealthStates == {"HEALTHY", "DEGRADED", "UNHEALTHY", "OFFLINE"}
Rules == <<"node_offline", "node_unhealthy">>     \* in the engine's order
RuleSteps == {"alert 1", "alert 2"}
PollSteps == {"idle", "sampled", "pinged", "restart", "judged"} \cup RuleSteps
Events == {"node.online", "node.offline", "other"}

MonitorTypeOK ==
  /\ node \in {"up", "hung", "dead"} /\ step \in PollSteps
  /\ online \in BOOLEAN /\ reachable \in BOOLEAN /\ since \in 0 .. OfflineAfter
  /\ state \in HealthStates
  /\ restartTimes \subseteq 0 .. RestartWindow /\ lastRestart \in 0 .. MinRestartInterval
  /\ Cardinality(restartTimes) <= MaxAutoRestarts
  /\ granted \subseteq 0 .. RestartWindow - 1
  /\ cache \in [online : BOOLEAN, health : HealthStates]
  /\ alerts \in [{"node_offline", "node_unhealthy"} -> Nat] /\ evaluated \in BOOLEAN
  /\ subs \subseteq Clients /\ lost \in [Clients -> BOOLEAN]
  /\ queue \in [Clients -> Seq(Events)] /\ view \in [Clients -> Events]
  /\ \A c \in Clients : Len(queue[c]) <= BufSize /\ (c \notin subs => queue[c] = <<>>)
  /\ MaxSubscribers = 0 \/ Cardinality(subs) <= MaxSubscribers

(* What a new process knows: guardian.New, NewCache and NewBus.            *)
Fresh ==
  /\ step' = "idle" /\ online' = FALSE /\ reachable' = FALSE /\ since' = OfflineAfter
  /\ state' = "OFFLINE" /\ restartTimes' = {} /\ lastRestart' = MinRestartInterval
  /\ cache' = [online |-> FALSE, health |-> "OFFLINE"]
  /\ evaluated' = FALSE
  /\ subs' = {} /\ queue' = [c \in Clients |-> <<>>]
  /\ lost' = [c \in Clients |-> FALSE] /\ view' = [c \in Clients |-> "other"]

Init ==
  /\ node \in {"up", "dead"}
  /\ step = "idle" /\ online = FALSE /\ reachable = FALSE /\ since = OfflineAfter
  /\ state = "OFFLINE" /\ restartTimes = {} /\ lastRestart = MinRestartInterval
  /\ granted = {}
  /\ cache = [online |-> FALSE, health |-> "OFFLINE"]
  /\ alerts = [r \in {"node_offline", "node_unhealthy"} |-> 0] /\ evaluated = FALSE
  /\ subs = {} /\ queue = [c \in Clients |-> <<>>]
  /\ lost = [c \in Clients |-> FALSE] /\ view = [c \in Clients |-> "other"]

-----------------------------------------------------------------------------
(* The node, and time.                                                     *)

NodeChanges ==
  /\ node' \in {"up", "hung", "dead"} \ {node}
  /\ UNCHANGED <<step, sample, guardian, cache, engine, bus>>

Older(age, limit) == IF age < limit THEN age + 1 ELSE limit

(* The calls of a tick take time only while the node does not answer.      *)
Elapse ==
  /\ step = "idle" \/ node # "up"
  /\ since' = Older(since, OfflineAfter)
  /\ restartTimes' = {Older(t, RestartWindow) : t \in restartTimes}
  /\ lastRestart' = Older(lastRestart, MinRestartInterval)
  /\ granted' = {t + 1 : t \in granted} \ {RestartWindow}
  /\ UNCHANGED <<node, step, online, reachable, state, cache, engine, bus>>

-----------------------------------------------------------------------------
(* The event bus.                                                          *)

(* A full channel keeps what it holds: the new event is dropped.  What its *)
(* client believes is followed no further.                                 *)
Publish(e) ==
  LET full == {c \in subs : Len(queue[c]) = BufSize}
  IN /\ queue' = [c \in Clients |-> IF c \in subs \ full THEN Append(queue[c], e) ELSE queue[c]]
     /\ lost' = [c \in Clients |-> lost[c] \/ c \in full]
     /\ view' = [c \in Clients |-> IF c \in full THEN "other" ELSE view[c]]
     /\ UNCHANGED subs

(* ServeSSE: at the limit the client is refused.                           *)
TrySubscribe(c) ==
  /\ c \notin subs
  /\ MaxSubscribers = 0 \/ Cardinality(subs) < MaxSubscribers
  /\ subs' = subs \cup {c}
  /\ UNCHANGED <<node, step, sample, guardian, cache, engine, queue, lost, view>>

Unsubscribe(c) ==
  /\ c \in subs
  /\ subs' = subs \ {c} /\ queue' = [queue EXCEPT ![c] = <<>>]
  /\ lost' = [lost EXCEPT ![c] = FALSE] /\ view' = [view EXCEPT ![c] = "other"]
  /\ UNCHANGED <<node, step, sample, guardian, cache, engine>>

Receive(c) ==
  /\ queue[c] # <<>>
  /\ queue' = [queue EXCEPT ![c] = Tail(@)]
  /\ view' = [view EXCEPT ![c] = IF lost[c] \/ Head(queue[c]) = "other" THEN @ ELSE Head(queue[c])]
  /\ UNCHANGED <<node, step, sample, guardian, cache, engine, subs, lost>>

-----------------------------------------------------------------------------
(* One tick.                                                               *)

(* collect: a failed GetNodeStatus makes the node offline, whatever the    *)
(* snapshot keeps of its status; the calls for the other fields follow.    *)
Collect ==
  /\ step = "idle"
  /\ online' = (node = "up")
  /\ step' = "sampled"
  /\ UNCHANGED <<node, reachable, since, guardian, cache, engine, bus>>

(* Mutant: the time of the last success is not written.                    *)
PingKeepsTime ==
  /\ step = "sampled"
  /\ reachable' = (node = "up")
  /\ step' = "pinged"
  /\ UNCHANGED <<node, online, since, guardian, cache, engine, bus>>

(* lastSuccess is stamped once everything is collected, before Health.     *)
Ping ==
  /\ step = "sampled"
  /\ since' = IF online THEN 0 ELSE since
  /\ reachable' = (node = "up")
  /\ step' = "pinged"
  /\ UNCHANGED <<node, online, guardian, cache, engine, bus>>

Classify(running) ==
  IF ~running \/ ~online \/ since >= OfflineAfter THEN "OFFLINE"
  ELSE IF ~reachable \/ since >= UnhealthyAfter THEN "UNHEALTHY"
  ELSE IF since >= DegradedAfter THEN "DEGRADED" ELSE "HEALTHY"

(* Mutant: a restart is forgotten one unit too early.                      *)
KeptTooFew == {t \in restartTimes : t < RestartWindow - 1}

(* What is left of restartTimes once the old ones are struck out.          *)
Kept == {t \in restartTimes : t < RestartWindow}

(* Mutant: the budget is exceeded by one.                                  *)
MayRestartOnceMore ==
  /\ lastRestart >= MinRestartInterval
  /\ Cardinality(Kept) <= MaxAutoRestarts

MayRestart ==
  /\ lastRestart >= MinRestartInterval
  /\ Cardinality(Kept) < MaxAutoRestarts

(* attemptRestart, up to the call.  A refused attempt may still prune.     *)
AttemptRestart ==
  IF MayRestart
  THEN /\ restartTimes' = Kept \cup {0} /\ lastRestart' = 0
       /\ granted' = granted \cup {0} /\ step' = "restart"
  ELSE /\ restartTimes' = IF lastRestart >= MinRestartInterval THEN Kept ELSE restartTimes
       /\ step' = "judged" /\ UNCHANGED <<lastRestart, granted>>

(* Evaluate, after asking systemd for the unit's state: a change of state  *)
(* is published, and a change to the worse is answered with a restart.     *)
Evaluate ==
  /\ step = "pinged"
  /\ state' = Classify(node # "dead")
  /\ IF state' # state THEN Publish("other") ELSE UNCHANGED bus
  /\ IF state' # state /\ state' \in {"UNHEALTHY", "OFFLINE"}
     THEN AttemptRestart
     ELSE step' = "judged" /\ UNCHANGED <<restartTimes, lastRestart, granted>>
  /\ UNCHANGED <<node, sample, cache, engine>>

(* systemctl restart: its error is ignored.                                *)
Restart ==
  /\ step = "restart"
  /\ \/ node' \in {"up", "hung", "dead"}
     \/ "restart" \in FailingCalls /\ UNCHANGED node
  /\ step' = "judged"
  /\ UNCHANGED <<sample, guardian, cache, engine, bus>>

(* Mutant: a node that comes back is not announced.                        *)
AnnounceOffline ==
  /\ step = "judged"
  /\ cache' = [online |-> online, health |-> state]
  /\ IF cache.online /\ ~online THEN Publish("node.offline") ELSE UNCHANGED bus
  /\ step' = "alert 1"
  /\ UNCHANGED <<node, sample, guardian, engine>>

(* Cache.Set, and the difference to the snapshot it replaces.              *)
Announce ==
  /\ step = "judged"
  /\ cache' = [online |-> online, health |-> state]
  /\ IF cache.online # online
     THEN Publish(IF online THEN "node.online" ELSE "node.offline")
     ELSE UNCHANGED bus
  /\ step' = "alert 1"
  /\ UNCHANGED <<node, sample, guardian, engine>>

-----------------------------------------------------------------------------
(* Engine.Evaluate, one rule after the other.                              *)

Fires(rule) == cache.health = IF rule = "node_offline" THEN "OFFLINE" ELSE "UNHEALTHY"

EvaluationFails == evaluated' = FALSE /\ step' = "idle" /\ UNCHANGED <<alerts, bus>>

(* Mutant: an alert that is open is opened again.                          *)
OpensAgain(rule) ==
  IF Fires(rule)
  THEN alerts' = [alerts EXCEPT ![rule] = IF @ < 2 THEN @ + 1 ELSE @] /\ Publish("other")
  ELSE alerts' = [alerts EXCEPT ![rule] = 0] /\ UNCHANGED bus

(* Mutant: a rule that no longer fires is left open.                       *)
OpensOnly(rule) ==
  IF Fires(rule) /\ alerts[rule] = 0
  THEN alerts' = [alerts EXCEPT ![rule] = 1] /\ Publish("other")
  ELSE UNCHANGED <<alerts, bus>>

OpensOrResolves(rule) ==
  IF Fires(rule) = (alerts[rule] > 0) THEN UNCHANGED <<alerts, bus>>
  ELSE /\ alerts' = [alerts EXCEPT ![rule] = IF Fires(rule) THEN @ + 1 ELSE 0]
       /\ Publish("other")

(* A failing query or write ends the evaluation: later rules are not seen. *)
EvaluateRule(i) ==
  /\ step = IF i = 1 THEN "alert 1" ELSE "alert 2"
  /\ \/ /\ OpensOrResolves(Rules[i])
        /\ IF i = Len(Rules) THEN step' = "idle" /\ evaluated' = TRUE
                             ELSE step' = "alert 2" /\ UNCHANGED evaluated
     \/ "open" \in FailingCalls /\ EvaluationFails
     \/ "write" \in FailingCalls /\ Fires(Rules[i]) # (alerts[Rules[i]] > 0) /\ EvaluationFails
  /\ UNCHANGED <<node, sample, guardian, cache>>

-----------------------------------------------------------------------------
(* The agent dies between two steps, or while a row is written whose event *)
(* is then never published; the node and the database stay.                *)
AgentDies ==
  /\ Fresh
  /\ granted' = {}
  /\ \/ UNCHANGED alerts
     \/ \E i \in DOMAIN Rules :
          /\ step = IF i = 1 THEN "alert 1" ELSE "alert 2"
          /\ Fires(Rules[i]) # (alerts[Rules[i]] > 0)
          /\ alerts' = [alerts EXCEPT ![Rules[i]] = IF Fires(Rules[i]) THEN @ + 1 ELSE 0]
  /\ UNCHANGED node

Poll ==
  \/ Collect \/ Ping \/ Evaluate \/ Restart \/ Announce
  \/ \E i \in DOMAIN Rules : EvaluateRule(i)

Client(c) == TrySubscribe(c) \/ Unsubscribe(c) \/ Receive(c)

Next == NodeChanges \/ Elapse \/ Poll \/ AgentDies \/ \E c \in Clients : Client(c)

Spec == Init /\ [][Next]_vars

(* The poller's goroutine runs, whatever the calls return.                 *)
FairSpec == Spec /\ WF_vars(Poll)

-----------------------------------------------------------------------------
(* As long as the agent runs, no RestartWindow sees more than              *)
(* MaxAutoRestarts automatic restarts, and two of them are at least        *)
(* MinRestartInterval apart, however the node flaps and however long the   *)
(* calls of a tick take.                                                   *)
RestartsBounded ==
  /\ Cardinality(granted) <= MaxAutoRestarts
  /\ \A t, u \in granted : t < u => u - t >= MinRestartInterval

(* A rule that fires tick after tick has one open alert, also when         *)
(* evaluations fail and when the agent dies with the alert open.           *)
OneOpenAlert == \A r \in DOMAIN alerts : alerts[r] <= 1

(* After an evaluation without an error the open alerts are those of the   *)
(* health the API serves: also the first one of a new process, which finds *)
(* the alerts its predecessor left.                                        *)
AlertsMatchHealth ==
  step = "idle" /\ evaluated => \A r \in DOMAIN alerts : alerts[r] > 0 <=> Fires(r)

(* A client that lost no event and has read all of them believes what the  *)
(* snapshot says, between two ticks.                                       *)
ViewMatchesCache ==
  \A c \in subs :
    step = "idle" /\ ~lost[c] /\ queue[c] = <<>> =>
      view[c] \in {"other", IF cache.online THEN "node.online" ELSE "node.offline"}

(* Once the node answers for good, and the agent keeps running, the API    *)
(* ends up saying so.                                                      *)
NodeSettles  == <>[](node = "up") /\ <>[][~AgentDies]_vars
HealthReturns == NodeSettles => <>[](cache.online /\ cache.health = "HEALTHY")
=============================================================================
