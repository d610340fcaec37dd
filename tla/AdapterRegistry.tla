--------------------------- MODULE AdapterRegistry ---------------------------
(***************************************************************************)
(* Which adapter the agent talks to the node through: the registry         *)
(* (agent/adapters/registry.go), the adapters it switches between          *)
(* (agent/adapters/qrx007, legacy006, mock, future) and the selection at   *)
(* startup (agent/cmd/agentd/main.go).                                     *)
(*                                                                         *)
(* Activate holds the registry's lock only while it reads the active name  *)
(* and while it writes it: the calls to the adapters in between are steps  *)
(* of their own, and handlers, the poller and the node run between them.   *)
(***************************************************************************)
EXTENDS UpdateRules

CONSTANTS
  Installed,     \* the adapters built in, by name
  VersionOf,     \* the version each of them reports
  Callers,       \* handlers of POST /versions/{component}/activate
  Startup,       \* the agent's own activation, before it serves anything
  Configs,       \* adapter.name and adapter.manual_override, as configured
  Assumed,       \* adapter.assumed_qrx_core_version
  Nodes          \* what the node may be like: its version, and per command
                 \* what it answers, "good", "garbled" or "none"

Adapters == {"qrx007", "legacy006", "mock", "future-example"}

ASSUME InstalledAssumption ==
  /\ Installed \subseteq Adapters /\ Unset \notin Adapters
  /\ VersionOf \in [Installed -> Strings]
ASSUME ConfigsAssumption ==
  Configs \subseteq [name : Installed \cup {Unset}, override : BOOLEAN]
ASSUME CallersAssumption == Startup \notin Callers

VARIABLES
  node,        \* the node, one of Nodes
  config,      \* the configuration the agent was started with
  agent,       \* "detect", "select", "activate", then "running"
  detected,    \* qrxCoreVersion
  disabled,    \* Registry.disabled
  active,      \* Registry.active
  overridden,  \* the active adapter was disabled when it was asked for
  caps,        \* qrx007's caps: not probed, or what answered
  simulating,  \* mock: its simulation runs
  op           \* per caller: where its Activate stands

registry == <<disabled, active, overridden>>
adapters == <<caps, simulating>>
startup  == <<config, agent, detected>>
registryVars == <<node, registry, adapters, startup, op>>

Names == Installed \cup {Unset}
NotProbed == [probed |-> FALSE, can |-> {}]
NoOp == [at |-> "idle", name |-> Unset, current |-> Unset, allow |-> FALSE]
OpSteps == {"idle", "deactivate", "activate", "ping", "health", "drop", "restore", "record"}

(* The commands behind qrx007's optional capabilities.                     *)
Optional == {"validator", "producer", "velocity", "lanes"}

RegistryTypeOK ==
  /\ node \in Nodes /\ config \in Configs
  /\ agent \in {"detect", "select", "activate", "running"}
  /\ detected \in {n.version : n \in Nodes} \cup {Assumed, Unset}
  /\ disabled \subseteq Installed /\ active \in Names /\ overridden \in BOOLEAN
  /\ caps \in [probed : BOOLEAN, can : SUBSET Optional] /\ simulating \in BOOLEAN
  /\ op \in [Callers \cup {Startup} ->
               [at : OpSteps, name : Names, current : Names, allow : BOOLEAN]]

RegistryInit ==
  /\ node \in Nodes /\ config \in Configs
  /\ agent = "detect" /\ detected = Unset
  /\ disabled = {} /\ active = Unset /\ overridden = FALSE
  /\ caps = NotProbed /\ simulating = FALSE
  /\ op = [c \in Callers \cup {Startup} |-> NoOp]

(* A new process, with the same configuration.                             *)
AgentRestarts ==
  /\ agent' = "detect" /\ detected' = Unset
  /\ disabled' = {} /\ active' = Unset /\ overridden' = FALSE
  /\ caps' = NotProbed /\ simulating' = FALSE
  /\ op' = [c \in Callers \cup {Startup} |-> NoOp]
  /\ UNCHANGED <<node, config>>

(* The node comes and goes, and answers some commands but not others.      *)
NodeChanges ==
  /\ node' \in Nodes \ {node}
  /\ UNCHANGED <<registry, adapters, startup, op>>

-----------------------------------------------------------------------------
(* The adapters.                                                           *)

Answers(command) == node.reply[command] # "none"

(* Mutant: a mandatory command is listed as a capability.                  *)
ProbedAll == [probed |-> TRUE, can |-> {f \in DOMAIN node.reply : Answers(f)}]

(* probeCapabilities: lanes are asked for by the wallet's address.         *)
Probed ==
  [probed |-> TRUE,
   can |-> {f \in Optional \cap DOMAIN node.reply :
              Answers(f) /\ (f = "lanes" => node.reply["wallet"] = "good")}]

ActivateAdapter(a) ==
  /\ caps' = IF a = "qrx007" THEN Probed ELSE caps
  /\ simulating' = (simulating \/ a = "mock")

DeactivateAdapter(a) ==
  /\ caps' = IF a = "qrx007" THEN NotProbed ELSE caps
  /\ simulating' = (simulating /\ a # "mock")

Health(a) ==
  CASE a \in {"qrx007", "legacy006"} -> Answers("uptime")
    [] a = "mock" -> simulating
    [] OTHER -> TRUE

-----------------------------------------------------------------------------
(* Activate.                                                               *)

Goto(c, step) == op' = [op EXCEPT ![c].at = step]
Return(c) == op' = [op EXCEPT ![c] = NoOp]

(* The guard, and the only look at what is active.  AllowUnsupported       *)
(* changes nothing for an adapter that is not disabled.                    *)
Begin(c, name, allow) ==
  LET current == IF active = name THEN Unset ELSE active
  IN  IF name \in disabled /\ ~allow THEN Return(c)
      ELSE op' = [op EXCEPT ![c] = [at |-> IF current = Unset THEN "activate" ELSE "deactivate",
                                    name |-> name, current |-> current,
                                    allow |-> allow /\ name \in disabled]]

Deactivate(c) ==
  /\ op[c].at = "deactivate"
  /\ DeactivateAdapter(op[c].current) /\ Goto(c, "activate")
  /\ UNCHANGED <<node, registry, startup>>

(* The adapters of a real node end their Activate with a ping.             *)
Activate(c) ==
  /\ op[c].at = "activate"
  /\ ActivateAdapter(op[c].name)
  /\ Goto(c, IF op[c].name \in {"qrx007", "legacy006"} THEN "ping" ELSE "health")
  /\ UNCHANGED <<node, registry, startup>>

Ping(c) ==
  /\ op[c].at = "ping"
  /\ Goto(c, IF Answers("uptime") THEN "health" ELSE "restore")
  /\ UNCHANGED <<node, registry, adapters, startup>>

CheckHealth(c) ==
  /\ op[c].at = "health"
  /\ Goto(c, IF Health(op[c].name) THEN "record" ELSE "drop")
  /\ UNCHANGED <<node, registry, adapters, startup>>

Drop(c) ==
  /\ op[c].at = "drop"
  /\ DeactivateAdapter(op[c].name) /\ Goto(c, "restore")
  /\ UNCHANGED <<node, registry, startup>>

(* Mutant: a failed activation leaves nothing activated.                   *)
RestoreNothing(c) ==
  /\ op[c].at = "restore"
  /\ Return(c)
  /\ UNCHANGED <<node, registry, adapters, startup>>

(* The error is returned once the adapter found active is activated again. *)
Restore(c) ==
  /\ op[c].at = "restore"
  /\ IF op[c].current = Unset THEN UNCHANGED adapters ELSE ActivateAdapter(op[c].current)
  /\ Return(c)
  /\ UNCHANGED <<node, registry, startup>>

Record(c) ==
  /\ op[c].at = "record"
  /\ active' = op[c].name /\ overridden' = op[c].allow
  /\ Return(c)
  /\ UNCHANGED <<node, adapters, startup, disabled>>

ActivateStep(c) ==
  Deactivate(c) \/ Activate(c) \/ Ping(c) \/ CheckHealth(c) \/ Drop(c) \/ Restore(c) \/ Record(c)

handleActivateVersion(c) ==
  /\ agent = "running" /\ op[c] = NoOp
  /\ \E name \in Installed, allow \in BOOLEAN : Begin(c, name, allow)
  /\ UNCHANGED <<node, registry, adapters, startup>>

-----------------------------------------------------------------------------
(* The start of the agent.                                                 *)

detectQRXCoreVersion ==
  /\ agent = "detect"
  /\ detected' = IF node.reply["build"] = "good" THEN node.version ELSE Assumed
  /\ agent' = "select"
  /\ UNCHANGED <<node, registry, adapters, config, op>>

ValidateCompatibility(name) == Lookup(detected, name, VersionOf[name])

(* Mutant: an adapter the matrix does not know stays enabled.              *)
DisableUnsupported == {a \in Installed : ValidateCompatibility(a) = "UNSUPPORTED"}

DisableIncompatible == {a \in Installed : ValidateCompatibility(a) \notin UsableStates}

(* Without a best adapter that is installed, the agent runs without any.   *)
SelectAutomatic ==
  LET best == BestAdapterFor(detected)
  IN  /\ agent = "select" /\ config.name = Unset
      /\ disabled' = DisableIncompatible
      /\ IF best \in Installed \ disabled'
         THEN agent' = "activate"
              /\ op' = [op EXCEPT ![Startup] = [NoOp EXCEPT !.at = "activate", !.name = best]]
         ELSE agent' = "running" /\ UNCHANGED op
      /\ UNCHANGED <<node, active, overridden, adapters, config, detected>>

(* A configured adapter is activated before any is disabled.               *)
SelectConfigured ==
  /\ agent = "select" /\ config.name # Unset
  /\ Begin(Startup, config.name, config.override)
  /\ agent' = "activate"
  /\ UNCHANGED <<node, registry, adapters, config, detected>>

(* A failed activation: one that was configured ends the agent, which      *)
(* systemd starts again; the automatic choice is only warned about.        *)
Selected ==
  /\ agent = "activate" /\ op[Startup] = NoOp
  /\ IF config.name # Unset /\ active = Unset
     THEN AgentRestarts
     ELSE agent' = "running" /\ UNCHANGED <<node, registry, adapters, config, detected, op>>

StartupStep == detectQRXCoreVersion \/ SelectAutomatic \/ SelectConfigured \/ Selected

-----------------------------------------------------------------------------
(* With automatic selection, the adapter in use is one the matrix records  *)
(* as usable with the detected node, unless an operator overrode it.       *)
ActiveIsCompatible ==
  config.name = Unset /\ active # Unset /\ ~overridden =>
    CheckAdapterCompatibility(detected, active, VersionOf[active])

(* When no activation is under way the adapter in use has been activated,  *)
(* also after one that failed half-way.                                    *)
ActiveIsActivated ==
  (\A c \in DOMAIN op : op[c] = NoOp) /\ active = "mock" => simulating
=============================================================================
