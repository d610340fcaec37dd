------------------------------ MODULE NodeFeed -------------------------------
(***************************************************************************)
(* What the dashboard is told of the node: Poller.collect                  *)
(* (agent/cmd/agentd/poller.go) reads field after field from the adapter   *)
(* that was active when the tick began, and the cache (agent/api/cache.go) *)
(* is replaced at the end.  A field that cannot be read keeps the value it *)
(* had, whichever adapter that value is from.                              *)
(*                                                                         *)
(* Monitor models the same goroutine for its judgement of the node; here   *)
(* it is modelled for the data, beside the registry it reads.              *)
(***************************************************************************)
EXTENDS AdapterRegistry

CONSTANT Fields   \* the fields of the snapshot that are polled, in their order

Collected == <<"node", "network", "blockchain", "mempool", "fees", "validator", "producer",
               "velocity", "lanes", "wallet", "blocks", "txs">>
ASSUME FieldsAssumption ==
  /\ Fields \in Seq(STRING)
  /\ \E keep \in SUBSET DOMAIN Collected :
       LET Kept(f) == \E i \in keep : Collected[i] = f
       IN  Fields = SelectSeq(Collected, Kept)
  /\ \A n \in Nodes : \A i \in DOMAIN Fields : Fields[i] \in DOMAIN n.reply

VARIABLES
  tick,    \* the poller: the number of the field it reads, and from whom
  snap,    \* the snapshot it fills
  cache    \* the snapshot the API serves

feedVars == <<tick, snap, cache>>
vars == <<registryVars, feedVars>>

Values == {"blank", "unsupported", "unavailable", "real", "simulated"}
FieldNames == {Fields[i] : i \in DOMAIN Fields}
Blank == [online |-> FALSE, value |-> [f \in FieldNames |-> "blank"]]
NoTick == [at |-> 0, adapter |-> Unset]

FeedTypeOK ==
  /\ RegistryTypeOK
  /\ tick \in [at : 0 .. Len(Fields) + 1, adapter : Names]
  /\ {snap, cache} \subseteq [online : BOOLEAN, value : [FieldNames -> Values]]

Init == RegistryInit /\ tick = NoTick /\ snap = Blank /\ cache = Blank

-----------------------------------------------------------------------------
(* The adapters' Get methods: what a field may be read as.                 *)

(* A status that is no JSON object is empty, and no error.                 *)
StatusFromNode ==
  CASE node.reply["node"] = "good" -> {"real"}
    [] node.reply["node"] = "none" -> {"error"}
    [] OTHER -> {"blank"}

(* What else cannot be parsed is an error.                                 *)
FromNode(f) == IF node.reply[f] = "good" THEN {"real"} ELSE {"error"}

(* A reply of another shape than expected may be degraded instead.         *)
LanesFromNode ==
  CASE node.reply["lanes"] = "good" -> {"real"}
    [] node.reply["lanes"] = "none" -> {"error"}
    [] OTHER -> {"error", "unavailable"}

(* Capabilities: qrx007 probes when it has not been activated since.       *)
Capabilities == IF caps.probed THEN caps ELSE Probed

(* An optional command that did not answer the probe is not asked for.     *)
GetQRX007(f) ==
  CASE f \in Optional \ Capabilities.can -> {"unsupported"}
    [] f = "node" -> StatusFromNode
    [] f = "lanes" /\ f \in Capabilities.can -> LanesFromNode
    [] OTHER -> FromNode(f)

(* What legacy006 does not implement, it reports so without asking.        *)
Legacy == {"fees", "validator", "producer", "velocity", "lanes"}

(* Mutant: legacy006 has no answer for what it does not implement.         *)
GetLegacyOrFail(f) ==
  CASE f \in Legacy -> {"error"}
    [] f = "node" -> StatusFromNode
    [] OTHER -> FromNode(f)

GetLegacy006(f) ==
  CASE f \in Legacy -> {"unsupported"}
    [] f = "node" -> StatusFromNode
    [] OTHER -> FromNode(f)

GetMock(f) == {"simulated"}

GetFutureExample(f) == {"blank"}

Get(a, f) ==
  CASE a = "qrx007" -> GetQRX007(f)
    [] a = "legacy006" -> GetLegacy006(f)
    [] a = "mock" -> GetMock(f)
    [] OTHER -> GetFutureExample(f)

(* GetNodeStatus: Online, of a status that was read.                       *)
SaysOnline(a) == a # "future-example" /\ (a = "mock" => simulating)

-----------------------------------------------------------------------------
(* One tick.                                                               *)

(* Without an adapter the snapshot is blank, and says so.                  *)
TickBegins ==
  /\ agent = "running" /\ tick.at = 0
  /\ tick' = [at |-> IF active = Unset THEN Len(Fields) + 1 ELSE 1, adapter |-> active]
  /\ snap' = Blank
  /\ UNCHANGED <<registryVars, cache>>

(* Mutant: a field that cannot be read is left out of the new snapshot.    *)
FallBackToBlank(f) == "blank"

(* prev: only this goroutine replaces the cache.                           *)
FallBack(f) == cache.value[f]

CollectField ==
  /\ tick.at \in DOMAIN Fields
  /\ LET f == Fields[tick.at]
     IN  \E got \in Get(tick.adapter, f) :
           snap' = [online |-> IF f = "node" THEN got # "error" /\ SaysOnline(tick.adapter)
                                             ELSE snap.online,
                    value |-> [snap.value EXCEPT ![f] = IF got = "error" THEN FallBack(f) ELSE got]]
  /\ caps' = IF tick.adapter = "qrx007" /\ Fields[tick.at] \in Optional THEN Capabilities ELSE caps
  /\ tick' = [tick EXCEPT !.at = @ + 1]
  /\ UNCHANGED <<node, registry, simulating, startup, op, cache>>

TickEnds ==
  /\ tick.at = Len(Fields) + 1
  /\ cache' = snap /\ snap' = Blank /\ tick' = NoTick
  /\ UNCHANGED registryVars

Poll == TickBegins \/ CollectField \/ TickEnds

-----------------------------------------------------------------------------
Handler(c) == ActivateStep(c) /\ UNCHANGED feedVars

Next ==
  \/ NodeChanges /\ UNCHANGED feedVars
  \/ StartupStep /\ UNCHANGED feedVars
  \/ AgentRestarts /\ tick' = NoTick /\ snap' = Blank /\ cache' = Blank
  \/ \E c \in Callers : handleActivateVersion(c) /\ UNCHANGED feedVars
  \/ \E c \in Callers \cup {Startup} : Handler(c)
  \/ Poll

Spec == Init /\ [][Next]_vars

(* The goroutines run, and every call of qrx-cli has a timeout.            *)
FairSpec ==
  /\ Spec
  /\ WF_vars(Poll) /\ WF_vars(StartupStep /\ UNCHANGED feedVars)
  /\ \A c \in Callers \cup {Startup} : WF_vars(Handler(c))

-----------------------------------------------------------------------------
(* Once a field has been filled it is not blanked again by a node that     *)
(* does not answer, nor by a switch of adapters in the middle of a tick;   *)
(* only a new process, the template adapter, and a status that cannot be   *)
(* parsed blank it.                                                        *)
NothingBlanked ==
  [][\A f \in FieldNames \ {"node"} :
       cache.value[f] # "blank" /\ cache'.value[f] = "blank" =>
         agent' = "detect" \/ tick.adapter = "future-example"]_vars

(* Once an adapter of a real node is in use for good and the node answers  *)
(* what that adapter asks for, no simulated value is left in the snapshot: *)
(* not in the fields the adapter does not implement, either.               *)
Asked(a) == FieldNames \ IF a = "legacy006" THEN Legacy ELSE Optional \ caps.can
Settled ==
  /\ <>[](active \in {"qrx007", "legacy006"} /\ \A f \in Asked(active) : node.reply[f] = "good")
  /\ <>[][UNCHANGED <<node, startup, active>>]_vars
SimulationEnds == Settled => <>[](\A f \in FieldNames : cache.value[f] # "simulated")

(* What the mock adapter made up is shown under the simulation banner,     *)
(* which the dashboard puts up when the node's status is a simulated one.  *)
SimulatedDataMarked ==
  \A f \in FieldNames : cache.value[f] = "simulated" => cache.value["node"] = "simulated"
=============================================================================
