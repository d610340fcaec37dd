--------------------------- MODULE NodeFeedProofs --------------------------
(***************************************************************************)
(* Proofs about NodeFeed, and AdapterRegistry in it, for every number of   *)
(* concurrent activations, every compatibility matrix, every set of fields *)
(* and every way the node may answer.                                      *)
(***************************************************************************)
EXTENDS NodeFeed, TLAPS

Everyone == Callers \cup {Startup}

Under(c) == op[c].at # "idle"

(* Nothing is active, and no activation is under way, before the agent has *)
(* selected an adapter.  With automatic selection what the matrix does not *)
(* record as usable is disabled from then on, and neither an activation    *)
(* under way nor the active adapter is of a disabled one, unless that was  *)
(* asked for.                                                              *)
RegistryInv ==
  /\ config \in Configs
  /\ agent \in {"detect", "select", "activate", "running"}
  /\ op \in [Everyone -> [at : OpSteps, name : Names, current : Names, allow : BOOLEAN]]
  /\ active \in Names /\ overridden \in BOOLEAN
  /\ \A c \in Everyone : Under(c) => op[c].name \in Installed
  /\ agent \in {"detect", "select"} =>
       active = Unset /\ \A c \in Everyone : op[c] = NoOp
  /\ config.name = Unset /\ agent \in {"activate", "running"} =>
       /\ disabled = DisableIncompatible
       /\ \A c \in Everyone : Under(c) /\ op[c].allow = FALSE => op[c].name \notin disabled
  /\ config.name = Unset /\ active # Unset /\ overridden = FALSE => active \notin disabled

(* Everything the registry's invariant speaks of.                          *)
about == <<agent, op, active, config, disabled, overridden, detected>>

LEMMA RegistryUnchanged == ASSUME RegistryInv, UNCHANGED about PROVE RegistryInv'
  BY DEF RegistryInv, about, Under, DisableIncompatible, ValidateCompatibility

LEMMA NoOpTyped ==
  /\ NoOp \in [at : OpSteps, name : Names, current : Names, allow : BOOLEAN]
  /\ NoOp.at = "idle"
  BY DEF NoOp, OpSteps, Names

LEMMA RegistryInitInv == ASSUME RegistryInit PROVE RegistryInv
<1>1. \A c \in Everyone : op[c] = NoOp
  BY DEF RegistryInit, Everyone
<1>2. op \in [Everyone -> [at : OpSteps, name : Names, current : Names, allow : BOOLEAN]]
  BY NoOpTyped DEF RegistryInit, Everyone
<1> QED BY <1>1, <1>2, NoOpTyped DEF RegistryInit, RegistryInv, Under, Names

(* A new process has selected nothing yet.                                 *)
LEMMA RegistryRestarts == ASSUME RegistryInv, AgentRestarts PROVE RegistryInv'
<1>1. \A c \in Everyone : op'[c] = NoOp
  BY DEF AgentRestarts, Everyone
<1> QED BY <1>1, NoOpTyped DEF AgentRestarts, RegistryInv, Everyone, Under, Names

(* An activation that starts: the guard lets a disabled adapter through    *)
(* only when that was asked for.                                           *)
LEMMA BeginKeeps ==
  ASSUME RegistryInv, NEW c \in Everyone, NEW name \in Installed, NEW allow \in BOOLEAN,
         Begin(c, name, allow), agent' \in {"activate", "running"},
         config.name = Unset => agent \in {"activate", "running"},
         UNCHANGED <<active, config, disabled, overridden, detected>>
  PROVE  RegistryInv'
<1> DEFINE OpRecord == [at : OpSteps, name : Names, current : Names, allow : BOOLEAN]
           current == IF active = name THEN Unset ELSE active
           start == [at |-> IF current = Unset THEN "activate" ELSE "deactivate",
                     name |-> name, current |-> current, allow |-> allow /\ name \in disabled]
<1>1. op \in [Everyone -> OpRecord] /\ active \in Names
  BY DEF RegistryInv
<1>2. \E r \in OpRecord : /\ op' = [op EXCEPT ![c] = r]
                       /\ \/ r = NoOp
                          \/ r.name = name /\ (r.allow = FALSE => name \notin disabled)
  <2>1. CASE name \in disabled /\ ~allow
    BY <2>1, NoOpTyped DEF Begin, Return
  <2>2. CASE ~(name \in disabled /\ ~allow)
    <3>1. op' = [op EXCEPT ![c] = start]
      BY <2>2 DEF Begin
    <3>2. start \in OpRecord
      <4>1. current \in Names /\ name \in Names
        BY <1>1 DEF Names
      <4>2. \A x \in Names, b \in BOOLEAN, step \in OpSteps :
              [at |-> step, name |-> name, current |-> x, allow |-> b] \in OpRecord
        BY <4>1
      <4>3. (IF current = Unset THEN "activate" ELSE "deactivate") \in OpSteps
        BY DEF OpSteps
      <4>4. (allow /\ name \in disabled) \in BOOLEAN
        OBVIOUS
      <4> QED BY <4>1, <4>2, <4>3, <4>4
    <3>3. start.name = name /\ (start.allow = FALSE => name \notin disabled)
      BY <2>2
    <3> QED BY <3>1, <3>2, <3>3
  <2> QED BY <2>1, <2>2
<1> HIDE DEF start, current
<1>3. PICK r \in OpRecord :
         /\ op' = [op EXCEPT ![c] = r]
         /\ \/ r = NoOp
            \/ r.name = name /\ (r.allow = FALSE => name \notin disabled)
  BY <1>2
<1>4. op' = [op EXCEPT ![c] = r]
  BY <1>3
<1> HIDE DEF OpRecord
<1>5. op' \in [Everyone -> OpRecord] /\ op'[c] = r /\ \A d \in Everyone \ {c} : op'[d] = op[d]
  BY <1>1, <1>4
<1>6. Under(c)' => r.name = name /\ (r.allow = FALSE => name \notin disabled)
  BY <1>3, <1>5, NoOpTyped DEF Under
<1>7. \A d \in Everyone : Under(d)' => op'[d].name \in Installed
  BY <1>5, <1>6 DEF RegistryInv, Under
<1>8. config.name = Unset =>
        /\ disabled = DisableIncompatible
        /\ \A d \in Everyone : Under(d)' /\ op'[d].allow = FALSE => op'[d].name \notin disabled
  BY <1>5, <1>6 DEF RegistryInv, Under
<1>9. DisableIncompatible' = DisableIncompatible
  BY DEF DisableIncompatible, ValidateCompatibility
<1> USE DEF OpRecord
<1> QED BY <1>1, <1>5, <1>7, <1>8, <1>9 DEF RegistryInv

(* A step of an activation moves on, or ends it; only Record touches the   *)
(* registry, and what it records has passed the guard.                     *)
LEMMA MovesOn ==
  ASSUME RegistryInv, NEW c \in Everyone, Under(c),
         \/ \E step \in OpSteps \ {"idle"} : Goto(c, step)
         \/ Return(c),
         UNCHANGED <<agent, active, config, disabled, overridden, detected>>
  PROVE  RegistryInv'
<1> DEFINE OpRecord == [at : OpSteps, name : Names, current : Names, allow : BOOLEAN]
<1>1. op \in [Everyone -> OpRecord]
  BY DEF RegistryInv
<1>2. DisableIncompatible' = DisableIncompatible
  BY DEF DisableIncompatible, ValidateCompatibility
<1>3. ASSUME NEW step \in OpSteps \ {"idle"}, Goto(c, step) PROVE RegistryInv'
  <2>1. op' = [op EXCEPT ![c].at = step]
    BY <1>3 DEF Goto
  <2>2. op' \in [Everyone -> OpRecord]
    BY <1>1, <2>1
  <2>3. \A d \in Everyone : /\ Under(d)' => Under(d)
                           /\ op'[d].name = op[d].name /\ op'[d].allow = op[d].allow
    BY <1>1, <2>1 DEF Under
  <2>4. agent \notin {"detect", "select"}
    BY NoOpTyped DEF RegistryInv, Under
  <2> HIDE DEF Under
  <2>5. \A d \in Everyone : Under(d)' => op'[d].name \in Installed
    BY <2>3 DEF RegistryInv
  <2>6. config.name = Unset => \A d \in Everyone :
          Under(d)' /\ op'[d].allow = FALSE => op'[d].name \notin disabled
    BY <2>3, <2>4 DEF RegistryInv
  <2> QED BY <1>2, <2>2, <2>4, <2>5, <2>6 DEF RegistryInv
<1>4. CASE Return(c)
  <2>1. op' = [op EXCEPT ![c] = NoOp]
    BY <1>4 DEF Return
  <2>2. op' \in [Everyone -> OpRecord]
    BY <1>1, <2>1, NoOpTyped
  <2>3. op'[c] = NoOp /\ \A d \in Everyone \ {c} : op'[d] = op[d]
    BY <1>1, <2>1
  <2>4. ~Under(c)' /\ \A d \in Everyone \ {c} : Under(d)' = Under(d)
    BY <2>3, NoOpTyped DEF Under
  <2>5. \A d \in Everyone : Under(d)' => op'[d].name \in Installed
    BY <2>3, <2>4 DEF RegistryInv
  <2>6. config.name = Unset /\ agent \in {"activate", "running"} => \A d \in Everyone :
          Under(d)' /\ op'[d].allow = FALSE => op'[d].name \notin disabled
    BY <2>3, <2>4 DEF RegistryInv
  <2>7. agent \in {"detect", "select"} => \A d \in Everyone : op'[d] = NoOp
    BY <2>3 DEF RegistryInv
  <2> QED BY <1>2, <2>2, <2>5, <2>6, <2>7 DEF RegistryInv
<1> QED BY <1>3, <1>4

LEMMA StepKeeps ==
  ASSUME RegistryInv, NEW c \in Everyone, ActivateStep(c) PROVE RegistryInv'
<1> USE DEF registry, startup, adapters, OpSteps
<1>1. Under(c)
  BY DEF ActivateStep, Deactivate, Activate, Ping, CheckHealth, Drop, Restore, Record, Under
<1>2. CASE Deactivate(c) \/ Activate(c) \/ Ping(c) \/ CheckHealth(c) \/ Drop(c)
  <2>1. /\ \E step \in OpSteps \ {"idle"} : Goto(c, step)
        /\ UNCHANGED <<agent, active, config, disabled, overridden, detected>>
    BY <1>2 DEF Deactivate, Activate, Ping, CheckHealth, Drop
  <2> QED BY <1>1, <2>1, MovesOn
<1>3. CASE Restore(c)
  BY <1>1, <1>3, MovesOn DEF Restore
<1>4. CASE Record(c)
  <2> DEFINE R == [at : OpSteps, name : Names, current : Names, allow : BOOLEAN]
  <2>1. /\ active' = op[c].name /\ overridden' = op[c].allow
        /\ op' = [op EXCEPT ![c] = NoOp]
        /\ UNCHANGED <<agent, config, disabled, detected>>
    BY <1>4 DEF Record, Return
  <2>2. op \in [Everyone -> R] /\ op[c].name \in Installed
    BY <1>1 DEF RegistryInv
  <2>3. op' \in [Everyone -> R] /\ op'[c] = NoOp /\ \A d \in Everyone \ {c} : op'[d] = op[d]
    BY <2>1, <2>2, NoOpTyped
  <2>4. ~Under(c)' /\ \A d \in Everyone \ {c} : Under(d)' = Under(d)
    BY <2>3, NoOpTyped DEF Under
  <2>5. agent \in {"activate", "running"}
    BY <1>1, NoOpTyped DEF RegistryInv, Under
  <2>6. config.name = Unset => /\ disabled = DisableIncompatible
                               /\ op[c].allow = FALSE => op[c].name \notin disabled
    BY <1>1, <2>5 DEF RegistryInv
  <2>7. DisableIncompatible' = DisableIncompatible
    BY <2>1 DEF DisableIncompatible, ValidateCompatibility
  <2>8. \A d \in Everyone : Under(d)' => op'[d].name \in Installed
    BY <2>3, <2>4 DEF RegistryInv
  <2>9. config.name = Unset => \A d \in Everyone :
          Under(d)' /\ op'[d].allow = FALSE => op'[d].name \notin disabled
    BY <2>3, <2>4, <2>5 DEF RegistryInv
  <2> QED BY <2>1, <2>2, <2>3, <2>5, <2>6, <2>7, <2>8, <2>9 DEF RegistryInv, Names
<1> QED BY <1>2, <1>3, <1>4 DEF ActivateStep

LEMMA StartupKeeps == ASSUME RegistryInv, StartupStep PROVE RegistryInv'
<1> USE DEF registry, startup, adapters
<1>1. Startup \in Everyone
  BY DEF Everyone
<1>2. CASE detectQRXCoreVersion
  BY <1>2 DEF detectQRXCoreVersion, RegistryInv, Under, NoOp
<1>3. CASE SelectConfigured
  <2>1. config.name \in Installed /\ config.override \in BOOLEAN
    BY <1>3, ConfigsAssumption DEF SelectConfigured, RegistryInv
  <2> QED BY <1>1, <1>3, <2>1, BeginKeeps DEF SelectConfigured
<1>4. CASE Selected
  <2>1. CASE AgentRestarts
    BY <2>1, RegistryRestarts
  <2>2. CASE agent' = "running" /\ UNCHANGED <<node, registry, adapters, config, detected, op>>
    <3>1. agent = "activate" /\ DisableIncompatible' = DisableIncompatible
      BY <1>4, <2>2 DEF Selected, DisableIncompatible, ValidateCompatibility
    <3> QED BY <2>2, <3>1 DEF RegistryInv, Under
  <2> QED BY <1>4, <2>1, <2>2 DEF Selected
<1>5. CASE SelectAutomatic
  <2> DEFINE best == BestAdapterFor(detected)
             r == [NoOp EXCEPT !.at = "activate", !.name = best]
             R == [at : OpSteps, name : Names, current : Names, allow : BOOLEAN]
  <2>1. /\ active = Unset /\ \A c \in Everyone : op[c] = NoOp
        /\ op \in [Everyone -> R]
    BY <1>5 DEF SelectAutomatic, RegistryInv
  <2>2. /\ disabled' = DisableIncompatible /\ UNCHANGED <<active, overridden, config, detected>>
        /\ DisableIncompatible' = DisableIncompatible
    BY <1>5 DEF SelectAutomatic, DisableIncompatible, ValidateCompatibility
  <2>3. CASE agent' = "running" /\ UNCHANGED op
    BY <2>1, <2>2, <2>3, NoOpTyped DEF RegistryInv, Under
  <2>4. CASE best \in Installed \ disabled' /\ agent' = "activate"
             /\ op' = [op EXCEPT ![Startup] = r]
    <3>1. r \in R /\ r.name = best
      BY <2>4 DEF NoOp, OpSteps, Names
    <3> HIDE DEF r, best
    <3>2. op' \in [Everyone -> R] /\ op'[Startup] = r
          /\ \A c \in Everyone \ {Startup} : op'[c] = NoOp
      BY <1>1, <2>1, <2>4, <3>1
    <3>3. \A c \in Everyone : Under(c)' => c = Startup
      BY <3>2, NoOpTyped DEF Under
    <3> HIDE DEF R
    <3>4. \A c \in Everyone : Under(c)' => op'[c].name \in Installed \ disabled'
      BY <2>4, <3>1, <3>2, <3>3
    <3> USE DEF R
    <3> QED BY <2>1, <2>2, <2>4, <3>2, <3>4 DEF RegistryInv
  <2> QED BY <1>5, <2>3, <2>4 DEF SelectAutomatic
<1> QED BY <1>2, <1>3, <1>4, <1>5 DEF StartupStep

LEMMA RegistryNext == RegistryInv /\ [Next]_vars => RegistryInv'
<1> SUFFICES ASSUME RegistryInv, [Next]_vars PROVE RegistryInv'
  OBVIOUS
<1> USE RegistryUnchanged DEF about, registry, startup, adapters, registryVars
<1>1. CASE UNCHANGED vars
  BY <1>1 DEF vars
<1>2. CASE NodeChanges
  BY <1>2 DEF NodeChanges
<1>3. CASE StartupStep
  BY <1>3, StartupKeeps
<1>4. CASE AgentRestarts
  BY <1>4, RegistryRestarts
<1>5. ASSUME NEW c \in Callers, handleActivateVersion(c) PROVE RegistryInv'
  <2>1. PICK name \in Installed, allow \in BOOLEAN : Begin(c, name, allow)
    BY <1>5 DEF handleActivateVersion
  <2>2. c \in Everyone
    BY DEF Everyone
  <2> QED BY <1>5, <2>1, <2>2, BeginKeeps DEF handleActivateVersion
<1>6. ASSUME NEW c \in Callers \cup {Startup}, Handler(c) PROVE RegistryInv'
  BY <1>6, StepKeeps DEF Handler, Everyone
<1>7. CASE Poll
  BY <1>7 DEF Poll, TickBegins, CollectField, TickEnds
<1> QED BY <1>1, <1>2, <1>3, <1>4, <1>5, <1>6, <1>7 DEF Next

(* With automatic selection no interleaving of activations makes an        *)
(* adapter active that the matrix does not record as usable, unless it was *)
(* asked for in spite of that (Registry.Activate, DisableIncompatible).    *)
THEOREM ActiveAlwaysCompatible == Spec => []ActiveIsCompatible
<1>1. Init => RegistryInv
  BY RegistryInitInv DEF Init
<1>2. RegistryInv => ActiveIsCompatible
  <2> SUFFICES ASSUME RegistryInv, config.name = Unset, active # Unset, overridden = FALSE
               PROVE  CheckAdapterCompatibility(detected, active, VersionOf[active])
    BY DEF ActiveIsCompatible, RegistryInv
  <2>1. active \in Installed \ disabled /\ disabled = DisableIncompatible
    BY DEF RegistryInv, Names
  <2>2. ValidateCompatibility(active) \in UsableStates
    BY <2>1 DEF DisableIncompatible
  <2> QED BY <2>2 DEF ValidateCompatibility, CheckAdapterCompatibility
<1> QED BY <1>1, <1>2, RegistryNext, PTL DEF Spec

-----------------------------------------------------------------------------
(* The types of what the poller keeps.                                     *)
Snapshots == [online : BOOLEAN, value : [FieldNames -> Values]]

PollerType ==
  /\ tick \in [at : 0 .. Len(Fields) + 1, adapter : Names]
  /\ snap \in Snapshots /\ cache \in Snapshots
  /\ active \in Names

LEMMA FieldsListed ==
  /\ Len(Fields) \in Nat /\ DOMAIN Fields = 1 .. Len(Fields)
  /\ \A i \in DOMAIN Fields : Fields[i] \in FieldNames
<1>1. Fields \in Seq(STRING)
  BY FieldsAssumption
<1> QED BY <1>1 DEF FieldNames

LEMMA BlankTyped == Blank \in Snapshots /\ \A f \in FieldNames : Blank.value[f] = "blank"
  BY DEF Blank, Snapshots, Values

LEMMA NoTickTyped == NoTick \in [at : 0 .. Len(Fields) + 1, adapter : Names]
  BY FieldsListed DEF NoTick, Names

(* What an adapter's Get method returns, and that only the status is ever  *)
(* read as nothing, unless by the template adapter.                        *)
LEMMA GetReturns ==
  ASSUME NEW a \in Names, a # Unset, NEW f, NEW got \in Get(a, f)
  PROVE  /\ got \in Values \cup {"error"}
         /\ f # "node" /\ a # "future-example" => got # "blank"
<1>1. a \in {"qrx007", "legacy006", "mock", "future-example"}
  BY InstalledAssumption DEF Names, Adapters
<1>2. /\ StatusFromNode \subseteq {"real", "error", "blank"}
      /\ FromNode(f) \subseteq {"real", "error"}
      /\ LanesFromNode \subseteq {"real", "error", "unavailable"}
  BY DEF StatusFromNode, FromNode, LanesFromNode
<1>3. CASE a = "qrx007"
  <2>1. Get(a, f) = GetQRX007(f)
    BY <1>3 DEF Get
  <2>2. GetQRX007(f) \subseteq {"unsupported", "real", "error", "blank", "unavailable"}
    BY <1>2 DEF GetQRX007
  <2>3. f # "node" => "blank" \notin GetQRX007(f)
    BY <1>2 DEF GetQRX007
  <2> QED BY <2>1, <2>2, <2>3 DEF Values
<1>4. CASE a = "legacy006"
  <2>1. Get(a, f) = GetLegacy006(f)
    BY <1>4 DEF Get
  <2>2. GetLegacy006(f) \subseteq {"unsupported", "real", "error", "blank"}
    BY <1>2 DEF GetLegacy006
  <2>3. f # "node" => "blank" \notin GetLegacy006(f)
    BY <1>2 DEF GetLegacy006
  <2> QED BY <2>1, <2>2, <2>3 DEF Values
<1>5. CASE a = "mock"
  BY <1>5 DEF Get, GetMock, Values
<1>6. CASE a = "future-example"
  BY <1>6 DEF Get, GetFutureExample, Values
<1> QED BY <1>1, <1>3, <1>4, <1>5, <1>6

LEMMA CollectTypes ==
  ASSUME RegistryInv, PollerType, CollectField, tick.adapter # Unset PROVE PollerType'
<1> DEFINE f == Fields[tick.at]
<1>1. /\ tick.at \in DOMAIN Fields /\ f \in FieldNames /\ tick.adapter \in Names
      /\ tick.at + 1 \in 0 .. Len(Fields) + 1
  BY FieldsListed DEF CollectField, PollerType
<1>2. PICK got \in Get(tick.adapter, f) :
         snap' = [online |-> IF f = "node" THEN got # "error" /\ SaysOnline(tick.adapter)
                                           ELSE snap.online,
                  value |-> [snap.value EXCEPT ![f] = IF got = "error" THEN FallBack(f) ELSE got]]
  BY DEF CollectField
<1>3. /\ snap.online \in BOOLEAN /\ snap.value \in [FieldNames -> Values]
      /\ cache.value \in [FieldNames -> Values]
  BY DEF PollerType, Snapshots
<1>4. (IF got = "error" THEN FallBack(f) ELSE got) \in Values
  <2>1. got \in Values \cup {"error"}
    BY <1>1, GetReturns
  <2> QED BY <1>1, <1>3, <2>1 DEF FallBack
<1>5. /\ snap'.online = IF f = "node" THEN got # "error" /\ SaysOnline(tick.adapter)
                                      ELSE snap.online
      /\ snap'.value = [snap.value EXCEPT ![f] = IF got = "error" THEN FallBack(f) ELSE got]
      /\ snap' = [online |-> snap'.online, value |-> snap'.value]
  BY <1>2
<1> HIDE DEF f
<1>6. snap'.value \in [FieldNames -> Values]
  BY <1>1, <1>3, <1>4, <1>5
<1>7. snap'.online \in BOOLEAN
  BY <1>3, <1>5 DEF SaysOnline
<1>8. snap' \in Snapshots
  BY <1>5, <1>6, <1>7 DEF Snapshots
<1>9. tick' \in [at : 0 .. Len(Fields) + 1, adapter : Names]
  BY <1>1 DEF CollectField, PollerType
<1> QED BY <1>8, <1>9 DEF CollectField, PollerType, registry

(* Which adapter a snapshot is read from, and what of it is blank.  An     *)
(* adapter stays active until the process ends, so a tick without one      *)
(* began when nothing had been read yet; and a field that was filled is    *)
(* filled again, or kept, by every other tick.                             *)
FeedInv ==
  /\ RegistryInv /\ PollerType
  /\ tick.at \in DOMAIN Fields => tick.adapter # Unset
  /\ tick.adapter # Unset => active # Unset
  /\ tick.adapter = Unset => snap = Blank
  /\ active = Unset => \A f \in FieldNames : cache.value[f] = "blank"
  /\ tick.at # 0 /\ tick.adapter = Unset => \A f \in FieldNames : cache.value[f] = "blank"
  /\ tick.adapter \notin {Unset, "future-example"} =>
       \A i \in DOMAIN Fields :
         /\ i < tick.at /\ Fields[i] # "node" /\ cache.value[Fields[i]] # "blank"
         => snap.value[Fields[i]] # "blank"

LEMMA FeedInit == Init => FeedInv
<1> SUFFICES ASSUME Init PROVE FeedInv
  OBVIOUS
<1>1. RegistryInv
  BY RegistryInitInv DEF Init
<1>2. /\ tick = NoTick /\ snap = Blank /\ cache = Blank /\ active = Unset
      /\ tick.at = 0 /\ tick.adapter = Unset
  BY DEF Init, RegistryInit, NoTick
<1>3. PollerType
  BY <1>2, BlankTyped, NoTickTyped DEF PollerType, Names
<1> QED BY <1>1, <1>2, <1>3, BlankTyped, FieldsListed DEF FeedInv

(* Steps of others: the active adapter may change, but not to none.        *)
LEMMA FeedElsewhere ==
  ASSUME FeedInv, RegistryInv', UNCHANGED feedVars, active # Unset => active' # Unset
  PROVE  FeedInv'
  BY DEF FeedInv, RegistryInv, PollerType, feedVars

LEMMA FeedTickBegins == ASSUME FeedInv, RegistryInv', TickBegins PROVE FeedInv'
<1>1. /\ tick'.adapter = active /\ tick'.at = IF active = Unset THEN Len(Fields) + 1 ELSE 1
      /\ snap' = Blank /\ UNCHANGED <<active, cache>>
  BY DEF TickBegins, registryVars, registry
<1>2. tick' \in [at : 0 .. Len(Fields) + 1, adapter : Names]
  BY FieldsListed DEF TickBegins, FeedInv, RegistryInv
<1>3. PollerType'
  BY <1>1, <1>2, BlankTyped DEF FeedInv, PollerType
<1>4. tick'.at \in DOMAIN Fields => tick'.adapter # Unset
  BY <1>1, FieldsListed
<1>5. ASSUME tick'.adapter # Unset, NEW i \in DOMAIN Fields PROVE ~(i < tick'.at)
  BY <1>1, <1>5, FieldsListed
<1> QED BY <1>1, <1>3, <1>4, <1>5 DEF FeedInv

LEMMA FeedCollectField == ASSUME FeedInv, RegistryInv', CollectField PROVE FeedInv'
<1> DEFINE f == Fields[tick.at]
<1>1. /\ tick.at \in DOMAIN Fields /\ tick.adapter # Unset /\ tick.adapter \in Names
      /\ tick'.at = tick.at + 1 /\ tick'.adapter = tick.adapter
      /\ UNCHANGED <<active, cache>>
  BY DEF CollectField, FeedInv, PollerType, registry
<1>2. PollerType'
  BY <1>1, CollectTypes DEF FeedInv
<1>3. PICK got \in Get(tick.adapter, f) :
         snap'.value = [snap.value EXCEPT ![f] = IF got = "error" THEN FallBack(f) ELSE got]
  BY DEF CollectField
<1>4. snap.value \in [FieldNames -> Values] /\ f \in FieldNames
  BY <1>1, FieldsListed DEF FeedInv, PollerType, Snapshots
<1>5. ASSUME tick.adapter # "future-example", NEW i \in DOMAIN Fields, i < tick'.at,
             Fields[i] # "node", cache.value[Fields[i]] # "blank"
      PROVE  snap'.value[Fields[i]] # "blank"
  <2>1. CASE Fields[i] = f
    <3>1. got # "blank"
      BY <1>1, <1>3, <1>5, <2>1, GetReturns
    <3>2. snap'.value[f] = IF got = "error" THEN cache.value[f] ELSE got
      BY <1>3, <1>4 DEF FallBack
    <3> QED BY <1>5, <2>1, <3>1, <3>2
  <2>2. CASE Fields[i] # f
    <3>1. snap'.value[Fields[i]] = snap.value[Fields[i]]
      BY <1>3, <1>4, <2>2, FieldsListed
    <3>2. i < tick.at
      BY <1>1, <1>5, <2>2, FieldsListed
    <3> QED BY <1>1, <1>5, <3>1, <3>2 DEF FeedInv
  <2> QED BY <2>1, <2>2
<1> QED BY <1>1, <1>2, <1>5 DEF FeedInv

(* What a tick puts into the cache is blank where the cache was, at most.  *)
LEMMA TickEndsFilled ==
  ASSUME FeedInv, TickEnds, tick.adapter # "future-example",
         NEW f \in FieldNames \ {"node"}, cache.value[f] # "blank"
  PROVE  snap.value[f] # "blank"
<1>1. PICK i \in DOMAIN Fields : f = Fields[i]
  BY DEF FieldNames
<1>2. tick.at # 0 /\ i < tick.at
  BY FieldsListed DEF TickEnds
<1> QED BY <1>1, <1>2 DEF FeedInv

LEMMA FeedTickEnds == ASSUME FeedInv, RegistryInv', TickEnds PROVE FeedInv'
<1>1. /\ cache' = snap /\ snap' = Blank /\ tick' = NoTick /\ UNCHANGED active
      /\ tick'.at = 0 /\ tick'.adapter = Unset
  BY DEF TickEnds, NoTick, registryVars, registry
<1>2. PollerType'
  BY <1>1, BlankTyped, NoTickTyped DEF FeedInv, PollerType
<1>3. active = Unset => \A f \in FieldNames : cache'.value[f] = "blank"
  BY <1>1, BlankTyped DEF FeedInv
<1> QED BY <1>1, <1>2, <1>3, FieldsListed DEF FeedInv

LEMMA FeedNext == FeedInv /\ [Next]_vars => FeedInv'
<1> SUFFICES ASSUME FeedInv, [Next]_vars PROVE FeedInv'
  OBVIOUS
<1>1. RegistryInv'
  BY RegistryNext DEF FeedInv
<1> USE <1>1, FeedElsewhere DEF registry, startup, adapters, registryVars
<1>2. CASE UNCHANGED vars
  BY <1>2 DEF vars
<1>3. CASE AgentRestarts /\ tick' = NoTick /\ snap' = Blank /\ cache' = Blank
  <2>1. tick'.at = 0 /\ tick'.adapter = Unset /\ active' = Unset
    BY <1>3 DEF NoTick, AgentRestarts
  <2>2. PollerType'
    BY <1>3, <2>1, BlankTyped, NoTickTyped DEF PollerType, Names
  <2> QED BY <1>3, <2>1, <2>2, BlankTyped, FieldsListed DEF FeedInv
<1>4. CASE NodeChanges /\ UNCHANGED feedVars
  BY <1>4 DEF NodeChanges
<1>5. CASE StartupStep /\ UNCHANGED feedVars
  <2>1. active # Unset => active' # Unset
    BY <1>5 DEF StartupStep, detectQRXCoreVersion, SelectAutomatic, SelectConfigured, Selected,
                FeedInv, RegistryInv
  <2> QED BY <1>5, <2>1
<1>6. ASSUME NEW c \in Callers, handleActivateVersion(c) /\ UNCHANGED feedVars PROVE FeedInv'
  BY <1>6 DEF handleActivateVersion
<1>7. ASSUME NEW c \in Callers \cup {Startup}, Handler(c) PROVE FeedInv'
  <2>1. CASE Record(c)
    <3>1. active' = op[c].name /\ op[c].name \in Installed
      BY <2>1 DEF Record, FeedInv, RegistryInv, Everyone, Under
    <3> QED BY <1>7, <3>1, InstalledAssumption DEF Handler
  <2>2. CASE ~Record(c)
    <3>1. UNCHANGED active
      BY <1>7, <2>2 DEF Handler, ActivateStep, Deactivate, Activate, Ping, CheckHealth, Drop,
                        Restore
    <3> QED BY <1>7, <3>1 DEF Handler
  <2> QED BY <2>1, <2>2
<1>8. CASE Poll
  BY <1>8, FeedTickBegins, FeedCollectField, FeedTickEnds DEF Poll
<1> QED BY <1>2, <1>3, <1>4, <1>5, <1>6, <1>7, <1>8 DEF Next

(* Poller.collect keeps what it cannot read: no tick blanks a field of the *)
(* cache that was filled, also when the adapter is switched, or the node   *)
(* goes away, in the middle of it.                                         *)
THEOREM NothingEverBlanked == Spec => NothingBlanked
<1>1. ASSUME FeedInv, [Next]_vars, NEW f \in FieldNames \ {"node"},
             cache.value[f] # "blank", cache'.value[f] = "blank"
      PROVE  agent' = "detect" \/ tick.adapter = "future-example"
  <2>1. CASE TickEnds
    <3>1. cache' = snap
      BY <2>1 DEF TickEnds
    <3> QED BY <1>1, <2>1, <3>1, TickEndsFilled
  <2>2. CASE AgentRestarts
    BY <2>2 DEF AgentRestarts
  <2>3. UNCHANGED cache \/ TickEnds \/ AgentRestarts
    BY <1>1 DEF Next, Handler, Poll, TickBegins, CollectField, feedVars, vars
  <2> QED BY <1>1, <2>1, <2>2, <2>3
<1>2. FeedInv /\ [Next]_vars =>
        [\A f \in FieldNames \ {"node"} :
           cache.value[f] # "blank" /\ cache'.value[f] = "blank" =>
             agent' = "detect" \/ tick.adapter = "future-example"]_vars
  BY <1>1
<1> QED BY <1>2, FeedInit, FeedNext, PTL DEF Spec, NothingBlanked

-----------------------------------------------------------------------------
(* The rest of the types.                                                  *)
StartupType ==
  /\ node \in Nodes
  /\ detected \in {n.version : n \in Nodes} \cup {Assumed, Unset}
  /\ disabled \subseteq Installed
  /\ caps \in [probed : BOOLEAN, can : SUBSET Optional] /\ simulating \in BOOLEAN

LEMMA CapsTyped ==
  /\ NotProbed \in [probed : BOOLEAN, can : SUBSET Optional]
  /\ Probed \in [probed : BOOLEAN, can : SUBSET Optional]
  BY DEF NotProbed, Probed

LEMMA StartupTypeInit == RegistryInit => StartupType
  BY CapsTyped DEF RegistryInit, StartupType

LEMMA StartupTypeNext == StartupType /\ [Next]_vars => StartupType'
<1> SUFFICES ASSUME StartupType, [Next]_vars PROVE StartupType'
  OBVIOUS
<1> USE CapsTyped DEF StartupType, registry, startup, adapters, registryVars
<1>1. CASE UNCHANGED vars
  BY <1>1 DEF vars
<1>2. CASE NodeChanges
  BY <1>2 DEF NodeChanges
<1>3. CASE AgentRestarts
  BY <1>3 DEF AgentRestarts
<1>4. CASE StartupStep
  <2>1. CASE detectQRXCoreVersion
    BY <2>1 DEF detectQRXCoreVersion
  <2>2. CASE SelectAutomatic
    BY <2>2 DEF SelectAutomatic, DisableIncompatible
  <2>3. CASE SelectConfigured
    BY <2>3 DEF SelectConfigured
  <2>4. CASE Selected
    BY <1>3, <2>4 DEF Selected
  <2> QED BY <1>4, <2>1, <2>2, <2>3, <2>4 DEF StartupStep
<1>5. ASSUME NEW c \in Callers, handleActivateVersion(c) PROVE StartupType'
  BY <1>5 DEF handleActivateVersion
<1>6. ASSUME NEW c \in Callers \cup {Startup}, ActivateStep(c) PROVE StartupType'
  <2>1. CASE Deactivate(c) \/ Drop(c)
    BY <2>1 DEF Deactivate, Drop, DeactivateAdapter
  <2>2. CASE Activate(c) \/ Restore(c)
    BY <2>2 DEF Activate, Restore, ActivateAdapter
  <2>3. CASE Ping(c) \/ CheckHealth(c) \/ Record(c)
    BY <2>3 DEF Ping, CheckHealth, Record
  <2> QED BY <1>6, <2>1, <2>2, <2>3 DEF ActivateStep
<1>7. CASE Poll
  BY <1>7 DEF Poll, TickBegins, CollectField, TickEnds, Capabilities
<1> QED BY <1>1, <1>2, <1>3, <1>4, <1>5, <1>6, <1>7 DEF Next, Handler

(* Every variable of the registry, the adapters, the startup and the       *)
(* poller keeps its type.                                                  *)
THEOREM FeedTypeCorrect == Spec => []FeedTypeOK
<1>1. Init => StartupType
  BY StartupTypeInit DEF Init
<1>2. FeedInv /\ StartupType => FeedTypeOK
  BY DEF FeedInv, RegistryInv, PollerType, Snapshots, StartupType, FeedTypeOK, RegistryTypeOK,
         Everyone
<1> QED BY <1>1, <1>2, FeedInit, FeedNext, StartupTypeNext, PTL DEF Spec

-----------------------------------------------------------------------------
(* One activation at a time.                                               *)

(* An activation knows what was active, and its adapter simulates from its *)
(* own activation on: until it has deactivated the old one, or once it has *)
(* given up, what is active can still be trusted or is activated again.    *)
Switching(c) ==
  /\ op[c].current = IF active = op[c].name THEN Unset ELSE active
  /\ op[c].at = "deactivate" \/ (op[c].at = "activate" /\ op[c].current = Unset) =>
       (active = "mock" => simulating)
  /\ op[c].at = "deactivate" => op[c].current # Unset
  /\ op[c].at \in {"ping", "drop", "restore"} => op[c].name # "mock"
  /\ op[c].at \in {"health", "record"} /\ op[c].name = "mock" => simulating

Activated ==
  /\ agent # "running" => \A c \in Callers : ~Under(c)
  /\ agent # "activate" => ~Under(Startup)
  /\ \A c \in Everyone : Under(c) => Switching(c)
  /\ (\A c \in Everyone : ~Under(c)) /\ active = "mock" => simulating

LEMMA ActivatedInit == RegistryInit => Activated
<1> SUFFICES ASSUME RegistryInit PROVE Activated
  OBVIOUS
<1>1. \A c \in Everyone : ~Under(c)
  BY NoOpTyped DEF RegistryInit, Everyone, Under
<1>2. active # "mock"
  BY InstalledAssumption DEF RegistryInit, Adapters
<1> QED BY <1>1, <1>2 DEF Activated, Everyone

(* An activation begins while no other is under way, or is refused.        *)
LEMMA ActivationBegins ==
  ASSUME RegistryInv, Activated, NEW c \in Everyone, NEW name \in Installed,
         NEW allow \in BOOLEAN, Begin(c, name, allow), \A d \in Everyone : ~Under(d),
         UNCHANGED <<active, simulating>>, agent' = IF c = Startup THEN "activate" ELSE "running"
  PROVE  Activated'
<1>1. op \in [Everyone -> [at : OpSteps, name : Names, current : Names, allow : BOOLEAN]]
  BY DEF RegistryInv
<1>2. \A d \in Everyone \ {c} : op'[d] = op[d] /\ ~Under(d)'
  BY <1>1 DEF Begin, Return, Under
<1>3. active = "mock" => simulating
  BY DEF Activated
<1>4. CASE name \in disabled /\ ~allow
  <2>1. ~Under(c)'
    BY <1>1, <1>4, NoOpTyped DEF Begin, Return, Under
  <2> QED BY <1>2, <1>3, <2>1 DEF Activated, Everyone
<1>5. CASE ~(name \in disabled /\ ~allow)
  <2> DEFINE current == IF active = name THEN Unset ELSE active
  <2>1. /\ op'[c].current = current /\ op'[c].name = name
        /\ op'[c].at = IF current = Unset THEN "activate" ELSE "deactivate"
    BY <1>1, <1>5 DEF Begin
  <2>2. Switching(c)'
    BY <1>3, <2>1 DEF Switching
  <2>3. Under(c)'
    BY <2>1 DEF Under
  <2>4. c = Startup \/ c \in Callers
    BY DEF Everyone
  <2> QED BY <1>2, <2>2, <2>3, <2>4, CallersAssumption DEF Activated, Everyone
<1> QED BY <1>4, <1>5

(* A step of the only activation under way.                                *)
LEMMA ActivationMoves ==
  ASSUME RegistryInv, StartupType, Activated, NEW c \in Everyone, ActivateStep(c),
         \A d \in Everyone \ {c} : ~Under(d)
  PROVE  Activated'
<1> USE DEF registry, startup, adapters, Switching, Under
<1>1. /\ op \in [Everyone -> [at : OpSteps, name : Names, current : Names, allow : BOOLEAN]]
      /\ simulating \in BOOLEAN /\ active \in Names
      /\ op[c].at # "idle" /\ op[c].name \in Installed /\ Switching(c)
  BY DEF RegistryInv, StartupType, ActivateStep, Deactivate, Activate, Ping, CheckHealth, Drop, Restore,
         Record, Activated
<1>2. UNCHANGED agent
  BY DEF ActivateStep, Deactivate, Activate, Ping, CheckHealth, Drop, Restore, Record
<1>3. ASSUME NEW step \in OpSteps \ {"idle"}, Goto(c, step)
      PROVE  /\ op'[c].at = step /\ op'[c].name = op[c].name /\ op'[c].current = op[c].current
             /\ \A d \in Everyone \ {c} : op'[d] = op[d]
  BY <1>1, <1>3 DEF Goto
<1>4. ASSUME Return(c) PROVE op'[c] = NoOp /\ \A d \in Everyone \ {c} : op'[d] = op[d]
  BY <1>1, <1>4 DEF Return
<1>5. ASSUME NEW step \in OpSteps \ {"idle"}, Goto(c, step), Switching(c)' PROVE Activated'
  <2>1. Under(c)' /\ \A d \in Everyone \ {c} : op'[d] = op[d] /\ ~Under(d)'
    BY <1>3, <1>5
  <2>2. Under(c)
    BY <1>1
  <2> HIDE DEF Under, Switching
  <2> QED BY <1>2, <1>5, <2>1, <2>2, CallersAssumption DEF Activated, Everyone
<1>6. ASSUME Return(c), active' = "mock" => simulating' PROVE Activated'
  <2>1. \A d \in Everyone : ~Under(d)'
    BY <1>4, <1>6, NoOpTyped
  <2> HIDE DEF Under, Switching
  <2> QED BY <1>6, <2>1 DEF Activated, Everyone
<1>7. CASE Deactivate(c)
  <2>1. /\ DeactivateAdapter(op[c].current) /\ UNCHANGED active
        /\ "activate" \in OpSteps \ {"idle"} /\ Goto(c, "activate")
    BY <1>7 DEF Deactivate, OpSteps
  <2>2. /\ op'[c].at = "activate" /\ op'[c].name = op[c].name /\ op'[c].current = op[c].current
    BY <1>3, <2>1
  <2>3. Switching(c)'
    BY <1>1, <1>7, <2>1, <2>2 DEF DeactivateAdapter, Deactivate
  <2> QED BY <1>5, <2>1, <2>3
<1>8. CASE Activate(c)
  <2> DEFINE step == IF op[c].name \in {"qrx007", "legacy006"} THEN "ping" ELSE "health"
  <2>1. /\ simulating' = (simulating \/ op[c].name = "mock") /\ UNCHANGED active
        /\ step \in OpSteps \ {"idle"} /\ Goto(c, step)
    BY <1>8 DEF Activate, ActivateAdapter, OpSteps
  <2>2. /\ op'[c].at = step /\ op'[c].name = op[c].name /\ op'[c].current = op[c].current
    BY <1>3, <2>1
  <2>3. Switching(c)'
    BY <1>1, <2>1, <2>2
  <2> QED BY <1>5, <2>1, <2>3
<1>9. CASE Ping(c)
  BY <1>1, <1>3, <1>5, <1>9 DEF Ping, OpSteps
<1>10. CASE CheckHealth(c)
  BY <1>1, <1>3, <1>5, <1>10 DEF CheckHealth, Health, OpSteps
<1>11. CASE Drop(c)
  BY <1>1, <1>3, <1>5, <1>11 DEF Drop, DeactivateAdapter, OpSteps
<1>12. CASE Restore(c)
  BY <1>1, <1>6, <1>12, InstalledAssumption DEF Restore, ActivateAdapter, Adapters
<1>13. CASE Record(c)
  BY <1>1, <1>6, <1>13 DEF Record
<1> QED BY <1>7, <1>8, <1>9, <1>10, <1>11, <1>12, <1>13 DEF ActivateStep

LEMMA ActivatedElsewhere ==
  ASSUME Activated, UNCHANGED <<op, active, simulating>>,
         agent' = agent \/ \A c \in Everyone : ~Under(c)
  PROVE  Activated'
  BY DEF Activated, Under, Switching, Everyone

LEMMA ActivatedRestarts == ASSUME AgentRestarts PROVE Activated'
<1>1. \A c \in Everyone : ~Under(c)'
  BY NoOpTyped DEF AgentRestarts, Everyone, Under
<1> QED BY <1>1, InstalledAssumption DEF AgentRestarts, Activated, Everyone, Adapters

LEMMA ActivatedNext ==
  ASSUME NEW h, Callers = {h}, RegistryInv, StartupType, Activated, [Next]_vars
  PROVE  Activated'
<1> USE DEF registry, startup, adapters, registryVars
<1>0. /\ Everyone = {h, Startup} /\ h # Startup
      /\ \A c, d \in Everyone : Under(c) /\ Under(d) => c = d
  BY CallersAssumption DEF Everyone, Activated
<1>1. CASE UNCHANGED vars
  BY <1>1, ActivatedElsewhere DEF vars
<1>2. CASE NodeChanges
  BY <1>2, ActivatedElsewhere DEF NodeChanges
<1>3. CASE AgentRestarts
  BY <1>3, ActivatedRestarts
<1>4. CASE StartupStep
  <2>0. agent # "running" => ~Under(h)
    BY DEF Activated
  <2>1. CASE detectQRXCoreVersion
    BY <2>1, ActivatedElsewhere DEF detectQRXCoreVersion, Activated, Everyone
  <2>2. CASE SelectAutomatic
    <3>1. \A c \in Everyone : ~Under(c)
      BY <1>0, <2>0, <2>2 DEF SelectAutomatic, Activated
    <3>2. CASE UNCHANGED op
      BY <2>2, <3>1, <3>2, ActivatedElsewhere DEF SelectAutomatic, Activated, Everyone
    <3>3. CASE op' = [op EXCEPT ![Startup] = [NoOp EXCEPT !.at = "activate", !.name = BestAdapterFor(detected)]]
      <4>1. active = Unset /\ UNCHANGED <<active, simulating>>
        BY <2>2 DEF SelectAutomatic, RegistryInv
      <4>2. /\ op \in [Everyone -> [at : OpSteps, name : Names, current : Names, allow : BOOLEAN]]
            /\ Startup \in Everyone
        BY DEF RegistryInv, Everyone
      <4>3. /\ op'[Startup].at = "activate" /\ op'[Startup].current = Unset
            /\ \A c \in Everyone \ {Startup} : op'[c] = op[c]
        BY <3>3, <4>2 DEF NoOp
      <4>4. Switching(Startup)' /\ Under(Startup)' /\ ~Under(h)'
        BY <1>0, <3>1, <4>1, <4>3, InstalledAssumption DEF Switching, Under, Adapters
      <4>5. agent' = "activate"
        BY <2>2, <3>3, <4>2, <4>3, <3>1 DEF SelectAutomatic, Under
      <4> QED BY <1>0, <4>4, <4>5 DEF Activated
    <3> QED BY <2>2, <3>2, <3>3 DEF SelectAutomatic
  <2>3. CASE SelectConfigured
    <3>1. \A c \in Everyone : ~Under(c)
      BY <1>0, <2>0, <2>3 DEF SelectConfigured, Activated
    <3>2. config.name \in Installed /\ config.override \in BOOLEAN
      BY <2>3, ConfigsAssumption DEF SelectConfigured, RegistryInv
    <3> QED BY <2>3, <3>1, <3>2, <1>0, ActivationBegins DEF SelectConfigured
  <2>4. CASE Selected
    <3>1. \A c \in Everyone : ~Under(c)
      BY <1>0, <2>0, <2>4, NoOpTyped DEF Selected, Under
    <3> QED BY <1>3, <2>4, <3>1, ActivatedElsewhere, ActivatedRestarts DEF Selected
  <2> QED BY <1>4, <2>1, <2>2, <2>3, <2>4 DEF StartupStep
<1>5. ASSUME NEW c \in Callers, handleActivateVersion(c) PROVE Activated'
  <2>1. PICK name \in Installed, allow \in BOOLEAN : Begin(c, name, allow)
    BY <1>5 DEF handleActivateVersion
  <2>2. c \in Everyone /\ c # Startup /\ c = h
    BY <1>0
  <2>3. \A d \in Everyone : ~Under(d)
    BY <1>0, <1>5, <2>2, NoOpTyped DEF handleActivateVersion, Activated, Under
  <2> QED BY <1>5, <2>1, <2>2, <2>3, ActivationBegins DEF handleActivateVersion
<1>6. ASSUME NEW c \in Callers \cup {Startup}, Handler(c) PROVE Activated'
  <2>1. Under(c)
    BY <1>6 DEF Handler, ActivateStep, Deactivate, Activate, Ping, CheckHealth, Drop, Restore,
                Record, Under
  <2>2. c \in Everyone /\ \A d \in Everyone \ {c} : ~Under(d)
    BY <1>0, <2>1 DEF Everyone
  <2> QED BY <1>6, <2>2, ActivationMoves DEF Handler
<1>7. CASE Poll
  BY <1>7, ActivatedElsewhere DEF Poll, TickBegins, CollectField, TickEnds
<1> QED BY <1>1, <1>2, <1>3, <1>4, <1>5, <1>6, <1>7 DEF Next

(* With one activation at a time, the adapter in use is an activated one   *)
(* whenever none is under way: one that failed has activated again what it *)
(* had deactivated, and an agent that starts activates what it selects.    *)
THEOREM ActiveAlwaysActivated ==
  ASSUME NEW h, Callers = {h} PROVE Spec => []ActiveIsActivated
<1> DEFINE Inv == RegistryInv /\ StartupType /\ Activated
<1>1. Init => Inv
  BY RegistryInitInv, StartupTypeInit, ActivatedInit DEF Init
<1>2. Inv /\ [Next]_vars => Inv'
  BY RegistryNext, StartupTypeNext, ActivatedNext
<1>3. Inv => ActiveIsActivated
  BY NoOpTyped DEF RegistryInv, Activated, ActiveIsActivated, Under, Everyone
<1> QED BY <1>1, <1>2, <1>3, PTL DEF Spec
=============================================================================
