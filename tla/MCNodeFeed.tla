------------------------------ MODULE MCNodeFeed -----------------------------
(***************************************************************************)
(* Instance of NodeFeed: three of the adapters and the rows of the shipped *)
(* matrix (agent/data/compatibility-matrix.json), two fields -- the status *)
(* and an optional one -- and a node of version 0.0.7 that answers, one    *)
(* that does not, and one of 0.0.6 that lacks the optional command and     *)
(* whose status cannot be parsed.  A version string is its place in the    *)
(* lexical order: 0.0.6, 0.0.7, 0.0.8, 0.9.5, 1.0.0, 1.1.0 and 1.2.0.      *)
(***************************************************************************)
EXTENDS NodeFeed, TLC

Semver(a, b, c) == [major |-> a, minor |-> b, patch |-> c, pre |-> 0]
MCParsed == 6 :> Semver(0, 0, 6) @@ 7 :> Semver(0, 0, 7)
            @@ 8 :> Semver(0, 0, 8) @@ 9 :> Semver(0, 9, 5) @@ 10 :> Semver(1, 0, 0)
            @@ 11 :> Semver(1, 1, 0) @@ 12 :> Semver(1, 2, 0)

Row(core, adapter, range, status) ==
  [core |-> core, adapter |-> adapter, range |-> range, status |-> status]
Caret(v) == [op |-> "^", to |-> v]
AnyVersion == [op |-> "any"]
MCMatrix ==
  << Row(6, "legacy006", Caret(12), "PARTIAL"), Row(7, "qrx007", Caret(10), "SUPPORTED"),
     Row(7, "legacy006", Caret(12), "EXPERIMENTAL"), Row(7, "mock", AnyVersion, "SUPPORTED"),
     Row(8, "UNKNOWN", AnyVersion, "UNSUPPORTED") >>
MCVersionOf == "qrx007" :> 11 @@ "legacy006" :> 9 @@ "mock" :> 10

MCConfigs == {[name |-> Unset, override |-> FALSE], [name |-> "legacy006", override |-> TRUE]}

MCFields == <<"node", "velocity">>
Commands == {"uptime", "build", "node", "velocity"}
All == [c \in Commands |-> "good"]
Node(version, reply) == [version |-> version, reply |-> reply]
MCNodes ==
  {Node(7, All), Node(7, [c \in Commands |-> "none"]),
   Node(6, [All EXCEPT !["velocity"] = "none", !["node"] = "garbled"])}
FlakyNodes == {Node(7, All), Node(7, [All EXCEPT !["velocity"] = "none"])}
=============================================================================
