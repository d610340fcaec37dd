----------------------------- MODULE UpdateRules -----------------------------
(***************************************************************************)
(* The decisions an update rests on, none of which keeps any state: the    *)
(* order of versions (agent/version/semver.go), the compatibility matrix   *)
(* (agent/version/compatibility.go) and the checks of a manifest entry     *)
(* (agent/updates/manifest/verify.go).                                     *)
(*                                                                         *)
(* A version string is a number: its place in the lexical order of the     *)
(* strings.  What ParseSemVer makes of it is the function Parsed, where a  *)
(* prerelease, too, is its place in the lexical order, 0 being none.       *)
(***************************************************************************)
EXTENDS Integers, Sequences, FiniteSets

CONSTANTS
  Parsed,      \* version strings -> [major, minor, patch, pre], or Malformed
  Malformed,   \* a string that is no semantic version
  Unset,       \* an absent value: the empty string
  Matrix       \* the rows of the compatibility matrix, in the order of the file

Strings == DOMAIN Parsed

ASSUME ParsedAssumption ==
  /\ Strings \subseteq Nat
  /\ \A s \in Strings :
       Parsed[s] \in [major : Nat, minor : Nat, patch : Nat, pre : Nat] \cup {Malformed}

-----------------------------------------------------------------------------
(* Comparing versions.                                                     *)

CmpInt(a, b) == IF a < b THEN -1 ELSE IF a > b THEN 1 ELSE 0

IsValidSemVer(s) == Parsed[s] # Malformed

(* What CompareStrict looks at, in its order; no prerelease outranks any.  *)
SortKey(s) ==
  LET v == Parsed[s]
  IN  <<v.major, v.minor, v.patch, IF v.pre = 0 THEN 1 ELSE 0, v.pre>>

(* Mutant: versions are compared as the strings they are.                  *)
CompareAsText(a, b) == CmpInt(a, b)

CompareStrict(a, b) ==
  LET x == SortKey(a)
      y == SortKey(b)
      differ == {i \in DOMAIN x : x[i] # y[i]}
  IN  IF differ = {} THEN 0
      ELSE LET i == CHOOSE i \in differ : \A j \in differ : i <= j
           IN  CmpInt(x[i], y[i])

(* A string that does not parse is compared as text.                       *)
Compare(a, b) ==
  IF IsValidSemVer(a) /\ IsValidSemVer(b) THEN CompareStrict(a, b) ELSE CmpInt(a, b)

Ranges == [op : {"any"}] \cup [op : {"=", ">=", ">", "<=", "<", "^", "~"}, to : Strings]

Satisfies(s, range) ==
  range.op # "any" =>
    /\ IsValidSemVer(s) /\ IsValidSemVer(range.to)
    /\ LET order == Compare(s, range.to)
       IN  CASE range.op = "=" -> order = 0
             [] range.op = ">" -> order > 0
             [] range.op = "<" -> order < 0
             [] range.op = "<=" -> order <= 0
             [] OTHER -> order >= 0
    /\ range.op \in {"^", "~"} => Parsed[s].major = Parsed[range.to].major
    /\ range.op = "~" => Parsed[s].minor = Parsed[range.to].minor

-----------------------------------------------------------------------------
(* The compatibility matrix.                                               *)

Preference == <<"EXPERIMENTAL", "PARTIAL", "SUPPORTED">>   \* from the least to the best
UsableStates == {Preference[i] : i \in DOMAIN Preference}
States == UsableStates \cup {"UNSUPPORTED", "UNKNOWN"}

Rows == [core : Strings, adapter : STRING, range : Ranges, status : States]

(* The first row for exactly this core and adapter whose range holds.      *)
Lookup(core, adapter, s) ==
  LET Matches(row) == row.core = core /\ row.adapter = adapter /\ Satisfies(s, row.range)
      rows == SelectSeq(Matrix, Matches)
  IN  IF rows = <<>> THEN "UNKNOWN" ELSE Head(rows).status

Rank(state) == IF state \in UsableStates THEN CHOOSE i \in 1 .. 3 : Preference[i] = state ELSE 0

(* The first row of the best state recorded for this core, if it is usable. *)
BestAdapterFor(core) ==
  LET Candidate(row) == row.core = core /\ row.adapter # "UNKNOWN" /\ Rank(row.status) > 0
      rows == SelectSeq(Matrix, Candidate)
      Better(i, j) == Rank(rows[i].status) > Rank(rows[j].status)
  IN  IF rows = <<>> THEN Unset
      ELSE rows[CHOOSE i \in DOMAIN rows :
                  \A j \in DOMAIN rows : ~Better(j, i) /\ (j < i => Better(i, j))].adapter

-----------------------------------------------------------------------------
(* The checks of a manifest entry.                                         *)

CheckNotDowngrade(from, to, allowed) ==
  from # Unset /\ ~allowed => Compare(to, from) >= 0

(* What the release notes demand of the running system; a version that is  *)
(* not known, and a demand that is not made, are not held against it.      *)
CheckCompatibility(notes, running) ==
  /\ running.core # Unset => Satisfies(running.core, notes.core)
  /\ running.adapter # Unset => Satisfies(running.adapter, notes.adapter)
  /\ Unset \notin {running.suite, notes.suite} => Compare(running.suite, notes.suite) >= 0

CheckAdapterCompatibility(core, adapter, to) ==
  core # Unset => Lookup(core, adapter, to) \in UsableStates

(* Mutant: a manifest of any date is accepted.                             *)
ReplayUnchecked(date, lastSeen) == TRUE

CheckNotReplayed(date, lastSeen) == lastSeen # Unset => date >= lastSeen
=============================================================================
