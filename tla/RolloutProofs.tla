---------------------------- MODULE RolloutProofs ----------------------------
(***************************************************************************)
(* What follows from the promise of Rollout alone, and so holds of every   *)
(* manager that keeps it.                                                  *)
(***************************************************************************)
EXTENDS Rollout, TLAPS

RolloutInv ==
  /\ live \in Releases \cup {None}
  /\ job \in Jobs \cup {Idle}
  /\ LiveIsTheJobs

LEMMA RolloutInit == Init => RolloutInv
  BY DEF Init, RolloutInv, LiveIsTheJobs

LEMMA RolloutNext == RolloutInv /\ [Next]_rolloutVars => RolloutInv'
<1> SUFFICES ASSUME RolloutInv, [Next]_rolloutVars PROVE RolloutInv'
  OBVIOUS
<1> USE DEF RolloutInv, LiveIsTheJobs, Jobs
<1>1. ASSUME NEW v \in Releases, Begin(v) \/ Revert(v) PROVE RolloutInv'
  BY <1>1 DEF Begin, Revert
<1>2. CASE Switch \/ Undo
  BY <1>2 DEF Switch, Undo
<1>3. CASE End
  BY <1>3 DEF End
<1>4. CASE UNCHANGED rolloutVars
  BY <1>4 DEF rolloutVars
<1> QED BY <1>1, <1>2, <1>3, <1>4 DEF Next

LEMMA RolloutKeeps == Spec => []RolloutInv
  BY RolloutInit, RolloutNext, PTL DEF Spec

(* Between an operation's steps exactly the release its stage says serves. *)
THEOREM JobTellsWhatServes == Spec => []LiveIsTheJobs
  BY RolloutKeeps, PTL DEF RolloutInv

(* Nothing but an operation changes what serves, and only between the      *)
(* release it left and its goal.                                           *)
THEOREM OnlyJobsSwitch == Spec => OnlyTheJobSwitches
<1>1. ASSUME RolloutInv, [Next]_rolloutVars, live' # live
      PROVE  job # Idle /\ {live, live'} = {job.from, job.to}
  BY <1>1 DEF RolloutInv, LiveIsTheJobs, Jobs, Next, rolloutVars, Begin, Revert, Switch, Undo, End
<1> QED BY <1>1, RolloutKeeps, PTL DEF Spec, OnlyTheJobSwitches

(* "succeeded" is written while the goal serves, and "rolled_back" without *)
(* an error while the release that was left serves.                        *)
THEOREM RowsAreTrue == Spec => ReportsAreTrue
<1>1. ASSUME RolloutInv, [Next]_rolloutVars, report' # report
      PROVE  /\ report'.status = "succeeded" => live = job.to
             /\ report'.status = "rolled_back" /\ report'.clean => live = job.from
  <2>1. CASE End
    BY <1>1, <2>1 DEF RolloutInv, LiveIsTheJobs, End, Truthful
  <2>2. ASSUME NEW v \in Releases, Begin(v) PROVE report'.status = "started"
    BY <1>1, <2>2 DEF Begin
  <2> QED BY <1>1, <2>1, <2>2 DEF Next, rolloutVars, Revert, Switch, Undo
<1> QED BY <1>1, RolloutKeeps, PTL DEF Spec, ReportsAreTrue
=============================================================================
