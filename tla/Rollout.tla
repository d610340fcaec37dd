------------------------------- MODULE Rollout -------------------------------
(***************************************************************************)
(* What an operation on a component promises, without a store or a         *)
(* database: the component moves from the release it is on to one goal, in *)
(* one visible step, and at most once back; no other release ever serves;  *)
(* and the row that reports the operation tells the truth.                 *)
(***************************************************************************)
EXTENDS Naturals

CONSTANTS
  Releases, None, Idle,
  Revertible   \* whether an operation may only undo what is live

VARIABLES
  live,    \* the release that serves
  job,     \* the operation under way: the release it left, its goal, how far it is
  report   \* the last row

rolloutVars == <<live, job, report>>

Init ==
  /\ live \in Releases \cup {None}
  /\ job = Idle
  /\ report = [status |-> "none", clean |-> TRUE]

(* A row "started" may be written; whether it is depends on the operation. *)
Begin(to) ==
  /\ job = Idle
  /\ job' = [from |-> live, to |-> to, stage |-> IF to = live THEN "switched" ELSE "prepared"]
  /\ \/ UNCHANGED report
     \/ report' = [status |-> "started", clean |-> TRUE]
  /\ UNCHANGED live

(* An operation that finds its release live, and only undoes it.           *)
Revert(from) ==
  /\ job = Idle /\ Revertible
  /\ job' = [from |-> from, to |-> live, stage |-> "switched"]
  /\ UNCHANGED <<live, report>>

Switch ==
  /\ job # Idle /\ job.stage = "prepared"
  /\ live' = job.to
  /\ job' = [job EXCEPT !.stage = "switched"]
  /\ UNCHANGED report

Undo ==
  /\ job # Idle /\ job.stage = "switched"
  /\ live' = job.from
  /\ job' = [job EXCEPT !.stage = "undone"]
  /\ UNCHANGED report

(* What a row may say about the operation it ends.                         *)
Truthful(status, clean, stage) ==
  \/ status = "succeeded" /\ stage = "switched"
  \/ status = "failed" /\ stage # "undone"
  \/ status = "rolled_back" /\ (clean => stage = "undone")

(* The operation is over; its last row may be lost, with the process or not. *)
End ==
  /\ job # Idle
  /\ job' = Idle
  /\ UNCHANGED live
  /\ \/ UNCHANGED report
     \/ \E status \in {"succeeded", "failed", "rolled_back"}, clean \in BOOLEAN :
          /\ Truthful(status, clean, job.stage)
          /\ report' = [status |-> status, clean |-> clean]

Next == (\E v \in Releases : Begin(v) \/ Revert(v)) \/ Switch \/ Undo \/ End

Spec == Init /\ [][Next]_rolloutVars

-----------------------------------------------------------------------------
(* What serves is what the operation under way says, and it only ever      *)
(* changes between the two releases of that operation.                     *)
Jobs == [from : Releases \cup {None}, to : Releases \cup {None},
         stage : {"prepared", "switched", "undone"}]

LiveIsTheJobs ==
  job # Idle => live = IF job.stage = "switched" THEN job.to ELSE job.from

OnlyTheJobSwitches ==
  [][live' # live => job # Idle /\ {live, live'} = {job.from, job.to}]_rolloutVars

(* A row is true of what serves when it is written.                        *)
ReportsAreTrue ==
  [][report' # report =>
       /\ report'.status = "succeeded" => live = job.to
       /\ report'.status = "rolled_back" /\ report'.clean => live = job.from]_rolloutVars
=============================================================================
