--------------------------- MODULE MCManagedInstall ---------------------------
(***************************************************************************)
(* Instances of ManagedInstall.  The version strings, in lexical order,    *)
(* are 1.10.0, 1.9.0, 2.0.0 and 2.0.0-rc.1; 0 stands for "latest", which   *)
(* is no version.  1.9.0 is bundled.                                       *)
(***************************************************************************)
EXTENDS ManagedInstall

Release(major, minor, patch, pre) ==
  [major |-> major, minor |-> minor, patch |-> patch, pre |-> pre]

MCParsed ==
  [s \in 0 .. 4 |->
     CASE s = 0 -> Malformed
       [] s = 1 -> Release(1, 10, 0, 0)
       [] s = 2 -> Release(1, 9, 0, 0)
       [] s = 3 -> Release(2, 0, 0, 0)
       [] s = 4 -> Release(2, 0, 0, 1)]

NoNotes == [core |-> [op |-> "any"], adapter |-> [op |-> "any"], suite |-> Unset]
Compatible == [NoNotes EXCEPT !.core = [op |-> "~", to |-> 2], !.suite = 1]
Demanding  == [NoNotes EXCEPT !.core = [op |-> "^", to |-> 3]]

MCRunning == [core |-> 2, adapter |-> Unset, suite |-> 3]

Manifest(date, v, notes) == [date |-> date, version |-> v, notes |-> notes]

MCPublished ==
  {Manifest(1, 2, NoNotes), Manifest(2, 1, Compatible), Manifest(3, 4, NoNotes),
   Manifest(3, 1, Demanding)}

InstallOps == {"stage", "revert", "prune"}

StoreFaults == {"promote.act", "promote.unstage", "revert.swap"}
Calls == {"started", "download", "stop", "start", "seen", "record"}
=============================================================================
