------------------------------ MODULE MCMonitor ------------------------------
(***************************************************************************)
(* Instance of Monitor: thresholds one unit of time apart, a window in     *)
(* which two cooldowns fit, and channels of two events.                    *)
(***************************************************************************)
EXTENDS Monitor

AnyCall == {"restart", "open", "write"}
=============================================================================
