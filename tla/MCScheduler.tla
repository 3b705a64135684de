----------------------------- MODULE MCScheduler -----------------------------
(***************************************************************************)
(* Three days, one hourly and three daily commands.                        *)
(***************************************************************************)
EXTENDS SchedulerProperties
=============================================================================
