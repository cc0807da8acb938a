---------------------------- MODULE MCPollSchedule ----------------------------
(***************************************************************************)
(* PollSchedule with the code's limits and a short poll interval.          *)
(***************************************************************************)
EXTENDS PollSchedule
=============================================================================
