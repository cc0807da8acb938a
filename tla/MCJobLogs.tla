------------------------------ MODULE MCJobLogs -------------------------------
(***************************************************************************)
(* JobLogs with limits of a few pieces.                                    *)
(***************************************************************************)
EXTENDS JobLogs
=============================================================================
