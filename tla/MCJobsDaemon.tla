---------------------------- MODULE MCJobsDaemon ----------------------------
(***************************************************************************)
(* JobsDaemon for model checking: two versions of a job file, one of them  *)
(* disabled, and enough starts for a worker to outlive the daemon that     *)
(* spawned it and meet the next one.                                       *)
(***************************************************************************)
EXTENDS JobsDaemon

CONSTANTS a, on, off
=============================================================================
