----------------------------- MODULE MCJobsView -----------------------------
(* JobsView on small sets of jobs, for TLC. *)
EXTENDS JobsView, TLC
CONSTANTS j1, j2

TwoJobs   == {j1, j2}
OneCaller == {j1}
=============================================================================
