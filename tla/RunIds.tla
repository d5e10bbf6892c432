------------------------------- MODULE RunIds -------------------------------
(* The identifiers of runs, which the modules about single runs share.       *)
CONSTANT Runs    \* run_id of every run that is ever submitted
=============================================================================
