---------------------------- MODULE MCConnection ----------------------------
(* TLC instance of Connection: the runs topic is unbounded, hypr_events has *)
(* room for one event.                                                      *)
EXTENDS Connection, TLC

MCQueueCap == "runs" :> 0 @@ "hypr_events" :> 1
=============================================================================
