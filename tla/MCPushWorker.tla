---------------------------- MODULE MCPushWorker ----------------------------
(* Two worker containers and one push task: enough for a redelivery to   *)
(* run beside the first delivery.                                          *)
EXTENDS PushWorker, TLC

CONSTANTS i1, i2, t1, k1

MCTaskKey == t1 :> k1
=============================================================================
