---------------------------- MODULE MCWorkerRpc ----------------------------
(* WorkerRpc with a few calls, and the properties TLC checks.              *)
EXTENDS WorkerRpc

CONSTANTS wait, stop
=============================================================================
