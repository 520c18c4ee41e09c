--------------------------- MODULE MCWorkerShell ---------------------------
(* WorkerShell with a few commands and small channels.                     *)
EXTENDS WorkerShell
=============================================================================
