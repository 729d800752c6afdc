--------------------------- MODULE MCWorkerProcess ---------------------------
(* Instances of WorkerProcess for TLC. *)
EXTENDS WorkerProcess
=============================================================================
