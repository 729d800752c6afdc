----------------------------- MODULE MCAttemptHost -----------------------------
(* Instances of AttemptHost for TLC. *)
EXTENDS AttemptHost
=============================================================================
