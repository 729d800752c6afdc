---------------------------- MODULE MCApiProcesses ----------------------------
(* Instances of ApiProcesses for TLC. *)
EXTENDS ApiProcesses, TLC

CONSTANTS old, new1, new2

\* A rolling update: one process of the release before, two of the new one.
MCRelease == old :> 2 @@ new1 :> 3 @@ new2 :> 3
=============================================================================
