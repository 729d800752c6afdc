------------------------ MODULE MCReservationMonitor ------------------------
(* An instance of ReservationMonitor for TLC. *)
EXTENDS ReservationMonitor

\* The least range that RevisionsAssumption allows.
MCRevisions == 0 .. Cardinality(Monitors) + 1

\* No plan; within a quarter of an hour; and far enough away for every interval
\* that nextCheck chooses.
MCStarts == {NULL, 5, 33}
=============================================================================
