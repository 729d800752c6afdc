---------------------------- MODULE MCReservation ---------------------------
(* Instances of Reservation for TLC. *)
EXTENDS Reservation, TLC

\* The least range that RevisionsAssumption allows.
MCRevisions == 0 .. Cardinality(Monitors) + 1

Symmetry ==
  Permutations(Reservations) \union Permutations(Jobs)
    \union Permutations(Monitors)
=============================================================================
