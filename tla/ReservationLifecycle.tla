------------------------ MODULE ReservationLifecycle ------------------------
(***************************************************************************)
(* What a reservation promises its user: it follows one broadcast forward  *)
(* through its states, starts one collection job of its own, is completed  *)
(* only by the success of that job, and never leaves a terminal state.     *)
(***************************************************************************)
CONSTANTS Reservations, Jobs, NULL

VARIABLES
  phase,     \* reservation -> its state, "absent" before it is created
  job,       \* reservation -> the job it waits for, NULL if none
  succeeded  \* the jobs that have succeeded

vars == <<phase, job, succeeded>>

Forward == {<<"scheduled", "monitoring">>, <<"scheduled", "live">>,
            <<"scheduled", "waiting_for_archive">>, <<"monitoring", "live">>,
            <<"monitoring", "waiting_for_archive">>,
            <<"live", "waiting_for_archive">>}

Watching == {"scheduled", "monitoring", "live", "waiting_for_archive"}

Init ==
  /\ phase = [r \in Reservations |-> "absent"]
  /\ job = [r \in Reservations |-> NULL]
  /\ succeeded = {}

Create(r) ==
  /\ phase[r] = "absent"
  /\ phase' = [phase EXCEPT ![r] = "scheduled"]
  /\ UNCHANGED <<job, succeeded>>

Follow(r) ==
  /\ \E to \in {pair[2] : pair \in {p \in Forward : p[1] = phase[r]}} :
       phase' = [phase EXCEPT ![r] = to]
  /\ UNCHANGED <<job, succeeded>>

Collect(r, j) ==
  /\ phase[r] = "waiting_for_archive"
  /\ \A other \in Reservations : job[other] # j
  /\ phase' = [phase EXCEPT ![r] = "collecting"]
  /\ job' = [job EXCEPT ![r] = j]
  /\ UNCHANGED succeeded

Complete(r) ==
  /\ phase[r] = "collecting"
  /\ job[r] \in succeeded
  /\ phase' = [phase EXCEPT ![r] = "completed"]
  /\ UNCHANGED <<job, succeeded>>

Stop(r) ==
  /\ phase[r] \in Watching
  /\ \E to \in {"canceled", "failed"} : phase' = [phase EXCEPT ![r] = to]
  /\ UNCHANGED <<job, succeeded>>

JobSucceeds(j) ==
  /\ succeeded' = succeeded \union {j}
  /\ UNCHANGED <<phase, job>>

Next ==
  \/ \E r \in Reservations :
       \/ Create(r) \/ Follow(r) \/ Complete(r) \/ Stop(r)
       \/ \E j \in Jobs : Collect(r, j)
  \/ \E j \in Jobs : JobSucceeds(j)

Spec == Init /\ [][Next]_vars
=============================================================================
