-------------------------- MODULE ReservationMonitor --------------------------
(***************************************************************************)
(* The monitor of reservations in both its aspects: what its checks do        *)
(* (Reservation), and when they come (ReservationSchedule).                  *)
(*                                                                         *)
(* The one has no times and the other no steps inside a check.  They are two  *)
(* abstractions of the same rows, with variables of their own: a behaviour    *)
(* follows one of them.  What the schedule promises is why the fairness of    *)
(* the checks is justified.                                                 *)
(***************************************************************************)
EXTENDS Reservation, Integers

CONSTANTS Refused, Starts, MaxFaults, MaxOverdue

ASSUME RefusedAssumption == Refused \subseteq Reservations
ASSUME StartsAssumption == Starts \ {NULL} \subseteq Nat
ASSUME BoundsAssumption == MaxFaults \in Nat /\ MaxOverdue \in Nat

VARIABLES
  followed,   \* "checks" or "schedule"
  schedule,   \* the times of reservation.reservations
  broadcast, lag, faults

checkVars == vars
scheduleVars == <<schedule, broadcast, lag, faults>>
monitorVars == <<followed, checkVars, scheduleVars>>

Schedule == INSTANCE ReservationSchedule WITH row <- schedule

MonitorInit ==
  /\ Init
  /\ Schedule!Init
  /\ \/ followed = "schedule"
     \/ /\ followed = "checks"
        /\ \A r \in Reservations \ Refused :
             broadcast[r].start = CHOOSE start \in Starts : TRUE

\* No reservation is left to check.
NothingToCheck == \A r \in Reservations : rsv[r].state \in Terminal

MonitorNext ==
  /\ \/ followed = "checks" /\ Next /\ UNCHANGED scheduleVars
     \/ followed = "checks" /\ NothingToCheck /\ UNCHANGED <<checkVars, scheduleVars>>
     \/ followed = "schedule" /\ Schedule!Next /\ UNCHANGED checkVars
  /\ UNCHANGED followed

\* Time passes, and a monitor loop is alive.  The fairness of the checks, which
\* needs both, is in Reservation.
ScheduleFairness ==
  /\ WF_scheduleVars(followed = "schedule" /\ Schedule!Tick)
  /\ WF_scheduleVars(followed = "schedule" /\ \E r \in Reservations : Schedule!RunOnce(r))

MonitorSpec == MonitorInit /\ [][MonitorNext]_monitorVars /\ ScheduleFairness

-----------------------------------------------------------------------------

(***************************************************************************)
(* Start, end and archive of a broadcast are noticed within one interval of   *)
(* the schedule, whatever other reservations do; each fault costs eight       *)
(* minutes at most (nextCheck, boundedBackoff, the lease of ClaimDue).       *)
(***************************************************************************)
ScheduleInv == Schedule!ScheduleInv

(***************************************************************************)
(* A reservation is collected when its archive is there, although another     *)
(* one that is due for longer can never be updated.                         *)
(***************************************************************************)
ArchiveIsCollected == Schedule!ArchiveIsCollected
=============================================================================
