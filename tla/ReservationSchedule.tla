------------------------- MODULE ReservationSchedule -------------------------
(***************************************************************************)
(* When reservations are checked: next_check_at, the leases of claims and    *)
(* the backoff after failures (apps/api/internal/reservations/repository.go, *)
(* monitor.go), against the clock and against broadcasts that start early,   *)
(* late or without a plan.                                                  *)
(*                                                                         *)
(* The unit of time is a minute.  Times are kept relative to now: positive   *)
(* in the future, and bounded below, because it does not matter how long ago *)
(* a start was, or how much longer one row is due than another that is       *)
(* MaxOverdue minutes late.  A check is one step: it lasts seconds, and what *)
(* can happen in the middle of it is the subject of Reservation;             *)
(* ReservationMonitor puts the two together.                                *)
(***************************************************************************)
EXTENDS Integers

CONSTANTS
  Reservations,
  Refused,        \* their broadcasts ended before they began, says YouTube,
                  \* and stream.streams refuses the row (see StreamCatalog)
  Starts,         \* minutes to the planned starts of broadcasts
  MaxFaults,      \* failed calls of YouTube and lost checks
  MaxOverdue,
  NULL

VARIABLES
  row,        \* reservation.reservations
  broadcast,  \* what YouTube knows
  lag,        \* for how long a row has been behind its broadcast
  faults      \* how many faults there were so far

vars == <<row, broadcast, lag, faults>>

Waiting == {"scheduled", "monitoring", "live", "waiting_for_archive"}

Row == [state : Waiting \union {"collecting", "completed", "failed"},
        next : -MaxOverdue .. 30,    \* next_check_at - now
        lease : 0 .. 2,              \* lease_expires_at - now
        attempts : 0 .. 5]           \* monitor_attempt, "five or more" at most

LastAttempt == 5                         \* MaxMonitorAttempts
LeaseDuration == 2

Phases == <<"announced", "live", "over", "archived">>

Broadcast == [phase : 1 .. 4,
              start : Nat \union {NULL}]   \* from now, or from when it began

Before(b, name) == b.phase < CHOOSE i \in 1 .. 4 : Phases[i] = name

\* The row does not show yet how far its broadcast is.
Behind(r) ==
  \/ ~Before(broadcast[r], "live") /\ row[r].state \in {"scheduled", "monitoring"}
  \/ ~Before(broadcast[r], "over") /\ row[r].state = "live"
  \/ ~Before(broadcast[r], "archived") /\ row[r].state = "waiting_for_archive"

\* No property tells longer lags apart.
MaxLag == 31 + 8 * MaxFaults

Init ==
  /\ row = [r \in Reservations |->
              [state |-> "scheduled", next |-> 0, lease |-> 0, attempts |-> 0]]
  /\ broadcast \in [Reservations -> [phase : {1, 3}, start : Starts]]
  /\ \A r \in Reservations :
       IF r \in Refused THEN broadcast[r] = [phase |-> 3, start |-> NULL]
       ELSE broadcast[r].phase = 1
  /\ lag = [r \in Reservations |-> 0]
  /\ faults = 0

-----------------------------------------------------------------------------
(* The schedule *)

\* boundedBackoff: doubled with every attempt.  Five stands for more, too: then
\* the wait of two minutes is at its maximum, and no other is asked for.
Backoff(attempt, initial, maximum) ==
  LET delay == initial * <<1, 2, 4, 8, 16>>[attempt]
  IN  IF delay < maximum THEN delay ELSE maximum

\* Faulty variant: a broadcast is left alone until its planned start is near.
NextCheckUncapped(state, start, attempt) ==
  CASE state = "scheduled" -> IF start # NULL /\ start <= 15 THEN 1
                              ELSE IF start # NULL THEN start - 15 ELSE 15
    [] state = "live" -> 2
    [] state = "waiting_for_archive" -> Backoff(attempt, 2, 30)
    [] OTHER -> 1

\* nextCheck, in minutes from now.
NextCheck(state, start, attempt) ==
  CASE state = "scheduled" -> IF start # NULL /\ start <= 15 THEN 1
                              ELSE IF start # NULL /\ start - 15 < 15
                                   THEN start - 15
                              ELSE 15
    [] state = "live" -> 2
    [] state = "waiting_for_archive" -> Backoff(attempt, 2, 30)
    [] OTHER -> 1

\* stateFromMetadata of what there is to see.
Target(state, b) ==
  CASE Before(b, "live") /\ b.start = NULL /\ state = "scheduled" -> "monitoring"
    [] Phases[b.phase] = "live" /\ state \in {"scheduled", "monitoring"} -> "live"
    [] ~Before(b, "over") /\ state \in {"scheduled", "monitoring", "live"}
         -> "waiting_for_archive"
    [] Phases[b.phase] = "archived" /\ state = "waiting_for_archive" -> "collecting"
    [] OTHER -> state

-----------------------------------------------------------------------------
(* Checks *)

Attempt(r) == IF row[r].attempts < LastAttempt THEN row[r].attempts + 1
              ELSE LastAttempt

\* Faulty variant: claims are not respected.
DueIgnoringLease ==
  {r \in Reservations : row[r].state \in Waiting \union {"collecting"}
                        /\ row[r].next <= 0}

\* ClaimDue: the rows to choose from,
Due == {r \in Reservations : /\ row[r].state \in Waiting \union {"collecting"}
                             /\ row[r].next <= 0
                             /\ row[r].lease = 0}

\* ORDER BY next_check_at.
First(r) == r \in Due /\ \A q \in Due : row[r].next <= row[q].next

\* ApplyMetadata.
Applies(r) ==
  LET target == Target(row[r].state, broadcast[r])
  IN  /\ First(r) /\ row[r].state \in Waiting
      /\ r \in Refused => Before(broadcast[r], "over")
      /\ row' = [row EXCEPT ![r] =
           [state |-> target,
            next |-> NextCheck(target, broadcast[r].start, Attempt(r)),
            lease |-> 0, attempts |-> Attempt(r)]]
      /\ lag' = IF target = row[r].state THEN lag ELSE [lag EXCEPT ![r] = 0]
      /\ UNCHANGED <<broadcast, faults>>

\* SyncCollection, when the job is at work or has succeeded.
SyncCollection(r) ==
  /\ First(r) /\ row[r].state = "collecting"
  /\ \E target \in {"collecting", "completed"} :
       row' = [row EXCEPT ![r].state = target, ![r].next = 1, ![r].lease = 0]
  /\ UNCHANGED <<broadcast, lag, faults>>

\* RecordFailure of an error that may pass.
RecordFailure(r) ==
  LET final == Attempt(r) >= LastAttempt
  IN  /\ First(r) /\ row[r].state \in Waiting
      /\ faults < MaxFaults
      /\ faults' = faults + 1
      /\ row' = [row EXCEPT ![r] =
           [state |-> IF final THEN "failed" ELSE @.state,
            next |-> IF final THEN 0 ELSE Backoff(Attempt(r), 1, 30),
            lease |-> 0, attempts |-> Attempt(r)]]
      /\ UNCHANGED <<broadcast, lag>>

\* The check ends without an update: the claim is all that is left of it.
Claimed(r) == row' = [row EXCEPT ![r].lease = LeaseDuration]

\* The statement fails whenever it is tried.
UpsertIsRefused(r) ==
  /\ First(r) /\ r \in Refused
  /\ ~Before(broadcast[r], "over")
  /\ Claimed(r)
  /\ UNCHANGED <<broadcast, lag, faults>>

\* The process dies, or the database fails.
CheckIsLost(r) ==
  /\ First(r)
  /\ faults < MaxFaults
  /\ faults' = faults + 1
  /\ Claimed(r)
  /\ UNCHANGED <<broadcast, lag>>

RunOnce(r) ==
  \/ Applies(r)
  \/ SyncCollection(r)
  \/ RecordFailure(r)
  \/ UpsertIsRefused(r)
  \/ CheckIsLost(r)

-----------------------------------------------------------------------------
(* The world *)

BroadcastGoesOn(r) ==
  /\ r \notin Refused
  /\ broadcast[r].phase < 4
  /\ broadcast' = [broadcast EXCEPT ![r].phase = @ + 1]
  /\ UNCHANGED <<row, lag, faults>>

\* A minute passes.  runReservationMonitor asks for due rows every second, so
\* that no row that may be claimed stays due for a minute.
Tick ==
  /\ Due = {}
  /\ row' = [r \in Reservations |->
       [row[r] EXCEPT !.next = IF @ > -MaxOverdue THEN @ - 1 ELSE @,
                      !.lease = IF @ > 0 THEN @ - 1 ELSE @]]
  /\ broadcast' = [r \in Reservations |->
       [broadcast[r] EXCEPT
          !.start = IF @ # NULL /\ @ > 0 /\ Before(broadcast[r], "live")
                    THEN @ - 1 ELSE @]]
  /\ lag' = [r \in Reservations |->
       IF Behind(r) /\ r \notin Refused /\ lag[r] < MaxLag THEN lag[r] + 1
       ELSE lag[r]]
  /\ UNCHANGED faults

Next ==
  \/ \E r \in Reservations : RunOnce(r) \/ BroadcastGoesOn(r)
  \/ Tick

Spec == Init /\ [][Next]_vars

-----------------------------------------------------------------------------
(* Properties *)

TypeOK ==
  /\ row \in [Reservations -> Row]
  /\ broadcast \in [Reservations -> Broadcast]
  /\ lag \in [Reservations -> 0 .. MaxLag]
  /\ faults \in 0 .. MaxFaults

\* How long a row may be behind: one interval of ADR 0004 section 5, which is a
\* minute for a broadcast that begins less than 15 minutes before its planned
\* start, or later.
Patience(r) ==
  CASE row[r].state = "scheduled" ->
         IF broadcast[r].start # NULL /\ broadcast[r].start < 15 THEN 1 ELSE 15
    [] row[r].state = "monitoring" -> 1
    [] row[r].state = "live" -> 2
    [] OTHER -> 30

\* Start, end and archive of a broadcast are noticed in time, whenever they
\* come and whatever other reservations do; each failed call of YouTube and
\* each lost check costs at most eight minutes more.
NoticedInTime ==
  \A r \in Reservations \ Refused :
    Behind(r) => lag[r] <= Patience(r) + 8 * faults

\* Rows stay within the intervals of the schedule, and changes are noticed in
\* time.
ScheduleInv == TypeOK /\ NoticedInTime

\* A reservation is collected when its archive is there (or given up, after
\* failures of YouTube), although a reservation that is due for longer can
\* never be updated.
ArchiveIsCollected ==
  \A r \in Reservations \ Refused :
    Phases[broadcast[r].phase] = "archived"
      ~> row[r].state \in {"collecting", "completed", "failed"}
=============================================================================
