---------------------------- MODULE Reservation -----------------------------
(***************************************************************************)
(* Reservations of broadcasts that are not over yet                        *)
(* (apps/api/internal/reservations): the API creates and cancels them, and *)
(* the monitor of every API process claims due ones, asks YouTube, and     *)
(* writes what it learnt under the lease of its claim.  When the archive   *)
(* is ready the monitor links or creates the collection job in the         *)
(* transaction that moves the reservation to "collecting".                 *)
(*                                                                         *)
(* All monitors carry one worker_id, as two processes on one host or with  *)
(* one YSA_RESERVATION_MONITOR_WORKER_ID do: the revision alone tells      *)
(* their claims apart.  next_check_at is abstracted: a reservation may be  *)
(* due at any time.  Of a revision only its equality with the revision of  *)
(* a claim is ever asked: "revision + 1", which no claim can hold yet, is  *)
(* here any value that no claim of the row holds.  "lease_expires_at > $n" *)
(* of the fenced updates is left out because it cannot fail for the        *)
(* holder: the monitor compares with checkedAt, which it read before it    *)
(* claimed.                                                                *)
(*                                                                         *)
(* Collection jobs appear with what this component reads of them; JobQueue *)
(* has their leases and their worker.                                      *)
(***************************************************************************)
EXTENDS Naturals, Sequences, FiniteSets

CONSTANTS
  Reservations, Videos, Jobs,
  Monitors,             \* monitor loops, one per API process
  Clients,              \* users who ask for collections themselves
  Outcomes,             \* how a collection job may end
  MaxMonitorAttempts,
  Revisions,            \* one more than the values in use at a time
  NULL

ASSUME AttemptsAssumption == MaxMonitorAttempts \in Nat \ {0}
ASSUME RevisionsAssumption ==
  /\ IsFiniteSet(Monitors)
  /\ IsFiniteSet(Revisions)
  /\ 0 \in Revisions
  /\ Cardinality(Revisions) > Cardinality(Monitors) + 1
ASSUME OutcomesAssumption ==
  Outcomes \subseteq {"succeeded", "failed", "not_ready"}
ASSUME NullAssumption == NULL \notin Reservations \union Videos \union Jobs

VARIABLES
  rsv,     \* reservation.reservations
  trail,   \* reservation.reservation_transitions, per reservation
  jobs,    \* collection.collection_jobs
  mon,     \* the monitors' control state
  client   \* the stream a user's open transaction has locked, NULL if none

vars == <<rsv, trail, jobs, mon, client>>

-----------------------------------------------------------------------------
(* Rows *)

CanCancel == {"scheduled", "monitoring", "live", "waiting_for_archive"}
Monitored == CanCancel \union {"collecting"}
Terminal == {"completed", "failed", "canceled"}

State == {"absent"} \union Monitored \union Terminal

Row == [state : State,
        video : Videos \union {NULL},
        stream : BOOLEAN,                        \* stream_id IS NOT NULL
        job : Jobs \union {NULL},
        attempts : 0 .. MaxMonitorAttempts,      \* monitor_attempt, saturated
        error : {"none", "temporary", "not_found"},
        lease : {"none", "live", "expired"},
        revision : Revisions]

AbsentRow == [state |-> "absent", video |-> NULL, stream |-> FALSE,
              job |-> NULL, attempts |-> 0, error |-> "none",
              lease |-> "none", revision |-> 0]

\* Only "MaxMonitorAttempts or more" is ever asked of the count.
Counted(n) == IF n < MaxMonitorAttempts THEN n + 1 ELSE n

Job == [video : Videos \union {NULL},
        reservation : Reservations \union {NULL},
        status : {"absent", "active", "succeeded", "failed", "not_ready"}]

AbsentJob == [video |-> NULL, reservation |-> NULL, status |-> "absent"]

ActiveJobs(v) ==
  {j \in Jobs : jobs[j].video = v /\ jobs[j].status = "active"}

\* Faulty variant: the index covers only the states a user can cancel.
CancellableReservations(v) ==
  {r \in Reservations : rsv[r].video = v /\ rsv[r].state \in CanCancel}

\* Rows of reservations_active_video_uidx.
ActiveReservations(v) ==
  {r \in Reservations : rsv[r].video = v /\ rsv[r].state \notin Terminal}

-----------------------------------------------------------------------------
(* Monitors and locks *)

Observations == {"scheduled", "live", "ended", "archived", "unknown"}
Over == {"ended", "archived"}

\* ErrVideoUnavailable, and every other error of the provider.
FetchErrors == {"not_found", "temporary"}

\* Faulty variant: an archive found at the first look is collected at once.
TargetSkippingWait(state, seen) ==
  CASE seen = "archived" -> "collecting"
    [] seen = "live" /\ state \in {"scheduled", "monitoring"} -> "live"
    [] seen = "unknown" /\ state = "scheduled" -> "monitoring"
    [] seen = "ended" -> "waiting_for_archive"
    [] OTHER -> state

\* stateFromMetadata; "archived" is an ended broadcast with a duration.
Target(state, seen) ==
  CASE seen = "live" /\ state \in {"scheduled", "monitoring"} -> "live"
    [] seen = "unknown" /\ state = "scheduled" -> "monitoring"
    [] seen = "archived" /\ state = "waiting_for_archive" -> "collecting"
    [] seen \in Over /\ state \in {"scheduled", "monitoring", "live"}
         -> "waiting_for_archive"
    [] OTHER -> state

Idle == [pc |-> "idle", rsv |-> NULL, seen |-> AbsentRow,
         target |-> "absent", job |-> NULL]

Monitor == [pc : {"idle", "checking", "linking", "updating"},
            rsv : Reservations \union {NULL},
            seen : Row,               \* the row ClaimDue returned
            target : State,
            job : Jobs \union {NULL}]

\* Faulty variant: the worker_id alone, without the revision.
HoldsByWorker(m) == rsv[mon[m].rsv].lease # "none"

\* worker_id, revision: the row is as this monitor's claim left it.
Holds(m) ==
  LET row == rsv[mon[m].rsv]
  IN  row.lease # "none" /\ row.revision = mon[m].seen.revision

\* revision + 1: a value that is neither the row's nor that of a claim of it.
NextRevision(r) ==
  CHOOSE n \in Revisions :
    /\ n # rsv[r].revision
    /\ \A m \in Monitors : mon[m].rsv = r => n # mon[m].seen.revision

\* The end of every fenced update: the lease is cleared.
Released(r, row) ==
  [row EXCEPT !.lease = "none", !.revision = NextRevision(r)]

\* Faulty variant: users' transactions read the stream without a lock.
StreamLockedByMonitor(v) ==
  \E m \in Monitors :
    mon[m].pc \in {"linking", "updating"} /\ mon[m].seen.video = v

\* A transaction keeps the row lock of the stream from lockStream or
\* upsertObservedStream until it ends.
StreamLocked(v) ==
  \/ \E m \in Monitors :
       mon[m].pc \in {"linking", "updating"} /\ mon[m].seen.video = v
  \/ \E c \in Clients : client[c] = v

\* Between linking a job and the end of its transaction the monitor holds
\* the job row, and by the foreign key a share of the reservation row.
JobLocked(j) == \E m \in Monitors : mon[m].job = j
RowShared(r) == \E m \in Monitors : mon[m].rsv = r /\ mon[m].job # NULL

UnusedJobs == {j \in Jobs : jobs[j].status = "absent" /\ ~JobLocked(j)}

\* ensureAutomaticCollectionJob: the job of this reservation, else the
\* active job of the stream if no reservation has it (an error otherwise: no
\* member), else a new one.
EnsuredJobs(r, v) ==
  LET own == {j \in Jobs : jobs[j].reservation = r}
  IN  IF own # {} THEN own
      ELSE IF ActiveJobs(v) # {}
           THEN {j \in ActiveJobs(v) : jobs[j].reservation = NULL}
           ELSE UnusedJobs

-----------------------------------------------------------------------------
Init ==
  /\ rsv = [r \in Reservations |-> AbsentRow]
  /\ trail = [r \in Reservations |-> <<>>]
  /\ jobs = [j \in Jobs |-> AbsentJob]
  /\ mon = [m \in Monitors |-> Idle]
  /\ client = [c \in Clients |-> NULL]

Recorded(r, from, to) ==
  trail' = IF from = to THEN trail
           ELSE [trail EXCEPT ![r] = Append(@, <<from, to>>)]

-----------------------------------------------------------------------------
(* The API *)

Create(r, v) ==
  /\ rsv[r].state = "absent"
  /\ ActiveReservations(v) = {}
  /\ rsv' = [rsv EXCEPT ![r] = [AbsentRow EXCEPT !.state = "scheduled",
                                                 !.video = v]]
  /\ Recorded(r, "absent", "scheduled")
  /\ UNCHANGED <<jobs, mon, client>>

\* Faulty variant: the lease of a working monitor is left in place.
CancelKeepingLease(r) ==
  /\ rsv[r].state \in CanCancel
  /\ ~RowShared(r)
  /\ rsv' = [rsv EXCEPT ![r].state = "canceled",
                             ![r].revision = NextRevision(r)]
  /\ Recorded(r, rsv[r].state, "canceled")
  /\ UNCHANGED <<jobs, mon, client>>

Cancel(r) ==
  /\ rsv[r].state \in CanCancel
  /\ ~RowShared(r)
  /\ rsv' = [rsv EXCEPT ![r] = [Released(r, @) EXCEPT !.state = "canceled"]]
  /\ Recorded(r, rsv[r].state, "canceled")
  /\ UNCHANGED <<jobs, mon, client>>

\* Start and Retry of collections: lock the stream, look for an active job
\* (and return it, without a change, if there is one), insert.
RequestLock(c, v) ==
  /\ client[c] = NULL
  /\ ~StreamLocked(v)
  /\ ActiveJobs(v) = {}
  /\ client' = [client EXCEPT ![c] = v]
  /\ UNCHANGED <<rsv, trail, jobs, mon>>

RequestInsert(c) ==
  /\ client[c] # NULL
  /\ \E j \in UnusedJobs :
       jobs' = [jobs EXCEPT ![j] = [video |-> client[c], reservation |-> NULL,
                                    status |-> "active"]]
  /\ client' = [client EXCEPT ![c] = NULL]
  /\ UNCHANGED <<rsv, trail, mon>>

RequestAborts(c) ==
  /\ client[c] # NULL
  /\ client' = [client EXCEPT ![c] = NULL]
  /\ UNCHANGED <<rsv, trail, jobs, mon>>

\* The worker's mark_succeeded and mark_failed; "not_ready" is a failure with
\* SOURCE_NOT_READY.
JobEnds(j, outcome) ==
  /\ jobs[j].status = "active"
  /\ ~JobLocked(j)
  /\ jobs' = [jobs EXCEPT ![j].status = outcome]
  /\ UNCHANGED <<rsv, trail, mon, client>>

-----------------------------------------------------------------------------
(* The monitor: RunOnce *)

LeaseExpires(r) ==
  /\ rsv[r].lease = "live"
  /\ rsv' = [rsv EXCEPT ![r].lease = "expired"]
  /\ UNCHANGED <<trail, jobs, mon, client>>

ClaimDue(m, r) ==
  /\ mon[m].pc = "idle"
  /\ rsv[r].state \in Monitored
  /\ rsv[r].lease # "live"
  /\ ~RowShared(r)
  /\ LET row == [rsv[r] EXCEPT !.lease = "live",
                                !.revision = NextRevision(r)]
     IN  /\ rsv' = [rsv EXCEPT ![r] = row]
         /\ mon' = [mon EXCEPT ![m] = [Idle EXCEPT !.pc = "checking",
                                                   !.rsv = r, !.seen = row]]
  /\ UNCHANGED <<trail, jobs, client>>

Checking(m) == mon[m].pc = "checking"
Ready(m) == Checking(m) /\ mon[m].seen.state # "collecting"

\* A fenced update of the claimed row, its transition row, and the commit.
Persist(m, row) ==
  LET r == mon[m].rsv
  IN  /\ Holds(m)
      /\ rsv' = [rsv EXCEPT ![r] = Released(r, row)]
      /\ Recorded(r, mon[m].seen.state, row.state)
      /\ mon' = [mon EXCEPT ![m] = Idle]

Checked(m, target) ==
  [rsv[mon[m].rsv] EXCEPT !.state = target, !.error = "none",
                          !.attempts = Counted(@)]

\* ApplyMetadata of a broadcast that is not over: one statement.
ApplyMetadata(m, seen) ==
  /\ Ready(m)
  /\ Persist(m, [Checked(m, Target(mon[m].seen.state, seen))
                   EXCEPT !.job = NULL])
  /\ UNCHANGED <<jobs, client>>

\* ApplyMetadata of a broadcast that is over: upsertObservedStream,
ObserveStream(m, seen) ==
  LET target == Target(mon[m].seen.state, seen)
  IN  /\ Ready(m)
      /\ ~StreamLocked(mon[m].seen.video)
      /\ mon' = [mon EXCEPT
           ![m].pc = IF target = "collecting" THEN "linking" ELSE "updating",
           ![m].target = target]
      /\ UNCHANGED <<rsv, trail, jobs, client>>

\* ensureAutomaticCollectionJob,
EnsureJob(m) ==
  /\ mon[m].pc = "linking"
  /\ \E j \in EnsuredJobs(mon[m].rsv, mon[m].seen.video) :
       mon' = [mon EXCEPT ![m].pc = "updating", ![m].job = j]
  /\ UNCHANGED <<rsv, trail, jobs, client>>

\* and the update; the linked or new job becomes visible with it.
CommitMetadata(m) ==
  LET j == mon[m].job
  IN  /\ mon[m].pc = "updating"
      /\ Persist(m, [Checked(m, mon[m].target) EXCEPT !.stream = TRUE,
                                                      !.job = j])
      /\ jobs' = IF j = NULL THEN jobs
                 ELSE [jobs EXCEPT
                   ![j] = [video |-> mon[m].seen.video,
                           reservation |-> mon[m].rsv,
                           status |-> IF @.status = "absent" THEN "active"
                                      ELSE @.status]]
      /\ UNCHANGED client

\* Faulty variant: any success of the stream completes the reservation.
SyncCollectionOfStream(m) ==
  /\ Checking(m)
  /\ mon[m].seen.state = "collecting"
  /\ Persist(m, [rsv[mon[m].rsv] EXCEPT
       !.state = IF \E j \in Jobs : jobs[j].video = mon[m].seen.video
                                   /\ jobs[j].status = "succeeded"
                 THEN "completed" ELSE "collecting"])
  /\ UNCHANGED <<jobs, client>>

\* Faulty variant: the check after the completion is forgotten.
SyncCollectionForgetting(m) ==
  /\ Checking(m)
  /\ mon[m].seen.state = "collecting"
  /\ Persist(m, [rsv[mon[m].rsv] EXCEPT !.state = "collecting"])
  /\ UNCHANGED <<jobs, client>>

SyncCollection(m) ==
  LET job == jobs[mon[m].seen.job]
  IN  /\ Checking(m)
      /\ mon[m].seen.state = "collecting"
      /\ job.reservation = mon[m].rsv
      /\ Persist(m, [rsv[mon[m].rsv] EXCEPT
           !.state = IF job.status = "succeeded" THEN "completed"
                     ELSE "collecting"])
      /\ UNCHANGED <<jobs, client>>

RecordFailure(m, error) ==
  LET attempt == Counted(mon[m].seen.attempts)
      final == error = "not_found" \/ attempt = MaxMonitorAttempts
  IN  /\ Ready(m)
      /\ Persist(m, [Checked(m, IF final THEN "failed" ELSE mon[m].seen.state)
                       EXCEPT !.error = error])
      /\ UNCHANGED <<jobs, client>>

\* Faulty variant: the job is committed although the update found no row.
LeaseLostCommitting(m) ==
  /\ mon[m].pc = "updating"
  /\ ~Holds(m)
  /\ jobs' = IF mon[m].job = NULL THEN jobs
             ELSE [jobs EXCEPT
               ![mon[m].job] = [video |-> mon[m].seen.video,
                                reservation |-> mon[m].rsv,
                                status |-> "active"]]
  /\ mon' = [mon EXCEPT ![m] = Idle]
  /\ UNCHANGED <<rsv, trail, client>>

\* RowsAffected() # 1: ErrLeaseLost, and the transaction is rolled back.
LeaseLost(m) ==
  /\ mon[m].pc \in {"checking", "updating"}
  /\ ~Holds(m)
  /\ mon' = [mon EXCEPT ![m] = Idle]
  /\ UNCHANGED <<rsv, trail, jobs, client>>

\* A statement fails or the process dies: the transaction is rolled back and
\* the claim stays until its lease expires.
Abort(m) ==
  /\ mon[m].pc # "idle"
  /\ mon' = [mon EXCEPT ![m] = Idle]
  /\ UNCHANGED <<rsv, trail, jobs, client>>

-----------------------------------------------------------------------------
Api ==
  \/ \E r \in Reservations :
       \/ \E v \in Videos : Create(r, v)
       \/ Cancel(r)
  \/ \E c \in Clients :
       \/ \E v \in Videos : RequestLock(c, v)
       \/ RequestInsert(c)
       \/ RequestAborts(c)

Check(m) ==
  \/ \E seen \in Observations \ Over : ApplyMetadata(m, seen)
  \/ \E seen \in Over : ObserveStream(m, seen)
  \/ EnsureJob(m)
  \/ CommitMetadata(m)
  \/ SyncCollection(m)
  \/ \E error \in FetchErrors : RecordFailure(m, error)
  \/ LeaseLost(m)

Next ==
  \/ Api
  \/ \E j \in Jobs, outcome \in Outcomes : JobEnds(j, outcome)
  \/ \E r \in Reservations : LeaseExpires(r)
  \/ \E m \in Monitors :
       \/ \E r \in Reservations : ClaimDue(m, r)
       \/ Check(m)
       \/ Abort(m)

Spec == Init /\ [][Next]_vars

\* The monitor loop of an API process polls for ever and takes the row whose
\* next check is due first, so each one gets its turn; a lease runs out by
\* the clock; and of the checks of a collecting reservation, which take
\* milliseconds under a lease of two minutes, not every one is cut off.
FairSpec ==
  /\ Spec
  /\ \A m \in Monitors : WF_vars(Check(m))
  /\ \A r \in Reservations :
       /\ WF_vars(LeaseExpires(r))
       /\ WF_vars(\E m \in Monitors : ClaimDue(m, r))
       /\ SF_vars(\E m \in Monitors : mon[m].rsv = r /\ SyncCollection(m))

-----------------------------------------------------------------------------
(* Properties *)

\* Every variable has its type.
TypeOK ==
  /\ rsv \in [Reservations -> Row]
  /\ trail \in [Reservations -> Seq(State \X State)]
  /\ jobs \in [Jobs -> Job]
  /\ mon \in [Monitors -> Monitor]
  /\ client \in [Clients -> Videos \union {NULL}]

\* No update of the API or of a monitor is refused by the table's CHECKs
\* reservations_collection_fields_check and reservations_lease_fields_check:
\* a job exactly while or after collecting, a stream from the archive wait
\* on, a lease in monitored states only.
RowConstraints(row) ==
  /\ row.state = "waiting_for_archive" => row.stream /\ row.job = NULL
  /\ row.state \in {"collecting", "completed"} => row.stream /\ row.job # NULL
  /\ row.state \in {"scheduled", "monitoring", "live", "failed", "canceled"}
       => row.job = NULL
  /\ row.lease # "none" => row.state \in Monitored

ConstraintsHold == \A r \in Reservations : RowConstraints(rsv[r])

\* The two foreign keys between a reservation and its job never disagree,
\* whatever claim was lost, cancelled or aborted in between: a job is not
\* left linked to a reservation that does not wait for it, and two
\* reservations never share a job.
LinkedBothWays ==
  \A r \in Reservations, j \in Jobs :
    rsv[r].job = j <=> jobs[j].reservation = r

\* Between a manual request and the monitors' automatic one, a stream never
\* has two active jobs: the unique index never has to refuse one of them.
OneActiveJobPerStream ==
  \A v \in Videos : \A i, j \in ActiveJobs(v) : i = j

\* A monitor whose claim stands never gets "active collection job belongs to
\* another reservation": it finds no active job or one to link.  (A monitor
\* that has lost its claim may; its transaction is lost anyway.)
LinkNeverRefused ==
  \A m \in Monitors :
    (mon[m].pc = "linking" /\ Holds(m)) =>
      \A j \in ActiveJobs(mon[m].seen.video) : jobs[j].reservation = NULL

\* The rows of reservations and jobs are the ones the tables allow, whoever
\* writes them.
ReservationInv == TypeOK /\ ConstraintsHold /\ OneActiveJobPerStream

\* A reservation and its job stay linked to each other and to nobody else, and
\* a monitor that may link them can.
LinkInv == LinkedBothWays /\ LinkNeverRefused

\* reservation_transitions is the history of the row: it starts with the
\* creation, each entry leaves the state the entry before it reached, and the
\* last one reached the present state.  Monitors record the state they read
\* when they claimed, so a write through a stale claim would break the chain.
TrailIsHistory ==
  \A r \in Reservations :
    LET t == trail[r]
    IN  /\ \A i \in 1 .. Len(t) :
             t[i][1] = IF i = 1 THEN "absent" ELSE t[i - 1][2]
        /\ rsv[r].state = IF t = <<>> THEN "absent" ELSE t[Len(t)][2]

\* Every step is one that ADR 0004 section 3 allows: no way back, no way past
\* the archive wait, none out of a terminal state, one job per reservation.
\* After that job has failed the reservation stays in "collecting" for ever:
\* the success of another job of the stream does not complete it.
Lifecycle ==
  INSTANCE ReservationLifecycle WITH
    phase <- [r \in Reservations |-> rsv[r].state],
    job <- [r \in Reservations |-> rsv[r].job],
    succeeded <- {j \in Jobs : jobs[j].status = "succeeded"}
ImplementsLifecycle == Lifecycle!Spec

\* A reservation whose job has succeeded is completed by some monitor,
\* although claims expire and monitors die.
SuccessIsNoticed ==
  \A r \in Reservations :
    (rsv[r].state = "collecting" /\ jobs[rsv[r].job].status = "succeeded")
      ~> rsv[r].state = "completed"

\* ADR 0004 section 5: a transient failure keeps the state.  The first one
\* after a successful check, at least, should.
TransientFailureKeepsState ==
  [][\A r \in Reservations :
       (rsv[r].error = "none" /\ rsv'[r].error = "temporary")
         => rsv'[r].state = rsv[r].state]_vars
=============================================================================
