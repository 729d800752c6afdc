------------------------------ MODULE JobTable ------------------------------
(***************************************************************************)
(* One row of the table collection.collection_jobs and the SQL statements   *)
(* that change it.  The statements are constant-level operators on a row,   *)
(* so that every module that touches the table shares them.                 *)
(*                                                                         *)
(* Timestamps are written by the clients, never by the database: "now" is   *)
(* whatever datetime.now(UTC) returned on the host that sent the statement. *)
(* Token 0, expiry 0, the error "none" and NULL stand for SQL's NULL.       *)
(***************************************************************************)
EXTENDS Naturals, CollectionErrors

CONSTANTS
  Streams,        \* stream.streams.id
  WorkerIds,      \* values of YSA_WORKER_ID (host names by default)
  LeaseDuration,  \* YSA_WORKER_LEASE_SECONDS, in ticks
  NULL

ASSUME LeaseDurationIsPositive == LeaseDuration \in Nat \ {0}
ASSUME NullIsNoValue == NULL \notin Streams /\ NULL \notin WorkerIds

ActiveStatus   == {"queued", "running"}
TerminalStatus == {"succeeded", "failed"}
JobStatus      == ActiveStatus \union TerminalStatus

JobRow ==
  [stream    : Streams \union {NULL},
   status    : JobStatus \union {"absent"},
   attempt   : Nat,
   worker    : WorkerIds \union {NULL},
   token     : Nat,
   heartbeat : Nat,
   expires   : Nat,
   processed : Nat,
   skipped   : Nat,
   requested : Nat,
   error     : CollectionErrorCode \union {"none"}]

\* A job id for which the table holds no row yet.
AbsentRow ==
  [stream |-> NULL, status |-> "absent", attempt |-> 0, worker |-> NULL,
   token |-> 0, heartbeat |-> 0, expires |-> 0, processed |-> 0,
   skipped |-> 0, requested |-> 0, error |-> "none"]

QueuedRow(s, requested) ==
  [AbsentRow EXCEPT !.stream = s, !.status = "queued", !.requested = requested]

Active(row)    == row.status \in ActiveStatus
Terminal(row)  == row.status \in TerminalStatus
Retryable(row) == row.status = "failed" /\ row.error \in RetryableCode

\* SET clause of heartbeat.
Renewed(row, now) ==
  [row EXCEPT !.heartbeat = now, !.expires = now + LeaseDuration]

-----------------------------------------------------------------------------
(* Faulty variants of the statements below, each wrong in one plausible way. *)
(* No specification uses them: substituted for the statement they are named  *)
(* after, they show that the properties notice such a mistake.               *)

\* A clause that forgets that lease_expires_at is NULL on a finished job.
ClaimableIgnoringStatus(row, now) ==
  row.status # "absent" /\ row.expires <= now

\* Reuses the lease token when the same worker_id claims the job again.
ClaimedReusingToken(row, id, token, now) ==
  [Renewed(row, now) EXCEPT !.status = "running", !.attempt = @ + 1,
                            !.worker = id, !.token = IF @ = 0 THEN token ELSE @,
                            !.error = "none"]

\* Starts every attempt from zero counts.
ClaimedFromZero(row, id, token, now) ==
  [Renewed(row, now) EXCEPT !.status = "running", !.attempt = @ + 1,
                            !.worker = id, !.token = token, !.error = "none",
                            !.processed = 0, !.skipped = 0]

\* Trusts worker_id and leaves out the lease token.
OwnedByWorkerId(row, id, token, now) ==
  /\ row.status = "running"
  /\ row.worker = id
  /\ row.heartbeat <= now
  /\ row.expires > now

\* Leaves lease_token in the finished row.
ReleasedKeepingToken(row) == [row EXCEPT !.worker = NULL, !.expires = 0]

\* Stores the text of the exception instead of a stable code.
FailedWithText(row, code) ==
  [row EXCEPT !.worker = NULL, !.token = 0, !.expires = 0,
              !.status = "failed", !.error = "Traceback: " ]

\* Puts a failed job back into the queue for an automatic retry.
FailedRequeued(row, code) ==
  [row EXCEPT !.worker = NULL, !.token = 0, !.expires = 0,
              !.status = "queued"]

-----------------------------------------------------------------------------
(* The worker's statements *)

\* WHERE clause of claim_next.
Claimable(row, now) ==
  \/ row.status = "queued"
  \/ row.status = "running" /\ row.expires <= now

\* SET clause of claim_next.  The counts of an earlier attempt are kept.
Claimed(row, id, token, now) ==
  [Renewed(row, now) EXCEPT !.status = "running", !.attempt = @ + 1,
                            !.worker = id, !.token = token, !.error = "none"]

\* WHERE clause shared by heartbeat, record_progress and mark_*.
OwnedLease(row, id, token, now) ==
  /\ row.status = "running"
  /\ row.worker = id
  /\ row.token = token
  /\ row.heartbeat <= now
  /\ row.expires > now

Progressed(row, processed, skipped) ==
  [row EXCEPT !.processed = processed, !.skipped = skipped]

Released(row) == [row EXCEPT !.worker = NULL, !.token = 0, !.expires = 0]

Succeeded(row, processed, skipped) ==
  [Progressed(Released(row), processed, skipped)
     EXCEPT !.status = "succeeded", !.error = "none"]

\* mark_failed leaves the counts alone.
Failed(row, code) ==
  [Released(row) EXCEPT !.status = "failed", !.error = code]

-----------------------------------------------------------------------------
\* The CHECK constraints of the table on the fields that are modelled.
RowConstraints(row) ==
  /\ row.status = "running" => row.worker # NULL /\ row.token # 0
  /\ row.status # "running" =>
       row.worker = NULL /\ row.token = 0 /\ row.expires = 0
  /\ row.expires # 0 => row.expires > row.heartbeat
  /\ (row.status = "failed") = (row.error # "none")
=============================================================================
