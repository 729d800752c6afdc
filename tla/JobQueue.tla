------------------------------ MODULE JobQueue ------------------------------
(***************************************************************************)
(* The PostgreSQL job queue between the API and the collection workers.     *)
(*                                                                         *)
(* API clients create jobs with the transactions Start and Retry, which     *)
(* serialise on the row lock of the stream.  Workers claim a job, keep its  *)
(* lease alive, and report one outcome; a worker may stop at any moment and *)
(* keep, or lose, its memory of the lease.  A worker that is slow, paused   *)
(* or cut off may still send statements for a lease that was taken over.    *)
(*                                                                         *)
(* Every statement of PostgresJobRepository is one action: PostgreSQL runs  *)
(* it atomically under a row lock.  A worker's wall clock may be skewed and *)
(* may be set back, so each statement carries any timestamp of Times.       *)
(***************************************************************************)
EXTENDS JobTable

CONSTANTS
  Jobs,         \* ids gen_random_uuid() may return for a new row
  Workers,      \* worker processes
  WorkerId,     \* WorkerId[w]: the worker_id of process w, not unique
  Clients,      \* concurrent HTTP requests of the API
  Times,        \* timestamps a worker's clock may return
  Counts,       \* values of processed_count and skipped_count
  Codes,        \* error codes a worker reports
  MaxRequests,  \* bound: transactions begun by clients
  MaxClaims     \* bound: claims, hence lease tokens, of one behaviour

ASSUME WorkerIdIsFunction == WorkerId \in [Workers -> WorkerIds]
ASSUME DomainsAreNumbers ==
  /\ Times \subseteq Nat
  /\ Counts \subseteq Nat
  /\ Codes \subseteq CollectionErrorCode
  /\ MaxRequests \in Nat
  /\ MaxClaims \in Nat
ASSUME NullIsNoId == NULL \notin Jobs /\ NULL \notin Clients

VARIABLES
  jobs,        \* the table: job id -> row
  held,        \* worker -> the lease its process remembers, or NoLease
  tx,          \* client -> the transaction it runs
  streamLock,  \* stream -> the client whose transaction locked the row
  issued,      \* number of lease tokens generated so far
  begun        \* number of client transactions begun so far

vars == <<jobs, held, tx, streamLock, issued, begun>>

NoLease == [job |-> NULL, token |-> 0, attempt |-> 0]
Lease == [job : Jobs \union {NULL}, token : Nat, attempt : Nat]

Idle == [pc |-> "idle", op |-> "none", stream |-> NULL, job |-> NULL,
         requested |-> 0]
Transaction ==
  [pc        : {"idle", "locking", "checking", "inserting", "conflicted"},
   op        : {"none", "start", "retry"},
   stream    : Streams \union {NULL},
   job       : Jobs \union {NULL},
   requested : Nat]

TypeOK ==
  /\ jobs \in [Jobs -> JobRow]
  /\ held \in [Workers -> Lease]
  /\ tx \in [Clients -> Transaction]
  /\ streamLock \in [Streams -> Clients \union {NULL}]
  /\ issued \in Nat
  /\ begun \in Nat

Init ==
  /\ jobs = [j \in Jobs |-> AbsentRow]
  /\ held = [w \in Workers |-> NoLease]
  /\ tx = [c \in Clients |-> Idle]
  /\ streamLock = [s \in Streams |-> NULL]
  /\ issued = 0
  /\ begun = 0

-----------------------------------------------------------------------------
(* API transactions.  requested_at is CURRENT_TIMESTAMP, the time at which   *)
(* the transaction began, before it waited for the stream lock; begun stands *)
(* for that clock.                                                           *)

ActiveJobs(s) == {j \in Jobs : jobs[j].stream = s /\ Active(jobs[j])}

CanBegin(c) == tx[c].pc \in {"idle", "conflicted"} /\ begun < MaxRequests

Begin(c, op, s, j) ==
  /\ CanBegin(c)
  /\ begun' = begun + 1
  /\ tx' = [tx EXCEPT ![c] = [pc |-> "locking", op |-> op, stream |-> s,
                              job |-> j, requested |-> begun + 1]]
  /\ UNCHANGED <<jobs, held, streamLock, issued>>

\* POST /streams/{id}/collections
StartBegin(c, s) == Begin(c, "start", s, NULL)

\* POST /collections/{id}/retry: reads stream_id, which never changes.
RetryBegin(c, j) ==
  /\ jobs[j].status # "absent"
  /\ Begin(c, "retry", jobs[j].stream, j)

\* Faulty variant: a shared row lock, which two transactions hold at once.
LockStreamShared(c) ==
  /\ tx[c].pc = "locking"
  /\ streamLock' = [streamLock EXCEPT ![tx[c].stream] = c]
  /\ tx' = [tx EXCEPT ![c].pc = "checking"]
  /\ UNCHANGED <<jobs, held, issued, begun>>

\* SELECT ... FROM stream.streams ... FOR UPDATE
LockStream(c) ==
  /\ tx[c].pc = "locking"
  /\ streamLock[tx[c].stream] = NULL
  /\ streamLock' = [streamLock EXCEPT ![tx[c].stream] = c]
  /\ tx' = [tx EXCEPT ![c].pc = "checking"]
  /\ UNCHANGED <<jobs, held, issued, begun>>

\* Faulty variant: an error path that returns without the deferred Rollback.
EndTransactionWithoutRollback(c, pc) ==
  /\ tx' = [tx EXCEPT ![c] = [Idle EXCEPT !.pc = pc]]
  /\ UNCHANGED streamLock

\* COMMIT or ROLLBACK: the client is left in state pc and its lock is released.
EndTransaction(c, pc) ==
  /\ tx' = [tx EXCEPT ![c] = [Idle EXCEPT !.pc = pc]]
  /\ streamLock' = [s \in Streams |->
                      IF streamLock[s] = c THEN NULL ELSE streamLock[s]]

\* Start returns the active job it finds; Retry refuses with ErrNotRetryable
\* or ErrActiveJob.  Otherwise the transaction goes on to insert.
MayInsert(c) ==
  /\ ActiveJobs(tx[c].stream) = {}
  /\ tx[c].op = "retry" => Retryable(jobs[tx[c].job])

CheckActive(c) ==
  /\ tx[c].pc = "checking"
  /\ IF MayInsert(c)
       THEN tx' = [tx EXCEPT ![c].pc = "inserting"] /\ UNCHANGED streamLock
       ELSE EndTransaction(c, "idle")
  /\ UNCHANGED <<jobs, held, issued, begun>>

\* insertJob and COMMIT.  The partial unique index on the active jobs of a
\* stream would fail the INSERT; that outcome is the state "conflicted".
InsertJob(c) ==
  /\ tx[c].pc = "inserting"
  /\ \/ /\ ActiveJobs(tx[c].stream) = {}
        /\ \E j \in Jobs :
             /\ jobs[j].status = "absent"
             /\ jobs' = [jobs EXCEPT
                           ![j] = QueuedRow(tx[c].stream, tx[c].requested)]
        /\ EndTransaction(c, "idle")
     \/ /\ ActiveJobs(tx[c].stream) # {}
        /\ EndTransaction(c, "conflicted")
        /\ UNCHANGED jobs
  /\ UNCHANGED <<held, issued, begun>>

\* The request context ends, or the connection fails: deferred Rollback.
AbortTransaction(c) ==
  /\ tx[c].pc \in {"locking", "checking", "inserting"}
  /\ EndTransaction(c, "idle")
  /\ UNCHANGED <<jobs, held, issued, begun>>

-----------------------------------------------------------------------------
(* Worker statements *)

\* Rows claim_next can lock: it joins the stream and skips locked rows.
Candidates(now) ==
  {j \in Jobs : /\ Claimable(jobs[j], now)
                /\ streamLock[jobs[j].stream] = NULL}

ClaimNext(w) ==
  /\ held[w] = NoLease
  /\ issued < MaxClaims
  /\ \E now \in Times :
       \E j \in Candidates(now) :
         /\ \A k \in Candidates(now) : jobs[j].requested <= jobs[k].requested
         /\ issued' = issued + 1
         /\ jobs' = [jobs EXCEPT
                       ![j] = Claimed(@, WorkerId[w], issued + 1, now)]
         /\ held' = [held EXCEPT ![w] = [job |-> j, token |-> issued + 1,
                                         attempt |-> jobs[j].attempt + 1]]
  /\ UNCHANGED <<tx, streamLock, begun>>

\* Worker w sends a statement guarded by the lease it remembers.  When the
\* WHERE clause matches no row the repository raises LeaseLostError, no row
\* changes, and the worker drops the attempt: Abandon.
Owns(w, now) ==
  /\ held[w] # NoLease
  /\ OwnedLease(jobs[held[w].job], WorkerId[w], held[w].token, now)

Heartbeat(w) ==
  /\ \E now \in Times :
       /\ Owns(w, now)
       /\ jobs' = [jobs EXCEPT ![held[w].job] = Renewed(@, now)]
  /\ UNCHANGED <<held, tx, streamLock, issued, begun>>

RecordProgress(w) ==
  /\ \E now \in Times, p, s \in Counts :
       /\ Owns(w, now)
       /\ jobs[held[w].job].processed <= p
       /\ jobs[held[w].job].skipped <= s
       /\ jobs' = [jobs EXCEPT ![held[w].job] = Progressed(@, p, s)]
  /\ UNCHANGED <<held, tx, streamLock, issued, begun>>

MarkSucceeded(w) ==
  /\ \E now \in Times, p, s \in Counts :
       /\ Owns(w, now)
       /\ jobs' = [jobs EXCEPT ![held[w].job] = Succeeded(@, p, s)]
  /\ held' = [held EXCEPT ![w] = NoLease]
  /\ UNCHANGED <<tx, streamLock, issued, begun>>

MarkFailed(w) ==
  /\ \E now \in Times, code \in Codes :
       /\ Owns(w, now)
       /\ jobs' = [jobs EXCEPT ![held[w].job] = Failed(@, code)]
  /\ held' = [held EXCEPT ![w] = NoLease]
  /\ UNCHANGED <<tx, streamLock, issued, begun>>

\* The process ends (crash, cancellation, LeaseLostError, database error) or
\* its attempt does: the row stays as it is until the lease expires.
Abandon(w) ==
  /\ held[w] # NoLease
  /\ held' = [held EXCEPT ![w] = NoLease]
  /\ UNCHANGED <<jobs, tx, streamLock, issued, begun>>

-----------------------------------------------------------------------------
Client(c) ==
  \/ \E s \in Streams : StartBegin(c, s)
  \/ \E j \in Jobs : RetryBegin(c, j)
  \/ LockStream(c)
  \/ CheckActive(c)
  \/ InsertJob(c)
  \/ AbortTransaction(c)

Worker(w) ==
  \/ ClaimNext(w)
  \/ Heartbeat(w)
  \/ RecordProgress(w)
  \/ MarkSucceeded(w)
  \/ MarkFailed(w)
  \/ Abandon(w)

Next ==
  \/ \E c \in Clients : Client(c)
  \/ \E w \in Workers : Worker(w)

Spec == Init /\ [][Next]_vars

-----------------------------------------------------------------------------
(* Fairness.  A client's goroutine keeps executing its transaction, and the  *)
(* database grants a contended row lock to every waiter in its turn.  Nobody *)
(* is obliged to begin a request, and a worker may stop for ever.            *)

ClientFairness(c) ==
  /\ SF_vars(LockStream(c))
  /\ WF_vars(CheckActive(c))
  /\ WF_vars(InsertJob(c))

FairSpec == Spec /\ \A c \in Clients : ClientFairness(c)

-----------------------------------------------------------------------------
(* Properties *)

\* No statement of the API or of a worker ever fails a CHECK constraint of
\* collection_jobs: a running row has an owner, a token and a live lease, any
\* other row has none, and only a failed row carries an error code.
ConstraintsHold == \A j \in Jobs : RowConstraints(jobs[j])

\* A stream never has two unfinished jobs, and the stream lock alone ensures
\* it: no Start or Retry, however they interleave with each other and with
\* workers finishing jobs, runs into the unique index on active jobs.
OneActiveJobPerStream ==
  /\ \A j, k \in Jobs :
       Active(jobs[j]) /\ Active(jobs[k]) /\ jobs[j].stream = jobs[k].stream
         => j = k
  /\ \A c \in Clients : tx[c].pc # "conflicted"

\* The lease token identifies the attempt.  Whoever remembers the token that is
\* in the row made the latest claim of that job, even when several processes
\* share one worker_id or a process outlived its lease.
FencedByAttempt ==
  \A w \in Workers : held[w] # NoLease =>
    LET row == jobs[held[w].job] IN
      /\ held[w].attempt <= row.attempt
      /\ row.token = held[w].token =>
           row.status = "running" /\ held[w].attempt = row.attempt

\* A job's outcome is reported by the worker of its latest attempt, never by an
\* earlier owner whose lease expired and was taken over.
OutcomeFromLatestAttempt ==
  [][\A j \in Jobs : Active(jobs[j]) /\ Terminal(jobs'[j]) =>
       \E w \in Workers : /\ held[w].job = j
                          /\ held[w].attempt = jobs[j].attempt
                          /\ held'[w] = NoLease]_vars

\* A succeeded or failed job never changes again: a retry is a new job, and no
\* late worker, lease takeover or overlapping request revives the old one.
TerminalIsFinal ==
  [][\A j \in Jobs : Terminal(jobs[j]) => jobs'[j] = jobs[j]]_vars

\* While a job is unfinished its published counts never go down, not even when
\* another worker takes it over.
ProgressMonotone ==
  [][\A j \in Jobs : jobs[j].status # "absent" /\ Active(jobs'[j]) =>
       /\ jobs'[j].processed >= jobs[j].processed
       /\ jobs'[j].skipped >= jobs[j].skipped]_vars

\* Every Start and Retry ends: no transaction keeps the stream locked, and no
\* waiter is passed over for ever.
RequestsEnd ==
  \A c \in Clients :
    tx[c].pc \in {"locking", "checking", "inserting"}
      ~> tx[c].pc \in {"idle", "conflicted"}

\* The queue implements the lifecycle of JobLifecycle.
Lifecycle == INSTANCE JobLifecycle WITH
  life <- [j \in Jobs |-> [stream  |-> jobs[j].stream,
                           phase   |-> jobs[j].status,
                           attempt |-> jobs[j].attempt]]
ImplementsLifecycle == Lifecycle!Spec
=============================================================================
