--------------------------- MODULE JobQueueProofs ---------------------------
(***************************************************************************)
(* Proofs about JobQueue for all values of its constants.                   *)
(***************************************************************************)
EXTENDS JobQueue, TLAPS

InTransaction(c) == tx[c].pc \in {"locking", "checking", "inserting"}

RowStreamInv ==
  \A j \in Jobs : jobs[j].status # "absent" => jobs[j].stream \in Streams

\* A client past the lock wait holds the lock of its stream, and a client about
\* to insert has seen that the stream has no unfinished job: workers only
\* finish jobs, and other clients cannot insert one without the lock.
LockInv ==
  /\ RowStreamInv
  /\ \A c \in Clients :
       /\ InTransaction(c) => tx[c].stream \in Streams
       /\ tx[c].pc \in {"checking", "inserting"} => streamLock[tx[c].stream] = c
       /\ tx[c].pc = "inserting" => ActiveJobs(tx[c].stream) = {}
  /\ OneActiveJobPerStream

\* Tokens are numbered in the order of the claims, so that a token remembered
\* by a worker is never reissued.
TokenInv ==
  /\ \A j \in Jobs : jobs[j].token <= issued
  /\ \A w \in Workers : held[w] # NoLease =>
       /\ held[w].job \in Jobs
       /\ held[w].token \in 1 .. issued
       /\ jobs[held[w].job].status # "absent"

LeaseInv == TokenInv /\ ConstraintsHold /\ FencedByAttempt

IInv == TypeOK /\ LockInv /\ LeaseInv

-----------------------------------------------------------------------------
(* The row statements: what each one returns. *)

LEMMA ClaimedRow ==
  ASSUME NEW row \in JobRow, NEW id \in WorkerIds, NEW token \in Nat \ {0},
         NEW now \in Nat, RowConstraints(row)
  PROVE  LET new == Claimed(row, id, token, now) IN
         /\ new \in JobRow
         /\ RowConstraints(new)
         /\ new.status = "running"
         /\ new.token = token
         /\ new.attempt = row.attempt + 1
         /\ new.stream = row.stream
         /\ new.processed = row.processed /\ new.skipped = row.skipped
<1> DEFINE new == Claimed(row, id, token, now)
<1>1. now + LeaseDuration \in Nat /\ now + LeaseDuration > now
  BY LeaseDurationIsPositive DEF LeaseDurationIsPositive
<1>2. /\ new.status = "running" /\ new.attempt = row.attempt + 1
      /\ new.worker = id /\ new.token = token /\ new.heartbeat = now
      /\ new.expires = now + LeaseDuration /\ new.error = "none"
      /\ new.stream = row.stream
      /\ new.processed = row.processed /\ new.skipped = row.skipped
  BY DEF Claimed, Renewed, JobRow
<1>3. new \in JobRow
  <2> DEFINE renewed == Renewed(row, now)
             attempt == renewed.attempt + 1
  <2>1. renewed \in JobRow
    BY <1>1 DEF Renewed, JobRow
  <2>2. attempt \in Nat
    BY <2>1 DEF JobRow
  <2>3. "running" \in JobStatus
    BY DEF JobStatus, ActiveStatus
  <2> HIDE DEF renewed, attempt
  <2>4. [renewed EXCEPT !.status = "running", !.attempt = attempt, !.worker = id,
                        !.token = token, !.error = "none"] \in JobRow
    BY <2>1, <2>2, <2>3 DEF JobRow
  <2>5. QED
    BY <2>4 DEF Claimed, renewed, attempt
<1>4. RowConstraints(new)
  <2>1. id # NULL
    BY NullIsNoValue DEF NullIsNoValue
  <2>2. QED
    BY <1>1, <1>2, <2>1 DEF RowConstraints
<1>5. QED
  BY <1>2, <1>3, <1>4

LEMMA RenewedRow ==
  ASSUME NEW row \in JobRow, NEW now \in Nat, RowConstraints(row),
         row.status = "running"
  PROVE  LET new == Renewed(row, now) IN
         /\ new \in JobRow
         /\ RowConstraints(new)
         /\ new.status = "running"
         /\ new.token = row.token
         /\ new.attempt = row.attempt
         /\ new.stream = row.stream
         /\ new.processed = row.processed /\ new.skipped = row.skipped
<1> DEFINE new == Renewed(row, now)
<1>1. now + LeaseDuration \in Nat /\ now + LeaseDuration > now
  BY LeaseDurationIsPositive DEF LeaseDurationIsPositive
<1>2. /\ new.status = "running" /\ new.attempt = row.attempt
      /\ new.worker = row.worker /\ new.token = row.token
      /\ new.heartbeat = now /\ new.expires = now + LeaseDuration
      /\ new.error = row.error /\ new.stream = row.stream
      /\ new.processed = row.processed /\ new.skipped = row.skipped
  BY DEF Renewed, JobRow
<1>3. new \in JobRow
  BY <1>1 DEF Renewed, JobRow
<1>4. RowConstraints(new)
  BY <1>1, <1>2 DEF RowConstraints
<1>5. QED
  BY <1>2, <1>3, <1>4

LEMMA ProgressedRow ==
  ASSUME NEW row \in JobRow, NEW p \in Nat, NEW s \in Nat, RowConstraints(row)
  PROVE  LET new == Progressed(row, p, s) IN
         /\ new \in JobRow
         /\ RowConstraints(new)
         /\ new.status = row.status
         /\ new.token = row.token
         /\ new.attempt = row.attempt
         /\ new.stream = row.stream
         /\ new.processed = p /\ new.skipped = s
BY DEF JobRow, Progressed, RowConstraints

LEMMA SucceededRow ==
  ASSUME NEW row \in JobRow, NEW p \in Nat, NEW s \in Nat
  PROVE  LET new == Succeeded(row, p, s) IN
         /\ new \in JobRow
         /\ RowConstraints(new)
         /\ new.status = "succeeded"
         /\ new.token = 0
         /\ new.attempt = row.attempt
         /\ new.stream = row.stream
BY DEF JobRow, Succeeded, Progressed, Released, RowConstraints, JobStatus,
       TerminalStatus

LEMMA FailedRow ==
  ASSUME NEW row \in JobRow, NEW code \in CollectionErrorCode
  PROVE  LET new == Failed(row, code) IN
         /\ new \in JobRow
         /\ RowConstraints(new)
         /\ new.status = "failed"
         /\ new.token = 0
         /\ new.attempt = row.attempt
         /\ new.stream = row.stream
BY DEF JobRow, Failed, Released, RowConstraints, JobStatus, TerminalStatus,
       CollectionErrorCode

LEMMA NewRow ==
  ASSUME NEW s \in Streams, NEW requested \in Nat
  PROVE  LET new == QueuedRow(s, requested) IN
         /\ new \in JobRow
         /\ RowConstraints(new)
         /\ new.status = "queued"
         /\ new.token = 0
         /\ new.attempt = 0
         /\ new.stream = s
BY DEF JobRow, QueuedRow, AbsentRow, RowConstraints, JobStatus, ActiveStatus

-----------------------------------------------------------------------------
(* Every statement of a lease holder changes one running row in the same     *)
(* controlled way, whichever statement it is.                                *)

OwnerUpdate(w) ==
  /\ held[w] # NoLease
  /\ held[w].job \in Jobs
  /\ jobs[held[w].job].status = "running"
  /\ jobs[held[w].job].token = held[w].token
  /\ \E new \in JobRow :
       /\ jobs' = [jobs EXCEPT ![held[w].job] = new]
       /\ RowConstraints(new)
       /\ new.status \in {"running", "succeeded", "failed"}
       /\ new.stream = jobs[held[w].job].stream
       /\ new.attempt = jobs[held[w].job].attempt
       /\ new.token \in {0, jobs[held[w].job].token}
       /\ new.status = "running" =>
            /\ new.processed >= jobs[held[w].job].processed
            /\ new.skipped >= jobs[held[w].job].skipped
       /\ \/ held' = [held EXCEPT ![w] = NoLease]
          \/ held' = held /\ new.status = "running"
  /\ UNCHANGED <<tx, streamLock, issued, begun>>

LEMMA OwnerStatements ==
  ASSUME TypeOK, TokenInv, ConstraintsHold, NEW w \in Workers,
         Heartbeat(w) \/ RecordProgress(w) \/ MarkSucceeded(w) \/ MarkFailed(w)
  PROVE  OwnerUpdate(w)
<1> DEFINE j == held[w].job
<1>1. held[w] # NoLease /\ j \in Jobs
  BY DEF Heartbeat, RecordProgress, MarkSucceeded, MarkFailed, Owns, TokenInv
<1>2. jobs[j] \in JobRow /\ RowConstraints(jobs[j])
  BY <1>1 DEF TypeOK, ConstraintsHold
<1>3. jobs[j].status = "running" /\ jobs[j].token = held[w].token
  BY DEF Heartbeat, RecordProgress, MarkSucceeded, MarkFailed, Owns, OwnedLease
<1>4. Times \subseteq Nat /\ Counts \subseteq Nat
      /\ Codes \subseteq CollectionErrorCode
  BY DomainsAreNumbers DEF DomainsAreNumbers
<1>5. CASE Heartbeat(w)
  <2>1. PICK now \in Times : jobs' = [jobs EXCEPT ![j] = Renewed(jobs[j], now)]
    BY <1>5 DEF Heartbeat
  <2>2. held' = held /\ UNCHANGED <<tx, streamLock, issued, begun>>
    BY <1>5 DEF Heartbeat
  <2> DEFINE new == Renewed(jobs[j], now)
  <2>3. /\ new \in JobRow
        /\ RowConstraints(new)
        /\ new.status = "running"
        /\ new.stream = jobs[j].stream
        /\ new.attempt = jobs[j].attempt
        /\ new.token = jobs[j].token
        /\ new.processed = jobs[j].processed
        /\ new.skipped = jobs[j].skipped
    BY <1>2, <1>3, <1>4, RenewedRow
  <2> HIDE DEF new
  <2>4. jobs' = [jobs EXCEPT ![j] = new]
    BY <2>1 DEF new
  <2>5. new.processed >= jobs[j].processed /\ new.skipped >= jobs[j].skipped
    BY <1>2, <2>3 DEF JobRow
  <2>6. QED
    BY <1>1, <1>3, <2>2, <2>3, <2>4, <2>5 DEF OwnerUpdate
<1>6. CASE RecordProgress(w)
  <2>1. PICK p \in Counts, s \in Counts :
          /\ jobs' = [jobs EXCEPT ![j] = Progressed(jobs[j], p, s)]
          /\ jobs[j].processed <= p /\ jobs[j].skipped <= s
    BY <1>6 DEF RecordProgress
  <2>2. held' = held /\ UNCHANGED <<tx, streamLock, issued, begun>>
    BY <1>6 DEF RecordProgress
  <2> DEFINE new == Progressed(jobs[j], p, s)
  <2>3. /\ new \in JobRow
        /\ RowConstraints(new)
        /\ new.status = "running"
        /\ new.stream = jobs[j].stream
        /\ new.attempt = jobs[j].attempt
        /\ new.token = jobs[j].token
        /\ new.processed = p /\ new.skipped = s
    BY <1>2, <1>3, <1>4, ProgressedRow
  <2> HIDE DEF new
  <2>4. jobs' = [jobs EXCEPT ![j] = new]
    BY <2>1 DEF new
  <2>5. new.processed >= jobs[j].processed /\ new.skipped >= jobs[j].skipped
    <3>1. jobs[j].processed \in Nat /\ jobs[j].skipped \in Nat
      BY <1>2 DEF JobRow
    <3>2. QED
      BY <1>4, <2>1, <2>3, <3>1
  <2>6. QED
    BY <1>1, <1>3, <2>2, <2>3, <2>4, <2>5 DEF OwnerUpdate
<1>7. CASE MarkSucceeded(w)
  <2>1. PICK p \in Counts, s \in Counts :
          jobs' = [jobs EXCEPT ![j] = Succeeded(jobs[j], p, s)]
    BY <1>7 DEF MarkSucceeded
  <2>2. held' = [held EXCEPT ![w] = NoLease]
        /\ UNCHANGED <<tx, streamLock, issued, begun>>
    BY <1>7 DEF MarkSucceeded
  <2>3. QED
    BY <1>1, <1>2, <1>3, <1>4, <2>1, <2>2, SucceededRow DEF OwnerUpdate
<1>8. CASE MarkFailed(w)
  <2>1. PICK code \in Codes : jobs' = [jobs EXCEPT ![j] = Failed(jobs[j], code)]
    BY <1>8 DEF MarkFailed
  <2>2. held' = [held EXCEPT ![w] = NoLease]
        /\ UNCHANGED <<tx, streamLock, issued, begun>>
    BY <1>8 DEF MarkFailed
  <2>3. QED
    BY <1>1, <1>2, <1>3, <1>4, <2>1, <2>2, FailedRow DEF OwnerUpdate
<1>9. QED
  BY <1>5, <1>6, <1>7, <1>8

\* A claim makes one unfinished row running, with a token nobody remembers.
LEMMA ClaimStatement ==
  ASSUME TypeOK, ConstraintsHold, NEW w \in Workers, ClaimNext(w)
  PROVE  \E j \in Jobs, new \in JobRow :
           /\ Active(jobs[j])
           /\ jobs' = [jobs EXCEPT ![j] = new]
           /\ RowConstraints(new)
           /\ new.status = "running"
           /\ new.token = issued + 1
           /\ new.attempt = jobs[j].attempt + 1
           /\ new.stream = jobs[j].stream
           /\ new.processed = jobs[j].processed
           /\ new.skipped = jobs[j].skipped
           /\ held' = [held EXCEPT ![w] = [job |-> j, token |-> issued + 1,
                                           attempt |-> jobs[j].attempt + 1]]
           /\ issued' = issued + 1
           /\ UNCHANGED <<tx, streamLock, begun>>
<1>0. PICK now \in Times :
        \E j \in Candidates(now) :
          /\ issued' = issued + 1
          /\ jobs' = [jobs EXCEPT
                        ![j] = Claimed(jobs[j], WorkerId[w], issued + 1, now)]
          /\ held' = [held EXCEPT ![w] = [job |-> j, token |-> issued + 1,
                                          attempt |-> jobs[j].attempt + 1]]
  BY DEF ClaimNext
<1>1. PICK j \in Candidates(now) :
        /\ issued' = issued + 1
        /\ jobs' = [jobs EXCEPT
                      ![j] = Claimed(jobs[j], WorkerId[w], issued + 1, now)]
        /\ held' = [held EXCEPT ![w] = [job |-> j, token |-> issued + 1,
                                        attempt |-> jobs[j].attempt + 1]]
        /\ UNCHANGED <<tx, streamLock, begun>>
  BY <1>0 DEF ClaimNext
<1>2. j \in Jobs /\ Active(jobs[j])
  BY <1>1 DEF Candidates, Claimable, Active, ActiveStatus
<1>3. jobs[j] \in JobRow /\ RowConstraints(jobs[j]) /\ issued + 1 \in Nat \ {0}
  BY <1>2 DEF TypeOK, ConstraintsHold
<1>4. now \in Nat /\ WorkerId[w] \in WorkerIds
  BY DomainsAreNumbers, WorkerIdIsFunction DEF DomainsAreNumbers, WorkerIdIsFunction
<1>5. QED
  BY <1>1, <1>2, <1>3, <1>4, ClaimedRow

-----------------------------------------------------------------------------
(* The steps of the workers *)

\* A worker's statement neither revives a finished job nor moves one to another
\* stream, so it cannot break what the stream locks protect.
LEMMA WorkerStepKeepsLocks ==
  ASSUME TypeOK, LockInv, NEW j \in Jobs, NEW new \in JobRow,
         jobs' = [jobs EXCEPT ![j] = new],
         Active(jobs[j]), new.stream = jobs[j].stream,
         UNCHANGED <<tx, streamLock>>
  PROVE  LockInv'
<1>1. \A k \in Jobs : /\ jobs'[k].stream = jobs[k].stream
                      /\ Active(jobs'[k]) => Active(jobs[k])
                      /\ jobs[k].status = "absent" => jobs'[k].status = "absent"
  BY DEF TypeOK, Active, ActiveStatus
<1>2. RowStreamInv'
  <2>1. jobs[j].stream \in Streams
    BY DEF LockInv, RowStreamInv, Active, ActiveStatus
  <2>2. QED
    BY <2>1 DEF LockInv, RowStreamInv, TypeOK
<1>3. \A s \in Streams : ActiveJobs(s) = {} => ActiveJobs(s)' = {}
  BY <1>1 DEF ActiveJobs
<1>4. OneActiveJobPerStream'
  BY <1>1 DEF LockInv, OneActiveJobPerStream
<1>5. QED
  BY <1>2, <1>3, <1>4 DEF LockInv, InTransaction

LEMMA OwnerUpdateStep ==
  ASSUME IInv, NEW w \in Workers, OwnerUpdate(w)
  PROVE  IInv'
<1> DEFINE j == held[w].job
<1>1. j \in Jobs /\ jobs[j].status = "running" /\ jobs[j].token = held[w].token
  BY DEF OwnerUpdate
<1>2. PICK new \in JobRow :
        /\ jobs' = [jobs EXCEPT ![j] = new]
        /\ RowConstraints(new)
        /\ new.status \in {"running", "succeeded", "failed"}
        /\ new.stream = jobs[j].stream
        /\ new.attempt = jobs[j].attempt
        /\ new.token \in {0, jobs[j].token}
        /\ \/ held' = [held EXCEPT ![w] = NoLease]
           \/ held' = held /\ new.status = "running"
  BY DEF OwnerUpdate
<1>3. UNCHANGED <<tx, streamLock, issued, begun>>
  BY DEF OwnerUpdate
<1>4. TypeOK'
  BY <1>1, <1>2, <1>3 DEF IInv, TypeOK, NoLease, Lease
<1>5. LockInv'
  BY <1>1, <1>2, <1>3, WorkerStepKeepsLocks DEF IInv, Active, ActiveStatus
<1>6. \A v \in Workers : held'[v] # NoLease => held'[v] = held[v]
  BY <1>2 DEF IInv, TypeOK
<1>7. TokenInv'
  BY <1>1, <1>2, <1>3, <1>6 DEF IInv, LeaseInv, TokenInv, TypeOK
<1>8. ConstraintsHold'
  BY <1>2 DEF IInv, LeaseInv, ConstraintsHold, TypeOK
<1>9. FencedByAttempt'
  <2> SUFFICES ASSUME NEW v \in Workers, held'[v] # NoLease
               PROVE  LET row == jobs'[held'[v].job] IN
                      /\ held'[v].attempt <= row.attempt
                      /\ row.token = held'[v].token =>
                           row.status = "running" /\ held'[v].attempt = row.attempt
    BY DEF FencedByAttempt
  <2>1. /\ held'[v] = held[v] /\ held[v].job \in Jobs
        /\ held[v].token \in Nat \ {0}
    BY <1>6 DEF IInv, LeaseInv, TokenInv, TypeOK
  <2>2. LET row == jobs[held[v].job] IN
          /\ held[v].attempt <= row.attempt
          /\ row.token = held[v].token =>
               row.status = "running" /\ held[v].attempt = row.attempt
    BY <2>1, <1>6 DEF IInv, LeaseInv, FencedByAttempt
  <2>3. CASE held[v].job # j
    BY <1>2, <2>1, <2>2, <2>3 DEF IInv, TypeOK
  <2>4. CASE held[v].job = j
    <3>1. jobs'[j] = new
      BY <1>1, <1>2 DEF IInv, TypeOK
    <3>2. new.token = held[v].token => new.token = jobs[j].token /\ new.status = "running"
      BY <1>2, <2>1 DEF RowConstraints
    <3>3. QED
      BY <1>2, <2>1, <2>2, <2>4, <3>1, <3>2
  <2>5. QED
    BY <2>3, <2>4
<1>10. QED
  BY <1>4, <1>5, <1>7, <1>8, <1>9 DEF IInv, LeaseInv

LEMMA ClaimStep ==
  ASSUME IInv, NEW w \in Workers, ClaimNext(w)
  PROVE  IInv'
<1>1. PICK j \in Jobs, new \in JobRow :
        /\ Active(jobs[j])
        /\ jobs' = [jobs EXCEPT ![j] = new]
        /\ RowConstraints(new)
        /\ new.status = "running"
        /\ new.token = issued + 1
        /\ new.attempt = jobs[j].attempt + 1
        /\ new.stream = jobs[j].stream
        /\ held' = [held EXCEPT ![w] = [job |-> j, token |-> issued + 1,
                                        attempt |-> jobs[j].attempt + 1]]
        /\ issued' = issued + 1
        /\ UNCHANGED <<tx, streamLock, begun>>
  BY ClaimStatement DEF IInv, LeaseInv
<1> DEFINE lease == [job |-> j, token |-> issued + 1,
                     attempt |-> jobs[j].attempt + 1]
<1>2. lease \in Lease
  BY DEF IInv, TypeOK, Lease, JobRow
<1>3. TypeOK'
  BY <1>1, <1>2 DEF IInv, TypeOK
<1>4. LockInv'
  BY <1>1, WorkerStepKeepsLocks DEF IInv
<1>5. held'[w] = lease /\ \A v \in Workers \ {w} : held'[v] = held[v]
  BY <1>1 DEF IInv, TypeOK
<1>6. jobs'[j] = new /\ \A k \in Jobs \ {j} : jobs'[k] = jobs[k]
  BY <1>1 DEF IInv, TypeOK
<1>7. TokenInv'
  <2>1. \A k \in Jobs : jobs'[k].token <= issued'
    BY <1>1, <1>6 DEF IInv, LeaseInv, TokenInv, TypeOK, JobRow
  <2>2. \A v \in Workers : held'[v] # NoLease =>
          /\ held'[v].job \in Jobs
          /\ held'[v].token \in 1 .. issued'
          /\ jobs'[held'[v].job].status # "absent"
    BY <1>1, <1>5, <1>6 DEF IInv, LeaseInv, TokenInv, TypeOK
  <2>3. QED
    BY <2>1, <2>2 DEF TokenInv
<1>8. ConstraintsHold'
  BY <1>1, <1>6 DEF IInv, LeaseInv, ConstraintsHold
<1>9. FencedByAttempt'
  <2> SUFFICES ASSUME NEW v \in Workers, held'[v] # NoLease
               PROVE  LET row == jobs'[held'[v].job] IN
                      /\ held'[v].attempt <= row.attempt
                      /\ row.token = held'[v].token =>
                           row.status = "running" /\ held'[v].attempt = row.attempt
    BY DEF FencedByAttempt
  <2>1. CASE v = w
    BY <1>1, <1>5, <1>6, <2>1 DEF IInv, TypeOK, JobRow
  <2>2. CASE v # w
    <3>1. held'[v] = held[v] /\ held[v].job \in Jobs /\ held[v].token \in 1 .. issued
          /\ held[v].attempt \in Nat
      BY <1>5, <2>2 DEF IInv, LeaseInv, TokenInv, TypeOK, Lease
    <3>2. /\ held[v].attempt <= jobs[held[v].job].attempt
          /\ jobs[held[v].job].token = held[v].token =>
               /\ jobs[held[v].job].status = "running"
               /\ held[v].attempt = jobs[held[v].job].attempt
      BY <3>1 DEF IInv, LeaseInv, FencedByAttempt
    <3>3. jobs[j].attempt \in Nat /\ issued \in Nat
      BY DEF IInv, TypeOK, JobRow
    <3>4. CASE held[v].job = j
      BY <1>1, <1>6, <3>1, <3>2, <3>3, <3>4
    <3>5. CASE held[v].job # j
      BY <1>6, <3>1, <3>2, <3>5
    <3>6. QED
      BY <3>4, <3>5
  <2>3. QED
    BY <2>1, <2>2
<1>10. QED
  BY <1>3, <1>4, <1>7, <1>8, <1>9 DEF IInv, LeaseInv

LEMMA AbandonStep ==
  ASSUME IInv, NEW w \in Workers, Abandon(w)
  PROVE  IInv'
<1>1. /\ held' = [held EXCEPT ![w] = NoLease]
      /\ UNCHANGED <<jobs, tx, streamLock, issued, begun>>
  BY DEF Abandon
<1>2. \A v \in Workers : held'[v] # NoLease => held'[v] = held[v]
  BY <1>1 DEF IInv, TypeOK
<1>3. TypeOK'
  BY <1>1 DEF IInv, TypeOK, NoLease, Lease
<1>4. LockInv'
  BY <1>1 DEF IInv, LockInv, RowStreamInv, InTransaction, ActiveJobs,
              OneActiveJobPerStream
<1>5. LeaseInv'
  BY <1>1, <1>2 DEF IInv, LeaseInv, TokenInv, ConstraintsHold, FencedByAttempt
<1>6. QED
  BY <1>3, <1>4, <1>5 DEF IInv

-----------------------------------------------------------------------------
(* The steps of the API's transactions *)

LEMMA LeaseInvUnchanged ==
  ASSUME LeaseInv, UNCHANGED <<jobs, held, issued>>
  PROVE  LeaseInv'
BY DEF LeaseInv, TokenInv, ConstraintsHold, FencedByAttempt

LEMMA BeginStep ==
  ASSUME IInv, NEW c \in Clients, NEW op \in {"start", "retry"},
         NEW s \in Streams, NEW j \in Jobs \union {NULL}, Begin(c, op, s, j)
  PROVE  IInv'
<1> DEFINE new == [pc |-> "locking", op |-> op, stream |-> s, job |-> j,
                   requested |-> begun + 1]
<1>1. /\ tx' = [tx EXCEPT ![c] = new]
      /\ begun' = begun + 1
      /\ UNCHANGED <<jobs, held, streamLock, issued>>
  BY DEF Begin
<1>2. new \in Transaction
  BY DEF IInv, TypeOK, Transaction
<1>3. TypeOK'
  BY <1>1, <1>2 DEF IInv, TypeOK
<1>4. LockInv'
  BY <1>1 DEF IInv, TypeOK, LockInv, RowStreamInv, InTransaction, ActiveJobs,
              OneActiveJobPerStream
<1>5. QED
  BY <1>1, <1>3, <1>4, LeaseInvUnchanged DEF IInv

LEMMA LockStreamStep ==
  ASSUME IInv, NEW c \in Clients, LockStream(c)
  PROVE  IInv'
<1>1. /\ tx[c].pc = "locking"
      /\ streamLock[tx[c].stream] = NULL
      /\ streamLock' = [streamLock EXCEPT ![tx[c].stream] = c]
      /\ tx' = [tx EXCEPT ![c].pc = "checking"]
      /\ UNCHANGED <<jobs, held, issued, begun>>
  BY DEF LockStream
<1>2. tx[c].stream \in Streams
  BY <1>1 DEF IInv, LockInv, InTransaction
<1>3. [tx[c] EXCEPT !.pc = "checking"] \in Transaction
  BY DEF IInv, TypeOK, Transaction
<1>4. TypeOK'
  BY <1>1, <1>2, <1>3 DEF IInv, TypeOK
<1>5. LockInv'
  <2>1. RowStreamInv' 
    BY <1>1 DEF IInv, LockInv, RowStreamInv
  <2>2. tx'[c].pc = "checking" /\ tx'[c].stream = tx[c].stream
    BY <1>1 DEF IInv, TypeOK, Transaction
  <2>3. \A d \in Clients \ {c} : tx'[d] = tx[d]
    BY <1>1 DEF IInv, TypeOK
  <2>4. \A d \in Clients \ {c} :
          streamLock[tx[d].stream] = d => tx[d].stream # tx[c].stream
    BY <1>1, NullIsNoId DEF NullIsNoId
  <2>5. ASSUME NEW d \in Clients
        PROVE  (/\ InTransaction(d) => tx[d].stream \in Streams
                /\ tx[d].pc \in {"checking", "inserting"} =>
                     streamLock[tx[d].stream] = d
                /\ tx[d].pc = "inserting" => ActiveJobs(tx[d].stream) = {})'
    <3>1. CASE d = c
      BY <1>1, <1>2, <2>2, <3>1 DEF IInv, TypeOK
    <3>2. CASE d # c
      <4>1. /\ InTransaction(d) => tx[d].stream \in Streams
            /\ tx[d].pc \in {"checking", "inserting"} =>
                 streamLock[tx[d].stream] = d
            /\ tx[d].pc = "inserting" => ActiveJobs(tx[d].stream) = {}
        BY DEF IInv, LockInv
      <4>2. tx'[d] = tx[d] /\ ActiveJobs(tx[d].stream)' = ActiveJobs(tx[d].stream)
        BY <1>1, <2>3, <3>2 DEF ActiveJobs
      <4>3. tx[d].pc \in {"checking", "inserting"} =>
              streamLock'[tx[d].stream] = d
        BY <1>1, <2>4, <3>2, <4>1 DEF IInv, TypeOK, InTransaction
      <4>4. QED
        BY <4>1, <4>2, <4>3 DEF InTransaction
    <3>3. QED
      BY <3>1, <3>2
  <2>6. OneActiveJobPerStream'
    <3>1. \A d \in Clients : tx'[d].pc # "conflicted"
      BY <2>2, <2>3 DEF IInv, LockInv, OneActiveJobPerStream
    <3>2. QED
      BY <1>1, <3>1 DEF IInv, LockInv, OneActiveJobPerStream
  <2>7. QED
    BY <2>1, <2>5, <2>6 DEF LockInv
<1>6. QED
  BY <1>1, <1>4, <1>5, LeaseInvUnchanged DEF IInv

\* Ending a transaction frees the lock of that client and of nobody else.
LEMMA EndTransactionKeepsLocks ==
  ASSUME TypeOK, LockInv, NEW c \in Clients, EndTransaction(c, "idle")
  PROVE  /\ tx' \in [Clients -> Transaction]
         /\ streamLock' \in [Streams -> Clients \union {NULL}]
         /\ tx'[c].pc = "idle"
         /\ \A d \in Clients \ {c} :
              /\ tx'[d] = tx[d]
              /\ tx[d].pc \in {"checking", "inserting"} =>
                   streamLock'[tx[d].stream] = d
<1>1. /\ tx' = [tx EXCEPT ![c] = [Idle EXCEPT !.pc = "idle"]]
      /\ streamLock' = [s \in Streams |->
                          IF streamLock[s] = c THEN NULL ELSE streamLock[s]]
  BY DEF EndTransaction
<1>2. [Idle EXCEPT !.pc = "idle"] \in Transaction
      /\ [Idle EXCEPT !.pc = "idle"].pc = "idle"
  BY DEF Idle, Transaction
<1>3. \A d \in Clients \ {c} : tx'[d] = tx[d]
  BY <1>1 DEF TypeOK
<1>4. \A d \in Clients : tx[d].pc \in {"checking", "inserting"} =>
        tx[d].stream \in Streams /\ streamLock[tx[d].stream] = d
  BY DEF LockInv, InTransaction
<1>5. QED
  BY <1>1, <1>2, <1>3, <1>4 DEF TypeOK

LEMMA EndTransactionStep ==
  ASSUME IInv, NEW c \in Clients, EndTransaction(c, "idle"),
         UNCHANGED <<jobs, held, issued, begun>>
  PROVE  IInv'
<1>1. /\ tx' \in [Clients -> Transaction]
      /\ streamLock' \in [Streams -> Clients \union {NULL}]
      /\ tx'[c].pc = "idle"
      /\ \A d \in Clients \ {c} :
           /\ tx'[d] = tx[d]
           /\ tx[d].pc \in {"checking", "inserting"} =>
                streamLock'[tx[d].stream] = d
  BY EndTransactionKeepsLocks DEF IInv
<1>2. TypeOK'
  BY <1>1 DEF IInv, TypeOK
<1>3. LockInv'
  BY <1>1 DEF IInv, LockInv, RowStreamInv, InTransaction, ActiveJobs,
              OneActiveJobPerStream
<1>4. QED
  BY <1>2, <1>3, LeaseInvUnchanged DEF IInv

\* Under the stream lock the check stays true until the INSERT.
LEMMA CheckActiveStep ==
  ASSUME IInv, NEW c \in Clients, CheckActive(c)
  PROVE  IInv'
<1>1. CASE EndTransaction(c, "idle")
  BY <1>1, EndTransactionStep DEF CheckActive
<1>2. CASE MayInsert(c) /\ tx' = [tx EXCEPT ![c].pc = "inserting"]
           /\ UNCHANGED streamLock
  <2>1. tx[c].pc = "checking" /\ UNCHANGED <<jobs, held, issued, begun>>
    BY DEF CheckActive
  <2>2. [tx[c] EXCEPT !.pc = "inserting"] \in Transaction
    BY DEF IInv, TypeOK, Transaction
  <2>3. TypeOK'
    BY <1>2, <2>1, <2>2 DEF IInv, TypeOK
  <2>4. tx'[c].pc = "inserting" /\ tx'[c].stream = tx[c].stream
        /\ \A d \in Clients \ {c} : tx'[d] = tx[d]
    BY <1>2 DEF IInv, TypeOK, Transaction
  <2>5. ActiveJobs(tx[c].stream) = {}
    BY <1>2 DEF MayInsert
  <2>6. LockInv'
    BY <1>2, <2>1, <2>4, <2>5 DEF IInv, LockInv, RowStreamInv, InTransaction,
       ActiveJobs, OneActiveJobPerStream
  <2>7. QED
    BY <2>1, <2>3, <2>6, LeaseInvUnchanged DEF IInv
<1>3. QED
  BY <1>1, <1>2 DEF CheckActive

LEMMA InsertJobStep ==
  ASSUME IInv, NEW c \in Clients, InsertJob(c)
  PROVE  IInv'
<1> DEFINE s == tx[c].stream
           new == QueuedRow(s, tx[c].requested)
<1>1. /\ tx[c].pc = "inserting"
      /\ s \in Streams
      /\ streamLock[s] = c
      /\ ActiveJobs(s) = {}
  BY DEF InsertJob, IInv, LockInv, InTransaction
<1>2. /\ EndTransaction(c, "idle")
      /\ UNCHANGED <<held, issued, begun>>
      /\ \E j \in Jobs : jobs[j].status = "absent"
                         /\ jobs' = [jobs EXCEPT ![j] = new]
  BY <1>1 DEF InsertJob
<1>3. PICK j \in Jobs : /\ jobs[j].status = "absent"
                        /\ jobs' = [jobs EXCEPT ![j] = new]
  BY <1>2
<1>4. /\ new \in JobRow
      /\ RowConstraints(new)
      /\ new.status = "queued"
      /\ new.token = 0
      /\ new.attempt = 0
      /\ new.stream = s
  <2>1. tx[c].requested \in Nat
    BY DEF IInv, TypeOK, Transaction
  <2>2. QED
    BY <1>1, <2>1, NewRow
<1> HIDE DEF new, s
<1>5. jobs'[j] = new /\ \A k \in Jobs \ {j} : jobs'[k] = jobs[k]
  BY <1>3 DEF IInv, TypeOK
<1>6. /\ tx' \in [Clients -> Transaction]
      /\ streamLock' \in [Streams -> Clients \union {NULL}]
      /\ tx'[c].pc = "idle"
      /\ \A d \in Clients \ {c} :
           /\ tx'[d] = tx[d]
           /\ tx[d].pc \in {"checking", "inserting"} =>
                streamLock'[tx[d].stream] = d
  BY <1>2, EndTransactionKeepsLocks DEF IInv
<1>7. TypeOK'
  BY <1>2, <1>3, <1>4, <1>6 DEF IInv, TypeOK
<1>8. LockInv'
  <2>1. RowStreamInv'
    BY <1>1, <1>4, <1>5 DEF IInv, LockInv, RowStreamInv
  <2>2. ASSUME NEW d \in Clients
        PROVE  (/\ InTransaction(d) => tx[d].stream \in Streams
                /\ tx[d].pc \in {"checking", "inserting"} =>
                     streamLock[tx[d].stream] = d
                /\ tx[d].pc = "inserting" => ActiveJobs(tx[d].stream) = {})'
    <3>1. CASE d = c
      BY <1>6, <3>1 DEF InTransaction
    <3>2. CASE d # c
      <4>1. /\ InTransaction(d) => tx[d].stream \in Streams
            /\ tx[d].pc \in {"checking", "inserting"} =>
                 streamLock[tx[d].stream] = d
            /\ tx[d].pc = "inserting" => ActiveJobs(tx[d].stream) = {}
        BY DEF IInv, LockInv
      <4>2. tx[d].pc = "inserting" => tx[d].stream # s
        BY <1>1, <3>2, <4>1
      <4>3. tx[d].pc = "inserting" => ActiveJobs(tx[d].stream)' = {}
        BY <1>4, <1>5, <1>6, <3>2, <4>1, <4>2 DEF ActiveJobs
      <4>4. QED
        BY <1>6, <3>2, <4>1, <4>3 DEF InTransaction
    <3>3. QED
      BY <3>1, <3>2
  <2>3. OneActiveJobPerStream'
    <3>1. \A k \in Jobs : Active(jobs[k]) => jobs[k].stream # s
      BY <1>1 DEF ActiveJobs
    <3>2. \A d \in Clients : tx'[d].pc # "conflicted"
      BY <1>6 DEF IInv, LockInv, OneActiveJobPerStream
    <3>3. QED
      BY <1>4, <1>5, <3>1, <3>2 DEF IInv, LockInv, OneActiveJobPerStream
  <2>4. QED
    BY <2>1, <2>2, <2>3 DEF LockInv
<1>9. \A v \in Workers : held[v] # NoLease => held[v].job # j
  BY <1>3 DEF IInv, LeaseInv, TokenInv
<1>10. LeaseInv'
  <2>1. TokenInv'
    BY <1>2, <1>4, <1>5, <1>9 DEF IInv, TypeOK, LeaseInv, TokenInv
  <2>2. ConstraintsHold'
    BY <1>4, <1>5 DEF IInv, LeaseInv, ConstraintsHold
  <2>3. FencedByAttempt'
    BY <1>2, <1>5, <1>9 DEF IInv, LeaseInv, TokenInv, FencedByAttempt
  <2>4. QED
    BY <2>1, <2>2, <2>3 DEF LeaseInv
<1>11. QED
  BY <1>7, <1>8, <1>10 DEF IInv

-----------------------------------------------------------------------------
(* The inductive invariant *)

LEMMA InitIInv == Init => IInv
<1> SUFFICES ASSUME Init PROVE IInv
  OBVIOUS
<1>1. TypeOK
  BY DEF Init, TypeOK, AbsentRow, JobRow, NoLease, Lease, Idle, Transaction
<1>2. LockInv
  BY DEF Init, LockInv, RowStreamInv, InTransaction, OneActiveJobPerStream,
         AbsentRow, Idle, Active, ActiveStatus
<1>3. LeaseInv
  BY DEF Init, LeaseInv, TokenInv, ConstraintsHold, FencedByAttempt,
         RowConstraints, AbsentRow
<1>4. QED
  BY <1>1, <1>2, <1>3 DEF IInv

LEMMA NextIInv == IInv /\ [Next]_vars => IInv'
<1> SUFFICES ASSUME IInv, [Next]_vars PROVE IInv'
  OBVIOUS
<1>1. ASSUME NEW c \in Clients, Client(c) PROVE IInv'
  <2>1. ASSUME NEW s \in Streams, StartBegin(c, s) PROVE IInv'
    BY <2>1, BeginStep DEF StartBegin
  <2>2. ASSUME NEW j \in Jobs, RetryBegin(c, j) PROVE IInv'
    <3>1. jobs[j].stream \in Streams
      BY <2>2 DEF RetryBegin, IInv, LockInv, RowStreamInv
    <3>2. QED
      BY <2>2, <3>1, BeginStep DEF RetryBegin
  <2>3. CASE LockStream(c)
    BY <2>3, LockStreamStep
  <2>4. CASE CheckActive(c)
    BY <2>4, CheckActiveStep
  <2>5. CASE InsertJob(c)
    BY <2>5, InsertJobStep
  <2>6. CASE AbortTransaction(c)
    BY <2>6, EndTransactionStep DEF AbortTransaction
  <2>7. QED
    BY <1>1, <2>1, <2>2, <2>3, <2>4, <2>5, <2>6 DEF Client
<1>2. ASSUME NEW w \in Workers, Worker(w) PROVE IInv'
  <2>1. CASE ClaimNext(w)
    BY <2>1, ClaimStep
  <2>2. CASE Heartbeat(w) \/ RecordProgress(w) \/ MarkSucceeded(w) \/ MarkFailed(w)
    BY <2>2, OwnerStatements, OwnerUpdateStep DEF IInv, LeaseInv
  <2>3. CASE Abandon(w)
    BY <2>3, AbandonStep
  <2>4. QED
    BY <1>2, <2>1, <2>2, <2>3 DEF Worker
<1>3. CASE UNCHANGED vars
  BY <1>3 DEF vars, IInv, TypeOK, LockInv, RowStreamInv, InTransaction, ActiveJobs,
     OneActiveJobPerStream, LeaseInv, TokenInv, ConstraintsHold, FencedByAttempt
<1>4. QED
  BY <1>1, <1>2, <1>3 DEF Next

LEMMA Invariance == Spec => []IInv
BY InitIInv, NextIInv, PTL DEF Spec

\* Every variable of the queue keeps the type that its declaration states.
THEOREM TypeCorrect == Spec => []TypeOK
<1>1. IInv => TypeOK
  BY DEF IInv
<1>2. QED
  BY <1>1, Invariance, PTL

\* No statement of the API or of a worker fails a CHECK constraint.
THEOREM ConstraintsAlwaysHold == Spec => []ConstraintsHold
<1>1. IInv => ConstraintsHold
  BY DEF IInv, LeaseInv
<1>2. QED
  BY <1>1, Invariance, PTL

\* The stream lock alone keeps a stream to one unfinished job: the unique index
\* is never hit, whatever the number of requests, workers and streams.
THEOREM StreamLockSuffices == Spec => []OneActiveJobPerStream
<1>1. IInv => OneActiveJobPerStream
  BY DEF IInv, LockInv
<1>2. QED
  BY <1>1, Invariance, PTL

\* The token in a row is remembered only by the claimant of its latest attempt.
THEOREM TokenFences == Spec => []FencedByAttempt
<1>1. IInv => FencedByAttempt
  BY DEF IInv, LeaseInv
<1>2. QED
  BY <1>1, Invariance, PTL

-----------------------------------------------------------------------------
(* Action properties and refinement: every change of the table is one of     *)
(* three kinds. *)

Inserts ==
  \E c \in Clients, j \in Jobs :
    /\ ActiveJobs(tx[c].stream) = {}
    /\ tx[c].stream \in Streams
    /\ jobs[j].status = "absent"
    /\ jobs' = [jobs EXCEPT ![j] = QueuedRow(tx[c].stream, tx[c].requested)]
    /\ tx[c].requested \in Nat

LEMMA TableChanges ==
  ASSUME IInv, [Next]_vars
  PROVE  \/ UNCHANGED jobs
         \/ Inserts
         \/ \E w \in Workers : OwnerUpdate(w)
         \/ \E w \in Workers : ClaimNext(w)
<1>1. ASSUME NEW c \in Clients, Client(c) PROVE UNCHANGED jobs \/ Inserts
  <2>1. CASE InsertJob(c)
    <3>1. /\ ActiveJobs(tx[c].stream) = {} /\ tx[c].stream \in Streams
          /\ tx[c].requested \in Nat
      BY <2>1 DEF InsertJob, IInv, LockInv, InTransaction, TypeOK, Transaction
    <3>2. QED
      BY <2>1, <3>1 DEF InsertJob, Inserts
  <2>2. CASE ~InsertJob(c)
    BY <1>1, <2>2 DEF Client, StartBegin, RetryBegin, Begin, LockStream,
                      CheckActive, AbortTransaction
  <2>3. QED
    BY <2>1, <2>2
<1>2. ASSUME NEW w \in Workers, Worker(w)
      PROVE  UNCHANGED jobs \/ OwnerUpdate(w) \/ ClaimNext(w)
  <2>1. CASE Heartbeat(w) \/ RecordProgress(w) \/ MarkSucceeded(w) \/ MarkFailed(w)
    BY <2>1, OwnerStatements DEF IInv, LeaseInv
  <2>2. CASE ClaimNext(w) \/ Abandon(w)
    BY <2>2 DEF Abandon
  <2>3. QED
    BY <1>2, <2>1, <2>2 DEF Worker
<1>3. QED
  BY <1>1, <1>2 DEF Next, vars

\* A finished job never changes again, whatever late workers and requests do.
THEOREM FinishedIsFinal == Spec => TerminalIsFinal
<1> DEFINE Final == \A j \in Jobs : Terminal(jobs[j]) => jobs'[j] = jobs[j]
<1>1. ASSUME IInv, [Next]_vars PROVE Final
  <2>1. CASE UNCHANGED jobs
    BY <2>1
  <2>2. CASE Inserts
    BY <1>1, <2>2 DEF Inserts, IInv, TypeOK, Terminal, TerminalStatus
  <2>3. ASSUME NEW w \in Workers, OwnerUpdate(w) PROVE Final
    BY <1>1, <2>3 DEF OwnerUpdate, IInv, TypeOK, Terminal, TerminalStatus
  <2>4. ASSUME NEW w \in Workers, ClaimNext(w) PROVE Final
    <3>1. PICK k \in Jobs, new \in JobRow :
            Active(jobs[k]) /\ jobs' = [jobs EXCEPT ![k] = new]
      BY <1>1, <2>4, ClaimStatement DEF IInv, LeaseInv
    <3>2. QED
      BY <1>1, <3>1 DEF IInv, TypeOK, Terminal, TerminalStatus, Active, ActiveStatus
  <2>5. QED
    BY <1>1, <2>1, <2>2, <2>3, <2>4, TableChanges
<1>2. QED
  BY <1>1, Invariance, PTL DEF Spec, TerminalIsFinal

\* Only the claimant of the latest attempt decides the outcome of a job.
THEOREM OutcomeIsFenced == Spec => OutcomeFromLatestAttempt
<1> DEFINE Reported(j) == \E w \in Workers : /\ held[w].job = j
                                             /\ held[w].attempt = jobs[j].attempt
                                             /\ held'[w] = NoLease
           Fenced == \A j \in Jobs :
                       Active(jobs[j]) /\ Terminal(jobs'[j]) => Reported(j)
<1>1. ASSUME IInv, [Next]_vars PROVE Fenced
  <2>1. CASE UNCHANGED jobs
    BY <2>1 DEF Active, ActiveStatus, Terminal, TerminalStatus
  <2>2. CASE Inserts
    BY <1>1, <2>2 DEF Inserts, IInv, TypeOK, Active, ActiveStatus, Terminal,
                      TerminalStatus
  <2>3. ASSUME NEW w \in Workers, OwnerUpdate(w) PROVE Fenced
    <3>1. /\ held[w].job \in Jobs
          /\ \A j \in Jobs : j # held[w].job => jobs'[j] = jobs[j]
          /\ Terminal(jobs'[held[w].job]) => held' = [held EXCEPT ![w] = NoLease]
      BY <1>1, <2>3 DEF OwnerUpdate, IInv, TypeOK, Terminal, TerminalStatus
    <3>2. held[w].attempt = jobs[held[w].job].attempt
      BY <1>1, <2>3 DEF OwnerUpdate, IInv, LeaseInv, FencedByAttempt
    <3>3. held' = [held EXCEPT ![w] = NoLease] => held'[w] = NoLease
      BY <1>1 DEF IInv, TypeOK
    <3>4. QED
      BY <3>1, <3>2, <3>3 DEF Active, ActiveStatus, Terminal, TerminalStatus
  <2>4. ASSUME NEW w \in Workers, ClaimNext(w) PROVE Fenced
    <3>1. PICK k \in Jobs, new \in JobRow :
            new.status = "running" /\ jobs' = [jobs EXCEPT ![k] = new]
      BY <1>1, <2>4, ClaimStatement DEF IInv, LeaseInv
    <3>2. QED
      BY <1>1, <3>1 DEF IInv, TypeOK, Terminal, TerminalStatus, Active, ActiveStatus
  <2>5. QED
    BY <1>1, <2>1, <2>2, <2>3, <2>4, TableChanges
<1>2. QED
  BY <1>1, Invariance, PTL DEF Spec, OutcomeFromLatestAttempt

\* A job's published counts never decrease while it is unfinished.
THEOREM CountsNeverDecrease == Spec => ProgressMonotone
<1> DEFINE Monotone ==
             \A j \in Jobs : jobs[j].status # "absent" /\ Active(jobs'[j]) =>
               /\ jobs'[j].processed >= jobs[j].processed
               /\ jobs'[j].skipped >= jobs[j].skipped
<1>1. ASSUME IInv, [Next]_vars PROVE Monotone
  <2>0. \A j \in Jobs : jobs[j].processed \in Nat /\ jobs[j].skipped \in Nat
    BY <1>1 DEF IInv, TypeOK, JobRow
  <2>1. CASE UNCHANGED jobs
    BY <2>0, <2>1
  <2>2. CASE Inserts
    BY <1>1, <2>0, <2>2 DEF Inserts, IInv, TypeOK
  <2>3. ASSUME NEW w \in Workers, OwnerUpdate(w) PROVE Monotone
    BY <1>1, <2>0, <2>3 DEF OwnerUpdate, IInv, TypeOK, Active, ActiveStatus
  <2>4. ASSUME NEW w \in Workers, ClaimNext(w) PROVE Monotone
    <3>1. PICK k \in Jobs, new \in JobRow :
            /\ jobs' = [jobs EXCEPT ![k] = new]
            /\ new.processed = jobs[k].processed
            /\ new.skipped = jobs[k].skipped
      BY <1>1, <2>4, ClaimStatement DEF IInv, LeaseInv
    <3>2. QED
      BY <1>1, <2>0, <3>1 DEF IInv, TypeOK
  <2>5. QED
    BY <1>1, <2>1, <2>2, <2>3, <2>4, TableChanges
<1>2. QED
  BY <1>1, Invariance, PTL DEF Spec, ProgressMonotone

-----------------------------------------------------------------------------
(* The queue implements JobLifecycle.  Under the refinement mapping an insert *)
(* is a Request, a claim an Attempt, and a statement of a lease holder a      *)
(* Finish or a stuttering step.                                              *)

LifeOf(row) ==
  [stream |-> row.stream, phase |-> row.status, attempt |-> row.attempt]
life == [j \in Jobs |-> LifeOf(jobs[j])]

LEMMA LifeChange ==
  ASSUME TypeOK, NEW j \in Jobs, NEW new \in JobRow, jobs' = [jobs EXCEPT ![j] = new]
  PROVE  life' = [life EXCEPT ![j] = LifeOf(new)]
BY DEF TypeOK, life

LEMMA LifeIsMapped ==
  life = [j \in Jobs |-> [stream |-> jobs[j].stream, phase |-> jobs[j].status,
                          attempt |-> jobs[j].attempt]]
BY DEF life, LifeOf

LEMMA LifecycleInit == Init => Lifecycle!Init
BY DEF Init, Lifecycle!Init, AbsentRow

LEMMA LifecycleStep ==
  ASSUME IInv, [Next]_vars
  PROVE  [Lifecycle!Next]_life
<1>1. CASE UNCHANGED jobs
  BY <1>1 DEF life
<1>2. CASE Inserts
  <2>1. PICK c \in Clients, j \in Jobs :
          /\ ActiveJobs(tx[c].stream) = {}
          /\ tx[c].stream \in Streams
          /\ jobs[j].status = "absent"
          /\ jobs' = [jobs EXCEPT ![j] = QueuedRow(tx[c].stream, tx[c].requested)]
          /\ tx[c].requested \in Nat
    BY <1>2 DEF Inserts
  <2>2. PICK target \in Streams : target = tx[c].stream
    BY <2>1
  <2> DEFINE new == QueuedRow(target, tx[c].requested)
  <2>3. /\ new \in JobRow /\ new.status = "queued"
        /\ new.stream = target /\ new.attempt = 0
    BY <2>1, NewRow
  <2>4. \A k \in Jobs : jobs[k].stream = target => ~Active(jobs[k])
    BY <2>1, <2>2 DEF ActiveJobs
  <2>5. life' = [life EXCEPT ![j] = [stream |-> target, phase |-> "queued",
                                     attempt |-> 0]]
    BY <2>1, <2>2, <2>3, LifeChange DEF IInv, LifeOf
  <2>6. Lifecycle!Request(j, target)
    BY <2>1, <2>4, <2>5 DEF Lifecycle!Request, Lifecycle!Unfinished, life, LifeOf,
                            Active, ActiveStatus
  <2>7. QED
    BY <2>6 DEF Lifecycle!Next
<1>3. ASSUME NEW w \in Workers, OwnerUpdate(w) PROVE [Lifecycle!Next]_life
  <2> DEFINE j == held[w].job
  <2>1. j \in Jobs /\ jobs[j].status = "running"
    BY <1>3 DEF OwnerUpdate
  <2>2. PICK new \in JobRow :
          /\ jobs' = [jobs EXCEPT ![j] = new]
          /\ new.status \in {"running", "succeeded", "failed"}
          /\ new.stream = jobs[j].stream
          /\ new.attempt = jobs[j].attempt
    BY <1>3 DEF OwnerUpdate
  <2>3. life' = [life EXCEPT ![j] = LifeOf(new)] /\ life[j] = LifeOf(jobs[j])
    BY <2>1, <2>2, LifeChange DEF IInv, life
  <2>4. CASE new.status = "running"
    BY <2>1, <2>2, <2>3, <2>4 DEF LifeOf, life
  <2>5. CASE new.status \in {"succeeded", "failed"}
    <3>1. Lifecycle!Finish(j, new.status)
      BY <2>1, <2>2, <2>3, <2>5 DEF Lifecycle!Finish, LifeOf, life
    <3>2. QED
      BY <2>1, <2>5, <3>1 DEF Lifecycle!Next
  <2>6. QED
    BY <2>2, <2>4, <2>5
<1>4. ASSUME NEW w \in Workers, ClaimNext(w) PROVE [Lifecycle!Next]_life
  <2>1. PICK j \in Jobs, new \in JobRow :
          /\ Active(jobs[j])
          /\ jobs' = [jobs EXCEPT ![j] = new]
          /\ new.status = "running"
          /\ new.attempt = jobs[j].attempt + 1
          /\ new.stream = jobs[j].stream
    BY <1>4, ClaimStatement DEF IInv, LeaseInv
  <2>2. life' = [life EXCEPT ![j] = LifeOf(new)] /\ life[j] = LifeOf(jobs[j])
    BY <2>1, LifeChange DEF IInv, life
  <2>3. Lifecycle!Attempt(j)
    BY <2>1, <2>2 DEF Lifecycle!Attempt, Lifecycle!Unfinished, Active, ActiveStatus,
                      LifeOf, life
  <2>4. QED
    BY <2>1, <2>3 DEF Lifecycle!Next
<1>5. QED
  BY <1>1, <1>2, <1>3, <1>4, TableChanges

\* The job queue implements the lifecycle that JobLifecycle specifies.
THEOREM QueueImplementsLifecycle == Spec => ImplementsLifecycle
BY LifeIsMapped, LifecycleInit, LifecycleStep, Invariance, PTL
   DEF Spec, ImplementsLifecycle, Lifecycle!Spec, life, LifeOf
=============================================================================
