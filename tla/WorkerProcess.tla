---------------------------- MODULE WorkerProcess ----------------------------
(***************************************************************************)
(* The collection worker as operating system processes: the main thread of  *)
(* ClaimLoop, the heartbeat thread of each attempt, the process-wide        *)
(* cancellation event, signals, crashes, and the supervisor that restarts a *)
(* process that ended.                                                      *)
(*                                                                         *)
(* The job table is reduced to what the loop depends on.  The attempt number *)
(* stands for the lease token (JobQueue shows that the token identifies the *)
(* attempt), and a lease is live or expired.  A live lease of an attempt     *)
(* that somebody serves expires only by a delay: heartbeats are sent every   *)
(* 30 s for a lease of 120 s.  Which of several claimable jobs is claimed is *)
(* left open.                                                               *)
(***************************************************************************)
EXTENDS Naturals

CONSTANTS
  Jobs,
  Processes,  \* worker processes, each with its own supervisor
  NULL,
  MaxFaults   \* bound: signals, crashes, failed calls and delays

ASSUME NullIsNoJob == NULL \notin Jobs
ASSUME MaxFaultsIsNumber == MaxFaults \in Nat

VARIABLES
  row,       \* job -> its row in the table
  proc,      \* process -> the state of its threads
  returned,  \* <<job, attempt, outcome>> that some runner has returned
  faults,    \* number of faults so far
  delayed    \* a live lease has expired under the process that served it

vars == <<row, proc, returned, faults, delayed>>

Row ==
  [status  : {"absent", "queued", "running", "succeeded", "failed"},
   attempt : Nat,
   lease   : {"none", "live", "expired"}]

NoClaim == [job |-> NULL, attempt |-> 0]

Process ==
  [main         : {"polling", "claiming", "running", "joining", "finishing",
                   "down"},
   cancellation : BOOLEAN,  \* the Event set by a signal or a lost heartbeat
   beat         : {"off", "waiting", "calling", "ended"},
   beatError    : BOOLEAN,  \* heartbeat_error is not empty
   claim        : [job : Jobs \union {NULL}, attempt : Nat],
   result       : {"none", "succeeded", "failed", "cancelled", "error"}]

Started ==
  [main |-> "polling", cancellation |-> FALSE, beat |-> "off",
   beatError |-> FALSE, claim |-> NoClaim, result |-> "none"]
Down == [Started EXCEPT !.main = "down"]

TypeOK ==
  /\ row \in [Jobs -> Row]
  /\ proc \in [Processes -> Process]
  /\ returned \subseteq Jobs \X Nat \X {"succeeded", "failed"}
  /\ faults \in 0 .. MaxFaults
  /\ delayed \in BOOLEAN

Init ==
  /\ row = [j \in Jobs |-> [status |-> "absent", attempt |-> 0,
                            lease |-> "none"]]
  /\ proc = [p \in Processes |-> Started]
  /\ returned = {}
  /\ faults = 0
  /\ delayed = FALSE

Fault == faults < MaxFaults /\ faults' = faults + 1
NoFault == UNCHANGED faults

-----------------------------------------------------------------------------
(* The table *)

Unfinished(j) == row[j].status \in {"queued", "running"}

\* Faulty variant: a claim that does not look at the lease of a running job.
ClaimableAnyway(j) == Unfinished(j)

\* Faulty variant: a claim that never takes over an abandoned job.
ClaimableQueued(j) == row[j].status = "queued"

Claimable(j) ==
  \/ row[j].status = "queued"
  \/ row[j].status = "running" /\ row[j].lease = "expired"

\* The WHERE clause of heartbeat and mark_*.
Owns(p) ==
  LET claim == proc[p].claim IN
    /\ claim # NoClaim
    /\ row[claim.job].status = "running"
    /\ row[claim.job].attempt = claim.attempt
    /\ row[claim.job].lease = "live"

Served(j) ==
  \E p \in Processes : proc[p].claim = [job |-> j, attempt |-> row[j].attempt]

Request(j) ==
  /\ row[j].status = "absent"
  /\ row' = [row EXCEPT ![j].status = "queued"]
  /\ NoFault
  /\ UNCHANGED <<proc, returned, delayed>>

Expires(j) ==
  /\ row[j].status = "running"
  /\ row[j].lease = "live"
  /\ row' = [row EXCEPT ![j].lease = "expired"]
  /\ UNCHANGED <<proc, returned>>

ExpireUnserved(j) ==
  /\ ~Served(j)
  /\ Expires(j)
  /\ NoFault
  /\ UNCHANGED delayed

\* A paused process, a slow database or a clock that is wrong.
ExpireServed(j) ==
  /\ Served(j)
  /\ Expires(j)
  /\ Fault
  /\ delayed' = TRUE

-----------------------------------------------------------------------------
(* The main thread *)

Stop(p) == proc' = [proc EXCEPT ![p] = Down]

\* Faulty variant: a loop that keeps polling after a shutdown request.
PollIgnoringCancellation(p) ==
  /\ proc[p].main = "polling"
  /\ proc' = [proc EXCEPT ![p].main = "claiming"]
  /\ NoFault
  /\ UNCHANGED <<row, returned, delayed>>

\* run_until_cancelled and the first lines of run_once.
Poll(p) ==
  /\ proc[p].main = "polling"
  /\ IF proc[p].cancellation
       THEN Stop(p)
       ELSE proc' = [proc EXCEPT ![p].main = "claiming"]
  /\ NoFault
  /\ UNCHANGED <<row, returned, delayed>>

ClaimedRow(j) ==
  [status |-> "running", attempt |-> row[j].attempt + 1, lease |-> "live"]

\* claim_next, and the start of the heartbeat thread and of the runner.
ClaimNext(p) ==
  /\ proc[p].main = "claiming"
  /\ \/ \E j \in Jobs :
          /\ Claimable(j)
          /\ row' = [row EXCEPT ![j] = ClaimedRow(j)]
          /\ proc' = [proc EXCEPT
               ![p] = [@ EXCEPT
                 !.main = "running", !.beat = "waiting",
                 !.claim = [job |-> j, attempt |-> row[j].attempt + 1]]]
     \/ /\ \A j \in Jobs : ~Claimable(j)
        /\ proc' = [proc EXCEPT ![p].main = "polling"]
        /\ UNCHANGED row
  /\ NoFault
  /\ UNCHANGED <<returned, delayed>>

\* The database call fails, perhaps after the claim was committed: the process
\* ends and nobody serves the claimed job.
ClaimCallFails(p) ==
  /\ proc[p].main = "claiming"
  /\ \/ \E j \in Jobs : Claimable(j) /\ row' = [row EXCEPT ![j] = ClaimedRow(j)]
     \/ UNCHANGED row
  /\ Stop(p)
  /\ Fault
  /\ UNCHANGED <<returned, delayed>>

\* The runner returns a result or raises, and heartbeat_stop is set.
\* CollectionCancelled is raised only when the event is set, but a runner that
\* has passed its last check still returns a result.
RunnerEnds(p, result) ==
  /\ proc[p].main = "running"
  /\ proc' = [proc EXCEPT ![p] = [@ EXCEPT !.main = "joining",
                                           !.result = result]]
  /\ UNCHANGED <<row, delayed>>

RunnerReturns(p) ==
  /\ \/ \E outcome \in {"succeeded", "failed"} :
          /\ RunnerEnds(p, outcome)
          /\ returned' = returned \union
               {<<proc[p].claim.job, proc[p].claim.attempt, outcome>>}
     \/ /\ proc[p].cancellation
        /\ RunnerEnds(p, "cancelled")
        /\ UNCHANGED returned
  /\ NoFault

\* An exception that is not a CollectionFailure leaves the collector.
RunnerRaises(p) ==
  /\ RunnerEnds(p, "error")
  /\ Fault
  /\ UNCHANGED returned

\* Faulty variant: goes on without waiting for the heartbeat thread.
JoinWithoutWaiting(p) ==
  /\ proc[p].main = "joining"
  /\ IF proc[p].beatError \/ proc[p].result \in {"cancelled", "error"}
       THEN Stop(p)
       ELSE proc' = [proc EXCEPT ![p].main = "finishing"]
  /\ NoFault
  /\ UNCHANGED <<row, returned, delayed>>

\* Faulty variant: turns every exception of the runner into a failed job.
JoinReportingCancelled(p) ==
  /\ proc[p].main = "joining"
  /\ proc[p].beat = "ended"
  /\ proc' = [proc EXCEPT ![p] =
               [@ EXCEPT !.main = "finishing",
                         !.result = IF @ = "succeeded" THEN @ ELSE "failed"]]
  /\ NoFault
  /\ UNCHANGED <<row, returned, delayed>>

\* heartbeat_thread.join(), then the runner's exception or the heartbeat's is
\* raised and ends the process.
Join(p) ==
  /\ proc[p].main = "joining"
  /\ proc[p].beat = "ended"
  /\ IF proc[p].beatError \/ proc[p].result \in {"cancelled", "error"}
       THEN Stop(p)
       ELSE proc' = [proc EXCEPT ![p].main = "finishing"]
  /\ NoFault
  /\ UNCHANGED <<row, returned, delayed>>

FinishedRow(p) ==
  [row EXCEPT ![proc[p].claim.job] =
     [@ EXCEPT !.status = proc[p].result, !.lease = "none"]]

\* mark_succeeded or mark_failed.  LeaseLostError ends the process.
Finish(p) ==
  /\ proc[p].main = "finishing"
  /\ IF Owns(p)
       THEN /\ row' = FinishedRow(p)
            /\ proc' = [proc EXCEPT ![p] =
                 [Started EXCEPT !.cancellation = proc[p].cancellation,
                                 !.beat = IF proc[p].beat = "ended" THEN "off"
                                          ELSE proc[p].beat]]
       ELSE Stop(p) /\ UNCHANGED row
  /\ NoFault
  /\ UNCHANGED <<returned, delayed>>

\* The database call fails, perhaps after its transaction was committed.
FinishCallFails(p) ==
  /\ proc[p].main = "finishing"
  /\ \/ Owns(p) /\ row' = FinishedRow(p)
     \/ UNCHANGED row
  /\ Stop(p)
  /\ Fault
  /\ UNCHANGED <<returned, delayed>>

-----------------------------------------------------------------------------
(* The heartbeat thread *)

\* heartbeat_stop.wait(interval) times out.
BeatDue(p) ==
  /\ proc[p].beat = "waiting"
  /\ proc[p].main = "running"
  /\ proc' = [proc EXCEPT ![p].beat = "calling"]
  /\ NoFault
  /\ UNCHANGED <<row, returned, delayed>>

BeatFailed(p) ==
  proc' = [proc EXCEPT ![p] = [@ EXCEPT !.beat = "ended", !.beatError = TRUE,
                                        !.cancellation = TRUE]]

\* Renews the live lease, or raises LeaseLostError.
BeatCall(p) ==
  /\ proc[p].beat = "calling"
  /\ IF Owns(p)
       THEN proc' = [proc EXCEPT ![p].beat = "waiting"]
       ELSE BeatFailed(p)
  /\ NoFault
  /\ UNCHANGED <<row, returned, delayed>>

BeatCallFails(p) ==
  /\ proc[p].beat = "calling"
  /\ BeatFailed(p)
  /\ Fault
  /\ UNCHANGED <<row, returned, delayed>>

\* heartbeat_stop.wait returns because the event is set.
BeatStops(p) ==
  /\ proc[p].beat = "waiting"
  /\ proc[p].main # "running"
  /\ proc' = [proc EXCEPT ![p].beat = "ended"]
  /\ NoFault
  /\ UNCHANGED <<row, returned, delayed>>

-----------------------------------------------------------------------------
(* Signals, crashes and the supervisor *)

Signal(p) ==
  /\ proc[p].main # "down"
  /\ proc' = [proc EXCEPT ![p].cancellation = TRUE]
  /\ Fault
  /\ UNCHANGED <<row, returned, delayed>>

Crash(p) ==
  /\ proc[p].main # "down"
  /\ Stop(p)
  /\ Fault
  /\ UNCHANGED <<row, returned, delayed>>

Restart(p) ==
  /\ proc[p].main = "down"
  /\ proc' = [proc EXCEPT ![p] = Started]
  /\ NoFault
  /\ UNCHANGED <<row, returned, delayed>>

-----------------------------------------------------------------------------
Loop(p) ==
  \/ Poll(p)
  \/ ClaimNext(p)
  \/ RunnerReturns(p)
  \/ Join(p)
  \/ Finish(p)

Beat(p) == BeatDue(p) \/ BeatCall(p) \/ BeatStops(p)

Disturb(p) ==
  \/ ClaimCallFails(p)
  \/ RunnerRaises(p)
  \/ FinishCallFails(p)
  \/ BeatCallFails(p)
  \/ Signal(p)
  \/ Crash(p)

Next ==
  \/ \E j \in Jobs : Request(j) \/ ExpireUnserved(j) \/ ExpireServed(j)
  \/ \E p \in Processes : Loop(p) \/ Beat(p) \/ Disturb(p) \/ Restart(p)

Spec == Init /\ [][Next]_vars

(* Fairness.  Threads are scheduled; a runner returns because yt-dlp has a   *)
(* deadline and an artifact is finite; time passes, so a lease that nobody    *)
(* renews expires; and the deployment restarts a worker that ended.  Nothing *)
(* obliges anybody to request a job or a heartbeat to fall due.              *)
Fairness ==
  /\ \A p \in Processes :
       /\ WF_vars(Loop(p))
       /\ WF_vars(BeatCall(p) \/ BeatStops(p))
       /\ WF_vars(Restart(p))
  /\ \A j \in Jobs : WF_vars(ExpireUnserved(j))

FairSpec == Spec /\ Fairness

-----------------------------------------------------------------------------
(* Properties *)

\* Without a fault no process cancels itself or ends: in particular the last
\* heartbeat of an attempt never meets the row that its own main thread has
\* already finished, which would set the process-wide cancellation event.
NoSelfInflictedStop ==
  faults = 0 => \A p \in Processes : proc[p].main # "down"
                                     /\ ~proc[p].cancellation

\* As long as no lease expires under the process that serves it, a job is
\* attempted by one process at a time, through crashes, restarts, lost replies
\* of claims and shutdowns.
ExclusiveAttempts ==
  ~delayed => \A p, q \in Processes :
                proc[p].claim.job = proc[q].claim.job
                /\ proc[p].claim # NoClaim => p = q

\* The outcome in the table is the one that the runner of the job's latest
\* attempt returned: an attempt that was cancelled, that crashed or that lost
\* its lease leaves no outcome behind.
OutcomeWasReturned ==
  \A j \in Jobs : row[j].status \in {"succeeded", "failed"} =>
    <<j, row[j].attempt, row[j].status>> \in returned

\* The states a process, its threads and its job may be in together.
AttemptInv ==
  /\ TypeOK
  /\ ExclusiveAttempts
  /\ NoSelfInflictedStop
  /\ OutcomeWasReturned

\* Every requested job reaches an outcome once the faults cease.
JobsFinish ==
  \A j \in Jobs : Unfinished(j) ~> row[j].status \in {"succeeded", "failed"}

\* A process that was told to stop, or that lost a heartbeat, does stop.
ShutdownCompletes ==
  \A p \in Processes : proc[p].cancellation ~> proc[p].main = "down"
=============================================================================
