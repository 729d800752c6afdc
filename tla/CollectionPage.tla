---------------------------- MODULE CollectionPage ----------------------------
(***************************************************************************)
(* CollectionWorkspace of the web application (App.tsx): the page that shows *)
(* the latest collection job of a stream, starts or retries one, and polls   *)
(* while it is active.  Requests take any time, may fail before or after the *)
(* API has handled them, and other users and workers act meanwhile.          *)
(*                                                                         *)
(* The API is reduced to the latest job of the stream: how many jobs there   *)
(* have been and the status of the last one (JobQueue models the rest).  An  *)
(* effect and its clean-up belong to the state change that causes them.  The *)
(* page stays with one stream: that App puts another one in its place, when  *)
(* a registration ends behind it, is not modelled.                          *)
(***************************************************************************)
EXTENDS Naturals

CONSTANT MaxJobs  \* bound: collection jobs of the stream

VARIABLES
  latest,      \* the latest job: [job, status], job 0 if there is none
  collection,  \* what the page shows: a job, or job 0 for "loading" and null
  submitting,  \* isSubmitting
  timer,       \* the timeout of the next poll is set
  load,        \* the request of the first effect
  poll,        \* the request of the polling effect
  submit,      \* the request of the button
  open         \* the page is mounted

vars == <<latest, collection, submitting, timer, load, poll, submit, open>>

\* "failed" may be retried, "unretryable" is a failure that may not.
Final == {"succeeded", "failed", "unretryable"}
Job == [job : 0 .. MaxJobs,
        status : {"none", "queued", "running"} \union Final]

NoJob == [job |-> 0, status |-> "none"]
Active(job) == job.status \in {"queued", "running"}

\* The first answer has not arrived.
Undefined == [job |-> 0, status |-> "undefined"]

\* A request is sent, then handled by the API; NoJob is a problem response.
Request == [state : {"idle", "sent", "handled"}, answer : Job]
Idle == [state |-> "idle", answer |-> NoJob]
Sent == [state |-> "sent", answer |-> NoJob]
Handled(job) == [state |-> "handled", answer |-> job]

TypeOK ==
  /\ latest \in Job
  /\ collection \in Job \union {Undefined}
  /\ submitting \in BOOLEAN
  /\ timer \in BOOLEAN
  /\ load \in Request /\ poll \in Request /\ submit \in Request
  /\ open \in BOOLEAN

page == <<collection, submitting, timer, load, poll, submit, open>>

\* What the component sets up when it is mounted.
Mounted ==
  /\ collection' = Undefined
  /\ submitting' = FALSE
  /\ timer' = FALSE
  /\ load' = Sent
  /\ poll' = Idle
  /\ submit' = Idle

Init ==
  /\ open \in BOOLEAN
  /\ latest \in [job : {0}, status : {"none"}]
       \union [job : {1}, status : {"queued", "running"} \union Final]
  /\ collection = Undefined
  /\ submitting = FALSE
  /\ timer = FALSE
  /\ load = IF open THEN Sent ELSE Idle
  /\ poll = Idle
  /\ submit = Idle

-----------------------------------------------------------------------------
(* Everybody else *)

NewJob == [job |-> latest.job + 1, status |-> "queued"]

OtherUserStarts ==
  /\ ~Active(latest)
  /\ latest.job < MaxJobs
  /\ latest' = NewJob
  /\ UNCHANGED page

WorkerActs ==
  /\ \/ latest.status = "queued" /\ latest' = [latest EXCEPT !.status = "running"]
     \/ /\ latest.status = "running"
        /\ \E status \in Final : latest' = [latest EXCEPT !.status = status]
  /\ UNCHANGED page

-----------------------------------------------------------------------------
(* The API *)

HandleLoad ==
  /\ load.state = "sent"
  /\ load' = Handled(latest)
  /\ UNCHANGED <<latest, collection, submitting, timer, poll, submit, open>>

HandlePoll ==
  /\ poll.state = "sent"
  /\ poll' = Handled(latest)
  /\ UNCHANGED <<latest, collection, submitting, timer, load, submit, open>>

\* Start or Retry: a new job, or the problem that one is active.
HandleSubmit ==
  /\ submit.state = "sent"
  /\ IF ~Active(latest)
     THEN /\ latest.job < MaxJobs
          /\ latest' = NewJob
          /\ submit' = Handled(NewJob)
     ELSE /\ submit' = Handled(NoJob)
          /\ UNCHANGED latest
  /\ UNCHANGED <<collection, submitting, timer, load, poll, open>>

-----------------------------------------------------------------------------
(* The page *)

\* setCollection outside the polling effect: the effect begins to poll when the
\* job becomes active, and its clean-up ends it when it ceases to be.
Show(job) ==
  /\ collection' = job
  /\ timer' = (Active(job) /\ (timer \/ ~Active(collection)))
  /\ poll' = IF Active(job) THEN poll ELSE Idle

LoadArrives ==
  /\ load.state = "handled"
  /\ load' = Idle
  /\ Show(load.answer)
  /\ UNCHANGED <<latest, submitting, submit, open>>

\* Nothing repeats the first request: the page goes on to say it is loading.
LoadFails ==
  /\ load.state # "idle"
  /\ load' = Idle
  /\ UNCHANGED <<latest, collection, submitting, timer, poll, submit, open>>

TimerFires ==
  /\ timer
  /\ timer' = FALSE
  /\ poll' = Sent
  /\ UNCHANGED <<latest, collection, submitting, load, submit, open>>

\* Faulty variant: the effect alone is expected to schedule the next poll.
PollArrivesOnce ==
  /\ poll.state = "handled"
  /\ collection' = poll.answer
  /\ poll' = Idle
  /\ UNCHANGED <<latest, submitting, timer, load, submit, open>>

PollArrives ==
  /\ poll.state = "handled"
  /\ collection' = poll.answer
  /\ poll' = Idle
  /\ timer' = Active(poll.answer)
  /\ UNCHANGED <<latest, submitting, load, submit, open>>

\* Faulty variant: an error ends the polling.
PollFailsForGood ==
  /\ poll.state # "idle"
  /\ poll' = Idle
  /\ UNCHANGED <<latest, collection, submitting, timer, load, submit, open>>

PollFails ==
  /\ poll.state # "idle"
  /\ poll' = Idle
  /\ timer' = TRUE
  /\ UNCHANGED <<latest, collection, submitting, load, submit, open>>

\* Faulty variant: == null, which is true of undefined as well.
MayPressLoosely == collection.job = 0 \/ collection.status = "failed"

\* The page has a button to start, or to retry a retryable failure.
MayPress == collection = NoJob \/ collection.status = "failed"

Press ==
  /\ open
  /\ MayPress
  /\ ~submitting
  /\ submitting' = TRUE
  /\ submit' = Sent
  /\ UNCHANGED <<latest, collection, timer, load, poll, open>>

\* The new job is shown; a problem leaves the page as it was.
SubmitArrives ==
  /\ submit.state = "handled"
  /\ submit' = Idle
  /\ submitting' = FALSE
  /\ IF submit.answer = NoJob THEN UNCHANGED <<collection, timer, poll>>
     ELSE Show(submit.answer)
  /\ UNCHANGED <<latest, load, open>>

SubmitFails ==
  /\ submit.state # "idle"
  /\ submit' = Idle
  /\ submitting' = FALSE
  /\ UNCHANGED <<latest, collection, timer, load, poll, open>>

\* The user leaves: every clean-up runs, and answers that still come are
\* ignored.  A job that they create counts as one of another user.
Close ==
  /\ open
  /\ open' = FALSE
  /\ collection' = Undefined
  /\ submitting' = FALSE
  /\ timer' = FALSE
  /\ load' = Idle /\ poll' = Idle /\ submit' = Idle
  /\ UNCHANGED latest

Open ==
  /\ ~open
  /\ open' = TRUE
  /\ Mounted
  /\ UNCHANGED latest

Api == HandleLoad \/ HandlePoll \/ HandleSubmit
Page ==
  \/ LoadArrives \/ LoadFails
  \/ TimerFires \/ PollArrives \/ PollFails
  \/ Press \/ SubmitArrives \/ SubmitFails
  \/ Close \/ Open

Next == OtherUserStarts \/ WorkerActs \/ Api \/ Page

Spec == Init /\ [][Next]_vars

(***************************************************************************)
(* Timers fire, and of many polls one succeeds: the network does not fail    *)
(* every time.  Nobody has to act, and no other request has to succeed.      *)
(***************************************************************************)
Fairness ==
  /\ WF_vars(TimerFires)
  /\ SF_vars(HandlePoll)
  /\ SF_vars(PollArrives)

FairSpec == Spec /\ Fairness

-----------------------------------------------------------------------------
(* What the page promises *)

Rank(status) ==
  CASE status \in {"undefined", "none"} -> 0
    [] status = "queued" -> 1
    [] status = "running" -> 2
    [] OTHER -> 3

(***************************************************************************)
(* The page never goes back: what it shows is not replaced by an older job,  *)
(* or by an earlier status of the same one, although answers of the first    *)
(* request, of polls and of the button may be handled in any order.          *)
(***************************************************************************)
NeverGoesBack ==
  [][open /\ open' =>
       \/ collection'.job > collection.job
       \/ /\ collection'.job = collection.job
          /\ Rank(collection'.status) >= Rank(collection.status)]_vars

(***************************************************************************)
(* While the page shows an active job exactly one poll is pending, either    *)
(* waiting for its timer or under way; otherwise there is none.              *)
(***************************************************************************)
OnePoll ==
  IF Active(collection) THEN timer # (poll.state # "idle")
  ELSE ~timer /\ poll = Idle

(***************************************************************************)
(* A job that has ended does not stay on the page as active, whatever        *)
(* requests failed in between: the page is closed, shows an end, or there    *)
(* is an active job again.                                                  *)
(***************************************************************************)
CatchesUp ==
  open /\ Active(collection)
    ~> ~open \/ ~Active(collection) \/ Active(latest)
=============================================================================
