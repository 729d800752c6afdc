------------------------------ MODULE HttpApi -------------------------------
(***************************************************************************)
(* The HTTP API: from the request through rejectCollectorOptions, the         *)
(* generated binding and the handler (apps/api/internal/httpapi/router.go,    *)
(* generated/openapiv1) to the statements of the repositories and back, for   *)
(* one video.  Connections break and processes die at any time.              *)
(*                                                                         *)
(* Requests that change nothing are operators: what is read, and the status.  *)
(* Texts, headers and the fields of bodies are left out, except which job a   *)
(* body is about.                                                           *)
(***************************************************************************)
EXTENDS Integers, Sequences, FiniteSets

CONSTANTS
  Clients,
  MaxJobs, MaxReservations, MaxTransactions,   \* bounds
  NULL

VARIABLES
  registered,    \* the row of stream.streams is there
  jobs,          \* its rows of collection.collection_jobs, as inserted
  reservations,  \* the states of the video's reservations, as inserted
  lock,          \* the client whose transaction has locked the stream
  clock,         \* orders the beginnings of transactions
  client

vars == <<registered, jobs, reservations, lock, clock, client>>

-----------------------------------------------------------------------------
(* Requests *)

\* "unknown" has the form of a UUID and names nothing.
IDs == {"known", "unknown", "nil", "malformed"}
Queries == {"valid", "not a number", "out of range"}
Bodies == {"none", "{}", "{options}", "too long", "url"}

\* The routes of HandlerWithOptions, with what their requests may vary in.
Request ==
  LET Requests(ops, ids, queries, bodies) ==
        [op : ops, id : ids, query : queries, body : bodies]
  IN  Requests({"GetHealth"}, {"none"}, {"none"}, {"none"})
      \union Requests({"CreateStream", "PreviewStream", "CreateReservation"},
                      {"none"}, {"none"}, Bodies)
      \union Requests({"ListStreams", "ListReservations"},
                      {"none"}, Queries, {"none"})
      \union Requests({"GetStream", "GetLatestCollection", "GetReservation",
                       "CancelReservation"}, IDs, {"none"}, {"none"})
      \union Requests({"StartCollection", "RetryCollection"},
                      IDs, {"none"}, Bodies)
      \union Requests({"ListChatMessages", "SearchChatMessages",
                       "GetChatActivity"}, IDs, Queries, {"none"})

Commands == {"CreateStream", "StartCollection", "RetryCollection",
             "CreateReservation", "CancelReservation"}

\* Faulty variant: the commands under /v1/collection-jobs are overlooked.
AllowsRetryOptions(request) ==
  request.op = "StartCollection" => request.body \in {"none", "{}"}

\* rejectCollectorOptions: paths that end in /collections or /retry.
AllowsOptions(request) ==
  request.op \in {"StartCollection", "RetryCollection"}
    => request.body \in {"none", "{}"}

\* ServerInterfaceWrapper: IDs are bound as strings, limits, offsets and
\* bucket sizes as integers.
StreamParams(request) ==
  request.op \in {"ListStreams", "GetChatActivity"}
    => request.query # "not a number"
ReservationParams(request) ==
  request.op = "ListReservations" => request.query # "not a number"
MessageParams(request) ==
  request.op \in {"ListChatMessages", "SearchChatMessages"}
    => request.query # "not a number"

\* strictHandler: a body is decoded, if the operation has one.  Fields that it
\* does not know are ignored, and a missing url is empty.
StreamBody(request) ==
  request.op \in {"CreateStream", "PreviewStream"}
    => request.body \in {"{}", "{options}", "url"}
ReservationBody(request) ==
  request.op = "CreateReservation"
    => request.body \in {"{}", "{options}", "url"}

\* uuid.Parse in the handlers, and the services' own checks.
StreamHandler(request) ==
  /\ request.op = "GetStream" => request.id # "malformed"
  /\ request.op \in {"CreateStream", "PreviewStream"} => request.body = "url"
  /\ request.op = "ListStreams" => request.query # "out of range"
CollectionHandler(request) ==
  request.op \in {"StartCollection", "GetLatestCollection", "RetryCollection"}
    => request.id \notin {"malformed", "nil"}
MessageHandler(request) ==
  request.op \in {"ListChatMessages", "SearchChatMessages", "GetChatActivity"}
    => /\ request.id \notin {"malformed", "nil"}
       /\ request.query # "out of range"
ReservationHandler(request) ==
  /\ request.op \in {"GetReservation", "CancelReservation"}
       => request.id # "malformed"
  /\ request.op = "CreateReservation" => request.body = "url"

\* Every other request is answered 400 and changes nothing.
Accepted(request) ==
  /\ AllowsOptions(request)
  /\ StreamParams(request) /\ ReservationParams(request) /\ MessageParams(request)
  /\ StreamBody(request) /\ ReservationBody(request)
  /\ StreamHandler(request) /\ CollectionHandler(request)
  /\ MessageHandler(request) /\ ReservationHandler(request)

-----------------------------------------------------------------------------
(* Errors *)

problemFor(err) ==
  CASE err = "ErrVideoUnavailable" -> 422
    [] err = "ErrYouTubeVideoIDExists" -> 409
    [] err = "ErrMetadataProviderUnavailable" -> 503

collectionProblemFor(err) ==
  CASE err \in {"ErrStreamNotFound", "ErrJobNotFound"} -> 404
    [] err \in {"ErrNotRetryable", "ErrActiveJob"} -> 409

reservationProblemFor(err) ==
  CASE err = "ErrNotFound" -> 404
    [] err \in {"ErrAlreadyActive", "ErrNotCancellable"} -> 409

Statuses == {200, 201, 202, 404, 409, 422, 503}

-----------------------------------------------------------------------------
(* Rows and transactions *)

Job == [begun : 1 .. MaxTransactions,   \* requested_at, CURRENT_TIMESTAMP
        status : {"active", "over", "retryable"}]   \* failed retryably

\* "open" is every state that can be cancelled, "over" every terminal one.
Reservation == {"open", "collecting", "over"}

Call == [pc : {"idle", "accepted", "open", "locked", "inserting", "answering"},
         op : Commands \union {"none"},
         ref : Nat,
         begun : 0 .. MaxTransactions,
         status : Statuses \union {NULL},
         shown : 0 .. MaxJobs]             \* the job in the body

MaxRef == IF MaxJobs > MaxReservations THEN MaxJobs ELSE MaxReservations

NoCall == [pc |-> "idle", op |-> "none", ref |-> 0, begun |-> 0, status |-> NULL,
           shown |-> 0]

ActiveJobs == {j \in DOMAIN jobs : jobs[j].status = "active"}
ActiveReservations == {r \in DOMAIN reservations : reservations[r] # "over"}

Init ==
  /\ registered = FALSE
  /\ jobs = <<>>
  /\ reservations = <<>>
  /\ lock = NULL
  /\ clock = 0
  /\ client = [c \in Clients |-> NoCall]

Rows == <<registered, jobs, reservations>>

\* The rest of a request: the answer, ready to be sent.
Answers(c, status, shown) ==
  /\ client' = [client EXCEPT ![c].pc = "answering", ![c].status = status,
                              ![c].begun = 0, ![c].shown = shown]
  /\ lock' = IF lock = c THEN NULL ELSE lock

-----------------------------------------------------------------------------
(* Commands *)

AcceptedCommands == {r \in Request : r.op \in Commands /\ Accepted(r)}

\* "ref" is the job or the reservation that the ID names.
Accept(c, request, ref) ==
  /\ client[c].pc = "idle"
  /\ IF request.id # "known" THEN ref = 0
     ELSE ref \in CASE request.op = "RetryCollection" -> DOMAIN jobs
                    [] request.op = "CancelReservation" -> DOMAIN reservations
                    [] OTHER -> {0}
  /\ client' = [client EXCEPT ![c] = [NoCall EXCEPT
       !.pc = "accepted", !.op = request.op, !.ref = ref]]
  /\ UNCHANGED <<Rows, lock, clock>>

Ready(c, op) == client[c].pc = "accepted" /\ client[c].op = op

\* Service.Register: YouTube's errors, or the INSERT.
CreateStream(c) ==
  /\ Ready(c, "CreateStream")
  /\ \/ /\ \E err \in {"ErrVideoUnavailable", "ErrMetadataProviderUnavailable"} :
             Answers(c, problemFor(err), 0)
        /\ UNCHANGED registered
     \/ /\ registered' = TRUE
        /\ Answers(c, IF registered THEN problemFor("ErrYouTubeVideoIDExists")
                      ELSE 201, 0)
  /\ UNCHANGED <<jobs, reservations, clock>>

\* Start and Retry: BEGIN; Retry looks for its job,
Begin(c) ==
  /\ client[c].pc = "accepted"
  /\ client[c].op \in {"StartCollection", "RetryCollection"}
  /\ clock < MaxTransactions
  /\ clock' = clock + 1
  /\ IF client[c].op = "RetryCollection" /\ client[c].ref \notin DOMAIN jobs
     THEN Answers(c, collectionProblemFor("ErrJobNotFound"), 0)
     ELSE /\ client' = [client EXCEPT ![c].pc = "open", ![c].begun = clock']
          /\ UNCHANGED lock
  /\ UNCHANGED Rows

\* Faulty variant: the stream is read without FOR UPDATE.
ReadStream(c) ==
  /\ client[c].pc = "open"
  /\ IF ~registered
     THEN Answers(c, collectionProblemFor("ErrStreamNotFound"), 0)
     ELSE /\ client' = [client EXCEPT ![c].pc = "locked"]
          /\ UNCHANGED lock
  /\ UNCHANGED <<Rows, clock>>

\* lockStream,
LockStream(c) ==
  /\ client[c].pc = "open"
  /\ IF ~registered
     THEN Answers(c, collectionProblemFor("ErrStreamNotFound"), 0)
     ELSE /\ lock = NULL /\ lock' = c
          /\ client' = [client EXCEPT ![c].pc = "locked"]
  /\ UNCHANGED <<Rows, clock>>

Locked(c, op) == client[c].pc = "locked" /\ client[c].op = op

Inserting(c) == client' = [client EXCEPT ![c].pc = "inserting"] /\ UNCHANGED lock

\* activeJob: Start answers with the active job; Retry checks its own first.
CheckForStart(c) ==
  /\ Locked(c, "StartCollection")
  /\ \/ ActiveJobs = {} /\ Inserting(c)
     \/ \E j \in ActiveJobs : Answers(c, 202, j)
  /\ UNCHANGED <<Rows, clock>>

CheckForRetry(c) ==
  /\ Locked(c, "RetryCollection")
  /\ IF jobs[client[c].ref].status # "retryable"
     THEN Answers(c, collectionProblemFor("ErrNotRetryable"), 0)
     ELSE IF ActiveJobs # {} THEN Answers(c, collectionProblemFor("ErrActiveJob"), 0)
     ELSE Inserting(c)
  /\ UNCHANGED <<Rows, clock>>

\* insertJob and COMMIT.
InsertJob(c) ==
  /\ client[c].pc = "inserting"
  /\ Len(jobs) < MaxJobs
  /\ jobs' = Append(jobs, [begun |-> client[c].begun, status |-> "active"])
  /\ Answers(c, 202, Len(jobs'))
  /\ UNCHANGED <<registered, reservations, clock>>

\* Create: reservations_active_video_uidx decides.  The row is read again
\* after COMMIT, for the answer.
CreateReservation(c) ==
  /\ Ready(c, "CreateReservation")
  /\ IF ActiveReservations # {}
     THEN /\ Answers(c, reservationProblemFor("ErrAlreadyActive"), 0)
          /\ UNCHANGED reservations
     ELSE /\ Len(reservations) < MaxReservations
          /\ reservations' = Append(reservations, "open")
          /\ Answers(c, 201, 0)
  /\ UNCHANGED <<registered, jobs, clock>>

\* Faulty variant: what is no longer active is cancelled again.
CancelTwice(c) ==
  LET r == client[c].ref
  IN  /\ Ready(c, "CancelReservation")
      /\ IF r \notin DOMAIN reservations
         THEN /\ Answers(c, reservationProblemFor("ErrNotFound"), 0)
              /\ UNCHANGED reservations
         ELSE /\ reservations' = [reservations EXCEPT ![r] = "over"]
              /\ Answers(c, 200, 0)
      /\ UNCHANGED <<registered, jobs, clock>>

CancelReservation(c) ==
  LET r == client[c].ref
  IN  /\ Ready(c, "CancelReservation")
      /\ IF r \notin DOMAIN reservations
         THEN /\ Answers(c, reservationProblemFor("ErrNotFound"), 0)
              /\ UNCHANGED reservations
         ELSE IF reservations[r] # "open"
         THEN /\ Answers(c, reservationProblemFor("ErrNotCancellable"), 0)
              /\ UNCHANGED reservations
         ELSE /\ reservations' = [reservations EXCEPT ![r] = "over"]
              /\ Answers(c, 200, 0)
      /\ UNCHANGED <<registered, jobs, clock>>

Reply(c) ==
  /\ client[c].pc = "answering"
  /\ client' = [client EXCEPT ![c] = NoCall]
  /\ UNCHANGED <<Rows, lock, clock>>

\* A statement fails, also the COMMIT whose effect is there or the read after
\* it (500), or the connection or the process is lost (no answer).
Fails(c) ==
  /\ client[c].pc # "idle"
  /\ client' = [client EXCEPT ![c] = NoCall]
  /\ lock' = IF lock = c THEN NULL ELSE lock
  /\ UNCHANGED <<Rows, clock>>

-----------------------------------------------------------------------------
(* What the worker and the monitor do meanwhile *)

JobEnds(j) ==
  /\ jobs[j].status = "active"
  /\ \E status \in {"over", "retryable"} :
       jobs' = [jobs EXCEPT ![j].status = status]
  /\ UNCHANGED <<registered, reservations, lock, clock, client>>

ReservationGoesOn(r) ==
  /\ reservations[r] # "over"
  /\ \E state \in {"collecting", "over"} \ {reservations[r]} :
       reservations' = [reservations EXCEPT ![r] = state]
  /\ UNCHANGED <<registered, jobs, lock, clock, client>>

Next ==
  \/ \E c \in Clients :
       \/ \E request \in AcceptedCommands, ref \in 0 .. MaxRef :
            Accept(c, request, ref)
       \/ CreateStream(c)
       \/ Begin(c)
       \/ LockStream(c)
       \/ CheckForStart(c)
       \/ CheckForRetry(c)
       \/ InsertJob(c)
       \/ CreateReservation(c)
       \/ CancelReservation(c)
       \/ Reply(c)
       \/ Fails(c)
  \/ \E j \in DOMAIN jobs : JobEnds(j)
  \/ \E r \in DOMAIN reservations : ReservationGoesOn(r)

Spec == Init /\ [][Next]_vars

-----------------------------------------------------------------------------
(* Properties *)

TypeOK ==
  /\ registered \in BOOLEAN
  /\ jobs \in Seq(Job)
  /\ reservations \in Seq(Reservation)
  /\ lock \in Clients \union {NULL}
  /\ clock \in 0 .. MaxTransactions
  /\ client \in [Clients -> Call]

\* What the OpenAPI document excludes is rejected before anything is done:
\* options in commands for the collector, and parameters out of range.  (The
\* limit and the offset of ListReservations are the exception.)
ContractIsChecked ==
  \A request \in Request : Accepted(request) =>
    /\ request.op \in {"StartCollection", "RetryCollection"}
         => request.body \notin {"{options}", "too long"}
    /\ request.query \in {"none", "valid"}
         \/ request = [op |-> "ListReservations", id |-> "none",
                       query |-> "out of range", body |-> "none"]

\* Latest: ORDER BY requested_at DESC.
Latest == CHOOSE j \in DOMAIN jobs : \A k \in DOMAIN jobs : jobs[k].begun <= jobs[j].begun

\* An active job is the one that polling shows, unless a collection that was
\* asked for later was inserted before it, and is over already.
LatestShowsActive ==
  \A j \in ActiveJobs : Latest = j \/ (Latest < j /\ Latest \notin ActiveJobs)

\* The job in an answer 202 is not the one that was to be retried.
RetryIsAnotherJob ==
  \A c \in Clients :
    (client[c].status = 202 /\ client[c].op = "RetryCollection")
      => client[c].shown > client[c].ref

\* What is rejected, what polling shows and what a retry answers.
HttpInv ==
  /\ TypeOK
  /\ ContractIsChecked
  /\ LatestShowsActive
  /\ RetryIsAnotherJob

Result(status) ==
  CASE status = NULL -> "none"
    [] status \in {200, 201, 202} -> "done"
    [] status \in {404, 409, 422, 503} -> "refused"

\* Every command takes effect at most once, in one moment between request and
\* answer, whatever other clients, the worker and the monitor do; an answer
\* other than 500 tells what that was.
Contract ==
  INSTANCE ApiContract WITH
    Ids <- 1 .. MaxRef,
    active <- ActiveJobs # {},
    retryable <- {j \in DOMAIN jobs : jobs[j].status = "retryable"},
    reserved <-
      LET open == {r \in DOMAIN reservations : reservations[r] = "open"}
      IN  IF open = {} THEN 0 ELSE CHOOSE r \in open : TRUE,
    busy <- \E r \in DOMAIN reservations : reservations[r] = "collecting",
    calls <- [c \in Clients |->
      [pc |-> CASE client[c].pc = "idle" -> "idle"
                [] client[c].pc = "answering" -> "performed"
                [] OTHER -> "asked",
       op |-> client[c].op, id |-> client[c].ref,
       result |-> Result(client[c].status)]]
ImplementsContract == Contract!Spec
=============================================================================
