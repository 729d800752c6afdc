---------------------------- MODULE WebPagesProofs ----------------------------
(***************************************************************************)
(* What the pages of the web application promise (WebPages), for any number   *)
(* of jobs, streams, videos and messages, any sizes of pages and buckets, and *)
(* any order of answers: PollInv, NeverGoesBack, LoadingInv, SearchInv and    *)
(* ReadingInv.                                                              *)
(*                                                                         *)
(* The parts share no variable that two of them change, so each has an        *)
(* inductive invariant of its own: it says what the requests under way will    *)
(* answer, compared with what the page shows and with what there is.         *)
(***************************************************************************)
EXTENDS WebPages, FiniteSetTheorems, SequenceTheorems, TLAPS

-----------------------------------------------------------------------------
(* The inductive invariants *)

\* Of two jobs, or states of one job, the second is not the earlier one.
AtMost(old, new) ==
  \/ old.job < new.job
  \/ old.job = new.job /\ Collection!Rank(old.status) <= Collection!Rank(new.status)

Asks(request) == request.state # "idle"
Holds(request) == request.state = "handled"

\* Before its first answer the page can neither poll nor press the button, and
\* what the button was pressed for stays on the page.  Every answer lies between
\* what the page shows and the latest job.
CollectionInv ==
  /\ Collection!TypeOK /\ Collection!OnePoll
  /\ AtMost(collection, latest)
  /\ Asks(firstLoad) => collection = Collection!Undefined /\ ~Asks(submit)
  /\ Asks(submit) => Collection!MayPress
  /\ \A request \in {firstLoad, poll} :
       Holds(request) =>
         AtMost(collection, request.answer) /\ AtMost(request.answer, latest)
  /\ Holds(submit) /\ submit.answer # Collection!NoJob =>
       AtMost(collection, submit.answer) /\ AtMost(submit.answer, latest)

\* A page that is closed has no timer and waits for no answer.
ReservationInv ==
  /\ Reservation!TypeOK /\ Reservation!OnePoll
  /\ ~detail => ~timer /\ load = "idle" /\ cancel = "idle"

\* The requests of App.
AppInv == LoadingInv

\* The video that is looked up is in the table behind the pages that were read,
\* or on the page that was read last.
LiesBehind(rows, offset, video) ==
  \E k \in DOMAIN rows : rows[k] = video /\ k > offset

Ahead(offset) == LiesBehind(table, offset, call.preview)

CallIsTrue ==
  /\ call \in Registration!Call
  /\ Registration!ExistingIsFound
  /\ call.state # "idle" => call.end = "none"
  /\ call.state \in {"sent", "created", "exists", "failed"} => call.offset = 0
  /\ call.url = call.preview =>
       /\ call.state \in {"exists", "asked"} => Ahead(call.offset)
       /\ call.state = "page" =>
            \/ call.preview \in Registration!ToSet(call.page)
            \/ Len(call.page) = PageSize /\ Ahead(call.offset + PageSize)

RegistrationInv == Registration!TypeOK /\ CallIsTrue

\* A page that was answered: in order, behind the cursor it was asked for, and
\* whatever is known behind that cursor is on it or behind its own cursor.
Behind(m, key) == key = NULL \/ List!KeyLess(key, m)

PageIsTrue(c) ==
  /\ \A i, j \in DOMAIN c.items : i < j => List!KeyLess(c.items[i], c.items[j])
  /\ \A i \in DOMAIN c.items : Behind(c.items[i], c.after)
  /\ c.next # NULL => c.items # <<>> /\ c.next = c.items[Len(c.items)]
  /\ \A m \in known :
       Behind(m, c.after) =>
         m \in List!ToSet(c.items) \/ (c.next # NULL /\ List!KeyLess(c.next, m))

ListInv ==
  /\ List!TypeOK /\ List!StrictlyOrdered /\ List!NothingSkipped
  /\ known \subseteq List!Visible
  /\ cursor # NULL => shown # <<>> /\ cursor = shown[Len(shown)]
  /\ calls # <<>> =>
       /\ loading
       /\ calls[1].after = cursor
       /\ cursor = NULL => shown = <<>>
       /\ calls[1].answered => PageIsTrue(calls[1])

\* Only requests for the size that is selected are under way.
ChartInv ==
  /\ Chart!TypeOK /\ Chart!SettledMeansShown
  /\ \A request \in requests : request.size = selected

IInv ==
  /\ CollectionInv /\ ReservationInv /\ AppInv /\ RegistrationInv
  /\ ListInv /\ ChartInv

-----------------------------------------------------------------------------
(* The page of a reservation *)

LEMMA ReservationInit == Reservation!Init => ReservationInv
  BY DEF Reservation!Init, ReservationInv, Reservation!TypeOK, Reservation!OnePoll,
         Reservation!State, Reservation!TERMINAL_STATES, Reservation!Request

LEMMA ReservationStep ==
  ASSUME ReservationInv, Reservation!Next
  PROVE  ReservationInv'
<1> USE DEF ReservationInv, Reservation!TypeOK, Reservation!OnePoll, Reservation!State,
            Reservation!TERMINAL_STATES, Reservation!Request, Reservation!Handled,
            Reservation!SetReservation
<1>1. CASE Reservation!MonitorActs
  BY <1>1 DEF Reservation!MonitorActs
<1>2. CASE Reservation!OtherUserCancels
  BY <1>2 DEF Reservation!OtherUserCancels
<1>3. CASE Reservation!HandleLoad
  BY <1>3 DEF Reservation!HandleLoad
<1>4. CASE Reservation!HandleCancel
  BY <1>4 DEF Reservation!HandleCancel
<1>5. CASE Reservation!LoadArrives
  BY <1>5 DEF Reservation!LoadArrives
<1>6. CASE Reservation!LoadFails
  BY <1>6 DEF Reservation!LoadFails
<1>7. CASE Reservation!TimerFires
  BY <1>7 DEF Reservation!TimerFires
<1>8. CASE Reservation!PressCancel
  BY <1>8 DEF Reservation!PressCancel
<1>9. CASE Reservation!CancelArrives
  BY <1>9 DEF Reservation!CancelArrives
<1>10. CASE Reservation!CancelFails
  BY <1>10 DEF Reservation!CancelFails
<1>11. CASE Reservation!Close
  BY <1>11 DEF Reservation!Close
<1>12. CASE Reservation!Open
  BY <1>12 DEF Reservation!Open
<1> HIDE DEF ReservationInv
<1> QED
  BY <1>1, <1>2, <1>3, <1>4, <1>5, <1>6, <1>7, <1>8, <1>9, <1>10, <1>11, <1>12
     DEF Reservation!Next, Reservation!Page

LEMMA ReservationStays ==
  ASSUME ReservationInv, UNCHANGED reservationVars
  PROVE  ReservationInv'
  BY DEF ReservationInv, Reservation!TypeOK, Reservation!OnePoll, reservationVars

-----------------------------------------------------------------------------
(* The requests of App *)

LEMMA AppInit == App!Init => AppInv
<1> SUFFICES ASSUME App!Init PROVE AppInv
  OBVIOUS
<1>1. App!TypeOK
  <2>1. gets \in [App!Ids -> Nat]
    BY SMT DEF App!Init
  <2>2. lists \in 0 .. MaxCalls
    BY MaxCallsIsPositive, SMT DEF App!Init
  <2>3. isLoadingList \in BOOLEAN
    BY DEF App!Init
  <2> QED
    BY <2>1, <2>2, <2>3 DEF App!Init, App!TypeOK
<1>2. App!EmptyMeansListed
  BY DEF App!Init, App!EmptyMeansListed, App!ShowsList
<1>3. App!NeverWaitsForNothing
  <2>1. path \in App!Ids => gets[path] = 1
    BY DEF App!Init
  <2> QED
    BY <2>1, SMT DEF App!NeverWaitsForNothing
<1> QED
  BY <1>1, <1>2, <1>3 DEF AppInv, LoadingInv

\* A request is added for the page of a stream that is not the selected one.
LEMMA EffectsLoad ==
  ASSUME AppInv, path' \in App!Paths, NEW remaining \in [App!Ids -> Nat],
         App!RunEffects(remaining), lists' \in 0 .. MaxCalls \/ path' = path
  PROVE  /\ gets' \in [App!Ids -> Nat]
         /\ path' = path => lists' = lists
         /\ path' \in App!Ids /\ selectedStream' # path' =>
              \/ gets'[path'] > 0
              \/ path' = path /\ selectedStream' = selectedStream
                 /\ gets'[path'] = remaining[path']
<1>1. gets' \in [App!Ids -> Nat]
  BY SMT DEF App!RunEffects
<1>2. path' = path => lists' = lists
  BY SMT DEF App!RunEffects, AppInv, LoadingInv, App!TypeOK
<1>3. ASSUME path' \in App!Ids, selectedStream' # path'
      PROVE  \/ gets'[path'] > 0
             \/ path' = path /\ selectedStream' = selectedStream
                /\ gets'[path'] = remaining[path']
  <2>1. remaining[path'] \in Nat
    BY <1>3
  <2>2. CASE App!Loads(path, path', selectedStream, selectedStream')
    BY <1>3, <2>1, <2>2, SMT DEF App!RunEffects
  <2>3. CASE ~App!Loads(path, path', selectedStream, selectedStream')
    BY <1>3, <2>1, <2>3 DEF App!RunEffects, App!Loads
  <2> QED
    BY <2>2, <2>3
<1> QED
  BY <1>1, <1>2, <1>3

LEMMA AppStep ==
  ASSUME AppInv, App!Next
  PROVE  AppInv'
<1>0. /\ App!TypeOK /\ App!EmptyMeansListed /\ App!NeverWaitsForNothing
      /\ "streams" \notin App!Ids /\ App!Ids \subseteq App!Paths
      /\ Streams \subseteq App!Ids
  BY IdsAreNoPages DEF AppInv, LoadingInv, App!Paths, App!Ids
<1>1. ASSUME NEW next \in App!Paths, App!Navigate(next) PROVE AppInv'
  <2>1. /\ path' = next /\ App!RunEffects(gets) /\ lists < MaxCalls
        /\ UNCHANGED <<listed, selectedStream, notFound, streamError>>
        /\ \/ UNCHANGED <<isLoadingList, libraryError>> /\ next = "reservations"
           \/ isLoadingList' = TRUE /\ libraryError' = FALSE
    BY <1>1 DEF App!Navigate, App!MayCall
  <2>2. lists' \in 0 .. MaxCalls
    BY <1>0, <2>1, MaxCallsIsPositive, SMT DEF App!RunEffects, App!TypeOK
  <2>3. /\ gets' \in [App!Ids -> Nat]
        /\ path' \in App!Ids /\ selectedStream' # path' =>
             \/ gets'[path'] > 0
             \/ path' = path /\ selectedStream' = selectedStream
                /\ gets'[path'] = gets[path']
    BY <1>0, <2>1, <2>2, EffectsLoad DEF App!TypeOK
  <2>4. App!TypeOK'
    BY <1>0, <2>1, <2>2, <2>3 DEF App!TypeOK
  <2>5. App!EmptyMeansListed'
    BY <1>0, <2>1 DEF App!EmptyMeansListed, App!ShowsList
  <2>6. App!NeverWaitsForNothing'
    BY <1>0, <2>1, <2>3 DEF App!NeverWaitsForNothing
  <2> QED
    BY <2>4, <2>5, <2>6 DEF AppInv, LoadingInv
<1>2. ASSUME NEW stream \in Streams, App!NavigateToStream(stream) PROVE AppInv'
  <2>1. /\ path' = stream /\ selectedStream' = stream /\ App!RunEffects(gets)
        /\ lists < MaxCalls
        /\ UNCHANGED <<isLoadingList, libraryError, listed, notFound, streamError>>
    BY <1>2 DEF App!NavigateToStream, App!MayCall
  <2>2. lists' \in 0 .. MaxCalls
    BY <1>0, <2>1, MaxCallsIsPositive, SMT DEF App!RunEffects, App!TypeOK
  <2>3. gets' \in [App!Ids -> Nat]
    BY <1>0, <2>1, <2>2, EffectsLoad DEF App!TypeOK
  <2>4. App!TypeOK'
    BY <1>0, <2>1, <2>2, <2>3 DEF App!TypeOK
  <2>5. App!EmptyMeansListed'
    BY <1>0, <2>1 DEF App!EmptyMeansListed, App!ShowsList
  <2>6. App!NeverWaitsForNothing'
    BY <2>1 DEF App!NeverWaitsForNothing
  <2> QED
    BY <2>4, <2>5, <2>6 DEF AppInv, LoadingInv
<1>3. CASE App!ClearErrors
  BY <1>0, <1>3
     DEF App!ClearErrors, App!list, App!TypeOK, App!EmptyMeansListed, App!ShowsList,
         App!NeverWaitsForNothing, AppInv, LoadingInv
<1>4. ASSUME NEW id \in App!Ids, App!GetSucceeds(id) PROVE AppInv'
  <2> DEFINE remaining == [gets EXCEPT ![id] = @ - 1]
  <2>1. /\ id \in Streams /\ selectedStream' = id /\ App!RunEffects(remaining)
        /\ UNCHANGED <<path, isLoadingList, libraryError, listed, notFound, streamError>>
    BY <1>4 DEF App!GetSucceeds
  <2>2. remaining \in [App!Ids -> Nat] /\ \A other \in App!Ids \ {id} :
                                             remaining[other] = gets[other]
    BY <1>0, <1>4, SMT DEF App!GetSucceeds, App!TypeOK
  <2> HIDE DEF remaining
  <2>3. /\ gets' \in [App!Ids -> Nat] /\ lists' = lists
        /\ path' \in App!Ids /\ selectedStream' # path' =>
             \/ gets'[path'] > 0
             \/ path' = path /\ selectedStream' = selectedStream
                /\ gets'[path'] = remaining[path']
    BY <1>0, <2>1, <2>2, EffectsLoad DEF App!TypeOK
  <2>4. App!TypeOK'
    BY <1>0, <2>1, <2>3 DEF App!TypeOK
  <2>5. App!EmptyMeansListed'
    BY <1>0, <2>1 DEF App!EmptyMeansListed, App!ShowsList
  <2>6. App!NeverWaitsForNothing'
    BY <1>0, <2>1, <2>2, <2>3 DEF App!NeverWaitsForNothing
  <2> QED
    BY <2>4, <2>5, <2>6 DEF AppInv, LoadingInv
<1>5. ASSUME NEW id \in App!Ids, App!GetFindsNothing(id) \/ App!GetFails(id)
      PROVE  AppInv'
  <2>1. gets' \in [App!Ids -> Nat]
    BY <1>0, <1>5, SMT DEF App!GetFindsNothing, App!GetFails, App!TypeOK
  <2>2. /\ UNCHANGED <<path, selectedStream, isLoadingList, libraryError, listed, lists>>
        /\ \/ notFound' = TRUE /\ streamError' = FALSE
           \/ streamError' = TRUE /\ UNCHANGED notFound
    BY <1>5 DEF App!GetFindsNothing, App!GetFails, App!list
  <2> QED
    BY <1>0, <2>1, <2>2
       DEF App!TypeOK, App!EmptyMeansListed, App!ShowsList,
           App!NeverWaitsForNothing, AppInv, LoadingInv
<1>6. CASE App!ListEnds
  <2>1. lists' \in 0 .. MaxCalls
    BY <1>0, <1>6, MaxCallsIsPositive, SMT
       DEF App!ListEnds, App!ListSucceeds, App!ListFails, App!TypeOK
  <2>2. /\ UNCHANGED <<path, selectedStream, notFound, streamError, gets>>
        /\ isLoadingList' = FALSE
        /\ \/ listed' = TRUE /\ libraryError' = FALSE
           \/ UNCHANGED listed /\ libraryError' = TRUE
    BY <1>6 DEF App!ListEnds, App!ListSucceeds, App!ListFails, App!detail
  <2> QED
    BY <1>0, <2>1, <2>2
       DEF App!TypeOK, App!EmptyMeansListed, App!ShowsList,
           App!NeverWaitsForNothing, AppInv, LoadingInv
<1> QED
  BY <1>1, <1>2, <1>3, <1>4, <1>5, <1>6 DEF App!Next, App!GetEnds

LEMMA AppStays ==
  ASSUME AppInv, UNCHANGED appVars
  PROVE  AppInv'
  BY DEF AppInv, LoadingInv, App!TypeOK, App!EmptyMeansListed, App!ShowsList,
         App!NeverWaitsForNothing, appVars

-----------------------------------------------------------------------------
(* The page of a collection *)

LEMMA RankIsNumber ==
  \A status : Collection!Rank(status) \in 0 .. 3
  BY SMT DEF Collection!Rank

LEMMA AtMostIsTransitive ==
  ASSUME NEW a, NEW b, NEW c, a.job \in Nat, b.job \in Nat, c.job \in Nat,
         AtMost(a, b), AtMost(b, c)
  PROVE  AtMost(a, c)
  BY RankIsNumber, SMT DEF AtMost

\* The jobs that the page and the API speak of.
LEMMA JobsAreRecords ==
  /\ \A job \in Collection!Job \union {Collection!Undefined} : job.job \in Nat
  /\ Collection!NoJob \in Collection!Job
  /\ Collection!Idle \in Collection!Request /\ Collection!Idle.state = "idle"
  /\ Collection!Sent \in Collection!Request /\ Collection!Sent.state = "sent"
  /\ \A job \in Collection!Job :
       /\ Collection!Handled(job) \in Collection!Request
       /\ Collection!Handled(job).state = "handled"
       /\ Collection!Handled(job).answer = job
<1>1. Collection!NoJob \in Collection!Job
  BY MaxJobsIsPositive, SMT DEF Collection!NoJob, Collection!Job
<1>2. \A job \in Collection!Job \union {Collection!Undefined} : job.job \in Nat
  BY MaxJobsIsPositive, SMT DEF Collection!Job, Collection!Undefined
<1> QED
  BY <1>1, <1>2
     DEF Collection!Request, Collection!Idle, Collection!Sent, Collection!Handled

LEMMA EverythingAfterUndefined ==
  ASSUME NEW job \in Collection!Job \union {Collection!Undefined}
  PROVE  AtMost(Collection!Undefined, job)
<1>1. job.job \in Nat
  BY JobsAreRecords
<1>2. Collection!Undefined.job = 0 /\ Collection!Rank(Collection!Undefined.status) = 0
  BY SMT DEF Collection!Undefined, Collection!Rank
<1> QED
  BY <1>1, <1>2, RankIsNumber, SMT DEF AtMost

LEMMA CollectionInit == Collection!Init => CollectionInv
<1> SUFFICES ASSUME Collection!Init PROVE CollectionInv
  OBVIOUS
<1>1. latest \in Collection!Job
  <2>1. \/ latest \in [job : {0}, status : {"none"}]
        \/ latest \in [job : {1}, status : {"queued", "running"} \union Collection!Final]
    BY DEF Collection!Init
  <2> QED
    BY <2>1, MaxJobsIsPositive, SMT DEF Collection!Job, Collection!Final
<1>2. firstLoad \in {Collection!Sent, Collection!Idle} /\ poll = Collection!Idle
      /\ submit = Collection!Idle
  BY DEF Collection!Init
<1>3. Collection!TypeOK
  BY <1>1, <1>2, JobsAreRecords DEF Collection!Init, Collection!TypeOK
<1>4. collection = Collection!Undefined /\ ~pollTimer
  BY DEF Collection!Init
<1>5. Collection!OnePoll
  BY <1>2, <1>4 DEF Collection!OnePoll, Collection!Active, Collection!Undefined
<1>6. AtMost(collection, latest)
  BY <1>1, <1>4, EverythingAfterUndefined
<1> QED
  BY <1>2, <1>3, <1>4, <1>5, <1>6, JobsAreRecords DEF CollectionInv, Asks, Holds

\* What a step may do to the job that is shown.
ShownGoesOn == workspace /\ workspace' => AtMost(collection, collection')

LEMMA UnchangedGoesOn ==
  ASSUME CollectionInv, UNCHANGED collection
  PROVE  ShownGoesOn
  BY RankIsNumber, JobsAreRecords, SMT
     DEF ShownGoesOn, AtMost, CollectionInv, Collection!TypeOK

\* Workers and other users: every answer is still one of before.
LEMMA LatestGrows ==
  ASSUME CollectionInv, latest' \in Collection!Job, AtMost(latest, latest'),
         UNCHANGED Collection!page
  PROVE  CollectionInv' /\ ShownGoesOn
<1>1. Collection!TypeOK' /\ Collection!OnePoll'
  BY DEF CollectionInv, Collection!TypeOK, Collection!OnePoll, Collection!page
<1>2. ASSUME NEW job \in Collection!Job \union {Collection!Undefined}, AtMost(job, latest)
      PROVE  AtMost(job, latest')
  BY <1>2, AtMostIsTransitive, JobsAreRecords DEF CollectionInv, Collection!TypeOK
<1>3. AtMost(collection, latest')
  BY <1>2 DEF CollectionInv, Collection!TypeOK
<1>4. \A request \in {firstLoad, poll, submit} :
        request.answer \in Collection!Job \union {Collection!Undefined}
  BY DEF CollectionInv, Collection!TypeOK, Collection!Request
<1>5. /\ Asks(firstLoad) => collection = Collection!Undefined /\ ~Asks(submit)
      /\ Asks(submit) => Collection!MayPress
      /\ \A request \in {firstLoad, poll} :
           Holds(request) =>
             AtMost(collection, request.answer) /\ AtMost(request.answer, latest')
      /\ Holds(submit) /\ submit.answer # Collection!NoJob =>
           AtMost(collection, submit.answer) /\ AtMost(submit.answer, latest')
  BY <1>2, <1>4 DEF CollectionInv
<1>6. UNCHANGED <<collection, firstLoad, poll, submit>>
  BY DEF Collection!page
<1>7. UNCHANGED Collection!MayPress
  BY <1>6 DEF Collection!MayPress
<1>8. ShownGoesOn
  BY <1>6, UnchangedGoesOn
<1> QED
  BY <1>1, <1>3, <1>5, <1>6, <1>7, <1>8 DEF CollectionInv, Asks, Holds

LEMMA OthersStep ==
  ASSUME CollectionInv, Collection!OtherUserStarts \/ Collection!WorkerActs
  PROVE  CollectionInv' /\ ShownGoesOn
<1>1. latest \in Collection!Job /\ latest.job \in 0 .. MaxJobs
  BY DEF CollectionInv, Collection!TypeOK, Collection!Job
<1>2. CASE Collection!OtherUserStarts
  <2>1. latest' = [job |-> latest.job + 1, status |-> "queued"] /\ latest.job < MaxJobs
        /\ UNCHANGED Collection!page
    BY <1>2 DEF Collection!OtherUserStarts, Collection!NewJob
  <2>2. latest' \in Collection!Job /\ AtMost(latest, latest')
    BY <1>1, <2>1, MaxJobsIsPositive, SMT DEF Collection!Job, AtMost
  <2> QED
    BY <2>1, <2>2, LatestGrows
<1>3. CASE Collection!WorkerActs
  <2>1. /\ UNCHANGED Collection!page
        /\ \/ latest.status = "queued" /\ latest' = [latest EXCEPT !.status = "running"]
           \/ /\ latest.status = "running"
              /\ \E status \in Collection!Final :
                   latest' = [latest EXCEPT !.status = status]
    BY <1>3 DEF Collection!WorkerActs
  <2>2. /\ latest' \in Collection!Job /\ latest'.job = latest.job
        /\ \/ latest.status = "queued" /\ latest'.status = "running"
           \/ latest.status = "running" /\ latest'.status \in Collection!Final
    BY <1>1, <2>1, SMT DEF Collection!Job, Collection!Final
  <2>3. Collection!Rank(latest.status) <= Collection!Rank(latest'.status)
    BY <2>2, SMT DEF Collection!Rank, Collection!Final
  <2>4. AtMost(latest, latest')
    BY <2>2, <2>3 DEF AtMost
  <2> QED
    BY <2>1, <2>2, <2>4, LatestGrows
<1> QED
  BY <1>2, <1>3

LEMMA ApiStep ==
  ASSUME CollectionInv, Collection!Api
  PROVE  CollectionInv' /\ ShownGoesOn
<1>1. /\ latest \in Collection!Job /\ latest.job \in 0 .. MaxJobs
      /\ Collection!TypeOK /\ Collection!OnePoll /\ AtMost(collection, latest)
      /\ AtMost(latest, latest)
  BY RankIsNumber, SMT DEF CollectionInv, Collection!TypeOK, Collection!Job, AtMost
<1>2. /\ Collection!Handled(latest) \in Collection!Request
      /\ Collection!Handled(latest).state = "handled"
      /\ Collection!Handled(latest).answer = latest
  BY <1>1, JobsAreRecords
<1>3. CASE Collection!HandleLoad
  <2>1. /\ firstLoad.state = "sent" /\ firstLoad' = Collection!Handled(latest)
        /\ UNCHANGED <<latest, collection, submitting, pollTimer, poll, submit, workspace>>
    BY <1>3 DEF Collection!HandleLoad
  <2>2. Collection!TypeOK' /\ Collection!OnePoll'
    BY <1>1, <1>2, <2>1 DEF Collection!TypeOK, Collection!OnePoll
  <2>3. UNCHANGED Collection!MayPress /\ ShownGoesOn
    BY <2>1, UnchangedGoesOn DEF Collection!MayPress
  <2> QED
    BY <1>1, <1>2, <2>1, <2>2, <2>3 DEF CollectionInv, Asks, Holds
<1>4. CASE Collection!HandlePoll
  <2>1. /\ poll.state = "sent" /\ poll' = Collection!Handled(latest)
        /\ UNCHANGED <<latest, collection, submitting, pollTimer, firstLoad, submit,
                       workspace>>
    BY <1>4 DEF Collection!HandlePoll
  <2>2. poll # Collection!Idle
    BY <2>1, JobsAreRecords
  <2>3. Collection!TypeOK' /\ Collection!OnePoll'
    BY <1>1, <1>2, <2>1, <2>2 DEF Collection!TypeOK, Collection!OnePoll
  <2>4. UNCHANGED Collection!MayPress /\ ShownGoesOn
    BY <2>1, UnchangedGoesOn DEF Collection!MayPress
  <2> QED
    BY <1>1, <1>2, <2>1, <2>3, <2>4 DEF CollectionInv, Asks, Holds
<1>5. CASE Collection!HandleSubmit
  <2>1. /\ submit.state = "sent"
        /\ UNCHANGED <<collection, submitting, pollTimer, firstLoad, poll, workspace>>
        /\ \/ /\ latest.job < MaxJobs /\ latest' = Collection!NewJob
              /\ submit' = Collection!Handled(latest')
           \/ submit' = Collection!Handled(Collection!NoJob) /\ UNCHANGED latest
    BY <1>5 DEF Collection!HandleSubmit
  <2>2. latest' \in Collection!Job /\ AtMost(latest, latest') /\ AtMost(latest', latest')
    BY <1>1, <2>1, MaxJobsIsPositive, RankIsNumber, SMT
       DEF Collection!NewJob, Collection!Job, AtMost
  <2>3. /\ submit' \in Collection!Request /\ submit'.state = "handled"
        /\ submit'.answer \in {latest', Collection!NoJob}
    BY <2>1, <2>2, JobsAreRecords
  <2>4. Collection!TypeOK' /\ Collection!OnePoll'
    BY <1>1, <2>1, <2>2, <2>3 DEF Collection!TypeOK, Collection!OnePoll
  <2>5. ASSUME NEW job \in Collection!Job \union {Collection!Undefined}, AtMost(job, latest)
        PROVE  AtMost(job, latest')
    BY <1>1, <2>2, <2>5, AtMostIsTransitive, JobsAreRecords
  <2>6. AtMost(collection, latest')
    BY <1>1, <2>5 DEF Collection!TypeOK
  <2>7. /\ firstLoad.answer \in Collection!Job /\ poll.answer \in Collection!Job
    BY <1>1 DEF Collection!TypeOK, Collection!Request
  <2>8. \A request \in {firstLoad, poll} :
          Holds(request) =>
            AtMost(collection, request.answer) /\ AtMost(request.answer, latest')
    BY <2>5, <2>7 DEF CollectionInv
  <2>9. UNCHANGED Collection!MayPress /\ ShownGoesOn
    BY <2>1, UnchangedGoesOn DEF Collection!MayPress
  <2> QED
    BY <2>1, <2>2, <2>3, <2>4, <2>6, <2>8, <2>9 DEF CollectionInv, Asks, Holds
<1> QED
  BY <1>3, <1>4, <1>5 DEF Collection!Api

\* An answer is shown: no other request is under way that could show another.
LEMMA AnswerIsShown ==
  ASSUME CollectionInv, NEW job \in Collection!Job,
         AtMost(collection, job), AtMost(job, latest),
         collection' = job, pollTimer' = Collection!Active(job),
         poll' = Collection!Idle, submitting' \in BOOLEAN,
         firstLoad' \in Collection!Request, ~Asks(firstLoad'),
         submit' \in Collection!Request, ~Asks(submit'),
         UNCHANGED <<latest, workspace>>
  PROVE  CollectionInv' /\ ShownGoesOn
<1>1. Collection!TypeOK'
  BY JobsAreRecords DEF CollectionInv, Collection!TypeOK, Collection!Active
<1>2. Collection!OnePoll'
  BY JobsAreRecords DEF Collection!OnePoll, Collection!Active
<1> QED
  BY <1>1, <1>2, JobsAreRecords DEF CollectionInv, ShownGoesOn, Asks, Holds

LEMMA ArrivalStep ==
  ASSUME CollectionInv,
         \/ Collection!LoadArrives \/ Collection!PollArrives \/ Collection!SubmitArrives
  PROVE  CollectionInv' /\ ShownGoesOn
<1>1. /\ Collection!TypeOK /\ Collection!OnePoll
      /\ firstLoad \in Collection!Request /\ poll \in Collection!Request
      /\ submit \in Collection!Request
      /\ firstLoad.answer \in Collection!Job /\ poll.answer \in Collection!Job
      /\ submit.answer \in Collection!Job
      /\ submitting \in BOOLEAN
  BY DEF CollectionInv, Collection!TypeOK, Collection!Request
<1>2. /\ Asks(poll) => Collection!Active(collection)
      /\ ~Collection!Active(collection) => ~pollTimer /\ poll = Collection!Idle
      /\ Collection!Active(collection) => ~Asks(firstLoad) /\ ~Asks(submit)
      /\ Asks(firstLoad) => ~Asks(submit)
  BY <1>1, JobsAreRecords
     DEF CollectionInv, Collection!OnePoll, Collection!Active, Collection!Undefined,
         Collection!MayPress, Collection!NoJob, Asks
<1>3. ASSUME NEW job \in Collection!Job, Collection!Show(job),
             ~Collection!Active(collection)
      PROVE  /\ collection' = job /\ pollTimer' = Collection!Active(job)
             /\ poll' = Collection!Idle
  BY <1>2, <1>3 DEF Collection!Show, Collection!Active
<1>4. CASE Collection!LoadArrives
  <2>1. /\ Holds(firstLoad) /\ Asks(firstLoad) /\ firstLoad' = Collection!Idle
        /\ Collection!Show(firstLoad.answer)
        /\ UNCHANGED <<latest, submitting, submit, workspace>>
    BY <1>4 DEF Collection!LoadArrives, Holds, Asks
  <2>2. ~Collection!Active(collection) /\ ~Asks(submit)
    BY <1>2, <2>1
  <2>3. AtMost(collection, firstLoad.answer) /\ AtMost(firstLoad.answer, latest)
    BY <2>1 DEF CollectionInv
  <2>4. firstLoad' \in Collection!Request /\ ~Asks(firstLoad') /\ ~Asks(submit')
    BY <2>1, <2>2, JobsAreRecords DEF Asks
  <2> QED
    BY <1>1, <1>3, <2>1, <2>2, <2>3, <2>4, AnswerIsShown
<1>5. CASE Collection!PollArrives
  <2>1. /\ Holds(poll) /\ Asks(poll) /\ poll' = Collection!Idle
        /\ collection' = poll.answer /\ pollTimer' = Collection!Active(poll.answer)
        /\ UNCHANGED <<latest, submitting, firstLoad, submit, workspace>>
    BY <1>5 DEF Collection!PollArrives, Holds, Asks
  <2>2. ~Asks(firstLoad') /\ ~Asks(submit')
    BY <1>2, <2>1
  <2>3. AtMost(collection, poll.answer) /\ AtMost(poll.answer, latest)
    BY <2>1 DEF CollectionInv
  <2> QED
    BY <1>1, <2>1, <2>2, <2>3, AnswerIsShown
<1>6. CASE Collection!SubmitArrives
  <2>1. /\ Holds(submit) /\ Asks(submit) /\ submit' = Collection!Idle
        /\ submitting' = FALSE
        /\ UNCHANGED <<latest, firstLoad, workspace>>
        /\ \/ /\ submit.answer = Collection!NoJob
              /\ UNCHANGED <<collection, pollTimer, poll>>
           \/ submit.answer # Collection!NoJob /\ Collection!Show(submit.answer)
    BY <1>6 DEF Collection!SubmitArrives, Holds, Asks
  <2>2. ~Collection!Active(collection) /\ ~Asks(firstLoad)
    BY <1>2, <2>1
  <2>3. submit' \in Collection!Request /\ ~Asks(submit') /\ ~Asks(firstLoad')
    BY <2>1, <2>2, JobsAreRecords DEF Asks
  <2>4. CASE submit.answer # Collection!NoJob
    <3>1. AtMost(collection, submit.answer) /\ AtMost(submit.answer, latest)
      BY <2>1, <2>4 DEF CollectionInv
    <3> QED
      BY <1>1, <1>3, <2>1, <2>2, <2>3, <2>4, <3>1, AnswerIsShown
  <2>5. CASE submit.answer = Collection!NoJob
    <3>1. UNCHANGED <<collection, pollTimer, poll>>
      BY <2>1, <2>5
    <3>2. Collection!TypeOK' /\ Collection!OnePoll'
      BY <1>1, <2>1, <2>3, <3>1 DEF Collection!TypeOK, Collection!OnePoll
    <3>3. ShownGoesOn
      BY <3>1, UnchangedGoesOn
    <3> QED
      BY <2>1, <2>3, <3>1, <3>2, <3>3 DEF CollectionInv, Asks, Holds
  <2> QED
    BY <2>4, <2>5
<1> QED
  BY <1>4, <1>5, <1>6

LEMMA RequestStep ==
  ASSUME CollectionInv,
         \/ Collection!LoadFails \/ Collection!PollFails \/ Collection!SubmitFails
         \/ Collection!TimerFires \/ Collection!Press
  PROVE  CollectionInv' /\ ShownGoesOn
<1>1. Collection!TypeOK /\ Collection!OnePoll
  BY DEF CollectionInv
<1>2. UNCHANGED <<latest, collection, workspace>> /\ UNCHANGED Collection!MayPress
      /\ ShownGoesOn
  BY UnchangedGoesOn
     DEF Collection!LoadFails, Collection!PollFails, Collection!SubmitFails,
         Collection!TimerFires, Collection!Press, Collection!MayPress
<1>3. /\ Collection!MayPress => ~Collection!Active(collection)
      /\ Collection!MayPress => collection # Collection!Undefined
  BY DEF Collection!MayPress, Collection!Active, Collection!NoJob, Collection!Undefined
<1>4. CASE Collection!LoadFails
  <2>1. /\ firstLoad' = Collection!Idle
        /\ UNCHANGED <<submitting, pollTimer, poll, submit>>
    BY <1>4 DEF Collection!LoadFails
  <2>2. Collection!TypeOK' /\ Collection!OnePoll'
    BY <1>1, <1>2, <2>1, JobsAreRecords DEF Collection!TypeOK, Collection!OnePoll
  <2> QED
    BY <1>2, <2>1, <2>2, JobsAreRecords DEF CollectionInv, Asks, Holds
<1>5. CASE Collection!PollFails
  <2>1. /\ Asks(poll) /\ poll' = Collection!Idle /\ pollTimer' = TRUE
        /\ UNCHANGED <<submitting, firstLoad, submit>>
    BY <1>5 DEF Collection!PollFails, Asks
  <2>2. Collection!Active(collection)
    BY <1>1, <2>1, JobsAreRecords DEF Collection!OnePoll, Asks
  <2>3. Collection!TypeOK' /\ Collection!OnePoll'
    BY <1>1, <1>2, <2>1, <2>2, JobsAreRecords
       DEF Collection!TypeOK, Collection!OnePoll, Collection!Active
  <2> QED
    BY <1>2, <2>1, <2>3, JobsAreRecords DEF CollectionInv, Asks, Holds
<1>6. CASE Collection!SubmitFails
  <2>1. /\ submit' = Collection!Idle /\ submitting' = FALSE
        /\ UNCHANGED <<pollTimer, firstLoad, poll>>
    BY <1>6 DEF Collection!SubmitFails
  <2>2. Collection!TypeOK' /\ Collection!OnePoll'
    BY <1>1, <1>2, <2>1, JobsAreRecords DEF Collection!TypeOK, Collection!OnePoll
  <2> QED
    BY <1>2, <2>1, <2>2, JobsAreRecords DEF CollectionInv, Asks, Holds
<1>7. CASE Collection!TimerFires
  <2>1. /\ pollTimer /\ pollTimer' = FALSE /\ poll' = Collection!Sent
        /\ UNCHANGED <<submitting, firstLoad, submit>>
    BY <1>7 DEF Collection!TimerFires
  <2>2. Collection!Active(collection)
    BY <1>1, <2>1 DEF Collection!OnePoll
  <2>3. Collection!TypeOK' /\ Collection!OnePoll'
    BY <1>1, <1>2, <2>1, <2>2, JobsAreRecords
       DEF Collection!TypeOK, Collection!OnePoll, Collection!Active
  <2> QED
    BY <1>2, <2>1, <2>3, JobsAreRecords DEF CollectionInv, Asks, Holds
<1>8. CASE Collection!Press
  <2>1. /\ Collection!MayPress /\ submit' = Collection!Sent /\ submitting' = TRUE
        /\ UNCHANGED <<pollTimer, firstLoad, poll>>
    BY <1>8 DEF Collection!Press
  <2>2. ~Asks(firstLoad)
    BY <1>3, <2>1 DEF CollectionInv
  <2>3. Collection!TypeOK' /\ Collection!OnePoll'
    BY <1>1, <1>2, <2>1, JobsAreRecords DEF Collection!TypeOK, Collection!OnePoll
  <2> QED
    BY <1>2, <2>1, <2>2, <2>3, JobsAreRecords DEF CollectionInv, Asks, Holds
<1> QED
  BY <1>4, <1>5, <1>6, <1>7, <1>8

LEMMA MountStep ==
  ASSUME CollectionInv, Collection!Close \/ Collection!Open
  PROVE  CollectionInv' /\ ShownGoesOn
<1>1. /\ UNCHANGED latest /\ workspace' \in BOOLEAN /\ ~(workspace /\ workspace')
      /\ collection' = Collection!Undefined /\ submitting' = FALSE /\ pollTimer' = FALSE
      /\ firstLoad' \in {Collection!Idle, Collection!Sent}
      /\ poll' = Collection!Idle /\ submit' = Collection!Idle
  BY DEF Collection!Close, Collection!Open, Collection!Mounted
<1>2. Collection!TypeOK'
  BY <1>1, JobsAreRecords DEF CollectionInv, Collection!TypeOK
<1>3. Collection!OnePoll'
  BY <1>1 DEF Collection!OnePoll, Collection!Active, Collection!Undefined
<1>4. AtMost(collection', latest')
  BY <1>1, EverythingAfterUndefined DEF CollectionInv, Collection!TypeOK
<1> QED
  BY <1>1, <1>2, <1>3, <1>4, JobsAreRecords DEF CollectionInv, ShownGoesOn, Asks, Holds

LEMMA CollectionStep ==
  ASSUME CollectionInv, Collection!Next
  PROVE  CollectionInv' /\ ShownGoesOn
  BY OthersStep, ApiStep, ArrivalStep, RequestStep, MountStep
     DEF Collection!Next, Collection!Page

LEMMA CollectionStays ==
  ASSUME CollectionInv, UNCHANGED collectionVars
  PROVE  CollectionInv' /\ ShownGoesOn
<1>1. ShownGoesOn
  BY UnchangedGoesOn DEF collectionVars
<1>2. CollectionInv'
  BY DEF CollectionInv, Collection!TypeOK, Collection!OnePoll, Collection!MayPress,
         AtMost, Asks, Holds, collectionVars
<1> QED
  BY <1>1, <1>2

-----------------------------------------------------------------------------
(* The table of streams and the search for one of them *)

\* The row of a new stream: the others keep their order, and none moves ahead.
LEMMA InsertedRow ==
  ASSUME NEW t \in Seq(Videos), Registration!IsInjective(t), NEW video \in Videos,
         video \notin Registration!ToSet(t), NEW i \in 1 .. Len(t) + 1
  PROVE  LET more == Registration!InsertAt(t, i, video)
         IN  /\ more \in Seq(Videos) /\ Registration!IsInjective(more)
             /\ \A k \in DOMAIN t :
                  \E l \in DOMAIN more : more[l] = t[k] /\ l >= k
             /\ \E l \in DOMAIN more : more[l] = video
<1> DEFINE n == Len(t)
           more == Registration!InsertAt(t, i, video)
<1>1. n \in Nat /\ DOMAIN t = 1 .. n /\ i \in Nat /\ i \in 1 .. n + 1
  BY SMT
<1>2. /\ more \in Seq(Videos) /\ Len(more) = n + 1
      /\ \A l \in 1 .. n + 1 :
           more[l] = IF l < i THEN t[l] ELSE IF l = i THEN video ELSE t[l - 1]
  <2> DEFINE front == SubSeq(t, 1, i - 1)
             back == SubSeq(t, i, n)
  <2>1. /\ front \in Seq(Videos) /\ Len(front) = i - 1
        /\ \A l \in 1 .. i - 1 : front[l] = t[l]
    BY <1>1, SMT
  <2>2. /\ back \in Seq(Videos) /\ Len(back) = (n - i) + 1
        /\ \A l \in 1 .. (n - i) + 1 : back[l] = t[(i + l) - 1]
    BY <1>1, SMT
  <2>3. more = front \o <<video>> \o back
    BY DEF Registration!InsertAt
  <2> HIDE DEF front, back, more, n
  <2> DEFINE half == front \o <<video>>
  <2>4. /\ half \in Seq(Videos) /\ Len(half) = i
        /\ \A l \in 1 .. i : half[l] = IF l < i THEN t[l] ELSE video
    BY <1>1, <2>1, SMT
  <2>5. more = half \o back
    BY <2>3
  <2> HIDE DEF half
  <2>6. half \o back \in Seq(Videos)
    BY <2>2, <2>4, SMT
  <2>7. Len(half \o back) = n + 1
    <3>1. Len(half \o back) = Len(half) + Len(back)
      BY <2>2, <2>4, ConcatProperties
    <3> QED
      BY <1>1, <2>2, <2>4, <3>1, SMT
  <2>8. \A l \in 1 .. n + 1 :
          (half \o back)[l] = IF l <= i THEN half[l] ELSE back[l - i]
    <3>1. \A l \in 1 .. Len(half) + Len(back) :
            (half \o back)[l] = IF l <= Len(half) THEN half[l] ELSE back[l - Len(half)]
      BY <2>2, <2>4, ConcatProperties
    <3> QED
      BY <1>1, <2>2, <2>4, <3>1, SMT
  <2>9. ASSUME NEW l \in 1 .. n + 1
        PROVE  more[l] = IF l < i THEN t[l] ELSE IF l = i THEN video ELSE t[l - 1]
    <3>1. CASE l <= i
      BY <1>1, <2>4, <2>5, <2>8, <3>1, SMT
    <3>2. CASE l > i
      <4>1. l - i \in 1 .. (n - i) + 1 /\ (i + (l - i)) - 1 = l - 1
        BY <1>1, <3>2, SMT
      <4>2. back[l - i] = t[l - 1]
        BY <2>2, <4>1
      <4>3. l \in 1 .. n + 1 /\ ~(l <= i)
        BY <1>1, <3>2, SMT
      <4>4. more[l] = back[l - i]
        BY <2>5, <2>8, <4>3
      <4> QED
        BY <1>1, <3>2, <4>2, <4>4, SMT
    <3> QED
      BY <1>1, <3>1, <3>2, SMT
  <2> QED
    BY <2>5, <2>6, <2>7, <2>9
<1> HIDE DEF more
<1>3. DOMAIN more = 1 .. n + 1
  BY <1>1, <1>2, SMT
<1>4. \A k \in 1 .. n : t[k] # video
  BY <1>1 DEF Registration!ToSet
<1>5. \A j, k \in 1 .. n : t[j] = t[k] => j = k
  BY <1>1 DEF Registration!IsInjective
<1>6. Registration!IsInjective(more)
  <2> SUFFICES ASSUME NEW a \in 1 .. n + 1, NEW b \in 1 .. n + 1, more[a] = more[b]
               PROVE  a = b
    BY <1>3 DEF Registration!IsInjective
  <2> QED
    BY <1>1, <1>2, <1>4, <1>5, SMT
<1>7. ASSUME NEW k \in DOMAIN t
      PROVE  \E l \in DOMAIN more : more[l] = t[k] /\ l >= k
  <2>1. CASE k < i
    BY <1>1, <1>2, <1>3, <2>1, SMT
  <2>2. CASE k >= i
    <3>1. k + 1 \in DOMAIN more /\ more[k + 1] = t[k] /\ k + 1 >= k
      BY <1>1, <1>2, <1>3, <2>2, SMT
    <3> QED
      BY <3>1
  <2> QED
    BY <1>1, <2>1, <2>2, SMT
<1>8. i \in DOMAIN more /\ more[i] = video
  BY <1>1, <1>2, <1>3, SMT
<1> QED
  BY <1>2, <1>6, <1>7, <1>8 DEF more

LEMMA MinOfTwo ==
  ASSUME NEW a \in Int, NEW b \in Int
  PROVE  /\ Registration!Min({a, b}) = IF a <= b THEN a ELSE b
         /\ List!Min({a, b}) = IF a <= b THEN a ELSE b
<1> DEFINE least == IF a <= b THEN a ELSE b
<1>1. least \in {a, b} /\ \A y \in {a, b} : least <= y
  BY SMT
<1>2. \A x \in {a, b} : (\A y \in {a, b} : x <= y) => x = least
  BY SMT
<1> HIDE DEF least
<1>3. (CHOOSE x \in {a, b} : \A y \in {a, b} : x <= y) = least
  BY <1>1, <1>2
<1> QED
  BY <1>3 DEF Registration!Min, List!Min, least

\* Others insert rows, and nothing that lay behind an offset comes before it.
LEMMA TableGrows ==
  ASSUME RegistrationInv, NEW video \in Videos, video \notin Registration!Registered,
         table' \in Registration!Inserted(video)
  PROVE  /\ table' \in Seq(Videos) /\ Registration!IsInjective(table')
         /\ Registration!Registered \subseteq Registration!Registered'
         /\ \A offset \in Nat, wanted \in Videos :
              LiesBehind(table, offset, wanted) => LiesBehind(table', offset, wanted)
<1>1. table \in Seq(Videos) /\ Registration!IsInjective(table)
  BY DEF RegistrationInv, CallIsTrue, Registration!TypeOK
<1>2. PICK i \in 1 .. Len(table) + 1 : table' = Registration!InsertAt(table, i, video)
  BY DEF Registration!Inserted
<1>3. /\ table' \in Seq(Videos) /\ Registration!IsInjective(table')
      /\ \A k \in DOMAIN table :
           \E l \in DOMAIN table' : table'[l] = table[k] /\ l >= k
  BY <1>1, <1>2, InsertedRow DEF Registration!Registered
<1>4. Registration!Registered \subseteq Registration!Registered'
  BY <1>3 DEF Registration!Registered, Registration!ToSet
<1>5. ASSUME NEW offset \in Nat, NEW wanted \in Videos,
             LiesBehind(table, offset, wanted)
      PROVE  LiesBehind(table', offset, wanted)
  <2>1. PICK k \in DOMAIN table : table[k] = wanted /\ k > offset
    BY <1>5 DEF LiesBehind
  <2>2. PICK l \in DOMAIN table' : table'[l] = table[k] /\ l >= k
    BY <1>3
  <2>3. k \in Nat /\ l \in Nat
    BY <1>1, <1>3, SMT
  <2>4. l > offset
    BY <2>1, <2>2, <2>3, SMT
  <2> QED
    BY <2>1, <2>2, <2>4 DEF LiesBehind
<1> QED
  BY <1>3, <1>4, <1>5

LEMMA RegistrationInit == Registration!Init => RegistrationInv
<1> SUFFICES ASSUME Registration!Init PROVE RegistrationInv
  OBVIOUS
<1>1. call \in Registration!Call
  BY SMT DEF Registration!Init, Registration!Idle, Registration!Call
<1>2. table \in Seq(Videos) /\ Registration!IsInjective(table)
  BY SMT DEF Registration!Init, Registration!IsInjective
<1> QED
  BY <1>1, <1>2
     DEF Registration!Init, Registration!Idle, RegistrationInv, CallIsTrue,
         Registration!TypeOK, Registration!ExistingIsFound

\* The table grows, or stays, while the call stays.
LEMMA OthersRegister ==
  ASSUME RegistrationInv, UNCHANGED call,
         \/ UNCHANGED table
         \/ \E video \in Videos : /\ video \notin Registration!Registered
                                  /\ table' \in Registration!Inserted(video),
         url' \in Videos \union {NULL}, preview' \in Videos \union {NULL},
         previewing' \in Videos \union {NULL, "idle"},
         streams' \subseteq Registration!Registered
  PROVE  RegistrationInv'
<1>1. /\ table' \in Seq(Videos) /\ Registration!IsInjective(table')
      /\ Registration!Registered \subseteq Registration!Registered'
      /\ \A offset \in Nat, wanted \in Videos :
           LiesBehind(table, offset, wanted) => LiesBehind(table', offset, wanted)
  <2>1. CASE UNCHANGED table
    BY <2>1 DEF RegistrationInv, CallIsTrue, Registration!TypeOK, Registration!Registered
  <2> QED
    BY <2>1, TableGrows
<1>2. Registration!TypeOK'
  BY <1>1 DEF RegistrationInv, CallIsTrue, Registration!TypeOK
<1>3. \A offset \in Nat : Ahead(offset) => Ahead(offset)'
  <2>1. \A offset : Ahead(offset) => call.preview \in Videos
    <3>1. table \in Seq(Videos)
      BY DEF RegistrationInv, CallIsTrue, Registration!TypeOK
    <3>2. \A k \in DOMAIN table : table[k] \in Videos
      BY <3>1, SMT
    <3> QED
      BY <3>2 DEF Ahead, LiesBehind
  <2> QED
    BY <1>1, <2>1 DEF Ahead
<1>4. call.offset \in Nat /\ call.offset + PageSize \in Nat
  BY SizesOfPages, SMT
     DEF RegistrationInv, CallIsTrue, Registration!TypeOK, Registration!Call
<1> QED
  BY <1>2, <1>3, <1>4 DEF RegistrationInv, CallIsTrue, Registration!ExistingIsFound

LEMMA CallStep ==
  ASSUME RegistrationInv, CallIsTrue',
         table' \in Seq(Videos), Registration!IsInjective(table'),
         Registration!Registered \subseteq Registration!Registered',
         UNCHANGED <<url, preview, previewing, streams>>
  PROVE  RegistrationInv'
  BY DEF RegistrationInv, CallIsTrue, Registration!TypeOK, CallIsTrue

LEMMA CallFields ==
  ASSUME RegistrationInv
  PROVE  /\ call.state \in
              {"idle", "sent", "created", "exists", "failed", "asked", "page"}
         /\ call.url \in Videos \union {NULL} /\ call.preview \in Videos \union {NULL}
         /\ call.offset \in Nat /\ call.page \in Seq(Videos)
         /\ call.end \in {"none", "created", "found", "not_found", "error"}
         /\ table \in Seq(Videos) /\ Registration!IsInjective(table)
         /\ PageSize \in Nat /\ PageSize > 0
<1>1. call \in Registration!Call /\ table \in Seq(Videos)
      /\ Registration!IsInjective(table)
  BY DEF RegistrationInv, CallIsTrue, Registration!TypeOK
<1> QED
  BY <1>1, SizesOfPages, SMT DEF Registration!Call

\* A call that ends in any other way than not_found promises nothing.
LEMMA EndedIsTrue ==
  ASSUME RegistrationInv, NEW how \in {"created", "found", "not_found", "error"},
         call' = Registration!Ended(how),
         how = "not_found" => call.url # call.preview
  PROVE  CallIsTrue'
<1>1. call' = [state |-> "idle", url |-> call.url, preview |-> call.preview,
               offset |-> 0, page |-> <<>>, end |-> how]
  BY DEF Registration!Ended, Registration!Idle
<1>2. call' \in Registration!Call
  BY <1>1, CallFields, SMT DEF Registration!Call
<1> QED
  BY <1>1, <1>2 DEF CallIsTrue, Registration!ExistingIsFound

\* Another state of the call, everything else in it as it was.
LEMMA StateChanges ==
  ASSUME RegistrationInv, NEW s \in {"created", "exists", "failed", "asked"},
         call' = [call EXCEPT !.state = s]
  PROVE  /\ call' \in Registration!Call /\ call'.state = s
         /\ call'.url = call.url /\ call'.preview = call.preview
         /\ call'.offset = call.offset /\ call'.page = call.page
         /\ call'.end = call.end
<1>1. call \in Registration!Call
  BY DEF RegistrationInv, CallIsTrue, Registration!TypeOK
<1> QED
  BY <1>1 DEF Registration!Call

LEMMA CreateStep ==
  ASSUME RegistrationInv, Registration!Create
  PROVE  RegistrationInv'
<1>1. /\ call.state = "sent" /\ call.end = "none" /\ call.offset = 0
      /\ UNCHANGED <<url, preview, previewing, streams>>
  BY DEF Registration!Create, RegistrationInv, CallIsTrue
<1>2. CASE call' = [call EXCEPT !.state = "failed"] /\ UNCHANGED table
  <2>1. CallIsTrue'
    BY <1>1, <1>2, StateChanges DEF CallIsTrue, Registration!ExistingIsFound
  <2> QED
    BY <1>1, <1>2, <2>1, CallStep, CallFields DEF Registration!Registered
<1>3. CASE /\ call.url \in Registration!Registered
           /\ call' = [call EXCEPT !.state = "exists"]
           /\ UNCHANGED table
  <2>1. call.url = call.preview => Ahead(call.offset)'
    <3>1. PICK k \in DOMAIN table : table[k] = call.url
      BY <1>3 DEF Registration!Registered, Registration!ToSet
    <3>2. k > 0
      BY CallFields, SMT
    <3>3. call'.offset = 0 /\ call'.preview = call.preview
      BY <1>1, <1>3, StateChanges
    <3> QED
      BY <1>3, <3>1, <3>2, <3>3 DEF Ahead, LiesBehind
  <2>2. CallIsTrue'
    BY <1>1, <1>3, <2>1, StateChanges DEF CallIsTrue, Registration!ExistingIsFound
  <2> QED
    BY <1>1, <1>3, <2>2, CallStep, CallFields DEF Registration!Registered
<1>4. CASE /\ call.url \in Videos \ Registration!Registered
           /\ table' \in Registration!Inserted(call.url)
           /\ call' = [call EXCEPT !.state = "created"]
  <2>1. CallIsTrue'
    BY <1>1, <1>4, StateChanges DEF CallIsTrue, Registration!ExistingIsFound
  <2>2. /\ table' \in Seq(Videos) /\ Registration!IsInjective(table')
        /\ Registration!Registered \subseteq Registration!Registered'
    BY <1>4, TableGrows
  <2> QED
    BY <1>1, <2>1, <2>2, CallStep
<1> QED
  BY <1>2, <1>3, <1>4 DEF Registration!Create

LEMMA AnswerPageStep ==
  ASSUME RegistrationInv, Registration!AnswerPage
  PROVE  RegistrationInv'
<1> DEFINE first == call.offset + 1
           last == IF call.offset + PageSize <= Len(table) THEN call.offset + PageSize
                   ELSE Len(table)
           page == SubSeq(table, first, last)
<1>1. /\ call.state = "asked" /\ call.end = "none"
      /\ UNCHANGED <<table, url, preview, previewing, streams>>
  BY DEF Registration!AnswerPage, RegistrationInv, CallIsTrue
<1>2. call' = [call EXCEPT !.state = "page", !.page = page]
  <2>1. Registration!Min({call.offset + PageSize, Len(table)}) = last
    BY CallFields, MinOfTwo, SMT
  <2> QED
    BY <2>1 DEF Registration!AnswerPage
<1>3. /\ first \in Nat \ {0} /\ last \in Nat /\ last <= Len(table)
      /\ page \in Seq(Videos)
      /\ Len(page) = IF first <= last THEN (last - first) + 1 ELSE 0
      /\ \A l \in 1 .. (last - first) + 1 : page[l] = table[(first + l) - 1]
  <2>1. /\ first \in Nat \ {0} /\ last \in Nat /\ last <= Len(table)
    BY CallFields, SMT
  <2> HIDE DEF first, last
  <2> QED
    BY <2>1, CallFields, SMT
<1> HIDE DEF page
<1>4. /\ call' \in Registration!Call /\ call'.state = "page" /\ call'.page = page
      /\ call'.offset = call.offset /\ call'.preview = call.preview
      /\ call'.url = call.url /\ call'.end = call.end
  <2>1. call \in Registration!Call
    BY DEF RegistrationInv, Registration!TypeOK
  <2> QED
    BY <1>2, <1>3, <2>1 DEF Registration!Call
<1>5. ASSUME call.url = call.preview
      PROVE  \/ call.preview \in Registration!ToSet(page)
             \/ Len(page) = PageSize /\ Ahead(call.offset + PageSize)
  <2>1. PICK k \in DOMAIN table : table[k] = call.preview /\ k > call.offset
    BY <1>1, <1>5 DEF RegistrationInv, CallIsTrue, Ahead, LiesBehind
  <2>2. k \in 1 .. Len(table)
    BY CallFields, SMT
  <2>3. CASE k <= call.offset + PageSize
    <3>1. k - call.offset \in 1 .. (last - first) + 1
      BY <2>1, <2>2, <2>3, CallFields, SMT
    <3>2. (first + (k - call.offset)) - 1 = k /\ first <= last
      BY <2>1, <2>2, <2>3, CallFields, SMT
    <3>3. page[k - call.offset] = call.preview
      BY <1>3, <2>1, <3>1, <3>2
    <3>4. k - call.offset \in DOMAIN page
      BY <1>3, <3>1, <3>2, CallFields, SMT
    <3> QED
      BY <3>3, <3>4 DEF Registration!ToSet
  <2>4. CASE k > call.offset + PageSize
    <3>1. last = call.offset + PageSize /\ first <= last
          /\ (last - first) + 1 = PageSize
      BY <2>2, <2>4, CallFields, SMT
    <3> QED
      BY <1>3, <2>1, <2>4, <3>1 DEF Ahead, LiesBehind
  <2> QED
    BY <2>2, <2>3, <2>4, CallFields, SMT
<1>6. CallIsTrue'
  <2>1. ~(call'.end = "not_found")
    BY <1>1, <1>4
  <2>2. call'.url = call'.preview =>
             \/ call'.preview \in Registration!ToSet(call'.page)
             \/ Len(call'.page) = PageSize /\ Ahead(call.offset + PageSize)'
    BY <1>1, <1>4, <1>5 DEF Ahead
  <2> QED
    BY <1>1, <1>4, <2>1, <2>2 DEF CallIsTrue, Registration!ExistingIsFound
<1> QED
  BY <1>1, <1>6, CallStep, CallFields DEF Registration!Registered

LEMMA SearchPageStep ==
  ASSUME RegistrationInv, Registration!SearchPage
  PROVE  RegistrationInv'
<1>1. /\ call.state = "page" /\ call.end = "none"
      /\ UNCHANGED <<table, url, preview, previewing, streams>>
      /\ call.url = call.preview =>
            \/ call.preview \in Registration!ToSet(call.page)
            \/ Len(call.page) = PageSize /\ Ahead(call.offset + PageSize)
  BY DEF Registration!SearchPage, RegistrationInv, CallIsTrue
<1>2. CASE call.preview \in Registration!ToSet(call.page)
  BY <1>1, <1>2, EndedIsTrue, CallStep, CallFields
     DEF Registration!SearchPage, Registration!Registered
<1>3. CASE call.preview \notin Registration!ToSet(call.page)
           /\ Len(call.page) < PageSize
  <2>1. call.url # call.preview
    BY <1>1, <1>3, CallFields, SMT
  <2>2. call' = Registration!Ended("not_found")
    BY <1>3 DEF Registration!SearchPage
  <2> QED
    BY <1>1, <2>1, <2>2, EndedIsTrue, CallStep, CallFields DEF Registration!Registered
<1>4. CASE call.preview \notin Registration!ToSet(call.page)
           /\ ~(Len(call.page) < PageSize)
  <2>1. call' = [call EXCEPT !.state = "asked", !.page = <<>>,
                             !.offset = call.offset + PageSize]
    BY <1>4 DEF Registration!SearchPage
  <2>2. call.offset + PageSize \in Nat /\ <<>> \in Seq(Videos)
    BY CallFields, SMT
  <2>3. /\ call' \in Registration!Call /\ call'.state = "asked"
        /\ call'.offset = call.offset + PageSize /\ call'.preview = call.preview
        /\ call'.url = call.url /\ call'.end = call.end
    <3>1. call \in Registration!Call
      BY DEF RegistrationInv, Registration!TypeOK
    <3> QED
      BY <2>1, <2>2, <3>1 DEF Registration!Call
  <2>4. call'.url = call'.preview => Ahead(call.offset)'
    BY <1>1, <1>4, <2>3 DEF Ahead
  <2>5. CallIsTrue'
    BY <1>1, <2>3, <2>4 DEF CallIsTrue, Registration!ExistingIsFound
  <2> QED
    BY <1>1, <2>5, CallStep, CallFields DEF Registration!Registered
<1> QED
  BY <1>2, <1>3, <1>4

LEMMA RegisterStep ==
  ASSUME RegistrationInv, Registration!Register
  PROVE  RegistrationInv'
<1>1. UNCHANGED <<table, url, preview, previewing, streams>>
  BY DEF Registration!Register
<1>2. call' = [state |-> "sent", url |-> url, preview |-> preview,
               offset |-> 0, page |-> <<>>, end |-> "none"]
  BY DEF Registration!Register, Registration!Idle
<1>3. url \in Videos \union {NULL} /\ preview \in Videos \union {NULL}
  BY DEF RegistrationInv, Registration!TypeOK
<1>4. call' \in Registration!Call
  BY <1>2, <1>3, SMT DEF Registration!Call
<1>5. CallIsTrue'
  BY <1>2, <1>4 DEF CallIsTrue, Registration!ExistingIsFound
<1> QED
  BY <1>1, <1>5, CallStep, CallFields DEF Registration!Registered

LEMMA RegisterAnsweredStep ==
  ASSUME RegistrationInv, Registration!RegisterAnswered
  PROVE  RegistrationInv'
<1>1. /\ UNCHANGED <<table, url, preview, previewing, streams>>
      /\ \/ \E how \in {"created", "found", "error"} : call' = Registration!Ended(how)
         \/ call.state = "exists" /\ call' = [call EXCEPT !.state = "asked"]
  BY DEF Registration!RegisterAnswered
<1>2. CASE \E how \in {"created", "found", "error"} : call' = Registration!Ended(how)
  BY <1>1, <1>2, EndedIsTrue, CallStep, CallFields DEF Registration!Registered
<1>3. CASE call.state = "exists" /\ call' = [call EXCEPT !.state = "asked"]
  <2>1. /\ call.offset = 0 /\ call.end = "none"
        /\ call.url = call.preview => Ahead(call.offset)
    BY <1>3 DEF RegistrationInv, CallIsTrue
  <2>2. call'.url = call'.preview => Ahead(call.offset)'
    BY <1>1, <1>3, <2>1, StateChanges DEF Ahead
  <2>3. CallIsTrue'
    BY <1>3, <2>1, <2>2, StateChanges DEF CallIsTrue, Registration!ExistingIsFound
  <2> QED
    BY <1>1, <2>3, CallStep, CallFields DEF Registration!Registered
<1> QED
  BY <1>1, <1>2, <1>3

LEMMA RequestFailsStep ==
  ASSUME RegistrationInv, Registration!RequestFails
  PROVE  RegistrationInv'
<1>1. /\ UNCHANGED <<table, url, preview, previewing, streams>>
      /\ call' = Registration!Ended("error")
  BY DEF Registration!RequestFails
<1> QED
  BY <1>1, EndedIsTrue, CallStep, CallFields DEF Registration!Registered

LEMMA RegistrationStep ==
  ASSUME RegistrationInv, Registration!Next
  PROVE  RegistrationInv'
<1>0. /\ url \in Videos \union {NULL} /\ preview \in Videos \union {NULL}
      /\ previewing \in Videos \union {NULL, "idle"}
      /\ streams \subseteq Registration!Registered
  BY DEF RegistrationInv, Registration!TypeOK
<1>1. CASE \E video \in Videos :
             Registration!OtherRegisters(video) \/ Registration!Observed(video)
  <2>1. /\ UNCHANGED <<url, preview, previewing, streams, call>>
        /\ \/ UNCHANGED table
           \/ \E video \in Videos : /\ video \notin Registration!Registered
                                    /\ table' \in Registration!Inserted(video)
    BY <1>1 DEF Registration!OtherRegisters, Registration!Observed
  <2> QED
    BY <1>0, <2>1, OthersRegister
<1>2. CASE \/ \E video \in Typed \union {NULL} : Registration!Type(video)
           \/ Registration!StartPreview \/ Registration!PreviewEnds
           \/ Registration!ListArrives
  <2>1. /\ UNCHANGED <<table, call>>
        /\ url' \in Videos \union {NULL} /\ preview' \in Videos \union {NULL}
        /\ previewing' \in Videos \union {NULL, "idle"}
        /\ streams' \subseteq Registration!Registered
    BY <1>0, <1>2, TypedAreVideos
       DEF Registration!Type, Registration!StartPreview, Registration!PreviewEnds,
           Registration!ListArrives
  <2> QED
    BY <2>1, OthersRegister
<1> QED
  BY <1>1, <1>2, CreateStep, AnswerPageStep, SearchPageStep, RegisterStep,
     RegisterAnsweredStep, RequestFailsStep
     DEF Registration!Next, Registration!Registration

LEMMA RegistrationStays ==
  ASSUME RegistrationInv, UNCHANGED registrationVars
  PROVE  RegistrationInv'
<1>1. UNCHANGED <<table, url, preview, previewing, streams, call>>
  BY DEF registrationVars
<1> QED
  BY <1>1, OthersRegister DEF RegistrationInv, Registration!TypeOK

-----------------------------------------------------------------------------
(* The order of the messages *)

\* The instances have the cardinality of FiniteSets under names of their own.
LEMMA SameCardinality ==
  \A S : /\ List!Cardinality(S) = Cardinality(S)
         /\ Chart!Cardinality(S) = Cardinality(S)
  BY DEF List!Cardinality, Chart!Cardinality, Cardinality

LEMMA KeysAreOrdered ==
  /\ \A m \in Messages : ~List!KeyLess(m, m)
  /\ \A m, n \in Messages : List!KeyLess(m, n) \/ List!KeyLess(n, m) \/ m = n
  /\ \A m, n, o \in Messages :
       List!KeyLess(m, n) /\ List!KeyLess(n, o) => List!KeyLess(m, o)
<1>1. \A m \in Messages : m.offset \in Int /\ m.id \in Int
  BY MessagesAreKeys, SMT
<1>2. \A m, n \in Messages : m.offset = n.offset /\ m.id = n.id => m = n
  BY MessagesAreKeys
<1> QED
  BY <1>1, <1>2, SMT DEF List!KeyLess

\* How many of found come before m.
Rank(found, m) == Cardinality({n \in found : List!KeyLess(n, m)})

LEMMA RanksDiffer ==
  ASSUME NEW found \in SUBSET Messages
  PROVE  /\ IsFiniteSet(found) /\ Cardinality(found) \in Nat
         /\ \A m \in found : Rank(found, m) \in 0 .. Cardinality(found) - 1
         /\ \A m, n \in found : List!KeyLess(m, n) => Rank(found, m) < Rank(found, n)
<1>1. IsFiniteSet(found) /\ Cardinality(found) \in Nat
  BY MessagesAreFinite, FS_Subset, FS_CardinalityType
<1>2. ASSUME NEW m \in found
      PROVE  LET below == {n \in found : List!KeyLess(n, m)}
             IN  /\ IsFiniteSet(below) /\ Cardinality(below) \in Nat
                 /\ m \notin below
                 /\ IsFiniteSet(below \union {m})
                 /\ Cardinality(below \union {m}) = Cardinality(below) + 1
  <2> DEFINE below == {n \in found : List!KeyLess(n, m)}
  <2>1. IsFiniteSet(below) /\ Cardinality(below) \in Nat
    BY <1>1, FS_Subset, FS_CardinalityType
  <2>2. m \notin below
    BY KeysAreOrdered
  <2> QED
    BY <2>1, <2>2, FS_AddElement
<1>3. ASSUME NEW m \in found
      PROVE  Rank(found, m) \in 0 .. Cardinality(found) - 1
  <2> DEFINE below == {n \in found : List!KeyLess(n, m)}
  <2>1. Cardinality(below \union {m}) <= Cardinality(found)
    BY <1>1, FS_Subset
  <2>2. Rank(found, m) \in Nat /\ Rank(found, m) + 1 <= Cardinality(found)
    BY <1>2, <2>1 DEF Rank
  <2> QED
    BY <1>1, <2>2, SMT
<1>4. ASSUME NEW m \in found, NEW n \in found, List!KeyLess(m, n)
      PROVE  Rank(found, m) < Rank(found, n)
  <2> DEFINE below == {o \in found : List!KeyLess(o, m)}
             belowN == {o \in found : List!KeyLess(o, n)}
  <2>1. below \union {m} \subseteq belowN
    BY <1>4, KeysAreOrdered
  <2>2. IsFiniteSet(belowN) /\ Cardinality(belowN) \in Nat
    BY <1>2
  <2>3. Cardinality(below \union {m}) <= Cardinality(belowN)
    BY <2>1, <2>2, FS_Subset
  <2>4. Rank(found, m) \in Nat /\ Rank(found, m) + 1 <= Rank(found, n)
    BY <1>2, <2>3 DEF Rank
  <2>5. Rank(found, n) \in Nat
    BY <2>2 DEF Rank
  <2> QED
    BY <2>4, <2>5, SMT
<1> QED
  BY <1>1, <1>3, <1>4

\* ORDER BY: a sequence of what was found, each once, in the order of the keys.
LEMMA RowsAreOrdered ==
  ASSUME NEW found \in SUBSET Messages
  PROVE  LET rows == List!InOrder(found)
         IN  /\ rows \in Seq(found) /\ Len(rows) = Cardinality(found)
             /\ Cardinality(found) \in Nat
             /\ \A m \in found : \E i \in 1 .. Len(rows) : rows[i] = m
             /\ \A i, j \in 1 .. Len(rows) : i < j => List!KeyLess(rows[i], rows[j])
<1> DEFINE n == Cardinality(found)
           rows == List!InOrder(found)
           place == [m \in found |-> Rank(found, m) + 1]
<1>1. /\ IsFiniteSet(found) /\ n \in Nat
      /\ \A m \in found : Rank(found, m) \in 0 .. n - 1
      /\ \A m, o \in found : List!KeyLess(m, o) => Rank(found, m) < Rank(found, o)
  BY RanksDiffer
<1>2. \A m, o \in found : Rank(found, m) = Rank(found, o) => m = o
  <2>1. \A m, o \in found :
           List!KeyLess(m, o) \/ List!KeyLess(o, m) => Rank(found, m) # Rank(found, o)
    <3>1. \A m \in found : Rank(found, m) \in Int
      BY <1>1, SMT
    <3> HIDE DEF n
    <3> QED
      BY <1>1, <3>1, SMT
  <2> QED
    BY <2>1, KeysAreOrdered
<1>3. place \in Surjection(found, 1 .. n)
  <2>1. place \in [found -> 1 .. n]
    BY <1>1, SMT
  <2>2. \A m, o \in found : place[m] = place[o] => m = o
    <3>1. \A m \in found : Rank(found, m) \in Int
      BY <1>1, SMT
    <3>2. \A m, o \in found : place[m] = place[o] => Rank(found, m) = Rank(found, o)
      BY <3>1, SMT
    <3> QED
      BY <1>2, <3>2
  <2>3. place \in Injection(found, 1 .. n)
    BY <2>1, <2>2 DEF Injection, IsInjective
  <2>4. IsFiniteSet(1 .. n) /\ Cardinality(1 .. n) = n
    <3>1. Cardinality(1 .. n) = (IF 1 > n THEN 0 ELSE n - 1 + 1) /\ IsFiniteSet(1 .. n)
      BY <1>1, FS_Interval, SMT
    <3> HIDE DEF n
    <3> QED
      BY <1>1, <3>1, SMT
  <2> HIDE DEF place
  <2> QED
    BY <2>3, <2>4, FS_Injection
<1>4. ASSUME NEW i \in 1 .. n
      PROVE  rows[i] \in found /\ Rank(found, rows[i]) = i - 1
  <2>1. PICK m \in found : place[m] = i
    BY <1>3 DEF Surjection
  <2>2. Rank(found, m) = i - 1
    BY <1>1, <2>1, SMT
  <2>3. rows[i] = CHOOSE o \in found : Rank(found, o) = i - 1
    BY SameCardinality DEF List!InOrder, Rank
  <2> QED
    BY <2>2, <2>3
<1>5. rows \in Seq(found) /\ Len(rows) = n
  <2>1. DOMAIN rows = 1 .. n
    BY SameCardinality DEF List!InOrder
  <2>2. rows \in [1 .. n -> found]
    BY <1>4, SameCardinality DEF List!InOrder
  <2> HIDE DEF rows, n
  <2> QED
    BY <1>1, <1>4, <2>1, <2>2, SMT
<1>6. ASSUME NEW m \in found PROVE \E i \in 1 .. Len(rows) : rows[i] = m
  <2>1. place[m] \in 1 .. n /\ place[m] - 1 = Rank(found, m)
    BY <1>1, SMT
  <2>2. rows[place[m]] = m
    BY <1>2, <1>4, <2>1
  <2> QED
    BY <1>5, <2>1, <2>2
<1>7. ASSUME NEW i \in 1 .. n, NEW j \in 1 .. n, i < j
      PROVE  List!KeyLess(rows[i], rows[j])
  <2> HIDE DEF n, rows
  <2>1. Rank(found, rows[i]) < Rank(found, rows[j])
    BY <1>1, <1>4, <1>7, SMT
  <2>2. ~(Rank(found, rows[j]) < Rank(found, rows[i]))
        /\ ~(Rank(found, rows[i]) < Rank(found, rows[i]))
    BY <1>1, <1>4, <1>7, SMT
  <2> QED
    BY <1>1, <1>4, <2>1, <2>2, KeysAreOrdered
<1> HIDE DEF rows, n
<1> QED
  BY <1>1, <1>5, <1>6, <1>7 DEF rows, n

-----------------------------------------------------------------------------
(* The pages of messages *)

\* LIMIT
LEMMA FirstOf ==
  ASSUME NEW s \in Seq(Messages), NEW most \in Nat
  PROVE  LET first == SubSeq(s, 1, List!Min({Len(s), most}))
         IN  /\ first \in Seq(Messages) /\ Len(first) \in Nat
             /\ Len(first) <= Len(s) /\ Len(first) <= most
             /\ Len(first) = Len(s) \/ Len(first) = most
             /\ \A i \in 1 .. Len(first) : first[i] = s[i]
<1> DEFINE length == IF Len(s) <= most THEN Len(s) ELSE most
           first == SubSeq(s, 1, List!Min({Len(s), most}))
<1>1. /\ Len(s) \in Nat /\ length \in Nat /\ length <= Len(s) /\ length <= most
      /\ length = Len(s) \/ length = most
  BY SMT
<1>2. first = SubSeq(s, 1, length)
  <2>1. Len(s) \in Int /\ most \in Int
    BY SMT
  <2>2. List!Min({Len(s), most}) = length
    BY <2>1, MinOfTwo
  <2> QED
    BY <2>2
<1> HIDE DEF length, first
<1>3. first \in Seq(Messages)
  BY <1>1, <1>2, SMT
<1>4. Len(first) = length /\ \A i \in 1 .. length : first[i] = s[i]
  BY <1>1, <1>2, SMT
<1> QED
  BY <1>1, <1>3, <1>4 DEF first

\* What a page holds: the first rows of all there are.
LEMMA PageOfRows ==
  ASSUME NEW all \in Seq(Messages),
         NEW rows, rows = SubSeq(all, 1, List!Min({Len(all), Limit + 1}))
  PROVE  LET items == List!PageItems(rows)
             next == List!NextCursor(rows)
         IN  /\ items \in Seq(Messages)
             /\ Len(items) <= Len(all) /\ Len(items) <= Limit
             /\ \A i \in 1 .. Len(items) : items[i] = all[i]
             /\ \/ next = NULL /\ Len(items) = Len(all)
                \/ /\ next \in Messages /\ Len(items) = Limit
                   /\ next = items[Limit]
<1>0. Limit \in Nat /\ Limit > 0 /\ Len(all) \in Nat /\ Limit + 1 \in Nat
  BY SizesOfPages, SMT
<1> DEFINE items == List!PageItems(rows)
           next == List!NextCursor(rows)
<1>1. /\ rows \in Seq(Messages) /\ Len(rows) \in Nat
      /\ Len(rows) <= Len(all) /\ Len(rows) <= Limit + 1
      /\ Len(rows) = Len(all) \/ Len(rows) = Limit + 1
      /\ \A i \in 1 .. Len(rows) : rows[i] = all[i]
  BY <1>0, FirstOf
<1>2. /\ items \in Seq(Messages) /\ Len(items) \in Nat
      /\ Len(items) <= Len(rows) /\ Len(items) <= Limit
      /\ Len(items) = Len(rows) \/ Len(items) = Limit
      /\ \A i \in 1 .. Len(items) : items[i] = rows[i]
  BY <1>0, <1>1, FirstOf DEF List!PageItems
<1> HIDE DEF items
<1>3. /\ Len(items) <= Len(all) /\ Len(items) <= Limit
  BY <1>0, <1>1, <1>2, SMT
<1>4. ASSUME NEW i \in 1 .. Len(items) PROVE items[i] = all[i]
  <2>1. i \in 1 .. Len(rows)
    BY <1>1, <1>2, SMT
  <2> QED
    BY <1>1, <1>2, <2>1
<1>5. CASE Len(rows) > Limit
  <2>1. Len(items) = Limit /\ Limit \in 1 .. Len(items) /\ Limit \in 1 .. Len(rows)
    BY <1>0, <1>1, <1>2, <1>5, SMT
  <2>2. next = rows[Limit]
    BY <1>5 DEF List!NextCursor
  <2>3. rows[Limit] \in Messages
    BY <1>1, <2>1, ElementOfSeq
  <2> QED
    BY <1>2, <1>3, <1>4, <2>1, <2>2, <2>3 DEF items
<1>6. CASE ~(Len(rows) > Limit)
  <2>1. Len(items) = Len(all)
    BY <1>0, <1>1, <1>2, <1>6, SMT
  <2>2. next = NULL
    BY <1>6 DEF List!NextCursor
  <2> QED
    BY <1>2, <1>3, <1>4, <2>1, <2>2 DEF items
<1> QED
  BY <1>5, <1>6

LEMMA ListInit == List!Init => ListInv
<1> SUFFICES ASSUME List!Init PROVE ListInv
  OBVIOUS
<1>1. List!Request(NULL) \in List!Call /\ ~List!Request(NULL).answered
      /\ List!Request(NULL).after = NULL
  BY SMT DEF List!Request, List!Call
<1>2. /\ calls \in Seq(List!Call) /\ Len(calls) = 1 /\ calls[1] = List!Request(NULL)
      /\ shown \in Seq(Messages) /\ DOMAIN shown = {}
  BY <1>1, SMT DEF List!Init
<1> QED
  BY <1>1, <1>2, SMT
     DEF ListInv, List!Init, List!TypeOK, List!StrictlyOrdered, List!NothingSkipped

\* The fields of the variables that the pages depend on.
LEMMA ListFields ==
  ASSUME ListInv
  PROVE  /\ shown \in Seq(Messages) /\ cursor \in Messages \union {NULL}
         /\ calls \in Seq(List!Call) /\ known \subseteq Messages
         /\ known \subseteq List!Visible /\ List!Visible \subseteq Messages
         /\ \A i \in DOMAIN calls :
              /\ i = 1 /\ Len(calls) = 1 /\ calls # <<>> /\ calls[1] \in List!Call
              /\ loading /\ calls[1].after = cursor
              /\ cursor = NULL => shown = <<>>
<1>1. /\ shown \in Seq(Messages) /\ cursor \in Messages \union {NULL}
      /\ calls \in Seq(List!Call) /\ known \subseteq Messages
      /\ known \subseteq List!Visible /\ List!Visible \subseteq Messages
      /\ Len(calls) <= 1
  BY HitsAreMessages DEF ListInv, List!TypeOK, List!Visible
<1>2. ASSUME NEW i \in DOMAIN calls
      PROVE  i = 1 /\ Len(calls) = 1 /\ calls # <<>> /\ calls[1] \in List!Call
  <2> DEFINE n == Len(calls)
  <2>1. i \in 1 .. n /\ n \in Nat /\ n <= 1
    BY <1>1, LenProperties
  <2> HIDE DEF n
  <2>2. i = 1 /\ n = 1
    BY <2>1, SMT
  <2>3. calls[1] \in List!Call
    BY <1>1, <2>1, <2>2, ElementOfSeq DEF n
  <2>4. calls # <<>>
    BY <2>2, SMT DEF n
  <2> QED
    BY <2>2, <2>3, <2>4 DEF n
<1> QED
  BY <1>1, <1>2 DEF ListInv

LEMMA StoreStep ==
  ASSUME ListInv, NEW m \in Messages, List!Store(m)
  PROVE  ListInv'
<1>1. /\ stored' = stored \union {m}
      /\ UNCHANGED <<reads, shown, cursor, loading, calls, known>>
  BY DEF List!Store
<1>2. List!TypeOK' /\ List!Visible \subseteq List!Visible'
  BY <1>1 DEF ListInv, List!TypeOK, List!Visible
<1> QED
  BY <1>1, <1>2
     DEF ListInv, List!StrictlyOrdered, List!NothingSkipped, PageIsTrue

LEMMA LoadMoreStep ==
  ASSUME ListInv, List!LoadMore
  PROVE  ListInv'
<1>1. /\ cursor # NULL /\ ~loading /\ loading' = TRUE
      /\ calls' = Append(calls, List!Request(cursor))
      /\ UNCHANGED <<stored, reads, shown, cursor, known>>
  BY DEF List!LoadMore
<1>2. calls = <<>>
  BY <1>1 DEF ListInv
<1>3. List!Request(cursor) \in List!Call /\ ~List!Request(cursor).answered
      /\ List!Request(cursor).after = cursor
  BY ListFields, SMT DEF List!Request, List!Call
<1>4. calls' \in Seq(List!Call) /\ Len(calls') = 1 /\ calls'[1] = List!Request(cursor)
  BY <1>1, <1>2, <1>3, SMT
<1>5. List!TypeOK'
  BY <1>1, <1>4 DEF ListInv, List!TypeOK
<1>6. List!Visible' = List!Visible
  BY <1>1 DEF List!Visible
<1> QED
  BY <1>1, <1>3, <1>4, <1>5, <1>6
     DEF ListInv, List!StrictlyOrdered, List!NothingSkipped

\* The only request is taken out.
LEMMA LastCallEnds ==
  ASSUME ListInv, NEW i \in DOMAIN calls
  PROVE  List!RemoveAt(calls, i) = <<>>
<1>1. i = 1 /\ Len(calls) = 1
  BY ListFields
<1> QED
  BY <1>1, ListFields, SMT DEF List!RemoveAt

LEMMA ListLoadFailsStep ==
  ASSUME ListInv, NEW i \in DOMAIN calls, List!LoadFails(i)
  PROVE  ListInv'
<1>1. /\ loading' = FALSE /\ calls' = <<>>
      /\ UNCHANGED <<stored, reads, shown, cursor, known>>
  BY LastCallEnds DEF List!LoadFails
<1>2. calls' \in Seq(List!Call) /\ Len(calls') <= 1
  BY <1>1, SMT
<1>3. List!TypeOK' /\ List!Visible' = List!Visible
  BY <1>1, <1>2 DEF ListInv, List!TypeOK, List!Visible
<1> QED
  BY <1>1, <1>3 DEF ListInv, List!StrictlyOrdered, List!NothingSkipped

\* What the statement finds behind a cursor, of which the page is the beginning.
LEMMA AnsweredPage ==
  ASSUME ListInv, NEW after \in Messages \union {NULL},
         NEW seen \in SUBSET List!Visible
  PROVE  LET rows == List!Rows(after)
             items == List!PageItems(rows)
             next == List!NextCursor(rows)
         IN  /\ items \in Seq(Messages) /\ next \in Messages \union {NULL}
             /\ \A i, j \in DOMAIN items : i < j => List!KeyLess(items[i], items[j])
             /\ \A i \in DOMAIN items : Behind(items[i], after)
             /\ next # NULL => items # <<>> /\ next = items[Len(items)]
             /\ \A m \in seen :
                  Behind(m, after) =>
                    m \in List!ToSet(items) \/ (next # NULL /\ List!KeyLess(next, m))
<1> DEFINE found == List!Beyond(List!Visible, after)
           all == List!InOrder(found)
           rows == List!Rows(after)
           items == List!PageItems(rows)
           next == List!NextCursor(rows)
<1>1. found \subseteq Messages
  BY ListFields DEF List!Beyond
<1>2. /\ all \in Seq(found)
      /\ \A m \in found : \E i \in 1 .. Len(all) : all[i] = m
      /\ \A i, j \in 1 .. Len(all) : i < j => List!KeyLess(all[i], all[j])
  BY <1>1, RowsAreOrdered
<1>3. all \in Seq(Messages) /\ Len(all) \in Nat /\ Limit \in Nat /\ Limit > 0
      /\ \A i \in 1 .. Len(all) : all[i] \in found
  BY <1>1, <1>2, SizesOfPages, ElementOfSeq, SMT
<1>4. rows = SubSeq(all, 1, List!Min({Len(all), Limit + 1}))
  BY DEF List!Rows
<1> HIDE DEF all, rows, items, next, found
<1>5. /\ items \in Seq(Messages) /\ Len(items) <= Len(all) /\ Len(items) \in Nat
      /\ DOMAIN items = 1 .. Len(items)
      /\ \A i \in 1 .. Len(items) : items[i] = all[i]
      /\ \/ next = NULL /\ Len(items) = Len(all)
         \/ /\ next \in Messages /\ Len(items) = Limit
            /\ next = items[Limit]
  BY <1>3, <1>4, PageOfRows, LenProperties DEF items, next
<1>6. 1 .. Len(items) \subseteq 1 .. Len(all)
  BY <1>3, <1>5, SMT
<1>7. \A i, j \in DOMAIN items : i < j => List!KeyLess(items[i], items[j])
  <2> SUFFICES ASSUME NEW i \in DOMAIN items, NEW j \in DOMAIN items, i < j
               PROVE  List!KeyLess(items[i], items[j])
    OBVIOUS
  <2>1. items[i] = all[i] /\ items[j] = all[j]
        /\ i \in 1 .. Len(all) /\ j \in 1 .. Len(all)
    BY <1>5, <1>6
  <2>2. List!KeyLess(all[i], all[j])
    BY <1>2, <2>1
  <2> QED
    BY <2>1, <2>2
<1>8. \A i \in DOMAIN items : Behind(items[i], after)
  BY <1>3, <1>5, <1>6 DEF found, List!Beyond, List!Before, Behind
<1>9. next # NULL => items # <<>> /\ next = items[Len(items)]
  <2>1. Len(items) = Limit => items # <<>>
    BY <1>3, SMT
  <2> QED
    BY <1>5, <2>1
<1>10. ASSUME NEW m \in seen, Behind(m, after), m \notin List!ToSet(items)
       PROVE  next # NULL /\ List!KeyLess(next, m)
  <2>1. m \in found
    BY <1>10 DEF found, List!Beyond, List!Before, Behind
  <2>2. PICK k \in 1 .. Len(all) : all[k] = m
    BY <1>2, <2>1
  <2>3. ~(k \in 1 .. Len(items))
    BY <1>5, <1>10, <2>2 DEF List!ToSet
  <2>4. k > Len(items) /\ Len(items) # Len(all)
    <3> DEFINE p == Len(items)
               q == Len(all)
    <3>1. p \in Nat /\ q \in Nat
      BY <1>3, <1>5
    <3>2. k \in 1 .. q /\ ~(k \in 1 .. p)
      BY <2>3
    <3> HIDE DEF p, q
    <3>3. k > p /\ p # q
      BY <3>1, <3>2, SMT
    <3> QED
      BY <3>3 DEF p, q
  <2>5. next # NULL /\ Len(items) = Limit /\ Limit \in 1 .. Len(items)
    <3>1. next \in Messages /\ Len(items) = Limit
      BY <1>5, <2>4
    <3>2. Limit \in 1 .. Limit
      BY <1>3, SMT
    <3> QED
      BY <3>1, <3>2, NullIsNothing
  <2>6. next = all[Limit] /\ Limit \in 1 .. Len(all) /\ Limit < k
    BY <1>5, <1>6, <2>4, <2>5
  <2> QED
    BY <1>2, <2>2, <2>5, <2>6
<1> QED
  BY <1>5, <1>7, <1>8, <1>9, <1>10 DEF rows, items, next

LEMMA AnswerStep ==
  ASSUME ListInv, NEW i \in DOMAIN calls, List!Answer(i)
  PROVE  ListInv'
<1> DEFINE c == calls[1]
           rows == List!Rows(c.after)
           items == List!PageItems(rows)
           next == List!NextCursor(rows)
           answer == [c EXCEPT !.answered = TRUE, !.items = items, !.next = next]
<1>1. /\ i = 1 /\ Len(calls) = 1 /\ c \in List!Call /\ calls \in Seq(List!Call)
      /\ loading /\ c.after = cursor /\ c.after \in Messages \union {NULL}
      /\ cursor = NULL => shown = <<>>
  BY ListFields
<1>2. /\ calls' = [calls EXCEPT ![1].answered = TRUE, ![1].items = items,
                                ![1].next = next]
      /\ known' = IF c.after = NULL THEN List!Visible ELSE known
      /\ UNCHANGED <<stored, reads, shown, cursor, loading>>
  BY <1>1 DEF List!Answer
<1>3. known' \subseteq List!Visible /\ List!Visible' = List!Visible
      /\ List!Visible \subseteq Messages
  BY <1>2, ListFields DEF List!Visible
<1>4. /\ items \in Seq(Messages) /\ next \in Messages \union {NULL}
      /\ \A k, j \in DOMAIN items : k < j => List!KeyLess(items[k], items[j])
      /\ \A k \in DOMAIN items : Behind(items[k], c.after)
      /\ next # NULL => items # <<>> /\ next = items[Len(items)]
      /\ \A m \in known' :
           Behind(m, c.after) =>
             m \in List!ToSet(items) \/ (next # NULL /\ List!KeyLess(next, m))
  BY <1>1, <1>3, AnsweredPage
<1> HIDE DEF items, next, rows
<1>5. /\ answer \in List!Call /\ answer.answered = TRUE /\ answer.items = items
      /\ answer.next = next /\ answer.after = c.after
  BY <1>1, <1>4 DEF List!Call
<1>6. calls' \in Seq(List!Call) /\ Len(calls') = 1 /\ calls'[1] = answer
  <2>1. calls' = [calls EXCEPT ![1] = answer]
    BY <1>1, <1>2, Zenon
  <2> HIDE DEF answer
  <2> QED
    BY <1>1, <1>5, <2>1, ExceptSeq
<1> HIDE DEF answer, c
<1>7. PageIsTrue(calls[1])'
  BY <1>4, <1>5, <1>6 DEF PageIsTrue
<1>8. List!TypeOK'
  BY <1>2, <1>3, <1>6 DEF ListInv, List!TypeOK
<1>9. List!NothingSkipped'
  BY <1>1, <1>2 DEF ListInv, List!NothingSkipped
<1> QED
  BY <1>1, <1>2, <1>3, <1>5, <1>6, <1>7, <1>8, <1>9 DEF ListInv, List!StrictlyOrdered

\* A page behind the last message is put behind it.
LEMMA Appended ==
  ASSUME NEW s \in Seq(Messages), NEW t \in Seq(Messages),
         \A i, j \in DOMAIN s : i < j => List!KeyLess(s[i], s[j]),
         \A i, j \in DOMAIN t : i < j => List!KeyLess(t[i], t[j]),
         \A j \in DOMAIN t : Len(s) > 0 => List!KeyLess(s[Len(s)], t[j])
  PROVE  /\ s \o t \in Seq(Messages)
         /\ \A i, j \in DOMAIN (s \o t) : i < j => List!KeyLess((s \o t)[i], (s \o t)[j])
         /\ List!ToSet(s \o t) = List!ToSet(s) \union List!ToSet(t)
         /\ Len(t) > 0 => s \o t # <<>> /\ (s \o t)[Len(s \o t)] = t[Len(t)]
<1> DEFINE p == Len(s)
           q == Len(t)
           both == s \o t
<1>1. p \in Nat /\ q \in Nat /\ DOMAIN s = 1 .. p /\ DOMAIN t = 1 .. q
  BY LenProperties
<1>2. /\ both \in Seq(Messages) /\ Len(both) = p + q /\ DOMAIN both = 1 .. p + q
      /\ \A i \in 1 .. p + q : both[i] = IF i <= p THEN s[i] ELSE t[i - p]
  BY ConcatProperties, LenProperties
<1>3. /\ \A i \in 1 .. p : s[i] \in Messages
      /\ \A i \in 1 .. q : t[i] \in Messages
  BY ElementOfSeq
<1> HIDE DEF both
<1>4. p > 0 => \A j \in 1 .. q : List!KeyLess(s[p], t[j])
  BY <1>1
<1>5. \A i, j \in 1 .. p : i < j => List!KeyLess(s[i], s[j])
  BY <1>1
<1>6. \A i, j \in 1 .. q : i < j => List!KeyLess(t[i], t[j])
  BY <1>1
<1> HIDE DEF p, q
<1>7. ASSUME NEW i \in 1 .. p, NEW j \in 1 .. q PROVE List!KeyLess(s[i], t[j])
  <2>1. p > 0 /\ p \in 1 .. p /\ (i = p \/ i < p)
    BY <1>1, SMT
  <2>2. List!KeyLess(s[p], t[j])
    BY <1>4, <2>1
  <2>3. s[i] = s[p] \/ List!KeyLess(s[i], s[p])
    BY <1>5, <2>1
  <2> QED
    BY <1>3, <2>1, <2>2, <2>3, KeysAreOrdered
<1>8. ASSUME NEW i \in 1 .. p + q, NEW j \in 1 .. p + q, i < j
      PROVE  List!KeyLess(both[i], both[j])
  <2>1. CASE j <= p
    <3>1. i \in 1 .. p /\ j \in 1 .. p /\ both[i] = s[i] /\ both[j] = s[j]
      BY <1>1, <1>2, <1>8, <2>1, SMT
    <3>2. List!KeyLess(s[i], s[j])
      BY <1>8, <1>5, <3>1
    <3> QED
      BY <3>1, <3>2
  <2>2. CASE i <= p /\ j > p
    <3>1. i \in 1 .. p /\ j - p \in 1 .. q
      BY <1>1, <1>8, <2>2, SMT
    <3>2. both[i] = s[i] /\ both[j] = t[j - p]
      BY <1>1, <1>2, <1>8, <2>2, SMT
    <3>3. List!KeyLess(s[i], t[j - p])
      BY <1>7, <3>1
    <3> QED
      BY <3>2, <3>3
  <2>3. CASE i > p
    <3>1. i - p \in 1 .. q /\ j - p \in 1 .. q /\ i - p < j - p
      BY <1>1, <1>8, <2>3, SMT
    <3>2. both[i] = t[i - p] /\ both[j] = t[j - p]
      BY <1>1, <1>2, <1>8, <2>3, SMT
    <3>3. List!KeyLess(t[i - p], t[j - p])
      BY <1>6, <3>1
    <3> QED
      BY <3>2, <3>3
  <2> QED
    BY <1>1, <1>8, <2>1, <2>2, <2>3, SMT
<1>9. List!ToSet(both) = List!ToSet(s) \union List!ToSet(t)
  <2>1. ASSUME NEW i \in 1 .. p + q
        PROVE  both[i] \in List!ToSet(s) \union List!ToSet(t)
    <3>1. CASE i <= p
      <4>1. i \in 1 .. p /\ both[i] = s[i]
        BY <1>1, <1>2, <3>1, SMT
      <4> QED
        BY <1>1, <4>1 DEF List!ToSet
    <3>2. CASE i > p
      <4>1. i - p \in 1 .. q /\ both[i] = t[i - p]
        BY <1>1, <1>2, <3>2, SMT
      <4> QED
        BY <1>1, <4>1 DEF List!ToSet
    <3> QED
      BY <1>1, <3>1, <3>2, SMT
  <2>2. ASSUME NEW i \in 1 .. p PROVE s[i] \in List!ToSet(both)
    <3>1. i \in 1 .. p + q /\ both[i] = s[i]
      BY <1>1, <1>2, SMT
    <3> QED
      BY <1>2, <3>1 DEF List!ToSet
  <2>3. ASSUME NEW i \in 1 .. q PROVE t[i] \in List!ToSet(both)
    <3>1. i + p \in 1 .. p + q /\ ~(i + p <= p) /\ (i + p) - p = i
      BY <1>1, SMT
    <3>2. both[i + p] = t[i]
      BY <1>2, <3>1
    <3> QED
      BY <1>2, <3>1, <3>2 DEF List!ToSet
  <2>4. \A v \in List!ToSet(both) : \E i \in 1 .. p + q : v = both[i]
    BY <1>2 DEF List!ToSet
  <2>5. /\ \A v \in List!ToSet(s) : \E i \in 1 .. p : v = s[i]
        /\ \A v \in List!ToSet(t) : \E i \in 1 .. q : v = t[i]
    BY <1>1 DEF List!ToSet
  <2> QED
    BY <2>1, <2>2, <2>3, <2>4, <2>5
<1>10. q > 0 => both # <<>> /\ both[Len(both)] = t[q]
  <2>1. q > 0 => /\ p + q \in 1 .. p + q /\ ~(p + q <= p) /\ (p + q) - p = q
                 /\ p + q # 0
    BY <1>1, SMT
  <2>2. Len(both) # 0 => both # <<>>
    BY <1>2, EmptySeq
  <2> QED
    BY <1>2, <2>1, <2>2
<1> QED
  BY <1>2, <1>8, <1>9, <1>10 DEF p, q, both

LEMMA ShowPageStep ==
  ASSUME ListInv, NEW i \in DOMAIN calls, List!ShowPage(i)
  PROVE  ListInv'
<1> DEFINE c == calls[1]
<1>1. /\ i = 1 /\ calls # <<>> /\ c \in List!Call
      /\ c.after = cursor /\ cursor \in Messages \union {NULL}
      /\ cursor = NULL => shown = <<>>
      /\ shown \in Seq(Messages)
  BY ListFields
<1>2. /\ c.answered /\ cursor' = c.next /\ loading' = FALSE /\ calls' = <<>>
      /\ shown' = IF c.after = NULL THEN c.items ELSE shown \o c.items
      /\ UNCHANGED <<stored, reads, known>>
  BY <1>1, LastCallEnds DEF List!ShowPage
<1>3. PageIsTrue(c) /\ c.items \in Seq(Messages) /\ c.next \in Messages \union {NULL}
  BY <1>1, <1>2 DEF ListInv, List!Call
<1> HIDE DEF c
<1>4. shown' = shown \o c.items
  BY <1>1, <1>2, <1>3, ConcatEmptySeq
<1>5. cursor # NULL => shown # <<>> /\ cursor = shown[Len(shown)]
  BY DEF ListInv
<1>6. Len(shown) > 0 => shown # <<>>
  BY SMT
<1>7. \A j \in DOMAIN c.items :
         Len(shown) > 0 => List!KeyLess(shown[Len(shown)], c.items[j])
  BY <1>1, <1>3, <1>5, <1>6 DEF PageIsTrue, Behind
<1>8. /\ shown' \in Seq(Messages) /\ List!StrictlyOrdered'
      /\ List!ToSet(shown') = List!ToSet(shown) \union List!ToSet(c.items)
      /\ Len(c.items) > 0 =>
           shown' # <<>> /\ shown'[Len(shown')] = c.items[Len(c.items)]
  BY <1>1, <1>3, <1>4, <1>7, Appended
     DEF ListInv, List!StrictlyOrdered, PageIsTrue
<1>9. cursor' # NULL => shown' # <<>> /\ cursor' = shown'[Len(shown')]
  <2>1. c.items # <<>> => Len(c.items) > 0
    <3>1. Len(c.items) \in Nat /\ (Len(c.items) = 0 => c.items = <<>>)
      BY <1>3, EmptySeq, LenProperties
    <3> QED
      BY <3>1, SMT
  <2> QED
    BY <1>2, <1>3, <1>8, <2>1 DEF PageIsTrue
<1>10. ASSUME NEW m \in known, m \notin List!ToSet(shown')
       PROVE  cursor' # NULL /\ List!KeyLess(cursor', m)
  <2>1. Behind(m, c.after)
    BY <1>1, <1>5, <1>8, <1>10 DEF ListInv, List!NothingSkipped, Behind
  <2> QED
    BY <1>2, <1>3, <1>8, <1>10, <2>1 DEF PageIsTrue
<1>11. calls' \in Seq(List!Call) /\ Len(calls') <= 1
  BY <1>2, SMT
<1>12. List!TypeOK'
  BY <1>2, <1>3, <1>8, <1>11 DEF ListInv, List!TypeOK
<1>13. List!NothingSkipped'
  BY <1>2, <1>10 DEF List!NothingSkipped
<1>14. known' \subseteq List!Visible'
  BY <1>2 DEF ListInv, List!Visible
<1> QED
  BY <1>2, <1>8, <1>9, <1>12, <1>13, <1>14 DEF ListInv

LEMMA ListStep ==
  ASSUME ListInv, List!Next
  PROVE  ListInv'
  BY StoreStep, LoadMoreStep, AnswerStep, ShowPageStep, ListLoadFailsStep
     DEF List!Next

\* Imports that another part follows store messages too.
LEMMA ListStays ==
  ASSUME ListInv, stored \subseteq stored', stored' \subseteq Messages,
         UNCHANGED listVars
  PROVE  ListInv'
<1>1. UNCHANGED <<reads, shown, cursor, loading, calls, known>>
  BY DEF listVars
<1>2. List!TypeOK' /\ known' \subseteq List!Visible'
  BY <1>1 DEF ListInv, List!TypeOK, List!Visible
<1> QED
  BY <1>1, <1>2
     DEF ListInv, List!StrictlyOrdered, List!NothingSkipped, PageIsTrue

-----------------------------------------------------------------------------
(* The requests of the chart *)

LEMMA ChartInit == Chart!Init => ChartInv
<1> SUFFICES ASSUME Chart!Init PROVE ChartInv
  OBVIOUS
<1>1. /\ Chart!Asked(selected) \in Chart!Load /\ Chart!Asked(selected).size = selected
      /\ Chart!Asked(selected).status = "asked"
      /\ Chart!Nothing \in Chart!Load /\ Chart!Nothing.status = "none"
  BY DEF Chart!Init, Chart!Asked, Chart!Nothing, Chart!Load
<1> QED
  BY <1>1 DEF Chart!Init, ChartInv, Chart!TypeOK, Chart!SettledMeansShown

LEMMA ChartStep ==
  ASSUME ChartInv, Chart!Next
  PROVE  ChartInv'
<1>0. /\ stored \subseteq Messages /\ duration \in Durations \union {NULL}
      /\ selected \in Sizes
      /\ \A request \in requests :
           /\ request \in Chart!Load /\ request.status \in {"asked", "answered"}
           /\ request.size = selected
      /\ loaded \in Chart!Load /\ loaded.status # "asked"
      /\ requests = {} => loaded.size = selected
  BY DEF ChartInv, Chart!TypeOK, Chart!SettledMeansShown
<1> DEFINE Goal ==
        /\ stored' \subseteq Messages /\ duration' \in Durations \union {NULL}
        /\ selected' \in Sizes
        /\ \A request \in requests' :
             /\ request \in Chart!Load /\ request.status \in {"asked", "answered"}
             /\ request.size = selected'
        /\ loaded' \in Chart!Load /\ loaded'.status # "asked"
        /\ requests' = {} => loaded'.size = selected'
<1>1. SUFFICES Goal
  BY DEF ChartInv, Chart!TypeOK, Chart!SettledMeansShown
<1>2. CASE \E m \in Messages : Chart!Store(m)
  BY <1>0, <1>2 DEF Chart!Store
<1>3. CASE \E d \in Durations : Chart!Refresh(d)
  BY <1>0, <1>3 DEF Chart!Refresh
<1>4. ASSUME NEW size \in Sizes, Chart!Select(size) PROVE Goal
  <2>1. /\ Chart!Asked(size) \in Chart!Load /\ Chart!Asked(size).size = size
        /\ Chart!Asked(size).status = "asked"
    BY DEF Chart!Asked, Chart!Nothing, Chart!Load
  <2> QED
    BY <1>0, <1>4, <2>1 DEF Chart!Select
<1>5. ASSUME NEW request \in requests, Chart!Respond(request) PROVE Goal
  <2> DEFINE answer == [request EXCEPT !.status = "answered", !.rows = stored,
                                       !.duration = duration]
  <2>1. /\ answer \in Chart!Load /\ answer.status = "answered"
        /\ answer.size = request.size
    BY <1>0 DEF Chart!Load
  <2>2. /\ requests' = (requests \ {request}) \union {answer}
        /\ UNCHANGED <<stored, duration, selected, loaded>>
    BY <1>5 DEF Chart!Respond
  <2> HIDE DEF answer
  <2> QED
    BY <1>0, <2>1, <2>2
<1>6. ASSUME NEW request \in requests, Chart!LoadSucceeds(request) PROVE Goal
  BY <1>0, <1>6 DEF Chart!LoadSucceeds
<1>7. ASSUME NEW request \in requests, Chart!LoadFails(request) PROVE Goal
  <2> DEFINE failure == [Chart!Nothing EXCEPT !.size = request.size, !.status = "failed"]
  <2>1. failure \in Chart!Load /\ failure.status = "failed"
        /\ failure.size = request.size
    BY <1>0 DEF Chart!Nothing, Chart!Load
  <2>2. /\ requests' = requests \ {request} /\ loaded' = failure
        /\ UNCHANGED <<stored, duration, selected>>
    BY <1>7 DEF Chart!LoadFails
  <2> HIDE DEF failure
  <2> QED
    BY <1>0, <2>1, <2>2
<1> QED
  BY <1>2, <1>3, <1>4, <1>5, <1>6, <1>7 DEF Chart!Next

LEMMA ChartStays ==
  ASSUME ChartInv, stored' \subseteq Messages, UNCHANGED chartVars
  PROVE  ChartInv'
  BY DEF ChartInv, Chart!TypeOK, Chart!SettledMeansShown, chartVars

-----------------------------------------------------------------------------
(* What the bars of the chart show *)

\* The multiples of a bucket size: one lies within a bucket's length below a.
LEMMA Division ==
  ASSUME NEW a \in Nat, NEW s \in Nat \ {0}
  PROVE  /\ a - (a % s) \in 0 .. a /\ (a - (a % s)) % s = 0
         /\ a < (a - (a % s)) + s
         /\ (a \div s) * s = a - (a % s)
         /\ \A start \in Nat :
              start % s = 0 /\ start <= a => start <= a - (a % s)
         /\ \A start \in Nat :
              start % s = 0 /\ start <= a /\ a < start + s => start = a - (a % s)
<1> DEFINE q == a \div s
<1>1. q \in Nat /\ (a % s) \in 0 .. s - 1 /\ a = s * q + (a % s)
  <2>1. (a % s) \in 0 .. s - 1
    BY SMT
  <2>2. a = s * q + (a % s)
    BY SMT
  <2>3. q \in Nat
    BY SMT
  <2> QED
    BY <2>1, <2>2, <2>3
<1>2. q * s = a - (a % s) /\ a - (a % s) \in 0 .. a /\ a < (a - (a % s)) + s
  BY <1>1, SMT
<1>3. (q * s) % s = 0
  BY <1>1, SMT
<1>4. ASSUME NEW start \in Nat, start % s = 0, start <= a
      PROVE  start <= q * s
  <2> DEFINE k == start \div s
  <2>1. k \in Nat /\ start = s * k
    BY <1>4, SMT
  <2>2. k <= q
    BY <1>1, <1>4, <2>1, SMT
  <2> QED
    BY <1>1, <2>1, <2>2, SMT
<1>5. ASSUME NEW start \in Nat, start % s = 0, start <= a, a < start + s
      PROVE  start = q * s
  <2> DEFINE k == start \div s
  <2>1. k \in Nat /\ start = s * k
    BY <1>5, SMT
  <2>2. k = q
    BY <1>1, <1>5, <2>1, SMT
  <2> QED
    BY <2>1, <2>2, SMT
<1> HIDE DEF q
<1> QED
  BY <1>2, <1>3, <1>4, <1>5 DEF q

LEMMA MaxOfTwo ==
  ASSUME NEW a \in Int, NEW b \in Int
  PROVE  Chart!Max({a, b}) = IF a >= b THEN a ELSE b
<1> DEFINE most == IF a >= b THEN a ELSE b
<1>1. most \in {a, b} /\ \A y \in {a, b} : most >= y
  BY SMT
<1>2. \A x \in {a, b} : (\A y \in {a, b} : x >= y) => x = most
  BY SMT
<1> HIDE DEF most
<1>3. (CHOOSE x \in {a, b} : \A y \in {a, b} : x >= y) = most
  BY <1>1, <1>2
<1> QED
  BY <1>3 DEF Chart!Max, most

LEMMA MaxIsGreatest ==
  ASSUME NEW S, NEW x \in S, \A y \in S : x >= y
  PROVE  Chart!Max(S) \in S /\ \A y \in S : Chart!Max(S) >= y
  BY DEF Chart!Max

LEMMA MaxOffsetIsGreatest ==
  ASSUME NEW rows \in SUBSET Messages, rows # {}
  PROVE  /\ Chart!MaxOffset(rows) \in Int
         /\ \E m \in rows : m.offset = Chart!MaxOffset(rows)
         /\ \A m \in rows : m.offset <= Chart!MaxOffset(rows)
<1> DEFINE all == List!InOrder(rows)
           n == Cardinality(rows)
<1>1. /\ all \in Seq(rows) /\ Len(all) = n /\ n \in Nat
      /\ \A m \in rows : \E i \in 1 .. Len(all) : all[i] = m
      /\ \A i, j \in 1 .. Len(all) : i < j => List!KeyLess(all[i], all[j])
  BY RowsAreOrdered
<1> HIDE DEF all, n
<1>2. n \in 1 .. n /\ all[n] \in rows
  <2>1. PICK m \in rows : TRUE
    OBVIOUS
  <2>2. PICK i \in 1 .. n : all[i] = m
    BY <1>1
  <2>3. n \in 1 .. n
    BY <1>1, SMT
  <2> QED
    BY <1>1, <2>3, ElementOfSeq
<1>3. \A m \in rows : m.offset \in Int
  BY MessagesAreKeys, SMT
<1>4. ASSUME NEW m \in rows PROVE all[n].offset >= m.offset
  <2>1. PICK i \in 1 .. n : all[i] = m
    BY <1>1
  <2>2. i = n \/ i < n
    BY <1>1, SMT
  <2>3. all[n] = m \/ List!KeyLess(m, all[n])
    BY <1>1, <1>2, <2>1, <2>2
  <2> QED
    BY <1>2, <1>3, <2>3, SMT DEF List!KeyLess
<1>5. /\ Chart!MaxOffset(rows) \in {m.offset : m \in rows}
      /\ \A y \in {m.offset : m \in rows} : Chart!MaxOffset(rows) >= y
  <2> DEFINE S == {m.offset : m \in rows}
  <2>1. all[n].offset \in S /\ \A y \in S : all[n].offset >= y
    BY <1>2, <1>4
  <2> HIDE DEF S
  <2>2. Chart!Max(S) \in S /\ \A y \in S : Chart!Max(S) >= y
    BY <2>1, MaxIsGreatest
  <2> QED
    BY <2>2 DEF S, Chart!MaxOffset
<1>6. PICK m \in rows : m.offset = Chart!MaxOffset(rows)
  BY <1>5
<1>7. Chart!MaxOffset(rows) \in Int
  BY <1>3, <1>6
<1> QED
  BY <1>3, <1>5, <1>6, <1>7, SMT

\* What a chart that is drawn was drawn from.
LEMMA DrawnBars ==
  ASSUME ChartInv, Chart!Ready, Chart!Bars # <<>>
  PROVE  LET rows == loaded.rows
             size == loaded.size
             bound == Chart!Bound(rows, loaded.duration)
         IN  /\ rows \in SUBSET Messages /\ size \in Nat \ {0} /\ size = selected
             /\ loaded.duration \in Nat \/ loaded.duration = NULL
             /\ bound \in Nat \ {0}
             /\ loaded.duration # NULL => bound = loaded.duration
             /\ loaded.duration = NULL =>
                  rows # {} /\ bound = Chart!MaxOffset(rows) + 1
             /\ Chart!Series(bound, size) = {start \in 0 .. bound - 1 : start % size = 0}
             /\ Chart!Bars =
                  [start \in Chart!Series(bound, size) |->
                     Cardinality({m \in rows : Chart!BucketOf(m, size) = start})]
<1> DEFINE rows == loaded.rows
           size == loaded.size
           bound == Chart!Bound(rows, loaded.duration)
<1>1. /\ rows \in SUBSET Messages /\ size = selected /\ selected \in Sizes
      /\ loaded.duration \in Durations \union {NULL}
  BY DEF ChartInv, Chart!TypeOK, Chart!Load, Chart!Ready
<1>2. size \in Nat \ {0} /\ (loaded.duration \in Nat \/ loaded.duration = NULL)
  BY <1>1, SizesArePositive, DurationsAreNumbers
<1>3. /\ bound > 0
      /\ Chart!Bars =
           [start \in Chart!Series(bound, size) |->
              Cardinality({m \in rows : Chart!BucketOf(m, size) = start})]
  BY SameCardinality DEF Chart!Bars, Chart!Activity
<1>4. /\ loaded.duration # NULL => bound = loaded.duration
      /\ loaded.duration = NULL /\ rows = {} => bound = 0
      /\ loaded.duration = NULL /\ rows # {} => bound = Chart!MaxOffset(rows) + 1
  BY DEF Chart!Bound
<1>5. rows # {} => Chart!MaxOffset(rows) \in Int
  BY <1>1, MaxOffsetIsGreatest
<1> HIDE DEF bound, rows, size
<1>6. bound \in Nat \ {0} /\ (loaded.duration = NULL => rows # {})
  BY <1>2, <1>3, <1>4, <1>5, SMT
<1>7. Chart!Series(bound, size) = {start \in 0 .. bound - 1 : start % size = 0}
  <2>1. bound - 1 >= 0 /\ bound - 1 \in Int
    BY <1>6, SMT
  <2>2. Chart!Max({bound - 1, 0}) = bound - 1
    BY <2>1, MaxOfTwo
  <2> QED
    BY <2>2 DEF Chart!Series
<1> QED
  BY <1>1, <1>2, <1>3, <1>4, <1>6, <1>7 DEF bound, rows, size

LEMMA OneBar ==
  ASSUME ChartInv
  PROVE  Chart!OneBarPerPosition
<1> SUFFICES ASSUME Chart!Ready, Chart!Bars # <<>> PROVE Chart!OneBarPerPosition
  BY DEF Chart!OneBarPerPosition
<1> DEFINE rows == loaded.rows
           size == loaded.size
           bound == Chart!Bound(rows, loaded.duration)
           positions == IF loaded.duration # NULL THEN 0 .. loaded.duration - 1
                        ELSE 0 .. Chart!Max({m.offset : m \in rows} \union {0})
<1>1. /\ rows \in SUBSET Messages /\ size \in Nat \ {0} /\ size = selected
      /\ bound \in Nat \ {0}
      /\ loaded.duration # NULL => bound = loaded.duration
      /\ loaded.duration = NULL => rows # {} /\ bound = Chart!MaxOffset(rows) + 1
      /\ DOMAIN Chart!Bars = {start \in 0 .. bound - 1 : start % size = 0}
  <2>1. Chart!Series(bound, size) = {start \in 0 .. bound - 1 : start % size = 0}
    BY DrawnBars
  <2>2. DOMAIN Chart!Bars = Chart!Series(bound, size)
    BY DrawnBars
  <2> QED
    BY <2>1, <2>2, DrawnBars
<1> HIDE DEF rows, bound, size
<1>2. positions = 0 .. bound - 1
  <2>1. CASE loaded.duration # NULL
    BY <1>1, <2>1
  <2>2. CASE loaded.duration = NULL
    <3> DEFINE S == {m.offset : m \in rows} \union {0}
               most == Chart!MaxOffset(rows)
    <3>1. most \in Int /\ bound = most + 1 /\ most >= 0
      BY <1>1, <2>2, MaxOffsetIsGreatest, SMT
    <3>2. most \in S /\ \A y \in S : most >= y
      <4>1. most \in {m.offset : m \in rows}
        BY <1>1, <2>2, MaxOffsetIsGreatest
      <4>2. \A m \in rows : m.offset \in Int /\ m.offset <= most
        BY <1>1, <2>2, MaxOffsetIsGreatest, MessagesAreKeys
      <4> HIDE DEF most
      <4>3. \A y \in {m.offset : m \in rows} : most >= y
        BY <3>1, <4>2, SMT
      <4> QED
        BY <3>1, <4>1, <4>3
    <3> HIDE DEF S, most
    <3>3. Chart!Max(S) \in S /\ \A y \in S : Chart!Max(S) >= y
      BY <3>2, MaxIsGreatest
    <3>4. \A x \in S : x \in Int
      <4>1. \A m \in rows : m.offset \in Int
        BY <1>1, MessagesAreKeys, SMT
      <4> QED
        BY <4>1 DEF S
    <3>5. Chart!Max(S) = most
      BY <3>2, <3>3, <3>4, SMT
    <3>6. (0 .. most) = (0 .. bound - 1)
      BY <3>1, SMT
    <3> QED
      BY <2>2, <3>5, <3>6 DEF S
  <2> QED
    BY <2>1, <2>2
<1>3. ASSUME NEW position \in 0 .. bound - 1
      PROVE  Chart!Cardinality({start \in DOMAIN Chart!Bars :
               start <= position /\ position < start + selected}) = 1
  <2> DEFINE active == {start \in DOMAIN Chart!Bars :
                          start <= position /\ position < start + selected}
             bar == position - (position % size)
  <2>1. position \in Nat /\ position <= bound - 1
    BY <1>1, SMT
  <2>2. /\ bar \in 0 .. position /\ bar % size = 0 /\ position < bar + size
        /\ \A start \in Nat :
             start % size = 0 /\ start <= position /\ position < start + size
               => start = bar
    BY <1>1, <2>1, Division
  <2> HIDE DEF bar
  <2>3. bar \in DOMAIN Chart!Bars /\ bar <= position
    BY <1>1, <2>1, <2>2, SMT
  <2>4. \A start \in DOMAIN Chart!Bars : start \in Nat /\ start % size = 0
    BY <1>1, SMT
  <2>5. active = {bar}
    BY <1>1, <2>2, <2>3, <2>4
  <2> HIDE DEF active
  <2>6. Cardinality(active) = 1
    BY <2>5, FS_Singleton
  <2> QED
    BY <2>6, SameCardinality DEF active
<1> HIDE DEF positions
<1>4. \A position \in positions :
         Chart!Cardinality({start \in DOMAIN Chart!Bars :
           start <= position /\ position < start + selected}) = 1
  BY <1>2, <1>3
<1> QED
  BY <1>4 DEF Chart!OneBarPerPosition, positions, rows

LEMMA EveryMessage ==
  ASSUME ChartInv
  PROVE  Chart!EveryMessageCounted
<1> SUFFICES ASSUME Chart!Ready, Chart!Bars # <<>> PROVE Chart!EveryMessageCounted
  BY DEF Chart!EveryMessageCounted
<1> DEFINE rows == loaded.rows
           size == loaded.size
           bound == Chart!Bound(rows, loaded.duration)
           starts == {start \in 0 .. bound - 1 : start % size = 0}
           End == Chart!Max(DOMAIN Chart!Bars) + loaded.size
<1>1. /\ rows \in SUBSET Messages /\ size \in Nat \ {0}
      /\ bound \in Nat \ {0}
      /\ loaded.duration = NULL => rows # {} /\ bound = Chart!MaxOffset(rows) + 1
      /\ DOMAIN Chart!Bars = starts
      /\ \A start \in starts :
           Chart!Bars[start] =
             Cardinality({m \in rows : Chart!BucketOf(m, size) = start})
  <2>1. Chart!Series(bound, size) = starts
    BY DrawnBars
  <2>2. Chart!Bars = [start \in Chart!Series(bound, size) |->
                        Cardinality({m \in rows : Chart!BucketOf(m, size) = start})]
    BY DrawnBars
  <2> QED
    BY <2>1, <2>2, DrawnBars
<1> HIDE DEF rows, bound, size
<1>2. \A start \in starts : start \in Nat /\ start % size = 0 /\ start <= bound - 1
  BY <1>1, SMT
<1> HIDE DEF starts
<1>3. ASSUME NEW m \in rows, NEW start \in starts
      PROVE  Chart!BucketOf(m, size) = start
               <=> \/ start <= m.offset /\ m.offset < start + size
                   \/ start = 0 /\ m.offset < 0
  <2>1. m.offset \in Int
    BY <1>1, MessagesAreKeys, SMT
  <2>2. CASE m.offset < 0
    <3>1. Chart!Max({m.offset, 0}) = 0
      BY <2>1, <2>2, MaxOfTwo, SMT
    <3>2. 0 - (0 % size) = 0 /\ (0 \div size) * size = 0 - (0 % size)
      <4>1. 0 - (0 % size) \in 0 .. 0 /\ (0 \div size) * size = 0 - (0 % size)
        BY <1>1, Division
      <4> QED
        BY <4>1, SMT
    <3>3. Chart!BucketOf(m, size) = 0
      BY <3>1, <3>2 DEF Chart!BucketOf
    <3>4. ~(start <= m.offset)
      BY <1>2, <2>1, <2>2, SMT
    <3> QED
      BY <2>2, <3>3, <3>4
  <2>3. CASE ~(m.offset < 0)
    <3>1. m.offset \in Nat /\ m.offset >= 0
      BY <2>1, <2>3, SMT
    <3>2. Chart!Max({m.offset, 0}) = m.offset
      BY <2>1, <3>1, MaxOfTwo
    <3> DEFINE bar == m.offset - (m.offset % size)
    <3>3. /\ bar \in 0 .. m.offset /\ m.offset < bar + size
          /\ (m.offset \div size) * size = bar
          /\ start % size = 0 /\ start <= m.offset /\ m.offset < start + size
               => start = bar
      BY <1>1, <1>2, <3>1, Division
    <3> HIDE DEF bar
    <3>4. Chart!BucketOf(m, size) = bar
      BY <3>2, <3>3 DEF Chart!BucketOf
    <3>5. bar <= m.offset
      BY <3>1, <3>3, SMT
    <3> QED
      BY <1>2, <2>3, <3>3, <3>4, <3>5
  <2> QED
    BY <2>2, <2>3
<1>4. ASSUME NEW start \in starts
      PROVE  Chart!Bars[start] = Chart!Cardinality({m \in rows :
               \/ start <= m.offset /\ m.offset < start + loaded.size
               \/ start = 0 /\ m.offset < 0})
  <2>1. {m \in rows : Chart!BucketOf(m, size) = start}
          = {m \in rows : \/ start <= m.offset /\ m.offset < start + loaded.size
                          \/ start = 0 /\ m.offset < 0}
    BY <1>3 DEF size
  <2> QED
    BY <1>1, <2>1, SameCardinality
<1>5. ASSUME loaded.duration = NULL, NEW m \in rows PROVE m.offset < End
  <2> DEFINE top == bound - 1
             bar == top - (top % size)
             last == Chart!Max(starts)
  <2>1. top \in Nat
    BY <1>1, SMT
  <2>2. /\ bar \in 0 .. top /\ bar % size = 0 /\ top < bar + size
        /\ \A start \in Nat : start % size = 0 /\ start <= top => start <= bar
    BY <1>1, <2>1, Division
  <2> HIDE DEF bar
  <2>3. bar \in starts
    BY <2>1, <2>2, SMT DEF starts
  <2>4. \A start \in starts : bar >= start
    BY <1>2, <2>1, <2>2, SMT
  <2>5. last \in starts /\ last >= bar
    BY <2>3, <2>4, MaxIsGreatest
  <2> HIDE DEF last
  <2>6. m.offset \in Int /\ m.offset <= top
    <3>1. m.offset \in Int
      BY <1>1, MessagesAreKeys, SMT
    <3>2. m.offset <= Chart!MaxOffset(rows) /\ Chart!MaxOffset(rows) \in Int
          /\ bound = Chart!MaxOffset(rows) + 1
      BY <1>1, <1>5, MaxOffsetIsGreatest
    <3> QED
      BY <3>1, <3>2, SMT
  <2>7. last \in Nat /\ bar \in Nat
    BY <1>2, <2>3, <2>5
  <2> HIDE DEF top
  <2>8. m.offset < last + size
    BY <1>1, <2>1, <2>2, <2>5, <2>6, <2>7, SMT
  <2> QED
    BY <1>1, <2>8 DEF last, size
<1> QED
  BY <1>1, <1>4, <1>5 DEF Chart!EveryMessageCounted, rows

-----------------------------------------------------------------------------
(* The web application *)

LEMMA InitialState == Init => IInv
  BY CollectionInit, ReservationInit, AppInit, RegistrationInit, ListInit, ChartInit
     DEF Init, IInv

\* Each part keeps its own invariant, and the others' variables.
LEMMA PartStep ==
  ASSUME IInv, [Next]_vars
  PROVE  IInv' /\ ShownGoesOn
<1>0. /\ CollectionInv /\ ReservationInv /\ AppInv /\ RegistrationInv
      /\ ListInv /\ ChartInv /\ stored \subseteq Messages
  BY DEF IInv, ListInv, List!TypeOK
<1>1. CASE Polling
  <2>1. /\ Collection!Next \/ UNCHANGED collectionVars
        /\ Reservation!Next \/ UNCHANGED reservationVars
        /\ UNCHANGED <<stored, listVars, chartVars, registrationVars, appVars>>
    BY <1>1 DEF Polling
  <2>2. CollectionInv' /\ ShownGoesOn /\ ReservationInv'
    BY <1>0, <2>1, CollectionStep, CollectionStays, ReservationStep, ReservationStays
  <2> QED
    BY <1>0, <2>1, <2>2, AppStays, RegistrationStays, ListStays, ChartStays DEF IInv
<1>2. CASE Listing
  <2>1. /\ List!Next
        /\ UNCHANGED <<collectionVars, reservationVars, chartVars, registrationVars,
                       appVars>>
    BY <1>2 DEF Listing
  <2>2. ListInv' /\ stored' \subseteq Messages
    BY <1>0, <2>1, ListStep DEF ListInv, List!TypeOK
  <2> QED
    BY <1>0, <2>1, <2>2, CollectionStays, ReservationStays, AppStays,
       RegistrationStays, ChartStays DEF IInv
<1>3. CASE Charting
  <2>1. /\ Chart!Next
        /\ UNCHANGED <<collectionVars, reservationVars, listVars, registrationVars,
                       appVars>>
    BY <1>3 DEF Charting
  <2>2. ChartInv' /\ stored' \subseteq Messages
    BY <1>0, <2>1, ChartStep DEF ChartInv, Chart!TypeOK
  <2>3. stored \subseteq stored'
    BY <2>1 DEF Chart!Next, Chart!Store, Chart!Refresh, Chart!Select, Chart!Respond,
                Chart!LoadSucceeds, Chart!LoadFails
  <2> QED
    BY <1>0, <2>1, <2>2, <2>3, CollectionStays, ReservationStays, AppStays,
       RegistrationStays, ListStays DEF IInv
<1>4. CASE Registering
  <2>1. /\ Registration!Next
        /\ UNCHANGED <<collectionVars, reservationVars, stored, listVars, chartVars,
                       appVars>>
    BY <1>4 DEF Registering
  <2> QED
    BY <1>0, <2>1, RegistrationStep, CollectionStays, ReservationStays, AppStays,
       ListStays, ChartStays DEF IInv
<1>5. CASE Loading
  <2>1. /\ App!Next
        /\ UNCHANGED <<collectionVars, reservationVars, stored, listVars, chartVars,
                       registrationVars>>
    BY <1>5 DEF Loading
  <2> QED
    BY <1>0, <2>1, AppStep, CollectionStays, ReservationStays, RegistrationStays,
       ListStays, ChartStays DEF IInv
<1>6. CASE UNCHANGED vars
  <2>1. UNCHANGED <<collectionVars, reservationVars, stored, listVars, chartVars,
                    registrationVars, appVars>>
    BY <1>6 DEF vars
  <2> QED
    BY <1>0, <2>1, CollectionStays, ReservationStays, AppStays, RegistrationStays,
       ListStays, ChartStays DEF IInv
<1> QED
  BY <1>1, <1>2, <1>3, <1>4, <1>5, <1>6 DEF Next

LEMMA Invariance == Spec => []IInv
<1>1. IInv /\ [Next]_vars => IInv'
  BY PartStep
<1> QED
  BY <1>1, InitialState, PTL DEF Spec

\* Each page has at most one chain of polls, and the page of a collection has
\* exactly one while it shows an active job, whichever requests fail
\* (WebPages.PollInv: the clean-ups and timers of the effects).
THEOREM OneChainOfPolls == Spec => []PollInv
<1>1. IInv => PollInv
  BY DEF IInv, CollectionInv, ReservationInv, PollInv
<1> QED
  BY <1>1, Invariance, PTL

\* A page of a collection never shows an older job, or an earlier status of the
\* same job, after a newer one (WebPages.NeverGoesBack: its requests are never
\* answered across one another).
THEOREM ShownNeverGoesBack == Spec => NeverGoesBack
<1> DEFINE Goes ==
      workspace /\ workspace' =>
        \/ collection'.job > collection.job
        \/ /\ collection'.job = collection.job
           /\ Collection!Rank(collection'.status) >= Collection!Rank(collection.status)
<1>1. ASSUME IInv, [Next]_vars PROVE [Goes]_(Collection!vars)
  <2>1. ShownGoesOn /\ IInv'
    BY <1>1, PartStep
  <2>2. collection.job \in Nat /\ collection'.job \in Nat
    BY <1>1, <2>1, JobsAreRecords DEF IInv, CollectionInv, Collection!TypeOK
  <2> QED
    BY <2>1, <2>2, RankIsNumber, SMT DEF ShownGoesOn, AtMost
<1> HIDE DEF Goes
<1>2. Spec => [][Goes]_(Collection!vars)
  BY <1>1, Invariance, PTL DEF Spec
<1> QED
  BY <1>2 DEF Goes, NeverGoesBack, Collection!NeverGoesBack

\* The page of a stream never waits for nothing, and an empty list is an answer
\* (WebPages.LoadingInv: the effects of App, whose requests nothing cancels).
THEOREM PagesLoad == Spec => []LoadingInv
<1>1. IInv => LoadingInv
  BY DEF IInv, AppInv
<1> QED
  BY <1>1, Invariance, PTL

\* The search for a stream that is registered finds it, wherever others insert
\* theirs while it reads the pages (WebPages.SearchInv:
\* findStreamByYouTubeVideoId).
THEOREM SearchFinds == Spec => []SearchInv
<1>1. IInv => SearchInv
  BY DEF IInv, RegistrationInv, CallIsTrue, SearchInv
<1> QED
  BY <1>1, Invariance, PTL

\* Pages of messages come in order, show nothing twice and pass over nothing;
\* every position of a stream lies in one bar of its chart, and the bars count
\* every message once (WebPages.ReadingInv: ListMessages, SearchMessages,
\* ChatActivity and their components).
THEOREM ReadingIsTrue == Spec => []ReadingInv
<1>1. IInv => ReadingInv
  BY OneBar, EveryMessage DEF IInv, ListInv, ChartInv, ReadingInv
<1> QED
  BY <1>1, Invariance, PTL
===============================================================================
