------------------------------- MODULE WebPages -------------------------------
(***************************************************************************)
(* The web application: the parts of it that keep state of their own between  *)
(* requests.                                                                *)
(*                                                                         *)
(*   "polling"       CollectionWorkspace and ReservationDetail, of which at   *)
(*                   most one is mounted (CollectionPage, ReservationPage)   *)
(*   "list"          the chat messages of a stream (ChatPages)               *)
(*   "chart"         the chat activity of a stream (ChatActivity)            *)
(*   "registration"  the form of the stream list (StreamRegistration)        *)
(*   "loading"       the requests of App itself (StreamPage)                 *)
(*                                                                         *)
(* They share the API and no state of the browser, except that the list and   *)
(* the chart read the same messages and that a registration that ends changes *)
(* the path, which StreamPage has as a step of its own.  So a behaviour       *)
(* follows one part, and the others stay as they are before they are opened.  *)
(***************************************************************************)
EXTENDS Integers, Sequences, FiniteSets

CONSTANTS
  MaxJobs,    \* bound: collection jobs of a stream
  Messages,   \* chat messages, a set of keys [offset, id]
  Hits,       \* those whose text matches the search
  Limit,      \* size of a page of messages
  Durations,  \* values that duration_ms may have
  Sizes,      \* bucket sizes that may be selected
  Videos,     \* YouTube videos
  Typed,      \* bound: those whose URLs are typed
  PageSize,   \* pageSize of findStreamByYouTubeVideoId
  ListSize,   \* limit of the stream list
  Streams,    \* registered streams that paths name
  Missing,    \* UUIDs in paths that name no stream
  MaxCalls,   \* bound: requests of App that are under way
  NULL

ASSUME MaxJobsIsPositive == MaxJobs \in Nat \ {0}
ASSUME MessagesAreKeys == Messages \subseteq [offset : Int, id : Nat]
ASSUME MessagesAreFinite == IsFiniteSet(Messages)
ASSUME HitsAreMessages == Hits \subseteq Messages
ASSUME SizesOfPages == {Limit, PageSize, ListSize} \subseteq Nat \ {0}
ASSUME DurationsAreNumbers == Durations \subseteq Nat /\ NULL \notin Durations
ASSUME SizesArePositive == Sizes \subseteq Nat \ {0} /\ NULL \notin Sizes
ASSUME TypedAreVideos == Typed \subseteq Videos
ASSUME NullIsNothing == NULL \notin Videos \union Streams \union Messages
ASSUME DifferentStreams == Streams \intersect Missing = {}
ASSUME IdsAreNoPages ==
  {"streams", "reservations"} \intersect (Streams \union Missing) = {}
ASSUME MaxCallsIsPositive == MaxCalls \in Nat \ {0}

VARIABLES
  followed,   \* the part that the behaviour follows
  latest, collection, submitting, pollTimer, firstLoad, poll, submit,
  workspace,                                               \* of CollectionPage
  state, reservation, error, timer, load, cancel, detail,  \* of ReservationPage
  stored,                                                  \* the messages
  reads, shown, cursor, loading, calls, known,             \* of ChatPages
  duration, selected, requests, loaded,                    \* of ChatActivity
  table, url, preview, previewing, streams, call,          \* of StreamRegistration
  path, selectedStream, notFound, streamError, gets,
  isLoadingList, libraryError, listed, lists               \* of StreamPage

collectionVars ==
  <<latest, collection, submitting, pollTimer, firstLoad, poll, submit, workspace>>
reservationVars == <<state, reservation, error, timer, load, cancel, detail>>
listVars == <<reads, shown, cursor, loading, calls, known>>
chartVars == <<duration, selected, requests, loaded>>
registrationVars == <<table, url, preview, previewing, streams, call>>
appVars == <<path, selectedStream, notFound, streamError, gets,
             isLoadingList, libraryError, listed, lists>>
vars == <<followed, collectionVars, reservationVars, stored, listVars, chartVars,
          registrationVars, appVars>>

Collection ==
  INSTANCE CollectionPage WITH
    timer <- pollTimer, load <- firstLoad, open <- workspace
Reservation == INSTANCE ReservationPage WITH open <- detail
List == INSTANCE ChatPages
Chart == INSTANCE ChatActivity WITH calls <- requests
Registration == INSTANCE StreamRegistration
App == INSTANCE StreamPage WITH error <- streamError

Parts == {"polling", "list", "chart", "registration", "loading"}

OnePage == ~(workspace /\ detail)

\* What a part that is not followed looks like.
Initially ==
  /\ followed # "polling" => /\ ~workspace /\ latest = Collection!NoJob
                             /\ ~detail /\ state = "waiting"
  /\ followed \notin {"list", "chart"} => stored = {}
  /\ followed # "list" => reads = "list"
  /\ followed # "chart" =>
       duration = NULL /\ selected = CHOOSE size \in Sizes : TRUE
  /\ followed # "loading" => path = "reservations"

Init ==
  /\ followed \in Parts
  /\ Collection!Init /\ Reservation!Init /\ OnePage
  /\ List!Init /\ Chart!Init
  /\ Registration!Init /\ App!Init
  /\ Initially

Polling ==
  /\ \/ Collection!Next /\ UNCHANGED reservationVars
     \/ Reservation!Next /\ UNCHANGED collectionVars
  /\ OnePage'
  /\ UNCHANGED <<stored, listVars, chartVars, registrationVars, appVars>>

Listing ==
  /\ List!Next
  /\ UNCHANGED <<collectionVars, reservationVars, chartVars,
                 registrationVars, appVars>>

Charting ==
  /\ Chart!Next
  /\ UNCHANGED <<collectionVars, reservationVars, listVars,
                 registrationVars, appVars>>

Registering ==
  /\ Registration!Next
  /\ UNCHANGED <<collectionVars, reservationVars, stored, listVars, chartVars,
                 appVars>>

Loading ==
  /\ App!Next
  /\ UNCHANGED <<collectionVars, reservationVars, stored, listVars, chartVars,
                 registrationVars>>

Next ==
  /\ \/ followed = "polling" /\ Polling
     \/ followed = "list" /\ Listing
     \/ followed = "chart" /\ Charting
     \/ followed = "registration" /\ Registering
     \/ followed = "loading" /\ Loading
  /\ UNCHANGED followed

\* Each part's own; a part that is not followed has no request and no timer.
Fairness ==
  /\ Collection!Fairness
  /\ Reservation!Fairness
  /\ Registration!Fairness

Spec == Init /\ [][Next]_vars /\ Fairness

-----------------------------------------------------------------------------

(***************************************************************************)
(* Each page keeps one chain of polls: CollectionWorkspace exactly one while *)
(* it shows an active job, ReservationDetail at most one.                    *)
(***************************************************************************)
PollInv ==
  /\ Collection!TypeOK /\ Collection!OnePoll
  /\ Reservation!TypeOK /\ Reservation!OnePoll

(***************************************************************************)
(* CollectionWorkspace never shows an older job, or an earlier status of the *)
(* same one, after a newer, in whatever order its requests are answered.     *)
(***************************************************************************)
NeverGoesBack == Collection!NeverGoesBack

(***************************************************************************)
(* CollectionWorkspace notices that the job it shows as active has ended,    *)
(* whatever polls fail.                                                     *)
(***************************************************************************)
CatchesUp == Collection!CatchesUp

(***************************************************************************)
(* ReservationDetail notices that the reservation has ended, or shows that a *)
(* request failed.                                                          *)
(***************************************************************************)
EndOrErrorIsShown == Reservation!EndOrErrorIsShown

(***************************************************************************)
(* ListMessages, SearchMessages and ChatMessageList: the pages are in the    *)
(* order of offsets and ids, show nothing twice, and pass over no message    *)
(* that was stored when the first of them was read.  ChatActivity and its    *)
(* chart: every position of the stream lies in exactly one bar, a bar counts  *)
(* the messages of its bucket, and the chart shows an answer or an error for *)
(* the size that is selected unless a request for it is under way.           *)
(***************************************************************************)
ReadingInv ==
  /\ List!TypeOK /\ List!StrictlyOrdered /\ List!NothingSkipped
  /\ Chart!TypeOK
  /\ Chart!OneBarPerPosition /\ Chart!EveryMessageCounted
  /\ Chart!SettledMeansShown

(***************************************************************************)
(* findStreamByYouTubeVideoId finds the stream that is registered already,   *)
(* wherever others insert streams while it reads the pages.                  *)
(***************************************************************************)
SearchInv == Registration!TypeOK /\ Registration!ExistingIsFound

(***************************************************************************)
(* handleRegister ends, however many streams are inserted meanwhile.         *)
(***************************************************************************)
RegistrationEnds == Registration!RegistrationEnds

(***************************************************************************)
(* App: the page of a stream never waits for nothing, and the list is never  *)
(* shown as empty before an answer has come, although answers arrive for     *)
(* pages that the user has left.                                            *)
(***************************************************************************)
LoadingInv ==
  App!TypeOK /\ App!EmptyMeansListed /\ App!NeverWaitsForNothing
=============================================================================
