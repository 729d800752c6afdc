-------------------------- MODULE StreamRegistration --------------------------
(***************************************************************************)
(* Registering a stream in the web application: the form with its preview    *)
(* (App.tsx, StreamListPage.tsx), the table of streams behind it             *)
(* (streams/service.go, streams/repository.go), and the search for the       *)
(* stream that is already registered (findStreamByYouTubeVideoId in          *)
(* client.ts), which reads page after page while others register streams.    *)
(*                                                                         *)
(* A stream is its YouTube video.  The list is ordered by created_at, the    *)
(* time the transaction began and not the time it committed, and then by a   *)
(* random UUID: a new stream may come anywhere in it.                        *)
(***************************************************************************)
EXTENDS Naturals, Sequences, FiniteSets, SequencesExt

CONSTANTS
  Videos,    \* YouTube videos
  Typed,     \* bound: those whose URLs are typed
  PageSize,  \* pageSize of findStreamByYouTubeVideoId
  ListSize,  \* limit of the list that the page shows
  NULL       \* no preview; a URL that names no video


VARIABLES
  table,       \* the registered streams in the order of the list
  url,         \* the video that the input names
  preview,     \* the video that the preview shows
  previewing,  \* a preview is under way for this URL; "idle" if there is none
  streams,     \* the streams of the list that the page has loaded
  call         \* handleRegister

vars == <<table, url, preview, previewing, streams, call>>

Registered == ToSet(table)

\* What handleRegister captured, where it stands, and how it ended.
Call ==
  [state : {"idle", "sent", "created", "exists", "failed", "asked", "page"},
   url : Videos \union {NULL}, preview : Videos \union {NULL},
   offset : Nat, page : Seq(Videos),
   end : {"none", "created", "found", "not_found", "error"}]

Idle ==
  [state |-> "idle", url |-> NULL, preview |-> NULL, offset |-> 0,
   page |-> <<>>, end |-> "none"]

TypeOK ==
  /\ table \in Seq(Videos) /\ IsInjective(table)
  /\ url \in Videos \union {NULL}
  /\ preview \in Videos \union {NULL}
  /\ previewing \in Videos \union {NULL, "idle"}
  /\ streams \subseteq Registered
  /\ call \in Call

Init ==
  /\ table = <<>>
  /\ url = NULL
  /\ preview = NULL
  /\ previewing = "idle"
  /\ streams = {}
  /\ call = Idle

-----------------------------------------------------------------------------
(* Everybody else *)

\* The statements of Create and Upsert that insert a row.
Inserted(video) ==
  {InsertAt(table, i, video) : i \in 1 .. Len(table) + 1}

OtherRegisters(video) ==
  /\ video \notin Registered
  /\ table' \in Inserted(video)
  /\ UNCHANGED <<url, preview, previewing, streams, call>>

\* Faulty variant: the list is ordered by updated_at.
ObservedMovesUp(video) ==
  /\ IF video \in Registered
     THEN table' = <<video>> \o Remove(table, video)
     ELSE table' \in Inserted(video)
  /\ UNCHANGED <<url, preview, previewing, streams, call>>

\* upsertObservedStream of a reservation's monitor: created_at stays.
Observed(video) ==
  /\ IF video \in Registered THEN UNCHANGED table
     ELSE table' \in Inserted(video)
  /\ UNCHANGED <<url, preview, previewing, streams, call>>

-----------------------------------------------------------------------------
(* The form *)

Type(video) ==
  /\ url' = video
  /\ UNCHANGED <<table, preview, previewing, streams, call>>

\* The list is loaded whenever the path changes.  Answers of several requests
\* may arrive in any order: the list is some page that there has been.
ListArrives ==
  /\ \E page \in SUBSET Registered :
       Cardinality(page) <= ListSize /\ streams' = page
  /\ UNCHANGED <<table, url, preview, previewing, call>>

StartPreview ==
  /\ previewing = "idle"
  /\ previewing' = url
  /\ UNCHANGED <<table, url, preview, streams, call>>

\* A URL that names no video is refused, and a request may fail: the preview
\* that was there stays.
PreviewEnds ==
  /\ previewing # "idle"
  /\ previewing' = "idle"
  /\ \/ previewing # NULL /\ preview' = previewing
     \/ UNCHANGED preview
  /\ UNCHANGED <<table, url, streams, call>>

\* The button is on the preview card.  What is sent is the URL of the input.
Register ==
  /\ preview # NULL
  /\ call.state = "idle"
  /\ call' = [Idle EXCEPT !.state = "sent", !.url = url, !.preview = preview]
  /\ UNCHANGED <<table, url, preview, previewing, streams>>

-----------------------------------------------------------------------------
(* The API *)

\* Service.Register: fetchMetadata may fail; the unique key of the video
\* decides whether Create inserts.
Create ==
  /\ call.state = "sent"
  /\ \/ call' = [call EXCEPT !.state = "failed"] /\ UNCHANGED table
     \/ /\ call.url \in Registered
        /\ call' = [call EXCEPT !.state = "exists"]
        /\ UNCHANGED table
     \/ /\ call.url \in Videos \ Registered
        /\ table' \in Inserted(call.url)
        /\ call' = [call EXCEPT !.state = "created"]
  /\ UNCHANGED <<url, preview, previewing, streams>>

\* ListItems with LIMIT PageSize OFFSET offset.
AnswerPage ==
  /\ call.state = "asked"
  /\ call' = [call EXCEPT !.state = "page",
        !.page = SubSeq(table, call.offset + 1,
                        Min({call.offset + PageSize, Len(table)}))]
  /\ UNCHANGED <<table, url, preview, previewing, streams>>

-----------------------------------------------------------------------------
(* handleRegister *)

Ended(how) ==
  [Idle EXCEPT !.url = call.url, !.preview = call.preview, !.end = how]

\* The answer of the registration.  A stream that exists already is looked up
\* in the list that is loaded, and then in the pages of the API.
RegisterAnswered ==
  /\ \/ call.state = "created" /\ call' = Ended("created")
     \/ call.state = "failed" /\ call' = Ended("error")
     \/ /\ call.state = "exists"
        /\ call' = IF call.preview \in streams THEN Ended("found")
                   ELSE [call EXCEPT !.state = "asked"]
  /\ UNCHANGED <<table, url, preview, previewing, streams>>

\* Faulty variant: the next request asks for the same page.
SearchPageAgain ==
  /\ call.state = "page"
  /\ call' = IF call.preview \in ToSet(call.page) THEN Ended("found")
             ELSE IF Len(call.page) < PageSize THEN Ended("not_found")
             ELSE [call EXCEPT !.state = "asked", !.page = <<>>]
  /\ UNCHANGED <<table, url, preview, previewing, streams>>

\* findStreamByYouTubeVideoId: found, or the last page, or the next one.
SearchPage ==
  /\ call.state = "page"
  /\ call' = IF call.preview \in ToSet(call.page) THEN Ended("found")
             ELSE IF Len(call.page) < PageSize THEN Ended("not_found")
             ELSE [call EXCEPT !.state = "asked", !.page = <<>>,
                               !.offset = @ + PageSize]
  /\ UNCHANGED <<table, url, preview, previewing, streams>>

\* A request fails, before or after the API handled it.
RequestFails ==
  /\ call.state # "idle"
  /\ call' = Ended("error")
  /\ UNCHANGED <<table, url, preview, previewing, streams>>

Registration == Create \/ AnswerPage \/ RegisterAnswered \/ SearchPage

Next ==
  \/ \E video \in Videos : OtherRegisters(video) \/ Observed(video)
  \/ \E video \in Typed \union {NULL} : Type(video)
  \/ ListArrives \/ StartPreview \/ PreviewEnds \/ Register
  \/ Registration \/ RequestFails

Spec == Init /\ [][Next]_vars

\* The API answers, and the browser handles its answers.
Fairness == WF_vars(Registration)

FairSpec == Spec /\ Fairness

-----------------------------------------------------------------------------
(* What the form promises *)

(***************************************************************************)
(* A stream that is refused because it is registered is found: the search    *)
(* does not miss it although streams are inserted before, between and behind *)
(* the pages that it reads.                                                 *)
(***************************************************************************)
ExistingIsFound == call.end = "not_found" => call.url # call.preview

(***************************************************************************)
(* A registration ends, and with it the time for which the button is        *)
(* disabled: the search runs out of pages although streams are inserted.     *)
(***************************************************************************)
RegistrationEnds == call.state # "idle" ~> call.state = "idle"
=============================================================================
