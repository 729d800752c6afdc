----------------------------- MODULE StreamPage -----------------------------
(***************************************************************************)
(* How the web application (App in App.tsx) loads the list of streams and    *)
(* the stream that its path names.  Nothing cancels these requests, so       *)
(* answers arrive for pages that the user has left, in any order; an answer  *)
(* that changes selectedStream runs the effect again.                       *)
(*                                                                         *)
(* An effect belongs to the state change that causes it.  Whether a stream   *)
(* exists does not change while its page is open: its UUID is given out when *)
(* it is registered, and nothing deletes it.                                *)
(***************************************************************************)
EXTENDS Naturals, FiniteSets, FiniteSetsExt

CONSTANTS
  Streams,   \* registered streams
  Missing,   \* UUIDs in paths that name no stream
  MaxCalls,  \* bound: requests of each kind that are under way
  NULL

Ids == Streams \union Missing
Paths == Ids \union {"streams", "reservations"}

VARIABLES
  path,
  selectedStream,
  notFound,
  error,          \* an error of getStream is shown
  gets,           \* stream -> getStream requests under way
  isLoadingList,
  libraryError,
  listed,         \* setStreams has been called
  lists           \* listStreams requests under way

list == <<isLoadingList, libraryError, listed, lists>>
detail == <<selectedStream, notFound, error, gets>>
vars == <<path, list, detail>>

\* That no entry of gets exceeds MaxCalls follows from the sum that MayCall
\* compares, not from the entry itself, and is not part of the type.
TypeOK ==
  /\ path \in Paths
  /\ selectedStream \in Streams \union {NULL}
  /\ notFound \in BOOLEAN /\ error \in BOOLEAN
  /\ gets \in [Ids -> Nat]
  /\ isLoadingList \in BOOLEAN /\ libraryError \in BOOLEAN /\ listed \in BOOLEAN
  /\ lists \in 0 .. MaxCalls

Calls == MapThenSumSet(LAMBDA id : gets[id], Ids)

\* The page is opened at any path; both effects run.
Init ==
  /\ path \in Paths
  /\ selectedStream = NULL
  /\ notFound = FALSE
  /\ error = FALSE
  /\ gets = [id \in Ids |-> IF path = id THEN 1 ELSE 0]
  /\ isLoadingList = (path # "reservations")
  /\ libraryError = FALSE
  /\ listed = FALSE
  /\ lists = IF path # "reservations" THEN 1 ELSE 0

\* Faulty variant: the effect depends on the path only.
LoadsOnPath(oldPath, newPath, oldStream, newStream) ==
  newPath \in Ids /\ newPath # newStream /\ newPath # oldPath

\* The second effect: it runs when the path or the id of the selected stream
\* changes, and asks for the stream of the path if it is not the selected one.
Loads(oldPath, newPath, oldStream, newStream) ==
  /\ newPath \in Ids
  /\ newPath # newStream
  /\ newPath # oldPath \/ newStream # oldStream

\* What the effects add to the requests under way, of which some have ended.
RunEffects(remaining) ==
  /\ gets' = [id \in Ids |-> remaining[id] +
                IF id = path' /\ Loads(path, path', selectedStream, selectedStream')
                THEN 1 ELSE 0]
  /\ lists' = lists + IF path' # path /\ path' # "reservations" THEN 1 ELSE 0

MayCall == Calls < MaxCalls /\ lists < MaxCalls

-----------------------------------------------------------------------------
(* The user *)

\* Faulty variant: the list is not marked as loading.
NavigateQuietly(next) ==
  /\ MayCall
  /\ path' = next
  /\ UNCHANGED <<isLoadingList, libraryError, listed,
                 selectedStream, notFound, error>>
  /\ RunEffects(gets)

\* navigate, and the handler of popstate.
Navigate(next) ==
  /\ MayCall
  /\ path' = next
  /\ IF next = "reservations" THEN UNCHANGED <<isLoadingList, libraryError>>
     ELSE isLoadingList' = TRUE /\ libraryError' = FALSE
  /\ UNCHANGED <<listed, selectedStream, notFound, error>>
  /\ RunEffects(gets)

\* A registration that was begun on the list ends: navigateToStream.
NavigateToStream(stream) ==
  /\ MayCall
  /\ selectedStream' = stream
  /\ path' = stream
  /\ UNCHANGED <<isLoadingList, libraryError, listed, notFound, error>>
  /\ RunEffects(gets)

\* A preview or a registration begins.
ClearErrors ==
  /\ path = "streams"
  /\ error' = FALSE
  /\ notFound' = FALSE
  /\ UNCHANGED <<path, list, selectedStream, gets>>

-----------------------------------------------------------------------------
(* The answers *)

GetSucceeds(id) ==
  /\ gets[id] > 0
  /\ id \in Streams
  /\ selectedStream' = id
  /\ UNCHANGED <<path, isLoadingList, libraryError, listed, notFound, error>>
  /\ RunEffects([gets EXCEPT ![id] = @ - 1])

\* handleRequestError with STREAM_NOT_FOUND.
GetFindsNothing(id) ==
  /\ gets[id] > 0
  /\ id \in Missing
  /\ gets' = [gets EXCEPT ![id] = @ - 1]
  /\ notFound' = TRUE
  /\ error' = FALSE
  /\ UNCHANGED <<path, list, selectedStream>>

\* handleRequestError with anything else.
GetFails(id) ==
  /\ gets[id] > 0
  /\ gets' = [gets EXCEPT ![id] = @ - 1]
  /\ error' = TRUE
  /\ UNCHANGED <<path, list, selectedStream, notFound>>

ListSucceeds ==
  /\ lists > 0
  /\ lists' = lists - 1
  /\ listed' = TRUE
  /\ libraryError' = FALSE
  /\ isLoadingList' = FALSE
  /\ UNCHANGED <<path, detail>>

ListFails ==
  /\ lists > 0
  /\ lists' = lists - 1
  /\ libraryError' = TRUE
  /\ isLoadingList' = FALSE
  /\ UNCHANGED <<path, listed, detail>>

GetEnds(id) == GetSucceeds(id) \/ GetFindsNothing(id) \/ GetFails(id)
ListEnds == ListSucceeds \/ ListFails

Next ==
  \/ \E next \in Paths : Navigate(next)
  \/ \E stream \in Streams : NavigateToStream(stream)
  \/ ClearErrors
  \/ \E id \in Ids : GetEnds(id)
  \/ ListEnds

Spec == Init /\ [][Next]_vars

-----------------------------------------------------------------------------
(* What the pages promise *)

ShowsList == path = "streams"

(***************************************************************************)
(* docs/ui/screens/stream-list.md:215: the list is never shown as empty      *)
(* before an answer has arrived, whatever requests of earlier pages fail or  *)
(* succeed meanwhile.                                                       *)
(***************************************************************************)
EmptyMeansListed == ShowsList /\ ~isLoadingList /\ ~libraryError => listed

(***************************************************************************)
(* The page of a stream never waits for nothing: until it shows the stream a *)
(* request for it is under way, unless an error or 404 is shown.  Late       *)
(* answers for other pages, which replace selectedStream, do not change this.*)
(***************************************************************************)
NeverWaitsForNothing ==
  path \in Ids /\ selectedStream # path => gets[path] > 0 \/ error \/ notFound
=============================================================================
