----------------------------- MODULE ChatActivity -----------------------------
(***************************************************************************)
(* The chat activity of a stream: the buckets that ChatActivity computes     *)
(* (activity.go), and ChatActivityChart, which asks for them again whenever  *)
(* the user selects another bucket size (ChatActivity.tsx).                 *)
(*                                                                         *)
(* A message is a number and the offset at which it was sent; offsets of     *)
(* waiting-room messages are negative.  Offsets, durations and bucket sizes  *)
(* are in the unit of the smallest difference that matters.                  *)
(***************************************************************************)
EXTENDS Integers, FiniteSets, FiniteSetsExt

CONSTANTS
  Messages,   \* set of [id, offset]
  Durations,  \* values that duration_ms may have
  Sizes,      \* bucket sizes that may be selected
  NULL

VARIABLES
  stored,    \* the messages of the stream
  duration,  \* streams.duration_ms
  selected,  \* bucketSeconds of the chart
  calls,     \* size -> a request for it that has not been cancelled
  loaded     \* loadState

vars == <<stored, duration, selected, calls, loaded>>

-----------------------------------------------------------------------------
(* The query *)

MaxOffset(rows) == Max({m.offset : m \in rows})

\* Faulty variant: without the + 1 the last message falls out of the range.
BoundToLastOffset(rows, d) ==
  IF d # NULL THEN d ELSE IF rows = {} THEN 0 ELSE MaxOffset(rows)

\* bounds: the duration, or else the end of the last message, or else 0.
Bound(rows, d) ==
  IF d # NULL THEN d ELSE IF rows = {} THEN 0 ELSE MaxOffset(rows) + 1

\* Faulty variant: negative offsets are divided too, and SQL rounds only those
\* of the last bucket before 0 up to 0.
BucketOfNegative(m, size) ==
  IF m.offset < 0 THEN -((-m.offset) \div size) * size
  ELSE (m.offset \div size) * size

\* (GREATEST(offset, 0) / $2) * $2
BucketOf(m, size) == (Max({m.offset, 0}) \div size) * size

\* generate_series from 0 to GREATEST(bound - 1, 0) by size.
Series(bound, size) ==
  {start \in 0 .. Max({bound - 1, 0}) : start % size = 0}

\* The answer: the count of every bucket of the series.  LEFT JOIN keeps
\* buckets without messages and drops messages without a bucket.
Activity(rows, d, size) ==
  IF Bound(rows, d) > 0
  THEN [start \in Series(Bound(rows, d), size) |->
          Cardinality({m \in rows : BucketOf(m, size) = start})]
  ELSE <<>>

-----------------------------------------------------------------------------
(* The chart *)

\* A request, and what is known of its answer: what the query saw.
Load ==
  [size : Sizes \union {NULL}, status : {"none", "asked", "answered", "failed"},
   rows : SUBSET Messages, duration : Durations \union {NULL}]

Nothing == [size |-> NULL, status |-> "none", rows |-> {}, duration |-> NULL]
Asked(size) == [Nothing EXCEPT !.size = size, !.status = "asked"]

TypeOK ==
  /\ stored \subseteq Messages
  /\ duration \in Durations \union {NULL}
  /\ selected \in Sizes
  /\ calls \subseteq {load \in Load : load.status \in {"asked", "answered"}}
  /\ loaded \in Load /\ loaded.status # "asked"

Init ==
  /\ stored \in SUBSET Messages
  /\ duration \in Durations \union {NULL}
  /\ selected \in Sizes
  /\ calls = {Asked(selected)}
  /\ loaded = Nothing

\* upsert_batch of a worker.
Store(m) ==
  /\ m \notin stored
  /\ stored' = stored \union {m}
  /\ UNCHANGED <<duration, selected, calls, loaded>>

\* A reservation's check of YouTube refreshes the stream.
Refresh(d) ==
  /\ duration' = d
  /\ UNCHANGED <<stored, selected, calls, loaded>>

\* The API answers a request: one statement, hence one snapshot.
Respond(call) ==
  /\ call.status = "asked"
  /\ calls' = (calls \ {call}) \union
       {[call EXCEPT !.status = "answered", !.rows = stored,
                     !.duration = duration]}
  /\ UNCHANGED <<stored, duration, selected, loaded>>

\* The answer of a request that has not been cancelled arrives.
LoadSucceeds(call) ==
  /\ call.status = "answered"
  /\ calls' = calls \ {call}
  /\ loaded' = call
  /\ UNCHANGED <<stored, duration, selected>>

\* The request fails.
LoadFails(call) ==
  /\ calls' = calls \ {call}
  /\ loaded' = [Nothing EXCEPT !.size = call.size, !.status = "failed"]
  /\ UNCHANGED <<stored, duration, selected>>

\* Faulty variant: the effect has no clean-up, so older requests stay.
SelectKeepingCalls(size) ==
  /\ size # selected
  /\ selected' = size
  /\ calls' = calls \union {Asked(size)}
  /\ UNCHANGED <<stored, duration, loaded>>

\* The user selects another size: the clean-up of the effect cancels the
\* request under way, and the effect sends a new one.
Select(size) ==
  /\ size # selected
  /\ selected' = size
  /\ calls' = {Asked(size)}
  /\ UNCHANGED <<stored, duration, loaded>>

Next ==
  \/ \E m \in Messages : Store(m)
  \/ \E d \in Durations : Refresh(d)
  \/ \E size \in Sizes : Select(size)
  \/ \E call \in calls : Respond(call) \/ LoadSucceeds(call) \/ LoadFails(call)

Spec == Init /\ [][Next]_vars

\* currentState has an activity; otherwise the chart shows that it is loading,
\* or the error.
Ready == loaded.size = selected /\ loaded.status = "answered"

Bars == Activity(loaded.rows, loaded.duration, loaded.size)

-----------------------------------------------------------------------------
(* What the chart promises *)

(***************************************************************************)
(* "Continuous" buckets (contracts/openapi/v1.yaml, and                      *)
(* docs/ui/screens/stream-workspace.md: the bar that contains the playback   *)
(* position is active): a position within the stream lies in exactly one     *)
(* bar of the selected size, so one bar is active and seeking to it works.   *)
(***************************************************************************)
OneBarPerPosition ==
  Ready /\ Bars # <<>> =>
    LET positions == IF loaded.duration # NULL THEN 0 .. loaded.duration - 1
                     ELSE 0 .. Max({m.offset : m \in loaded.rows} \union {0})
    IN \A position \in positions :
         Cardinality({start \in DOMAIN Bars :
           start <= position /\ position < start + selected}) = 1

(***************************************************************************)
(* Every message is counted in one bar: the one of its offset, or the first  *)
(* if it was sent before the stream began; only messages behind the last bar *)
(* are left out, and there are none unless the stream has a duration.        *)
(***************************************************************************)
EveryMessageCounted ==
  Ready /\ Bars # <<>> =>
    LET rows == loaded.rows
        End == Max(DOMAIN Bars) + loaded.size
    IN /\ \A start \in DOMAIN Bars :
            Bars[start] = Cardinality({m \in rows :
              \/ start <= m.offset /\ m.offset < start + loaded.size
              \/ start = 0 /\ m.offset < 0})
       /\ loaded.duration = NULL => \A m \in rows : m.offset < End

(***************************************************************************)
(* The chart never waits for nothing: without a request under way it shows   *)
(* the answer, or the error, for the size that is selected.                 *)
(***************************************************************************)
SettledMeansShown == calls = {} => loaded.size = selected
=============================================================================
