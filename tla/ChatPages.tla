------------------------------ MODULE ChatPages ------------------------------
(***************************************************************************)
(* Reading the chat messages of a stream in pages, while imports store more  *)
(* of them: ListMessages and SearchMessages (repository.go, service.go), the *)
(* cursor, and ChatMessageList of the web application (App.tsx), which       *)
(* appends one page after the other.  The search of the web application      *)
(* shows its first page only; "search" here is a client of the API that      *)
(* follows the cursor of SearchMessages in the same way.                     *)
(*                                                                         *)
(* Messages are only ever inserted (FirstWriteWins of ChatImport).  A        *)
(* message is its key, the offset and the UUID, because nothing else decides *)
(* on which page it appears.                                                *)
(***************************************************************************)
EXTENDS Integers, Sequences, FiniteSets, SequencesExt

CONSTANTS
  Messages,  \* set of keys [offset, id]
  Hits,      \* those whose text matches the search
  Limit,     \* page size
  NULL

VARIABLES
  stored,   \* the messages in chat_messages
  reads,    \* "list" or "search": which of the two operations is called
  shown,    \* the messages that are shown, in this order
  cursor,   \* nextCursor; NULL before the first page and at the end
  loading,  \* isLoading
  calls,    \* the requests that are under way, oldest first
  known     \* the messages that were there when the first page was read

vars == <<stored, reads, shown, cursor, loading, calls, known>>

Call ==
  [after : Messages \union {NULL}, answered : BOOLEAN,
   items : Seq(Messages), next : Messages \union {NULL}]

TypeOK ==
  /\ stored \subseteq Messages
  /\ reads \in {"list", "search"}
  /\ shown \in Seq(Messages)
  /\ cursor \in Messages \union {NULL}
  /\ loading \in BOOLEAN
  /\ calls \in Seq(Call) /\ Len(calls) <= 1  \* one request at a time
  /\ known \subseteq Messages

-----------------------------------------------------------------------------
(* The statement *)

KeyLess(m, n) ==
  m.offset < n.offset \/ (m.offset = n.offset /\ m.id < n.id)

\* Faulty variant: the comparison forgets the second column.
BeforeByOffset(m, n) == m.offset < n.offset

\* (offset_milliseconds, id) > ($2, $3)
Before(m, n) == KeyLess(m, n)

\* The rows of the table that the operation is about.
Visible == IF reads = "search" THEN stored \intersect Hits ELSE stored

\* The WHERE clause; without a cursor it starts below every key.
Beyond(found, after) ==
  IF after = NULL THEN found ELSE {m \in found : Before(after, m)}

\* ORDER BY offset_milliseconds, id: row i comes after i - 1 others.
InOrder(found) ==
  [i \in 1 .. Cardinality(found) |->
     CHOOSE m \in found : Cardinality({n \in found : KeyLess(n, m)}) = i - 1]

\* LIMIT limit + 1.
Rows(after) ==
  LET rows == InOrder(Beyond(Visible, after)) IN
    SubSeq(rows, 1, Min({Len(rows), Limit + 1}))

\* NextCursor: the last item of the page, if the extra row was there.
NextCursor(rows) == IF Len(rows) > Limit THEN rows[Limit] ELSE NULL

PageItems(rows) == SubSeq(rows, 1, Min({Len(rows), Limit}))

-----------------------------------------------------------------------------

Request(after) ==
  [after |-> after, answered |-> FALSE, items |-> <<>>, next |-> NULL]

\* The effect of ChatMessageList asks for the first page when it is mounted.
Init ==
  /\ stored \in SUBSET Messages
  /\ reads \in {"list", "search"}
  /\ shown = <<>>
  /\ cursor = NULL
  /\ loading = TRUE
  /\ calls = <<Request(NULL)>>
  /\ known = {}

\* upsert_batch of a worker.
Store(m) ==
  /\ m \notin stored
  /\ stored' = stored \union {m}
  /\ UNCHANGED <<reads, shown, cursor, loading, calls, known>>

\* The API answers the request at position i.
Answer(i) ==
  LET rows == Rows(calls[i].after) IN
    /\ ~calls[i].answered
    /\ calls' = [calls EXCEPT ![i].answered = TRUE,
                              ![i].items = PageItems(rows),
                              ![i].next = NextCursor(rows)]
    /\ known' = IF calls[i].after = NULL THEN Visible ELSE known
    /\ UNCHANGED <<stored, reads, shown, cursor, loading>>

\* The answer arrives: the first page replaces the list, a later one is
\* appended to it.
ShowPage(i) ==
  /\ calls[i].answered
  /\ shown' = IF calls[i].after = NULL THEN calls[i].items
              ELSE shown \o calls[i].items
  /\ cursor' = calls[i].next
  /\ loading' = FALSE
  /\ calls' = RemoveAt(calls, i)
  /\ UNCHANGED <<stored, reads, known>>

\* The request fails, before or after the API answered it: the error is shown
\* and the cursor stays.
LoadFails(i) ==
  /\ loading' = FALSE
  /\ calls' = RemoveAt(calls, i)
  /\ UNCHANGED <<stored, reads, shown, cursor, known>>

\* The button below the list.
LoadMore ==
  /\ cursor # NULL
  /\ ~loading
  /\ loading' = TRUE
  /\ calls' = Append(calls, Request(cursor))
  /\ UNCHANGED <<stored, reads, shown, cursor, known>>

Next ==
  \/ \E m \in Messages : Store(m)
  \/ LoadMore
  \/ \E i \in DOMAIN calls : Answer(i) \/ ShowPage(i) \/ LoadFails(i)

Spec == Init /\ [][Next]_vars

-----------------------------------------------------------------------------
(* What a reader may rely on *)

(***************************************************************************)
(* contracts/openapi/v1.yaml: messages come "ordered by offset milliseconds *)
(* and message ID", over all pages together, and none comes twice (React    *)
(* would also refuse two list items of one key).                            *)
(***************************************************************************)
StrictlyOrdered ==
  \A i, j \in DOMAIN shown : i < j => KeyLess(shown[i], shown[j])

(***************************************************************************)
(* Nothing that was stored when the first page was read is passed over,      *)
(* whatever imports insert in between: what is known and not yet shown lies  *)
(* beyond the cursor, and without a cursor it is all shown.                 *)
(***************************************************************************)
NothingSkipped ==
  shown # <<>> =>
    \A m \in known \ ToSet(shown) : cursor # NULL /\ KeyLess(cursor, m)

=============================================================================
