----------------------------- MODULE ApiContract -----------------------------
(***************************************************************************)
(* What a client of the API may rely on, for one video: a command takes      *)
(* effect once or not at all, in one moment between the request and its      *)
(* answer.  "done" and "refused" tell what happened; when the answer is 500,  *)
(* or does not come, it may have happened or not, but it will not later.     *)
(***************************************************************************)
EXTENDS Naturals

CONSTANTS Clients, Ids

VARIABLES
  registered,  \* the stream is there
  active,      \* a collection of it is queued or running
  retryable,   \* the failed collections that can be retried
  reserved,    \* the reservation that can be cancelled, 0 if there is none
  busy,        \* ... or one that cannot be, but is not over
  calls

vars == <<registered, active, retryable, reserved, busy, calls>>

Commands == {"CreateStream", "StartCollection", "RetryCollection",
             "CreateReservation", "CancelReservation"}

NoCall == [pc |-> "idle", op |-> "none", id |-> 0, result |-> "none"]

Init ==
  /\ registered = FALSE /\ active = FALSE /\ retryable = {}
  /\ reserved = 0 /\ busy = FALSE
  /\ calls = [c \in Clients |-> NoCall]

Ask(c) ==
  /\ calls[c].pc = "idle"
  /\ \E op \in Commands, id \in Ids \union {0} :
       calls' = [calls EXCEPT ![c] = [pc |-> "asked", op |-> op, id |-> id,
                                      result |-> "none"]]
  /\ UNCHANGED <<registered, active, retryable, reserved, busy>>

Possible(op, id) ==
  CASE op = "CreateStream" -> ~registered
    [] op = "StartCollection" -> registered
    [] op = "RetryCollection" -> id \in retryable /\ ~active
    [] op = "CreateReservation" -> reserved = 0 /\ ~busy
    [] op = "CancelReservation" -> id # 0 /\ id = reserved

Effect(op) ==
  /\ registered' = (registered \/ op = "CreateStream")
  /\ active' = (active \/ op \in {"StartCollection", "RetryCollection"})
  /\ CASE op = "CreateReservation" -> reserved' \in Ids
       [] op = "CancelReservation" -> reserved' = 0
       [] OTHER -> UNCHANGED reserved
  /\ UNCHANGED <<retryable, busy>>

\* YouTube may know nothing of the video that shall be registered.
Perform(c) ==
  LET call == calls[c]
  IN  /\ call.pc = "asked"
      /\ \/ /\ Possible(call.op, call.id)
            /\ Effect(call.op)
            /\ calls' = [calls EXCEPT ![c].pc = "performed", ![c].result = "done"]
         \/ /\ ~Possible(call.op, call.id) \/ call.op = "CreateStream"
            /\ calls' = [calls EXCEPT ![c].pc = "performed",
                                      ![c].result = "refused"]
            /\ UNCHANGED <<registered, active, retryable, reserved, busy>>

\* The result, or 500, or nothing.
Answer(c) ==
  /\ calls[c].pc # "idle"
  /\ calls' = [calls EXCEPT ![c] = NoCall]
  /\ UNCHANGED <<registered, active, retryable, reserved, busy>>

\* Collections end, and broadcasts are collected or given up.
Others ==
  /\ \/ /\ active /\ active' = FALSE
        /\ retryable \subseteq retryable'
        /\ UNCHANGED <<reserved, busy>>
     \/ /\ reserved # 0 /\ reserved' = 0 /\ busy' \in BOOLEAN
        /\ UNCHANGED <<active, retryable>>
     \/ /\ busy /\ busy' = FALSE
        /\ UNCHANGED <<active, retryable, reserved>>
  /\ UNCHANGED <<registered, calls>>

Next == \/ \E c \in Clients : Ask(c) \/ Perform(c) \/ Answer(c)
        \/ Others

Spec == Init /\ [][Next]_vars
=============================================================================
