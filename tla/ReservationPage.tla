--------------------------- MODULE ReservationPage ---------------------------
(***************************************************************************)
(* ReservationDetail of the web application (ReservationsPage.tsx): the page *)
(* that shows one reservation, polls while it is active, and lets the user   *)
(* cancel it.  A load and a cancellation may be under way at the same time,  *)
(* each takes any time, and each may fail before or after the API has        *)
(* handled it.                                                              *)
(*                                                                         *)
(* The reservation is reduced to what the page tells apart: "waiting" stands *)
(* for the four states in which canCancel holds (Reservation models the      *)
(* rest).  An effect and its clean-up belong to the state change that causes *)
(* them.                                                                    *)
(***************************************************************************)

TERMINAL_STATES == {"completed", "failed", "canceled"}
State == {"waiting", "collecting"} \union TERMINAL_STATES

VARIABLES
  state,        \* the reservation in the database
  reservation,  \* what the page shows; "undefined" before the first answer
  error,        \* an error is shown
  timer,        \* the timeout of the next poll is set
  load,         \* the request of the first effect or of a poll
  cancel,       \* the request of the button
  open          \* the page is mounted

vars == <<state, reservation, error, timer, load, cancel, open>>

\* A request is idle, sent, or handled with this answer.
Request == {"idle", "sent", "problem"} \union State
Handled(request) == request \notin {"idle", "sent"}

TypeOK ==
  /\ state \in State
  /\ reservation \in State \union {"undefined"}
  /\ error \in BOOLEAN
  /\ timer \in BOOLEAN
  /\ load \in Request \ {"problem"}
  /\ cancel \in {"idle", "sent", "problem", "canceled"}
  /\ open \in BOOLEAN

Init ==
  /\ open \in BOOLEAN
  /\ state \in State
  /\ reservation = "undefined"
  /\ error = FALSE
  /\ timer = FALSE
  /\ load = IF open THEN "sent" ELSE "idle"
  /\ cancel = "idle"

-----------------------------------------------------------------------------
(* The monitor, other users, and the API *)

MonitorActs ==
  /\ \/ state = "waiting" /\ state' \in {"collecting", "failed"}
     \/ state = "collecting" /\ state' = "completed"
  /\ UNCHANGED <<reservation, error, timer, load, cancel, open>>

OtherUserCancels ==
  /\ state = "waiting"
  /\ state' = "canceled"
  /\ UNCHANGED <<reservation, error, timer, load, cancel, open>>

HandleLoad ==
  /\ load = "sent"
  /\ load' = state
  /\ UNCHANGED <<state, reservation, error, timer, cancel, open>>

HandleCancel ==
  /\ cancel = "sent"
  /\ IF state = "waiting"
     THEN state' = "canceled" /\ cancel' = "canceled"
     ELSE cancel' = "problem" /\ UNCHANGED state
  /\ UNCHANGED <<reservation, error, timer, load, open>>

-----------------------------------------------------------------------------
(* The page *)

\* Faulty variant: the effect depends on the state, not on the object, so an
\* answer with the same state does not set the timer again.
SetOnChange(next) ==
  /\ reservation' = next
  /\ timer' = (next \notin TERMINAL_STATES /\ (timer \/ next # reservation))

\* setReservation: the effect replaces the timer, or ends it.
SetReservation(next) ==
  /\ reservation' = next
  /\ timer' = (next \notin TERMINAL_STATES)

LoadArrives ==
  /\ Handled(load)
  /\ load' = "idle"
  /\ SetReservation(load)
  /\ error' = FALSE
  /\ UNCHANGED <<state, cancel, open>>

\* A failed request is shown; no timer is set for another one.
LoadFails ==
  /\ load # "idle"
  /\ load' = "idle"
  /\ error' = TRUE
  /\ UNCHANGED <<state, reservation, timer, cancel, open>>

TimerFires ==
  /\ timer
  /\ timer' = FALSE
  /\ load' = "sent"
  /\ UNCHANGED <<state, reservation, error, cancel, open>>

\* The button is shown when canCancel, and disabled while it works.
PressCancel ==
  /\ open
  /\ reservation = "waiting"
  /\ cancel = "idle"
  /\ cancel' = "sent"
  /\ error' = FALSE
  /\ UNCHANGED <<state, reservation, timer, load, open>>

CancelArrives ==
  /\ Handled(cancel)
  /\ cancel' = "idle"
  /\ IF cancel = "problem"
     THEN error' = TRUE /\ UNCHANGED <<reservation, timer>>
     ELSE SetReservation(cancel) /\ UNCHANGED error
  /\ UNCHANGED <<state, load, open>>

CancelFails ==
  /\ cancel # "idle"
  /\ cancel' = "idle"
  /\ error' = TRUE
  /\ UNCHANGED <<state, reservation, timer, load, open>>

\* The user leaves.  Answers that still come find no component; the API may
\* handle a cancellation later, as it may one of another user.
Close ==
  /\ open
  /\ open' = FALSE
  /\ reservation' = "undefined"
  /\ error' = FALSE
  /\ timer' = FALSE
  /\ load' = "idle" /\ cancel' = "idle"
  /\ UNCHANGED state

Open ==
  /\ ~open
  /\ open' = TRUE
  /\ load' = "sent"
  /\ UNCHANGED <<state, reservation, error, timer, cancel>>

Page ==
  \/ LoadArrives \/ LoadFails \/ TimerFires
  \/ PressCancel \/ CancelArrives \/ CancelFails
  \/ Close \/ Open

Next == MonitorActs \/ OtherUserCancels \/ HandleLoad \/ HandleCancel \/ Page

Spec == Init /\ [][Next]_vars

(***************************************************************************)
(* Timers fire, a request ends in some way, and of many loads one succeeds.  *)
(***************************************************************************)
Fairness ==
  /\ WF_vars(TimerFires)
  /\ SF_vars(HandleLoad)
  /\ SF_vars(LoadArrives)
  /\ WF_vars(HandleCancel)
  /\ WF_vars(CancelArrives \/ CancelFails)

FairSpec == Spec /\ Fairness

-----------------------------------------------------------------------------
(* What the page promises *)

ShowsEnd == reservation \in TERMINAL_STATES
ShowsActive == reservation \in {"waiting", "collecting"}
Overdue == open /\ ShowsActive /\ state \in TERMINAL_STATES

(***************************************************************************)
(* One timer or one load at a time, never both: a page does not start a      *)
(* second chain of polls when the answer of a cancellation meets a load.     *)
(***************************************************************************)
OnePoll == ~(timer /\ load # "idle")

(***************************************************************************)
(* A page does not show a reservation as active for ever when it has ended,  *)
(* unless it shows an error: this includes a load that was handled before a  *)
(* cancellation and arrives after its answer.                               *)
(***************************************************************************)
EndOrErrorIsShown == Overdue ~> ~open \/ ShowsEnd \/ error
=============================================================================
