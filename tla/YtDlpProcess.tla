---------------------------- MODULE YtDlpProcess ----------------------------
(***************************************************************************)
(* One run of yt-dlp under SubprocessYtDlpProcess (yt_dlp_process.py): the   *)
(* parent's wait loop, the deadline and the cancellation event, and the      *)
(* termination of the process group.                                        *)
(*                                                                         *)
(* start_new_session makes yt-dlp the leader of a group of its own, and what *)
(* it starts are helpers in that group.  A process may ignore SIGTERM.  A    *)
(* dead leader stays in the process table until the parent reaps it, and     *)
(* only then may its number name something else.  The branch for Windows is  *)
(* not modelled.                                                            *)
(***************************************************************************)

CONSTANTS
  Leader,   \* the yt-dlp process itself
  Helpers   \* processes that it may start

ASSUME LeaderIsNoHelper == Leader \notin Helpers

Members == {Leader} \union Helpers

VARIABLES
  proc,          \* member -> its life; "dying" has been hit by a signal
  stubborn,      \* members that ignore SIGTERM
  reaped,        \* the parent has collected the leader's exit status
  pc,            \* where the parent stands in run
  termination,   \* the ProcessTermination that it is going to return
  cancellation,  \* the event that _wait_for_process looks at
  late,          \* the deadline has passed
  signalled      \* the last signal sent to the group

vars == <<proc, stubborn, reaped, pc, termination, cancellation, late,
          signalled>>

TypeOK ==
  /\ proc \in [Members -> {"unborn", "running", "dying", "dead"}]
  /\ stubborn \subseteq Members
  /\ reaped \in BOOLEAN
  /\ pc \in {"polling", "waiting", "terminating", "grace", "reaping",
             "returned"}
  /\ termination \in {"none", "exited", "timed_out", "cancelled"}
  /\ cancellation \in BOOLEAN
  /\ late \in BOOLEAN
  /\ signalled \in {"none", "term", "kill"}

\* Popen has returned: yt-dlp runs in its own session.
Init ==
  /\ proc = [p \in Members |-> IF p = Leader THEN "running" ELSE "unborn"]
  /\ stubborn \in SUBSET Members
  /\ reaped = FALSE
  /\ pc = "polling"
  /\ termination = "none"
  /\ cancellation \in BOOLEAN
  /\ late \in BOOLEAN
  /\ signalled = "none"

-----------------------------------------------------------------------------
(* The processes and the world *)

Alive(p) == proc[p] \in {"running", "dying"}

Exit(p) ==
  /\ Alive(p)
  /\ proc' = [proc EXCEPT ![p] = "dead"]
  /\ UNCHANGED <<stubborn, reaped, pc, termination, cancellation, late,
                 signalled>>

StartHelper(p) ==
  /\ proc[p] = "unborn"
  /\ proc[Leader] = "running"
  /\ proc' = [proc EXCEPT ![p] = "running"]
  /\ UNCHANGED <<stubborn, reaped, pc, termination, cancellation, late,
                 signalled>>

\* A signal or the heartbeat thread sets the event.
Cancel ==
  /\ ~cancellation
  /\ cancellation' = TRUE
  /\ UNCHANGED <<proc, stubborn, reaped, pc, termination, late, signalled>>

DeadlinePasses ==
  /\ ~late
  /\ late' = TRUE
  /\ UNCHANGED <<proc, stubborn, reaped, pc, termination, cancellation,
                 signalled>>

-----------------------------------------------------------------------------
(* The parent *)

Unchanged == UNCHANGED <<stubborn, cancellation, late>>

\* poll() and a wait() that does not time out collect the exit status.
Reap == proc[Leader] = "dead" /\ reaped' = TRUE

\* The top of the loop: poll, the event, the deadline, in this order.
Poll ==
  /\ pc = "polling"
  /\ \/ /\ Reap
        /\ pc' = "returned"
        /\ termination' = "exited"
     \/ /\ proc[Leader] # "dead"
        /\ cancellation
        /\ pc' = "terminating"
        /\ termination' = "cancelled"
        /\ UNCHANGED reaped
     \/ /\ proc[Leader] # "dead"
        /\ ~cancellation
        /\ late
        /\ pc' = "terminating"
        /\ termination' = "timed_out"
        /\ UNCHANGED reaped
     \/ /\ proc[Leader] # "dead"
        /\ ~cancellation
        /\ ~late
        /\ pc' = "waiting"
        /\ UNCHANGED <<reaped, termination>>
  /\ UNCHANGED <<proc, signalled>>
  /\ Unchanged

\* process.wait(timeout=min(poll_interval, remaining)) returns or times out.
\* When it returns, the poll that follows ends the loop.
Wait ==
  /\ pc = "waiting"
  /\ \/ /\ Reap
        /\ pc' = "returned"
        /\ termination' = "exited"
     \/ /\ pc' = "polling"
        /\ UNCHANGED <<reaped, termination>>
  /\ UNCHANGED <<proc, signalled>>
  /\ Unchanged

\* os.killpg: what a signal does to the members of the group it is lethal to.
HitBy(targets) ==
  [p \in Members |-> IF p \in targets /\ Alive(p) THEN "dying" ELSE proc[p]]

\* Faulty variant: the loop goes on after the signal and finds the exit.
TerminateAndPoll ==
  /\ pc = "terminating"
  /\ IF proc[Leader] = "dead"
     THEN /\ Reap
          /\ pc' = "returned"
          /\ UNCHANGED <<proc, signalled, termination>>
     ELSE /\ proc' = HitBy(Members \ stubborn)
          /\ signalled' = "term"
          /\ pc' = "waiting"
          /\ UNCHANGED <<reaped, termination>>
  /\ Unchanged

\* _terminate_process_tree: a leader that has just exited is collected and
\* nothing is sent; otherwise SIGTERM goes to the group.
Terminate ==
  /\ pc = "terminating"
  /\ IF proc[Leader] = "dead"
     THEN /\ Reap
          /\ pc' = "returned"
          /\ UNCHANGED <<proc, signalled>>
     ELSE /\ proc' = HitBy(Members \ stubborn)
          /\ signalled' = "term"
          /\ pc' = "grace"
          /\ UNCHANGED reaped
  /\ UNCHANGED termination
  /\ Unchanged

\* Faulty variant: waiting for the leader without a limit.
GraceForEver ==
  /\ pc = "grace"
  /\ Reap
  /\ pc' = "returned"
  /\ UNCHANGED <<proc, signalled, termination>>
  /\ Unchanged

\* Faulty variant: SIGKILL in any case, to get rid of the helpers too.
GraceThenAlwaysKill ==
  /\ pc = "grace"
  /\ \/ Reap
     \/ UNCHANGED reaped
  /\ proc' = HitBy(Members)
  /\ signalled' = "kill"
  /\ pc' = "reaping"
  /\ UNCHANGED termination
  /\ Unchanged

\* process.wait(timeout=termination_grace); when it times out, SIGKILL goes to
\* the group.
Grace ==
  /\ pc = "grace"
  /\ \/ /\ Reap
        /\ pc' = "returned"
        /\ UNCHANGED <<proc, signalled>>
     \/ /\ proc' = HitBy(Members)
        /\ signalled' = "kill"
        /\ pc' = "reaping"
        /\ UNCHANGED reaped
  /\ UNCHANGED termination
  /\ Unchanged

\* The last process.wait().
FinalWait ==
  /\ pc = "reaping"
  /\ Reap
  /\ pc' = "returned"
  /\ UNCHANGED <<proc, signalled, termination>>
  /\ Unchanged

Parent == Poll \/ Wait \/ Terminate \/ Grace \/ FinalWait

Finished == pc = "returned" /\ UNCHANGED vars

Next ==
  \/ Parent
  \/ Cancel
  \/ DeadlinePasses
  \/ \E p \in Members : Exit(p)
  \/ \E p \in Helpers : StartHelper(p)
  \/ Finished

Spec == Init /\ [][Next]_vars

(***************************************************************************)
(* The parent thread is scheduled, and the kernel delivers signals.          *)
(* yt-dlp itself need never exit.                                           *)
(***************************************************************************)
Fairness ==
  /\ WF_vars(Parent)
  /\ \A p \in Members : WF_vars(proc[p] = "dying" /\ Exit(p))

FairSpec == Spec /\ Fairness

-----------------------------------------------------------------------------
(* What run promises its caller *)

(***************************************************************************)
(* When run returns, the leader's exit status has been collected: exit_code *)
(* is a number, no zombie is left, and yt-dlp no longer writes into the      *)
(* attempt directory that collect is about to read or remove.               *)
(***************************************************************************)
LeaderIsGone == pc = "returned" => reaped

(***************************************************************************)
(* An artifact is imported only if yt-dlp ended by itself: a run in which    *)
(* the parent sent a signal is never reported as exited, and a run is       *)
(* reported as cancelled or timed out only if it was.                       *)
(***************************************************************************)
TerminationIsTrue ==
  pc = "returned" =>
    /\ termination = "exited" => signalled = "none"
    /\ termination = "cancelled" => cancellation
    /\ termination = "timed_out" => late

(***************************************************************************)
(* What a caller of run may conclude from its result, with the types.        *)
(***************************************************************************)
ResultInv == TypeOK /\ LeaderIsGone /\ TerminationIsTrue

(***************************************************************************)
(* A signal is sent only while the leader has not been reaped: afterwards    *)
(* its number may name another process group.                               *)
(***************************************************************************)
NoSignalToStrangers == [][signalled' # signalled => ~reaped']_vars

(***************************************************************************)
(* A cancelled or overdue run returns, even if yt-dlp ignores SIGTERM, so    *)
(* that a shutdown and the deadline of an attempt are not a request.         *)
(***************************************************************************)
StopIsHonoured == (cancellation \/ late) ~> pc = "returned"

=============================================================================
